# A TLA+ model of homelab-k3s-mcp

`homelab-k3s-mcp` is an MCP server that lets agents operate a k3s cluster and a
few integrations. Its core is the *approval gate*: every call that changes the
cluster, reads a sensitive kind or proxies into it is put before a human
operator (through the PocketAide backend) and runs only if, as long as, and on
the state for which it was approved. The model follows that promise from the
HTTP exchange with PocketAide, through the dispatcher and its three gated paths,
to the kubernetes request and the event record.

## The system

| Part | Source | State it keeps | Operations |
|---|---|---|---|
| Gate client | `internal/approvalgate` | per call: where Authorize is, the drawn externalId, the Decision and whether it is spent; two timers | `Authorize` (describe, POST once, GET until decided, deadline, cancellation), `Consume`; `Unavailable` refuses everything |
| Gated dispatch | `internal/mcp/mcp.go`, `gate.go`, `confine.go` | per call: the target state captured for the approval, the note for the record | `toolsCall`, `authorize`, `readGateTarget`, `confirmTargetUnchanged`, `invoke`, `outcome` |
| Create batch | `internal/mcp/create_gate.go`, `create.go` | per call: the documents, a Decision per document, the report | `callCreateBatch`: ask for all, then create in order, stop at the first failure |
| Collection delete | `internal/mcp/delete_collection.go` | per call: the listed selection | `callDeleteCollection`: list, ask, list again and compare, delete by selector |
| Kubernetes client | `internal/k8s/resource.go`, `collection_precondition.go` | the discovery mapper, shared under a mutex; per listing: the snapshot so far and its cursor | `resolve` with its one refresh; one request per operation, preconditions in update and patch only; `ListTargets` page by page |
| Stream tools | `internal/k8s/exec.go`, `attach.go`, `port_forward.go`, `proxy.go`, `client.go`, watch in `resource.go`; their handlers in `internal/mcp` | per call: a window, capped buffers, the goroutines of the connection | `ExecResource`, `AttachResource`, `PortForwardResource`, `ProxyResource`, `WatchResources`, `ExecInPod` |
| Event records | `internal/eventlog` | none | one record per call |
| Authentication | `internal/auth` | two JWKS caches; the GitHub rules, fixed at the start | verify a bearer, refresh on an unknown kid |
| Scopes and GitHub tokens | `internal/auth/github_oidc.go`, `internal/toolscope`, `internal/github`, token caps in `mcp.go` | per call: the caller's tools, caps and own repository, a minted token | parse the rules or refuse to start, `grantsFor`, `applyTokenCaps`, `CreateInstallationToken`, `CreateCommitStatus`, `revokeToken` |
| Integrations | `sessionplatform`, `opensearch`, `grafana`, `awsconfig`, `drop`, `pocketaide` | none to speak of | one request per tool |

Calls run concurrently, one goroutine each, and share nothing but the cluster,
the backend and the caches. What is hard about the gate is time: minutes pass
between the read that the operator is shown and the execution, and in that time
answers are lost, deadlines fire, the operator decides too late, the target
changes or is replaced, the caller goes away. What is hard about the streams is
that five things may end one (the far side, the window, the byte cap, the caller,
the transport) and that goroutines and buffers outlive some of the endings; about
the reads, that the cluster moves under a listing and under the mapper; about the
token caps, the combinations: several caps, things left out, lists that exclude.
PROJECT.json lists these hazards
line by line with the property that covers each.

## Modules

```
        ApprovedExecution           what the operator is promised
          ^       ^      ^
   GatedCall CreateBatch DeleteCollection      the three gated paths
          \       |      /
           GateContract             what the gate promises the paths
                ^
           ApprovalGate             the live client and PocketAide

   Streams    CollectionSnapshot    Authentication    TokenScopes
                      |
                  Discovery         (extended by CollectionSnapshot)
```

An arrow up is a refinement: `ImplementsContract` in ApprovalGate and
`ImplementsApprovedExecution` in each gated path. The paths EXTEND GateContract
and take its actions as the gate's half of their own steps.

- **ApprovedExecution**: an operation is performed only once approved, at most
  once per approval, and never, before or after, once reported refused.
- **GateContract**: one answer per call. `granted` is the backend's view and
  `answer` the caller's: a timed-out or unreachable call may still be granted
  later, a rejected, expired, unconfigured or undescribable one never is.
- **ApprovalGate**: `stage` is the position in `Authorize`; `post` and `reply`
  split each HTTP exchange, so that the backend may act on a request whose answer
  is lost or late. PocketAide (rows, auto-response, expiry, the operator) is
  external and modelled from what the client relies on. The backend's row id and
  the drawn externalId are one: the client only ever polls the id its own create
  response carried. A pending answer that finds the deadline or the cancellation
  already there enters the stage "overdue": Go's select can then only take one
  of these two, the poll timer having just been started.
- **GatedCall**: `Receive` is toolsCall up to the gate, then one action per step
  of `authorize`; a handler's kubernetes request is sent, applied and answered in
  three steps. `Declarations` holds the registry's shapes (which verbs, resolved
  or not, with a target or not, gated always or never), and the gated tools are
  computed from them as `gatedPairs` does; `NeedsApproval` states independently
  which tools must be gated. An object is its uid and its resourceVersion.
  `hits`, `raced` are history variables: the states a request was applied to, and
  the calls whose target moved after their last check, moved by somebody else: a
  call does not race itself.
- **CreateBatch**: the documents are the calls of the gate; the report's three
  lists are part of the state. A kubernetes client is rebuilt per document, so a
  configuration that breaks midway is one of the failures.
- **DeleteCollection**: the apiserver lists the selection for itself and deletes
  object by object, interleaved with everything else.
- **Authentication**: stands beside the gate, in front of every request. `stage`
  is the position in RequireBearer and keyForKid: the two lookups, the fetch and
  the store are separate steps, because only the lookups and the replacement of
  the map hold the lock. The issuers, which rotate their keys, are external; a
  JWT is the issuer it claims, its kid and whose signature makes it sound. A
  refusal is decided first and answered later (`Answer`): the 401 is written after
  the record, and the record after the body, which the client may withhold. A key
  whose exponent is too long ends its request in a panic (`FetchPanics`).
  `steady`, `failed`, `overtaken` are history: whose key stayed published, whose
  fetch failed, and before whose second lookup another answer was stored.
- **Streams**: one call of one of the six streaming tools. `stage` runs from the
  resolver's argument checks (each tool's check set is named after its parser) over
  the approval and the kubernetes layer's own checks to the connection and the
  answer. `ctx` is why the call's context ended: its window, a full buffer, the
  caller, or the return. The copiers, the stdin reader and the reader of the error
  stream are `routines` of their own that write into `kept` while the call reads
  its answer from it in two steps, flags and text. What the far side writes is a
  count per channel; `Limit` is the byte cap. A read of a buffer is atomic here.
- **Discovery**: the mapper all calls share, its mutex held over a rebuild that
  asks group by group, the single refresh of a call, and a plain read after it.
  Kinds are installed and removed meanwhile. `steady`, `missed`, `offered` are
  history: whose kind stayed served, whose own discovery lost its group, and what
  was ever served.
- **CollectionSnapshot**: ListTargets on top of Discovery. `past` holds the
  collection at every revision; a page comes from the snapshot, or from a server
  that moved on, started again, repeated a cursor or stopped short (`StrayPages`).
  A page that stops short with neither a cursor nor a count of what remains
  (`HushedPages`) looks like the last one, and the code takes it for that: it accepts
  a missing count, which a list with a selector need not have. DeleteCollection
  takes a listing to be complete, which it is from a server that does not do this.
- **TokenScopes**: the server's start with any of a set of rule configurations,
  then one call of the token tool or the commit status tool by any caller. The
  caps of a caller are their places in the rules, so that the same cap given twice
  counts twice, as it does in the code. What caps and requests allow is read a
  second time, independently, as sets of (repository, permission, level)
  (`Powers`), and the code's decision is compared with that reading. GitHub is
  external: it mints what was asked or, the case the code guards against, an
  excluded write on top. An empty list of repositories or an empty object of
  permissions is read as everything, the widest it could mean to GitHub.
- **\*Proofs**: the theorems about the module they are named after.
- **MC\***: the instances TLC checks; each says what its bounds are for.

Message texts, argument parsing, rendering, masking, logging and durations are
left out. Argument checks are kept by *where* they happen: before the gate
("early") or only in the handler ("late"). The gate's own steps on the way to a
verdict are modelled in ApprovalGate alone; the paths use the contract.

## Runs

| Run | Instance | Shows |
|---|---|---|
| `gate` | 2 calls, 2 ids | approvals are the call's own, honest about auto-approval, one request per call; the contract is implemented; every Authorize that has sent its request returns |
| `gated_call` | 2 calls, 1 object, all 9 tool shapes, 2 changes by others | the promise to the operator; updates and patches hit the approved state only; the others miss it only by a race after the confirming read; records tell the verdict |
| `create_batch` | 3 documents, 2 names, 3 request ids | the promise per document; no creation before every approval; a truthful report |
| `delete_collection` | 2 calls, 2 objects, 2 changes by others | the promise per call; nothing deleted that was not shown unless the selection moved after the second listing; records tell the verdict |
| `authentication` | 2 checks, 2 kids, both issuers, 1 rotation, every set of configured verifiers | a JWT is accepted only by its own issuer's verifier under a key that issuer published; no refresh empties a cache; a sound token is refused only if its fetch failed or an older answer overtook its own; every check comes to a verdict |
| `streams` | 1 call of any of the 6 tools, cap 1, 2 watch events, 3 units written | a cut answer says so, exit codes are the command's, failures have a cause, stdin does not shorten an attach, open streams end and leave no goroutine |
| `cluster_reads` | a listing and a plain read, 1 kind, 3 names, pages of at most 2, 2 pages, 2 targets, 1 change of the collection, 2 of the kind | a kind is called unknown only if it was away or the call's own discovery failed for it; what a listing hands out is of one state of the collection, and all of that state unless the server cut it without a word; size refusals are real; nobody waits for the mapper for ever |
| `token_scopes` | 366 configurations, 4 callers, every request over 2 repositories and 2 permissions | requests are decided by one cap whole and refused only for cause; no caller with caps gets workflows on its own repository, and one without only by an empty list or object; excluded writes are never handed out and tokens kept back are revoked; a written status is reported |

Two calls suffice for the interactions the code has: calls meet only in the
backend's id space and on the cluster's objects, pairwise. Two outside changes
allow one on each side of a check, or a deletion and a recreation. Three
documents give a batch a first, a middle and a last one. `gate` has no bound at
all besides the sets; `MaxRevision` bounds changes by others, not those made by
the calls. One rotation between two fetches is what makes an older answer
differ from a newer one. In `streams` a cap of one unit is passed with two and
a third can follow while the call already returns; stream calls share nothing, so
one is enough. In `cluster_reads` three names pass both limits, and one change
falls between any two pages; the second call is there to hold the mutex and to
replace the mapper. In `token_scopes` two caps suffice, for no decision compares
more than two, and GitHub calls share nothing but rules that never change. Deadlock checking is off because every run ends when its calls have.

Four runs expect a violation; each shows where a statement in the repository and
the code disagree:

- `gated_call_spent`: parseManifest's comment wants to save approvals from
  being spent on a manifest that contradicts its coordinate, but the check runs
  in the handler, after the approval was spent.
- `forward_window`: a test says that a silent open port is the normal case and that
  "the window has to be what ends the call", but roundTrip goes on to wait for the
  error stream, without a window; the test's fake ends that stream at once.
- `proxy_cut`: a comment in ProxyResource says that `Truncated` tells of a body cut by
  the cap or by the window, and AC15 of prd-resource-generic that a cut body nobody
  declares cannot be told from a whole one; only the cap sets `Truncated`.
- `attach_cap`: AC13 of the same document has an attach whose output passes the cap answer with
  stdoutTruncated or stderrTruncated; the call ends in an error instead, without
  the output it had.

Four more disagreements came up on the way and are described here only:

- A batch that meets an unusable client at its second document is recorded
  "refused" (`mcp.go:463-475`), of which `eventlog.go:83-84` says that nothing was
  sent, although its first document was created. In CreateBatch that is
  `InvokeEnds` past the first document.
- AC5 of prd-approval-gate and the comment on Call.Describe (`approvalgate.go:207-208`) say that an
  unconfigured gate refuses without calling the kubernetes API; a collection delete
  lists its selection first (`delete_collection.go:87`).
- `internal/mcp/proxy.go:26-31` says that a path which does not parse must not cost
  an approval; the path is parsed in `internal/k8s/proxy.go:164`, after the approval
  was spent. It is `gated_call_spent` again in another tool.
- AC11(2) of prd-platform-auth-safety denies a workflow `workflows` on its own repository whatever its caps.
  guardSelfWorkflows (`mcp.go:613-617`) looks for names in the request, so a caller
  without caps passes it with an empty list or object, which applyTokenCap refuses
  and `token_cap_test.go:80-88` counts as wider. `CapsAreKept` names this one
  exception and shows that there is no other; what GitHub makes of such a request is
  not to be seen in this repository.

Where the code falls short of a wish without contradicting itself, the passing
properties say so: a delete, an exec or a gated read may hit a state changed after
the confirming read (`UncheckedWindowStartsAtRead`, and the comment on
confirmTargetUnchanged concedes it); a token kept back outlives a caller who left
(`TokensAreAccountedFor`). `CutIsSaid` and `FailureHasACause` leave out the two cases
that `proxy_cut` and `attach_cap` are about.

## Fairness

In `gate`, for `EveryAuthorizeReturns`, assumed fair are the goroutine's own steps,
the end of each HTTP exchange (the client's 30 s timeout) and the firing of the
poll's deadline timer. The operator, PocketAide's answers, expiry and the caller are
*not* fair, and neither is what comes before the request is sent: the description
reads the apiserver without a timeout. The property starts once the request is out.

In `authentication`, for `EveryCheckIsDecided`, the check's own steps are fair and a
fetch may fail at any time and eventually does if it is not answered (the client's
10 s timeout); the issuers are not fair, and `Answer` is not: the server has no
ReadTimeout, so a client that withholds its body holds its own refusal back. What is
claimed is the verdict, not the answer.

In `streams`, for `StreamsEnd`, fair are the call's own steps, its goroutines', its
timers, and the release of a reader whose connection was closed; the far side, the
error stream, the dial, the caller and the operator are not, so a tool that ends
ends by its own means. The end of a dial is not fair even after the window: client-go
does not read the answer to the SPDY upgrade under the context. The claim for exec,
attach and reset therefore starts at the open stream, for a proxied request, plain
HTTP under the context, at the connection.

In `cluster_reads`, for `ResolvesEnd`, the mutex is strongly fair (Go's does not
starve a waiter) and discovery's requests end, at the latest by the discovery
client's default timeout of 32 s; requests for objects have none and are not fair.

The gated paths claim no liveness: requests to the apiserver carry no timeout of
their own, so the code does not guarantee that a call returns.

## Proofs

Each proof module EXTENDS the module it is about. The theorems hold for every
value of the constants that meets the named assumptions; all of them follow from
one inductive invariant per module, `Inv`, which TLC has checked on the run's
instance before it was proved (`Invariance`, with one lemma per group of conjuncts
and in it one step per action).

| Module | Theorems | From |
|---|---|---|
| `ApprovalGateProofs` | `TypeCorrect`, `ApprovalIsOwn`, `AutoApprovalIsHonest`, `AtMostOneRequest`, `Refinement` of GateContract | any calls and ids; `NoCall`, `NoId` are none of them |
| `GatedCallProofs` | `TypeCorrect`, `RecordIsTruthful`, `WritesAreApproved`, `UncheckedWindow`, `Refinement` of ApprovedExecution | any calls and objects; the tools are among the declared ones |
| `CreateBatchProofs` | `TypeCorrect`, `AllApprovedFirst`, `TruthfulReport`, `Refinement` of ApprovedExecution | any number of documents but none; any names and ids |
| `DeleteCollectionProofs` | `TypeCorrect`, `DeletesOnlyShown`, `RecordIsTruthful`, `Refinement` of ApprovedExecution | any calls and objects |
| `AuthenticationProofs` | `TypeCorrect`, `AcceptedOnlyByItsIssuer`, `CacheKeepsKeys`, `RefusedOnlyByRace` | any requests, kids and number of rotations; tool calls are requests |
| `TokenScopesProofs` | `TypeCorrect`, `CapsDecide`, `TokensAccounted`, `StatusReport` | any rules, callers, repositories and permissions; the named permissions exist, caps have their type, `Nil` is neither a list nor a permission set |
| `CollectionSnapshotProofs` | `TypeCorrect`, `UnknownIsUnknown`, `OneState`, `RefusalIsReal` | any calls, kinds, names, page sizes and limits; listers are calls, the limits are positive |
| `StreamsProofs` | `TypeCorrect`, `CutSaid`, `ExitCode`, `FailureCause`, `AttachWindow` | any positive byte cap and event cap, any amount of output above the byte cap |

The two refinement layers fit together: the paths take GateContract's steps for
the gate's, and ApprovalGate implements GateContract, so the promise of
ApprovedExecution rests on the live client for any number of calls.

Why the invariants need strengthening, module by module:

- **ApprovalGate**: that an approved call owns its row needs to know whose row a
  reply came from. `Inv` ties every stage to the backend: a row belongs to the call
  that drew its id and whose POST was handled (`RowInv`), a polling call owns a row
  (`ProgressInv`), a reply on its way agrees with that row (`ReplyInv`: a verdict
  once given does not change, an auto-response travels only with the create), and
  so does a verdict once returned (`VerdictInv`).
- **GatedCall**: what a request was applied to is known only if the request, while
  it travels, is known to belong to an approved call (`StageInv`, `WireInv`); an
  update's condition compares resourceVersions only, which protects it because a
  version a call has seen names one state (`VersionInv`); the calls without a
  condition still see the confirmed state until they are raced (`WindowInv`).
- **CreateBatch**: two loops over one index; `AskingInv` and `RunningInv` are what
  each loop knows of the documents before, at and after it, `DoneInv` what is left
  of them when the batch stops.
- **DeleteCollection**: equality at the second listing does not last, since the
  call's own deletion shrinks the selection; `WindowInv` keeps the inclusion.
- **Authentication**: a verdict rests on a cache that another check may have filled,
  so `KeysInv` follows every key from its issuer over a fetch's answer into the
  cache, and `SteadyInv` the one key a sound token needs.
- **TokenScopes**: `CapIsKept`, `RefusalIsReal`, `GuardHasNothingLeft` and
  `CapsHoldNoWorkflows` relate the tests on one cap and one request to the reference
  reading as powers, for every cap and every request; `LetThrough`, `RefusedByAll` and `GuardKeepsWorkflows` lift
  them to the caps of a caller; the rest of `Inv` is the call's program counter.
- **CollectionSnapshot** (with Discovery): after any number of pages the map holds
  exactly the pinned state's objects up to the cursor (`ProgressInv`); an honest page
  extends that by a segment (`HonestPage`), so does a silently cut one, which is then
  taken for the end (`HushedPage`), and a page of any other origin that does not fit
  is refused (`StrayIsRefused`). A kind that was served all along is, at
  every point of a resolve, found, still to be asked for, or missed by a failed
  request (`ResolveInv`).
- **Streams**: an answer is put together while copiers may still run, so the text and
  the flags are read at different times. `Inv` keeps what can no longer change by
  then: a stream that ended by itself has no copier left and all its bytes in the
  writers (`CopyInv`, `ReturnInv`, `AllRead`), and any other ending left a mark in
  the context, the remote side or a full writer that is never taken back
  (`MarksStay`); `TextInv` and `FlagsInv` carry that through the two reads.
  `Background` treats everything beside the call's own goroutine at once, `Moves`
  says which of its own steps leads where.

Only model-checked: `EveryAuthorizeReturns`, `EveryCheckIsDecided`, `StreamsEnd` and
`ResolvesEnd`, because liveness under fairness is out of the prover's reach. Every
other property of a passing run is a theorem.

## Plan

1. *Done*: ApprovalGate with its contract, the three gated paths, the gate's proofs.
2. *Done*: Authentication, the two JWKS caches racing rotation and each other.
3. *Done*: Discovery and CollectionSnapshot. Left: to state `SnapshotIsOneState` as
   a refinement of the atomic `Targets` of DeleteCollection.
4. *Done*: Streams.
5. *Done*: TokenScopes, the rules, grants, caps and GitHub tokens.
6. **Declarations** and confinement (`mcp/gate.go`, `confine.go`, `provenance.go`):
   what validateRegistry accepts, `approvalNeed` against `gatedPairs`, a confined
   client against the gated pairs.
7. *Done*: the safety proofs of every module.

## Not modelled

The single-request integrations (session platform, OpenSearch, Grafana, AWS, drop,
notifications), whose state lives in other systems; the static tool schemas; the
registry's start-up validation and confinement (planned above); metrics, tracing
and wiring; within the modelled parts, the rendering of tables and approval
texts, masking, pod log options, the ranking of similar kinds, and SPDY itself.

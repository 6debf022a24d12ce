----------------------------- MODULE GatedCall -----------------------------
(***************************************************************************)
(* One tools/call, from the dispatcher to the cluster and back to its      *)
(* event record: toolsCall, authorize, the gate's read of the target, the  *)
(* re-read after the verdict, and the handler's kubernetes request.  The   *)
(* gate is the contract of GateContract; the cluster is a set of objects   *)
(* that anyone may change, delete or recreate while a call waits.  Sending *)
(* a request, the apiserver acting on it and the client learning of it are *)
(* three steps: an answer may be lost, and a request given up on may still *)
(* be acted upon.  resource_create and resource_delete_collection take     *)
(* gated paths of their own.                                               *)
(***************************************************************************)
EXTENDS GateContract, Naturals, Sequences

CONSTANTS
    Objects,      \* named kubernetes objects
    Tools,        \* the tools the clients call, names of Declarations
    MaxRevision   \* the world stops changing objects at this revision

\* A permission pair: its verb, and whether its kind is one of
\* RESOURCE_GATED_KINDS.
Pair(verb, sensitive) == [verb |-> verb, sensitive |-> sensitive]

\* The registry's shapes.  "exec" stands for exec, attach and port_forward,
\* which declare alike; "reset" is dear_baby_reset_user, the one exemption.
Declarations ==
    LET generic(p) == [pairs |-> {p}, resolve |-> TRUE, target |-> TRUE,
                       outsideGate |-> FALSE, alwaysGated |-> FALSE]
    IN  [get         |-> generic(Pair("get", FALSE)),
         getSecret   |-> generic(Pair("get", TRUE)),
         watchSecret |-> [generic(Pair("watch", TRUE)) EXCEPT !.target = FALSE],
         update      |-> generic(Pair("update", FALSE)),
         patch       |-> generic(Pair("patch", FALSE)),
         delete      |-> generic(Pair("delete", FALSE)),
         exec        |-> generic(Pair("create", FALSE)),
         proxy       |-> [generic(Pair("get", FALSE)) EXCEPT !.alwaysGated = TRUE],
         reset       |-> [pairs |-> {Pair("list", FALSE), Pair("create", FALSE)},
                          resolve |-> FALSE, target |-> FALSE,
                          outsideGate |-> TRUE, alwaysGated |-> FALSE]]

ASSUME ToolsAssumption == Tools \subseteq DOMAIN Declarations
ASSUME MaxRevisionAssumption == MaxRevision \in Nat

gatedVerbs == {"create", "update", "patch", "delete", "deletecollection"}

readIsSensitive(p) == p.verb \in {"get", "watch"} /\ p.sensitive

gatedPairs(t) ==
    LET d == Declarations[t]
    IN  {p \in d.pairs :
            /\ ~d.outsideGate
            /\ d.alwaysGated \/ p.verb \in gatedVerbs \/ readIsSensitive(p)}

Gated(t) == gatedPairs(t) # {}
HasTarget(t) == Declarations[t].target

\* What must not be read or changed without approval, said from the tools'
\* meaning and not from their declarations (prd-approval-gate, the gate table).
NeedsApproval == {"getSecret", "watchSecret", "update", "patch", "delete", "exec", "proxy"}

\* authorize's refusal to approve blind: a resolved write without a target.
ApprovesBlind(t) ==
    /\ Declarations[t].resolve
    /\ ~HasTarget(t)
    /\ \E p \in gatedPairs(t) : p.verb \in gatedVerbs

\* Arguments are fine, refused by the dispatcher before the gate ("early": no
\* such tool, out of scope, no reason, a pair that does not resolve, the checks
\* a resolver runs), or refused by the handler only ("late").
HandlerChecks == {"get", "getSecret", "watchSecret", "update", "patch"}
ArgsOf(t) == {"ok", "early"} \cup (IF t \in HandlerChecks THEN {"late"} ELSE {})

Absent == [uid |-> 0, rv |-> 0]
NoRequest == [tool |-> "none", obj |-> "none", args |-> "none"]
NoRecord == [result |-> "none", reason |-> "none", decision |-> "none"]

VARIABLES
    configured,  \* APPROVAL_GATE_URL is set: a live gate, not Unavailable
    kube,        \* a kubernetes client exists
    cluster,     \* [Objects -> state]: uid and resourceVersion, or Absent
    revision,    \* the cluster's revision counter
    stage,       \* where each call is
    request,     \* what it asked for
    seen,        \* the target state its approval was sought for
    wire,        \* its kubernetes request: "none", "sent", "applied", "failed"
    record,      \* its event record
    hits,        \* history: the states its request was applied to
    raced        \* history: calls whose target others changed after the last check

callVars == <<stage, request, seen, wire, record>>
clusterVars == <<cluster, revision, hits, raced>>
setupVars == <<configured, kube>>
vars == <<gateVars, setupVars, clusterVars, callVars>>

States == [uid : Nat, rv : Nat]
Stages == {"idle", "ask", "describe", "wait", "spend", "confirm", "invoke", "sent", "done"}
\* "empty" is the empty string: no reason, or no decision, in the record.
Reasons == {"empty", "invalid_input", "unconfigured", "gate_rejected", "gate_expired",
            "gate_timeout", "gate_unreachable", "gate_unconfigured"}
Decisions == {"empty", "approved", "rejected", "expired", "timeout", "unreachable", "unconfigured"}
Records == [result : {"success", "refused", "error"}, reason : Reasons, decision : Decisions]
Requests == {r \in [tool : Tools, obj : Objects, args : {"ok", "early", "late"}] :
                r.args \in ArgsOf(r.tool)}

Init ==
    /\ GateInit
    /\ configured \in BOOLEAN
    /\ kube \in BOOLEAN
    /\ cluster = [o \in Objects |-> [uid |-> 1, rv |-> 1]]
    /\ revision = 1
    /\ stage = [c \in Calls |-> "idle"]
    /\ request = [c \in Calls |-> NoRequest]
    /\ seen = [c \in Calls |-> Absent]
    /\ wire = [c \in Calls |-> "none"]
    /\ record = [c \in Calls |-> NoRecord]
    /\ hits = [c \in Calls |-> <<>>]
    /\ raced = {}

-----------------------------------------------------------------------------
\* The dispatcher

GoTo(c, s) == stage' = [stage EXCEPT ![c] = s]

\* toolsCall's deferred Emit: the call ends and its one record is written.
Emit(c, result, reason, decision) ==
    /\ GoTo(c, "done")
    /\ record' = [record EXCEPT ![c] = [result |-> result, reason |-> reason,
                                        decision |-> decision]]

\* What noteGate left for the record.
NotedDecision(c) == IF answer[c] = "approved" THEN "approved" ELSE "empty"

\* toolsCall up to the gate: early refusals, and the gate for the gated pairs.
Receive(c) ==
    /\ stage[c] = "idle"
    /\ \E t \in Tools, o \in Objects : \E a \in ArgsOf(t) :
          /\ request' = [request EXCEPT ![c] = [tool |-> t, obj |-> o, args |-> a]]
          /\ \/ /\ a = "early"
                /\ Emit(c, "refused", "invalid_input", "empty")
             \/ /\ a # "early"
                /\ IF ApprovesBlind(t)
                   THEN Emit(c, "refused", "gate_unconfigured", "empty")
                   ELSE /\ GoTo(c, IF Gated(t) THEN "ask" ELSE "invoke")
                        /\ UNCHANGED record
    /\ UNCHANGED <<gateVars, setupVars, clusterVars, seen, wire>>

\* askGate: an unconfigured gate refuses without describing the call.
AskGate(c) ==
    /\ stage[c] = "ask"
    /\ \/ /\ ~configured
          /\ RefuseAtOnce(c)
          /\ Emit(c, "refused", "gate_unconfigured", "unconfigured")
       \/ /\ configured
          /\ Ask(c)
          /\ GoTo(c, "describe")
          /\ UNCHANGED record
    /\ UNCHANGED <<setupVars, clusterVars, request, seen, wire>>

\* Call.Describe: readGateTarget pins the state the operator will be shown.
ReadGateTarget(c) ==
    LET r == request[c]
    IN  /\ stage[c] = "describe"
        /\ \/ /\ ~HasTarget(r.tool)
              /\ UNCHANGED seen
           \/ /\ HasTarget(r.tool)
              /\ kube
              /\ cluster[r.obj] # Absent
              /\ seen' = [seen EXCEPT ![c] = cluster[r.obj]]
        /\ GoTo(c, "wait")
        /\ UNCHANGED <<gateVars, setupVars, clusterVars, request, wire, record>>

\* The target cannot be read: a kubernetes client that is missing or cannot be
\* built, or any other failure, an absent object among them, which gateRefusal
\* books on the call's arguments.
DescribeFails(c) ==
    /\ stage[c] = "describe"
    /\ HasTarget(request[c].tool)
    /\ \/ /\ Refuse(c, "unconfigured")
          /\ Emit(c, "refused", "gate_unconfigured", "unconfigured")
       \/ /\ kube
          /\ Refuse(c, "context")
          /\ Emit(c, "refused", "invalid_input", "empty")
    /\ UNCHANGED <<setupVars, clusterVars, request, seen, wire>>

\* Mutant: the verdict itself is written as the reason.
GateReasonRaw(v) == v

\* gateRefusal's reason for a verdict.
GateReason(v) ==
    CASE v = "rejected" -> "gate_rejected"
      [] v = "expired" -> "gate_expired"
      [] v = "timeout" -> "gate_timeout"
      [] v = "unconfigured" -> "gate_unconfigured"
      [] v = "context" -> "invalid_input"
      [] OTHER -> "gate_unreachable"

\* Mutant: every refusal is written down as a rejection.
GateRefusesAsRejection(c) ==
    /\ stage[c] = "wait"
    /\ \E v \in {"rejected", "expired", "timeout", "unreachable"} : Refuse(c, v)
    /\ Emit(c, "refused", "gate_rejected", "rejected")
    /\ UNCHANGED <<setupVars, clusterVars, request, seen, wire>>

\* Authorize returned a Refusal.
GateRefuses(c) ==
    /\ stage[c] = "wait"
    /\ \E v \in {"rejected", "expired", "timeout", "unreachable"} :
          /\ Refuse(c, v)
          /\ Emit(c, "refused", GateReason(v), v)
    /\ UNCHANGED <<setupVars, clusterVars, request, seen, wire>>

\* Authorize returned a Decision.
GateApproves(c) ==
    /\ stage[c] = "wait"
    /\ Decide(c)
    /\ GoTo(c, "spend")
    /\ UNCHANGED <<setupVars, clusterVars, request, seen, wire, record>>

SpendApproval(c) ==
    /\ stage[c] = "spend"
    /\ Consume(c)
    /\ GoTo(c, "confirm")
    /\ UNCHANGED <<setupVars, clusterVars, request, seen, wire, record>>

\* Mutant: the object's identity is confirmed, its version is not.
ConfirmIdentityOnly(c) ==
    /\ stage[c] = "confirm"
    /\ \/ /\ HasTarget(request[c].tool) => cluster[request[c].obj].uid = seen[c].uid
          /\ GoTo(c, "invoke")
          /\ UNCHANGED record
       \/ /\ HasTarget(request[c].tool)
          /\ Emit(c, "refused", "gate_rejected", "approved")
    /\ UNCHANGED <<gateVars, setupVars, clusterVars, request, seen, wire>>

\* confirmTargetUnchanged: the state the operator approved is still there, or
\* the call is refused after its verdict; so it is when the read fails.
ConfirmTargetUnchanged(c) ==
    LET r == request[c]
    IN  /\ stage[c] = "confirm"
        /\ \/ /\ HasTarget(r.tool) => cluster[r.obj] = seen[c]
              /\ GoTo(c, "invoke")
              /\ UNCHANGED record
           \/ /\ HasTarget(r.tool)
              /\ Emit(c, "refused", "gate_rejected", "approved")
        /\ UNCHANGED <<gateVars, setupVars, clusterVars, request, seen, wire>>

-----------------------------------------------------------------------------
\* The handler and its request

\* The handler ends without a request: on its own argument checks, on a client
\* that cannot be built (toolError notes it), or on any other failure before
\* the send - discovery, a manifest that contradicts the approved version.
InvokeEnds(c) ==
    /\ stage[c] = "invoke"
    /\ \/ /\ request[c].args = "late"
          /\ Emit(c, "refused", "invalid_input", NotedDecision(c))
       \/ /\ request[c].args = "ok"
          /\ Emit(c, "refused", "unconfigured", NotedDecision(c))
       \/ /\ request[c].args = "ok"
          /\ kube
          /\ Emit(c, "error", "empty", NotedDecision(c))
    /\ UNCHANGED <<gateVars, setupVars, clusterVars, request, seen, wire>>

InvokeSends(c) ==
    /\ stage[c] = "invoke"
    /\ request[c].args = "ok"
    /\ kube
    /\ wire' = [wire EXCEPT ![c] = "sent"]
    /\ GoTo(c, "sent")
    /\ UNCHANGED <<gateVars, setupVars, clusterVars, request, seen, record>>

\* Mutant: a lost answer is retried.
ReturnsResultRetrying(c) ==
    /\ stage[c] = "sent"
    /\ \/ /\ wire[c] = "applied"
          /\ Emit(c, "success", "empty", NotedDecision(c))
          /\ UNCHANGED wire
       \/ /\ wire' = [wire EXCEPT ![c] = "sent"]
          /\ UNCHANGED <<stage, record>>
    /\ UNCHANGED <<gateVars, setupVars, clusterVars, request, seen>>

\* The handler returns.  It knows of success only from the answer; an answer
\* that is lost, late or unreadable, or a command that exits non-zero, is an
\* error whatever the apiserver did or is still to do.
ReturnsResult(c) ==
    /\ stage[c] = "sent"
    /\ \/ /\ wire[c] = "applied"
          /\ Emit(c, "success", "empty", NotedDecision(c))
       \/ Emit(c, "error", "empty", NotedDecision(c))
    /\ UNCHANGED <<gateVars, setupVars, clusterVars, request, seen, wire>>

-----------------------------------------------------------------------------
\* The apiserver and the world

\* Mutant: the patch carries no precondition.
ApprovedPatchUnpinned(c) == TRUE

\* approvedPatch: the body names the approved version and, unless the patch is a
\* server-side apply, the approved identity.
ApprovedPatch(c) ==
    \E patchType \in {"apply", "strategic", "merge"} :
        /\ cluster[request[c].obj].rv = seen[c].rv
        /\ patchType # "apply" => cluster[request[c].obj].uid = seen[c].uid

\* UpdateResource: the object sent carries the approved resourceVersion.
UpdateResource(c) == cluster[request[c].obj].rv = seen[c].rv

\* What the apiserver requires of the target's present state.  A request for a
\* named object needs it to exist (the watch and the reset name none); only the
\* update and the patch carry a condition ("No Preconditions" in DeleteResource).
Precondition(c) ==
    /\ HasTarget(request[c].tool) => cluster[request[c].obj] # Absent
    /\ request[c].tool = "update" => UpdateResource(c)
    /\ request[c].tool = "patch" => ApprovedPatch(c)

\* Calls that have passed their last check of o: a change of o now may be
\* followed by the unchecked effect of such a call.
PastCheck(o) == {d \in Calls : request[d].obj = o /\ stage[d] \in {"invoke", "sent", "done"}}

\* What a request makes of its target.
Effect(t, old) ==
    CASE t \in {"update", "patch"} -> [old EXCEPT !.rv = revision + 1]
      [] t = "delete" -> Absent
      [] OTHER -> old

ServerApplies(c) ==
    LET r == request[c]
        old == cluster[r.obj]
        new == Effect(r.tool, old)
    IN  /\ wire[c] = "sent"
        /\ Precondition(c)
        /\ wire' = [wire EXCEPT ![c] = "applied"]
        /\ hits' = [hits EXCEPT ![c] = Append(@, old)]
        /\ cluster' = [cluster EXCEPT ![r.obj] = new]
        /\ revision' = IF new = old THEN revision ELSE revision + 1
        /\ raced' = IF new = old THEN raced ELSE raced \cup (PastCheck(r.obj) \ {c})
        /\ UNCHANGED <<gateVars, setupVars, stage, request, seen, record>>

\* Not found, conflict, invalid, forbidden, unavailable: nothing was done.
ServerRejects(c) ==
    /\ wire[c] = "sent"
    /\ wire' = [wire EXCEPT ![c] = "failed"]
    /\ UNCHANGED <<gateVars, setupVars, clusterVars, stage, request, seen, record>>

\* A controller or another client changes, deletes or recreates an object.
WorldChanges(o) ==
    /\ revision < MaxRevision
    /\ revision' = revision + 1
    /\ \E new \in {Absent, [uid |-> revision + 1, rv |-> revision + 1],
                   [cluster[o] EXCEPT !.rv = revision + 1]} :
          /\ new # cluster[o]
          /\ new.uid = 0 => new = Absent
          /\ cluster[o] # Absent => new.uid \in {0, cluster[o].uid}
          /\ cluster' = [cluster EXCEPT ![o] = new]
    /\ raced' = raced \cup PastCheck(o)
    /\ UNCHANGED <<gateVars, setupVars, hits, callVars>>

\* The operator approves, perhaps only after Authorize has given up.
OperatorApproves(c) ==
    /\ stage[c] \in {"wait", "done"}
    /\ Grant(c)
    /\ UNCHANGED <<setupVars, clusterVars, callVars>>

-----------------------------------------------------------------------------
CallStep(c) ==
    \/ Receive(c)
    \/ AskGate(c)
    \/ ReadGateTarget(c)
    \/ DescribeFails(c)
    \/ GateRefuses(c)
    \/ GateApproves(c)
    \/ SpendApproval(c)
    \/ ConfirmTargetUnchanged(c)
    \/ InvokeEnds(c)
    \/ InvokeSends(c)
    \/ ReturnsResult(c)

Next ==
    \/ \E c \in Calls : CallStep(c)
    \/ \E c \in Calls : ServerApplies(c) \/ ServerRejects(c) \/ OperatorApproves(c)
    \/ \E o \in Objects : WorldChanges(o)

Spec == Init /\ [][Next]_vars

-----------------------------------------------------------------------------
\* Properties

GatedTypeOK ==
    /\ GateTypeOK
    /\ configured \in BOOLEAN
    /\ kube \in BOOLEAN
    /\ cluster \in [Objects -> States]
    /\ revision \in Nat
    /\ stage \in [Calls -> Stages]
    /\ request \in [Calls -> {NoRequest} \cup Requests]
    /\ seen \in [Calls -> States]
    /\ wire \in [Calls -> {"none", "sent", "applied", "failed"}]
    /\ record \in [Calls -> {NoRecord} \cup Records]
    /\ hits \in [Calls -> Seq(States)]
    /\ raced \subseteq Calls

\* The promise to the operator, for every operation that needs approval by its
\* meaning: never performed unapproved, never twice on one approval, never at
\* all once reported refused, even by a request that was given up on and that
\* the apiserver acts on after the record was written (AC1, AC5, AC7).
NeedingApproval == {c \in Calls : request[c].tool \in NeedsApproval}

Promise == INSTANCE ApprovedExecution WITH
    Operations <- Calls,
    approved <- granted,
    performed <- [c \in Calls |-> IF c \in NeedingApproval THEN Len(hits[c]) ELSE 0],
    refused <- {c \in NeedingApproval : record[c].result = "refused"}

ImplementsApprovedExecution == Promise!ExecSpec

\* An update or a patch is only ever applied to the very state the operator was
\* shown, whatever happens between the check and the write, and however late
\* the apiserver gets to it (AC6).
WritesHitApprovedState ==
    \A c \in Calls :
        request[c].tool \in {"update", "patch"} =>
            \A k \in 1 .. Len(hits[c]) : hits[c][k] = seen[c]

\* The calls without an atomic condition (a gated read, delete, exec, proxy)
\* reach another state than the approved one only by losing the race with a
\* change made after confirmTargetUnchanged's read, never with an earlier one.
UncheckedWindowStartsAtRead ==
    \A c \in Calls :
        request[c].tool \in NeedsApproval /\ HasTarget(request[c].tool) /\ c \notin raced =>
            \A k \in 1 .. Len(hits[c]) : hits[c][k] = seen[c]

\* The record carries the gate's own answer: a refusal its verdict, a call that
\* was approved "approved" even if it was refused or failed later, and a call
\* that never needed the gate no decision (AC8, Gate.Decision).
RecordTellsTheVerdict ==
    \A c \in Calls :
        stage[c] = "done" =>
            /\ record[c].decision =
                  IF answer[c] \in {"none", "context"} THEN "empty" ELSE answer[c]
            /\ record[c].reason \in {"gate_expired", "gate_timeout", "gate_unreachable"} =>
                  record[c].reason = GateReason(answer[c])

\* What parseManifest's comment says it is there for: an approval is not spent
\* on a call that the handler's own argument checks were always going to refuse.
NoApprovalSpentOnRefusedArguments ==
    \A c \in spent : request[c].args # "late"

=============================================================================

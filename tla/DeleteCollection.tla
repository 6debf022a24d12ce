-------------------------- MODULE DeleteCollection --------------------------
(***************************************************************************)
(* resource_delete_collection: callDeleteCollection.  Unlike every other   *)
(* gated call it reads before it asks: the selection is listed, an empty   *)
(* one ends the call without an approval, and the set shown to the         *)
(* operator is listed again and compared after the verdict.  The deletion  *)
(* carries the selector and no precondition, and the apiserver works it    *)
(* off object by object, so that the world may still move under it.        *)
(* An object's state is its resourceVersion, which no two states share;    *)
(* 0 stands for an object the selector does not match.                     *)
(***************************************************************************)
EXTENDS GateContract, Naturals

CONSTANTS
    Objects,      \* objects of the namespace the selector may match
    MaxRevision   \* the world stops changing objects at this revision

ASSUME MaxRevisionAssumption == MaxRevision \in Nat

VARIABLES
    configured,  \* APPROVAL_GATE_URL is set
    kube,        \* a kubernetes client exists
    version,     \* [Objects -> Nat]: the resourceVersion, 0 when not selected
    revision,    \* the cluster's revision counter
    stage,       \* where each call is
    approved,    \* the snapshot the approval was sought for
    wire,        \* the deletion: "none", "sent", "running", "applied", "failed"
    worklist,    \* objects the apiserver still has to delete for a call
    record,      \* the event record
    hits,        \* history: what each call's deletion removed, as <<object, version>>
    runs,        \* history: how often each call's deletion was begun
    raced        \* history: calls whose selection changed after their last check

setupVars == <<configured, kube>>
clusterVars == <<version, revision, hits, runs, raced>>
callVars == <<stage, approved, wire, worklist, record>>
vars == <<gateVars, setupVars, clusterVars, callVars>>

NoRecord == [result |-> "none", reason |-> "none", decision |-> "none"]

Init ==
    /\ GateInit
    /\ configured \in BOOLEAN
    /\ kube \in BOOLEAN
    /\ \E S \in SUBSET Objects : version = [o \in Objects |-> IF o \in S THEN 1 ELSE 0]
    /\ revision = 1
    /\ stage = [c \in Calls |-> "idle"]
    /\ approved = [c \in Calls |-> {}]
    /\ wire = [c \in Calls |-> "none"]
    /\ worklist = [c \in Calls |-> {}]
    /\ record = [c \in Calls |-> NoRecord]
    /\ hits = [c \in Calls |-> {}]
    /\ runs = [c \in Calls |-> 0]
    /\ raced = {}

-----------------------------------------------------------------------------
GoTo(c, s) == stage' = [stage EXCEPT ![c] = s]

\* toolsCall's deferred Emit
Emit(c, result, reason, decision) ==
    /\ GoTo(c, "done")
    /\ record' = [record EXCEPT ![c] = [result |-> result, reason |-> reason,
                                        decision |-> decision]]

\* The selection, as ListTargets returns it: complete, sorted, without doubles.
Targets == {<<o, version[o]>> : o \in {p \in Objects : version[p] # 0}}

\* toolsCall and the declaration checks: a call without a reason, a namespace
\* or a nameable pair is refused.
Receive(c) ==
    /\ stage[c] = "idle"
    /\ \/ Emit(c, "refused", "invalid_input", "empty")
       \/ /\ GoTo(c, "list")
          /\ UNCHANGED record
    /\ UNCHANGED <<gateVars, setupVars, clusterVars, approved, wire, worklist>>

\* The first ListTargets succeeds.  An empty selection is answered at once.
ListTargets(c) ==
    /\ stage[c] = "list"
    /\ kube
    /\ approved' = [approved EXCEPT ![c] = Targets]
    /\ \/ /\ Targets = {}
          /\ Emit(c, "success", "empty", "empty")
       \/ /\ Targets # {}
          /\ GoTo(c, "ask")
          /\ UNCHANGED record
    /\ UNCHANGED <<gateVars, setupVars, clusterVars, wire, worklist>>

\* No client, an apiserver error, or a snapshot that is refused as incomplete
\* or too large: an rpcErr without a reason, which reasonOf books on the gate.
ListFails(c) ==
    /\ stage[c] = "list"
    /\ Emit(c, "refused", "gate_unconfigured", "empty")
    /\ UNCHANGED <<gateVars, setupVars, clusterVars, approved, wire, worklist>>

\* Describing needs no further read.
AskGate(c) ==
    /\ stage[c] = "ask"
    /\ \/ /\ ~configured
          /\ RefuseAtOnce(c)
          /\ Emit(c, "refused", "gate_unconfigured", "unconfigured")
       \/ /\ configured
          /\ Ask(c)
          /\ GoTo(c, "wait")
          /\ UNCHANGED record
    /\ UNCHANGED <<setupVars, clusterVars, approved, wire, worklist>>

GateRefuses(c) ==
    /\ stage[c] = "wait"
    /\ \E v \in {"rejected", "expired", "timeout", "unreachable"} :
          /\ Refuse(c, v)
          /\ Emit(c, "refused", CASE v = "rejected" -> "gate_rejected"
                                  [] v = "expired" -> "gate_expired"
                                  [] v = "timeout" -> "gate_timeout"
                                  [] v = "unreachable" -> "gate_unreachable", v)
    /\ UNCHANGED <<setupVars, clusterVars, approved, wire, worklist>>

GateApproves(c) ==
    /\ stage[c] = "wait"
    /\ Decide(c)
    /\ GoTo(c, "spend")
    /\ UNCHANGED <<setupVars, clusterVars, approved, wire, worklist, record>>

SpendApproval(c) ==
    /\ stage[c] = "spend"
    /\ Consume(c)
    /\ GoTo(c, "confirm")
    /\ UNCHANGED <<setupVars, clusterVars, approved, wire, worklist, record>>

\* Mutant: only a grown selection counts as changed.
sameTargetsUnlessMore(S, T) == \A x \in T : \E y \in S : x[1] = y[1]

\* sameTargets: same names, same states.
sameTargets(S, T) == S = T

\* Mutant: a refusal after the verdict forgets that there was one.
ConfirmForgetsVerdict(c) ==
    /\ stage[c] = "confirm"
    /\ \/ /\ sameTargets(approved[c], Targets)
          /\ GoTo(c, "invoke")
          /\ UNCHANGED record
       \/ Emit(c, "refused", "gate_rejected", "rejected")
    /\ UNCHANGED <<gateVars, setupVars, clusterVars, approved, wire, worklist>>

\* confirmCollectionUnchanged: a selection that differs, or that cannot be read
\* again, is refused after the verdict.
ConfirmCollectionUnchanged(c) ==
    /\ stage[c] = "confirm"
    /\ \/ /\ sameTargets(approved[c], Targets)
          /\ GoTo(c, "invoke")
          /\ UNCHANGED record
       \/ Emit(c, "refused", "gate_rejected", "approved")
    /\ UNCHANGED <<gateVars, setupVars, clusterVars, approved, wire, worklist>>

\* Mutant: a client that cannot be built is recorded under a result of its own.
InvokeEndsUnlisted(c) ==
    /\ stage[c] = "invoke"
    /\ Emit(c, "accepted", "unconfigured", "approved")
    /\ UNCHANGED <<gateVars, setupVars, clusterVars, approved, wire, worklist>>

\* DeleteCollection fails before it sends: a client that cannot be built, or
\* discovery, or a kind without namespaces.
InvokeEnds(c) ==
    /\ stage[c] = "invoke"
    /\ \/ Emit(c, "refused", "unconfigured", "approved")
       \/ Emit(c, "error", "empty", "approved")
    /\ UNCHANGED <<gateVars, setupVars, clusterVars, approved, wire, worklist>>

InvokeSends(c) ==
    /\ stage[c] = "invoke"
    /\ wire' = [wire EXCEPT ![c] = "sent"]
    /\ GoTo(c, "sent")
    /\ UNCHANGED <<gateVars, setupVars, clusterVars, approved, worklist, record>>

\* Mutant: a deletion whose answer is lost is sent again.
ReturnsResultRetrying(c) ==
    /\ stage[c] = "sent"
    /\ GoTo(c, "invoke")
    /\ UNCHANGED <<gateVars, setupVars, clusterVars, approved, wire, worklist, record>>

\* The answer arrived, or the handler gave up on it.
ReturnsResult(c) ==
    /\ stage[c] = "sent"
    /\ \/ /\ wire[c] = "applied"
          /\ Emit(c, "success", "empty", "approved")
       \/ Emit(c, "error", "empty", "approved")
    /\ UNCHANGED <<gateVars, setupVars, clusterVars, approved, wire, worklist>>

-----------------------------------------------------------------------------
\* The apiserver and the world

PastCheck == {c \in Calls : stage[c] \in {"invoke", "sent", "done"}}

\* The apiserver lists the selection for itself, then deletes what it listed.
ServerBegins(c) ==
    /\ wire[c] = "sent"
    /\ wire' = [wire EXCEPT ![c] = "running"]
    /\ worklist' = [worklist EXCEPT ![c] = {o \in Objects : version[o] # 0}]
    /\ runs' = [runs EXCEPT ![c] = @ + 1]
    /\ UNCHANGED <<gateVars, setupVars, version, revision, hits, raced,
                   stage, approved, record>>

ServerDeletes(c, o) ==
    /\ wire[c] = "running"
    /\ o \in worklist[c]
    /\ worklist' = [worklist EXCEPT ![c] = @ \ {o}]
    /\ \/ /\ version[o] # 0
          /\ hits' = [hits EXCEPT ![c] = @ \cup {<<o, version[o]>>}]
          /\ version' = [version EXCEPT ![o] = 0]
          /\ revision' = revision + 1
          /\ raced' = raced \cup (PastCheck \ {c})
       \/ /\ version[o] = 0
          /\ UNCHANGED <<hits, version, revision, raced>>
    /\ UNCHANGED <<gateVars, setupVars, runs, stage, approved, wire, record>>

ServerEnds(c) ==
    /\ \/ /\ wire[c] = "running"
          /\ worklist[c] = {}
          /\ wire' = [wire EXCEPT ![c] = "applied"]
       \/ /\ wire[c] \in {"sent", "running"}
          /\ wire' = [wire EXCEPT ![c] = "failed"]
    /\ UNCHANGED <<gateVars, setupVars, clusterVars, stage, approved, worklist, record>>

\* An object is changed, enters the selection or leaves it.
WorldChanges(o) ==
    /\ revision < MaxRevision
    /\ revision' = revision + 1
    /\ \E v \in {0, revision + 1} :
          /\ v # version[o]
          /\ version' = [version EXCEPT ![o] = v]
    /\ raced' = raced \cup PastCheck
    /\ UNCHANGED <<gateVars, setupVars, hits, runs, callVars>>

OperatorApproves(c) ==
    /\ Grant(c)
    /\ UNCHANGED <<setupVars, clusterVars, callVars>>

Next ==
    \/ \E c \in Calls :
          \/ Receive(c)
          \/ ListTargets(c)
          \/ ListFails(c)
          \/ AskGate(c)
          \/ GateRefuses(c)
          \/ GateApproves(c)
          \/ SpendApproval(c)
          \/ ConfirmCollectionUnchanged(c)
          \/ InvokeEnds(c)
          \/ InvokeSends(c)
          \/ ReturnsResult(c)
          \/ ServerBegins(c)
          \/ \E o \in Objects : ServerDeletes(c, o)
          \/ ServerEnds(c)
          \/ OperatorApproves(c)
    \/ \E o \in Objects : WorldChanges(o)

Spec == Init /\ [][Next]_vars

-----------------------------------------------------------------------------
\* Properties

\* "empty" is the empty string: no reason, or no decision, in the record.
Reasons == {"empty", "invalid_input", "unconfigured", "gate_rejected", "gate_expired",
            "gate_timeout", "gate_unreachable", "gate_unconfigured"}
Decisions == {"empty", "approved", "rejected", "expired", "timeout", "unreachable", "unconfigured"}
Records == [result : {"success", "refused", "error"}, reason : Reasons, decision : Decisions]
Stages == {"idle", "list", "ask", "wait", "spend", "confirm", "invoke", "sent", "done"}

CollectionTypeOK ==
    /\ GateTypeOK
    /\ configured \in BOOLEAN
    /\ kube \in BOOLEAN
    /\ version \in [Objects -> Nat]
    /\ revision \in Nat
    /\ stage \in [Calls -> Stages]
    /\ approved \in [Calls -> SUBSET (Objects \X Nat)]
    /\ wire \in [Calls -> {"none", "sent", "running", "applied", "failed"}]
    /\ worklist \in [Calls -> SUBSET Objects]
    /\ record \in [Calls -> {NoRecord} \cup Records]
    /\ hits \in [Calls -> SUBSET (Objects \X Nat)]
    /\ runs \in [Calls -> Nat]
    /\ raced \subseteq Calls

\* An object that was not on the approval screen, or was there in another state,
\* is deleted only by a call that lost the race with a change made after its
\* second listing: growth, shrinkage and replacement before it are all caught.
DeletesOnlyWhatWasShown ==
    \A c \in Calls : c \notin raced => hits[c] \subseteq approved[c]

\* The promise to the operator: no deletion without approval - the empty
\* selection that is answered without one included -, one deletion per
\* approval, none for a call that was reported refused.
Promise == INSTANCE ApprovedExecution WITH
    Operations <- Calls,
    approved <- granted,
    performed <- runs,
    refused <- {c \in Calls : record[c].result = "refused"}

ImplementsApprovedExecution == Promise!ExecSpec

\* The record carries the gate's answer; a call that ended before the gate was
\* asked, the empty selection among them, carries none and deleted nothing.
RecordTellsTheVerdict ==
    \A c \in Calls :
        stage[c] = "done" =>
            /\ record[c].decision = IF answer[c] = "none" THEN "empty" ELSE answer[c]
            /\ record[c].decision # "approved" => wire[c] = "none"

=============================================================================

---------------------------- MODULE CreateBatch ----------------------------
(***************************************************************************)
(* resource_create: callCreateBatch.  A manifest of several documents is   *)
(* asked about one document at a time, and nothing is sent until every     *)
(* document has an approval of its own; then the documents are created in  *)
(* order, the first failure stops the batch, and the answer says which     *)
(* were created, which one failed and which were never attempted.  The     *)
(* documents are the calls of GateContract.  Around the batch the caller   *)
(* may go away, others may take or free the names, and an answer may be    *)
(* lost while its request is still acted upon.                             *)
(***************************************************************************)
EXTENDS GateContract, Naturals

CONSTANTS
    N,           \* the number of documents; the calls of the gate are 1 .. N
    Names,       \* object names the documents and the world use
    RequestIds   \* the request ids the gate's Decisions carry

ASSUME DocumentsAssumption == N \in Nat \ {0} /\ Calls = 1 .. N

VARIABLES
    configured,   \* APPROVAL_GATE_URL is set
    kube,         \* a kubernetes client exists
    nameOf,       \* [Calls -> Names]: what each document names
    stage,        \* where the batch is
    pos,          \* the document it is at
    requestID,    \* the ids of the Decisions held so far
    cancelled,    \* the caller's context is done
    noted,        \* documents whose approval noteGate has put on the record
    wire,         \* each document's create request
    report,       \* created, failed, unattempted: the answer to the caller
    record,       \* the event record
    taken,        \* names in use in the cluster
    hits          \* history: how often each document was created

setupVars == <<configured, kube, nameOf>>
batchVars == <<stage, pos, requestID, noted, report, record>>
vars == <<gateVars, setupVars, batchVars, cancelled, wire, taken, hits>>

NoId == "none"
NoReport == [created |-> {}, failed |-> {}, unattempted |-> {}]
NoRecord == [result |-> "none", reason |-> "none", decision |-> "none"]

Init ==
    /\ GateInit
    /\ configured \in BOOLEAN
    /\ kube \in BOOLEAN
    /\ nameOf \in [Calls -> Names]
    /\ stage = "parse"
    /\ pos = 1
    /\ requestID = [d \in Calls |-> NoId]
    /\ cancelled = FALSE
    /\ noted = {}
    /\ wire = [d \in Calls |-> "none"]
    /\ report = NoReport
    /\ record = NoRecord
    /\ taken \in SUBSET Names
    /\ hits = [d \in Calls |-> 0]

-----------------------------------------------------------------------------
\* toolsCall's deferred Emit
Emit(result, reason, decision) ==
    /\ stage' = "done"
    /\ record' = [result |-> result, reason |-> reason, decision |-> decision]

NotedDecision == IF noted = {} THEN "empty" ELSE "approved"

\* The arguments, the reason and every document are checked before anyone is asked.
ParseCreateDocuments ==
    /\ stage = "parse"
    /\ \/ /\ Emit("refused", "invalid_input", "empty")
       \/ /\ stage' = "ask"
          /\ UNCHANGED record
    /\ UNCHANGED <<gateVars, setupVars, pos, requestID, noted, report, cancelled, wire, taken, hits>>

\* askGate for the document at pos.  Its description reads nothing from the
\* cluster, so describing cannot fail.
AskGate ==
    /\ stage = "ask"
    /\ \/ /\ ~configured
          /\ RefuseAtOnce(pos)
          /\ Emit("refused", "gate_unconfigured", "unconfigured")
       \/ /\ configured
          /\ Ask(pos)
          /\ stage' = "wait"
          /\ UNCHANGED record
    /\ UNCHANGED <<setupVars, pos, requestID, noted, report, cancelled, wire, taken, hits>>

GateRefuses ==
    /\ stage = "wait"
    /\ \E v \in {"rejected", "expired", "timeout", "unreachable"} :
          /\ Refuse(pos, v)
          /\ Emit("refused", CASE v = "rejected" -> "gate_rejected"
                               [] v = "expired" -> "gate_expired"
                               [] v = "timeout" -> "gate_timeout"
                               [] v = "unreachable" -> "gate_unreachable", v)
    /\ UNCHANGED <<setupVars, pos, requestID, noted, report, cancelled, wire, taken, hits>>

HoldsId(id) == \E d \in Calls : requestID[d] = id

\* Mutant: each document is run as soon as it is approved.
GateApprovesEagerly ==
    /\ stage = "wait"
    /\ Decide(pos)
    /\ \E id \in RequestIds :
          /\ ~HoldsId(id)
          /\ requestID' = [requestID EXCEPT ![pos] = id]
    /\ stage' = "run"
    /\ UNCHANGED <<setupVars, pos, noted, report, record, cancelled, wire, taken, hits>>

\* A Decision: held until every document has one, and refused when it repeats
\* an id that an earlier document's approval already carries.
GateApproves ==
    /\ stage = "wait"
    /\ Decide(pos)
    /\ \E id \in RequestIds :
          \/ /\ HoldsId(id)
             /\ Emit("refused", "gate_unconfigured", NotedDecision)
             /\ UNCHANGED <<requestID, pos>>
          \/ /\ ~HoldsId(id)
             /\ requestID' = [requestID EXCEPT ![pos] = id]
             /\ stage' = IF pos = N THEN "run" ELSE "ask"
             /\ pos' = IF pos = N THEN 1 ELSE pos + 1
             /\ UNCHANGED record
    /\ UNCHANGED <<setupVars, noted, report, cancelled, wire, taken, hits>>

-----------------------------------------------------------------------------
\* Mutant: the failed document ends the batch and the rest is forgotten.
StopAtForgetful(result, reason, decision) ==
    /\ report' = [report EXCEPT !.failed = {pos}]
    /\ Emit(result, reason, decision)

\* The failure branch: pos failed, the documents after it were not attempted.
StopAt(result, reason, decision) ==
    /\ report' = [report EXCEPT !.failed = {pos}, !.unattempted = (pos + 1) .. N]
    /\ Emit(result, reason, decision)

\* ctx.Err() before the document is attempted.
StopsOnCancel ==
    /\ stage = "run"
    /\ cancelled
    /\ StopAt("error", "empty", NotedDecision)
    /\ UNCHANGED <<gateVars, setupVars, pos, requestID, noted, cancelled, wire, taken, hits>>

SpendApproval ==
    /\ stage = "run"
    /\ ~cancelled
    /\ Consume(pos)
    /\ noted' = noted \cup {pos}
    /\ stage' = "invoke"
    /\ UNCHANGED <<setupVars, pos, requestID, report, record, cancelled, wire, taken, hits>>

\* CreateResource fails before it sends: on a client that cannot be built, which
\* toolError notes on the call, or on discovery, the namespace, the context.
InvokeEnds ==
    /\ stage = "invoke"
    /\ \/ StopAt("refused", "unconfigured", NotedDecision)
       \/ /\ kube
          /\ StopAt("error", "empty", NotedDecision)
    /\ UNCHANGED <<gateVars, setupVars, pos, requestID, noted, cancelled, wire, taken, hits>>

InvokeSends ==
    /\ stage = "invoke"
    /\ kube
    /\ wire' = [wire EXCEPT ![pos] = "sent"]
    /\ stage' = "sent"
    /\ UNCHANGED <<gateVars, setupVars, pos, requestID, noted, report, record, cancelled, taken, hits>>

\* Mutant: the loop's end is missed by one.
ReturnsResultOffByOne ==
    /\ stage = "sent"
    /\ \/ /\ wire[pos] = "applied"
          /\ report' = [report EXCEPT !.created = @ \cup {pos}]
          /\ stage' = "run"
          /\ pos' = pos + 1
          /\ UNCHANGED record
       \/ /\ StopAt("error", "empty", NotedDecision)
          /\ UNCHANGED pos
    /\ UNCHANGED <<gateVars, setupVars, requestID, noted, cancelled, wire, taken, hits>>

\* Mutant: a create whose answer is lost is sent again.
ReturnsResultRetrying ==
    /\ stage = "sent"
    /\ stage' = "invoke"
    /\ UNCHANGED <<gateVars, setupVars, pos, requestID, noted, report, record,
                   cancelled, wire, taken, hits>>

\* The create returned: on to the next document, or the batch stops here.  An
\* answer that is lost is a failure even if the object was, or will be, created.
ReturnsResult ==
    /\ stage = "sent"
    /\ \/ /\ wire[pos] = "applied"
          /\ report' = [report EXCEPT !.created = @ \cup {pos}]
          /\ IF pos = N
             THEN /\ Emit("success", "empty", NotedDecision)
                  /\ UNCHANGED pos
             ELSE /\ stage' = "run"
                  /\ pos' = pos + 1
                  /\ UNCHANGED record
       \/ /\ StopAt("error", "empty", NotedDecision)
          /\ UNCHANGED pos
    /\ UNCHANGED <<gateVars, setupVars, requestID, noted, cancelled, wire, taken, hits>>

-----------------------------------------------------------------------------
\* The apiserver, the caller and the world

ServerCreates(d) ==
    /\ wire[d] = "sent"
    /\ nameOf[d] \notin taken
    /\ wire' = [wire EXCEPT ![d] = "applied"]
    /\ taken' = taken \cup {nameOf[d]}
    /\ hits' = [hits EXCEPT ![d] = @ + 1]
    /\ UNCHANGED <<gateVars, setupVars, batchVars, cancelled>>

\* 409 for a name in use; 4xx and 5xx for any other reason.
ServerRejects(d) ==
    /\ wire[d] = "sent"
    /\ wire' = [wire EXCEPT ![d] = "failed"]
    /\ UNCHANGED <<gateVars, setupVars, batchVars, cancelled, taken, hits>>

CallerGoes ==
    /\ stage # "done"
    /\ ~cancelled
    /\ cancelled' = TRUE
    /\ UNCHANGED <<gateVars, setupVars, batchVars, wire, taken, hits>>

WorldChanges(n) ==
    /\ taken' = IF n \in taken THEN taken \ {n} ELSE taken \cup {n}
    /\ UNCHANGED <<gateVars, setupVars, batchVars, cancelled, wire, hits>>

OperatorApproves(d) ==
    /\ Grant(d)
    /\ UNCHANGED <<setupVars, batchVars, cancelled, wire, taken, hits>>

Next ==
    \/ ParseCreateDocuments
    \/ AskGate
    \/ GateRefuses
    \/ GateApproves
    \/ StopsOnCancel
    \/ SpendApproval
    \/ InvokeEnds
    \/ InvokeSends
    \/ ReturnsResult
    \/ CallerGoes
    \/ \E d \in Calls : ServerCreates(d) \/ ServerRejects(d) \/ OperatorApproves(d)
    \/ \E n \in Names : WorldChanges(n)

Spec == Init /\ [][Next]_vars

-----------------------------------------------------------------------------
\* Properties

\* "empty" is the empty string: no reason, or no decision, in the record.
Reasons == {"empty", "invalid_input", "unconfigured", "gate_rejected", "gate_expired",
            "gate_timeout", "gate_unreachable", "gate_unconfigured"}
Decisions == {"empty", "approved", "rejected", "expired", "timeout", "unreachable", "unconfigured"}
Records == [result : {"success", "refused", "error"}, reason : Reasons, decision : Decisions]

CreateTypeOK ==
    /\ GateTypeOK
    /\ configured \in BOOLEAN
    /\ kube \in BOOLEAN
    /\ nameOf \in [Calls -> Names]
    /\ stage \in {"parse", "ask", "wait", "run", "invoke", "sent", "done"}
    /\ pos \in Calls
    /\ requestID \in [Calls -> RequestIds \cup {NoId}]
    /\ cancelled \in BOOLEAN
    /\ noted \subseteq Calls
    /\ wire \in [Calls -> {"none", "sent", "applied", "failed"}]
    /\ report \in [created : SUBSET Calls, failed : SUBSET Calls, unattempted : SUBSET Calls]
    /\ record \in {NoRecord} \cup Records
    /\ taken \subseteq Names
    /\ hits \in [Calls -> Nat]

\* The batch is all-or-nothing in its approvals: no document is created while
\* another is unasked, refused or waiting, and no two documents are created
\* under one approval (callCreateBatch's two loops and its distinctness check).
CreatedOnlyWhenAllApproved ==
    (\E d \in Calls : hits[d] > 0) =>
        /\ \A d \in Calls : answer[d] = "approved"
        /\ \A d, e \in Calls : d # e => requestID[d] # requestID[e]

\* The answer accounts for every document and lies about none: the created ones
\* were created, exactly once, in order; the unattempted ones never were and never
\* will be, and only the failed one is left in doubt (AC7 of prd-resource-generic).
ReportIsTruthful ==
    stage = "done" /\ report # NoReport =>
        /\ report.created \cup report.failed \cup report.unattempted = Calls
        /\ \A d \in report.created : hits[d] = 1 /\ \A e \in Calls : e < d => e \in report.created
        /\ \A d \in report.unattempted : hits[d] = 0 /\ wire[d] = "none" /\ d \notin spent
        /\ record.result = "success" => report.created = Calls

\* The promise to the operator, document by document: created only if approved,
\* once per approval, and never once the answer has refused the whole batch or
\* listed the document as unattempted.
Promise == INSTANCE ApprovedExecution WITH
    Operations <- Calls,
    approved <- granted,
    performed <- hits,
    refused <- IF stage = "done" /\ report = NoReport THEN Calls ELSE report.unattempted

ImplementsApprovedExecution == Promise!ExecSpec

=============================================================================

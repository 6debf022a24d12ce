------------------------- MODULE CreateBatchProofs -------------------------
(***************************************************************************)
(* Proofs about CreateBatch for any number of documents, names and request *)
(* ids.                                                                    *)
(*                                                                         *)
(* callCreateBatch is two loops over the same index, and the invariant is  *)
(* what each loop knows at document pos.  AskingInv: the documents before  *)
(* pos are approved, under request ids of their own, and nothing has been  *)
(* spent or sent.  RunningInv: every document is approved, the ones before *)
(* pos are created, the ones after it are untouched.  DoneInv is what      *)
(* remains of the two when the batch ends: without a report nothing was    *)
(* ever sent, with one it tells created, failed and unattempted apart.     *)
(***************************************************************************)
EXTENDS CreateBatch, TLAPS

Untouched(d) == wire[d] = "none" /\ d \notin spent

\* An id is held by one document; the initial value is not an id that is held.
IdInv ==
    /\ \A d, e \in Calls : d # e /\ requestID[d] # NoId => requestID[d] # requestID[e]
    /\ \A d \in Calls : requestID[d] # NoId => answer[d] = "approved"

\* The apiserver creates a document at most once, and only in a batch whose
\* documents all have a Decision.
WireInv ==
    /\ \A d \in Calls : hits[d] = IF wire[d] = "applied" THEN 1 ELSE 0
    /\ \A d \in Calls : wire[d] # "none" => \A e \in Calls : requestID[e] # NoId

AskingInv ==
    stage \in {"parse", "ask", "wait"} =>
        /\ report = NoReport
        /\ \A d \in Calls : Untouched(d)
        /\ \A d \in Calls : d < pos => requestID[d] # NoId
        /\ \A d \in Calls : d > pos => answer[d] = "none"
        /\ \A d \in Calls : d >= pos => requestID[d] = NoId
        /\ answer[pos] = IF stage = "wait" THEN "asking" ELSE "none"
        /\ stage = "parse" => pos = 1

RunningInv ==
    stage \in {"run", "invoke", "sent"} =>
        /\ report.created = {d \in Calls : d < pos} /\ report.failed = {} /\ report.unattempted = {}
        /\ \A d \in Calls : requestID[d] # NoId
        /\ \A d \in Calls : d < pos => wire[d] = "applied"
        /\ \A d \in Calls : d > pos => Untouched(d)
        /\ stage = "run" => Untouched(pos)
        /\ stage = "invoke" => wire[pos] = "none"

DoneInv ==
    stage = "done" =>
        \/ /\ report = NoReport
           /\ \A d \in Calls : Untouched(d)
        \/ /\ report.failed # {} \/ report.created = Calls
           /\ report.created \cup report.failed \cup report.unattempted = Calls
           /\ \A d \in report.created :
                 wire[d] = "applied" /\ \A e \in Calls : e < d => e \in report.created
           /\ \A d \in report.unattempted : Untouched(d)
           /\ record.result = "success" => report.created = Calls

Inv ==
    /\ CreateTypeOK
    /\ GateInv
    /\ stage # "done" => record = NoRecord
    /\ IdInv
    /\ WireInv
    /\ AskingInv
    /\ RunningInv
    /\ DoneInv

-----------------------------------------------------------------------------
\* Type correctness, and the contract of the gate.

\* A step of the gate's contract keeps its types and its invariant.
LEMMA GateStep == GateTypeOK /\ GateInv /\ [GateNext]_gateVars => (GateTypeOK /\ GateInv)'
BY DEF GateTypeOK, GateInv, GateNext, gateVars, Ask, Grant, Decide, Refuse, RefuseAtOnce,
       Consume, Answers, Refusals, NeverGranted

\* Every step of the batch is a step of the gate's contract or leaves it alone.
LEMMA StepsTheGate == CreateTypeOK /\ [Next]_vars => [GateNext]_gateVars
<1> SUFFICES ASSUME CreateTypeOK, [Next]_vars PROVE GateNext \/ UNCHANGED gateVars
    OBVIOUS
<1>1. pos \in Calls
    BY DEF CreateTypeOK
<1>2. ASSUME AskGate \/ GateRefuses \/ GateApproves \/ SpendApproval PROVE GateNext
    BY <1>1, <1>2 DEF AskGate, GateRefuses, GateApproves, SpendApproval, GateNext, Refusals
<1>3. ASSUME NEW d \in Calls, OperatorApproves(d) PROVE GateNext
    BY <1>3 DEF OperatorApproves, GateNext
<1>4. ASSUME \/ ParseCreateDocuments \/ StopsOnCancel \/ InvokeEnds \/ InvokeSends
             \/ ReturnsResult \/ CallerGoes
             \/ \E d \in Calls : ServerCreates(d) \/ ServerRejects(d)
             \/ \E n \in Names : WorldChanges(n)
             \/ UNCHANGED vars
      PROVE  UNCHANGED gateVars
    BY <1>4 DEF ParseCreateDocuments, StopsOnCancel, InvokeEnds, InvokeSends, ReturnsResult,
                CallerGoes, ServerCreates, ServerRejects, WorldChanges, vars
<1> QED
    BY <1>2, <1>3, <1>4 DEF Next

\* toolsCall's deferred Emit leaves a well-formed record.
LEMMA EmitType ==
    ASSUME NEW result \in {"success", "refused", "error"},
           NEW reason \in Reasons, NEW decision \in Decisions, Emit(result, reason, decision)
    PROVE  /\ stage' = "done"
           /\ record' \in Records
           /\ record'.result = result
BY DEF Emit, Records

\* The failure branch: the report names the document at pos and the rest.
LEMMA StopAtReport ==
    ASSUME CreateTypeOK, NEW result \in {"success", "refused", "error"},
           NEW reason \in Reasons, NEW decision \in Decisions, StopAt(result, reason, decision)
    PROVE  /\ stage' = "done"
           /\ record' \in Records
           /\ record'.result = result
           /\ report' \in [created : SUBSET Calls, failed : SUBSET Calls, unattempted : SUBSET Calls]
           /\ report'.created = report.created
           /\ report'.failed = {pos}
           /\ report'.unattempted = {d \in Calls : d > pos}
<1>1. Emit(result, reason, decision)
    BY DEF StopAt
<1>2. pos \in 1 .. N /\ N \in Nat /\ Calls = 1 .. N
    BY DocumentsAssumption DEF CreateTypeOK
<1>3. (pos + 1) .. N = {d \in Calls : d > pos}
    BY <1>2
<1>4. report' = [report EXCEPT !.failed = {pos}, !.unattempted = {d \in Calls : d > pos}]
    BY <1>3 DEF StopAt
<1>5. report' = [created |-> report.created, failed |-> {pos}, unattempted |-> {d \in Calls : d > pos}]
    BY <1>4 DEF CreateTypeOK
<1> QED
    BY <1>1, <1>5, EmitType DEF CreateTypeOK

\* A created document: the report gains it.
LEMMA CreatedReport ==
    ASSUME CreateTypeOK, report' = [report EXCEPT !.created = @ \cup {pos}]
    PROVE  /\ report' \in [created : SUBSET Calls, failed : SUBSET Calls, unattempted : SUBSET Calls]
           /\ report'.created = report.created \cup {pos}
           /\ report'.failed = report.failed
           /\ report'.unattempted = report.unattempted
<1>1. report' = [created |-> report.created \cup {pos}, failed |-> report.failed,
                 unattempted |-> report.unattempted]
    BY DEF CreateTypeOK
<1> QED
    BY <1>1 DEF CreateTypeOK

\* The decision a batch notes in its record is one of the record's decisions.
LEMMA NotedDecisionType == NotedDecision \in Decisions
BY DEF NotedDecision, Decisions

\* Every variable of a batch has its type at the start.
LEMMA TypeInitially == Init => CreateTypeOK /\ GateInv
<1>1. 1 \in Calls
    BY DocumentsAssumption
<1>2. NoReport \in [created : SUBSET Calls, failed : SUBSET Calls, unattempted : SUBSET Calls]
    BY DEF NoReport
<1>3. Init => GateTypeOK /\ GateInv
    BY DEF Init, GateInit, GateTypeOK, GateInv, Answers
<1>4. Init => record \in {NoRecord} \cup Records
    BY DEF Init
<1>5. Init => report \in [created : SUBSET Calls, failed : SUBSET Calls, unattempted : SUBSET Calls]
    BY <1>2, Zenon DEF Init
<1>6. Init => /\ configured \in BOOLEAN /\ kube \in BOOLEAN /\ nameOf \in [Calls -> Names]
              /\ stage \in {"parse", "ask", "wait", "run", "invoke", "sent", "done"}
              /\ requestID \in [Calls -> RequestIds \cup {NoId}]
              /\ pos \in Calls /\ cancelled \in BOOLEAN /\ noted \subseteq Calls
    BY <1>1 DEF Init
<1>7. Init => /\ wire \in [Calls -> {"none", "sent", "applied", "failed"}]
              /\ taken \subseteq Names /\ hits \in [Calls -> Nat]
    BY DEF Init
<1> QED
    BY <1>3, <1>4, <1>5, <1>6, <1>7, Zenon DEF CreateTypeOK

\* Every step of callCreateBatch, the apiserver and the world keeps the types.
LEMMA TypeStep == Inv /\ [Next]_vars => (CreateTypeOK /\ GateInv)'
<1> SUFFICES ASSUME Inv, [Next]_vars PROVE (CreateTypeOK /\ GateInv)'
    OBVIOUS
<1>0. CreateTypeOK /\ GateInv
    BY DEF Inv
<1>g. (GateTypeOK /\ GateInv)'
    BY <1>0, GateStep, StepsTheGate DEF CreateTypeOK
<1>n. N \in Nat \ {0} /\ Calls = 1 .. N
    BY DocumentsAssumption
<1> SUFFICES CreateTypeOK'
    BY <1>g
<1>s. ASSUME NEW result \in {"success", "refused", "error"},
             NEW reason \in Reasons, NEW decision \in Decisions, Emit(result, reason, decision),
             UNCHANGED <<configured, kube, nameOf, pos, requestID, cancelled, noted, wire, report, taken, hits>>
      PROVE  CreateTypeOK'
    BY <1>0, <1>g, <1>s, EmitType DEF CreateTypeOK
<1>t. ASSUME NEW result \in {"success", "refused", "error"},
             NEW reason \in Reasons, NEW decision \in Decisions, StopAt(result, reason, decision),
             UNCHANGED <<configured, kube, nameOf, pos, requestID, cancelled, noted, wire, taken, hits>>
      PROVE  CreateTypeOK'
    BY <1>0, <1>g, <1>t, StopAtReport DEF CreateTypeOK
<1> USE NotedDecisionType DEF setupVars, batchVars
<1>1. ASSUME ParseCreateDocuments PROVE CreateTypeOK'
    <2>1. CASE stage' = "ask" /\ UNCHANGED record
        BY <1>0, <1>g, <1>1, <2>1 DEF ParseCreateDocuments, CreateTypeOK
    <2> QED
        BY <1>1, <1>s, <2>1 DEF ParseCreateDocuments, Reasons, Decisions
<1>2. ASSUME AskGate PROVE CreateTypeOK'
    <2>1. CASE stage' = "wait" /\ UNCHANGED record
        BY <1>0, <1>g, <1>2, <2>1 DEF AskGate, CreateTypeOK
    <2> QED
        BY <1>2, <1>s, <2>1 DEF AskGate, Reasons, Decisions
<1>3. ASSUME GateRefuses PROVE CreateTypeOK'
    BY <1>3, <1>s DEF GateRefuses, Reasons, Decisions
<1>4. ASSUME GateApproves PROVE CreateTypeOK'
    <2>1. PICK id \in RequestIds :
              \/ /\ Emit("refused", "gate_unconfigured", NotedDecision)
                 /\ UNCHANGED <<requestID, pos>>
              \/ /\ requestID' = [requestID EXCEPT ![pos] = id]
                 /\ stage' = IF pos = N THEN "run" ELSE "ask"
                 /\ pos' = IF pos = N THEN 1 ELSE pos + 1
                 /\ UNCHANGED record
        BY <1>4 DEF GateApproves
    <2>2. UNCHANGED <<configured, kube, nameOf, noted, report, cancelled, wire, taken, hits>>
        BY <1>4 DEF GateApproves
    <2>3. CASE /\ requestID' = [requestID EXCEPT ![pos] = id]
               /\ stage' = IF pos = N THEN "run" ELSE "ask"
               /\ pos' = IF pos = N THEN 1 ELSE pos + 1
               /\ UNCHANGED record
        <3>1. pos' \in Calls /\ requestID' \in [Calls -> RequestIds \cup {NoId}]
            BY <1>0, <1>n, <2>3 DEF CreateTypeOK
        <3> QED
            BY <1>0, <1>g, <2>2, <2>3, <3>1 DEF CreateTypeOK
    <2> QED
        BY <1>s, <2>1, <2>2, <2>3 DEF Reasons
<1>5. ASSUME StopsOnCancel PROVE CreateTypeOK'
    BY <1>5, <1>t DEF StopsOnCancel, Reasons
<1>6. ASSUME SpendApproval PROVE CreateTypeOK'
    BY <1>0, <1>g, <1>6 DEF SpendApproval, CreateTypeOK
<1>7. ASSUME InvokeEnds PROVE CreateTypeOK'
    BY <1>7, <1>t DEF InvokeEnds, Reasons
<1>8. ASSUME InvokeSends PROVE CreateTypeOK'
    BY <1>0, <1>g, <1>8 DEF InvokeSends, CreateTypeOK
<1>9. ASSUME ReturnsResult PROVE CreateTypeOK'
    <2>1. CASE StopAt("error", "empty", NotedDecision) /\ UNCHANGED pos
        BY <1>9, <1>t, <2>1 DEF ReturnsResult, Reasons
    <2>2. CASE report' = [report EXCEPT !.created = @ \cup {pos}]
               /\ IF pos = N THEN Emit("success", "empty", NotedDecision) /\ UNCHANGED pos
                  ELSE stage' = "run" /\ pos' = pos + 1 /\ UNCHANGED record
        <3>1. pos' \in Calls
            BY <1>0, <1>n, <2>2 DEF CreateTypeOK
        <3>3. report' \in [created : SUBSET Calls, failed : SUBSET Calls, unattempted : SUBSET Calls]
            BY <1>0, <2>2, CreatedReport
        <3>2. stage' \in {"run", "done"} /\ record' \in {NoRecord} \cup Records
            BY <1>0, <2>2, EmitType DEF CreateTypeOK, Reasons
        <3> QED
            BY <1>0, <1>9, <1>g, <3>1, <3>2, <3>3 DEF ReturnsResult, CreateTypeOK
    <2> QED
        BY <1>9, <2>1, <2>2 DEF ReturnsResult
<1>10. ASSUME CallerGoes PROVE CreateTypeOK'
    BY <1>0, <1>g, <1>10 DEF CallerGoes, CreateTypeOK
<1>11. ASSUME NEW d \in Calls, ServerCreates(d) PROVE CreateTypeOK'
    BY <1>0, <1>g, <1>11 DEF ServerCreates, CreateTypeOK
<1>12. ASSUME NEW d \in Calls, ServerRejects(d) PROVE CreateTypeOK'
    BY <1>0, <1>g, <1>12 DEF ServerRejects, CreateTypeOK
<1>13. ASSUME NEW d \in Calls, OperatorApproves(d) PROVE CreateTypeOK'
    BY <1>0, <1>g, <1>13 DEF OperatorApproves, CreateTypeOK
<1>14. ASSUME NEW n \in Names, WorldChanges(n) PROVE CreateTypeOK'
    BY <1>0, <1>g, <1>14 DEF WorldChanges, CreateTypeOK
<1>15. CASE UNCHANGED vars
    BY <1>0, <1>g, <1>15 DEF vars, CreateTypeOK
<1> QED
    BY <1>1, <1>2, <1>3, <1>4, <1>5, <1>6, <1>7, <1>8, <1>9, <1>10, <1>11, <1>12, <1>13, <1>14, <1>15 DEF Next

-----------------------------------------------------------------------------
\* What the steps leave alone.

\* A Decision is not taken back, and neither is its consumption.
LEMMA ApprovalStays ==
    ASSUME GateTypeOK, [GateNext]_gateVars
    PROVE  \A d \in Calls : answer[d] = "approved" => answer'[d] = "approved"
BY DEF GateTypeOK, GateNext, gateVars, Ask, Grant, Decide, Refuse, RefuseAtOnce, Consume

\* Steps that are not the batch's own.
Outside ==
    \/ CallerGoes
    \/ \E d \in Calls : ServerCreates(d) \/ ServerRejects(d) \/ OperatorApproves(d)
    \/ \E n \in Names : WorldChanges(n)
    \/ UNCHANGED vars

\* They touch a request only while it is on the wire, and nothing of the batch.
LEMMA OutsideEffect ==
    ASSUME CreateTypeOK, Outside
    PROVE  /\ UNCHANGED <<batchVars, answer, spent>>
           /\ \A d \in Calls : wire[d] # "sent" => wire'[d] = wire[d]
           /\ \A d \in Calls : wire[d] = "sent" => wire'[d] # "none"
BY DEF Outside, CallerGoes, ServerCreates, ServerRejects, OperatorApproves, Grant, WorldChanges,
       vars, gateVars, batchVars, CreateTypeOK

\* The steps of the first loop; only GateApproves stores an id.
LEMMA AskingEffect ==
    ASSUME Inv, ParseCreateDocuments \/ AskGate \/ GateRefuses
    PROVE  /\ UNCHANGED <<pos, requestID, report, wire, hits, spent>>
           /\ stage \in {"parse", "ask", "wait"}
BY DEF ParseCreateDocuments, AskGate, GateRefuses, Ask, Refuse, RefuseAtOnce, gateVars

\* A Decision arrives: under an id that is held it ends the batch, otherwise it
\* is stored and the loop moves on.
LEMMA ApprovesEffect ==
    ASSUME Inv, GateApproves
    PROVE  /\ stage = "wait"
           /\ answer' = [answer EXCEPT ![pos] = "approved"]
           /\ UNCHANGED <<report, wire, hits, spent>>
           /\ \/ UNCHANGED <<requestID, pos>> /\ stage' = "done"
              \/ /\ \E id \in RequestIds : /\ id # NoId
                                           /\ \A d \in Calls : requestID[d] # id
                                           /\ requestID' = [requestID EXCEPT ![pos] = id]
                 /\ stage' = IF pos = N THEN "run" ELSE "ask"
                 /\ pos' = IF pos = N THEN 1 ELSE pos + 1
                 /\ UNCHANGED record
<1>1. /\ stage = "wait"
      /\ answer' = [answer EXCEPT ![pos] = "approved"]
      /\ UNCHANGED <<report, wire, hits, spent>>
    BY DEF GateApproves, Decide
<1>2. pos \in Calls /\ requestID[pos] = NoId
    BY <1>1, DocumentsAssumption DEF Inv, CreateTypeOK, AskingInv
<1>3. PICK id \in RequestIds :
          \/ /\ HoldsId(id)
             /\ Emit("refused", "gate_unconfigured", NotedDecision)
             /\ UNCHANGED <<requestID, pos>>
          \/ /\ ~HoldsId(id)
             /\ requestID' = [requestID EXCEPT ![pos] = id]
             /\ stage' = IF pos = N THEN "run" ELSE "ask"
             /\ pos' = IF pos = N THEN 1 ELSE pos + 1
             /\ UNCHANGED record
    BY DEF GateApproves
<1> QED
    BY <1>1, <1>2, <1>3 DEF HoldsId, Emit

\* The batch stops at pos: before an attempt, or at a failed one.
Stops == StopsOnCancel \/ InvokeEnds \/ (ReturnsResult /\ StopAt("error", "empty", NotedDecision))

\* A batch that stops reports the document it stopped at and leaves the rest untouched.
LEMMA StopsEffect ==
    ASSUME Inv, Stops
    PROVE  /\ stage \in {"run", "invoke", "sent"} /\ stage' = "done"
           /\ UNCHANGED <<answer, spent, requestID, wire, hits>>
           /\ record'.result # "success"
           /\ report'.created = report.created
           /\ report'.failed = {pos}
           /\ report'.unattempted = {d \in Calls : d > pos}
<1>1. CreateTypeOK /\ NotedDecision \in Decisions
    BY NotedDecisionType DEF Inv
<1>2. \E result \in {"refused", "error"}, reason \in Reasons : StopAt(result, reason, NotedDecision)
    BY DEF Stops, StopsOnCancel, InvokeEnds, Reasons
<1>3. stage \in {"run", "invoke", "sent"} /\ UNCHANGED <<answer, spent, requestID, wire, hits>>
    BY DEF Stops, StopsOnCancel, InvokeEnds, ReturnsResult, gateVars
<1> QED
    BY <1>1, <1>2, <1>3, StopAtReport

\* The document at pos was created: the last one ends the batch.
Creates == ReturnsResult /\ wire[pos] = "applied" /\ report' = [report EXCEPT !.created = @ \cup {pos}]
           /\ ~StopAt("error", "empty", NotedDecision)

\* A created document is added to the report, and the batch goes on or ends.
LEMMA CreatesEffect ==
    ASSUME Inv, Creates
    PROVE  /\ stage = "sent" /\ wire[pos] = "applied"
           /\ UNCHANGED <<answer, spent, requestID, wire, hits>>
           /\ report'.created = report.created \cup {pos}
           /\ report'.failed = report.failed
           /\ report'.unattempted = report.unattempted
           /\ \/ pos = N /\ stage' = "done"
              \/ pos # N /\ stage' = "run" /\ pos' = pos + 1 /\ UNCHANGED record
<1>1. CreateTypeOK
    BY DEF Inv
<1>2. stage = "sent" /\ wire[pos] = "applied" /\ UNCHANGED <<answer, spent, requestID, wire, hits>>
      /\ report' = [report EXCEPT !.created = @ \cup {pos}]
    BY DEF Creates, ReturnsResult, gateVars
<1>3. \/ pos = N /\ stage' = "done"
      \/ pos # N /\ stage' = "run" /\ pos' = pos + 1 /\ UNCHANGED record
    BY DEF Creates, ReturnsResult, Emit
<1> QED
    BY <1>1, <1>2, <1>3, CreatedReport

\* The cases of a step that the proofs below go through.
LEMMA StepCases ==
    ASSUME Next \/ UNCHANGED vars
    PROVE  \/ ParseCreateDocuments \/ AskGate \/ GateRefuses
           \/ GateApproves
           \/ SpendApproval
           \/ InvokeSends
           \/ Stops
           \/ Creates
           \/ Outside
<1>1. ReturnsResult => Stops \/ Creates
    BY DEF ReturnsResult, Stops, Creates
<1> QED
    BY <1>1 DEF Next, Stops, Outside

-----------------------------------------------------------------------------
\* The parts of the invariant.

\* Every document keeps the request id its approval was asked under, and no two share one.
LEMMA IdStep == Inv /\ [Next]_vars => IdInv'
<1> SUFFICES ASSUME Inv, [Next]_vars PROVE IdInv'
    OBVIOUS
<1>0. CreateTypeOK /\ IdInv /\ pos \in Calls
    BY DEF Inv, CreateTypeOK
<1>a. \A d \in Calls : answer[d] = "approved" => answer'[d] = "approved"
    BY <1>0, ApprovalStays, StepsTheGate DEF CreateTypeOK
<1>f. ASSUME requestID' = requestID PROVE IdInv'
    BY <1>0, <1>a, <1>f DEF IdInv
<1>1. CASE GateApproves
    <2>1. CASE requestID' = requestID
        BY <1>f, <2>1
    <2>2. ASSUME NEW id \in RequestIds, id # NoId, \A d \in Calls : requestID[d] # id,
                 requestID' = [requestID EXCEPT ![pos] = id]
          PROVE  IdInv'
        <3>1. answer'[pos] = "approved"
            BY <1>0, <1>1, ApprovesEffect DEF CreateTypeOK, GateTypeOK
        <3> QED
            BY <1>0, <1>a, <2>2, <3>1 DEF IdInv, CreateTypeOK
    <2> QED
        BY <1>1, <2>1, <2>2, ApprovesEffect
<1>2. CASE ParseCreateDocuments \/ AskGate \/ GateRefuses
    BY <1>2, <1>f, AskingEffect
<1>3. CASE SpendApproval \/ InvokeSends
    BY <1>3, <1>f DEF SpendApproval, InvokeSends
<1>4. CASE Stops
    BY <1>4, <1>f, StopsEffect
<1>5. CASE Creates
    BY <1>5, <1>f, CreatesEffect
<1>6. CASE Outside
    BY <1>0, <1>6, <1>f, OutsideEffect DEF batchVars
<1> QED
    BY <1>1, <1>2, <1>3, <1>4, <1>5, <1>6, StepCases

\* A document is sent only once every document is approved, and created at most once.
LEMMA WireStep == Inv /\ [Next]_vars => WireInv'
<1> SUFFICES ASSUME Inv, [Next]_vars PROVE WireInv'
    OBVIOUS
<1>0. CreateTypeOK /\ WireInv /\ AskingInv /\ RunningInv /\ pos \in Calls
    BY DEF Inv, CreateTypeOK
<1>f. ASSUME UNCHANGED <<wire, hits, requestID>> PROVE WireInv'
    BY <1>0, <1>f DEF WireInv
<1>1. CASE GateApproves
    BY <1>0, <1>1, ApprovesEffect DEF WireInv, AskingInv, Untouched
<1>2. CASE ParseCreateDocuments \/ AskGate \/ GateRefuses
    BY <1>2, <1>f, AskingEffect
<1>3. CASE SpendApproval
    BY <1>3, <1>f DEF SpendApproval
<1>4. CASE InvokeSends
    BY <1>0, <1>4 DEF InvokeSends, WireInv, RunningInv, CreateTypeOK
<1>5. CASE Stops
    BY <1>5, <1>f, StopsEffect
<1>6. CASE Creates
    BY <1>6, <1>f, CreatesEffect
<1>7. CASE Outside
    <2>1. ASSUME NEW d \in Calls, ServerCreates(d) PROVE WireInv'
        BY <1>0, <2>1 DEF ServerCreates, batchVars, WireInv, CreateTypeOK
    <2>2. ASSUME NEW d \in Calls, ServerRejects(d) PROVE WireInv'
        BY <1>0, <2>2 DEF ServerRejects, batchVars, WireInv, CreateTypeOK
    <2>3. CASE CallerGoes \/ (\E d \in Calls : OperatorApproves(d))
               \/ (\E n \in Names : WorldChanges(n)) \/ UNCHANGED vars
        BY <1>f, <2>3 DEF CallerGoes, OperatorApproves, WorldChanges, vars, batchVars
    <2> QED
        BY <1>7, <2>1, <2>2, <2>3 DEF Outside
<1> QED
    BY <1>1, <1>2, <1>3, <1>4, <1>5, <1>6, <1>7, StepCases

\* The first loop.
LEMMA AskingStep == Inv /\ [Next]_vars => AskingInv'
<1> SUFFICES ASSUME Inv, [Next]_vars PROVE AskingInv'
    OBVIOUS
<1>0. CreateTypeOK /\ AskingInv /\ pos \in Calls
    BY DEF Inv, CreateTypeOK
<1>n. N \in Nat \ {0} /\ Calls = 1 .. N
    BY DocumentsAssumption
<1>1. CASE GateApproves
    <2>1. CASE stage' \notin {"parse", "ask", "wait"}
        BY <2>1 DEF AskingInv
    <2>2. CASE pos # N /\ stage' = "ask"
        <3>1. PICK id \in RequestIds : /\ id # NoId
                                       /\ requestID' = [requestID EXCEPT ![pos] = id]
            BY <1>1, <2>2, ApprovesEffect
        <3>2. stage = "wait" /\ pos' = pos + 1 /\ answer' = [answer EXCEPT ![pos] = "approved"]
              /\ UNCHANGED <<report, wire, spent>>
            BY <1>1, <2>2, ApprovesEffect
        <3>3. \A d \in Calls : Untouched(d)'
            BY <1>0, <3>2 DEF AskingInv, Untouched
        <3>4. \A d \in Calls : d < pos + 1 => requestID'[d] # NoId
            BY <1>0, <1>n, <3>1, <3>2 DEF AskingInv, CreateTypeOK
        <3>5. \A d \in Calls : d >= pos + 1 => answer'[d] = "none" /\ requestID'[d] = NoId
            BY <1>0, <1>n, <3>1, <3>2 DEF AskingInv, CreateTypeOK, GateTypeOK
        <3>6. pos + 1 \in Calls
            BY <1>0, <1>n, <2>2
        <3> QED
            BY <1>0, <1>n, <2>2, <3>2, <3>3, <3>4, <3>5, <3>6 DEF AskingInv
    <2> QED
        BY <1>1, <2>1, <2>2, ApprovesEffect
<1>2. CASE ParseCreateDocuments
    BY <1>0, <1>2 DEF ParseCreateDocuments, Emit, AskingInv, Untouched, gateVars
<1>3. CASE AskGate
    BY <1>0, <1>n, <1>3 DEF AskGate, RefuseAtOnce, Ask, Emit, AskingInv, Untouched, CreateTypeOK, GateTypeOK
<1>4. CASE GateRefuses
    BY <1>4 DEF GateRefuses, Emit, AskingInv
<1>5. CASE SpendApproval \/ InvokeSends
    BY <1>5 DEF SpendApproval, InvokeSends, AskingInv
<1>6. CASE Stops
    BY <1>6, StopsEffect DEF AskingInv
<1>7. CASE Creates
    BY <1>7, CreatesEffect DEF AskingInv
<1>8. CASE Outside
    BY <1>0, <1>8, OutsideEffect DEF AskingInv, Untouched, batchVars
<1> QED
    BY <1>1, <1>2, <1>3, <1>4, <1>5, <1>6, <1>7, <1>8, StepCases

\* The second loop.
LEMMA RunningStep == Inv /\ [Next]_vars => RunningInv'
<1> SUFFICES ASSUME Inv, [Next]_vars PROVE RunningInv'
    OBVIOUS
<1>0. CreateTypeOK /\ AskingInv /\ RunningInv /\ pos \in Calls
    BY DEF Inv, CreateTypeOK
<1>n. N \in Nat \ {0} /\ Calls = 1 .. N
    BY DocumentsAssumption
<1>1. CASE GateApproves
    <2>1. CASE stage' \notin {"run", "invoke", "sent"}
        BY <2>1 DEF RunningInv
    <2>2. CASE pos = N /\ stage' = "run"
        <3>1. PICK id \in RequestIds : /\ id # NoId
                                       /\ requestID' = [requestID EXCEPT ![pos] = id]
            BY <1>1, <2>2, ApprovesEffect
        <3>2. stage = "wait" /\ pos' = 1 /\ UNCHANGED <<report, wire, spent>>
            BY <1>1, <2>2, ApprovesEffect
        <3>3. \A d \in Calls : Untouched(d)' /\ requestID'[d] # NoId
            BY <1>0, <1>n, <2>2, <3>1, <3>2 DEF AskingInv, Untouched, CreateTypeOK
        <3>4. report'.created = {} /\ report'.failed = {} /\ report'.unattempted = {}
            BY <1>0, <3>2 DEF AskingInv, NoReport
        <3>5. {d \in Calls : d < 1} = {} /\ 1 \in Calls
            BY <1>n
        <3> QED
            BY <1>n, <2>2, <3>2, <3>3, <3>4, <3>5 DEF RunningInv
    <2> QED
        BY <1>1, <2>1, <2>2, ApprovesEffect
<1>2. CASE ParseCreateDocuments \/ AskGate \/ GateRefuses
    BY <1>2 DEF ParseCreateDocuments, AskGate, GateRefuses, Emit, RunningInv
<1>3. CASE SpendApproval
    BY <1>0, <1>n, <1>3 DEF SpendApproval, Consume, RunningInv, Untouched
<1>4. CASE InvokeSends
    BY <1>0, <1>n, <1>4 DEF InvokeSends, RunningInv, Untouched, CreateTypeOK, gateVars
<1>5. CASE Stops
    BY <1>5, StopsEffect DEF RunningInv
<1>6. CASE Creates
    <2>1. CASE stage' = "done"
        BY <2>1 DEF RunningInv
    <2>2. CASE pos # N /\ stage' = "run" /\ pos' = pos + 1
        <3>1. stage = "sent" /\ wire[pos] = "applied" /\ UNCHANGED <<spent, requestID, wire>>
            BY <1>6, CreatesEffect
        <3>2. pos + 1 \in Calls /\ {d \in Calls : d < pos + 1} = {d \in Calls : d < pos} \cup {pos}
            BY <1>0, <1>n, <2>2
        <3>3. report'.created = {d \in Calls : d < pos + 1} /\ report'.failed = {}
              /\ report'.unattempted = {}
            BY <1>0, <1>6, <3>1, <3>2, CreatesEffect DEF RunningInv
        <3>4. \A d \in Calls : d < pos + 1 => wire'[d] = "applied"
            BY <1>0, <1>n, <3>1 DEF RunningInv
        <3>5. \A d \in Calls : d >= pos + 1 => Untouched(d)'
            BY <1>0, <1>n, <3>1 DEF RunningInv, Untouched
        <3> QED
            BY <1>0, <1>n, <2>2, <3>1, <3>2, <3>3, <3>4, <3>5 DEF RunningInv
    <2> QED
        BY <1>6, <2>1, <2>2, CreatesEffect
<1>7. CASE Outside
    <2>1. UNCHANGED <<stage, pos, requestID, report, spent>>
          /\ \A d \in Calls : wire[d] # "sent" => wire'[d] = wire[d]
        BY <1>0, <1>7, OutsideEffect DEF batchVars
    <2> QED
        BY <1>0, <2>1 DEF RunningInv, Untouched
<1> QED
    BY <1>1, <1>2, <1>3, <1>4, <1>5, <1>6, <1>7, StepCases

\* The end.
LEMMA DoneStep == Inv /\ [Next]_vars => (DoneInv /\ (stage # "done" => record = NoRecord))'
<1> SUFFICES ASSUME Inv, [Next]_vars PROVE DoneInv' /\ (stage' # "done" => record' = NoRecord)
    OBVIOUS
<1>0. CreateTypeOK /\ AskingInv /\ RunningInv /\ DoneInv /\ (stage # "done" => record = NoRecord)
      /\ pos \in Calls
    BY DEF Inv, CreateTypeOK
<1>n. N \in Nat \ {0} /\ Calls = 1 .. N
    BY DocumentsAssumption
<1>1. CASE GateApproves
    BY <1>0, <1>1, ApprovesEffect DEF DoneInv, AskingInv, Untouched
<1>2. CASE ParseCreateDocuments \/ AskGate \/ GateRefuses
    <2>1. stage' # "done" => record' = record
        BY <1>2 DEF ParseCreateDocuments, AskGate, GateRefuses, Emit
    <2> QED
        BY <1>0, <1>2, <2>1, AskingEffect DEF DoneInv, AskingInv, Untouched
<1>3. CASE SpendApproval \/ InvokeSends
    BY <1>0, <1>3 DEF SpendApproval, InvokeSends, DoneInv
<1>4. CASE Stops
    <2>1. /\ stage \in {"run", "invoke", "sent"} /\ stage' = "done" /\ UNCHANGED <<spent, wire>>
          /\ record'.result # "success" /\ report'.created = report.created
          /\ report'.failed = {pos} /\ report'.unattempted = {d \in Calls : d > pos}
        BY <1>4, StopsEffect
    <2>2. report'.created = {d \in Calls : d < pos}
        BY <1>0, <2>1 DEF RunningInv
    <2>3. report'.created \cup report'.failed \cup report'.unattempted = Calls
        BY <1>0, <1>n, <2>1, <2>2
    <2>4. \A d \in report'.created :
             wire'[d] = "applied" /\ \A e \in Calls : e < d => e \in report'.created
        BY <1>0, <1>n, <2>1, <2>2 DEF RunningInv
    <2>5. \A d \in report'.unattempted : Untouched(d)'
        BY <1>0, <2>1 DEF RunningInv, Untouched
    <2> QED
        BY <2>1, <2>3, <2>4, <2>5 DEF DoneInv
<1>5. CASE Creates
    <2>1. CASE pos # N
        BY <1>0, <1>5, <2>1, CreatesEffect DEF DoneInv
    <2>2. CASE pos = N
        <3>1. stage = "sent" /\ stage' = "done" /\ wire[pos] = "applied" /\ UNCHANGED <<spent, wire>>
              /\ report'.created = report.created \cup {pos}
              /\ report'.failed = report.failed /\ report'.unattempted = report.unattempted
            BY <1>5, <2>2, CreatesEffect
        <3>2. report'.created = Calls /\ report'.failed = {} /\ report'.unattempted = {}
            BY <1>0, <1>n, <2>2, <3>1 DEF RunningInv
        <3>3. \A d \in Calls : wire'[d] = "applied"
            BY <1>0, <1>n, <2>2, <3>1 DEF RunningInv
        <3> QED
            BY <3>1, <3>2, <3>3 DEF DoneInv
    <2> QED
        BY <2>1, <2>2
<1>6. CASE Outside
    <2>1. UNCHANGED <<stage, report, record, spent>>
          /\ \A d \in Calls : wire[d] # "sent" => wire'[d] = wire[d]
        BY <1>0, <1>6, OutsideEffect DEF batchVars
    <2>2. report.created \subseteq Calls /\ report.unattempted \subseteq Calls
        BY <1>0 DEF CreateTypeOK
    <2> QED
        BY <1>0, <2>1, <2>2 DEF DoneInv, Untouched
<1> QED
    BY <1>1, <1>2, <1>3, <1>4, <1>5, <1>6, StepCases

-----------------------------------------------------------------------------
\* The invariants.

\* The inductive invariant of callCreateBatch holds in every reachable state.
LEMMA Invariance == Spec => []Inv
<1>1. Init => Inv
    <2> SUFFICES ASSUME Init PROVE Inv
        OBVIOUS
    <2>1. CreateTypeOK /\ GateInv
        BY TypeInitially
    <2>2. pos = 1 /\ stage = "parse" /\ report = NoReport /\ record = NoRecord /\ spent = {}
          /\ \A d \in Calls : /\ requestID[d] = NoId /\ wire[d] = "none" /\ hits[d] = 0
                              /\ answer[d] = "none"
        BY DEF Init, GateInit
    <2>3. 1 \in Calls /\ \A d \in Calls : ~(d < 1)
        BY DocumentsAssumption
    <2> QED
        BY <2>1, <2>2, <2>3
        DEF Inv, IdInv, WireInv, AskingInv, RunningInv, DoneInv, Untouched
<1>2. Inv /\ [Next]_vars => Inv'
    BY TypeStep, IdStep, WireStep, AskingStep, RunningStep, DoneStep DEF Inv
<1> QED
    BY <1>1, <1>2, PTL DEF Spec

\* Every variable keeps its type in every reachable state of a batch.
THEOREM TypeCorrect == Spec => []CreateTypeOK
BY Invariance, PTL DEF Inv

\* callCreateBatch creates no document before every document is approved, and
\* no two documents under one approval, however many documents there are.
THEOREM AllApprovedFirst == Spec => []CreatedOnlyWhenAllApproved
<1>1. Inv => CreatedOnlyWhenAllApproved
    BY DEF Inv, CreateTypeOK, WireInv, IdInv, CreatedOnlyWhenAllApproved
<1> QED
    BY <1>1, Invariance, PTL

\* The answer of a batch that ran accounts for every document truthfully.
THEOREM TruthfulReport == Spec => []ReportIsTruthful
<1>1. Inv => ReportIsTruthful
    <2> SUFFICES ASSUME Inv, stage = "done", report # NoReport PROVE ReportIsTruthful
        BY DEF ReportIsTruthful
    <2>1. /\ report.created \cup report.failed \cup report.unattempted = Calls
          /\ \A d \in report.created :
                wire[d] = "applied" /\ \A e \in Calls : e < d => e \in report.created
          /\ \A d \in report.unattempted : Untouched(d)
          /\ record.result = "success" => report.created = Calls
        BY DEF Inv, DoneInv
    <2>2. report.created \subseteq Calls /\ report.unattempted \subseteq Calls /\ WireInv
        BY DEF Inv, CreateTypeOK
    <2> QED
        BY <2>1, <2>2 DEF WireInv, Untouched, ReportIsTruthful
<1> QED
    BY <1>1, Invariance, PTL

-----------------------------------------------------------------------------
\* The promise to the operator.

Refused == IF stage = "done" /\ report = NoReport THEN Calls ELSE report.unattempted

\* A refused document has no request on the wire.
LEMMA RefusedIsUntouched == Inv => \A d \in Refused : d \in Calls /\ wire[d] = "none" /\ hits[d] = 0
<1> SUFFICES ASSUME Inv, NEW d \in Refused PROVE d \in Calls /\ wire[d] = "none" /\ hits[d] = 0
    OBVIOUS
<1>1. d \in Calls
    BY DEF Inv, CreateTypeOK, Refused
<1>2. wire[d] = "none"
    <2>1. CASE stage \in {"parse", "ask", "wait"}
        BY <1>1, <2>1 DEF Inv, AskingInv, Untouched
    <2>2. CASE stage \in {"run", "invoke", "sent"}
        BY <2>2 DEF Inv, RunningInv, Refused
    <2>3. CASE stage = "done" /\ report = NoReport
        <3>1. report.created = {} /\ report.failed = {}
            BY <2>3 DEF NoReport
        <3>2. Calls # {}
            BY <1>1
        <3> QED
            BY <1>1, <2>3, <3>1, <3>2 DEF Inv, DoneInv, Untouched
    <2>4. CASE stage = "done" /\ report # NoReport
        BY <2>4 DEF Inv, DoneInv, Untouched, Refused
    <2> QED
        BY <2>1, <2>2, <2>3, <2>4 DEF Inv, CreateTypeOK
<1> QED
    BY <1>1, <1>2 DEF Inv, WireInv

\* Before the batch has ended nothing is refused.
LEMMA NothingRefusedYet == Inv /\ stage # "done" => Refused = {}
<1> SUFFICES ASSUME Inv, stage # "done" PROVE Refused = {}
    OBVIOUS
<1>1. CASE stage \in {"parse", "ask", "wait"}
    BY <1>1 DEF Inv, AskingInv, NoReport, Refused
<1>2. CASE stage \in {"run", "invoke", "sent"}
    BY <1>2 DEF Inv, RunningInv, Refused
<1> QED
    BY <1>1, <1>2 DEF Inv, CreateTypeOK

\* The initial state is one of the promise: nothing approved, created or refused.
LEMMA PromiseInitially == Init => Promise!ExecInit
<1> SUFFICES ASSUME Init PROVE Promise!ExecInit
    OBVIOUS
<1>1. granted = {} /\ hits = [d \in Calls |-> 0] /\ stage = "parse"
    BY DEF Init, GateInit
<1>2. report.unattempted = {}
    BY DEF Init, NoReport
<1> QED
    BY <1>1, <1>2 DEF Promise!ExecInit

\* Every step of a batch is a step of the promise or hidden from it.
LEMMA PromiseStep == Inv /\ Inv' /\ [Next]_vars => [Promise!ExecNext]_(Promise!execVars)
<1>p. Inv' => (\A d \in Refused : d \in Calls /\ wire[d] = "none" /\ hits[d] = 0)'
    BY RefusedIsUntouched, PTL
<1> SUFFICES ASSUME Inv, Inv', [Next]_vars PROVE Promise!ExecNext \/ UNCHANGED Promise!execVars
    OBVIOUS
<1>0. CreateTypeOK
    BY DEF Inv
<1>s. ASSUME UNCHANGED <<granted, hits>>, Refused' = Refused PROVE UNCHANGED Promise!execVars
    BY <1>s DEF Promise!execVars, Refused
\* The batch takes a step of its own: what it refuses was never created.
<1>b. ASSUME stage # "done", UNCHANGED <<granted, hits>>
      PROVE  Promise!ExecNext \/ UNCHANGED Promise!execVars
    <2>1. Refused = {}
        BY <1>b, NothingRefusedYet
    <2>2. \A d \in Refused' : d \in Calls /\ hits[d] = 0
        BY <1>b, <1>p
    <2>3. CASE Refused' = {}
        BY <1>b, <1>s, <2>1, <2>3
    <2>4. CASE Refused' # {}
        <3>1. Refused' \in SUBSET Calls
            BY <2>2
        <3>2. Promise!ReportRefused(Refused')
            BY <1>b, <2>1, <2>2, <2>4 DEF Promise!ReportRefused, Refused
        <3> QED
            BY <3>1, <3>2 DEF Promise!ExecNext
    <2> QED
        BY <2>3, <2>4
<1>1. CASE ParseCreateDocuments \/ AskGate \/ GateRefuses \/ GateApproves
    BY <1>1, <1>b DEF ParseCreateDocuments, AskGate, GateRefuses, GateApproves,
       Ask, Refuse, RefuseAtOnce, Decide, gateVars
<1>2. CASE SpendApproval \/ InvokeSends \/ Stops \/ Creates
    BY <1>2, <1>b DEF SpendApproval, InvokeSends, Stops, StopsOnCancel, InvokeEnds, Creates,
       ReturnsResult, Consume, gateVars
\* The apiserver creates the document: the one Perform.
<1>3. ASSUME NEW d \in Calls, ServerCreates(d) PROVE Promise!ExecNext
    <2>1. wire[d] = "sent" /\ hits' = [hits EXCEPT ![d] = @ + 1]
          /\ UNCHANGED <<granted, stage, report>>
        BY <1>3 DEF ServerCreates, batchVars, gateVars
    <2>2. hits[d] = 0 /\ d \notin Refused
        BY <2>1, RefusedIsUntouched DEF Inv, WireInv
    <2>3. d \in granted
        BY <2>1 DEF Inv, WireInv, IdInv, GateInv
    <2>4. hits' = [hits EXCEPT ![d] = 1]
        BY <1>0, <2>1, <2>2 DEF CreateTypeOK
    <2>5. Promise!Perform(d)
        BY <2>1, <2>2, <2>3, <2>4 DEF Promise!Perform, Refused
    <2> QED
        BY <2>5 DEF Promise!ExecNext
<1>4. ASSUME NEW d \in Calls, OperatorApproves(d) PROVE Promise!ExecNext
    <2>1. Promise!Approve(d)
        BY <1>4 DEF OperatorApproves, Grant, batchVars, Promise!Approve
    <2> QED
        BY <2>1 DEF Promise!ExecNext
<1>5. CASE CallerGoes \/ (\E d \in Calls : ServerRejects(d))
           \/ (\E n \in Names : WorldChanges(n)) \/ UNCHANGED vars
    BY <1>5, <1>s DEF CallerGoes, ServerRejects, WorldChanges, vars, batchVars, gateVars, Refused
<1> QED
    BY <1>1, <1>2, <1>3, <1>4, <1>5, StepCases DEF Outside

\* A batch keeps the promise to the operator document by document: created only
\* if approved, once per approval, and never once it was refused or listed as
\* unattempted.
THEOREM Refinement == Spec => ImplementsApprovedExecution
BY PromiseInitially, PromiseStep, Invariance, PTL
DEF Spec, ImplementsApprovedExecution, Promise!ExecSpec
=============================================================================

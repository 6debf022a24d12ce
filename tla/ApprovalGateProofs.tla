------------------------- MODULE ApprovalGateProofs -------------------------
(***************************************************************************)
(* Proofs about ApprovalGate for any set of calls and any set of ids.      *)
(*                                                                         *)
(* The safety invariants are not inductive: what a client knows about its  *)
(* request sits in the answer on its way (reply), in the id it drew and in *)
(* the backend's row, and the argument is that these three agree.  RowInv  *)
(* ties every row to the one call that drew its id and had its POST        *)
(* handled; CallInv ties each stage, reply and verdict to that row.        *)
(***************************************************************************)
EXTENDS ApprovalGate, TLAPS

\* The row c's own request created, if its POST was the one that created it.
OwnsRow(c) == externalID[c] \in Ids /\ rows[externalID[c]].of = c
OwnRow(c) == rows[externalID[c]]

RowInv(i) ==
    /\ rows[i].of \in Calls =>
          /\ externalID[rows[i].of] = i
          /\ post[rows[i].of] = "handled"
    /\ rows[i].status = "PENDING" <=> rows[i].by = "nobody"

\* How far the call has come and what has been sent.
ProgressInv(c) ==
    /\ stage[c] \in {"idle", "describe"} => post[c] = "none"
    /\ stage[c] = "create" => post[c] # "none"
    /\ post[c] # "none" => externalID[c] \in Ids
    /\ stage[c] \in {"get", "select", "overdue"} =>
          /\ requestID[c] = externalID[c]
          /\ OwnsRow(c)
          /\ OwnRow(c).by # "auto"
    /\ stage[c] = "returned" <=> verdict[c] # "none"

\* The answer on its way is a fact about the call's own row.
ReplyInv(c) ==
    /\ reply[c] # "none" => stage[c] \in {"create", "get"}
    /\ stage[c] = "create" /\ reply[c] \in {"PENDING", "APPROVED", "REJECTED"} => OwnsRow(c)
    /\ stage[c] = "create" /\ reply[c] \in {"APPROVED", "REJECTED"} =>
          OwnRow(c).status = reply[c] /\ OwnRow(c).by = "auto"
    /\ stage[c] = "create" /\ reply[c] = "PENDING" => OwnRow(c).by # "auto"
    /\ stage[c] = "get" /\ reply[c] \in {"APPROVED", "REJECTED"} => OwnRow(c).status = reply[c]
    /\ stage[c] = "get" /\ reply[c] = "EXPIRED" =>
          OwnRow(c).status = "PENDING" /\ externalID[c] \in expired

\* So is the verdict it returned.
VerdictInv(c) ==
    /\ verdict[c] = "approved" =>
          /\ requestID[c] = externalID[c]
          /\ OwnsRow(c)
          /\ OwnRow(c).status = "APPROVED"
          /\ c \in auto <=> OwnRow(c).by = "auto"
    /\ verdict[c] = "rejected" => OwnsRow(c) /\ OwnRow(c).status = "REJECTED"
    /\ verdict[c] = "expired" =>
          OwnsRow(c) /\ OwnRow(c).status = "PENDING" /\ externalID[c] \in expired
    /\ verdict[c] \in {"context", "unconfigured"} => post[c] = "none"
    /\ c \in used \cup auto => verdict[c] = "approved"

CallInv(c) == ProgressInv(c) /\ ReplyInv(c) /\ VerdictInv(c)

Inv ==
    /\ TypeOK
    /\ \A i \in Ids : RowInv(i)
    /\ \A c \in Calls : CallInv(c)

-----------------------------------------------------------------------------
\* Type correctness.  That a GET names an existing id comes from ProgressInv.

\* Every variable of the client and the backend has its type at the start.
LEMMA TypeInitially == Init => TypeOK
BY DEF Init, TypeOK, Stages, Verdicts, Stored, Replies, Row, NoRow

\* Every step of the client, the backend and the network keeps the types.
LEMMA TypeStep == Inv /\ [Next]_vars => TypeOK'
<1> SUFFICES ASSUME Inv, [Next]_vars PROVE TypeOK'
    OBVIOUS
<1>0. TypeOK /\ \A c \in Calls : ProgressInv(c)
    BY DEF Inv, CallInv
<1> USE <1>0 DEF TypeOK, Stages, Verdicts, Stored, Replies
<1>1. ASSUME NEW c \in Calls, Authorize(c) PROVE TypeOK'
    BY <1>1 DEF Authorize, Return, Deliver, clientVars, backendVars, clockVars
<1>2. ASSUME NEW c \in Calls, DescribeFails(c) PROVE TypeOK'
    BY <1>2 DEF DescribeFails, Return, Deliver, clientVars, backendVars, clockVars
<1>3. ASSUME NEW c \in Calls, CreateFails(c) PROVE TypeOK'
    BY <1>3 DEF CreateFails, Return, Deliver, clientVars, backendVars, clockVars
<1>4. ASSUME NEW c \in Calls, SendCreate(c) PROVE TypeOK'
    BY <1>4 DEF SendCreate, Return, Deliver, clientVars, backendVars, clockVars
<1>5. ASSUME NEW c \in Calls, ReceiveCreate(c) PROVE TypeOK'
    BY <1>5 DEF ReceiveCreate, Return, Deliver, clientVars, backendVars, clockVars
<1>6. ASSUME NEW c \in Calls, TransportFails(c) PROVE TypeOK'
    BY <1>6 DEF TransportFails, Return, Deliver, clientVars, backendVars, clockVars
<1>7. ASSUME NEW c \in Calls, ReceiveGet(c) PROVE TypeOK'
    BY <1>7 DEF ReceiveGet, Return, Deliver, clientVars, backendVars, clockVars
<1>8. ASSUME NEW c \in Calls, Tick(c) PROVE TypeOK'
    BY <1>8 DEF Tick, Return, Deliver, clientVars, backendVars, clockVars
<1>9. ASSUME NEW c \in Calls, GiveUp(c) PROVE TypeOK'
    BY <1>9 DEF GiveUp, Return, Deliver, clientVars, backendVars, clockVars
<1>10. ASSUME NEW c \in Calls, Consume(c) PROVE TypeOK'
    BY <1>10 DEF Consume, Return, Deliver, clientVars, backendVars, clockVars
<1>11. ASSUME NEW c \in Calls, BackendCreate(c) PROVE TypeOK'
    BY <1>11 DEF BackendCreate, Return, Deliver, clientVars, backendVars, clockVars, Row
<1>12. ASSUME NEW c \in Calls, BackendGet(c) PROVE TypeOK'
    BY <1>12 DEF BackendGet, Return, Deliver, clientVars, backendVars, clockVars, Row, ProgressInv, OwnsRow
<1>13. ASSUME NEW c \in Calls, DeadlineFires(c) PROVE TypeOK'
    BY <1>13 DEF DeadlineFires, Return, Deliver, clientVars, backendVars, clockVars
<1>14. ASSUME NEW c \in Calls, CallerGoes(c) PROVE TypeOK'
    BY <1>14 DEF CallerGoes, Return, Deliver, clientVars, backendVars, clockVars
<1>15. ASSUME NEW i \in Ids, OperatorDecides(i) PROVE TypeOK'
    BY <1>15 DEF OperatorDecides, clientVars, backendVars, clockVars, Row
<1>16. ASSUME NEW i \in Ids, RowExpires(i) PROVE TypeOK'
    BY <1>16 DEF RowExpires, clientVars, backendVars, clockVars
<1>17. CASE UNCHANGED vars
    BY <1>17 DEF vars, clientVars, backendVars, clockVars
<1> QED
    BY <1>1, <1>2, <1>3, <1>4, <1>5, <1>6, <1>7, <1>8, <1>9, <1>10, <1>11, <1>12, <1>13, <1>14, <1>15, <1>16, <1>17 DEF Next, ClientStep

-----------------------------------------------------------------------------
\* Rows and calls.

\* A row of the backend keeps its owner and never leaves a final status.
LEMMA RowStep == Inv /\ [Next]_vars => \A i \in Ids : RowInv(i)'
<1> SUFFICES ASSUME Inv, [Next]_vars, NEW i \in Ids PROVE RowInv(i)'
    OBVIOUS
<1>0. TypeOK /\ RowInv(i) /\ \A c \in Calls : ProgressInv(c)
    BY DEF Inv, CallInv
<1> USE <1>0 DEF RowInv
<1>1. ASSUME NEW c \in Calls, SendCreate(c) PROVE RowInv(i)'
    BY <1>1 DEF SendCreate, TypeOK, ProgressInv, backendVars
<1>2. ASSUME NEW c \in Calls, BackendCreate(c) PROVE RowInv(i)'
    BY <1>2, NoCallAssumption DEF BackendCreate, TypeOK, Row, Stored, ProgressInv, clientVars
<1>3. ASSUME NEW j \in Ids, OperatorDecides(j) PROVE RowInv(i)'
    BY <1>3 DEF OperatorDecides, TypeOK, Row, Stored, clientVars
<1>4. ASSUME UNCHANGED <<rows, externalID, post>> PROVE RowInv(i)'
    BY <1>4
<1>5. ASSUME NEW c \in Calls, Authorize(c) PROVE RowInv(i)'
    BY <1>5, <1>4 DEF Authorize, clientVars, backendVars
<1>6. ASSUME NEW c \in Calls, DescribeFails(c) PROVE RowInv(i)'
    BY <1>6, <1>4 DEF DescribeFails, clientVars, backendVars
<1>7. ASSUME NEW c \in Calls, CreateFails(c) PROVE RowInv(i)'
    BY <1>7, <1>4 DEF CreateFails, clientVars, backendVars
<1>8. ASSUME NEW c \in Calls, ReceiveCreate(c) PROVE RowInv(i)'
    BY <1>8, <1>4 DEF ReceiveCreate, clientVars, backendVars
<1>9. ASSUME NEW c \in Calls, TransportFails(c) PROVE RowInv(i)'
    BY <1>9, <1>4 DEF TransportFails, clientVars, backendVars
<1>10. ASSUME NEW c \in Calls, ReceiveGet(c) PROVE RowInv(i)'
    BY <1>10, <1>4 DEF ReceiveGet, clientVars, backendVars
<1>11. ASSUME NEW c \in Calls, Tick(c) PROVE RowInv(i)'
    BY <1>11, <1>4 DEF Tick, clientVars, backendVars
<1>12. ASSUME NEW c \in Calls, GiveUp(c) PROVE RowInv(i)'
    BY <1>12, <1>4 DEF GiveUp, clientVars, backendVars
<1>13. ASSUME NEW c \in Calls, Consume(c) PROVE RowInv(i)'
    BY <1>13, <1>4 DEF Consume, clientVars, backendVars
<1>14. ASSUME NEW c \in Calls, BackendGet(c) PROVE RowInv(i)'
    BY <1>14, <1>4 DEF BackendGet, clientVars, backendVars
<1>15. ASSUME NEW c \in Calls, DeadlineFires(c) PROVE RowInv(i)'
    BY <1>15, <1>4 DEF DeadlineFires, clientVars, backendVars
<1>16. ASSUME NEW c \in Calls, CallerGoes(c) PROVE RowInv(i)'
    BY <1>16, <1>4 DEF CallerGoes, clientVars, backendVars
<1>17. ASSUME NEW j \in Ids, RowExpires(j) PROVE RowInv(i)'
    BY <1>17, <1>4 DEF RowExpires, clientVars
<1>18. CASE UNCHANGED vars
    BY <1>18, <1>4 DEF vars, clientVars, backendVars
<1> QED
    BY <1>1, <1>2, <1>3, <1>5, <1>6, <1>7, <1>8, <1>9, <1>10, <1>11, <1>12, <1>13, <1>14, <1>15, <1>16, <1>17, <1>18 DEF Next, ClientStep

\* Each step of Authorize keeps what its program counter says about its row.
LEMMA CallStep == Inv /\ [Next]_vars => \A d \in Calls : CallInv(d)'
<1> SUFFICES ASSUME Inv, [Next]_vars, NEW d \in Calls PROVE CallInv(d)'
    OBVIOUS
<1>0. TypeOK /\ CallInv(d) /\ \A i \in Ids : RowInv(i)
    BY DEF Inv
<1> USE <1>0 DEF CallInv, ProgressInv, ReplyInv, VerdictInv, OwnsRow, OwnRow
<1>1. ASSUME NEW c \in Calls, Authorize(c) PROVE CallInv(d)'
    BY <1>1 DEF Authorize, Return, TypeOK, clientVars, backendVars, clockVars
<1>2. ASSUME NEW c \in Calls, DescribeFails(c) PROVE CallInv(d)'
    BY <1>2 DEF DescribeFails, Return, TypeOK, clientVars, backendVars, clockVars
<1>3. ASSUME NEW c \in Calls, CreateFails(c) PROVE CallInv(d)'
    BY <1>3 DEF CreateFails, Return, TypeOK, clientVars, backendVars, clockVars
<1>4. ASSUME NEW c \in Calls, SendCreate(c) PROVE CallInv(d)'
    BY <1>4 DEF SendCreate, TypeOK, clientVars, backendVars, clockVars, RowInv
<1>5. ASSUME NEW c \in Calls, ReceiveCreate(c) PROVE CallInv(d)'
    BY <1>5 DEF ReceiveCreate, Return, TypeOK, clientVars, backendVars, clockVars
<1>6. ASSUME NEW c \in Calls, TransportFails(c) PROVE CallInv(d)'
    BY <1>6 DEF TransportFails, Return, TypeOK, clientVars, backendVars, clockVars
<1>7. ASSUME NEW c \in Calls, ReceiveGet(c) PROVE CallInv(d)'
    BY <1>7 DEF ReceiveGet, Return, TypeOK, clientVars, backendVars, clockVars
<1>8. ASSUME NEW c \in Calls, Tick(c) PROVE CallInv(d)'
    BY <1>8 DEF Tick, TypeOK, clientVars, backendVars, clockVars
<1>9. ASSUME NEW c \in Calls, GiveUp(c) PROVE CallInv(d)'
    BY <1>9 DEF GiveUp, Return, TypeOK, clientVars, backendVars, clockVars
<1>10. ASSUME NEW c \in Calls, Consume(c) PROVE CallInv(d)'
    BY <1>10 DEF Consume, TypeOK, clientVars, backendVars, clockVars
<1>11. ASSUME NEW c \in Calls, BackendCreate(c) PROVE CallInv(d)'
    BY <1>11, NoCallAssumption DEF BackendCreate, Deliver, TypeOK, clientVars, backendVars, clockVars, RowInv, Row, Stored
<1>12. ASSUME NEW c \in Calls, BackendGet(c) PROVE CallInv(d)'
    BY <1>12 DEF BackendGet, TypeOK, clientVars, backendVars, clockVars, Row, Stored
<1>13. ASSUME NEW c \in Calls, DeadlineFires(c) PROVE CallInv(d)'
    BY <1>13 DEF DeadlineFires, TypeOK, clientVars, backendVars, clockVars
<1>14. ASSUME NEW c \in Calls, CallerGoes(c) PROVE CallInv(d)'
    BY <1>14 DEF CallerGoes, TypeOK, clientVars, backendVars, clockVars
<1>15. ASSUME NEW j \in Ids, OperatorDecides(j) PROVE CallInv(d)'
    BY <1>15 DEF OperatorDecides, TypeOK, RowInv, clientVars, backendVars, clockVars
<1>16. ASSUME NEW j \in Ids, RowExpires(j) PROVE CallInv(d)'
    BY <1>16 DEF RowExpires, TypeOK, RowInv, clientVars, backendVars, clockVars
<1>17. CASE UNCHANGED vars
    BY <1>17 DEF vars, clientVars, backendVars, clockVars
<1> QED
    BY <1>1, <1>2, <1>3, <1>4, <1>5, <1>6, <1>7, <1>8, <1>9, <1>10, <1>11, <1>12, <1>13, <1>14, <1>15, <1>16, <1>17 DEF Next, ClientStep

-----------------------------------------------------------------------------
\* The invariant, and the safety properties it carries.

\* The inductive invariant holds before anything is asked.
LEMMA InvInitially == Init => Inv
<1> SUFFICES ASSUME Init PROVE Inv
    OBVIOUS
<1>1. TypeOK
    BY TypeInitially
<1>2. ASSUME NEW i \in Ids PROVE RowInv(i)
    BY NoCallAssumption DEF Init, RowInv, NoRow
<1>3. ASSUME NEW c \in Calls PROVE CallInv(c)
    BY DEF Init, CallInv, ProgressInv, ReplyInv, VerdictInv
<1> QED
    BY <1>1, <1>2, <1>3 DEF Inv

\* Whatever the calls, the ids and the interleaving, a call's stage, the answer
\* on its way and the verdict it returned agree with the row it created.
THEOREM Invariance == Spec => []Inv
<1>1. Inv /\ [Next]_vars => Inv'
    BY TypeStep, RowStep, CallStep DEF Inv
<1> QED
    BY <1>1, InvInitially, PTL DEF Spec

\* Every variable keeps its type: the client never returns a status it does not
\* know as a verdict, and only names ids it drew.
THEOREM TypeCorrect == Spec => []TypeOK
<1>1. Inv => TypeOK
    BY DEF Inv
<1> QED
    BY <1>1, Invariance, PTL

\* Authorize approves only on the request it created itself.
THEOREM ApprovalIsOwn == Spec => []ApprovedIsOwnApproval
<1>1. Inv => ApprovedIsOwnApproval
    BY DEF Inv, CallInv, VerdictInv, OwnsRow, OwnRow, ApprovedIsOwnApproval
<1> QED
    BY <1>1, Invariance, PTL

\* AutoApproved is set exactly when no human decided.
THEOREM AutoApprovalIsHonest == Spec => []AutoApprovedIsHonest
<1>1. Inv => AutoApprovedIsHonest
    BY DEF Inv, CallInv, VerdictInv, OwnsRow, OwnRow, AutoApprovedIsHonest
<1> QED
    BY <1>1, Invariance, PTL

\* A call never leaves two requests with the operator.
THEOREM AtMostOneRequest == Spec => []OneRequestPerCall
<1>1. Inv => OneRequestPerCall
    BY DEF Inv, RowInv, OneRequestPerCall
<1> QED
    BY <1>1, Invariance, PTL

-----------------------------------------------------------------------------
\* The client implements the contract.

\* What the caller has been told, and what the backend has granted, as
\* ImplementsContract's mapping reads them off the state.
Told(c) ==
    CASE stage[c] = "idle" -> "none"
      [] stage[c] = "returned" -> verdict[c]
      [] OTHER -> "asking"
Granted == {c \in Calls : \E i \in Ids : rows[i].of = c /\ rows[i].status = "APPROVED"}

\* The start maps to the start of the contract: nothing asked, granted or spent.
LEMMA ContractInitially == Init => Contract!GateInit
<1> SUFFICES ASSUME Init PROVE Contract!GateInit
    OBVIOUS
<1>1. Granted = {}
    BY DEF Init, NoRow, Granted
<1>2. \A c \in Calls : Told(c) = "none"
    BY DEF Init, Told
<1> QED
    BY <1>1, <1>2 DEF Init, Contract!GateInit, Granted, Told

\* One lemma per contract action: which change of what callers are told, of
\* what is granted and of what is spent is that action.
LEMMA IsAsk ==
    ASSUME NEW c \in Calls, Told(c) = "none", Told(c)' = "asking",
           \A d \in Calls \ {c} : Told(d)' = Told(d), Granted' = Granted, used' = used
    PROVE  Contract!Ask(c)
<1>1. [d \in Calls |-> Told(d)'] = [[d \in Calls |-> Told(d)] EXCEPT ![c] = "asking"]
    OBVIOUS
<1> QED
    BY <1>1 DEF Contract!Ask, Granted, Told

\* Under the mapping, Unavailable.Authorize is a refusal at once.
LEMMA IsRefuseAtOnce ==
    ASSUME NEW c \in Calls, Told(c) = "none", Told(c)' = "unconfigured",
           \A d \in Calls \ {c} : Told(d)' = Told(d), Granted' = Granted, used' = used
    PROVE  Contract!RefuseAtOnce(c)
<1>1. [d \in Calls |-> Told(d)'] = [[d \in Calls |-> Told(d)] EXCEPT ![c] = "unconfigured"]
    OBVIOUS
<1> QED
    BY <1>1 DEF Contract!RefuseAtOnce, Granted, Told

\* Under the mapping, a refusal that Authorize returns is a refusal of the contract.
LEMMA IsRefuse ==
    ASSUME NEW c \in Calls, NEW v \in Contract!Refusals, Told(c) = "asking", Told(c)' = v,
           v \in Contract!NeverGranted => c \notin Granted,
           \A d \in Calls \ {c} : Told(d)' = Told(d), Granted' = Granted, used' = used
    PROVE  Contract!Refuse(c, v)
<1>1. [d \in Calls |-> Told(d)'] = [[d \in Calls |-> Told(d)] EXCEPT ![c] = v]
    OBVIOUS
<1> QED
    BY <1>1 DEF Contract!Refuse, Granted, Told

\* Under the mapping, a Decision that Authorize returns is one of a granted call.
LEMMA IsDecide ==
    ASSUME NEW c \in Calls, Told(c) = "asking", Told(c)' = "approved", c \in Granted,
           \A d \in Calls \ {c} : Told(d)' = Told(d), Granted' = Granted, used' = used
    PROVE  Contract!Decide(c)
<1>1. [d \in Calls |-> Told(d)'] = [[d \in Calls |-> Told(d)] EXCEPT ![c] = "approved"]
    OBVIOUS
<1> QED
    BY <1>1 DEF Contract!Decide, Granted, Told

\* Under the mapping, a row that becomes APPROVED is a grant.
LEMMA IsGrant ==
    ASSUME NEW c \in Calls, Told(c) \in {"asking", "timeout", "unreachable"}, c \notin Granted,
           Granted' = Granted \cup {c},
           \A d \in Calls : Told(d)' = Told(d), used' = used
    PROVE  Contract!Grant(c)
BY DEF Contract!Grant, Granted, Told

\* Under the mapping, Decision.Consume is the contract's.
LEMMA IsConsume ==
    ASSUME NEW c \in Calls, Told(c) = "approved", c \notin used, used' = used \cup {c},
           \A d \in Calls : Told(d)' = Told(d), Granted' = Granted
    PROVE  Contract!Consume(c)
BY DEF Contract!Consume, Granted, Told

\* A step that tells no caller anything and grants nothing is hidden.
LEMMA IsStutter ==
    ASSUME \A d \in Calls : Told(d)' = Told(d), Granted' = Granted, used' = used
    PROVE  UNCHANGED Contract!gateVars
BY DEF Contract!gateVars, Granted, Told

\* A granted call is one whose own row is APPROVED.
LEMMA GrantedOwns ==
    ASSUME Inv, NEW c \in Calls
    PROVE  c \in Granted <=> OwnsRow(c) /\ OwnRow(c).status = "APPROVED"
BY DEF Inv, RowInv, Granted, OwnsRow, OwnRow

\* A return tells its own caller the verdict, and no one else anything.
LEMMA ToldByReturn ==
    ASSUME TypeOK, NEW c \in Calls, NEW v, Return(c, v)
    PROVE  Told(c)' = v /\ \A d \in Calls \ {c} : Told(d)' = Told(d)
BY DEF TypeOK, Return, Told

\* Every step of the live client is a step of the contract or hidden from it.
LEMMA ContractStep == Inv /\ [Next]_vars => [Contract!GateNext]_(Contract!gateVars)
<1> SUFFICES ASSUME Inv, [Next]_vars PROVE Contract!GateNext \/ UNCHANGED Contract!gateVars
    OBVIOUS
<1>0. TypeOK /\ (\A i \in Ids : RowInv(i)) /\ \A c \in Calls : CallInv(c)
    BY DEF Inv
<1> USE DEF Contract!Refusals, Contract!NeverGranted
\* A refusal by c of verdict v, rows and Decisions untouched.
<1>r. ASSUME NEW c \in Calls, NEW v \in Contract!Refusals, Return(c, v), rows' = rows, used' = used,
             Told(c) = "asking", v \in Contract!NeverGranted => c \notin Granted
      PROVE  Contract!GateNext
  <2>1. Granted' = Granted
    BY <1>r DEF Granted
  <2>2. Contract!Refuse(c, v)
    BY <1>r, <2>1, <1>0, ToldByReturn, IsRefuse
  <2> QED
    BY <2>2 DEF Contract!GateNext
\* A Decision for c.
<1>d. ASSUME NEW c \in Calls, Return(c, "approved"), rows' = rows, used' = used,
             Told(c) = "asking", c \in Granted
      PROVE  Contract!GateNext
  <2>1. Granted' = Granted
    BY <1>d DEF Granted
  <2>2. Contract!Decide(c)
    BY <1>d, <2>1, <1>0, ToldByReturn, IsDecide
  <2> QED
    BY <2>2 DEF Contract!GateNext
\* A step that tells nobody anything and grants nothing.
<1>s. ASSUME \A d \in Calls : Told(d)' = Told(d), rows' = rows, used' = used
      PROVE  UNCHANGED Contract!gateVars
  <2>1. Granted' = Granted
    BY <1>s DEF Granted
  <2> QED
    BY <1>s, <2>1, IsStutter
<1>1. ASSUME NEW c \in Calls, Authorize(c) PROVE Contract!GateNext
  <2>1. Granted' = Granted /\ used' = used /\ Told(c) = "none"
    BY <1>1 DEF Authorize, backendVars, Granted, Told
  <2>2. CASE configured
    <3>1. Told(c)' = "asking" /\ \A d \in Calls \ {c} : Told(d)' = Told(d)
      BY <1>0, <1>1, <2>2 DEF Authorize, Return, Told, TypeOK
    <3>2. Contract!Ask(c)
      BY <2>1, <3>1, IsAsk
    <3> QED
      BY <3>2 DEF Contract!GateNext
  <2>3. CASE ~configured
    <3>1. Return(c, "unconfigured")
      BY <1>1, <2>3 DEF Authorize
    <3>2. Contract!RefuseAtOnce(c)
      BY <1>0, <2>1, <3>1, ToldByReturn, IsRefuseAtOnce
    <3> QED
      BY <3>2 DEF Contract!GateNext
  <2> QED
    BY <2>2, <2>3
<1>2. ASSUME NEW c \in Calls, DescribeFails(c) PROVE Contract!GateNext
  <2>1. c \notin Granted /\ Told(c) = "asking"
    BY <1>0, <1>2, GrantedOwns DEF DescribeFails, CallInv, ProgressInv, RowInv, OwnsRow, Told
  <2> QED
    BY <1>2, <1>r, <2>1 DEF DescribeFails, backendVars
<1>3. ASSUME NEW c \in Calls, CreateFails(c) \/ TransportFails(c) PROVE Contract!GateNext
  <2>1. Told(c) = "asking"
    BY <1>3 DEF CreateFails, TransportFails, Told
  <2> QED
    BY <1>3, <1>r, <2>1 DEF CreateFails, TransportFails, backendVars
<1>4. ASSUME NEW c \in Calls, SendCreate(c) PROVE UNCHANGED Contract!gateVars
  <2>1. \A d \in Calls : Told(d)' = Told(d)
    BY <1>0, <1>4 DEF SendCreate, TypeOK, Told
  <2> QED
    BY <1>4, <1>s, <2>1 DEF SendCreate, backendVars
<1>5. ASSUME NEW c \in Calls, ReceiveCreate(c) PROVE Contract!GateNext \/ UNCHANGED Contract!gateVars
  <2>1. rows' = rows /\ used' = used /\ Told(c) = "asking"
    BY <1>5 DEF ReceiveCreate, backendVars, Told
  <2>2. CASE reply[c] = "APPROVED"
    <3>1. c \in Granted
      BY <1>0, <1>5, <2>2, GrantedOwns DEF ReceiveCreate, CallInv, ReplyInv
    <3> QED
      BY <1>5, <1>d, <2>1, <2>2, <3>1 DEF ReceiveCreate
  <2>3. CASE reply[c] = "REJECTED"
    <3>1. c \notin Granted
      BY <1>0, <1>5, <2>3, GrantedOwns DEF ReceiveCreate, CallInv, ReplyInv
    <3> QED
      BY <1>5, <1>r, <2>1, <2>3, <3>1 DEF ReceiveCreate
  <2>4. CASE reply[c] = "PENDING"
    <3>1. \A d \in Calls : Told(d)' = Told(d)
      BY <1>0, <1>5, <2>4 DEF ReceiveCreate, TypeOK, Told
    <3> QED
      BY <1>s, <2>1, <3>1
  <2>5. CASE reply[c] \in {"error", "conflict"}
    BY <1>5, <1>r, <2>1, <2>5 DEF ReceiveCreate
  <2> QED
    BY <1>5, <2>2, <2>3, <2>4, <2>5 DEF ReceiveCreate
<1>6. ASSUME NEW c \in Calls, ReceiveGet(c) PROVE Contract!GateNext \/ UNCHANGED Contract!gateVars
  <2>1. rows' = rows /\ used' = used /\ Told(c) = "asking"
    BY <1>6 DEF ReceiveGet, backendVars, Told
  <2>2. c \in Granted <=> OwnRow(c).status = "APPROVED"
    BY <1>0, <1>6, GrantedOwns DEF ReceiveGet, CallInv, ProgressInv
  <2>3. CASE reply[c] = "APPROVED"
    <3>1. c \in Granted
      BY <1>0, <1>6, <2>2, <2>3 DEF ReceiveGet, CallInv, ReplyInv
    <3> QED
      BY <1>6, <1>d, <2>1, <2>3, <3>1 DEF ReceiveGet
  <2>4. CASE reply[c] \in {"REJECTED", "EXPIRED"}
    <3>1. c \notin Granted
      BY <1>0, <1>6, <2>2, <2>4 DEF ReceiveGet, CallInv, ReplyInv
    <3> QED
      BY <1>6, <1>r, <2>1, <2>4, <3>1 DEF ReceiveGet
  <2>5. CASE reply[c] = "PENDING"
    <3>1. \A d \in Calls : Told(d)' = Told(d)
      BY <1>0, <1>6, <2>5 DEF ReceiveGet, TypeOK, Told
    <3> QED
      BY <1>s, <2>1, <3>1
  <2>6. CASE reply[c] \in {"WITHDRAWN", "error"}
    BY <1>6, <1>r, <2>1, <2>6 DEF ReceiveGet
  <2> QED
    BY <1>6, <2>3, <2>4, <2>5, <2>6 DEF ReceiveGet
<1>7. ASSUME NEW c \in Calls, Tick(c) PROVE UNCHANGED Contract!gateVars
  <2>1. \A d \in Calls : Told(d)' = Told(d)
    BY <1>0, <1>7 DEF Tick, TypeOK, Told
  <2> QED
    BY <1>7, <1>s, <2>1 DEF Tick, backendVars
<1>8. ASSUME NEW c \in Calls, GiveUp(c) PROVE Contract!GateNext
  <2>1. Told(c) = "asking"
    BY <1>8 DEF GiveUp, Told
  <2> QED
    BY <1>8, <1>r, <2>1 DEF GiveUp, backendVars
<1>9. ASSUME NEW c \in Calls, Consume(c) PROVE Contract!GateNext
  <2>1. Told(c) = "approved" /\ Granted' = Granted /\ \A d \in Calls : Told(d)' = Told(d)
    BY <1>0, <1>9 DEF Consume, backendVars, CallInv, ProgressInv, Told, Granted
  <2>2. Contract!Consume(c)
    BY <1>9, <2>1, IsConsume DEF Consume
  <2> QED
    BY <2>2 DEF Contract!GateNext
\* A row of c turns APPROVED while nobody is told: the backend's Grant.
<1>g. ASSUME NEW c \in Calls, NEW i \in Ids, NEW r, rows' = [rows EXCEPT ![i] = r],
             r.of = c, r.status = "APPROVED", ~OwnsRow(c) \/ OwnRow(c).status # "APPROVED",
             rows[i].of \in {c, NoCall}, \A d \in Calls : Told(d)' = Told(d), used' = used,
             Told(c) \in {"asking", "timeout", "unreachable"}
      PROVE  Contract!GateNext
  <2>1. c \notin Granted
    BY <1>g, GrantedOwns
  <2>2. Granted' = Granted \cup {c}
    BY <1>0, <1>g, NoCallAssumption DEF Granted, TypeOK
  <2>3. Contract!Grant(c)
    BY <1>g, <2>1, <2>2, IsGrant
  <2> QED
    BY <2>3 DEF Contract!GateNext
\* A row of c turns to anything else.
<1>n. ASSUME NEW c \in Calls, NEW i \in Ids, NEW r, rows' = [rows EXCEPT ![i] = r],
             r.status # "APPROVED", rows[i].of = NoCall \/ rows[i].status # "APPROVED",
             \A d \in Calls : Told(d)' = Told(d), used' = used
      PROVE  UNCHANGED Contract!gateVars
  <2>1. Granted' = Granted
    BY <1>0, <1>n, NoCallAssumption DEF Granted, TypeOK
  <2> QED
    BY <1>n, <2>1, IsStutter
<1>10. ASSUME NEW c \in Calls, BackendCreate(c)
       PROVE  Contract!GateNext \/ UNCHANGED Contract!gateVars
  <2>1. (\A d \in Calls : Told(d)' = Told(d)) /\ used' = used /\ externalID[c] \in Ids
    BY <1>0, <1>10 DEF BackendCreate, clientVars, Told, CallInv, ProgressInv
  <2>2. ~OwnsRow(c)
    BY <1>0, <1>10 DEF BackendCreate, RowInv, OwnsRow
  <2>3. Told(c) \in {"asking", "timeout", "unreachable"}
    BY <1>0, <1>10, <2>2 DEF BackendCreate, CallInv, ProgressInv, VerdictInv, TypeOK, Stages, Verdicts, Told
  <2>4. CASE rows' = rows
    BY <1>s, <2>1, <2>4
  <2>5. ASSUME NEW st \in {"PENDING", "APPROVED", "REJECTED"}, rows[externalID[c]].of = NoCall,
               rows' = [rows EXCEPT ![externalID[c]] =
                          [of |-> c, status |-> st,
                           by |-> IF st = "PENDING" THEN "nobody" ELSE "auto"]]
        PROVE  Contract!GateNext \/ UNCHANGED Contract!gateVars
    <3> DEFINE i == externalID[c]
               r == [of |-> c, status |-> st, by |-> IF st = "PENDING" THEN "nobody" ELSE "auto"]
    <3>1. /\ i \in Ids /\ rows[i].of = NoCall
          /\ rows' = [rows EXCEPT ![i] = r] /\ r.of = c /\ r.status = st
      BY <2>1, <2>5
    <3> HIDE DEF i, r
    <3>2. CASE st = "APPROVED"
      <4>1. r.status = "APPROVED" /\ rows[i].of \in {c, NoCall}
        BY <3>1, <3>2
      <4> QED
        BY <1>g, <2>1, <2>2, <2>3, <3>1, <4>1
    <3>3. CASE st # "APPROVED"
      <4>1. r.status # "APPROVED"
        BY <3>1, <3>3
      <4> QED
        BY <1>n, <2>1, <3>1, <4>1
    <3> QED
      BY <3>2, <3>3
  <2> QED
    BY <1>10, <2>4, <2>5 DEF BackendCreate
<1>11. ASSUME NEW i \in Ids, OperatorDecides(i)
       PROVE  Contract!GateNext \/ UNCHANGED Contract!gateVars
  <2> DEFINE c == rows[i].of
  <2>1. c \in Calls /\ externalID[c] = i /\ OwnsRow(c) /\ OwnRow(c).status = "PENDING"
    BY <1>0, <1>11 DEF OperatorDecides, RowInv, TypeOK, Row, OwnsRow, OwnRow
  <2>2. (\A d \in Calls : Told(d)' = Told(d)) /\ used' = used
    BY <1>11 DEF OperatorDecides, clientVars, Told
  <2>3. Told(c) \in {"asking", "timeout", "unreachable"}
    BY <1>0, <1>11, <2>1 DEF OperatorDecides, CallInv, ProgressInv, VerdictInv, RowInv,
                             TypeOK, Stages, Verdicts, Told
  <2>4. PICK st \in Stored \ {"PENDING"} :
            rows' = [rows EXCEPT ![i] = [of |-> c, status |-> st, by |-> "human"]]
    BY <1>11 DEF OperatorDecides
  <2> DEFINE r == [of |-> c, status |-> st, by |-> "human"]
  <2>5. /\ rows' = [rows EXCEPT ![i] = r] /\ r.of = c /\ r.status = st
        /\ rows[i].of = c /\ rows[i].status = "PENDING"
    BY <1>11, <2>4 DEF OperatorDecides
  <2> HIDE DEF c, r
  <2>6. CASE st = "APPROVED"
    <3>1. /\ r.status = "APPROVED" /\ rows[i].of \in {c, NoCall}
          /\ OwnRow(c).status # "APPROVED"
      BY <2>1, <2>5, <2>6
    <3> QED
      BY <1>g, <2>1, <2>2, <2>3, <2>5, <3>1
  <2>7. CASE st # "APPROVED"
    <3>1. r.status # "APPROVED" /\ rows[i].status # "APPROVED"
      BY <2>5, <2>7
    <3> QED
      BY <1>n, <2>1, <2>2, <2>5, <3>1
  <2> QED
    BY <2>6, <2>7
<1>12. ASSUME \/ \E c \in Calls : BackendGet(c) \/ DeadlineFires(c) \/ CallerGoes(c)
              \/ \E i \in Ids : RowExpires(i)
              \/ UNCHANGED vars
       PROVE  UNCHANGED Contract!gateVars
  <2>1. (\A d \in Calls : Told(d)' = Told(d)) /\ rows' = rows /\ used' = used
    BY <1>12 DEF BackendGet, DeadlineFires, CallerGoes, RowExpires, vars, clientVars, backendVars, Told
  <2> QED
    BY <1>s, <2>1
<1> QED
    BY <1>1, <1>2, <1>3, <1>4, <1>5, <1>6, <1>7, <1>8, <1>9, <1>10, <1>11, <1>12
    DEF Next, ClientStep

\* The live client implements the contract the gated paths are built on, for
\* any number of calls and ids.
THEOREM Refinement == Spec => ImplementsContract
    BY ContractInitially, ContractStep, Invariance, PTL
    DEF Spec, ImplementsContract, Contract!GateSpec

=============================================================================

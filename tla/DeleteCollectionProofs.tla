----------------------- MODULE DeleteCollectionProofs -----------------------
(***************************************************************************)
(* Proofs about DeleteCollection for any set of calls and objects.         *)
(*                                                                         *)
(* The comparison in confirmCollectionUnchanged gives equality at one      *)
(* moment; the deletion runs later, object by object, under the selector   *)
(* alone.  WindowInv says what survives of the equality: as long as nobody *)
(* else touched the selection, everything still selected is on the list    *)
(* the operator was shown - a subset, because the call's own deletion      *)
(* shrinks the selection under it.                                         *)
(***************************************************************************)
EXTENDS DeleteCollection, TLAPS

\* What a stage says about the gate's answer and the record.
StageInv(c) ==
    /\ stage[c] \in {"idle", "list", "ask"} => answer[c] = "none"
    /\ stage[c] = "wait" => answer[c] = "asking"
    /\ stage[c] \in {"spend", "confirm", "invoke", "sent"} => answer[c] = "approved"
    /\ stage[c] # "done" => record[c] = NoRecord
    /\ stage[c] = "done" =>
          record[c].decision = IF answer[c] = "none" THEN "empty" ELSE answer[c]

\* What there is of the deletion.
WireInv(c) ==
    /\ wire[c] # "none" =>
          /\ stage[c] \in {"sent", "done"}
          /\ answer[c] = "approved"
          /\ record[c].result # "refused"
    /\ wire[c] \in {"none", "sent"} => runs[c] = 0 /\ hits[c] = {}

\* The selection under a call that has passed its second listing.
WindowInv(c) ==
    c \notin raced /\ (stage[c] = "invoke" \/ wire[c] \in {"sent", "running"}) =>
        Targets \subseteq approved[c]

HitsInv(c) == c \notin raced => hits[c] \subseteq approved[c]

Inv ==
    /\ CollectionTypeOK
    /\ GateInv
    /\ \A c \in Calls : StageInv(c) /\ WireInv(c) /\ WindowInv(c) /\ HitsInv(c)

-----------------------------------------------------------------------------
\* Type correctness, and the contract of the gate.

\* A step of the gate's contract keeps its types and its invariant.
LEMMA GateStep == GateTypeOK /\ GateInv /\ [GateNext]_gateVars => (GateTypeOK /\ GateInv)'
BY DEF GateTypeOK, GateInv, GateNext, gateVars, Ask, Grant, Decide, Refuse, RefuseAtOnce,
       Consume, Answers, Refusals, NeverGranted

\* Every step is a step of the gate's contract or leaves it alone.
LEMMA StepsTheGate == [Next]_vars => [GateNext]_gateVars
<1> SUFFICES ASSUME [Next]_vars PROVE GateNext \/ UNCHANGED gateVars
    OBVIOUS
<1>1. ASSUME NEW c \in Calls,
             \/ AskGate(c) \/ GateRefuses(c) \/ GateApproves(c) \/ SpendApproval(c)
             \/ OperatorApproves(c)
      PROVE  GateNext
    BY <1>1 DEF AskGate, GateRefuses, GateApproves, SpendApproval, OperatorApproves, GateNext, Refusals
<1>2. ASSUME NEW c \in Calls,
             \/ Receive(c) \/ ListTargets(c) \/ ListFails(c) \/ ConfirmCollectionUnchanged(c)
             \/ InvokeEnds(c) \/ InvokeSends(c) \/ ReturnsResult(c) \/ ServerBegins(c)
             \/ (\E o \in Objects : ServerDeletes(c, o)) \/ ServerEnds(c)
      PROVE  UNCHANGED gateVars
    BY <1>2 DEF Receive, ListTargets, ListFails, ConfirmCollectionUnchanged, InvokeEnds,
       InvokeSends, ReturnsResult, ServerBegins, ServerDeletes, ServerEnds
<1>3. ASSUME NEW o \in Objects, WorldChanges(o) PROVE UNCHANGED gateVars
    BY <1>3 DEF WorldChanges
<1>4. CASE UNCHANGED vars
    BY <1>4 DEF vars
<1> QED
    BY <1>1, <1>2, <1>3, <1>4 DEF Next

\* toolsCall's deferred Emit ends the call it is about with a well-formed record.
LEMMA EmitEffect ==
    ASSUME CollectionTypeOK, NEW c \in Calls, NEW result \in {"success", "refused", "error"},
           NEW reason \in Reasons, NEW decision \in Decisions, Emit(c, result, reason, decision)
    PROVE  /\ stage' \in [Calls -> Stages] /\ record' \in [Calls -> {NoRecord} \cup Records]
           /\ stage'[c] = "done"
           /\ record'[c].result = result
           /\ record'[c].decision = decision
           /\ \A d \in Calls \ {c} : stage'[d] = stage[d] /\ record'[d] = record[d]
<1>1. [result |-> result, reason |-> reason, decision |-> decision] \in Records
    BY DEF Records
<1> QED
    BY <1>1 DEF Emit, GoTo, Stages, CollectionTypeOK

\* Where a call goes on instead, its record stays as it is.
LEMMA GoToEffect ==
    ASSUME CollectionTypeOK, NEW c \in Calls, NEW s \in Stages, GoTo(c, s)
    PROVE  /\ stage' \in [Calls -> Stages]
           /\ stage'[c] = s
           /\ \A d \in Calls \ {c} : stage'[d] = stage[d]
BY DEF GoTo, CollectionTypeOK

\* A selection, as ListTargets returns it, pairs objects with their versions.
LEMMA TargetsType == CollectionTypeOK => Targets \subseteq Objects \X Nat
BY DEF CollectionTypeOK, Targets

\* Every variable of a collection delete has its type at the start.
LEMMA TypeInitially == Init => CollectionTypeOK /\ GateInv
BY DEF Init, GateInit, CollectionTypeOK, GateTypeOK, GateInv, Answers, Stages

\* Every step of callDeleteCollection, the apiserver and the world keeps the types.
LEMMA TypeStep == Inv /\ [Next]_vars => (CollectionTypeOK /\ GateInv)'
<1> SUFFICES ASSUME Inv, [Next]_vars PROVE (CollectionTypeOK /\ GateInv)'
    OBVIOUS
<1>0. CollectionTypeOK /\ GateInv
    BY DEF Inv
<1>g. (GateTypeOK /\ GateInv)'
    BY <1>0, GateStep, StepsTheGate DEF CollectionTypeOK
<1> SUFFICES CollectionTypeOK'
    BY <1>g
\* Steps of the dispatcher that end the call or move it on.
<1>e. ASSUME NEW c \in Calls, NEW result \in {"success", "refused", "error"},
             NEW reason \in Reasons, NEW decision \in Decisions, Emit(c, result, reason, decision),
             UNCHANGED <<setupVars, clusterVars, approved, wire, worklist>>
      PROVE  CollectionTypeOK'
    BY <1>0, <1>e, <1>g, EmitEffect DEF CollectionTypeOK, setupVars, clusterVars
<1>s. ASSUME NEW c \in Calls, NEW s \in Stages, GoTo(c, s),
             UNCHANGED <<setupVars, clusterVars, approved, wire, worklist, record>>
      PROVE  CollectionTypeOK'
    BY <1>0, <1>s, <1>g, GoToEffect DEF CollectionTypeOK, setupVars, clusterVars
<1> USE DEF setupVars, clusterVars, callVars
<1>1. ASSUME NEW c \in Calls, Receive(c) PROVE CollectionTypeOK'
    BY <1>1, <1>e, <1>s DEF Receive, Reasons, Decisions, Stages
<1>2. ASSUME NEW c \in Calls, ListTargets(c) PROVE CollectionTypeOK'
    <2>1. approved' \in [Calls -> SUBSET (Objects \X Nat)]
        BY <1>0, <1>2, TargetsType DEF ListTargets, CollectionTypeOK
    <2>2. stage' \in [Calls -> Stages] /\ record' \in [Calls -> {NoRecord} \cup Records]
        <3>1. CASE Emit(c, "success", "empty", "empty")
            BY <1>0, <3>1, EmitEffect DEF Reasons, Decisions
        <3>2. CASE GoTo(c, "ask") /\ UNCHANGED record
            BY <1>0, <3>2, GoToEffect DEF Stages, CollectionTypeOK
        <3> QED
            BY <1>2, <3>1, <3>2 DEF ListTargets
    <2> QED
        BY <1>0, <1>2, <1>g, <2>1, <2>2 DEF ListTargets, CollectionTypeOK
<1>3. ASSUME NEW c \in Calls, ListFails(c) PROVE CollectionTypeOK'
    BY <1>3, <1>e DEF ListFails, Reasons, Decisions
<1>4. ASSUME NEW c \in Calls, AskGate(c) PROVE CollectionTypeOK'
    BY <1>4, <1>e, <1>s DEF AskGate, Reasons, Decisions, Stages
<1>5. ASSUME NEW c \in Calls, GateRefuses(c) PROVE CollectionTypeOK'
    BY <1>5, <1>e DEF GateRefuses, Reasons, Decisions
<1>6. ASSUME NEW c \in Calls, GateApproves(c) PROVE CollectionTypeOK'
    BY <1>6, <1>s DEF GateApproves, Stages
<1>7. ASSUME NEW c \in Calls, SpendApproval(c) PROVE CollectionTypeOK'
    BY <1>7, <1>s DEF SpendApproval, Stages
<1>8. ASSUME NEW c \in Calls, ConfirmCollectionUnchanged(c) PROVE CollectionTypeOK'
    BY <1>8, <1>e, <1>s DEF ConfirmCollectionUnchanged, Reasons, Decisions, Stages
<1>9. ASSUME NEW c \in Calls, InvokeEnds(c) PROVE CollectionTypeOK'
    BY <1>9, <1>e DEF InvokeEnds, Reasons, Decisions
<1>10. ASSUME NEW c \in Calls, InvokeSends(c) PROVE CollectionTypeOK'
    BY <1>0, <1>10, <1>g DEF InvokeSends, GoTo, CollectionTypeOK, Stages
<1>11. ASSUME NEW c \in Calls, ReturnsResult(c) PROVE CollectionTypeOK'
    BY <1>11, <1>e DEF ReturnsResult, Reasons, Decisions
<1>12. ASSUME NEW c \in Calls, ServerBegins(c) PROVE CollectionTypeOK'
    BY <1>0, <1>12, <1>g DEF ServerBegins, CollectionTypeOK
<1>13. ASSUME NEW c \in Calls, NEW o \in Objects, ServerDeletes(c, o) PROVE CollectionTypeOK'
    BY <1>0, <1>13, <1>g DEF ServerDeletes, CollectionTypeOK, PastCheck
<1>14. ASSUME NEW c \in Calls, ServerEnds(c) PROVE CollectionTypeOK'
    BY <1>0, <1>14, <1>g DEF ServerEnds, CollectionTypeOK
<1>15. ASSUME NEW c \in Calls, OperatorApproves(c) PROVE CollectionTypeOK'
    BY <1>0, <1>15, <1>g DEF OperatorApproves, CollectionTypeOK
<1>16. ASSUME NEW o \in Objects, WorldChanges(o) PROVE CollectionTypeOK'
    BY <1>0, <1>16, <1>g DEF WorldChanges, CollectionTypeOK, PastCheck
<1>17. CASE UNCHANGED vars
    BY <1>0, <1>17, <1>g DEF vars, CollectionTypeOK
<1> QED
    BY <1>1, <1>2, <1>3, <1>4, <1>5, <1>6, <1>7, <1>8, <1>9, <1>10, <1>11, <1>12, <1>13, <1>14,
       <1>15, <1>16, <1>17 DEF Next

-----------------------------------------------------------------------------
\* The program counter, the answer, the deletion on the wire and the record.

\* Each step of callDeleteCollection keeps what its program counter says about
\* the verdict, the record and the deletion that was sent.
LEMMA CallInvStep == Inv /\ [Next]_vars => \A d \in Calls : (StageInv(d) /\ WireInv(d))'
<1> SUFFICES ASSUME Inv, [Next]_vars, NEW d \in Calls PROVE (StageInv(d) /\ WireInv(d))'
    OBVIOUS
<1> DEFINE CallInv == StageInv(d) /\ WireInv(d)
<1>0. CollectionTypeOK /\ GateTypeOK /\ StageInv(d) /\ WireInv(d)
    BY DEF Inv, CollectionTypeOK
<1>f. ASSUME stage'[d] = stage[d], answer'[d] = answer[d], wire'[d] = wire[d],
             record'[d] = record[d], runs'[d] = runs[d], hits'[d] = hits[d]
      PROVE  CallInv'
    BY <1>0, <1>f DEF StageInv, WireInv
\* Another call ends with its Emit.
<1>o. ASSUME NEW c \in Calls, c # d, NEW result \in {"success", "refused", "error"},
             NEW reason \in Reasons, NEW decision \in Decisions,
             Emit(c, result, reason, decision), answer'[d] = answer[d],
             wire'[d] = wire[d], runs'[d] = runs[d], hits'[d] = hits[d]
      PROVE  CallInv'
    <2>1. stage'[d] = stage[d] /\ record'[d] = record[d]
        BY <1>0, <1>o, EmitEffect
    <2> QED
        BY <1>f, <1>o, <2>1
\* The call itself ends with its Emit.
<1>e. ASSUME NEW result \in {"success", "refused", "error"}, NEW reason \in Reasons,
             NEW decision \in Decisions, Emit(d, result, reason, decision),
             wire'[d] = wire[d], runs'[d] = runs[d], hits'[d] = hits[d],
             wire[d] # "none" => result # "refused" /\ answer'[d] = answer[d],
             decision = IF answer'[d] = "none" THEN "empty" ELSE answer'[d]
      PROVE  CallInv'
    <2>1. stage'[d] = "done" /\ record'[d].result = result /\ record'[d].decision = decision
        BY <1>0, <1>e, EmitEffect
    <2> QED
        BY <1>0, <1>e, <2>1 DEF StageInv, WireInv
<1> USE <1>0 DEF CollectionTypeOK, GateTypeOK, StageInv, WireInv, gateVars, setupVars,
                 clusterVars, callVars, Reasons, Decisions
<1>1. ASSUME NEW c \in Calls, Receive(c) PROVE CallInv'
    <2>1. CASE c # d
        BY <1>1, <1>f, <1>o, <2>1 DEF Receive, GoTo
    <2>2. CASE c = d
        BY <1>1, <1>e, <2>2 DEF Receive, GoTo
    <2> QED
        BY <2>1, <2>2
<1>2. ASSUME NEW c \in Calls, ListTargets(c) PROVE CallInv'
    <2>1. CASE c # d
        BY <1>2, <1>f, <1>o, <2>1 DEF ListTargets, GoTo
    <2>2. CASE c = d
        BY <1>2, <1>e, <2>2 DEF ListTargets, GoTo
    <2> QED
        BY <2>1, <2>2
<1>3. ASSUME NEW c \in Calls, ListFails(c) PROVE CallInv'
    <2>1. CASE c # d
        BY <1>3, <1>o, <2>1 DEF ListFails
    <2>2. CASE c = d
        BY <1>3, <1>e, <2>2 DEF ListFails
    <2> QED
        BY <2>1, <2>2
<1>4. ASSUME NEW c \in Calls, AskGate(c) PROVE CallInv'
    <2>1. CASE c # d
        BY <1>4, <1>f, <1>o, <2>1 DEF AskGate, RefuseAtOnce, Ask, GoTo
    <2>2. CASE c = d
        BY <1>4, <1>e, <2>2 DEF AskGate, RefuseAtOnce, Ask, GoTo
    <2> QED
        BY <2>1, <2>2
<1>5. ASSUME NEW c \in Calls, GateRefuses(c) PROVE CallInv'
    <2>1. CASE c # d
        BY <1>5, <1>f, <1>o, <2>1 DEF GateRefuses, Refuse
    <2>2. CASE c = d
        BY <1>5, <1>e, <2>2 DEF GateRefuses, Refuse
    <2> QED
        BY <2>1, <2>2
<1>6. ASSUME NEW c \in Calls, GateApproves(c) PROVE CallInv'
    BY <1>6, <1>f DEF GateApproves, Decide, GoTo
<1>7. ASSUME NEW c \in Calls, SpendApproval(c) PROVE CallInv'
    BY <1>7, <1>f DEF SpendApproval, Consume, GoTo
<1>8. ASSUME NEW c \in Calls, ConfirmCollectionUnchanged(c) PROVE CallInv'
    <2>1. CASE c # d
        BY <1>8, <1>f, <1>o, <2>1 DEF ConfirmCollectionUnchanged, GoTo
    <2>2. CASE c = d
        BY <1>8, <1>e, <2>2 DEF ConfirmCollectionUnchanged, GoTo
    <2> QED
        BY <2>1, <2>2
<1>9. ASSUME NEW c \in Calls, InvokeEnds(c) PROVE CallInv'
    <2>1. CASE c # d
        BY <1>9, <1>o, <2>1 DEF InvokeEnds
    <2>2. CASE c = d
        BY <1>9, <1>e, <2>2 DEF InvokeEnds
    <2> QED
        BY <2>1, <2>2
<1>10. ASSUME NEW c \in Calls, InvokeSends(c) PROVE CallInv'
    BY <1>10, <1>f DEF InvokeSends, GoTo, NoRecord
<1>11. ASSUME NEW c \in Calls, ReturnsResult(c) PROVE CallInv'
    <2>1. CASE c # d
        BY <1>11, <1>o, <2>1 DEF ReturnsResult
    <2>2. CASE c = d
        BY <1>11, <1>e, <2>2 DEF ReturnsResult
    <2> QED
        BY <2>1, <2>2
<1>12. ASSUME NEW c \in Calls, ServerBegins(c) PROVE CallInv'
    BY <1>12, <1>f DEF ServerBegins
<1>13. ASSUME NEW c \in Calls, NEW o \in Objects, ServerDeletes(c, o) PROVE CallInv'
    BY <1>13, <1>f DEF ServerDeletes
<1>14. ASSUME NEW c \in Calls, ServerEnds(c) PROVE CallInv'
    BY <1>14, <1>f DEF ServerEnds
<1>15. ASSUME NEW c \in Calls, OperatorApproves(c) PROVE CallInv'
    BY <1>15, <1>f DEF OperatorApproves, Grant
<1>16. ASSUME NEW o \in Objects, WorldChanges(o) PROVE CallInv'
    BY <1>16, <1>f DEF WorldChanges
<1>17. CASE UNCHANGED vars
    BY <1>17, <1>f DEF vars
<1> QED
    BY <1>1, <1>2, <1>3, <1>4, <1>5, <1>6, <1>7, <1>8, <1>9, <1>10, <1>11, <1>12, <1>13, <1>14,
       <1>15, <1>16, <1>17 DEF Next

-----------------------------------------------------------------------------
\* The selection between the second listing and the deletion.

\* A selection that only lost objects is a subset of what it was.
LEMMA TargetsShrink ==
    ASSUME CollectionTypeOK, NEW o \in Objects, version' = [version EXCEPT ![o] = 0]
    PROVE  Targets' \subseteq Targets
BY DEF Targets, CollectionTypeOK

\* confirmCollectionUnchanged opens the window with the shown set equal to the
\* selection; the call's own deletion can only shrink it, every other change
\* marks the call as raced.
LEMMA WindowStep == Inv /\ [Next]_vars => \A d \in Calls : WindowInv(d)' /\ HitsInv(d)'
<1> SUFFICES ASSUME Inv, [Next]_vars, NEW d \in Calls PROVE WindowInv(d)' /\ HitsInv(d)'
    OBVIOUS
<1>0. CollectionTypeOK /\ WireInv(d) /\ WindowInv(d) /\ HitsInv(d)
    BY DEF Inv
\* A step that leaves the cluster alone and does not enter the window.
<1>f. ASSUME stage'[d] = "invoke" => stage[d] = "invoke",
             wire'[d] \in {"sent", "running"} =>
                 stage[d] = "invoke" \/ wire[d] \in {"sent", "running"},
             stage[d] = "list" \/ approved'[d] = approved[d], stage[d] = "list" => stage'[d] # "invoke",
             version' = version, hits'[d] = hits[d], raced' = raced
      PROVE  WindowInv(d)' /\ HitsInv(d)'
    <2>1. Targets' = Targets
        BY <1>f DEF Targets
    <2>2. CASE stage[d] # "list"
        BY <1>0, <1>f, <2>1, <2>2 DEF WindowInv, HitsInv
    <2>3. CASE stage[d] = "list"
        <3>1. wire[d] = "none" /\ hits[d] = {}
            BY <1>0, <2>3 DEF WireInv, CollectionTypeOK
        <3> QED
            BY <1>f, <2>3, <3>1 DEF WindowInv, HitsInv
    <2> QED
        BY <2>2, <2>3
<1> USE <1>0 DEF CollectionTypeOK, setupVars, clusterVars, callVars
<1>1. ASSUME NEW c \in Calls,
             \/ Receive(c) \/ ListTargets(c) \/ ListFails(c) \/ AskGate(c) \/ GateRefuses(c)
      PROVE  WindowInv(d)' /\ HitsInv(d)'
    <2>1. /\ UNCHANGED <<clusterVars, wire>>
          /\ stage'[d] = "invoke" => stage[d] = "invoke"
          /\ stage[d] = "list" => stage'[d] # "invoke"
          /\ stage[d] = "list" \/ approved'[d] = approved[d]
        BY <1>1 DEF Receive, ListTargets, ListFails, AskGate, GateRefuses, Emit, GoTo
    <2> QED
        BY <1>f, <2>1
<1>2. ASSUME NEW c \in Calls,
             \/ GateApproves(c) \/ SpendApproval(c) \/ InvokeEnds(c) \/ ReturnsResult(c)
             \/ InvokeSends(c) \/ ServerBegins(c) \/ ServerEnds(c) \/ OperatorApproves(c)
      PROVE  WindowInv(d)' /\ HitsInv(d)'
    <2>1. /\ UNCHANGED <<version, hits, raced, approved>>
          /\ stage'[d] = "invoke" => stage[d] = "invoke"
          /\ stage[d] = "list" => stage'[d] # "invoke"
        BY <1>2 DEF GateApproves, SpendApproval, InvokeEnds, InvokeSends, ReturnsResult, ServerBegins,
           ServerEnds, OperatorApproves, Emit, GoTo
    <2>2. wire'[d] \in {"sent", "running"} =>
              stage[d] = "invoke" \/ wire[d] \in {"sent", "running"}
        BY <1>2 DEF GateApproves, SpendApproval, InvokeEnds, InvokeSends, ReturnsResult, ServerBegins,
           ServerEnds, OperatorApproves
    <2> QED
        BY <1>f, <2>1, <2>2
<1>3. ASSUME NEW c \in Calls, ConfirmCollectionUnchanged(c) PROVE WindowInv(d)' /\ HitsInv(d)'
    <2>1. UNCHANGED <<version, hits, raced, approved, wire>>
        BY <1>3 DEF ConfirmCollectionUnchanged
    <2>2. CASE stage'[d] = "invoke" /\ stage[d] # "invoke"
        <3>1. approved[d] = Targets
            BY <1>3, <2>2 DEF ConfirmCollectionUnchanged, sameTargets, Emit, GoTo
        <3>2. Targets' = Targets
            BY <2>1 DEF Targets
        <3> QED
            BY <2>1, <3>1, <3>2 DEF WindowInv, HitsInv
    <2>3. CASE ~(stage'[d] = "invoke" /\ stage[d] # "invoke")
        BY <1>f, <2>1, <2>3
    <2> QED
        BY <2>2, <2>3
<1>4. ASSUME NEW c \in Calls, NEW o \in Objects, ServerDeletes(c, o)
      PROVE  WindowInv(d)' /\ HitsInv(d)'
    <2>0. UNCHANGED <<stage, approved, wire>> /\ wire[c] = "running"
        BY <1>4 DEF ServerDeletes
    <2>1. CASE UNCHANGED <<hits, version, revision, raced>>
        BY <1>f, <2>0, <2>1
    <2>2. CASE /\ version[o] # 0
               /\ hits' = [hits EXCEPT ![c] = @ \cup {<<o, version[o]>>}]
               /\ version' = [version EXCEPT ![o] = 0]
               /\ raced' = raced \cup (PastCheck \ {c})
        <3>1. Targets' \subseteq Targets
            BY <2>2, TargetsShrink
        <3>2. CASE c = d
            <4>1. d \notin raced' => d \notin raced
                BY <2>2
            <4>2. <<o, version[o]>> \in Targets
                BY <2>2 DEF Targets
            <4>3. hits'[d] = hits[d] \cup {<<o, version[o]>>}
                BY <2>2, <3>2
            <4> QED
                BY <2>0, <3>1, <3>2, <4>1, <4>2, <4>3 DEF WindowInv, HitsInv
        <3>3. CASE c # d
            <4>1. hits'[d] = hits[d]
                BY <2>2, <3>3
            <4>2. d \notin raced' => d \notin raced
                BY <2>2
            <4> QED
                BY <2>0, <3>1, <4>1, <4>2 DEF WindowInv, HitsInv
        <3> QED
            BY <3>2, <3>3
    <2> QED
        BY <1>4, <2>1, <2>2 DEF ServerDeletes
<1>5. ASSUME NEW o \in Objects, WorldChanges(o) PROVE WindowInv(d)' /\ HitsInv(d)'
    <2>1. UNCHANGED <<stage, approved, wire, hits>> /\ raced' = raced \cup PastCheck
        BY <1>5 DEF WorldChanges
    <2>2. stage[d] = "invoke" \/ wire[d] \in {"sent", "running"} => d \in PastCheck
        BY DEF WireInv, PastCheck
    <2> QED
        BY <2>1, <2>2 DEF WindowInv, HitsInv
<1>6. CASE UNCHANGED vars
    BY <1>6, <1>f DEF vars
<1> QED
    BY <1>1, <1>2, <1>3, <1>4, <1>5, <1>6 DEF Next

-----------------------------------------------------------------------------
\* The invariants.

\* The inductive invariant of callDeleteCollection holds in every reachable state.
LEMMA Invariance == Spec => []Inv
<1>1. Init => Inv
    <2> SUFFICES ASSUME Init PROVE Inv
        OBVIOUS
    <2>1. CollectionTypeOK /\ GateInv
        BY TypeInitially
    <2>2. \A c \in Calls : /\ stage[c] = "idle" /\ wire[c] = "none" /\ record[c] = NoRecord
                           /\ runs[c] = 0 /\ hits[c] = {} /\ answer[c] = "none"
        BY DEF Init, GateInit
    <2> QED
        BY <2>1, <2>2 DEF Inv, StageInv, WireInv, WindowInv, HitsInv
<1>2. Inv /\ [Next]_vars => Inv'
    BY TypeStep, CallInvStep, WindowStep DEF Inv
<1> QED
    BY <1>1, <1>2, PTL DEF Spec

\* Every variable keeps its type in every reachable state of collection deletes.
THEOREM TypeCorrect == Spec => []CollectionTypeOK
BY Invariance, PTL DEF Inv

\* confirmCollectionUnchanged does its work for every selection and any number
\* of calls: what a deletion removes was on the approval screen, in that state,
\* unless somebody else changed the selection after the second listing.
THEOREM DeletesOnlyShown == Spec => []DeletesOnlyWhatWasShown
<1>1. Inv => DeletesOnlyWhatWasShown
    BY DEF Inv, HitsInv, DeletesOnlyWhatWasShown
<1> QED
    BY <1>1, Invariance, PTL

\* The event record of a collection delete carries the gate's answer, and one
\* that does not say "approved" belongs to a call that sent no deletion.
THEOREM RecordIsTruthful == Spec => []RecordTellsTheVerdict
<1>1. Inv => RecordTellsTheVerdict
    BY DEF Inv, StageInv, WireInv, RecordTellsTheVerdict
<1> QED
    BY <1>1, Invariance, PTL

-----------------------------------------------------------------------------
\* The promise to the operator.

ReportedRefused == {c \in Calls : record[c].result = "refused"}

\* The initial state is one of the promise: nothing approved, run or refused.
LEMMA PromiseInitially == Init => Promise!ExecInit
BY DEF Init, GateInit, NoRecord, Promise!ExecInit

\* Every step of a collection delete is a step of the promise or hidden from it:
\* the one Perform is the apiserver beginning the deletion.
LEMMA PromiseStep == Inv /\ [Next]_vars => [Promise!ExecNext]_(Promise!execVars)
<1> SUFFICES ASSUME Inv, [Next]_vars PROVE Promise!ExecNext \/ UNCHANGED Promise!execVars
    OBVIOUS
<1>0. CollectionTypeOK /\ GateInv /\ \A c \in Calls : StageInv(c) /\ WireInv(c)
    BY DEF Inv
<1>s. ASSUME UNCHANGED <<granted, runs, record>> PROVE UNCHANGED Promise!execVars
    BY <1>s DEF Promise!execVars
\* A record is written: a refusal only where nothing was sent.
<1>e. ASSUME NEW c \in Calls, NEW result \in {"success", "refused", "error"},
             NEW reason \in Reasons, NEW decision \in Decisions,
             Emit(c, result, reason, decision), stage[c] # "done",
             UNCHANGED <<granted, runs>>, result = "refused" => runs[c] = 0
      PROVE  Promise!ExecNext \/ UNCHANGED Promise!execVars
    <2>1. record'[c].result = result /\ (\A d \in Calls \ {c} : record'[d] = record[d])
          /\ record[c].result # "refused"
        BY <1>0, <1>e, EmitEffect DEF StageInv, NoRecord
    <2>2. CASE result = "refused"
        <3>1. ReportedRefused' = ReportedRefused \cup {c}
            BY <2>1, <2>2 DEF ReportedRefused
        <3>2. {c} \in SUBSET Calls /\ {c} # {}
            OBVIOUS
        <3>3. Promise!ReportRefused({c})
            BY <1>e, <2>2, <3>1, <3>2 DEF Promise!ReportRefused, ReportedRefused
        <3> QED
            BY <3>2, <3>3 DEF Promise!ExecNext
    <2>3. CASE result # "refused"
        <3>1. ReportedRefused' = ReportedRefused
            BY <2>1, <2>3 DEF ReportedRefused
        <3> QED
            BY <1>e, <3>1 DEF Promise!execVars, ReportedRefused
    <2> QED
        BY <2>2, <2>3
<1>r. ASSUME NEW c \in Calls, stage[c] \notin {"sent", "done"} PROVE runs[c] = 0
    BY <1>0, <1>r DEF WireInv
<1> USE DEF gateVars, setupVars, clusterVars, callVars
<1>1. ASSUME NEW c \in Calls, Receive(c) PROVE Promise!ExecNext \/ UNCHANGED Promise!execVars
    BY <1>1, <1>e, <1>s, <1>r DEF Receive, Reasons, Decisions
<1>2. ASSUME NEW c \in Calls, ListTargets(c) \/ ListFails(c)
      PROVE  Promise!ExecNext \/ UNCHANGED Promise!execVars
    BY <1>2, <1>e, <1>s, <1>r DEF ListTargets, ListFails, Reasons, Decisions
<1>3. ASSUME NEW c \in Calls, AskGate(c) PROVE Promise!ExecNext \/ UNCHANGED Promise!execVars
    BY <1>3, <1>e, <1>s, <1>r DEF AskGate, RefuseAtOnce, Ask, Reasons, Decisions
<1>4. ASSUME NEW c \in Calls, GateRefuses(c)
      PROVE  Promise!ExecNext \/ UNCHANGED Promise!execVars
    BY <1>4, <1>e, <1>r DEF GateRefuses, Refuse, Reasons, Decisions
<1>5. ASSUME NEW c \in Calls, ConfirmCollectionUnchanged(c) \/ InvokeEnds(c)
      PROVE  Promise!ExecNext \/ UNCHANGED Promise!execVars
    BY <1>5, <1>e, <1>s, <1>r DEF ConfirmCollectionUnchanged, InvokeEnds, Reasons, Decisions
<1>6. ASSUME NEW c \in Calls, ReturnsResult(c)
      PROVE  Promise!ExecNext \/ UNCHANGED Promise!execVars
    BY <1>6, <1>e DEF ReturnsResult, Reasons, Decisions
<1>7. ASSUME NEW c \in Calls, ServerBegins(c) PROVE Promise!ExecNext
    <2>1. wire[c] = "sent" /\ UNCHANGED <<granted, record>> /\ runs' = [runs EXCEPT ![c] = @ + 1]
        BY <1>7 DEF ServerBegins
    <2>2. runs[c] = 0 /\ c \in granted /\ c \notin ReportedRefused
        BY <1>0, <2>1 DEF WireInv, GateInv, ReportedRefused
    <2>3. runs' = [runs EXCEPT ![c] = 1]
        BY <1>0, <2>1, <2>2 DEF CollectionTypeOK
    <2>4. Promise!Perform(c)
        BY <2>1, <2>2, <2>3 DEF Promise!Perform, ReportedRefused
    <2> QED
        BY <2>4 DEF Promise!ExecNext
<1>8. ASSUME NEW c \in Calls, OperatorApproves(c) PROVE Promise!ExecNext
    <2>1. Promise!Approve(c)
        BY <1>8 DEF OperatorApproves, Grant, Promise!Approve
    <2> QED
        BY <2>1 DEF Promise!ExecNext
<1>9. ASSUME NEW c \in Calls,
             \/ GateApproves(c) \/ SpendApproval(c) \/ InvokeSends(c) \/ ServerEnds(c)
             \/ \E o \in Objects : ServerDeletes(c, o)
      PROVE  UNCHANGED Promise!execVars
    BY <1>9, <1>s DEF GateApproves, Decide, SpendApproval, Consume, InvokeSends, ServerEnds,
       ServerDeletes
<1>10. CASE (\E o \in Objects : WorldChanges(o)) \/ UNCHANGED vars
    BY <1>10, <1>s DEF WorldChanges, vars
<1> QED
    BY <1>1, <1>2, <1>3, <1>4, <1>5, <1>6, <1>7, <1>8, <1>9, <1>10 DEF Next

\* A collection delete keeps the promise to the operator: begun only on an
\* approval, once per approval, and never for a call reported as refused.
THEOREM Refinement == Spec => ImplementsApprovedExecution
BY PromiseInitially, PromiseStep, Invariance, PTL
DEF Spec, ImplementsApprovedExecution, Promise!ExecSpec
=============================================================================

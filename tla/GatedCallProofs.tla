-------------------------- MODULE GatedCallProofs --------------------------
(***************************************************************************)
(* Proofs about GatedCall for any set of calls, objects and tools.         *)
(*                                                                         *)
(* The argument has three parts.  CallInv is what the dispatcher's program *)
(* counter knows: which answer a stage implies, that a gated call has no   *)
(* kubernetes request before its approval is spent, and that a call that   *)
(* is reported refused has none at all.  VersionInv is what the cluster's  *)
(* counter gives: a resourceVersion a call has seen names one state, which *)
(* is why the condition on the version alone protects an update.           *)
(* WindowInv is what confirmTargetUnchanged's read gives to the calls that *)
(* carry no condition, until somebody else changes their target.           *)
(***************************************************************************)
EXTENDS GatedCall, TLAPS

\* What a stage says about the request, the gate's answer and the record.
StageInv(c) ==
    /\ stage[c] # "idle" => request[c].tool \in Tools /\ request[c].obj \in Objects
    /\ stage[c] \in {"idle", "ask"} => answer[c] = "none"
    /\ stage[c] \in {"describe", "wait"} => answer[c] = "asking"
    /\ stage[c] \in {"spend", "confirm"} => answer[c] = "approved"
    /\ stage[c] \in {"invoke", "sent"} =>
          answer[c] = IF Gated(request[c].tool) THEN "approved" ELSE "none"
    /\ stage[c] \in {"ask", "describe", "wait", "spend", "confirm"} => Gated(request[c].tool)
    /\ stage[c] # "done" => record[c] = NoRecord

\* What there is of the kubernetes request.
WireInv(c) ==
    /\ stage[c] = "idle" => request[c] = NoRequest
    /\ wire[c] # "none" =>
          /\ stage[c] \in {"sent", "done"}
          /\ Gated(request[c].tool) => answer[c] = "approved"
          /\ record[c].result # "refused"
    /\ hits[c] # <<>> => wire[c] = "applied" /\ Len(hits[c]) = 1

\* Part of RecordTellsTheVerdict, for one call.
RecordInv(c) ==
    stage[c] = "done" =>
        /\ record[c].decision =
              IF answer[c] \in {"none", "context"} THEN "empty" ELSE answer[c]
        /\ record[c].reason \in {"gate_expired", "gate_timeout", "gate_unreachable"} =>
              record[c].reason = GateReason(answer[c])

\* Versions are drawn from one counter and never used twice, so the version a
\* call has seen names one state of its target.
VersionInv(c) ==
    /\ \A o \in Objects :
          /\ cluster[o].rv <= revision
          /\ cluster[o].rv = 0 => cluster[o] = Absent
    /\ seen[c].rv <= revision
    /\ seen[c].rv = 0 => seen[c] = Absent
    /\ stage[c] = "idle" => seen[c] = Absent
    /\ stage[c] # "idle" =>
          (seen[c].rv = cluster[request[c].obj].rv => seen[c] = cluster[request[c].obj])

\* The target of a call that has passed its check, unless somebody raced it.
WindowInv(c) ==
    (stage[c] = "invoke" \/ wire[c] = "sent") /\ c \notin raced =>
        (Gated(request[c].tool) /\ HasTarget(request[c].tool) =>
            cluster[request[c].obj] = seen[c])

HitsInv(c) ==
    hits[c] # <<>> =>
        /\ request[c].tool \in {"update", "patch"} => hits[c][1] = seen[c]
        /\ Gated(request[c].tool) /\ HasTarget(request[c].tool) /\ c \notin raced =>
              hits[c][1] = seen[c]

Inv ==
    /\ GatedTypeOK
    /\ GateInv
    /\ \A c \in Calls : StageInv(c) /\ WireInv(c) /\ RecordInv(c)
    /\ \A c \in Calls : VersionInv(c) /\ WindowInv(c) /\ HitsInv(c)

-----------------------------------------------------------------------------
\* The declarations.

\* Every tool that needs approval by its meaning is gated by its declaration:
\* effectivePairs and requiresApproval send it to authorize.
LEMMA NeedsApprovalIsGated == \A t \in NeedsApproval : Gated(t)
<1>1. Pair("get", TRUE) \in gatedPairs("getSecret")
    BY DEF gatedPairs, Declarations, Pair, readIsSensitive
<1>2. Pair("watch", TRUE) \in gatedPairs("watchSecret")
    BY DEF gatedPairs, Declarations, Pair, readIsSensitive
<1>3. Pair("update", FALSE) \in gatedPairs("update")
    BY DEF gatedPairs, Declarations, Pair, gatedVerbs
<1>4. Pair("patch", FALSE) \in gatedPairs("patch")
    BY DEF gatedPairs, Declarations, Pair, gatedVerbs
<1>5. Pair("delete", FALSE) \in gatedPairs("delete")
    BY DEF gatedPairs, Declarations, Pair, gatedVerbs
<1>6. Pair("create", FALSE) \in gatedPairs("exec")
    BY DEF gatedPairs, Declarations, Pair, gatedVerbs
<1>7. Pair("get", FALSE) \in gatedPairs("proxy")
    BY DEF gatedPairs, Declarations, Pair
<1> QED
    BY <1>1, <1>2, <1>3, <1>4, <1>5, <1>6, <1>7 DEF NeedsApproval, Gated

-----------------------------------------------------------------------------
\* Type correctness, and the contract of the gate.

\* A step of the gate's contract keeps its types and its invariant.
LEMMA GateStep == GateTypeOK /\ GateInv /\ [GateNext]_gateVars => (GateTypeOK /\ GateInv)'
BY DEF GateTypeOK, GateInv, GateNext, gateVars, Ask, Grant, Decide, Refuse, RefuseAtOnce,
       Consume, Answers, Refusals, NeverGranted

\* Every variable of the dispatcher has its type at the start.
LEMMA TypeInitially == Init => GatedTypeOK /\ GateInv
BY DEF Init, GateInit, GatedTypeOK, GateTypeOK, GateInv, Answers, States, Stages, Absent

\* toolsCall's deferred Emit leaves a well-formed record.
LEMMA EmitType ==
    ASSUME NEW c \in Calls, NEW result \in {"success", "refused", "error"},
           NEW reason \in Reasons, NEW decision \in Decisions,
           stage \in [Calls -> Stages], record \in [Calls -> {NoRecord} \cup Records],
           Emit(c, result, reason, decision)
    PROVE  stage' \in [Calls -> Stages] /\ record' \in [Calls -> {NoRecord} \cup Records]
<1>1. [result |-> result, reason |-> reason, decision |-> decision] \in Records
    BY DEF Records
<1> QED
    BY <1>1 DEF Emit, GoTo, Stages

\* What an update, a patch or a delete makes of its target is an object state.
LEMMA EffectType ==
    ASSUME NEW t, NEW old \in States, revision \in Nat
    PROVE  Effect(t, old) \in States
<1>1. [old EXCEPT !.rv = revision + 1] \in States
    BY DEF States
<1>2. Absent \in States
    BY DEF States, Absent
<1> QED
    BY <1>1, <1>2 DEF Effect

\* Every step of toolsCall, the apiserver and the world keeps the types.
LEMMA TypeStep ==
    Inv /\ [Next]_vars =>
        (GatedTypeOK /\ GateInv)'
<1> SUFFICES ASSUME Inv, [Next]_vars
             PROVE  (GatedTypeOK /\ GateInv)'
    OBVIOUS
<1>0. GatedTypeOK /\ GateInv
      /\ \A c \in Calls : StageInv(c) /\ WireInv(c)
    BY DEF Inv
<1> DEFINE TypeInv == GatedTypeOK /\ GateInv
<1>g. ASSUME [GateNext]_gateVars PROVE (GateTypeOK /\ GateInv)'
    BY <1>0, <1>g, GateStep DEF GatedTypeOK
<1> USE <1>0 DEF GatedTypeOK, setupVars, clusterVars, callVars
<1>1. ASSUME NEW c \in Calls, Receive(c) PROVE TypeInv'
    <2>1. (GateTypeOK /\ GateInv)'
        BY <1>1, <1>g DEF Receive
    <2>2. request' \in [Calls -> {NoRequest} \cup Requests]
        <3>1. PICK t \in Tools, o \in Objects : \E a \in ArgsOf(t) :
                  request' = [request EXCEPT ![c] = [tool |-> t, obj |-> o, args |-> a]]
            BY <1>1 DEF Receive
        <3>2. PICK a \in ArgsOf(t) :
                  request' = [request EXCEPT ![c] = [tool |-> t, obj |-> o, args |-> a]]
            BY <3>1
        <3>3. [tool |-> t, obj |-> o, args |-> a] \in Requests
            BY DEF Requests, ArgsOf
        <3> QED
            BY <3>2, <3>3
    <2>3. stage' \in [Calls -> Stages] /\ record' \in [Calls -> {NoRecord} \cup Records]
        <3>1. \/ Emit(c, "refused", "invalid_input", "empty")
              \/ Emit(c, "refused", "gate_unconfigured", "empty")
              \/ GoTo(c, "ask") /\ UNCHANGED record
              \/ GoTo(c, "invoke") /\ UNCHANGED record
            BY <1>1 DEF Receive
        <3> QED
            BY <3>1, EmitType DEF GoTo, Stages, Reasons, Decisions
    <2> QED
        BY <1>1, <2>1, <2>2, <2>3 DEF Receive
<1>2. ASSUME NEW c \in Calls, AskGate(c) PROVE TypeInv'
    <2>1. (GateTypeOK /\ GateInv)'
        BY <1>2, <1>g DEF AskGate, GateNext
    <2> QED
        BY <1>2, <2>1, EmitType DEF AskGate, GoTo, Stages, Reasons, Decisions
<1>3. ASSUME NEW c \in Calls, ReadGateTarget(c) PROVE TypeInv'
    <2>1. (GateTypeOK /\ GateInv)'
        BY <1>3, <1>g DEF ReadGateTarget
    <2> QED
        BY <1>3, <2>1 DEF ReadGateTarget, GoTo, Stages, StageInv
<1>4. ASSUME NEW c \in Calls, DescribeFails(c) PROVE TypeInv'
    <2>1. (GateTypeOK /\ GateInv)'
        BY <1>4, <1>g DEF DescribeFails, GateNext, Refusals
    <2> QED
        BY <1>4, <2>1, EmitType DEF DescribeFails, GoTo, Stages, Reasons, Decisions
<1>5. ASSUME NEW c \in Calls, GateRefuses(c) PROVE TypeInv'
    <2>1. (GateTypeOK /\ GateInv)'
        BY <1>5, <1>g DEF GateRefuses, GateNext, Refusals
    <2> QED
        BY <1>5, <2>1, EmitType DEF GateRefuses, GateReason, GoTo, Stages, Reasons, Decisions
<1>6. ASSUME NEW c \in Calls, GateApproves(c) PROVE TypeInv'
    <2>1. (GateTypeOK /\ GateInv)'
        BY <1>6, <1>g DEF GateApproves, GateNext
    <2> QED
        BY <1>6, <2>1 DEF GateApproves, GoTo, Stages
<1>7. ASSUME NEW c \in Calls, SpendApproval(c) PROVE TypeInv'
    <2>1. (GateTypeOK /\ GateInv)'
        BY <1>7, <1>g DEF SpendApproval, GateNext
    <2> QED
        BY <1>7, <2>1 DEF SpendApproval, GoTo, Stages
<1>8. ASSUME NEW c \in Calls, ConfirmTargetUnchanged(c) PROVE TypeInv'
    <2>1. (GateTypeOK /\ GateInv)'
        BY <1>8, <1>g DEF ConfirmTargetUnchanged
    <2> QED
        BY <1>8, <2>1, EmitType DEF ConfirmTargetUnchanged, GoTo, Stages, Reasons, Decisions
<1>9. ASSUME NEW c \in Calls, InvokeEnds(c) PROVE TypeInv'
    <2>1. (GateTypeOK /\ GateInv)'
        BY <1>9, <1>g DEF InvokeEnds
    <2> QED
        BY <1>9, <2>1, EmitType DEF InvokeEnds, NotedDecision, GoTo, Stages, Reasons, Decisions
<1>10. ASSUME NEW c \in Calls, InvokeSends(c) PROVE TypeInv'
    <2>1. (GateTypeOK /\ GateInv)'
        BY <1>10, <1>g DEF InvokeSends
    <2> QED
        BY <1>10, <2>1 DEF InvokeSends, GoTo, Stages
<1>11. ASSUME NEW c \in Calls, ReturnsResult(c) PROVE TypeInv'
    <2>1. (GateTypeOK /\ GateInv)'
        BY <1>11, <1>g DEF ReturnsResult
    <2> QED
        BY <1>11, <2>1, EmitType DEF ReturnsResult, NotedDecision, GoTo, Stages, Reasons, Decisions
<1>12. ASSUME NEW c \in Calls, ServerApplies(c) PROVE TypeInv'
    <2>1. (GateTypeOK /\ GateInv)'
        BY <1>12, <1>g DEF ServerApplies
    <2>2. PICK old, new : /\ old = cluster[request[c].obj]
                          /\ new = Effect(request[c].tool, old)
        OBVIOUS
    <2>3. request[c].obj \in Objects
        BY <1>12 DEF ServerApplies, WireInv, StageInv
    <2>4. old \in States /\ new \in States
        BY <2>2, <2>3, EffectType
    <2> QED
        BY <1>12, <2>1, <2>2, <2>3, <2>4 DEF ServerApplies, PastCheck
<1>13. ASSUME NEW c \in Calls, ServerRejects(c) PROVE TypeInv'
    <2>1. (GateTypeOK /\ GateInv)'
        BY <1>13, <1>g DEF ServerRejects
    <2> QED
        BY <1>13, <2>1 DEF ServerRejects
<1>14. ASSUME NEW c \in Calls, OperatorApproves(c) PROVE TypeInv'
    <2>1. (GateTypeOK /\ GateInv)'
        BY <1>14, <1>g DEF OperatorApproves, GateNext
    <2> QED
        BY <1>14, <2>1 DEF OperatorApproves
<1>15. ASSUME NEW o \in Objects, WorldChanges(o) PROVE TypeInv'
    <2>1. (GateTypeOK /\ GateInv)'
        BY <1>15, <1>g DEF WorldChanges
    <2> QED
        BY <1>15, <2>1 DEF WorldChanges, PastCheck, States, Absent
<1>16. CASE UNCHANGED vars
    <2>1. (GateTypeOK /\ GateInv)'
        BY <1>16, <1>g DEF vars
    <2> QED
        BY <1>16, <2>1 DEF vars
<1> QED
    BY <1>1, <1>2, <1>3, <1>4, <1>5, <1>6, <1>7, <1>8, <1>9, <1>10, <1>11, <1>12, <1>13, <1>14, <1>15, <1>16 DEF Next, CallStep

-----------------------------------------------------------------------------
\* The program counter, the answer, the request on the wire and the record.

\* Emit ends the call it is about and writes that call's record.
LEMMA EmitEffect ==
    ASSUME NEW c \in Calls, NEW result, NEW reason, NEW decision,
           GatedTypeOK, Emit(c, result, reason, decision)
    PROVE  /\ stage' = [stage EXCEPT ![c] = "done"]
           /\ stage'[c] = "done"
           /\ record'[c].result = result
           /\ record'[c].reason = reason
           /\ record'[c].decision = decision
           /\ \A d \in Calls \ {c} : record'[d] = record[d]
BY DEF Emit, GoTo, GatedTypeOK

\* Each step of toolsCall keeps what its program counter says about the verdict, the
\* request on the wire and the record.
LEMMA CallInvStep ==
    Inv /\ [Next]_vars => \A d \in Calls : (StageInv(d) /\ WireInv(d) /\ RecordInv(d))'
<1> SUFFICES ASSUME Inv, [Next]_vars, NEW d \in Calls
             PROVE  (StageInv(d) /\ WireInv(d) /\ RecordInv(d))'
    OBVIOUS
<1> DEFINE CallInv == StageInv(d) /\ WireInv(d) /\ RecordInv(d)
<1>0. GatedTypeOK /\ GateTypeOK /\ GateInv /\ StageInv(d) /\ WireInv(d) /\ RecordInv(d)
    BY DEF Inv, GatedTypeOK
<1>f. ASSUME stage'[d] = stage[d], request'[d] = request[d], answer'[d] = answer[d],
             wire'[d] = wire[d], record'[d] = record[d], hits'[d] = hits[d]
      PROVE  CallInv'
    BY <1>0, <1>f DEF StageInv, WireInv, RecordInv
\* Another call ends with its Emit.
<1>o. ASSUME NEW c \in Calls, c # d, NEW result, NEW reason, NEW decision,
             Emit(c, result, reason, decision), request'[d] = request[d],
             answer'[d] = answer[d], wire'[d] = wire[d], hits'[d] = hits[d]
      PROVE  CallInv'
    <2>1. stage'[d] = stage[d] /\ record'[d] = record[d]
        BY <1>0, <1>o, EmitEffect DEF GatedTypeOK
    <2> QED
        BY <1>f, <1>o, <2>1
\* The call itself ends with its Emit.
<1>e. ASSUME NEW result, NEW reason, NEW decision, Emit(d, result, reason, decision),
             request'[d].tool \in Tools, request'[d].obj \in Objects,
             wire'[d] = wire[d], hits'[d] = hits[d],
             wire[d] # "none" =>
                 result # "refused" /\ request'[d] = request[d] /\ answer'[d] = answer[d],
             decision = IF answer'[d] \in {"none", "context"} THEN "empty" ELSE answer'[d],
             reason \in {"gate_expired", "gate_timeout", "gate_unreachable"} =>
                 reason = GateReason(answer'[d])
      PROVE  CallInv'
    <2>1. /\ stage'[d] = "done"
          /\ record'[d].result = result
          /\ record'[d].reason = reason
          /\ record'[d].decision = decision
        BY <1>0, <1>e, EmitEffect
    <2> QED
        BY <1>0, <1>e, <2>1 DEF StageInv, WireInv, RecordInv
<1> USE <1>0 DEF GatedTypeOK, GateTypeOK, StageInv, WireInv, RecordInv, gateVars, setupVars, clusterVars, callVars
<1>1. ASSUME NEW c \in Calls, Receive(c) PROVE CallInv'
    <2>1. CASE c # d
        BY <1>1, <1>f, <1>o, <2>1 DEF Receive, GoTo
    <2>2. CASE c = d
        <3>1. PICK t \in Tools, o \in Objects : \E a \in ArgsOf(t) :
                  /\ request'[d] = [tool |-> t, obj |-> o, args |-> a]
                  /\ \/ Emit(c, "refused", "invalid_input", "empty")
                     \/ Emit(c, "refused", "gate_unconfigured", "empty")
                     \/ GoTo(c, IF Gated(t) THEN "ask" ELSE "invoke") /\ UNCHANGED record
            BY <1>1, <2>2 DEF Receive
        <3>2. request'[d].tool = t /\ request'[d].obj = o
            BY <3>1
        <3>3. wire[d] = "none" /\ hits[d] = <<>> /\ answer[d] = "none" /\ record[d] = NoRecord
              /\ wire' = wire /\ hits' = hits /\ answer' = answer
            BY <1>1, <2>2 DEF Receive
        <3>4. CASE GoTo(c, IF Gated(t) THEN "ask" ELSE "invoke") /\ UNCHANGED record
            BY <2>2, <3>2, <3>3, <3>4 DEF GoTo
        <3> QED
            BY <1>e, <2>2, <3>1, <3>2, <3>3, <3>4
    <2> QED
        BY <2>1, <2>2
<1>2. ASSUME NEW c \in Calls, AskGate(c) PROVE CallInv'
    <2>1. CASE c # d
        BY <1>2, <1>f, <1>o, <2>1 DEF AskGate, RefuseAtOnce, Ask, GoTo
    <2>2. CASE c = d
        BY <1>2, <1>e, <2>2 DEF AskGate, RefuseAtOnce, Ask, GoTo
    <2> QED
        BY <2>1, <2>2
<1>3. ASSUME NEW c \in Calls, ReadGateTarget(c) PROVE CallInv'
    BY <1>3, <1>f DEF ReadGateTarget, GoTo
<1>4. ASSUME NEW c \in Calls, DescribeFails(c) PROVE CallInv'
    <2>1. CASE c # d
        BY <1>4, <1>f, <1>o, <2>1 DEF DescribeFails, Refuse
    <2>2. CASE c = d
        BY <1>4, <1>e, <2>2 DEF DescribeFails, Refuse
    <2> QED
        BY <2>1, <2>2
<1>5. ASSUME NEW c \in Calls, GateRefuses(c) PROVE CallInv'
    <2>1. CASE c # d
        BY <1>5, <1>f, <1>o, <2>1 DEF GateRefuses, Refuse, GateReason
    <2>2. CASE c = d
        BY <1>5, <1>e, <2>2 DEF GateRefuses, Refuse, GateReason
    <2> QED
        BY <2>1, <2>2
<1>6. ASSUME NEW c \in Calls, GateApproves(c) PROVE CallInv'
    BY <1>6, <1>f DEF GateApproves, Decide, GoTo
<1>7. ASSUME NEW c \in Calls, SpendApproval(c) PROVE CallInv'
    BY <1>7, <1>f DEF SpendApproval, Consume, GoTo
<1>8. ASSUME NEW c \in Calls, ConfirmTargetUnchanged(c) PROVE CallInv'
    <2>1. CASE c # d
        BY <1>8, <1>f, <1>o, <2>1 DEF ConfirmTargetUnchanged, GoTo
    <2>2. CASE c = d
        BY <1>8, <1>e, <2>2 DEF ConfirmTargetUnchanged, GoTo
    <2> QED
        BY <2>1, <2>2
<1>9. ASSUME NEW c \in Calls, InvokeEnds(c) PROVE CallInv'
    <2>1. CASE c # d
        BY <1>9, <1>f, <1>o, <2>1 DEF InvokeEnds, NotedDecision
    <2>2. CASE c = d
        BY <1>9, <1>e, <2>2 DEF InvokeEnds, NotedDecision
    <2> QED
        BY <2>1, <2>2
<1>10. ASSUME NEW c \in Calls, InvokeSends(c) PROVE CallInv'
    BY <1>10, <1>f DEF InvokeSends, GoTo, NoRecord
<1>11. ASSUME NEW c \in Calls, ReturnsResult(c) PROVE CallInv'
    <2>1. CASE c # d
        BY <1>11, <1>f, <1>o, <2>1 DEF ReturnsResult, NotedDecision
    <2>2. CASE c = d
        BY <1>11, <1>e, <2>2 DEF ReturnsResult, NotedDecision
    <2> QED
        BY <2>1, <2>2
<1>12. ASSUME NEW c \in Calls, ServerApplies(c) PROVE CallInv'
    BY <1>12, <1>f DEF ServerApplies
<1>13. ASSUME NEW c \in Calls, ServerRejects(c) PROVE CallInv'
    BY <1>13, <1>f DEF ServerRejects
<1>14. ASSUME NEW c \in Calls, OperatorApproves(c) PROVE CallInv'
    BY <1>14, <1>f DEF OperatorApproves, Grant
<1>15. ASSUME NEW o \in Objects, WorldChanges(o) PROVE CallInv'
    BY <1>15, <1>f DEF WorldChanges
<1>16. CASE UNCHANGED vars
    BY <1>16, <1>f DEF vars
<1> QED
    BY <1>1, <1>2, <1>3, <1>4, <1>5, <1>6, <1>7, <1>8, <1>9, <1>10, <1>11, <1>12, <1>13, <1>14, <1>15, <1>16 DEF Next, CallStep

-----------------------------------------------------------------------------
\* Versions.

\* Every change of an object deletes it or gives it the next revision.
LEMMA ClusterMoves ==
    ASSUME GatedTypeOK, NEW o \in Objects, NEW new \in States,
           new = cluster[o] \/ new = Absent \/ (new.rv = revision + 1 /\ revision' = revision + 1),
           cluster' = [cluster EXCEPT ![o] = new], revision' \in {revision, revision + 1},
           NEW d \in Calls, VersionInv(d), request[d].obj \in Objects \/ stage[d] = "idle",
           seen'[d] = seen[d], stage'[d] = stage[d], request'[d] = request[d]
    PROVE  VersionInv(d)'
<1>1. revision \in Nat /\ revision' \in Nat /\ revision <= revision' /\ seen[d] \in States
    BY DEF GatedTypeOK
<1>2. ASSUME NEW p \in Objects
      PROVE  /\ cluster'[p] \in States
             /\ cluster'[p].rv <= revision'
             /\ cluster'[p].rv = 0 => cluster'[p] = Absent
             /\ cluster'[p] = cluster[p] \/ cluster'[p] = Absent \/ cluster'[p].rv = revision + 1
    BY <1>1, <1>2 DEF GatedTypeOK, VersionInv, States, Absent
<1>3. stage[d] # "idle" =>
        (seen[d].rv = cluster'[request[d].obj].rv => seen[d] = cluster'[request[d].obj])
    BY <1>1, <1>2 DEF VersionInv, States, Absent
<1> QED
    BY <1>1, <1>2, <1>3 DEF VersionInv, States

\* The world gives an object the next revision or deletes it.
LEMMA WorldMoves ==
    ASSUME GatedTypeOK, NEW o \in Objects, WorldChanges(o)
    PROVE  \E new \in States :
              /\ new = Absent \/ (new.rv = revision + 1 /\ revision' = revision + 1)
              /\ cluster' = [cluster EXCEPT ![o] = new]
<1>1. revision \in Nat /\ cluster[o] \in States
    BY DEF GatedTypeOK
<1>2. Absent \in States /\ [uid |-> revision + 1, rv |-> revision + 1] \in States
    BY <1>1 DEF Absent, States
<1>3. [cluster[o] EXCEPT !.rv = revision + 1] \in States
      /\ [cluster[o] EXCEPT !.rv = revision + 1].rv = revision + 1
    BY <1>1 DEF States
<1>4. PICK new \in {Absent, [uid |-> revision + 1, rv |-> revision + 1],
                   [cluster[o] EXCEPT !.rv = revision + 1]} :
          cluster' = [cluster EXCEPT ![o] = new]
    BY DEF WorldChanges
<1>5. revision' = revision + 1
    BY DEF WorldChanges
<1> QED
    BY <1>2, <1>3, <1>4, <1>5

\* What a tool does to an object: nothing, its deletion, or a new revision of it.
LEMMA EffectMoves ==
    ASSUME GatedTypeOK, NEW t, NEW old \in States, old.rv <= revision
    PROVE  LET new == Effect(t, old)
           IN  new = old \/ new = Absent \/ (new # old /\ new.rv = revision + 1)
<1>1. [old EXCEPT !.rv = revision + 1].rv = revision + 1
    BY DEF States
<1>2. revision + 1 # old.rv
    BY DEF GatedTypeOK, States
<1> QED
    BY <1>1, <1>2 DEF Effect

\* No two states of an object share a resourceVersion, and what a call has read is
\* recognised by it.
LEMMA VersionStep == Inv /\ [Next]_vars => \A d \in Calls : VersionInv(d)'
<1> SUFFICES ASSUME Inv, [Next]_vars, NEW d \in Calls PROVE VersionInv(d)'
    OBVIOUS
<1>0. GatedTypeOK /\ StageInv(d) /\ VersionInv(d) /\ \A c \in Calls : StageInv(c) /\ WireInv(c)
    BY DEF Inv
<1>f. ASSUME UNCHANGED <<cluster, revision, request, seen>>,
             stage'[d] = "idle" <=> stage[d] = "idle"
      PROVE  VersionInv(d)'
    BY <1>0, <1>f DEF VersionInv
<1>s. ASSUME NEW c \in Calls, NEW s, s # "idle", stage[c] # "idle", GoTo(c, s),
             UNCHANGED <<cluster, revision, request, seen>>
      PROVE  VersionInv(d)'
    BY <1>0, <1>f, <1>s DEF GoTo, GatedTypeOK
<1>e. ASSUME NEW c \in Calls, stage[c] # "idle",
             NEW result, NEW reason, NEW decision, Emit(c, result, reason, decision),
             UNCHANGED <<cluster, revision, request, seen>>
      PROVE  VersionInv(d)'
    BY <1>0, <1>s, <1>e DEF Emit
<1> USE DEF gateVars, setupVars, clusterVars, callVars
<1>1. ASSUME NEW c \in Calls, Receive(c) PROVE VersionInv(d)'
    <2>1. UNCHANGED <<cluster, revision, seen>> /\ stage[c] = "idle"
          /\ stage'[c] # "idle" /\ request'[c].obj \in Objects
        BY <1>0, <1>1 DEF Receive, Emit, GoTo, GatedTypeOK
    <2>2. CASE c = d
        BY <1>0, <2>1, <2>2 DEF VersionInv, Absent
    <2>3. CASE c # d
        <3>1. stage'[d] = stage[d] /\ request'[d] = request[d]
            BY <1>0, <1>1, <2>3 DEF Receive, Emit, GoTo, GatedTypeOK
        <3> QED
            BY <1>0, <2>1, <3>1 DEF VersionInv
    <2> QED
        BY <2>2, <2>3
<1>2. ASSUME NEW c \in Calls, AskGate(c) PROVE VersionInv(d)'
    BY <1>2, <1>s, <1>e DEF AskGate
<1>3. ASSUME NEW c \in Calls, ReadGateTarget(c) PROVE VersionInv(d)'
    <2>1. CASE UNCHANGED seen
        BY <1>3, <1>s, <2>1 DEF ReadGateTarget
    <2>2. CASE seen' = [seen EXCEPT ![c] = cluster[request[c].obj]]
        <3>1. request[c].obj \in Objects /\ UNCHANGED <<cluster, revision, request>>
              /\ stage[c] # "idle" /\ stage'[c] # "idle" /\ (c # d => stage'[d] = stage[d])
            BY <1>0, <1>3 DEF ReadGateTarget, StageInv, GoTo, GatedTypeOK
        <3> QED
            BY <1>0, <2>2, <3>1 DEF VersionInv, GatedTypeOK
    <2> QED
        BY <1>3, <2>1, <2>2 DEF ReadGateTarget
<1>4. ASSUME NEW c \in Calls, DescribeFails(c) PROVE VersionInv(d)'
    BY <1>4, <1>e DEF DescribeFails
<1>5. ASSUME NEW c \in Calls, GateRefuses(c) PROVE VersionInv(d)'
    BY <1>5, <1>e DEF GateRefuses
<1>6. ASSUME NEW c \in Calls, GateApproves(c) PROVE VersionInv(d)'
    BY <1>6, <1>s DEF GateApproves
<1>7. ASSUME NEW c \in Calls, SpendApproval(c) PROVE VersionInv(d)'
    BY <1>7, <1>s DEF SpendApproval
<1>8. ASSUME NEW c \in Calls, ConfirmTargetUnchanged(c) PROVE VersionInv(d)'
    BY <1>8, <1>s, <1>e DEF ConfirmTargetUnchanged
<1>9. ASSUME NEW c \in Calls, InvokeEnds(c) PROVE VersionInv(d)'
    BY <1>9, <1>e DEF InvokeEnds
<1>10. ASSUME NEW c \in Calls, InvokeSends(c) PROVE VersionInv(d)'
    BY <1>10, <1>s DEF InvokeSends
<1>11. ASSUME NEW c \in Calls, ReturnsResult(c) PROVE VersionInv(d)'
    BY <1>11, <1>e DEF ReturnsResult
<1>12. ASSUME NEW c \in Calls, ServerApplies(c) PROVE VersionInv(d)'
    <2>1. PICK o, old, new : /\ o = request[c].obj
                             /\ old = cluster[o]
                             /\ new = Effect(request[c].tool, old)
        OBVIOUS
    <2>2. o \in Objects
        BY <1>0, <1>12, <2>1 DEF ServerApplies, WireInv, StageInv
    <2>3. old \in States /\ new \in States /\ old.rv <= revision
        BY <1>0, <2>1, <2>2, EffectType DEF GatedTypeOK, VersionInv
    <2>4. /\ cluster' = [cluster EXCEPT ![o] = new]
          /\ revision' = IF new = old THEN revision ELSE revision + 1
          /\ UNCHANGED <<stage, request, seen>>
        BY <1>12, <2>1 DEF ServerApplies
    <2>5. new = cluster[o] \/ new = Absent \/ (new.rv = revision + 1 /\ revision' = revision + 1)
        BY <1>0, <2>1, <2>3, <2>4, EffectMoves
    <2> QED
        BY <1>0, <2>2, <2>3, <2>4, <2>5, ClusterMoves DEF StageInv
<1>13. ASSUME NEW c \in Calls, ServerRejects(c) PROVE VersionInv(d)'
    BY <1>13, <1>f DEF ServerRejects
<1>14. ASSUME NEW c \in Calls, OperatorApproves(c) PROVE VersionInv(d)'
    BY <1>14, <1>f DEF OperatorApproves
<1>15. ASSUME NEW o \in Objects, WorldChanges(o) PROVE VersionInv(d)'
    <2>1. revision' = revision + 1 /\ UNCHANGED <<stage, request, seen>>
        BY <1>15 DEF WorldChanges
    <2> QED
        BY <1>0, <1>15, <2>1, WorldMoves, ClusterMoves DEF StageInv
<1>16. CASE UNCHANGED vars
    BY <1>16, <1>f DEF vars
<1> QED
    BY <1>1, <1>2, <1>3, <1>4, <1>5, <1>6, <1>7, <1>8, <1>9, <1>10, <1>11, <1>12, <1>13, <1>14, <1>15, <1>16 DEF Next, CallStep

-----------------------------------------------------------------------------
\* The window between the last check and the apiserver.

\* confirmTargetUnchanged opens the window with the object as it was shown; only
\* someone else's change, which marks the call as raced, can move it.
LEMMA WindowStep == Inv /\ [Next]_vars => \A d \in Calls : WindowInv(d)'
<1> SUFFICES ASSUME Inv, [Next]_vars, NEW d \in Calls PROVE WindowInv(d)'
    OBVIOUS
<1>0. GatedTypeOK /\ WindowInv(d) /\ StageInv(d) /\ WireInv(d)
      /\ \A c \in Calls : StageInv(c) /\ WireInv(c)
    BY DEF Inv
<1>f. ASSUME UNCHANGED <<cluster, raced>>, request'[d] = request[d], seen'[d] = seen[d],
             stage'[d] = "invoke" \/ wire'[d] = "sent" => stage[d] = "invoke" \/ wire[d] = "sent"
      PROVE  WindowInv(d)'
    BY <1>0, <1>f DEF WindowInv
<1>s. ASSUME NEW c \in Calls, NEW s, s # "invoke", GoTo(c, s),
             UNCHANGED <<cluster, raced, request, seen, wire>>
      PROVE  WindowInv(d)'
    <2>1. stage'[d] = "invoke" => stage[d] = "invoke"
        BY <1>0, <1>s DEF GoTo, GatedTypeOK
    <2> QED
        BY <1>f, <1>s, <2>1
<1>e. ASSUME NEW c \in Calls, NEW result, NEW reason, NEW decision,
             Emit(c, result, reason, decision), UNCHANGED <<cluster, raced, request, seen, wire>>
      PROVE  WindowInv(d)'
    BY <1>s, <1>e DEF Emit
\* Somebody changes o; every call that is past its check of o is raced, but for S.
<1>w. ASSUME NEW S, d \notin S, NEW o, NEW new, cluster' = [cluster EXCEPT ![o] = new],
             raced' = raced \cup (PastCheck(o) \ S),
             UNCHANGED <<stage, request, seen>>, wire'[d] = wire[d]
      PROVE  WindowInv(d)'
    <2>1. CASE request[d].obj = o
        BY <1>0, <1>w, <2>1 DEF WindowInv, WireInv, PastCheck
    <2>2. CASE request[d].obj # o
        <3>1. stage[d] # "idle" => cluster'[request[d].obj] = cluster[request[d].obj]
            BY <1>0, <1>w, <2>2 DEF StageInv, GatedTypeOK
        <3> QED
            BY <1>0, <1>w, <3>1 DEF WindowInv, WireInv
    <2> QED
        BY <2>1, <2>2
<1> USE DEF gateVars, setupVars, clusterVars, callVars
<1>1. ASSUME NEW c \in Calls, Receive(c) PROVE WindowInv(d)'
    <2>1. CASE c # d
        BY <1>0, <1>1, <1>f, <2>1 DEF Receive, Emit, GoTo, GatedTypeOK
    <2>2. CASE c = d
        <3>1. PICK t \in Tools, o \in Objects : \E a \in ArgsOf(t) :
                  /\ request'[d] = [tool |-> t, obj |-> o, args |-> a]
                  /\ \/ Emit(c, "refused", "invalid_input", "empty")
                     \/ Emit(c, "refused", "gate_unconfigured", "empty")
                     \/ GoTo(c, IF Gated(t) THEN "ask" ELSE "invoke")
            BY <1>0, <1>1, <2>2 DEF Receive, GatedTypeOK
        <3>2. request'[d].tool = t /\ (stage'[d] = "invoke" => ~Gated(t))
            BY <1>0, <2>2, <3>1 DEF Emit, GoTo, GatedTypeOK
        <3>3. wire'[d] = "none"
            BY <1>0, <1>1, <2>2 DEF Receive, WireInv
        <3> QED
            BY <3>2, <3>3 DEF WindowInv
    <2> QED
        BY <2>1, <2>2
<1>2. ASSUME NEW c \in Calls, AskGate(c) PROVE WindowInv(d)'
    BY <1>2, <1>s, <1>e DEF AskGate
<1>3. ASSUME NEW c \in Calls, ReadGateTarget(c) PROVE WindowInv(d)'
    <2>1. CASE c # d
        BY <1>0, <1>3, <1>f, <2>1 DEF ReadGateTarget, GoTo, GatedTypeOK
    <2>2. CASE c = d
        BY <1>0, <1>3, <2>2 DEF ReadGateTarget, GoTo, GatedTypeOK, WireInv, WindowInv
    <2> QED
        BY <2>1, <2>2
<1>4. ASSUME NEW c \in Calls, DescribeFails(c) PROVE WindowInv(d)'
    BY <1>4, <1>e DEF DescribeFails
<1>5. ASSUME NEW c \in Calls, GateRefuses(c) PROVE WindowInv(d)'
    BY <1>5, <1>e DEF GateRefuses
<1>6. ASSUME NEW c \in Calls, GateApproves(c) PROVE WindowInv(d)'
    BY <1>6, <1>s DEF GateApproves
<1>7. ASSUME NEW c \in Calls, SpendApproval(c) PROVE WindowInv(d)'
    BY <1>7, <1>s DEF SpendApproval
<1>8. ASSUME NEW c \in Calls, ConfirmTargetUnchanged(c) PROVE WindowInv(d)'
    <2>1. CASE GoTo(c, "invoke") /\ (HasTarget(request[c].tool) => cluster[request[c].obj] = seen[c])
        BY <1>0, <1>8, <2>1 DEF ConfirmTargetUnchanged, GoTo, GatedTypeOK, WindowInv
    <2> QED
        BY <1>8, <1>e, <2>1 DEF ConfirmTargetUnchanged
<1>9. ASSUME NEW c \in Calls, InvokeEnds(c) PROVE WindowInv(d)'
    BY <1>9, <1>e DEF InvokeEnds
<1>10. ASSUME NEW c \in Calls, InvokeSends(c) PROVE WindowInv(d)'
    BY <1>0, <1>10, <1>f DEF InvokeSends, GoTo, GatedTypeOK
<1>11. ASSUME NEW c \in Calls, ReturnsResult(c) PROVE WindowInv(d)'
    BY <1>11, <1>e DEF ReturnsResult
<1>12. ASSUME NEW c \in Calls, ServerApplies(c) PROVE WindowInv(d)'
    <2>1. PICK o, old, new : /\ o = request[c].obj
                             /\ old = cluster[o]
                             /\ new = Effect(request[c].tool, old)
        OBVIOUS
    <2>2. /\ wire[c] = "sent"
          /\ wire' = [wire EXCEPT ![c] = "applied"]
          /\ cluster' = [cluster EXCEPT ![o] = new]
          /\ raced' = IF new = old THEN raced ELSE raced \cup (PastCheck(o) \ {c})
          /\ UNCHANGED <<stage, request, seen>>
        BY <1>12, <2>1 DEF ServerApplies
    <2>3. CASE c = d
        BY <1>0, <2>2, <2>3 DEF WindowInv, WireInv, GatedTypeOK
    <2>4. CASE c # d /\ new = old
        BY <1>0, <1>f, <2>1, <2>2, <2>4 DEF GatedTypeOK
    <2>5. CASE c # d /\ new # old
        BY <1>0, <1>w, <2>2, <2>5 DEF GatedTypeOK
    <2> QED
        BY <2>3, <2>4, <2>5
<1>13. ASSUME NEW c \in Calls, ServerRejects(c) PROVE WindowInv(d)'
    BY <1>0, <1>13, <1>f DEF ServerRejects, GatedTypeOK
<1>14. ASSUME NEW c \in Calls, OperatorApproves(c) PROVE WindowInv(d)'
    BY <1>14, <1>f DEF OperatorApproves
<1>15. ASSUME NEW o \in Objects, WorldChanges(o) PROVE WindowInv(d)'
    <2>1. raced' = raced \cup (PastCheck(o) \ {})
        BY <1>15 DEF WorldChanges
    <2> QED
        BY <1>15, <1>w, <2>1 DEF WorldChanges
<1>16. CASE UNCHANGED vars
    BY <1>16, <1>f DEF vars
<1> QED
    BY <1>1, <1>2, <1>3, <1>4, <1>5, <1>6, <1>7, <1>8, <1>9, <1>10, <1>11, <1>12, <1>13, <1>14, <1>15, <1>16 DEF Next, CallStep

\* What the apiserver acted on.
LEMMA HitsStep == Inv /\ [Next]_vars => \A d \in Calls : HitsInv(d)'
<1> SUFFICES ASSUME Inv, [Next]_vars, NEW d \in Calls PROVE HitsInv(d)'
    OBVIOUS
<1>0. GatedTypeOK /\ StageInv(d) /\ WireInv(d) /\ VersionInv(d) /\ WindowInv(d) /\ HitsInv(d)
    BY DEF Inv
<1>f. ASSUME hits'[d] = hits[d], raced \subseteq raced',
             hits[d] # <<>> => seen'[d] = seen[d] /\ request'[d] = request[d]
      PROVE  HitsInv(d)'
    BY <1>0, <1>f DEF HitsInv
<1> USE DEF gateVars, setupVars, clusterVars, callVars
<1>1. ASSUME NEW c \in Calls, Receive(c) PROVE HitsInv(d)'
    BY <1>0, <1>1, <1>f DEF Receive, WireInv, GatedTypeOK
<1>2. ASSUME NEW c \in Calls, ReadGateTarget(c) PROVE HitsInv(d)'
    BY <1>0, <1>2, <1>f DEF ReadGateTarget, WireInv, GatedTypeOK
<1>3. ASSUME NEW c \in Calls, ServerApplies(c) PROVE HitsInv(d)'
    <2>1. CASE c # d
        BY <1>0, <1>3, <1>f, <2>1 DEF ServerApplies, GatedTypeOK
    <2>2. CASE c = d
        <3>1. PICK old : old = cluster[request[d].obj]
            OBVIOUS
        <3>2. stage[d] # "idle" /\ request[d].obj \in Objects /\ old \in States /\ hits[d] = <<>>
            BY <1>0, <1>3, <2>2, <3>1 DEF ServerApplies, WireInv, StageInv, GatedTypeOK
        <3>3. hits'[d] = Append(<<>>, old)
            BY <1>0, <1>3, <2>2, <3>1, <3>2 DEF ServerApplies, GatedTypeOK
        <3>4. hits'[d][1] = old
            BY <3>2, <3>3
        <3>5. request[d].tool = "update" => old = seen[d]
            BY <1>0, <1>3, <2>2, <3>1, <3>2 DEF ServerApplies, Precondition, UpdateResource, VersionInv
        <3>6. request[d].tool = "patch" => old = seen[d]
            BY <1>0, <1>3, <2>2, <3>1, <3>2 DEF ServerApplies, Precondition, ApprovedPatch, VersionInv
        <3>7. Gated(request[d].tool) /\ HasTarget(request[d].tool) /\ d \notin raced' => old = seen[d]
            BY <1>0, <1>3, <2>2, <3>1 DEF ServerApplies, WindowInv
        <3>8. UNCHANGED <<request, seen>>
            BY <1>3 DEF ServerApplies
        <3> QED
            BY <3>4, <3>5, <3>6, <3>7, <3>8 DEF HitsInv
    <2> QED
        BY <2>1, <2>2
<1>4. ASSUME UNCHANGED <<hits, seen, request>>, raced \subseteq raced' PROVE HitsInv(d)'
    BY <1>4, <1>f
<1>5. ASSUME NEW o \in Objects, WorldChanges(o) PROVE HitsInv(d)'
    BY <1>5, <1>4 DEF WorldChanges
<1>6. ASSUME NEW c \in Calls,
             \/ AskGate(c) \/ DescribeFails(c) \/ GateRefuses(c) \/ GateApproves(c)
             \/ SpendApproval(c) \/ ConfirmTargetUnchanged(c) \/ InvokeEnds(c) \/ InvokeSends(c)
             \/ ReturnsResult(c) \/ ServerRejects(c) \/ OperatorApproves(c)
      PROVE  HitsInv(d)'
    BY <1>6, <1>4 DEF AskGate, DescribeFails, GateRefuses, GateApproves, SpendApproval,
       ConfirmTargetUnchanged, InvokeEnds, InvokeSends, ReturnsResult, ServerRejects, OperatorApproves
<1>7. CASE UNCHANGED vars
    BY <1>7, <1>4 DEF vars
<1> QED
    BY <1>1, <1>2, <1>3, <1>5, <1>6, <1>7 DEF Next, CallStep

-----------------------------------------------------------------------------
\* The invariants.

\* The inductive invariant of toolsCall holds in every reachable state.
LEMMA Invariance == Spec => []Inv
<1>1. Init => Inv
    <2> SUFFICES ASSUME Init PROVE Inv
        OBVIOUS
    <2>1. GatedTypeOK /\ GateInv
        BY TypeInitially
    <2>2. ASSUME NEW c \in Calls
          PROVE  StageInv(c) /\ WireInv(c) /\ RecordInv(c)
        BY <2>2 DEF Init, GateInit, StageInv, WireInv, RecordInv
    <2>3. ASSUME NEW c \in Calls
          PROVE  VersionInv(c) /\ WindowInv(c) /\ HitsInv(c)
        BY <2>3 DEF Init, VersionInv, WindowInv, HitsInv, Absent
    <2> QED
        BY <2>1, <2>2, <2>3 DEF Inv
<1>2. Inv /\ [Next]_vars => Inv'
    BY TypeStep, CallInvStep, VersionStep, WindowStep, HitsStep DEF Inv
<1> QED
    BY <1>1, <1>2, PTL DEF Spec

\* The apiserver acts on a call's request at most once.
LEMMA OneHit ==
    ASSUME NEW S, NEW s \in Seq(S), NEW k \in 1 .. Len(s), s # <<>> => Len(s) = 1
    PROVE  s # <<>> /\ k = 1
<1>1. Len(s) \in Nat /\ Len(<<>>) = 0
    OBVIOUS
<1>2. ASSUME s = <<>> PROVE FALSE
    <2>1. Len(s) = 0
        BY <1>1, <1>2, Zenon
    <2> QED
        BY <2>1
<1>3. Len(s) = 1
    BY <1>2, Zenon
<1>4. k = 1
    BY <1>3
<1> QED
    BY <1>2, <1>4, Zenon

\* Every variable keeps its type in every reachable state.
THEOREM TypeCorrect == Spec => []GatedTypeOK
BY Invariance, PTL DEF Inv

\* The event record carries the gate's own answer for every call (AC8).
THEOREM RecordIsTruthful == Spec => []RecordTellsTheVerdict
<1>1. Inv => RecordTellsTheVerdict
    BY DEF Inv, RecordInv, RecordTellsTheVerdict
<1> QED
    BY <1>1, Invariance, PTL

\* Updates and patches reach only the state their approval was sought for (AC6).
THEOREM WritesAreApproved == Spec => []WritesHitApprovedState
<1>1. Inv => WritesHitApprovedState
    <2> SUFFICES ASSUME Inv, NEW c \in Calls, request[c].tool \in {"update", "patch"},
                        NEW k \in 1 .. Len(hits[c])
                 PROVE  hits[c][k] = seen[c]
        BY DEF WritesHitApprovedState
    <2>1. hits[c] \in Seq(States) /\ WireInv(c) /\ HitsInv(c)
        BY DEF Inv, GatedTypeOK
    <2>2. hits[c] # <<>> /\ k = 1
        BY <2>1, OneHit DEF WireInv
    <2> QED
        BY <2>1, <2>2 DEF HitsInv
<1> QED
    BY <1>1, Invariance, PTL

\* A gated call without a condition of its own misses the approved state only
\* when somebody else changed the target after confirmTargetUnchanged's read.
THEOREM UncheckedWindow == Spec => []UncheckedWindowStartsAtRead
<1>1. Inv => UncheckedWindowStartsAtRead
    <2> SUFFICES ASSUME Inv, NEW c \in Calls, request[c].tool \in NeedsApproval,
                        HasTarget(request[c].tool), c \notin raced, NEW k \in 1 .. Len(hits[c])
                 PROVE  hits[c][k] = seen[c]
        BY DEF UncheckedWindowStartsAtRead
    <2>1. hits[c] \in Seq(States) /\ WireInv(c) /\ HitsInv(c)
        BY DEF Inv, GatedTypeOK
    <2>2. hits[c] # <<>> /\ k = 1
        BY <2>1, OneHit DEF WireInv
    <2> QED
        BY <2>1, <2>2, NeedsApprovalIsGated DEF HitsInv
<1> QED
    BY <1>1, Invariance, PTL

-----------------------------------------------------------------------------
\* The promise to the operator.

Performed == [c \in Calls |-> IF c \in NeedingApproval THEN Len(hits[c]) ELSE 0]
ReportedRefused == {c \in NeedingApproval : record[c].result = "refused"}

\* The abstract actions under the refinement mapping.
LEMMA IsReportRefused ==
    ASSUME NEW c \in Calls, Performed[c] = 0, Performed' = Performed,
           ReportedRefused' = ReportedRefused \cup {c}, granted' = granted
    PROVE  Promise!ExecNext
<1>1. {c} \in SUBSET Calls /\ {c} # {}
    OBVIOUS
<1>2. Promise!ReportRefused({c})
    BY DEF Promise!ReportRefused, Performed, ReportedRefused
<1> QED
    BY <1>1, <1>2 DEF Promise!ExecNext

\* A step that performs, refuses and grants nothing is hidden from the promise.
LEMMA IsExecStutter ==
    ASSUME Performed' = Performed, ReportedRefused' = ReportedRefused, granted' = granted
    PROVE  UNCHANGED Promise!execVars
BY DEF Promise!execVars, Performed, ReportedRefused

\* The initial state is one of the promise: nothing approved, performed or refused.
LEMMA PromiseInitially == Init => Promise!ExecInit
<1> SUFFICES ASSUME Init PROVE Promise!ExecInit
    OBVIOUS
<1>1. granted = {}
    BY DEF Init, GateInit
<1>2. ASSUME NEW c \in Calls PROVE c \notin NeedingApproval
    BY DEF Init, NoRequest, NeedingApproval, NeedsApproval
<1> QED
    BY <1>1, <1>2 DEF Promise!ExecInit, NeedingApproval

\* Every step of a gated call is a step of the promise or hidden from it.
LEMMA PromiseStep == Inv /\ [Next]_vars => [Promise!ExecNext]_(Promise!execVars)
<1> SUFFICES ASSUME Inv, [Next]_vars PROVE Promise!ExecNext \/ UNCHANGED Promise!execVars
    OBVIOUS
<1>0. GatedTypeOK /\ GateInv /\ \A c \in Calls : StageInv(c) /\ WireInv(c)
    BY DEF Inv
\* The record of c is written, for a call that has no request on the wire or
\* did not end in a refusal.
<1>e. ASSUME NEW c \in Calls, NEW result, NEW reason, NEW decision,
             Emit(c, result, reason, decision), stage[c] # "done",
             UNCHANGED <<granted, hits, request>>, result = "refused" => hits[c] = <<>>
      PROVE  Promise!ExecNext \/ UNCHANGED Promise!execVars
    <2>1. Performed' = Performed /\ NeedingApproval' = NeedingApproval
        BY <1>e DEF Performed, NeedingApproval
    <2>2. record'[c].result = result /\ (\A d \in Calls \ {c} : record'[d] = record[d])
          /\ c \notin ReportedRefused
        BY <1>0, <1>e, EmitEffect DEF StageInv, NoRecord, ReportedRefused
    <2>3. CASE result = "refused" /\ c \in NeedingApproval
        <3>1. ReportedRefused' = ReportedRefused \cup {c}
            BY <2>1, <2>2, <2>3 DEF ReportedRefused, NeedingApproval
        <3>2. Performed[c] = 0
            BY <1>e, <2>3 DEF Performed
        <3> QED
            BY <1>e, <2>1, <3>1, <3>2, IsReportRefused
    <2>4. CASE ~(result = "refused" /\ c \in NeedingApproval)
        <3>1. ReportedRefused' = ReportedRefused
            BY <2>1, <2>2, <2>4 DEF ReportedRefused, NeedingApproval
        <3> QED
            BY <1>e, <2>1, <3>1, IsExecStutter
    <2> QED
        BY <2>3, <2>4
<1>s. ASSUME UNCHANGED <<granted, hits, request, record>> PROVE UNCHANGED Promise!execVars
    BY <1>s, IsExecStutter DEF Performed, ReportedRefused, NeedingApproval
<1>h. ASSUME NEW c \in Calls, stage[c] \notin {"sent", "done"} PROVE hits[c] = <<>>
    BY <1>0, <1>h DEF WireInv
<1> USE DEF gateVars, setupVars, clusterVars, callVars
<1>1. ASSUME NEW c \in Calls, Receive(c) PROVE Promise!ExecNext \/ UNCHANGED Promise!execVars
    <2>1. hits[c] = <<>> /\ hits' = hits /\ granted' = granted /\ stage[c] = "idle"
        BY <1>1, <1>h DEF Receive
    <2>2. \A d \in Calls \ {c} : request'[d] = request[d] /\ record'[d] = record[d]
        BY <1>0, <1>1 DEF Receive, Emit, GatedTypeOK
    <2>3. Performed[c] = 0 /\ Performed' = Performed
        <3>1. \A d \in Calls : Performed'[d] = Performed[d]
            BY <2>1, <2>2 DEF Performed, NeedingApproval
        <3> QED
            BY <2>1, <3>1 DEF Performed
    <2>4. c \notin ReportedRefused
        BY <1>0, <2>1 DEF ReportedRefused, StageInv, NoRecord
    <2>5. CASE c \in ReportedRefused'
        <3>1. ReportedRefused' = ReportedRefused \cup {c}
            BY <2>2, <2>5 DEF ReportedRefused, NeedingApproval
        <3> QED
            BY <2>1, <2>3, <3>1, IsReportRefused
    <2>6. CASE c \notin ReportedRefused'
        <3>1. ReportedRefused' = ReportedRefused
            BY <2>2, <2>4, <2>6 DEF ReportedRefused, NeedingApproval
        <3> QED
            BY <2>1, <2>3, <3>1, IsExecStutter
    <2> QED
        BY <2>5, <2>6
<1>2. ASSUME NEW c \in Calls, AskGate(c) PROVE Promise!ExecNext \/ UNCHANGED Promise!execVars
    BY <1>2, <1>e, <1>s, <1>h DEF AskGate, RefuseAtOnce, Ask
<1>3. ASSUME NEW c \in Calls, DescribeFails(c)
      PROVE  Promise!ExecNext \/ UNCHANGED Promise!execVars
    BY <1>3, <1>e, <1>h DEF DescribeFails, Refuse
<1>4. ASSUME NEW c \in Calls, GateRefuses(c) PROVE Promise!ExecNext \/ UNCHANGED Promise!execVars
    BY <1>4, <1>e, <1>h DEF GateRefuses, Refuse
<1>5. ASSUME NEW c \in Calls, ConfirmTargetUnchanged(c)
      PROVE  Promise!ExecNext \/ UNCHANGED Promise!execVars
    BY <1>5, <1>e, <1>s, <1>h DEF ConfirmTargetUnchanged
<1>6. ASSUME NEW c \in Calls, InvokeEnds(c) PROVE Promise!ExecNext \/ UNCHANGED Promise!execVars
    BY <1>6, <1>e, <1>h DEF InvokeEnds
<1>7. ASSUME NEW c \in Calls, ReturnsResult(c)
      PROVE  Promise!ExecNext \/ UNCHANGED Promise!execVars
    BY <1>7, <1>e DEF ReturnsResult
\* The apiserver acts: for an operation that needs approval, the one Perform.
<1>8. ASSUME NEW c \in Calls, ServerApplies(c)
      PROVE  Promise!ExecNext \/ UNCHANGED Promise!execVars
    <2>1. /\ wire[c] = "sent" /\ hits[c] = <<>>
          /\ UNCHANGED <<granted, request, record>>
          /\ hits' = [hits EXCEPT ![c] = Append(<<>>, cluster[request[c].obj])]
        BY <1>0, <1>8 DEF ServerApplies, WireInv, GatedTypeOK
    <2>2. ReportedRefused' = ReportedRefused /\ NeedingApproval' = NeedingApproval
        BY <2>1 DEF ReportedRefused, NeedingApproval
    <2>3. CASE c \in NeedingApproval
        <3>1. c \in granted /\ c \notin ReportedRefused
            BY <1>0, <2>1, <2>3, NeedsApprovalIsGated
            DEF WireInv, GateInv, NeedingApproval, ReportedRefused
        <3>2. Len(hits[c]) = 0 /\ Len(hits'[c]) = 1
            BY <1>0, <2>1 DEF GatedTypeOK
        <3>3. Performed[c] = 0
            BY <2>3, <3>2 DEF Performed
        <3>4. Performed' = [Performed EXCEPT ![c] = 1]
            <4>1. \A d \in Calls \ {c} : hits'[d] = hits[d]
                BY <1>0, <2>1 DEF GatedTypeOK
            <4>2. \A d \in Calls : Performed'[d] = IF d = c THEN 1 ELSE Performed[d]
                BY <2>2, <2>3, <3>2, <4>1 DEF Performed
            <4> QED
                BY <4>2 DEF Performed
        <3>5. Promise!Perform(c)
            BY <2>1, <2>2, <3>1, <3>3, <3>4 DEF Promise!Perform, Performed, ReportedRefused
        <3> QED
            BY <3>5 DEF Promise!ExecNext
    <2>4. CASE c \notin NeedingApproval
        <3>1. Performed' = Performed
            BY <1>0, <2>1, <2>2, <2>4 DEF Performed, GatedTypeOK
        <3> QED
            BY <2>1, <2>2, <3>1, IsExecStutter
    <2> QED
        BY <2>3, <2>4
<1>9. ASSUME NEW c \in Calls, OperatorApproves(c) PROVE Promise!ExecNext
    <2>1. Performed' = Performed /\ ReportedRefused' = ReportedRefused
        BY <1>9 DEF OperatorApproves, Performed, ReportedRefused, NeedingApproval
    <2>2. Promise!Approve(c)
        BY <1>9, <2>1 DEF OperatorApproves, Grant, Promise!Approve, Performed, ReportedRefused
    <2> QED
        BY <2>2 DEF Promise!ExecNext
<1>10. ASSUME NEW c \in Calls,
              \/ ReadGateTarget(c) \/ GateApproves(c) \/ SpendApproval(c)
              \/ InvokeSends(c) \/ ServerRejects(c)
       PROVE  UNCHANGED Promise!execVars
    BY <1>10, <1>s DEF ReadGateTarget, GateApproves, Decide, SpendApproval, Consume,
                       InvokeSends, ServerRejects
<1>11. ASSUME NEW o \in Objects, WorldChanges(o) PROVE UNCHANGED Promise!execVars
    BY <1>11, <1>s DEF WorldChanges
<1>12. CASE UNCHANGED vars
    BY <1>12, <1>s DEF vars
<1> QED
    BY <1>1, <1>2, <1>3, <1>4, <1>5, <1>6, <1>7, <1>8, <1>9, <1>10, <1>11, <1>12 DEF Next, CallStep

\* Every gated tools/call keeps the promise to the operator: nothing that needs
\* approval is performed without it, twice on one approval, or after the call
\* was reported refused (AC1, AC5, AC7).
THEOREM Refinement == Spec => ImplementsApprovedExecution
BY PromiseInitially, PromiseStep, Invariance, PTL
DEF Spec, ImplementsApprovedExecution, Promise!ExecSpec
=============================================================================

---------------------------- MODULE GateContract ----------------------------
(***************************************************************************)
(* What approvalgate.Gate promises the dispatcher, and nothing about how.  *)
(*                                                                         *)
(* A call is one Authorize invocation.  Its approval may be granted by the *)
(* backend at any moment while the call waits, and also later, when the    *)
(* call has already been refused because the answer did not arrive in      *)
(* time: `granted' is the backend's view, `answer' the caller's.  Authorize *)
(* returns a Decision only for a granted call, every other return is a     *)
(* refusal, and a Decision is spendable once.  ApprovalGate.tla shows the  *)
(* live client to implement this module; GatedCall, CreateBatch and        *)
(* DeleteCollection are built on it.                                       *)
(***************************************************************************)
CONSTANT Calls        \* the Authorize invocations

VARIABLES answer,     \* [Calls -> Answers]: what Authorize returned, or how far it is
          granted,    \* calls whose approval request the backend holds as APPROVED
          spent       \* calls whose Decision has been consumed

gateVars == <<answer, granted, spent>>

\* The verdicts of a Refusal.  "context" stands for the empty verdict of a
\* call whose approval context could not be built.
Refusals == {"rejected", "expired", "timeout", "unreachable", "unconfigured", "context"}

Answers == {"none", "asking", "approved"} \cup Refusals

\* Verdicts the backend gave, or that were reached before it was asked: no
\* approval of such a call can exist, then or later.
NeverGranted == {"rejected", "expired", "unconfigured", "context"}

GateInit ==
    /\ answer = [c \in Calls |-> "none"]
    /\ granted = {}
    /\ spent = {}

Ask(c) ==
    /\ answer[c] = "none"
    /\ answer' = [answer EXCEPT ![c] = "asking"]
    /\ UNCHANGED <<granted, spent>>

\* The operator, or the auto-response mode, approves the request of c.
Grant(c) ==
    /\ answer[c] \in {"asking", "timeout", "unreachable"}
    /\ c \notin granted
    /\ granted' = granted \cup {c}
    /\ UNCHANGED <<answer, spent>>

Decide(c) ==
    /\ answer[c] = "asking"
    /\ c \in granted
    /\ answer' = [answer EXCEPT ![c] = "approved"]
    /\ UNCHANGED <<granted, spent>>

Refuse(c, v) ==
    /\ answer[c] = "asking"
    /\ v \in Refusals
    /\ v \in NeverGranted => c \notin granted
    /\ answer' = [answer EXCEPT ![c] = v]
    /\ UNCHANGED <<granted, spent>>

\* Unavailable.Authorize: the stand-in for a gate nobody configured.
RefuseAtOnce(c) ==
    /\ answer[c] = "none"
    /\ answer' = [answer EXCEPT ![c] = "unconfigured"]
    /\ UNCHANGED <<granted, spent>>

\* Decision.Consume; a second call returns ErrConsumed and changes nothing.
Consume(c) ==
    /\ answer[c] = "approved"
    /\ c \notin spent
    /\ spent' = spent \cup {c}
    /\ UNCHANGED <<answer, granted>>

GateNext ==
    \E c \in Calls :
        \/ Ask(c)
        \/ Grant(c)
        \/ Decide(c)
        \/ \E v \in Refusals : Refuse(c, v)
        \/ RefuseAtOnce(c)
        \/ Consume(c)

GateSpec == GateInit /\ [][GateNext]_gateVars

GateTypeOK ==
    /\ answer \in [Calls -> Answers]
    /\ granted \subseteq Calls
    /\ spent \subseteq Calls

\* A Decision exists only for a granted call, only a Decision is spent, and a
\* call refused for good is never granted.  The inductive part of the
\* contract, which the composed modules carry along.
GateInv ==
    /\ \A c \in Calls : answer[c] = "approved" => c \in granted
    /\ \A c \in spent : answer[c] = "approved"
    /\ \A c \in granted : answer[c] \in {"asking", "approved", "timeout", "unreachable"}

=============================================================================

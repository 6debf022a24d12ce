------------------------- MODULE ApprovedExecution -------------------------
(***************************************************************************)
(* What the approval gate promises the operator (prd-approval-gate AC1,    *)
(* AC5, AC7), as three facts about each gated operation and nothing about  *)
(* how they are kept: an operation is performed only once approved, one    *)
(* approval performs it at most once, and an operation reported as refused *)
(* is never performed - not before the report, and not after it.           *)
(***************************************************************************)
EXTENDS Naturals

CONSTANT Operations   \* gated kubernetes operations, one approval each

VARIABLES approved,    \* operations the operator (or the auto-response) approved
          performed,   \* how often each reached the cluster
          refused      \* operations reported to the caller as refused

execVars == <<approved, performed, refused>>

ExecInit ==
    /\ approved = {}
    /\ performed = [o \in Operations |-> 0]
    /\ refused = {}

Approve(o) ==
    /\ o \notin approved
    /\ approved' = approved \cup {o}
    /\ UNCHANGED <<performed, refused>>

Perform(o) ==
    /\ o \in approved
    /\ o \notin refused
    /\ performed[o] = 0
    /\ performed' = [performed EXCEPT ![o] = 1]
    /\ UNCHANGED <<approved, refused>>

\* One answer may refuse several operations: a create batch is one call.
ReportRefused(S) ==
    /\ S # {}
    /\ \A o \in S : performed[o] = 0
    /\ refused' = refused \cup S
    /\ UNCHANGED <<approved, performed>>

ExecNext ==
    \/ \E o \in Operations : Approve(o) \/ Perform(o)
    \/ \E S \in SUBSET Operations : ReportRefused(S)

ExecSpec == ExecInit /\ [][ExecNext]_execVars

=============================================================================

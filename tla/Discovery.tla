------------------------------ MODULE Discovery ------------------------------
(***************************************************************************)
(* How a call finds out what the cluster serves: resolve, the cached       *)
(* RESTMapper behind its mutex, and the one request of a plain read.       *)
(*                                                                         *)
(* Every tool that names an apiVersion and a kind looks the kind up in the *)
(* mapper all calls share.  A kind the mapper does not know makes the call *)
(* rebuild it, once, from its own round trips, during which it holds the   *)
(* mutex and everyone else waits.  Kinds come and go meanwhile, and a      *)
(* group whose discovery fails is dropped from the new mapper in silence.  *)
(***************************************************************************)
EXTENDS Naturals, FiniteSets

CONSTANTS
    Calls,       \* concurrent calls
    Kinds,       \* the kinds calls may name, each in a group of its own
    NoCall,      \* nobody holds the mutex
    MaxInstalls  \* bound: how often a kind is installed or removed

ASSUME NoCallAssumption == NoCall \notin Calls
ASSUME MaxInstallsAssumption == MaxInstalls \in Nat

VARIABLES
    served,    \* kinds the cluster serves
    installs,  \* how often that changed
    built,     \* a mapper has been built
    mapper,    \* kinds the shared mapper knows
    holder,    \* who holds the mutex, across its discovery
    stage,     \* where each call is
    kind,      \* the kind each call names
    found,     \* the mapper each call is building, as far as it got
    todo,      \* groups it has still to ask
    outcome,   \* what became of each call
    steady,    \* history: calls whose kind has been served ever since they began
    missed,    \* history: calls whose last discovery failed for their own kind
    offered    \* history: kinds that were ever served

clusterVars == <<served, installs, steady, offered>>
mapperVars == <<built, mapper, holder>>
resolveVars == <<kind, found, todo, missed>>
discoveryVars == <<clusterVars, mapperVars, resolveVars, stage, outcome>>

\* "lookup", "refresh": before restMapper(false) and restMapper(true);
\* "build", "rebuild": in it, with the mutex; "known": resolved.
Resolving == {"lookup", "build", "refresh", "rebuild"}

DiscoveryInit ==
    /\ served \in SUBSET Kinds
    /\ installs = 0
    /\ built = FALSE
    /\ mapper = {}
    /\ holder = NoCall
    /\ stage = [c \in Calls |-> "idle"]
    /\ kind \in [Calls -> Kinds]
    /\ found = [c \in Calls |-> {}]
    /\ todo = [c \in Calls |-> {}]
    /\ outcome = [c \in Calls |-> "none"]
    /\ steady = {}
    /\ missed = {}
    /\ offered = served

-----------------------------------------------------------------------------
Finish(c, o) ==
    /\ stage' = [stage EXCEPT ![c] = "done"]
    /\ outcome' = [outcome EXCEPT ![c] = o]

GoTo(c, s) ==
    /\ stage' = [stage EXCEPT ![c] = s]
    /\ UNCHANGED outcome

\* resolve begins; an apiVersion that is no group and version ends it.
Begin(c) ==
    /\ stage[c] = "idle"
    /\ \/ GoTo(c, "lookup")
       \/ Finish(c, "malformed")
    /\ steady' = IF kind[c] \in served THEN steady \cup {c} ELSE steady
    /\ UNCHANGED <<served, installs, offered, mapperVars, resolveVars>>

\* RESTMapping of the call's kind in M: the kind is known, or known twice over,
\* which ends the call, or looked for once more, or unknown to the cluster.  The sentence that says so asks discovery
\* for similar kinds, without the mutex, and does without them if that fails.
RESTMapping(c, M) ==
    \/ kind[c] \in M /\ GoTo(c, "known")
    \/ kind[c] \in M /\ Finish(c, "ambiguous kind")
    \/ kind[c] \notin M /\ stage[c] \in {"lookup", "build"} /\ GoTo(c, "refresh")
    \/ kind[c] \notin M /\ stage[c] \in {"refresh", "rebuild"} /\ Finish(c, "unknown kind")

\* Mutant: a mapper that is there is taken, also by a call that wants a new one.
UseMapperAlways(c) ==
    /\ stage[c] \in {"lookup", "refresh"}
    /\ holder = NoCall
    /\ built
    /\ RESTMapping(c, mapper)
    /\ UNCHANGED <<clusterVars, mapperVars, resolveVars>>

\* restMapper(false) with a mapper there: it is taken under the mutex.
UseMapper(c) ==
    /\ stage[c] = "lookup"
    /\ holder = NoCall
    /\ built
    /\ RESTMapping(c, mapper)
    /\ UNCHANGED <<clusterVars, mapperVars, resolveVars>>

\* restMapper without one, or restMapper(true): discovery begins, under the mutex.
StartDiscovery(c) ==
    /\ holder = NoCall
    /\ \/ stage[c] = "lookup" /\ ~built /\ GoTo(c, "build")
       \/ stage[c] = "refresh" /\ GoTo(c, "rebuild")
    /\ holder' = c
    /\ found' = [found EXCEPT ![c] = {}]
    /\ todo' = [todo EXCEPT ![c] = Kinds]
    /\ missed' = missed \ {c}
    /\ UNCHANGED <<clusterVars, built, mapper, kind>>

\* One group's resources are read, or fail to be read and are left out.
AskGroup(c, k) ==
    /\ holder = c
    /\ k \in todo[c]
    /\ todo' = [todo EXCEPT ![c] = @ \ {k}]
    /\ \/ /\ found' = [found EXCEPT ![c] = @ \cup ({k} \cap served)]
          /\ UNCHANGED missed
       \/ /\ missed' = IF k = kind[c] THEN missed \cup {c} ELSE missed
          /\ UNCHANGED found
    /\ UNCHANGED <<clusterVars, mapperVars, stage, outcome, kind>>

\* The new mapper replaces the shared one, the mutex is released.
FinishDiscovery(c) ==
    /\ holder = c
    /\ todo[c] = {}
    /\ built' = TRUE
    /\ mapper' = found[c]
    /\ holder' = NoCall
    /\ RESTMapping(c, found[c])
    /\ UNCHANGED <<clusterVars, resolveVars>>

\* Mutant: the failing path returns without unlocking.
DiscoveryFailsLocked(c) ==
    /\ holder = c
    /\ stage[c] \in Resolving
    /\ Finish(c, "discovery failed")
    /\ UNCHANGED <<clusterVars, mapperVars, resolveVars>>

\* No discovery client, or not even the list of groups: the old mapper stays.
DiscoveryFails(c) ==
    /\ holder = c
    /\ holder' = NoCall
    /\ Finish(c, "discovery failed")
    /\ UNCHANGED <<clusterVars, built, mapper, resolveVars>>

-----------------------------------------------------------------------------
\* objectNamespace, and the scope checks of list and watch: the namespace argument
\* does not go with the kind's scope.
objectNamespaceRefuses(c) == Finish(c, "scope")

\* GetResource, ListResources and the like: scope, then one request.  A kind
\* that is gone by now is answered like a missing object.
ReadOnce(c) ==
    /\ stage[c] = "known"
    /\ \/ objectNamespaceRefuses(c)
       \/ kind[c] \in served /\ Finish(c, "answer")
       \/ kind[c] \notin served /\ Finish(c, "not found")
       \/ Finish(c, "request failed")
    /\ UNCHANGED <<clusterVars, mapperVars, resolveVars>>

\* Someone installs or removes a CRD.
Install(k) ==
    /\ installs < MaxInstalls
    /\ installs' = installs + 1
    /\ served' = IF k \in served THEN served \ {k} ELSE served \cup {k}
    /\ offered' = offered \cup served'
    /\ steady' = {c \in steady : kind[c] # k}
    /\ UNCHANGED <<mapperVars, resolveVars, stage, outcome>>

Resolve(c) ==
    \/ Begin(c) \/ UseMapper(c) \/ StartDiscovery(c)
    \/ \E k \in Kinds : AskGroup(c, k)
    \/ FinishDiscovery(c) \/ DiscoveryFails(c)

-----------------------------------------------------------------------------
(* Properties.                                                             *)

\* "cluster serves no kind" is said only of a kind that was away at some time
\* during the call or whose group the call's own discovery failed to read,
\* whatever mappers other calls built meanwhile (resolve).  And a kind the
\* cluster never served is never answered by a request (the 404 that "reads like
\* the object is gone").
UnknownKindIsUnknown ==
    \A c \in Calls :
        /\ outcome[c] = "unknown kind" => c \notin steady \/ c \in missed
        /\ outcome[c] \in {"answer", "not found"} => kind[c] \in offered

\* No call waits for the mapper for ever, whoever holds its mutex (restMapper).
ResolvesEnd ==
    \A c \in Calls : stage[c] \in Resolving ~> stage[c] \notin Resolving

=============================================================================

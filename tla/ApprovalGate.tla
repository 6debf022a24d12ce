---------------------------- MODULE ApprovalGate ----------------------------
(***************************************************************************)
(* The live approval gate (internal/approvalgate) against PocketAide.      *)
(*                                                                         *)
(* Each call runs Client.Authorize: describe, POST one approval request,   *)
(* then GET it until it is decided, the client's own deadline fires or the *)
(* caller goes away.  Both HTTP exchanges are split into the backend's     *)
(* handling and the client's receipt, because the backend may act on a     *)
(* request whose answer is lost or comes too late.  PocketAide is external *)
(* and is modelled from what the client relies on: one row per externalId  *)
(* (409 otherwise), auto-response only at creation, a human decision on an *)
(* unexpired PENDING row, expiry evaluated when the row is read.           *)
(***************************************************************************)
CONSTANTS
    Calls,     \* Authorize invocations, each with its own goroutine
    Ids,       \* the externalIds newID may draw; PocketAide keys its rows by them
    NoCall,    \* not a call: the owner of a row that does not exist
    NoId       \* not an id

ASSUME NoCallAssumption == NoCall \notin Calls
ASSUME NoIdAssumption == NoId \notin Ids

VARIABLES
    configured,  \* New(cfg) or NewUnavailable, chosen at startup
    stage,       \* where each Authorize is
    verdict,     \* what it returned; "none" before
    auto,        \* calls whose Decision carries AutoApproved
    used,        \* calls whose Decision.used is set
    externalID,  \* the id drawn for the call
    requestID,   \* the id the create response carried
    post,        \* the create request: "none", "sent", "handled"
    reply,       \* the response on its way to the waiting client
    rows,        \* PocketAide's approval requests
    expired,     \* ids whose expiresAt has passed
    late,        \* calls whose poll deadline has fired
    gone         \* calls whose context is done

clientVars == <<stage, verdict, auto, used, externalID, requestID>>
backendVars == <<rows, expired>>
clockVars == <<late, gone>>
vars == <<configured, clientVars, post, reply, backendVars, clockVars>>

Stages == {"idle", "describe", "create", "get", "select", "overdue", "returned"}

Verdicts == {"approved", "rejected", "expired", "timeout", "unreachable",
             "unconfigured", "context"}

\* "WITHDRAWN" stands for every status string the client does not know.
Stored == {"PENDING", "APPROVED", "REJECTED", "WITHDRAWN"}
Row == [of : Calls \cup {NoCall}, status : Stored, by : {"nobody", "auto", "human"}]
NoRow == [of |-> NoCall, status |-> "PENDING", by |-> "nobody"]

\* Besides a status, an answer may be unusable ("error": a non-2xx code, a
\* body that does not decode, an empty id) or the 409 of a taken externalId.
Replies == Stored \cup {"none", "EXPIRED", "error", "conflict"}

TypeOK ==
    /\ configured \in BOOLEAN
    /\ stage \in [Calls -> Stages]
    /\ verdict \in [Calls -> Verdicts \cup {"none"}]
    /\ auto \subseteq Calls
    /\ used \subseteq Calls
    /\ externalID \in [Calls -> Ids \cup {NoId}]
    /\ requestID \in [Calls -> Ids \cup {NoId}]
    /\ post \in [Calls -> {"none", "sent", "handled"}]
    /\ reply \in [Calls -> Replies]
    /\ rows \in [Ids -> Row]
    /\ expired \subseteq Ids
    /\ late \subseteq Calls
    /\ gone \subseteq Calls

Init ==
    /\ configured \in BOOLEAN
    /\ stage = [c \in Calls |-> "idle"]
    /\ verdict = [c \in Calls |-> "none"]
    /\ auto = {}
    /\ used = {}
    /\ externalID = [c \in Calls |-> NoId]
    /\ requestID = [c \in Calls |-> NoId]
    /\ post = [c \in Calls |-> "none"]
    /\ reply = [c \in Calls |-> "none"]
    /\ rows = [i \in Ids |-> NoRow]
    /\ expired = {}
    /\ late = {}
    /\ gone = {}

-----------------------------------------------------------------------------
\* The client

\* Authorize returns v for c; a reply still on its way finds nobody.
Return(c, v) ==
    /\ stage' = [stage EXCEPT ![c] = "returned"]
    /\ verdict' = [verdict EXCEPT ![c] = v]
    /\ reply' = [reply EXCEPT ![c] = "none"]

\* Unavailable.Authorize refuses at once; Client.Authorize starts to describe.
Authorize(c) ==
    /\ stage[c] = "idle"
    /\ \/ /\ configured
          /\ stage' = [stage EXCEPT ![c] = "describe"]
          /\ UNCHANGED <<verdict, reply>>
       \/ /\ ~configured
          /\ Return(c, "unconfigured")
    /\ UNCHANGED <<configured, auto, used, externalID, requestID, post, backendVars, clockVars>>

\* describe failed: on the call's own context, or on a reader nobody configured.
DescribeFails(c) ==
    /\ stage[c] = "describe"
    /\ \E v \in {"context", "unconfigured"} : Return(c, v)
    /\ UNCHANGED <<configured, auto, used, externalID, requestID, post, backendVars, clockVars>>

\* The request id, the body or the token file failed before anything was sent.
CreateFails(c) ==
    /\ stage[c] = "describe"
    /\ Return(c, "unreachable")
    /\ UNCHANGED <<configured, auto, used, externalID, requestID, post, backendVars, clockVars>>

\* newID draws an id, create POSTs once and waits.
SendCreate(c) ==
    /\ stage[c] = "describe"
    /\ \E i \in Ids : externalID' = [externalID EXCEPT ![c] = i]
    /\ stage' = [stage EXCEPT ![c] = "create"]
    /\ post' = [post EXCEPT ![c] = "sent"]
    /\ UNCHANGED <<configured, verdict, auto, used, requestID, reply, backendVars, clockVars>>

\* Mutant: the 409 of a taken externalId is taken for the request's creation,
\* and the other call's row is polled.
ReceiveCreatePollsConflict(c) ==
    /\ stage[c] = "create"
    /\ \/ /\ reply[c] = "APPROVED"
          /\ Return(c, "approved")
          /\ auto' = auto \cup {c}
          /\ requestID' = [requestID EXCEPT ![c] = externalID[c]]
       \/ /\ reply[c] \in {"PENDING", "conflict"}
          /\ stage' = [stage EXCEPT ![c] = "get"]
          /\ reply' = [reply EXCEPT ![c] = "none"]
          /\ requestID' = [requestID EXCEPT ![c] = externalID[c]]
          /\ UNCHANGED <<verdict, auto>>
       \/ /\ reply[c] \in {"REJECTED", "error"}
          /\ Return(c, "unreachable")
          /\ UNCHANGED <<requestID, auto>>
    /\ UNCHANGED <<configured, used, externalID, post, backendVars, clockVars>>

\* Mutant: every created request is polled, the decided ones too.
ReceiveCreateAlwaysPolls(c) ==
    /\ stage[c] = "create"
    /\ reply[c] # "none"
    /\ IF reply[c] \in {"error", "conflict"}
       THEN /\ Return(c, "unreachable")
            /\ UNCHANGED requestID
       ELSE /\ stage' = [stage EXCEPT ![c] = "get"]
            /\ reply' = [reply EXCEPT ![c] = "none"]
            /\ requestID' = [requestID EXCEPT ![c] = externalID[c]]
            /\ UNCHANGED verdict
    /\ UNCHANGED <<configured, auto, used, externalID, post, backendVars, clockVars>>

\* The create response: a decided request was decided by the auto-response
\* mode, every other created one is polled (first GET at once), an answer that
\* is none of these refuses.
ReceiveCreate(c) ==
    /\ stage[c] = "create"
    /\ \/ /\ reply[c] = "APPROVED"
          /\ Return(c, "approved")
          /\ auto' = auto \cup {c}
          /\ requestID' = [requestID EXCEPT ![c] = externalID[c]]
       \/ /\ reply[c] = "REJECTED"
          /\ Return(c, "rejected")
          /\ requestID' = [requestID EXCEPT ![c] = externalID[c]]
          /\ UNCHANGED auto
       \/ /\ reply[c] = "PENDING"
          /\ stage' = [stage EXCEPT ![c] = "get"]
          /\ reply' = [reply EXCEPT ![c] = "none"]
          /\ requestID' = [requestID EXCEPT ![c] = externalID[c]]
          /\ UNCHANGED <<verdict, auto>>
       \/ /\ reply[c] \in {"error", "conflict"}
          /\ Return(c, "unreachable")
          /\ UNCHANGED <<requestID, auto>>
    /\ UNCHANGED <<configured, used, externalID, post, backendVars, clockVars>>

\* Mutant: a failed create is retried, under an id of its own.
TransportRetries(c) ==
    /\ stage[c] \in {"create", "get"}
    /\ IF stage[c] = "create"
       THEN /\ stage' = [stage EXCEPT ![c] = "describe"]
            /\ reply' = [reply EXCEPT ![c] = "none"]
            /\ UNCHANGED verdict
       ELSE Return(c, "unreachable")
    /\ UNCHANGED <<configured, auto, used, externalID, requestID, post, backendVars, clockVars>>

\* http.Do failed, timed out or was cancelled, or the token file could not be
\* read for the GET.  The backend may have acted on the request all the same.
TransportFails(c) ==
    /\ stage[c] \in {"create", "get"}
    /\ Return(c, "unreachable")
    /\ UNCHANGED <<configured, auto, used, externalID, requestID, post, backendVars, clockVars>>

\* Mutant: the stored status is returned as the verdict.
ReceiveGetRaw(c) ==
    /\ stage[c] = "get"
    /\ reply[c] # "none"
    /\ Return(c, reply[c])
    /\ UNCHANGED <<configured, auto, used, externalID, requestID, post, backendVars, clockVars>>

\* poll's switch on one GET.  A pending request enters the select; a deadline
\* or a cancellation already there wins it, the poll timer having just started.
ReceiveGet(c) ==
    /\ stage[c] = "get"
    /\ \/ /\ reply[c] = "APPROVED"
          /\ Return(c, "approved")
       \/ /\ reply[c] = "REJECTED"
          /\ Return(c, "rejected")
       \/ /\ reply[c] = "EXPIRED"
          /\ Return(c, "expired")
       \/ /\ reply[c] = "PENDING"
          /\ stage' = [stage EXCEPT ![c] = IF c \in late \cup gone THEN "overdue" ELSE "select"]
          /\ reply' = [reply EXCEPT ![c] = "none"]
          /\ UNCHANGED verdict
       \/ /\ reply[c] \in {"WITHDRAWN", "error"}
          /\ Return(c, "unreachable")
    /\ UNCHANGED <<configured, auto, used, externalID, requestID, post, backendVars, clockVars>>

\* The poll interval elapsed first.
Tick(c) ==
    /\ stage[c] = "select"
    /\ stage' = [stage EXCEPT ![c] = "get"]
    /\ UNCHANGED <<configured, verdict, auto, used, externalID, requestID, post, reply,
                   backendVars, clockVars>>

\* Mutant: giving up is reported as the backend's expiry.
GiveUpAsExpired(c) ==
    /\ stage[c] \in {"select", "overdue"}
    /\ c \in late \cup gone
    /\ Return(c, "expired")
    /\ UNCHANGED <<configured, auto, used, externalID, requestID, post, backendVars, clockVars>>

\* Mutant: poll has no deadline of its own.
GiveUpOnCallerOnly(c) ==
    /\ stage[c] \in {"select", "overdue"}
    /\ c \in gone
    /\ Return(c, "timeout")
    /\ UNCHANGED <<configured, auto, used, externalID, requestID, post, backendVars, clockVars>>

\* ctx.Done or the deadline ended the select.
GiveUp(c) ==
    /\ stage[c] \in {"select", "overdue"}
    /\ c \in late \cup gone
    /\ Return(c, "timeout")
    /\ UNCHANGED <<configured, auto, used, externalID, requestID, post, backendVars, clockVars>>

\* Decision.Consume by the caller; later attempts fail and change nothing.
Consume(c) ==
    /\ verdict[c] = "approved"
    /\ c \notin used
    /\ used' = used \cup {c}
    /\ UNCHANGED <<configured, stage, verdict, auto, externalID, requestID, post, reply,
                   backendVars, clockVars>>

-----------------------------------------------------------------------------
\* PocketAide and the world (external)

Deliver(c, r) ==
    reply' = IF stage[c] \in {"create", "get"} THEN [reply EXCEPT ![c] = r] ELSE reply

\* POST /api/external/approvals.  It may be handled after the client has given
\* up on it, and the answer to a created row may be spoiled on the way back.
BackendCreate(c) ==
    /\ post[c] = "sent"
    /\ post' = [post EXCEPT ![c] = "handled"]
    /\ \/ /\ rows[externalID[c]].of # NoCall
          /\ Deliver(c, "conflict")
          /\ UNCHANGED rows
       \/ /\ rows[externalID[c]].of = NoCall
          /\ \E s \in {"PENDING", "APPROVED", "REJECTED"} :
                /\ rows' = [rows EXCEPT ![externalID[c]] =
                       [of |-> c, status |-> s,
                        by |-> IF s = "PENDING" THEN "nobody" ELSE "auto"]]
                /\ Deliver(c, s) \/ Deliver(c, "error")
       \/ /\ Deliver(c, "error")
          /\ UNCHANGED rows
    /\ UNCHANGED <<configured, clientVars, expired, clockVars>>

\* GET /api/external/approvals/{id}: an unexpired row's stored status.
BackendGet(c) ==
    LET r == rows[requestID[c]]
        seen == IF r.status = "PENDING" /\ requestID[c] \in expired THEN "EXPIRED" ELSE r.status
    IN  /\ stage[c] = "get"
        /\ reply[c] = "none"
        /\ \E s \in {seen, "error"} : reply' = [reply EXCEPT ![c] = s]
        /\ UNCHANGED <<configured, clientVars, post, backendVars, clockVars>>

OperatorDecides(i) ==
    /\ rows[i].of # NoCall
    /\ rows[i].status = "PENDING"
    /\ i \notin expired
    /\ \E s \in Stored \ {"PENDING"} :
           rows' = [rows EXCEPT ![i] = [of |-> rows[i].of, status |-> s, by |-> "human"]]
    /\ UNCHANGED <<configured, clientVars, post, reply, expired, clockVars>>

RowExpires(i) ==
    /\ rows[i].of # NoCall
    /\ i \notin expired
    /\ expired' = expired \cup {i}
    /\ UNCHANGED <<configured, clientVars, post, reply, rows, clockVars>>

\* The timer poll started with cfg.Timeout fires.
DeadlineFires(c) ==
    /\ stage[c] \in {"get", "select"}
    /\ c \notin late
    /\ late' = late \cup {c}
    /\ UNCHANGED <<configured, clientVars, post, reply, backendVars, gone>>

CallerGoes(c) ==
    /\ stage[c] \notin {"idle", "returned"}
    /\ c \notin gone
    /\ gone' = gone \cup {c}
    /\ UNCHANGED <<configured, clientVars, post, reply, backendVars, late>>

-----------------------------------------------------------------------------
ClientStep(c) ==
    \/ Authorize(c)
    \/ DescribeFails(c)
    \/ CreateFails(c)
    \/ SendCreate(c)
    \/ ReceiveCreate(c)
    \/ TransportFails(c)
    \/ ReceiveGet(c)
    \/ Tick(c)
    \/ GiveUp(c)
    \/ Consume(c)

Next ==
    \/ \E c \in Calls : ClientStep(c)
    \/ \E c \in Calls : BackendCreate(c) \/ BackendGet(c)
    \/ \E c \in Calls : DeadlineFires(c) \/ CallerGoes(c)
    \/ \E i \in Ids : OperatorDecides(i) \/ RowExpires(i)

Spec == Init /\ [][Next]_vars

\* The goroutine is scheduled, http.Client's 30 s timeout ends every exchange
\* and the deadline's timer fires.  The operator, the row's expiry, the caller
\* and the backend's answers are not fair: nobody has to answer.  Neither is
\* describe: what it reads, it reads from the apiserver without a timeout.
Fairness ==
    \A c \in Calls :
        /\ WF_vars(ReceiveCreate(c) \/ ReceiveGet(c) \/ TransportFails(c))
        /\ WF_vars(Tick(c) \/ GiveUp(c))
        /\ WF_vars(DeadlineFires(c))

FairSpec == Spec /\ Fairness

-----------------------------------------------------------------------------
\* Properties

\* A Decision is an APPROVED verdict on the very request this call created: not
\* on another call's row that happens to carry the same externalId, not on a
\* request that was rejected, expired or never decided (Gate.Authorize, AC5, AC7).
ApprovedIsOwnApproval ==
    \A c \in Calls :
        verdict[c] = "approved" =>
            /\ requestID[c] \in Ids
            /\ rows[requestID[c]].of = c
            /\ rows[requestID[c]].status = "APPROVED"

\* AutoApproved says exactly that no human decided, although the client infers
\* it only from which of its two exchanges carried the verdict (AC9).
AutoApprovedIsHonest ==
    \A c \in Calls :
        verdict[c] = "approved" => (c \in auto <=> rows[requestID[c]].by = "auto")

\* A call leaves at most one approval request behind, lost answers and id
\* collisions included: the operator is never asked twice for one call (AC7).
OneRequestPerCall ==
    \A i, j \in Ids :
        rows[i].of \in Calls /\ rows[i].of = rows[j].of => i = j

\* Once it has described the call and asked, Authorize returns although neither
\* the operator nor the backend has to answer: create and get are cut by the HTTP
\* timeout, the poll by its deadline (Client.poll).
EveryAuthorizeReturns ==
    \A c \in Calls :
        stage[c] \in {"create", "get", "select", "overdue"} ~> stage[c] = "returned"

\* The client implements the contract the dispatcher is built on.
Contract == INSTANCE GateContract WITH
    answer <- [c \in Calls |->
                  CASE stage[c] = "idle" -> "none"
                    [] stage[c] = "returned" -> verdict[c]
                    [] OTHER -> "asking"],
    granted <- {c \in Calls : \E i \in Ids : rows[i].of = c /\ rows[i].status = "APPROVED"},
    spent <- used

\* Authorize answers each call once, approves only what the backend granted, and
\* a call it reports rejected, expired, unconfigured or undescribable is never
\* granted afterwards, while a timed-out or unreachable one may be.
ImplementsContract == Contract!GateSpec

=============================================================================

--------------------------- MODULE Authentication ---------------------------
(***************************************************************************)
(* The /mcp gate (internal/auth): RequireBearer, the two verifiers behind  *)
(* it and their key caches.  Each verifier holds the RSA keys its issuer   *)
(* published when it last looked; a kid it does not hold makes it fetch    *)
(* the key set, replace the cache and look again.  Only the two lookups    *)
(* and the replacement are under the lock: other requests fetch and store  *)
(* in between, and the issuer rotates its keys at any time.  A kid names   *)
(* one key of one issuer; both issuers may use the same kids.              *)
(***************************************************************************)
EXTENDS Naturals

CONSTANTS
    Requests,      \* bearer checks, each in its own goroutine
    ToolCalls,     \* the requests whose body, if it arrives, is a tools/call
    Kids,          \* key ids
    MaxRotations   \* the issuers change their key sets this often

ASSUME MaxRotationsAssumption == MaxRotations \in Nat
ASSUME ToolCallsAssumption == ToolCalls \subseteq Requests

Issuers == {"oauth", "github"}

\* What a bearer may be: refused before any key is asked for (no token, a
\* malformed one, an algorithm other than RS256, no kid), a configured API key,
\* or an RS256 JWT with the issuer it claims, the kid of its header and whose
\* signature makes it sound: "nobody" when the signature, the audience, the
\* expiry or, for GitHub, the repository's grants would refuse it anywhere.
Jwt == [kind : {"jwt"}, iss : Issuers, kid : Kids, signer : Issuers \cup {"nobody"}]
Tokens == {[kind |-> "none"], [kind |-> "api_key"]} \cup Jwt

VARIABLES
    configured,  \* the verifiers FromEnv built
    published,   \* [Issuers -> SUBSET Kids]: each configured issuer's key set
    rotations,   \* how often a key set has changed
    cache,       \* [Issuers -> SUBSET Kids]: the keys each verifier holds
    stage,       \* where each check is
    token,       \* what it was presented
    fetched,     \* the key set its own fetch returned
    verdict,     \* "none", "refused" or the principal's method
    recorded,    \* refused tool calls the event log has a record of
    ever,        \* history: keys each issuer has ever published
    steady,      \* history: checks whose key has been published all along
    failed,      \* history: checks whose fetch failed
    overtaken    \* history: checks whose verifier stored another's answer after theirs

issuerVars == <<published, rotations, ever>>
checkVars == <<stage, token, fetched, verdict, recorded>>
historyVars == <<steady, failed, overtaken>>
vars == <<configured, cache, issuerVars, checkVars, historyVars>>

NoToken == [kind |-> "none"]

\* FromEnv fetches the keys of every verifier it configures, or does not start.
\* The keys of an issuer that has no verifier here are never asked for and are
\* left out.
Init ==
    /\ configured \in SUBSET Issuers
    /\ published \in [Issuers -> SUBSET Kids]
    /\ \A i \in Issuers : published[i] # {} <=> i \in configured
    /\ rotations = 0
    /\ cache = published
    /\ stage = [r \in Requests |-> "idle"]
    /\ token = [r \in Requests |-> NoToken]
    /\ fetched = [r \in Requests |-> {}]
    /\ verdict = [r \in Requests |-> "none"]
    /\ recorded = {}
    /\ ever = published
    /\ steady = {}
    /\ failed = {}
    /\ overtaken = {}

-----------------------------------------------------------------------------
\* RequireBearer's choice, by the issuer an unverified token claims.
Verifier(t) ==
    IF t.iss = "github" /\ "github" \in configured THEN "github"
    ELSE IF "oauth" \in configured THEN "oauth" ELSE "nobody"

Method(v) == IF v = "github" THEN "github_oidc" ELSE "jwt"

\* The request goes on to the dispatcher with its principal, or enters
\* unauthorized, which answers only once the body has been read.
Finish(r, v) ==
    /\ stage' = [stage EXCEPT ![r] = IF v = "refused" THEN "refusing" ELSE "done"]
    /\ verdict' = [verdict EXCEPT ![r] = v]
    /\ UNCHANGED recorded

\* Mutant: recordRefusal does not look at the error of the body's read.
AnswerRecordsBroken(r) ==
    /\ stage[r] = "refusing"
    /\ \E s \in {"done", "gone"} : stage' = [stage EXCEPT ![r] = s]
    /\ recorded' = IF r \in ToolCalls THEN recorded \cup {r} ELSE recorded
    /\ UNCHANGED <<configured, cache, issuerVars, token, fetched, verdict, historyVars>>

\* recordRefusal reads the body, which arrives as slowly as its client likes
\* (the server sets no read timeout), and records a tool call; then the 401 is
\* written.  A body that breaks off leaves no record, and nobody to answer.
Answer(r) ==
    /\ stage[r] = "refusing"
    /\ \/ /\ stage' = [stage EXCEPT ![r] = "done"]
          /\ recorded' = IF r \in ToolCalls THEN recorded \cup {r} ELSE recorded
       \/ /\ stage' = [stage EXCEPT ![r] = "gone"]
          /\ UNCHANGED recorded
    /\ UNCHANGED <<configured, cache, issuerVars, token, fetched, verdict, historyVars>>

\* Mutant: the verifier does not check the issuer's claim.
JudgeAnyIssuer(r, v) ==
    LET t == token[r]
    IN  Finish(r, IF t.signer = v THEN Method(v) ELSE "refused")

\* ParseWithClaims once the key is known.  The key is v's: a signature of the
\* other issuer under the same kid does not verify.
Judge(r, v) ==
    LET t == token[r]
    IN  Finish(r, IF t.signer = v /\ t.iss = v THEN Method(v) ELSE "refused")

\* A request arrives.  API keys are matched first; a JWT that no configured
\* verifier would take is refused before any key is looked up.
Present(r) ==
    /\ stage[r] = "idle"
    /\ \E t \in Tokens :
          /\ token' = [token EXCEPT ![r] = t]
          /\ \/ /\ t.kind = "none"
                /\ Finish(r, "refused")
             \/ /\ t.kind = "api_key"
                /\ Finish(r, "api_key")
             \/ /\ t.kind = "jwt"
                /\ Verifier(t) = "nobody"
                /\ Finish(r, "refused")
             \/ /\ t.kind = "jwt"
                /\ Verifier(t) # "nobody"
                /\ stage' = [stage EXCEPT ![r] = "lookup"]
                /\ UNCHANGED <<verdict, recorded>>
          /\ steady' = IF t.kind = "jwt" /\ t.signer \in Issuers /\ t.kid \in published[t.signer]
                       THEN steady \cup {r} ELSE steady
    /\ UNCHANGED <<configured, cache, issuerVars, fetched, failed, overtaken>>

\* keyForKid's first lookup.
Lookup(r) ==
    LET v == Verifier(token[r])
    IN  /\ stage[r] = "lookup"
        /\ \/ /\ token[r].kid \in cache[v]
              /\ Judge(r, v)
           \/ /\ token[r].kid \notin cache[v]
              /\ stage' = [stage EXCEPT ![r] = "fetch"]
              /\ UNCHANGED <<verdict, recorded>>
        /\ UNCHANGED <<configured, cache, issuerVars, token, fetched, historyVars>>

\* Mutant: a key set without a usable key is taken as it is.
FetchAnswersAnything(r) ==
    /\ stage[r] = "fetch"
    /\ fetched' = [fetched EXCEPT ![r] = published[Verifier(token[r])]]
    /\ stage' = [stage EXCEPT ![r] = "store"]
    /\ UNCHANGED <<configured, cache, issuerVars, token, verdict, recorded, historyVars>>

\* fetchRSAKeys: the issuer answers with the keys it publishes at that moment,
\* and they are usable.
FetchAnswers(r) ==
    LET keys == published[Verifier(token[r])]
    IN  /\ stage[r] = "fetch"
        /\ keys # {}
        /\ fetched' = [fetched EXCEPT ![r] = keys]
        /\ stage' = [stage EXCEPT ![r] = "store"]
        /\ UNCHANGED <<configured, cache, issuerVars, token, verdict, recorded, historyVars>>

\* Mutant: the client has no timeout; only an empty key set ends a fetch.
FetchFailsOnEmpty(r) ==
    /\ stage[r] = "fetch"
    /\ published[Verifier(token[r])] = {}
    /\ Finish(r, "refused")
    /\ failed' = failed \cup {r}
    /\ UNCHANGED <<configured, cache, issuerVars, token, fetched, steady, overtaken>>

\* The fetch fails: no answer within the client's timeout, another status, a
\* body that does not decode, no usable RSA key in it.
FetchFails(r) ==
    /\ stage[r] = "fetch"
    /\ Finish(r, "refused")
    /\ failed' = failed \cup {r}
    /\ UNCHANGED <<configured, cache, issuerVars, token, fetched, steady, overtaken>>

\* rsaPublicKey copies the exponent into eight bytes and panics on a longer one;
\* net/http closes the connection, without a verdict, an answer or a record.
FetchPanics(r) ==
    /\ stage[r] = "fetch"
    /\ stage' = [stage EXCEPT ![r] = "gone"]
    /\ UNCHANGED <<configured, cache, issuerVars, token, fetched, verdict, recorded, historyVars>>

\* refreshKeys replaces the whole map under the write lock.
Store(r) ==
    LET v == Verifier(token[r])
    IN  /\ stage[r] = "store"
        /\ cache' = [cache EXCEPT ![v] = fetched[r]]
        /\ stage' = [stage EXCEPT ![r] = "relookup"]
        /\ overtaken' = overtaken \cup
              {s \in Requests : stage[s] = "relookup" /\ Verifier(token[s]) = v}
        /\ UNCHANGED <<configured, issuerVars, token, fetched, verdict, recorded, steady, failed>>

\* Mutant: keyForKid gives up after the refresh.
RelookupGivesUp(r) ==
    /\ stage[r] = "relookup"
    /\ Finish(r, "refused")
    /\ UNCHANGED <<configured, cache, issuerVars, token, fetched, historyVars>>

\* keyForKid's second lookup, in whatever the cache holds by then.
Relookup(r) ==
    LET v == Verifier(token[r])
    IN  /\ stage[r] = "relookup"
        /\ \/ /\ token[r].kid \in cache[v]
              /\ Judge(r, v)
           \/ /\ token[r].kid \notin cache[v]
              /\ Finish(r, "refused")
        /\ UNCHANGED <<configured, cache, issuerVars, token, fetched, historyVars>>

-----------------------------------------------------------------------------
\* An issuer changes its key set (external).
Rotate(i) ==
    /\ rotations < MaxRotations
    /\ rotations' = rotations + 1
    /\ \E S \in SUBSET Kids :
          /\ published' = [published EXCEPT ![i] = S]
          /\ ever' = [ever EXCEPT ![i] = @ \cup S]
          /\ steady' = {r \in steady : token[r].signer = i => token[r].kid \in S}
    /\ UNCHANGED <<configured, cache, checkVars, failed, overtaken>>

CheckStep(r) ==
    \/ Present(r)
    \/ Lookup(r)
    \/ FetchAnswers(r)
    \/ FetchFails(r)
    \/ FetchPanics(r)
    \/ Store(r)
    \/ Relookup(r)

Next ==
    \/ \E r \in Requests : CheckStep(r)
    \/ \E r \in Requests : Answer(r)
    \/ \E i \in configured : Rotate(i)

Spec == Init /\ [][Next]_vars

\* The goroutine is scheduled and the HTTP client's 10 s timeout ends a fetch;
\* the issuer need not answer, no request need arrive, and no client need send
\* the body that Answer waits for.
Fairness ==
    \A r \in Requests :
        /\ WF_vars(Lookup(r) \/ Store(r) \/ Relookup(r))
        /\ WF_vars(FetchFails(r))

FairSpec == Spec /\ Fairness

-----------------------------------------------------------------------------
\* Properties

\* Types; and a tool call has a record of its refusal here exactly when the gate
\* ended it and its body was read: what is let through is recorded by the
\* dispatcher (recordRefusal).
AuthTypeOK ==
    /\ configured \subseteq Issuers
    /\ published \in [Issuers -> SUBSET Kids]
    /\ rotations \in 0 .. MaxRotations
    /\ cache \in [Issuers -> SUBSET Kids]
    /\ stage \in [Requests -> {"idle", "lookup", "fetch", "store", "relookup",
                             "refusing", "done", "gone"}]
    /\ token \in [Requests -> Tokens]
    /\ fetched \in [Requests -> SUBSET Kids]
    /\ verdict \in [Requests -> {"none", "refused", "api_key", "jwt", "github_oidc"}]
    /\ recorded = {r \in ToolCalls : verdict[r] = "refused" /\ stage[r] = "done"}
    /\ ever \in [Issuers -> SUBSET Kids]
    /\ steady \subseteq Requests
    /\ failed \subseteq Requests
    /\ overtaken \subseteq Requests

\* An accepted JWT was signed with a key that its own issuer has published, and
\* claims that issuer: no cache ever vouches for a key from elsewhere, and a
\* token whose issuer has no verifier here is not accepted by the other one's
\* (AC1, AC9 of prd-platform-auth-safety).
AcceptedByItsIssuer ==
    \A r \in Requests :
        verdict[r] \in {"jwt", "github_oidc"} =>
            /\ token[r].iss \in configured
            /\ verdict[r] = Method(token[r].iss)
            /\ token[r].signer = token[r].iss
            /\ token[r].kid \in ever[token[r].iss]

\* Refreshing never costs a verifier the keys it has: whatever the issuer's
\* endpoint answers, and whoever stores last, it holds a usable key
\* (fetchRSAKeys, refreshKeys).
CacheIsNeverEmptied == \A i \in configured : cache[i] # {}

\* A sound token whose key has been published since it was presented is refused
\* only if its own fetch failed, or if another request's answer, taken earlier,
\* was stored between its own and its second lookup.
SoundTokenRefusedOnlyByRace ==
    \A r \in Requests :
        LET t == token[r]
        IN  /\ verdict[r] = "refused"
            /\ t.kind = "jwt"
            /\ t.iss = t.signer /\ t.iss \in configured
            /\ r \in steady
            => r \in failed \cup overtaken

\* Every check comes to its verdict, or ends in rsaPublicKey's panic, although no
\* issuer has to answer and whatever the other checks fetch and store (keyForKid).
\* The 401 of a refusal is not promised: it waits for the body.
EveryCheckIsDecided ==
    \A r \in Requests : stage[r] # "idle" ~> (verdict[r] # "none" \/ stage[r] = "gone")

=============================================================================

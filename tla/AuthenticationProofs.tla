------------------------ MODULE AuthenticationProofs ------------------------
(***************************************************************************)
(* Proofs about Authentication for any number of concurrent checks, any    *)
(* key ids and any number of rotations.                                    *)
(*                                                                         *)
(* None of the three safety properties is inductive: each speaks of the    *)
(* verdict, and the verdict rests on a cache that some other check may     *)
(* have filled.  KeysInv follows the keys from the issuer through a        *)
(* fetch's answer into the cache; SteadyInv follows the one key a sound    *)
(* token needs through the same places.                                    *)
(***************************************************************************)
EXTENDS Authentication, TLAPS

\* Nothing is decided any more: unauthorized has only to answer, or it is over.
Over == {"refusing", "done", "gone"}
Stages == {"idle", "lookup", "fetch", "store", "relookup"} \cup Over
Verdicts == {"none", "refused", "api_key", "jwt", "github_oidc"}

\* A check has no verdict before it is over, and one that looks for a key
\* has a JWT and the verifier RequireBearer chose for it.
StageInv(r) ==
    /\ stage[r] \notin Over => verdict[r] = "none"
    /\ stage[r] = "refusing" => verdict[r] = "refused"
    /\ stage[r] \in {"lookup", "fetch", "store", "relookup"} =>
          token[r] \in Jwt /\ Verifier(token[r]) \in configured

\* Every key somebody holds was published by the issuer it is held for.
KeysInv ==
    /\ \A i \in Issuers : published[i] \subseteq ever[i] /\ cache[i] \subseteq ever[i]
    /\ \A r \in Requests :
          stage[r] = "store" =>
              fetched[r] # {} /\ fetched[r] \subseteq ever[Verifier(token[r])]

\* A sound token: signed by the issuer it claims, which has a verifier here.
Sound(t) == t \in Jwt /\ t.iss = t.signer /\ t.iss \in configured

\* Where the key of a steady check is, and what has gone wrong if it is missing.
SteadyInv(r) ==
    r \in steady /\ Sound(token[r]) =>
        /\ token[r].kid \in published[token[r].iss]
        /\ stage[r] = "store" => token[r].kid \in fetched[r]
        /\ stage[r] = "relookup" => token[r].kid \in cache[token[r].iss] \/ r \in overtaken
        /\ verdict[r] = "refused" => r \in failed \cup overtaken

\* A steady check was presented a JWT.
SteadyType == \A r \in steady : token[r] \in Jwt /\ stage[r] # "idle"

Inv ==
    /\ AuthTypeOK
    /\ \A r \in Requests : StageInv(r)
    /\ KeysInv
    /\ AcceptedByItsIssuer
    /\ CacheIsNeverEmptied
    /\ SteadyType
    /\ \A r \in Requests : SteadyInv(r)

-----------------------------------------------------------------------------
\* Type correctness.

\* RequireBearer picks an issuer it has a verifier for, or nobody.
LEMMA VerifierType ==
    ASSUME NEW t
    PROVE  /\ Verifier(t) \in Issuers \cup {"nobody"}
           /\ Verifier(t) # "nobody" => Verifier(t) \in configured
BY DEF Verifier, Issuers

\* A sound token is verified by the issuer it claims.
LEMMA SoundVerifier == ASSUME NEW t, Sound(t) PROVE Verifier(t) = t.iss /\ t.iss \in Issuers
BY DEF Sound, Verifier, Jwt, Issuers

\* The tokens without a kid are not JWTs.
LEMMA TokenKinds == \A t \in Tokens : t.kind = "jwt" <=> t \in Jwt
BY DEF Tokens, Jwt

\* The end of a check: the principal goes on, or unauthorized begins.
LEMMA FinishEffect ==
    ASSUME AuthTypeOK, NEW r \in Requests, NEW v \in Verdicts, Finish(r, v), verdict[r] = "none"
    PROVE  /\ stage' \in [Requests -> Stages] /\ stage'[r] \in Over
           /\ stage'[r] = "refusing" => v = "refused"
           /\ verdict' \in [Requests -> Verdicts] /\ verdict'[r] = v
           /\ recorded' = {q \in ToolCalls : verdict'[q] = "refused" /\ stage'[q] = "done"}
           /\ \A q \in Requests \ {r} : stage'[q] = stage[q] /\ verdict'[q] = verdict[q]
<1>1. /\ stage' \in [Requests -> Stages] /\ stage'[r] \in Over
      /\ v = "refused" <=> stage'[r] = "refusing"
    BY DEF Finish, AuthTypeOK, Stages, Over
<1>2. /\ verdict' \in [Requests -> Verdicts] /\ verdict'[r] = v
      /\ \A q \in Requests \ {r} : stage'[q] = stage[q] /\ verdict'[q] = verdict[q]
    BY DEF Finish, AuthTypeOK, Verdicts
<1>3. recorded' = {q \in ToolCalls : verdict'[q] = "refused" /\ stage'[q] = "done"}
    BY <1>1, <1>2, ToolCallsAssumption DEF Finish, AuthTypeOK
<1> QED
    BY <1>1, <1>2, <1>3

\* What ParseWithClaims decides, once the key is known.
LEMMA JudgeEffect ==
    ASSUME AuthTypeOK, NEW r \in Requests, NEW v \in Issuers, Judge(r, v), token[r] \in Jwt
    PROVE  \E w \in Verdicts :
              /\ Finish(r, w)
              /\ w = IF token[r].signer = v /\ token[r].iss = v THEN Method(v) ELSE "refused"
BY DEF Judge, Method, Verdicts, Issuers

\* A verdict is given, everything the types speak of besides stays.
LEMMA TypeFinish ==
    ASSUME AuthTypeOK, NEW r \in Requests, NEW v \in Verdicts, Finish(r, v), verdict[r] = "none",
           token' \in [Requests -> Tokens], steady' \subseteq Requests, failed' \subseteq Requests,
           UNCHANGED <<configured, cache, issuerVars, fetched, overtaken>>
    PROVE  AuthTypeOK'
BY FinishEffect DEF AuthTypeOK, issuerVars, Stages, Over, Verdicts

\* Every variable has its type at the start.
LEMMA TypeInitially == Init => AuthTypeOK
BY MaxRotationsAssumption, ToolCallsAssumption DEF Init, AuthTypeOK, Tokens, NoToken, Issuers

\* Every step keeps the types, and a refused tool call is recorded in the step
\* that refuses it.
LEMMA TypeStep == Inv /\ [Next]_vars => AuthTypeOK'
<1> SUFFICES ASSUME Inv, [Next]_vars PROVE AuthTypeOK'
    OBVIOUS
<1>0. AuthTypeOK /\ \A r \in Requests : StageInv(r)
    BY DEF Inv
<1> USE DEF issuerVars, checkVars, historyVars
<1>1. ASSUME NEW r \in Requests, Present(r) PROVE AuthTypeOK'
    <2>1. PICK t \in Tokens :
              /\ token' = [token EXCEPT ![r] = t]
              /\ \/ Finish(r, "refused")
                 \/ Finish(r, "api_key")
                 \/ stage' = [stage EXCEPT ![r] = "lookup"] /\ UNCHANGED <<verdict, recorded>>
              /\ steady' = steady \cup {r} \/ steady' = steady
        BY <1>1 DEF Present
    <2>2. token' \in [Requests -> Tokens] /\ steady' \subseteq Requests /\ verdict[r] = "none"
        BY <1>0, <1>1, <2>1 DEF AuthTypeOK, StageInv, Over, Present
    <2>3. UNCHANGED <<configured, cache, issuerVars, fetched, failed, overtaken>>
        BY <1>1 DEF Present
    <2>4. CASE Finish(r, "refused") \/ Finish(r, "api_key")
        BY <1>0, <2>2, <2>3, <2>4, TypeFinish DEF Verdicts, AuthTypeOK
    <2>5. CASE stage' = [stage EXCEPT ![r] = "lookup"] /\ UNCHANGED <<verdict, recorded>>
        <3>1. stage[r] = "idle" /\ stage'[r] = "lookup" /\ \A q \in Requests \ {r} : stage'[q] = stage[q]
            BY <1>0, <1>1, <2>5 DEF Present, AuthTypeOK
        <3> QED
            BY <1>0, <2>2, <2>3, <2>5, <3>1, ToolCallsAssumption DEF AuthTypeOK
    <2> QED
        BY <2>1, <2>4, <2>5
<1>2. ASSUME NEW r \in Requests, Lookup(r) \/ Relookup(r) PROVE AuthTypeOK'
    <2>1. /\ token[r] \in Jwt /\ Verifier(token[r]) \in Issuers /\ verdict[r] = "none"
          /\ UNCHANGED <<configured, cache, issuerVars, token, fetched, historyVars>>
        BY <1>0, <1>2 DEF Lookup, Relookup, StageInv, Over, AuthTypeOK
    <2>2. CASE \E w \in Verdicts : Finish(r, w)
        BY <1>0, <2>1, <2>2, TypeFinish DEF AuthTypeOK
    <2>3. CASE stage' = [stage EXCEPT ![r] = "fetch"] /\ UNCHANGED <<verdict, recorded>>
        <3>1. stage[r] # "done" /\ stage'[r] = "fetch" /\ \A q \in Requests \ {r} : stage'[q] = stage[q]
            BY <1>0, <1>2, <2>3 DEF Lookup, Relookup, AuthTypeOK
        <3> QED
            BY <1>0, <2>1, <2>3, <3>1, ToolCallsAssumption DEF AuthTypeOK
    <2> QED
        BY <1>0, <1>2, <2>1, <2>2, <2>3, JudgeEffect DEF Lookup, Relookup, Verdicts
<1>3. ASSUME NEW r \in Requests, FetchAnswers(r) PROVE AuthTypeOK'
    <2>1. published[Verifier(token[r])] \subseteq Kids
        BY <1>0, <1>3 DEF StageInv, AuthTypeOK, FetchAnswers
    <2> QED
        BY <1>0, <1>3, <2>1, ToolCallsAssumption DEF FetchAnswers, AuthTypeOK
<1>4. ASSUME NEW r \in Requests, FetchFails(r) PROVE AuthTypeOK'
    BY <1>0, <1>4, TypeFinish DEF FetchFails, StageInv, Over, AuthTypeOK, Verdicts
<1>5. ASSUME NEW r \in Requests, Store(r) \/ FetchPanics(r) PROVE AuthTypeOK'
    <2>1. stage' \in [Requests -> Stages] /\ stage'[r] # "done" /\ stage[r] # "done"
          /\ \A q \in Requests \ {r} : stage'[q] = stage[q]
        BY <1>0, <1>5 DEF Store, FetchPanics, AuthTypeOK, Stages, Over
    <2> QED
        BY <1>0, <1>5, <2>1, ToolCallsAssumption DEF Store, FetchPanics, AuthTypeOK, Stages, Over
<1>6. ASSUME NEW i \in configured, Rotate(i) PROVE AuthTypeOK'
    <2>1. PICK S \in SUBSET Kids :
              /\ published' = [published EXCEPT ![i] = S]
              /\ ever' = [ever EXCEPT ![i] = @ \cup S]
              /\ steady' = {r \in steady : token[r].signer = i => token[r].kid \in S}
        BY <1>6 DEF Rotate
    <2>2. i \in Issuers /\ rotations' \in 0 .. MaxRotations
        BY <1>0, <1>6, MaxRotationsAssumption DEF AuthTypeOK, Rotate
    <2>3. ever' \in [Issuers -> SUBSET Kids] /\ published' \in [Issuers -> SUBSET Kids]
        BY <1>0, <2>1, <2>2 DEF AuthTypeOK
    <2> QED
        BY <1>0, <1>6, <2>1, <2>2, <2>3 DEF AuthTypeOK, Rotate
<1>7. ASSUME NEW r \in Requests, Answer(r) PROVE AuthTypeOK'
    <2>1. verdict[r] = "refused" /\ stage[r] = "refusing"
        BY <1>0, <1>7 DEF Answer, StageInv
    <2>2. /\ stage' \in [Requests -> Stages] /\ \A q \in Requests \ {r} : stage'[q] = stage[q]
          /\ \/ stage'[r] = "done" /\ recorded' = IF r \in ToolCalls THEN recorded \cup {r} ELSE recorded
             \/ stage'[r] = "gone" /\ UNCHANGED recorded
        BY <1>0, <1>7 DEF Answer, AuthTypeOK, Stages, Over
    <2>3. recorded' = {q \in ToolCalls : verdict'[q] = "refused" /\ stage'[q] = "done"}
        BY <1>0, <1>7, <2>1, <2>2, ToolCallsAssumption DEF Answer, AuthTypeOK
    <2> QED
        BY <1>0, <1>7, <2>2, <2>3 DEF Answer, AuthTypeOK, Stages, Over
<1>8. CASE UNCHANGED vars
    BY <1>0, <1>8 DEF AuthTypeOK, vars
<1> QED
    BY <1>1, <1>2, <1>3, <1>4, <1>5, <1>6, <1>7, <1>8 DEF Next, CheckStep

-----------------------------------------------------------------------------
\* The parts of the invariant, step by step.

\* What a step of one check leaves alone about the others.
OthersStay(r) ==
    \A q \in Requests \ {r} :
        stage'[q] = stage[q] /\ token'[q] = token[q] /\ fetched'[q] = fetched[q] /\ verdict'[q] = verdict[q]

\* Answering a refusal moves nothing but its own stage, from the end of the check
\* to the end of the request.
LEMMA AnswerEffect ==
    ASSUME AuthTypeOK, NEW r \in Requests, Answer(r)
    PROVE  /\ stage[r] = "refusing" /\ stage'[r] \in {"done", "gone"}
           /\ \A q \in Requests \ {r} : stage'[q] = stage[q]
           /\ UNCHANGED <<configured, cache, published, rotations, ever, token, fetched, verdict,
                          steady, failed, overtaken>>
BY DEF Answer, AuthTypeOK, issuerVars, historyVars

\* Each goroutine's step is about its own check; whatever ends it gives it a verdict.
LEMMA OwnStep ==
    ASSUME Inv, NEW r \in Requests, CheckStep(r)
    PROVE  /\ OthersStay(r)
           /\ verdict[r] = "none" /\ stage[r] \notin Over /\ stage'[r] # "idle"
           /\ UNCHANGED <<configured, issuerVars>>
           /\ stage[r] # "idle" => token' = token /\ steady' = steady
           /\ stage'[r] \notin Over => verdict'[r] = "none"
           /\ stage'[r] = "refusing" => verdict'[r] = "refused"
<1>0. AuthTypeOK /\ StageInv(r)
    BY DEF Inv
<1> USE DEF issuerVars, historyVars, OthersStay, Over
<1>f. ASSUME NEW v \in Verdicts, Finish(r, v), verdict[r] = "none"
      PROVE  /\ \A q \in Requests \ {r} : stage'[q] = stage[q] /\ verdict'[q] = verdict[q]
             /\ stage'[r] \in Over /\ (stage'[r] = "refusing" => verdict'[r] = "refused")
    BY <1>0, <1>f, FinishEffect
<1>1. CASE Present(r)
    <2>0. verdict[r] = "none"
        BY <1>0, <1>1 DEF Present, StageInv
    <2>1. \/ Finish(r, "refused")
          \/ Finish(r, "api_key")
          \/ stage' = [stage EXCEPT ![r] = "lookup"] /\ UNCHANGED <<verdict, recorded>>
        BY <1>1 DEF Present
    <2>2. /\ \A q \in Requests \ {r} : stage'[q] = stage[q] /\ verdict'[q] = verdict[q]
          /\ stage'[r] = "refusing" => verdict'[r] = "refused"
          /\ stage'[r] \in Over \/ (stage'[r] = "lookup" /\ verdict'[r] = "none")
        BY <1>0, <1>f, <2>0, <2>1 DEF Verdicts, AuthTypeOK
    <2> QED
        BY <1>0, <1>1, <2>0, <2>2 DEF Present, AuthTypeOK
<1>2. CASE Lookup(r) \/ Relookup(r)
    <2>1. /\ token[r] \in Jwt /\ Verifier(token[r]) \in Issuers /\ verdict[r] = "none"
          /\ UNCHANGED <<configured, cache, issuerVars, token, fetched, historyVars>>
        BY <1>0, <1>2 DEF Lookup, Relookup, StageInv, AuthTypeOK
    <2>2. \/ \E w \in Verdicts : Finish(r, w)
          \/ stage' = [stage EXCEPT ![r] = "fetch"] /\ UNCHANGED <<verdict, recorded>>
        BY <1>0, <1>2, <2>1, JudgeEffect DEF Lookup, Relookup, Verdicts
    <2>3. /\ \A q \in Requests \ {r} : stage'[q] = stage[q] /\ verdict'[q] = verdict[q]
          /\ stage'[r] = "refusing" => verdict'[r] = "refused"
          /\ stage'[r] \in Over \/ (stage'[r] = "fetch" /\ verdict'[r] = "none")
        BY <1>0, <1>f, <2>1, <2>2 DEF AuthTypeOK
    <2> QED
        BY <1>2, <2>1, <2>3 DEF Lookup, Relookup
<1>3. CASE FetchAnswers(r) \/ FetchPanics(r) \/ Store(r)
    BY <1>0, <1>3 DEF FetchAnswers, FetchPanics, Store, StageInv, AuthTypeOK
<1>4. CASE FetchFails(r)
    BY <1>0, <1>4, <1>f DEF FetchFails, StageInv, AuthTypeOK, Verdicts
<1> QED
    BY <1>1, <1>2, <1>3, <1>4 DEF CheckStep

\* A check that looks for a key holds a JWT and goes to a configured verifier.
LEMMA StageStep == Inv /\ [Next]_vars => \A q \in Requests : StageInv(q)'
<1> SUFFICES ASSUME Inv, [Next]_vars, NEW q \in Requests PROVE StageInv(q)'
    OBVIOUS
<1>0. AuthTypeOK /\ StageInv(q)
    BY DEF Inv
<1>f. ASSUME UNCHANGED configured, stage'[q] = stage[q], verdict'[q] = verdict[q], token'[q] = token[q]
      PROVE  StageInv(q)'
    BY <1>0, <1>f DEF StageInv, Verifier
<1>1. ASSUME NEW r \in Requests, CheckStep(r) PROVE StageInv(q)'
    <2>1. CASE r # q
        BY <1>1, <1>f, <2>1, OwnStep DEF OthersStay
    <2>2. CASE r = q /\ stage[r] = "idle"
        <3>1. Present(q)
            BY <1>1, <2>2 DEF CheckStep, Lookup, FetchAnswers, FetchFails, FetchPanics, Store, Relookup
        <3>2. PICK t \in Tokens :
                  /\ token'[q] = t
                  /\ \/ stage'[q] \in Over
                     \/ stage'[q] = "lookup" /\ t.kind = "jwt" /\ Verifier(t) # "nobody"
            BY <1>0, <3>1 DEF Present, Finish, AuthTypeOK, Over
        <3>3. /\ UNCHANGED configured /\ (stage'[q] \notin Over => verdict'[q] = "none")
              /\ stage'[q] = "refusing" => verdict'[q] = "refused"
            BY <1>1, <2>2, OwnStep
        <3>4. stage'[q] \notin Over => t \in Jwt /\ Verifier(t) \in configured
            BY <3>2, TokenKinds, VerifierType
        <3> QED
            BY <3>2, <3>3, <3>4 DEF StageInv, Verifier, Over
    <2>3. CASE r = q /\ stage[r] # "idle"
        <3>1. /\ UNCHANGED <<configured, token>> /\ stage[q] \notin Over
              /\ stage'[q] \notin Over => verdict'[q] = "none"
              /\ stage'[q] = "refusing" => verdict'[q] = "refused"
            BY <1>1, <2>3, OwnStep
        <3> QED
            BY <1>0, <2>3, <3>1 DEF StageInv, Verifier, AuthTypeOK, Over
    <2> QED
        BY <2>1, <2>2, <2>3
<1>2. ASSUME NEW i \in configured, Rotate(i) PROVE StageInv(q)'
    BY <1>2, <1>f DEF Rotate, checkVars
<1>3. CASE UNCHANGED vars
    BY <1>3, <1>f DEF vars, checkVars
<1>4. ASSUME NEW r \in Requests, Answer(r) PROVE StageInv(q)'
    BY <1>0, <1>4, <1>f, AnswerEffect DEF StageInv, Over
<1> QED
    BY <1>1, <1>2, <1>3, <1>4 DEF Next

\* fetchRSAKeys takes what the issuer publishes, and no empty set; refreshKeys
\* puts it in the cache of that issuer's verifier and nowhere else.
LEMMA KeysStep == Inv /\ [Next]_vars => (KeysInv /\ CacheIsNeverEmptied)'
<1> SUFFICES ASSUME Inv, [Next]_vars PROVE (KeysInv /\ CacheIsNeverEmptied)'
    OBVIOUS
<1>0. AuthTypeOK /\ KeysInv /\ CacheIsNeverEmptied /\ \A r \in Requests : StageInv(r)
    BY DEF Inv
\* A step that brings no key anywhere.
<1>f. ASSUME UNCHANGED <<configured, published, ever, cache, fetched>>,
             \A q \in Requests : stage'[q] = "store" => stage[q] = "store" /\ token'[q] = token[q]
      PROVE  (KeysInv /\ CacheIsNeverEmptied)'
    BY <1>0, <1>f DEF KeysInv, CacheIsNeverEmptied, Verifier
<1> USE DEF issuerVars, checkVars, historyVars
<1>1. ASSUME NEW r \in Requests, Present(r) \/ Lookup(r) \/ FetchFails(r) \/ FetchPanics(r) \/ Relookup(r)
      PROVE  (KeysInv /\ CacheIsNeverEmptied)'
    <2>1. OthersStay(r) /\ (stage[r] # "idle" => token' = token)
        BY <1>1, OwnStep DEF CheckStep
    <2>2. stage'[r] # "store" /\ UNCHANGED <<configured, published, ever, cache, fetched>>
        BY <1>0, <1>1 DEF Present, Lookup, FetchFails, FetchPanics, Relookup, Finish, Judge, AuthTypeOK
    <2> QED
        BY <1>f, <2>1, <2>2 DEF OthersStay
<1>2. ASSUME NEW r \in Requests, FetchAnswers(r) PROVE (KeysInv /\ CacheIsNeverEmptied)'
    <2>1. /\ Verifier(token[r]) \in Issuers
          /\ fetched' = [fetched EXCEPT ![r] = published[Verifier(token[r])]]
          /\ published[Verifier(token[r])] # {}
          /\ UNCHANGED <<configured, token, published, ever, cache>>
        BY <1>0, <1>2 DEF FetchAnswers, StageInv, AuthTypeOK
    <2>2. ASSUME NEW q \in Requests, stage'[q] = "store"
          PROVE  fetched'[q] # {} /\ fetched'[q] \subseteq ever[Verifier(token[q])]
        BY <1>0, <1>2, <2>1, <2>2 DEF FetchAnswers, KeysInv, AuthTypeOK
    <2> QED
        BY <1>0, <2>1, <2>2 DEF KeysInv, CacheIsNeverEmptied, Verifier
<1>3. ASSUME NEW r \in Requests, Store(r) PROVE (KeysInv /\ CacheIsNeverEmptied)'
    <2>1. /\ Verifier(token[r]) \in Issuers
          /\ cache' = [cache EXCEPT ![Verifier(token[r])] = fetched[r]]
          /\ fetched[r] # {} /\ fetched[r] \subseteq ever[Verifier(token[r])]
          /\ UNCHANGED <<configured, token, fetched, published, ever>>
        BY <1>0, <1>3 DEF Store, StageInv, AuthTypeOK, KeysInv
    <2>2. \A i \in Issuers : cache'[i] \subseteq ever[i] /\ (cache[i] # {} => cache'[i] # {})
        BY <1>0, <2>1 DEF KeysInv, AuthTypeOK
    <2>3. \A q \in Requests : stage'[q] = "store" => stage[q] = "store"
        BY <1>0, <1>3 DEF Store, AuthTypeOK
    <2> QED
        BY <1>0, <2>1, <2>2, <2>3 DEF KeysInv, CacheIsNeverEmptied, Verifier, AuthTypeOK
<1>4. ASSUME NEW i \in configured, Rotate(i) PROVE (KeysInv /\ CacheIsNeverEmptied)'
    <2>1. PICK S \in SUBSET Kids :
              published' = [published EXCEPT ![i] = S] /\ ever' = [ever EXCEPT ![i] = @ \cup S]
        BY <1>4 DEF Rotate
    <2>2. UNCHANGED <<configured, cache, stage, token, fetched>>
        BY <1>4 DEF Rotate
    <2>3. \A j \in Issuers : ever[j] \subseteq ever'[j] /\ published'[j] \subseteq ever'[j]
        BY <1>0, <2>1 DEF KeysInv, AuthTypeOK
    <2>4. \A q \in Requests : stage[q] = "store" => Verifier(token[q]) \in Issuers
        BY <1>0 DEF StageInv, AuthTypeOK
    <2> QED
        BY <1>0, <2>2, <2>3, <2>4 DEF KeysInv, CacheIsNeverEmptied, Verifier
<1>5. CASE UNCHANGED vars
    BY <1>5, <1>f DEF vars
<1>6. ASSUME NEW r \in Requests, Answer(r) PROVE (KeysInv /\ CacheIsNeverEmptied)'
    BY <1>0, <1>6, <1>f, AnswerEffect
<1> QED
    BY <1>1, <1>2, <1>3, <1>4, <1>5, <1>6 DEF Next, CheckStep

\* Every key an issuer ever published stays on record.
LEMMA EverGrows == Inv /\ [Next]_vars => UNCHANGED configured /\ \A i \in Issuers : ever[i] \subseteq ever'[i]
<1> SUFFICES ASSUME Inv, [Next]_vars PROVE UNCHANGED configured /\ \A i \in Issuers : ever[i] \subseteq ever'[i]
    OBVIOUS
<1>1. ASSUME NEW r \in Requests, CheckStep(r) PROVE UNCHANGED <<configured, ever>>
    BY <1>1, OwnStep DEF issuerVars
<1>2. ASSUME NEW i \in configured, Rotate(i)
      PROVE  UNCHANGED configured /\ \A j \in Issuers : ever[j] \subseteq ever'[j]
    BY <1>2 DEF Rotate, Inv, AuthTypeOK
<1>3. CASE UNCHANGED vars
    BY <1>3 DEF vars, issuerVars
<1>4. ASSUME NEW r \in Requests, Answer(r) PROVE UNCHANGED <<configured, ever>>
    BY <1>4, AnswerEffect DEF Inv
<1> QED
    BY <1>1, <1>2, <1>3, <1>4 DEF Next

\* A JWT is accepted in a lookup that finds its kid, and only by its own issuer.
LEMMA AcceptedStep == Inv /\ [Next]_vars => AcceptedByItsIssuer'
<1> SUFFICES ASSUME Inv, [Next]_vars PROVE AcceptedByItsIssuer'
    OBVIOUS
<1>0. AuthTypeOK /\ KeysInv /\ AcceptedByItsIssuer /\ \A r \in Requests : StageInv(r)
    BY DEF Inv
<1> DEFINE Accepted(q) ==
        verdict[q] \in {"jwt", "github_oidc"} =>
            /\ token[q].iss \in configured
            /\ verdict[q] = Method(token[q].iss)
            /\ token[q].signer = token[q].iss
            /\ token[q].kid \in ever[token[q].iss]
<1> SUFFICES ASSUME NEW q \in Requests PROVE Accepted(q)'
    BY DEF AcceptedByItsIssuer
<1>g. UNCHANGED configured /\ (\A i \in Issuers : ever[i] \subseteq ever'[i]) /\ configured \subseteq Issuers
    BY <1>0, EverGrows DEF AuthTypeOK
<1>f. ASSUME token'[q] = token[q], verdict'[q] = verdict[q] PROVE Accepted(q)'
    BY <1>0, <1>f, <1>g DEF AcceptedByItsIssuer, Method
<1>n. ASSUME verdict'[q] \in {"none", "refused", "api_key"} PROVE Accepted(q)'
    BY <1>n
<1>1. ASSUME NEW r \in Requests, CheckStep(r), r # q PROVE Accepted(q)'
    BY <1>1, <1>f, OwnStep DEF OthersStay
<1>2. CASE Present(q)
    <2>1. verdict[q] = "none"
        BY <1>0, <1>2 DEF Present, StageInv, Over
    <2>2. Finish(q, "refused") \/ Finish(q, "api_key") \/ UNCHANGED verdict
        BY <1>2 DEF Present
    <2>3. verdict'[q] \in {"none", "refused", "api_key"}
        BY <1>0, <2>1, <2>2 DEF Finish, AuthTypeOK
    <2> QED
        BY <1>n, <2>3
<1>3. CASE Lookup(q) \/ Relookup(q)
    <2> DEFINE v == Verifier(token[q])
    <2>1. /\ token[q] \in Jwt /\ v \in configured /\ verdict[q] = "none" /\ v \in Issuers
          /\ UNCHANGED <<token, ever>>
        BY <1>0, <1>3 DEF Lookup, Relookup, StageInv, Over, AuthTypeOK, issuerVars
    <2>2. CASE token[q].kid \in cache[v] /\ Judge(q, v)
        <3>1. token[q].kid \in ever[v]
            BY <1>0, <2>1, <2>2 DEF KeysInv
        <3>2. verdict'[q] = IF token[q].signer = v /\ token[q].iss = v THEN Method(v) ELSE "refused"
            BY <1>0, <2>2 DEF Judge, Finish, AuthTypeOK
        <3> QED
            BY <1>g, <1>n, <2>1, <3>1, <3>2 DEF Method
    <2>3. CASE Finish(q, "refused") \/ UNCHANGED verdict
        <3>1. verdict'[q] \in {"none", "refused"}
            BY <1>0, <2>1, <2>3 DEF Finish, AuthTypeOK
        <3> QED
            BY <1>n, <3>1
    <2> QED
        BY <1>3, <2>2, <2>3 DEF Lookup, Relookup
<1>4. CASE FetchAnswers(q) \/ FetchPanics(q) \/ Store(q)
    BY <1>4, <1>f DEF FetchAnswers, FetchPanics, Store
<1>5. CASE FetchFails(q)
    <2>1. verdict'[q] = "refused"
        BY <1>0, <1>5 DEF FetchFails, Finish, AuthTypeOK
    <2> QED
        BY <1>n, <2>1
<1>6. ASSUME NEW i \in configured, Rotate(i) PROVE Accepted(q)'
    BY <1>6, <1>f DEF Rotate, checkVars
<1>7. CASE UNCHANGED vars
    BY <1>7, <1>f DEF vars, checkVars
<1>8. ASSUME NEW r \in Requests, Answer(r) PROVE Accepted(q)'
    BY <1>0, <1>8, <1>f, AnswerEffect
<1> QED
    BY <1>1, <1>2, <1>3, <1>4, <1>5, <1>6, <1>7, <1>8 DEF Next, CheckStep

\* Only a check that was presented a JWT counts as steady.
LEMMA SteadyTypeStep == Inv /\ [Next]_vars => SteadyType'
<1> SUFFICES ASSUME Inv, [Next]_vars, NEW q \in steady' PROVE token'[q] \in Jwt /\ stage'[q] # "idle"
    BY DEF SteadyType
<1>0. AuthTypeOK /\ SteadyType
    BY DEF Inv
<1>1. ASSUME NEW r \in Requests, CheckStep(r) PROVE token'[q] \in Jwt /\ stage'[q] # "idle"
    <2>1. CASE Present(r)
        <3>1. PICK t \in Tokens :
                  /\ token' = [token EXCEPT ![r] = t]
                  /\ steady' = IF t.kind = "jwt" /\ t.signer \in Issuers /\ t.kid \in published[t.signer]
                               THEN steady \cup {r} ELSE steady
            BY <2>1 DEF Present
        <3>2. OthersStay(r) /\ stage'[r] # "idle" /\ stage[r] = "idle"
            BY <1>1, <2>1, OwnStep DEF Present
        <3>3. CASE q = r
            <4>1. r \notin steady
                BY <1>0, <3>2 DEF SteadyType
            <4> QED
                BY <1>0, <3>1, <3>2, <3>3, <4>1, TokenKinds DEF AuthTypeOK
        <3>4. CASE q # r
            <4>1. q \in steady /\ q \in Requests
                BY <1>0, <3>1, <3>4 DEF AuthTypeOK
            <4> QED
                BY <1>0, <3>2, <3>4, <4>1 DEF SteadyType, OthersStay
        <3> QED
            BY <3>3, <3>4
    <2>2. CASE stage[r] # "idle"
        <3>1. UNCHANGED <<token, steady>> /\ OthersStay(r) /\ stage'[r] # "idle"
            BY <1>1, <2>2, OwnStep
        <3>2. q \in Requests
            BY <1>0, <3>1 DEF AuthTypeOK
        <3> QED
            BY <1>0, <3>1, <3>2 DEF SteadyType, OthersStay
    <2> QED
        BY <1>1, <2>1, <2>2 DEF CheckStep, Lookup, FetchAnswers, FetchFails, FetchPanics, Store, Relookup
<1>2. ASSUME NEW i \in configured, Rotate(i) PROVE token'[q] \in Jwt /\ stage'[q] # "idle"
    BY <1>0, <1>2 DEF Rotate, checkVars, SteadyType
<1>3. CASE UNCHANGED vars
    BY <1>0, <1>3 DEF vars, checkVars, historyVars, SteadyType
<1>4. ASSUME NEW r \in Requests, Answer(r) PROVE token'[q] \in Jwt /\ stage'[q] # "idle"
    <2>1. q \in steady /\ q \in Requests
        BY <1>0, <1>4, AnswerEffect DEF AuthTypeOK
    <2> QED
        BY <1>0, <1>4, <2>1, AnswerEffect DEF SteadyType
<1> QED
    BY <1>1, <1>2, <1>3, <1>4 DEF Next

\* The key of a steady, sound token travels with its check: published, in the
\* fetch's answer, in the cache - unless another request's store came between.
LEMMA SteadyStep == Inv /\ [Next]_vars => \A q \in Requests : SteadyInv(q)'
<1> SUFFICES ASSUME Inv, [Next]_vars, NEW q \in Requests, (q \in steady /\ Sound(token[q]))'
             PROVE  /\ token'[q].kid \in published'[token'[q].iss]
                    /\ stage'[q] = "store" => token'[q].kid \in fetched'[q]
                    /\ stage'[q] = "relookup" =>
                          token'[q].kid \in cache'[token'[q].iss] \/ q \in overtaken'
                    /\ verdict'[q] = "refused" => q \in failed' \cup overtaken'
    BY DEF SteadyInv
<1> DEFINE Goal == /\ token'[q].kid \in published'[token'[q].iss]
                   /\ stage'[q] = "store" => token'[q].kid \in fetched'[q]
                   /\ stage'[q] = "relookup" =>
                          token'[q].kid \in cache'[token'[q].iss] \/ q \in overtaken'
                   /\ verdict'[q] = "refused" => q \in failed' \cup overtaken'
<1>0. AuthTypeOK /\ SteadyType /\ SteadyInv(q) /\ StageInv(q)
    BY DEF Inv
<1>c. UNCHANGED configured
    BY EverGrows
<1> HIDE DEF Goal
\* The token is the one it was before the step, and the check was steady.
<1>k. ASSUME token'[q] = token[q], q \in steady
      PROVE  /\ Sound(token[q]) /\ Verifier(token[q]) = token[q].iss /\ token[q].iss \in Issuers
             /\ token[q].kid \in published[token[q].iss]
             /\ stage[q] = "store" => token[q].kid \in fetched[q]
             /\ stage[q] = "relookup" => token[q].kid \in cache[token[q].iss] \/ q \in overtaken
             /\ verdict[q] = "refused" => q \in failed \cup overtaken
    <2>1. Sound(token[q])
        BY <1>c, <1>k DEF Sound
    <2> QED
        BY <1>0, <1>k, <2>1, SoundVerifier DEF SteadyInv
\* A step that does not concern the check, its issuer or its cache.
<1>f. ASSUME token'[q] = token[q], q \in steady, stage'[q] = stage[q], verdict'[q] = verdict[q],
             fetched'[q] = fetched[q], UNCHANGED <<published, cache>>,
             failed \subseteq failed', overtaken \subseteq overtaken'
      PROVE  Goal
    BY <1>f, <1>k DEF Goal
<1> USE DEF issuerVars, checkVars, historyVars
<1>1. ASSUME NEW r \in Requests, CheckStep(r), r # q PROVE Goal
    <2>1. /\ token'[q] = token[q] /\ stage'[q] = stage[q] /\ verdict'[q] = verdict[q]
          /\ fetched'[q] = fetched[q] /\ UNCHANGED published
        BY <1>1, OwnStep DEF OthersStay
    <2>2. q \in steady
        BY <1>1 DEF CheckStep, Present, Lookup, FetchAnswers, FetchFails, FetchPanics, Store, Relookup
    <2>3. CASE Store(r)
        <3> DEFINE v == Verifier(token[r])
        <3>1. /\ cache' = [cache EXCEPT ![v] = fetched[r]]
              /\ overtaken' = overtaken \cup
                     {s \in Requests : stage[s] = "relookup" /\ Verifier(token[s]) = v}
              /\ failed' = failed
            BY <2>3 DEF Store
        <3>2. CASE v = token[q].iss /\ stage[q] = "relookup"
            <4>1. q \in overtaken'
                BY <1>k, <2>1, <2>2, <3>1, <3>2
            <4> QED
                BY <1>k, <2>1, <2>2, <3>1, <4>1 DEF Goal
        <3>3. CASE v # token[q].iss
            <4>1. cache'[token[q].iss] = cache[token[q].iss]
                BY <1>0, <1>k, <2>1, <2>2, <3>1, <3>3 DEF AuthTypeOK
            <4> QED
                BY <1>k, <2>1, <2>2, <3>1, <4>1 DEF Goal
        <3>4. CASE stage[q] # "relookup"
            BY <1>k, <2>1, <2>2, <3>1, <3>4 DEF Goal
        <3> QED
            BY <3>2, <3>3, <3>4
    <2>4. CASE ~Store(r)
        <3>1. UNCHANGED <<cache, overtaken>> /\ failed \subseteq failed'
            BY <1>1, <2>4 DEF CheckStep, Present, Lookup, FetchAnswers, FetchFails, FetchPanics, Relookup
        <3> QED
            BY <1>f, <2>1, <2>2, <3>1
    <2> QED
        BY <2>3, <2>4
<1>2. CASE Present(q)
    <2>0. q \notin steady /\ verdict[q] = "none" /\ token \in [Requests -> Tokens]
        BY <1>0, <1>2 DEF SteadyType, Present, StageInv, Over, AuthTypeOK
    <2>1. PICK t \in Tokens :
              /\ token' = [token EXCEPT ![q] = t]
              /\ \/ t.kind # "jwt" \/ Verifier(t) = "nobody"
                 \/ stage' = [stage EXCEPT ![q] = "lookup"] /\ UNCHANGED verdict
              /\ steady' = IF t.kind = "jwt" /\ t.signer \in Issuers /\ t.kid \in published[t.signer]
                           THEN steady \cup {q} ELSE steady
        BY <1>2 DEF Present
    <2>2. token'[q] = t /\ Sound(t) /\ published' = published
        BY <1>2, <1>c, <2>0, <2>1 DEF Present, Sound
    <2>3. t.kind = "jwt" /\ t.kid \in published[t.iss]
        BY <2>0, <2>1, <2>2 DEF Sound, Jwt
    <2>4. Verifier(t) # "nobody"
        BY <2>2, SoundVerifier DEF Issuers
    <2>5. stage'[q] = "lookup" /\ verdict'[q] = "none"
        BY <1>0, <2>0, <2>1, <2>3, <2>4 DEF AuthTypeOK
    <2> QED
        BY <2>2, <2>3, <2>5 DEF Goal
\* The check's own later steps.
<1>3. ASSUME CheckStep(q), stage[q] # "idle" PROVE Goal
    <2>0. /\ token'[q] = token[q] /\ q \in steady /\ UNCHANGED published
          /\ verdict[q] = "none" /\ stage'[q] # "idle"
        BY <1>3, OwnStep
    <2>1. CASE Lookup(q) \/ Relookup(q)
        <3>1. failed' = failed /\ overtaken' = overtaken /\ UNCHANGED cache
            BY <2>1 DEF Lookup, Relookup
        <3>2. stage'[q] \in {"fetch", "refusing", "done"}
            BY <1>0, <2>1 DEF Lookup, Relookup, Judge, Finish, AuthTypeOK
        <3>3. CASE Judge(q, Verifier(token[q]))
            <4>1. verdict'[q] # "refused"
                BY <1>0, <1>k, <2>0, <3>3 DEF Judge, Finish, AuthTypeOK, Sound, Method
            <4> QED
                BY <1>k, <2>0, <3>2, <4>1 DEF Goal
        <3>4. CASE UNCHANGED verdict
            BY <1>k, <2>0, <3>2, <3>4 DEF Goal
        <3>5. CASE Relookup(q) /\ token[q].kid \notin cache[Verifier(token[q])]
            BY <1>k, <2>0, <3>1, <3>2, <3>5 DEF Goal, Relookup
        <3> QED
            BY <2>1, <3>3, <3>4, <3>5 DEF Lookup, Relookup
    <2>2. CASE FetchAnswers(q)
        <3>1. fetched'[q] = published[token[q].iss] /\ stage'[q] = "store" /\ verdict'[q] = "none"
            BY <1>0, <1>k, <2>0, <2>2 DEF FetchAnswers, AuthTypeOK
        <3> QED
            BY <1>k, <2>0, <3>1 DEF Goal
    <2>3. CASE FetchFails(q)
        <3>1. stage'[q] = "refusing" /\ q \in failed'
            BY <1>0, <2>3 DEF FetchFails, Finish, AuthTypeOK
        <3> QED
            BY <1>k, <2>0, <3>1 DEF Goal
    <2>4. CASE Store(q)
        <3>1. /\ cache'[token[q].iss] = fetched[q] /\ stage[q] = "store" /\ stage'[q] = "relookup"
              /\ verdict'[q] = "none"
            BY <1>0, <1>k, <2>0, <2>4 DEF Store, AuthTypeOK
        <3> QED
            BY <1>k, <2>0, <3>1 DEF Goal
    <2>5. CASE FetchPanics(q)
        <3>1. stage'[q] = "gone" /\ verdict'[q] = "none"
            BY <1>0, <2>0, <2>5 DEF FetchPanics, AuthTypeOK
        <3> QED
            BY <1>k, <2>0, <3>1 DEF Goal
    <2> QED
        BY <1>3, <2>1, <2>2, <2>3, <2>4, <2>5 DEF CheckStep, Present
<1>4. ASSUME NEW i \in configured, Rotate(i) PROVE Goal
    <2>1. PICK S \in SUBSET Kids :
              /\ published' = [published EXCEPT ![i] = S]
              /\ steady' = {r \in steady : token[r].signer = i => token[r].kid \in S}
        BY <1>4 DEF Rotate
    <2>2. UNCHANGED <<cache, stage, token, fetched, verdict, failed, overtaken>>
        BY <1>4 DEF Rotate
    <2>3. q \in steady /\ (token[q].signer = i => token[q].kid \in S)
        BY <2>1
    <2>4. token[q].kid \in published'[token[q].iss]
        BY <1>0, <1>k, <2>1, <2>2, <2>3 DEF Sound, AuthTypeOK
    <2> QED
        BY <1>k, <2>2, <2>3, <2>4 DEF Goal
<1>5. CASE UNCHANGED vars
    BY <1>5, <1>f DEF vars, Goal
<1>6. ASSUME CheckStep(q) PROVE Present(q) \/ stage[q] # "idle"
    BY <1>6 DEF CheckStep, Lookup, FetchAnswers, FetchFails, FetchPanics, Store, Relookup
<1>7. ASSUME NEW r \in Requests, Answer(r) PROVE Goal
    <2>1. UNCHANGED <<published, cache, token, fetched, verdict, steady, failed, overtaken>>
        BY <1>0, <1>7, AnswerEffect
    <2>2. stage'[q] = stage[q] \/ stage'[q] \in {"done", "gone"}
        BY <1>0, <1>7, AnswerEffect
    <2> QED
        BY <1>f, <1>k, <2>1, <2>2 DEF Goal
<1> QED
    BY <1>1, <1>2, <1>3, <1>4, <1>5, <1>6, <1>7 DEF Next, Goal

-----------------------------------------------------------------------------
\* The theorems.

\* The inductive invariant of the bearer checks holds in every reachable state.
LEMMA Invariance == Spec => []Inv
<1>1. Init => Inv
    <2> SUFFICES ASSUME Init PROVE Inv
        OBVIOUS
    <2>1. AuthTypeOK
        BY TypeInitially
    <2>2. \A r \in Requests : stage[r] = "idle" /\ verdict[r] = "none"
        BY DEF Init
    <2>3. cache = published /\ ever = published /\ steady = {}
          /\ \A i \in configured : published[i] # {}
        BY DEF Init
    <2> QED
        BY <2>1, <2>2, <2>3 DEF Inv, StageInv, Over, KeysInv, AcceptedByItsIssuer, CacheIsNeverEmptied,
           SteadyType, SteadyInv
<1>2. Inv /\ [Next]_vars => Inv'
    BY TypeStep, StageStep, KeysStep, AcceptedStep, SteadyTypeStep, SteadyStep DEF Inv
<1> QED
    BY <1>1, <1>2, PTL DEF Spec

\* Every variable keeps its type, and recordRefusal's records are exactly the
\* refused tool calls whose body was read, in every reachable state.
THEOREM TypeCorrect == Spec => []AuthTypeOK
BY Invariance, PTL DEF Inv

\* An accepted JWT was signed with a key its own issuer published, whatever the
\* other checks fetched and stored meanwhile and however often keys rotated.
THEOREM AcceptedOnlyByItsIssuer == Spec => []AcceptedByItsIssuer
BY Invariance, PTL DEF Inv

\* No refresh leaves a verifier without a key (fetchRSAKeys, refreshKeys).
THEOREM CacheKeepsKeys == Spec => []CacheIsNeverEmptied
BY Invariance, PTL DEF Inv

\* keyForKid refuses a sound token whose key was published all along only if its
\* fetch failed or an older answer was stored over its own.
THEOREM RefusedOnlyByRace == Spec => []SoundTokenRefusedOnlyByRace
<1>1. Inv => SoundTokenRefusedOnlyByRace
    BY TokenKinds DEF Inv, AuthTypeOK, SteadyInv, Sound, SoundTokenRefusedOnlyByRace
<1> QED
    BY <1>1, Invariance, PTL
=============================================================================

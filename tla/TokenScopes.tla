---------------------------- MODULE TokenScopes ----------------------------
(***************************************************************************)
(* What a GitHub Actions workflow may do here: the rules parsed at start,  *)
(* the tools and token caps they grant a caller, and the two tools that    *)
(* mint GitHub App installation tokens, one to hand out and one to spend.  *)
(*                                                                         *)
(* Calls share nothing but the rules, which never change, and GitHub, so   *)
(* one call is followed from the start of the server.  Names are compared  *)
(* without case everywhere; here they are values.  A level is its rank: 1  *)
(* read, 2 write, 3 admin, 0 no level at all.  Nil stands for an argument, *)
(* or a rule's field, that is left out, and means everything GitHub has.   *)
(***************************************************************************)
EXTENDS Naturals, Sequences, FiniteSets

CONSTANTS
    Repos,     \* bare names of the installation's repositories
    Perms,     \* permission names
    MaxLevel,  \* bound: the highest level asked for
    Excluded,  \* excludedWritePermissions
    Configs,   \* the rules the server may be given: sequences of
               \* [repository, workflow, tools, caps], NoWorkflow for any
    Callers,   \* [repository, workflow] claims, or Nil for a caller without a scope
    Nil

ASSUME PermsAssumption == Excluded \cup {"workflows", "statuses"} \subseteq Perms
ASSUME MaxLevelAssumption == MaxLevel \in 2..3

TokenTool == "github_app_installation_token"
StatusTool == "github_commit_status_create"
ToolNames == {TokenTool, StatusTool}

\* The empty string: a rule that names no workflow, a caller without the claim.
NoWorkflow == "no workflow"

VARIABLES
    rules,    \* the rules
    stage,    \* "boot", "ready", where the call is, "done"; "down" without a server
    caller,   \* who calls
    tool,     \* which tool
    request,  \* its repositories and permissions as the caller gave them
    asked,    \* the same as they go to GitHub
    token,    \* the permissions of the token minted for the call, Nil before
    live,     \* it exists and is not revoked
    written,  \* the commit status is written
    gone,     \* the caller left, its context is cancelled
    outcome,  \* what the caller is told
    lost      \* history: exchanges with GitHub whose end this server did not learn

callVars == <<caller, tool, request>>
githubVars == <<token, live, written, lost>>
vars == <<rules, stage, callVars, asked, githubVars, gone, outcome>>

\* Permissions are functions to levels from the permissions they name.
PermSets == UNION {[D -> 0..MaxLevel] : D \in SUBSET Perms}
Asks == [repositories : (SUBSET Repos) \cup {Nil}, permissions : PermSets \cup {Nil}]
Nothing == [repositories |-> {}, permissions |-> [p \in {} |-> 0]]

\* A cap as the configuration's JSON gives it, read but not yet judged.
Caps == [repositories : (SUBSET Repos) \cup {Nil}, exclude : (SUBSET Repos) \cup {Nil},
         permissions : PermSets \cup {Nil}]

ASSUME NilAssumption == (\A S \in SUBSET Repos : S # Nil) /\ (\A f \in PermSets : f # Nil)
ASSUME ConfigsAssumption == \A rs \in Configs : \A i \in 1..Len(rs) : rs[i].caps \in Seq(Caps)

Level(perms, p) == IF p \in DOMAIN perms THEN perms[p] ELSE 0

Init ==
    /\ rules \in Configs
    /\ stage = "boot"
    /\ caller = Nil
    /\ tool = TokenTool
    /\ request = Nothing
    /\ asked = Nothing
    /\ token = Nil
    /\ live = FALSE
    /\ written = FALSE
    /\ gone = FALSE
    /\ outcome = "none"
    /\ lost = {}

-----------------------------------------------------------------------------
(* The start: parseGitHubRuleSources and CheckToolScopes.                  *)

\* One cap of a rule: repositories or an exclude list, permissions that are levels,
\* left out only next to an exclude list.
parseTokenCap(r, c) ==
    /\ TokenTool \in r.tools
    /\ c.repositories = Nil \/ c.exclude = Nil
    /\ c.exclude # {}
    /\ c.exclude = Nil => c.repositories \notin {Nil, {}} /\ c.permissions # Nil
    /\ c.permissions # Nil =>
        /\ DOMAIN c.permissions # {}
        /\ \A p \in DOMAIN c.permissions : c.permissions[p] # 0

capGrantsWorkflowsOn(c, own) ==
    /\ c.permissions # Nil => "workflows" \in DOMAIN c.permissions
    /\ IF c.exclude # Nil THEN own \notin c.exclude ELSE own \in c.repositories

parseRule(r) ==
    /\ r.tools # {}
    /\ \A j \in 1..Len(r.caps) :
        parseTokenCap(r, r.caps[j]) /\ ~capGrantsWorkflowsOn(r.caps[j], r.repository)

label(r) == <<r.repository, r.workflow>>

parseGitHubRuleSources ==
    /\ rules # <<>>
    /\ \A i \in 1..Len(rules) : parseRule(rules[i])
    /\ \A i, j \in 1..Len(rules) : label(rules[i]) = label(rules[j]) => i = j

CheckToolScopes == \A i \in 1..Len(rules) : rules[i].tools \subseteq ToolNames

Boot ==
    /\ stage = "boot"
    /\ stage' = IF parseGitHubRuleSources /\ CheckToolScopes THEN "ready" ELSE "down"
    /\ UNCHANGED <<rules, callVars, asked, githubVars, gone, outcome>>

-----------------------------------------------------------------------------
(* What a caller is granted: grantsFor and the request's scope.            *)

Matching(who) ==
    {i \in 1..Len(rules) :
        /\ rules[i].repository = who.repository
        /\ rules[i].workflow \in {NoWorkflow, who.workflow}}

grantedTools(who) == UNION {rules[i].tools : i \in Matching(who)}

\* The places of the caller's caps in the rules; none means unbounded, as one
\* matching rule without caps is enough to make it.
grantedCaps(who) ==
    LET granting == {i \in Matching(who) : TokenTool \in rules[i].tools}
    IN IF \E i \in granting : rules[i].caps = <<>> THEN {}
       ELSE UNION {{i} \X (1..Len(rules[i].caps)) : i \in granting}

TokenCapsFrom(who) == IF who = Nil THEN {} ELSE grantedCaps(who)
Allows(who, t) == who # Nil => t \in grantedTools(who)
SelfRepository(who) == IF who = Nil THEN {} ELSE {who.repository}

-----------------------------------------------------------------------------
(* A request against the caps: applyTokenCaps and guardSelfWorkflows.      *)

\* Mutant: an exclude list does not ask for names.
fitsRepositoriesUnnamed(c, q) ==
    q.repositories # Nil =>
        IF c.exclude # Nil THEN q.repositories \cap c.exclude = {}
                           ELSE q.repositories \subseteq c.repositories

\* applyExcludeCap and the first half of applyTokenCap.
fitsRepositories(c, q) ==
    IF c.exclude # Nil
    THEN q.repositories \notin {Nil, {}} /\ q.repositories \cap c.exclude = {}
    ELSE q.repositories # Nil => q.repositories # {} /\ q.repositories \subseteq c.repositories

capPermissionsFits(c, q) ==
    c.permissions # Nil /\ q.permissions # Nil =>
        /\ DOMAIN q.permissions # {}
        /\ \A p \in DOMAIN q.permissions :
            /\ p \in DOMAIN c.permissions
            /\ q.permissions[p] \in 1..c.permissions[p]

\* The request as the cap leaves it: what it omits is the cap's.
applyTokenCap(c, q) ==
    [repositories |-> IF q.repositories = Nil THEN c.repositories ELSE q.repositories,
     permissions |-> IF q.permissions = Nil THEN c.permissions ELSE q.permissions]

CapAt(place) == rules[place[1]].caps[place[2]]

fitting(who, q) ==
    {place \in TokenCapsFrom(who) :
        fitsRepositories(CapAt(place), q) /\ capPermissionsFits(CapAt(place), q)}

\* A request that omits something must fit one cap only, or what it omits has two
\* readings; one that names all is the same under each cap it fits.
Ambiguous(who, q) ==
    /\ Cardinality(fitting(who, q)) > 1
    /\ q.repositories = Nil \/ q.permissions = Nil

Applied(who, q) ==
    IF TokenCapsFrom(who) = {} THEN q
    ELSE applyTokenCap(CapAt(CHOOSE place \in fitting(who, q) : TRUE), q)

guardSelfWorkflows(who, q) ==
    \E self \in SelfRepository(who) :
        /\ q.permissions # Nil => "workflows" \in DOMAIN q.permissions
        /\ q.repositories # Nil => self \in q.repositories

-----------------------------------------------------------------------------
(* The two tools.                                                          *)

Finish(o) ==
    /\ stage' = "done"
    /\ outcome' = o

GoTo(s) ==
    /\ stage' = s
    /\ UNCHANGED outcome

\* The caller is admitted by no rule, its scope lacks the tool, or the arguments of
\* the token tool are not a list of names and an object.
Refuse(who, t) ==
    /\ stage = "ready"
    /\ caller' = who /\ tool' = t
    /\ \/ who # Nil /\ grantedTools(who) = {} /\ Finish("unauthorized")
       \/ ~Allows(who, t) /\ grantedTools(who) # {} /\ Finish("unknown tool")
       \/ t = TokenTool /\ Allows(who, t) /\ Finish("invalid")
    /\ UNCHANGED <<rules, request, asked, githubVars, gone>>

\* githubAppInstallationToken, up to the service.
githubAppInstallationToken(who, q) ==
    LET caps == TokenCapsFrom(who)
        fit == fitting(who, q)
    IN /\ stage = "ready"
       /\ Allows(who, TokenTool)
       /\ caller' = who /\ tool' = TokenTool /\ request' = q
       /\ \/ caps # {} /\ fit = {} /\ Finish("outside caps") /\ UNCHANGED asked
          \/ Ambiguous(who, q) /\ Finish("ambiguous") /\ UNCHANGED asked
          \/ /\ caps # {} => fit # {}
             /\ ~Ambiguous(who, q)
             /\ IF guardSelfWorkflows(who, Applied(who, q))
                THEN Finish("own workflows") /\ UNCHANGED asked
                ELSE GoTo("permissions") /\ asked' = Applied(who, q)
       /\ UNCHANGED <<rules, githubVars, gone>>

\* effectivePermissions: named permissions go as they are, or are refused for an
\* excluded write; omitted ones are the installation's, each excluded write lowered.
effectivePermissions ==
    /\ stage = "permissions"
    /\ \/ /\ asked.permissions # Nil
          /\ \E p \in Excluded : Level(asked.permissions, p) = 2
          /\ Finish("rejected")
          /\ UNCHANGED asked
       \/ /\ asked.permissions # Nil
          /\ \A p \in Excluded : Level(asked.permissions, p) # 2
          /\ GoTo("mint")
          /\ UNCHANGED asked
       \/ /\ asked.permissions = Nil /\ ~gone
          /\ \E held \in SUBSET Perms : \E installed \in [held -> 1..2] :
                asked' = [asked EXCEPT !.permissions =
                    [p \in held |-> IF p \in Excluded /\ installed[p] = 2 THEN 1 ELSE installed[p]]]
          /\ GoTo("mint")
    /\ UNCHANGED <<rules, callVars, githubVars, gone>>

\* githubCommitStatusCreate, validateCommitStatusInput and checkContextPrefix.
githubCommitStatusCreate(who, repo) ==
    /\ stage = "ready"
    /\ Allows(who, StatusTool)
    /\ caller' = who /\ tool' = StatusTool
    /\ \/ Finish("invalid")
       \/ GoTo("owner")
    /\ request' = [repositories |-> {repo}, permissions |-> [p \in {"statuses"} |-> 2]]
    /\ UNCHANGED <<rules, asked, githubVars, gone>>

\* installationOwner.
installationOwner ==
    /\ stage = "owner"
    /\ ~gone
    /\ GoTo("mint")
    /\ asked' = request
    /\ UNCHANGED <<rules, callVars, githubVars, gone>>

\* No GitHub App is configured.
Unavailable ==
    /\ stage \in {"permissions", "owner"}
    /\ Finish("unavailable")
    /\ UNCHANGED <<rules, callVars, asked, githubVars, gone>>

\* The App's key does not sign.
appJWTFails ==
    /\ stage \in {"permissions", "owner"}
    /\ Finish("error")
    /\ UNCHANGED <<rules, callVars, asked, githubVars, gone>>

\* fetchInstallation gets no answer, or none with permissions or an owner in it; a
\* cancelled context is one reason.
fetchInstallationFails ==
    /\ stage = "owner" \/ (stage = "permissions" /\ asked.permissions = Nil)
    /\ Finish("error")
    /\ UNCHANGED <<rules, callVars, asked, githubVars, gone>>

\* The mint is not sent, or GitHub refuses it.
mintFails ==
    /\ stage = "mint"
    /\ Finish("error")
    /\ UNCHANGED <<rules, callVars, asked, githubVars, gone>>

\* What may come back for permissions asked: those, or, from a GitHub that does not
\* keep to them, an excluded write on top; for none at all, whatever the
\* installation holds.
Returned(perms) ==
    {perms}
    \cup {[p \in DOMAIN perms \cup {e} |-> IF p = e THEN 2 ELSE perms[p]] : e \in Excluded}
    \cup (IF DOMAIN perms = {} THEN UNION {[held -> 1..2] : held \in SUBSET Perms} ELSE {})

\* Mutant: what comes back is handed out unread.
mintInstallationTokenTrusting ==
    /\ stage = "mint" /\ ~gone
    /\ token' \in Returned(asked.permissions)
    /\ live' = TRUE
    /\ IF tool = StatusTool THEN GoTo("post") ELSE Finish("token")
    /\ UNCHANGED <<rules, callVars, asked, written, lost, gone>>

\* mintInstallationToken, and CreateInstallationToken's look at what came back: a
\* token with an excluded write is not handed out.
mintInstallationToken ==
    /\ stage = "mint" /\ ~gone
    /\ \A p \in DOMAIN asked.permissions : asked.permissions[p] # 0
    /\ token' \in Returned(asked.permissions)
    /\ live' = TRUE
    /\ \/ /\ IF tool = StatusTool THEN GoTo("post")
             ELSE IF \E p \in Excluded : Level(token', p) = 2 THEN GoTo("revoke")
             ELSE Finish("token")
          /\ UNCHANGED lost
       \/ /\ Finish("error")
          /\ lost' = lost \cup {"mint"}
    /\ UNCHANGED <<rules, callVars, asked, written, gone>>

\* Mutant: the deferred revoke decides what is reported.
postCommitStatusUnsaid ==
    /\ stage = "post" /\ ~gone
    /\ written' = TRUE
    /\ GoTo("revoke")
    /\ UNCHANGED <<rules, callVars, asked, token, live, lost, gone>>

\* postCommitStatus: its outcome is settled before the deferred revoke.
postCommitStatus ==
    /\ stage = "post"
    /\ stage' = "revoke"
    /\ \/ ~gone /\ written' = TRUE /\ outcome' = "status" /\ UNCHANGED lost
       \/ ~gone /\ written' = TRUE /\ outcome' = "error" /\ lost' = lost \cup {"post"}
       \/ outcome' = "error" /\ UNCHANGED <<written, lost>>
    /\ UNCHANGED <<rules, callVars, asked, token, live, gone>>

\* Mutant: a withheld token's call ends without an outcome.
revokeTokenUnsaid ==
    /\ stage = "revoke"
    /\ Finish(outcome)
    /\ live' = FALSE
    /\ UNCHANGED <<rules, callVars, asked, token, written, lost, gone>>

\* revokeToken with the caller's context: done, or failed, or done without an answer.
revokeToken ==
    /\ stage = "revoke"
    /\ Finish(IF outcome = "none" THEN "error" ELSE outcome)
    /\ \/ ~gone /\ live' = FALSE /\ UNCHANGED lost
       \/ ~gone /\ live' = FALSE /\ lost' = lost \cup {"revoke"}
       \/ UNCHANGED live /\ lost' = lost \cup {"revoke"}
    /\ UNCHANGED <<rules, callVars, asked, token, written, gone>>

CallerLeaves ==
    /\ stage \in {"permissions", "owner", "mint", "post", "revoke"}
    /\ ~gone
    /\ gone' = TRUE
    /\ UNCHANGED <<rules, stage, callVars, asked, githubVars, outcome>>

Next ==
    \/ Boot
    \/ \E who \in Callers, t \in ToolNames : Refuse(who, t)
    \/ \E who \in Callers, q \in Asks : githubAppInstallationToken(who, q)
    \/ \E who \in Callers, repo \in Repos : githubCommitStatusCreate(who, repo)
    \/ effectivePermissions \/ installationOwner
    \/ Unavailable \/ appJWTFails \/ fetchInstallationFails \/ mintFails
    \/ mintInstallationToken
    \/ postCommitStatus \/ revokeToken
    \/ CallerLeaves

Spec == Init /\ [][Next]_vars

-----------------------------------------------------------------------------
(* Properties.                                                             *)

\* Types of the state.
ScopeTypeOK ==
    /\ stage \in {"boot", "down", "ready", "permissions", "owner", "mint", "post", "revoke", "done"}
    /\ caller \in Callers \cup {Nil}
    /\ request \in Asks /\ asked \in Asks
    /\ token = Nil \/ token \in PermSets
    /\ live => token # Nil
    /\ stage = "done" <=> outcome # "none" /\ stage # "revoke"

\* The reference reading of what goes to GitHub, as triples of a repository, a
\* permission and a level.  What is left out is everything, and so is a list or an
\* object that names nothing: the code does not say what GitHub makes of one, and
\* TestInstallationTokenCapRefusesWiderRequest counts both as wider requests.
NamesRepos(repos) == repos \notin {Nil, {}}
NamesPerms(perms) == perms # Nil /\ DOMAIN perms # {}

Powers(repos, perms) ==
    {x \in Repos \X Perms \X (1..MaxLevel) :
        /\ NamesRepos(repos) => x[1] \in repos
        /\ NamesPerms(perms) => x[3] <= Level(perms, x[2])}

AskPowers(q) == Powers(q.repositories, q.permissions)

\* What a cap lets its holder do.
CapPowers(c) ==
    {x \in Repos \X Perms \X (1..MaxLevel) :
        /\ IF c.exclude # Nil THEN x[1] \notin c.exclude ELSE x[1] \in c.repositories
        /\ c.permissions # Nil => x[3] <= Level(c.permissions, x[2])}

\* An argument that is there and names nothing.
NamesNothing(q) == q.repositories = {} \/ (q.permissions # Nil /\ DOMAIN q.permissions = {})

\* The caps of the rules that grant the calling workflow tokens, and whether such a
\* rule has none.
CallersCaps ==
    UNION {{rules[i].caps[j] : j \in 1..Len(rules[i].caps)} :
              i \in {k \in Matching(caller) : TokenTool \in rules[k].tools}}
Unbounded ==
    \E i \in Matching(caller) : TokenTool \in rules[i].tools /\ rules[i].caps = <<>>

\* The rules decide, whatever is omitted or empty and however many caps there are.
\* What goes to GitHub for a workflow is no more than it asked for and lies whole
\* within one cap of one rule that grants it the tool (or a rule has none).  It
\* carries workflows on the workflow's own repository for no caller with caps, and
\* for one without only if its request had an empty list or object in it:
\* guardSelfWorkflows looks for a name in it, applyTokenCap, which refuses both, is
\* not reached.  And only that is refused: a request that names everything is
\* outside the caps only if no cap holds it, and the guard on the own repository has
\* nothing left to refuse of a caller with caps, for which the start saw to it.
CapsAreKept ==
    caller # Nil /\ tool = TokenTool =>
        /\ stage \in {"permissions", "mint"} =>
            /\ AskPowers(asked) \subseteq AskPowers(request)
            /\ Unbounded \/ \E c \in CallersCaps : AskPowers(asked) \subseteq CapPowers(c)
            /\ \A l \in 1..MaxLevel :
                <<caller.repository, "workflows", l>> \in AskPowers(asked) =>
                    Unbounded /\ NamesNothing(request)
        /\ /\ outcome = "outside caps"
           /\ NamesRepos(request.repositories) /\ NamesPerms(request.permissions)
           /\ \A p \in DOMAIN request.permissions : request.permissions[p] # 0
           => ~Unbounded /\ \A c \in CallersCaps : ~(AskPowers(request) \subseteq CapPowers(c))
        /\ outcome = "own workflows" => Unbounded

\* A token the caller gets carries none of the excluded writes, and a token it does
\* not get is dead when the call ends, unless GitHub's answer to the mint was lost
\* or the revoke failed, if only because the caller had left.
TokensAreAccountedFor ==
    /\ outcome = "token" => \A p \in Excluded : Level(token, p) # 2
    /\ stage = "done" /\ live /\ outcome # "token" => lost \cap {"mint", "revoke"} # {}

\* A status is reported written only if it is, and one that is written is reported
\* as a failure only if GitHub's answer to it was lost: "a revoke failure must
\* not turn a written status into a reported failure" (CreateCommitStatus).
StatusReportIsTrue ==
    tool = StatusTool /\ stage = "done" =>
        /\ outcome = "status" => written
        /\ written /\ outcome # "status" => "post" \in lost
=============================================================================

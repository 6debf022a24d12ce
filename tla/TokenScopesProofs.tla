-------------------------- MODULE TokenScopesProofs --------------------------
(***************************************************************************)
(* Proofs about TokenScopes for any rules, callers, repositories and       *)
(* permissions: a finite run can only try the configurations its MC module *)
(* lists.                                                                  *)
(*                                                                         *)
(* The heart is three lemmas about one cap and one request, which say that *)
(* the tests of applyTokenCap agree with the reference reading of caps as  *)
(* sets of powers: a request that fits, completed from the cap, stays      *)
(* within both; a request that names everything and does not fit really    *)
(* exceeds the cap; and a cap that passed the start never leaves the       *)
(* guard on the own repository's workflows anything to refuse.             *)
(***************************************************************************)
EXTENDS TokenScopes, TLAPS

Stages == {"boot", "down", "ready", "permissions", "owner", "mint", "post", "revoke", "done"}

\* What a stage says about the tool, the permissions that go to GitHub, and what
\* exists there.
StageInv ==
    /\ stage \in {"owner", "post"} => tool = StatusTool
    /\ stage = "permissions" => tool = TokenTool
    /\ stage = "owner" => request.permissions \in PermSets
    /\ stage = "mint" => asked.permissions \in PermSets
    /\ stage \in {"boot", "down", "ready", "permissions", "owner", "mint"} => ~live /\ ~written
    /\ stage = "post" => ~written
    /\ stage = "revoke" => outcome \in {"none", "status", "error"}

\* The server runs on rules that parseGitHubRuleSources let through.
BootInv ==
    /\ rules \in Configs
    /\ stage \notin {"boot", "down"} => parseGitHubRuleSources

\* What is known of a commit status before the call ends.
StatusInv ==
    /\ outcome = "status" => written
    /\ written /\ outcome # "status" => "post" \in lost

Inv ==
    /\ ScopeTypeOK
    /\ StageInv
    /\ BootInv
    /\ StatusInv
    /\ TokensAreAccountedFor
    /\ CapsAreKept

-----------------------------------------------------------------------------
\* Permissions and powers.

\* PermSets are the functions to levels from sets of permission names.
LEMMA PermSetsType ==
    \A f : f \in PermSets <=> DOMAIN f \in SUBSET Perms /\ f \in [DOMAIN f -> 0..MaxLevel]
<1>1. ASSUME NEW f \in PermSets PROVE DOMAIN f \in SUBSET Perms /\ f \in [DOMAIN f -> 0..MaxLevel]
    <2>1. PICK D \in SUBSET Perms : f \in [D -> 0..MaxLevel]
        BY DEF PermSets
    <2> QED
        BY <2>1
<1>2. ASSUME NEW f, DOMAIN f \in SUBSET Perms, f \in [DOMAIN f -> 0..MaxLevel] PROVE f \in PermSets
    BY <1>2 DEF PermSets
<1> QED
    BY <1>1, <1>2

\* A level is a rank; a permission that is not named has none.
LEMMA LevelType == \A f \in PermSets : \A p : Level(f, p) \in 0..MaxLevel
BY PermSetsType, MaxLevelAssumption DEF Level

\* One power: a repository, a permission and a level that each half allows.
LEMMA PowerIsMember ==
    ASSUME NEW repos, NEW perms, NEW r \in Repos, NEW p \in Perms, NEW l \in 1..MaxLevel
    PROVE  <<r, p, l>> \in Powers(repos, perms) <=>
               (NamesRepos(repos) => r \in repos) /\ (NamesPerms(perms) => l <= Level(perms, p))
BY DEF Powers

\* The same for whatever is a power.
LEMMA PowerMeans ==
    ASSUME NEW repos, NEW perms, NEW r, NEW p, NEW l, <<r, p, l>> \in Powers(repos, perms)
    PROVE  (NamesRepos(repos) => r \in repos) /\ (NamesPerms(perms) => l <= Level(perms, p))
BY DEF Powers

\* One power of a cap.
LEMMA CapPowerMeans ==
    ASSUME NEW c, NEW r, NEW p, NEW l, <<r, p, l>> \in CapPowers(c)
    PROVE  /\ IF c.exclude # Nil THEN r \notin c.exclude ELSE r \in c.repositories
           /\ c.permissions # Nil => l <= Level(c.permissions, p)
BY DEF CapPowers

\* Powers grow with both halves: enough for every repository, permission and level.
LEMMA PowersWithin ==
    ASSUME NEW repos1, NEW perms1, NEW repos2, NEW perms2,
           \A r \in Repos : (NamesRepos(repos1) => r \in repos1) => (NamesRepos(repos2) => r \in repos2),
           \A p \in Perms, l \in 1..MaxLevel :
               (NamesPerms(perms1) => l <= Level(perms1, p)) => (NamesPerms(perms2) => l <= Level(perms2, p))
    PROVE  Powers(repos1, perms1) \subseteq Powers(repos2, perms2)
BY DEF Powers

\* The same for a request and a cap.
LEMMA PowersWithinCap ==
    ASSUME NEW repos, NEW perms, NEW c,
           \A r \in Repos : (NamesRepos(repos) => r \in repos) =>
               IF c.exclude # Nil THEN r \notin c.exclude ELSE r \in c.repositories,
           \A p \in Perms, l \in 1..MaxLevel :
               (NamesPerms(perms) => l <= Level(perms, p)) => (c.permissions # Nil => l <= Level(c.permissions, p))
    PROVE  Powers(repos, perms) \subseteq CapPowers(c)
BY DEF Powers, CapPowers

-----------------------------------------------------------------------------
\* One cap and one request.

\* A cap names what it bounds (parseTokenCap).
NamesBounds(c) ==
    /\ c.exclude = Nil => NamesRepos(c.repositories)
    /\ c.permissions # Nil => NamesPerms(c.permissions)

\* A request that fits a cap is completed from it: what goes to GitHub is within
\* what was asked and within the cap (applyTokenCap, applyExcludeCap).
LEMMA CapIsKept ==
    ASSUME NEW c \in Caps, NEW q \in Asks, NamesBounds(c),
           fitsRepositories(c, q), capPermissionsFits(c, q)
    PROVE  /\ applyTokenCap(c, q) \in Asks
           /\ AskPowers(applyTokenCap(c, q)) \subseteq AskPowers(q)
           /\ AskPowers(applyTokenCap(c, q)) \subseteq CapPowers(c)
<1> DEFINE a == applyTokenCap(c, q)
<1>1. /\ a.repositories = IF q.repositories = Nil THEN c.repositories ELSE q.repositories
      /\ a.permissions = IF q.permissions = Nil THEN c.permissions ELSE q.permissions
      /\ a \in Asks
    BY DEF applyTokenCap, Caps, Asks
<1>2. AskPowers(a) \subseteq AskPowers(q)
    <2>1. q.repositories = Nil => ~NamesRepos(q.repositories)
        BY DEF NamesRepos
    <2>2. q.permissions = Nil => ~NamesPerms(q.permissions)
        BY DEF NamesPerms
    <2> QED
        BY <1>1, <2>1, <2>2, PowersWithin DEF AskPowers
<1>3. ASSUME NEW p \in Perms, NEW l \in 1..MaxLevel, NamesPerms(a.permissions) => l <= Level(a.permissions, p)
      PROVE  c.permissions # Nil => l <= Level(c.permissions, p)
    <2>1. CASE c.permissions = Nil \/ q.permissions = Nil
        BY <1>1, <1>3, <2>1 DEF NamesBounds
    <2>2. CASE c.permissions # Nil /\ q.permissions # Nil
        <3>0. NamesPerms(q.permissions)
            BY <2>2 DEF capPermissionsFits, NamesPerms
        <3>1. c.permissions \in PermSets /\ q.permissions \in PermSets /\ l <= Level(q.permissions, p)
            BY <1>1, <1>3, <2>2, <3>0 DEF Caps, Asks
        <3>2. p \in DOMAIN q.permissions
            BY <3>1 DEF Level
        <3>3. p \in DOMAIN c.permissions /\ q.permissions[p] \in 1..c.permissions[p]
            BY <2>2, <3>2 DEF capPermissionsFits
        <3> QED
            BY <3>1, <3>2, <3>3, LevelType, MaxLevelAssumption DEF Level
    <2> QED
        BY <2>1, <2>2
<1>4. ASSUME NEW r \in Repos, NamesRepos(a.repositories) => r \in a.repositories
      PROVE  IF c.exclude # Nil THEN r \notin c.exclude ELSE r \in c.repositories
    <2>1. CASE c.exclude # Nil
        <3>1. NamesRepos(q.repositories) /\ q.repositories \cap c.exclude = {} /\ a.repositories = q.repositories
            BY <1>1, <2>1 DEF fitsRepositories, NamesRepos
        <3> QED
            BY <1>4, <2>1, <3>1
    <2>2. CASE c.exclude = Nil /\ q.repositories = Nil
        BY <1>1, <1>4, <2>2 DEF NamesBounds
    <2>3. CASE c.exclude = Nil /\ q.repositories # Nil
        <3>1. NamesRepos(q.repositories) /\ q.repositories \subseteq c.repositories /\ a.repositories = q.repositories
            BY <1>1, <2>3 DEF fitsRepositories, NamesRepos
        <3> QED
            BY <1>4, <2>3, <3>1
    <2> QED
        BY <2>1, <2>2, <2>3
<1>5. AskPowers(a) \subseteq CapPowers(c)
    <2> HIDE DEF a
    <2> QED
        BY <1>3, <1>4, PowersWithinCap DEF AskPowers
<1> QED
    BY <1>1, <1>2, <1>5

\* A request that names repositories and permissions at real levels, and that a
\* cap's tests refuse, holds a power the cap does not have.
LEMMA RefusalIsReal ==
    ASSUME NEW c \in Caps, NEW q \in Asks, NamesBounds(c),
           ~(fitsRepositories(c, q) /\ capPermissionsFits(c, q)),
           NamesRepos(q.repositories), NamesPerms(q.permissions),
           \A p \in DOMAIN q.permissions : q.permissions[p] # 0
    PROVE  ~(AskPowers(q) \subseteq CapPowers(c))
<1>0. q.repositories \subseteq Repos /\ q.permissions \in PermSets
    BY DEF Asks, NamesRepos, NamesPerms
<1>1. ASSUME NEW p \in DOMAIN q.permissions
      PROVE  /\ p \in Perms /\ q.permissions[p] \in 1..MaxLevel
             /\ Level(q.permissions, p) = q.permissions[p]
    BY <1>0, PermSetsType, MaxLevelAssumption DEF Level
<1>p. PICK p0 \in DOMAIN q.permissions : TRUE
    BY DEF NamesPerms
<1>r. PICK r0 \in q.repositories : TRUE
    BY DEF NamesRepos
<1>2. CASE ~fitsRepositories(c, q)
    <2>1. PICK r \in q.repositories :
              IF c.exclude # Nil THEN r \in c.exclude ELSE r \notin c.repositories
        BY <1>2 DEF fitsRepositories, NamesRepos
    <2>2. <<r, p0, q.permissions[p0]>> \in AskPowers(q)
        BY <1>0, <1>1, PowerIsMember, MaxLevelAssumption DEF AskPowers
    <2>3. <<r, p0, q.permissions[p0]>> \notin CapPowers(c)
        BY <2>1, CapPowerMeans
    <2> QED
        BY <2>2, <2>3
<1>3. CASE ~capPermissionsFits(c, q)
    <2>1. c.permissions # Nil /\ c.permissions \in PermSets
        BY <1>3 DEF capPermissionsFits, Caps
    <2>2. PICK p \in DOMAIN q.permissions :
              ~(p \in DOMAIN c.permissions /\ q.permissions[p] \in 1..c.permissions[p])
        BY <1>3 DEF capPermissionsFits, NamesPerms
    <2>3. ~(q.permissions[p] <= Level(c.permissions, p))
        BY <1>1, <2>1, <2>2, PermSetsType, MaxLevelAssumption DEF Level
    <2>4. <<r0, p, q.permissions[p]>> \in AskPowers(q)
        BY <1>0, <1>1, PowerIsMember, MaxLevelAssumption DEF AskPowers
    <2>5. <<r0, p, q.permissions[p]>> \notin CapPowers(c)
        BY <2>1, <2>3, CapPowerMeans
    <2> QED
        BY <2>4, <2>5
<1> QED
    BY <1>2, <1>3

\* A cap that the start let through leaves guardSelfWorkflows nothing to refuse.
LEMMA GuardHasNothingLeft ==
    ASSUME NEW c \in Caps, NEW q \in Asks, NEW who, NamesBounds(c),
           fitsRepositories(c, q), capPermissionsFits(c, q), ~capGrantsWorkflowsOn(c, who.repository)
    PROVE  ~guardSelfWorkflows(who, applyTokenCap(c, q))
<1> DEFINE a == applyTokenCap(c, q)
<1> SUFFICES ASSUME guardSelfWorkflows(who, a) PROVE FALSE
    OBVIOUS
<1>0. /\ a.repositories = IF q.repositories = Nil THEN c.repositories ELSE q.repositories
      /\ a.permissions = IF q.permissions = Nil THEN c.permissions ELSE q.permissions
    BY DEF applyTokenCap
<1>1. /\ a.permissions # Nil => "workflows" \in DOMAIN a.permissions
      /\ a.repositories # Nil => who.repository \in a.repositories
    BY DEF guardSelfWorkflows, SelfRepository
<1>2. c.permissions # Nil => "workflows" \in DOMAIN c.permissions
    BY <1>0, <1>1 DEF capPermissionsFits
<1>3. IF c.exclude # Nil THEN who.repository \notin c.exclude ELSE who.repository \in c.repositories
    BY <1>0, <1>1 DEF fitsRepositories, NamesBounds, NamesRepos
<1> QED
    BY <1>2, <1>3 DEF capGrantsWorkflowsOn

\* A cap that the start let through holds no power over workflows on the own
\* repository.
LEMMA CapsHoldNoWorkflows ==
    ASSUME NEW c \in Caps, NEW own, ~capGrantsWorkflowsOn(c, own), NEW l \in 1..MaxLevel
    PROVE  <<own, "workflows", l>> \notin CapPowers(c)
<1> SUFFICES ASSUME <<own, "workflows", l>> \in CapPowers(c) PROVE FALSE
    OBVIOUS
<1>1. /\ IF c.exclude # Nil THEN own \notin c.exclude ELSE own \in c.repositories
      /\ c.permissions # Nil => l <= Level(c.permissions, "workflows")
    BY CapPowerMeans
<1>2. c.permissions # Nil => "workflows" \in DOMAIN c.permissions
    BY <1>1, MaxLevelAssumption DEF Level
<1> QED
    BY <1>1, <1>2 DEF capGrantsWorkflowsOn

-----------------------------------------------------------------------------
\* The caps of a caller.

CapsOf(who) ==
    UNION {{rules[i].caps[j] : j \in 1..Len(rules[i].caps)} :
              i \in {k \in Matching(who) : TokenTool \in rules[k].tools}}
UnboundedFor(who) ==
    \E i \in Matching(who) : TokenTool \in rules[i].tools /\ rules[i].caps = <<>>

\* What the start established about a cap (parseTokenCap, parseRule).
Parsed(c, own) ==
    c \in Caps /\ NamesBounds(c) /\ ~capGrantsWorkflowsOn(c, own)

\* Every cap of every rule the server runs on was parsed.
LEMMA RulesAreParsed ==
    ASSUME rules \in Configs, parseGitHubRuleSources,
           NEW i \in 1..Len(rules), NEW j \in 1..Len(rules[i].caps)
    PROVE  Parsed(rules[i].caps[j], rules[i].repository)
<1>1. rules[i].caps \in Seq(Caps)
    BY ConfigsAssumption
<1>2. rules[i].caps[j] \in Caps
    BY <1>1
<1>3. parseTokenCap(rules[i], rules[i].caps[j]) /\ ~capGrantsWorkflowsOn(rules[i].caps[j], rules[i].repository)
    BY DEF parseGitHubRuleSources, parseRule
<1> QED
    BY <1>2, <1>3 DEF Parsed, parseTokenCap, NamesBounds, NamesRepos, NamesPerms

\* grantedCaps lists the caps of the rules that grant the caller the tool.
LEMMA PlacesAreCaps ==
    ASSUME rules \in Configs, parseGitHubRuleSources, NEW who, who # Nil, NEW place \in TokenCapsFrom(who)
    PROVE  CapAt(place) \in CapsOf(who) /\ Parsed(CapAt(place), who.repository)
<1>1. PICK i \in Matching(who) : TokenTool \in rules[i].tools /\ place \in {i} \X (1..Len(rules[i].caps))
    BY DEF TokenCapsFrom, grantedCaps
<1>2. place[1] = i /\ place[2] \in 1..Len(rules[i].caps) /\ CapAt(place) = rules[i].caps[place[2]]
    BY <1>1 DEF CapAt
<1>3. i \in 1..Len(rules) /\ rules[i].repository = who.repository
    BY DEF Matching
<1>4. CapAt(place) \in CapsOf(who)
    BY <1>1, <1>2 DEF CapsOf
<1> QED
    BY <1>2, <1>3, <1>4, RulesAreParsed

\* A caller whose list of caps is not empty is bounded, and the list has every
\* cap that bounds it.
LEMMA CapsArePlaces ==
    ASSUME NEW who, who # Nil, TokenCapsFrom(who) # {}
    PROVE  ~UnboundedFor(who) /\ \A c \in CapsOf(who) : \E place \in TokenCapsFrom(who) : c = CapAt(place)
<1>1. ~UnboundedFor(who)
    BY DEF TokenCapsFrom, grantedCaps, UnboundedFor
<1>2. ASSUME NEW c \in CapsOf(who) PROVE \E place \in TokenCapsFrom(who) : c = CapAt(place)
    <2>1. PICK i \in Matching(who) : TokenTool \in rules[i].tools
                                     /\ \E j \in 1..Len(rules[i].caps) : c = rules[i].caps[j]
        BY DEF CapsOf
    <2>2. PICK j \in 1..Len(rules[i].caps) : c = rules[i].caps[j]
        BY <2>1
    <2>3. <<i, j>> \in {i} \X (1..Len(rules[i].caps)) /\ CapAt(<<i, j>>) = c
        BY <2>2 DEF CapAt
    <2>4. <<i, j>> \in TokenCapsFrom(who)
        BY <1>1, <2>1, <2>3 DEF TokenCapsFrom, grantedCaps, UnboundedFor
    <2> QED
        BY <2>3, <2>4
<1> QED
    BY <1>1, <1>2

\* A caller that may use the tool and has no cap is unbounded: the empty list is
\* not read as "no caps" by accident.
LEMMA NoCapsIsUnbounded ==
    ASSUME rules \in Configs, NEW who, who # Nil, Allows(who, TokenTool), TokenCapsFrom(who) = {}
    PROVE  UnboundedFor(who)
<1> SUFFICES ASSUME ~UnboundedFor(who) PROVE FALSE
    OBVIOUS
<1>1. PICK i \in Matching(who) : TokenTool \in rules[i].tools
    BY DEF Allows, grantedTools
<1>2. rules[i].caps # <<>> /\ rules[i].caps \in Seq(Caps)
    BY <1>1, ConfigsAssumption DEF UnboundedFor, Matching
<1>3. 1 \in 1..Len(rules[i].caps)
    BY <1>2
<1>4. <<i, 1>> \in {i} \X (1..Len(rules[i].caps))
    BY <1>3
<1>5. <<i, 1>> \in TokenCapsFrom(who)
    BY <1>1, <1>4 DEF TokenCapsFrom, grantedCaps, UnboundedFor
<1> QED
    BY <1>5

\* The cap a request is completed from is one it fits.
LEMMA AppliedFrom ==
    ASSUME NEW who, NEW q, TokenCapsFrom(who) # {}, fitting(who, q) # {}
    PROVE  \E place \in TokenCapsFrom(who) :
               /\ Applied(who, q) = applyTokenCap(CapAt(place), q)
               /\ fitsRepositories(CapAt(place), q) /\ capPermissionsFits(CapAt(place), q)
<1> DEFINE place == CHOOSE x \in fitting(who, q) : TRUE
<1>1. place \in fitting(who, q)
    OBVIOUS
<1>2. Applied(who, q) = applyTokenCap(CapAt(place), q)
    BY DEF Applied
<1>3. place \in TokenCapsFrom(who) /\ fitsRepositories(CapAt(place), q) /\ capPermissionsFits(CapAt(place), q)
    BY <1>1 DEF fitting
<1> QED
    BY <1>2, <1>3

\* A caller's request that applyTokenCaps lets through: what goes to GitHub is
\* within the request, and within one cap unless the caller is unbounded.
LEMMA LetThrough ==
    ASSUME rules \in Configs, parseGitHubRuleSources, NEW who, who # Nil, NEW q \in Asks,
           Allows(who, TokenTool), TokenCapsFrom(who) # {} => fitting(who, q) # {}
    PROVE  /\ Applied(who, q) \in Asks
           /\ AskPowers(Applied(who, q)) \subseteq AskPowers(q)
           /\ \/ UnboundedFor(who) /\ Applied(who, q) = q
              \/ \E c \in CapsOf(who) :
                    AskPowers(Applied(who, q)) \subseteq CapPowers(c) /\ Parsed(c, who.repository)
           /\ guardSelfWorkflows(who, Applied(who, q)) => UnboundedFor(who)
<1>1. CASE TokenCapsFrom(who) = {}
    BY <1>1, NoCapsIsUnbounded DEF Applied
<1>2. CASE TokenCapsFrom(who) # {}
    <2>1. PICK place \in TokenCapsFrom(who) :
              /\ Applied(who, q) = applyTokenCap(CapAt(place), q)
              /\ fitsRepositories(CapAt(place), q) /\ capPermissionsFits(CapAt(place), q)
        BY <1>2, AppliedFrom
    <2>2. CapAt(place) \in CapsOf(who) /\ Parsed(CapAt(place), who.repository)
        BY PlacesAreCaps
    <2>3. /\ Applied(who, q) \in Asks
          /\ AskPowers(Applied(who, q)) \subseteq AskPowers(q)
          /\ AskPowers(Applied(who, q)) \subseteq CapPowers(CapAt(place))
        BY <2>1, <2>2, CapIsKept DEF Parsed
    <2>4. ~guardSelfWorkflows(who, Applied(who, q))
        BY <2>1, <2>2, GuardHasNothingLeft DEF Parsed
    <2> QED
        BY <2>2, <2>3, <2>4
<1> QED
    BY <1>1, <1>2

\* A request that fits no cap and names everything is in no cap.
LEMMA RefusedByAll ==
    ASSUME rules \in Configs, parseGitHubRuleSources, NEW who, who # Nil, NEW q \in Asks,
           TokenCapsFrom(who) # {}, fitting(who, q) = {},
           NamesRepos(q.repositories), NamesPerms(q.permissions),
           \A p \in DOMAIN q.permissions : q.permissions[p] # 0
    PROVE  ~UnboundedFor(who) /\ \A c \in CapsOf(who) : ~(AskPowers(q) \subseteq CapPowers(c))
<1>1. ~UnboundedFor(who)
    BY CapsArePlaces
<1>2. ASSUME NEW c \in CapsOf(who) PROVE ~(AskPowers(q) \subseteq CapPowers(c))
    <2>1. PICK place \in TokenCapsFrom(who) : c = CapAt(place)
        BY CapsArePlaces
    <2>2. Parsed(c, who.repository)
        BY <2>1, PlacesAreCaps
    <2>3. ~(fitsRepositories(c, q) /\ capPermissionsFits(c, q))
        BY <2>1 DEF fitting
    <2> QED
        BY <2>2, <2>3, RefusalIsReal DEF Parsed
<1> QED
    BY <1>1, <1>2

\* guardSelfWorkflows keeps workflows on the own repository out of what goes to
\* GitHub, if that names repositories and permissions or leaves them out.
LEMMA GuardKeepsWorkflows ==
    ASSUME NEW who, who # Nil, NEW a \in Asks, ~guardSelfWorkflows(who, a), ~NamesNothing(a)
    PROVE  \A l \in 1..MaxLevel : <<who.repository, "workflows", l>> \notin AskPowers(a)
<1> SUFFICES ASSUME NEW l \in 1..MaxLevel, <<who.repository, "workflows", l>> \in AskPowers(a) PROVE FALSE
    OBVIOUS
<1>0. /\ a.repositories # Nil => NamesRepos(a.repositories)
      /\ a.permissions # Nil => NamesPerms(a.permissions)
    BY DEF NamesNothing, NamesRepos, NamesPerms
<1>1. /\ a.repositories # Nil => who.repository \in a.repositories
      /\ a.permissions # Nil => l <= Level(a.permissions, "workflows")
    BY <1>0, PowerMeans DEF AskPowers
<1>2. a.permissions # Nil => "workflows" \in DOMAIN a.permissions
    BY <1>1, MaxLevelAssumption DEF Level
<1> QED
    BY <1>1, <1>2 DEF guardSelfWorkflows, SelfRepository

-----------------------------------------------------------------------------
\* Types and stages.

\* What came back from GitHub are permissions.
LEMMA ReturnedType == \A perms \in PermSets : Returned(perms) \subseteq PermSets
<1> SUFFICES ASSUME NEW perms \in PermSets, NEW t \in Returned(perms) PROVE t \in PermSets
    OBVIOUS
<1>0. DOMAIN perms \in SUBSET Perms /\ perms \in [DOMAIN perms -> 0..MaxLevel]
    BY PermSetsType
<1>1. CASE t = perms
    BY <1>1
<1>2. ASSUME NEW e \in Excluded, t = [p \in DOMAIN perms \cup {e} |-> IF p = e THEN 2 ELSE perms[p]]
      PROVE  t \in PermSets
    <2>1. DOMAIN perms \cup {e} \in SUBSET Perms
        BY <1>0, PermsAssumption
    <2>2. t \in [DOMAIN perms \cup {e} -> 0..MaxLevel]
        BY <1>0, <1>2, MaxLevelAssumption
    <2> QED
        BY <2>1, <2>2 DEF PermSets
<1>3. ASSUME NEW held \in SUBSET Perms, t \in [held -> 1..2] PROVE t \in PermSets
    <2>1. t \in [held -> 0..MaxLevel]
        BY <1>3, MaxLevelAssumption
    <2> QED
        BY <2>1 DEF PermSets
<1> QED
    BY <1>1, <1>2, <1>3 DEF Returned

\* What the installation holds, excluded writes lowered, are permissions.
LEMMA LoweredType ==
    ASSUME NEW held \in SUBSET Perms, NEW installed \in [held -> 1..2]
    PROVE  [p \in held |-> IF p \in Excluded /\ installed[p] = 2 THEN 1 ELSE installed[p]] \in PermSets
<1>1. [p \in held |-> IF p \in Excluded /\ installed[p] = 2 THEN 1 ELSE installed[p]]
          \in [held -> 0..MaxLevel]
    BY MaxLevelAssumption
<1> QED
    BY <1>1 DEF PermSets

\* A commit status asks for write on statuses.
LEMMA StatusPermission == [p \in {"statuses"} |-> 2] \in PermSets
<1>1. [p \in {"statuses"} |-> 2] \in [{"statuses"} -> 0..MaxLevel] /\ {"statuses"} \in SUBSET Perms
    BY MaxLevelAssumption, PermsAssumption
<1> QED
    BY <1>1 DEF PermSets

\* The request before there is one is a request.
LEMMA NothingType == Nothing \in Asks
<1>1. [p \in {} |-> 0] \in [{} -> 0..MaxLevel] /\ {} \in SUBSET Perms
    OBVIOUS
<1>2. [p \in {} |-> 0] \in PermSets
    BY <1>1 DEF PermSets
<1> QED
    BY <1>2 DEF Nothing, Asks

\* The state of the server before its start, and of a call before it arrives.
LEMMA Initially == Init => Inv
<1> SUFFICES ASSUME Init PROVE Inv
    OBVIOUS
<1>1. ScopeTypeOK
    BY NothingType DEF Init, ScopeTypeOK
<1>2. StageInv /\ BootInv /\ StatusInv /\ TokensAreAccountedFor /\ CapsAreKept
    BY DEF Init, StageInv, BootInv, StatusInv, TokensAreAccountedFor, CapsAreKept
<1> QED
    BY <1>1, <1>2 DEF Inv

\* effectivePermissions replaces omitted permissions by named ones, and nothing else.
LEMMA EffectivePermissions ==
    ASSUME ScopeTypeOK, effectivePermissions
    PROVE  /\ asked' \in Asks /\ asked'.repositories = asked.repositories
           /\ asked.permissions # Nil => asked' = asked
           /\ stage' = "mint" => asked'.permissions \in PermSets
<1>0. asked \in Asks
    BY DEF ScopeTypeOK
<1>1. CASE asked' = asked /\ asked.permissions # Nil
    BY <1>0, <1>1 DEF Asks
<1>2. ASSUME NEW held \in SUBSET Perms, NEW installed \in [held -> 1..2], asked.permissions = Nil,
             asked' = [asked EXCEPT !.permissions =
                 [p \in held |-> IF p \in Excluded /\ installed[p] = 2 THEN 1 ELSE installed[p]]]
      PROVE  /\ asked' \in Asks /\ asked'.repositories = asked.repositories
             /\ asked.permissions = Nil /\ asked'.permissions \in PermSets
    <2> DEFINE lowered == [p \in held |-> IF p \in Excluded /\ installed[p] = 2 THEN 1 ELSE installed[p]]
    <2>1. lowered \in PermSets
        BY LoweredType
    <2> HIDE DEF lowered
    <2>2. asked' = [asked EXCEPT !.permissions = lowered]
        BY <1>2 DEF lowered
    <2> QED
        BY <1>0, <1>2, <2>1, <2>2 DEF Asks
<1>3. \/ asked' = asked /\ asked.permissions # Nil
      \/ \E held \in SUBSET Perms : \E installed \in [held -> 1..2] :
            /\ asked.permissions = Nil
            /\ asked' = [asked EXCEPT !.permissions =
                 [p \in held |-> IF p \in Excluded /\ installed[p] = 2 THEN 1 ELSE installed[p]]]
    BY DEF effectivePermissions
<1> QED
    BY <1>1, <1>2, <1>3

\* Every step keeps the types and what a stage says.
LEMMA StageStep == Inv /\ [Next]_vars => (ScopeTypeOK /\ StageInv /\ BootInv)'
<1> SUFFICES ASSUME Inv, [Next]_vars PROVE (ScopeTypeOK /\ StageInv /\ BootInv)'
    OBVIOUS
<1>0. ScopeTypeOK /\ StageInv /\ BootInv
    BY DEF Inv
<1> DEFINE Goal == (ScopeTypeOK /\ StageInv /\ BootInv)'
<1> USE DEF callVars, githubVars, Finish, GoTo
\* A step that ends the call, without touching what it holds.
<1>e. ASSUME NEW o, o # "none", Finish(o), stage \notin {"boot", "down"}, caller' \in Callers \cup {Nil},
             request' \in Asks, asked' \in Asks, UNCHANGED <<rules, token, live>>
      PROVE  Goal
    BY <1>0, <1>e DEF ScopeTypeOK, StageInv, BootInv, parseGitHubRuleSources
<1>1. CASE Boot
    BY <1>0, <1>1 DEF Boot, ScopeTypeOK, StageInv, BootInv, parseGitHubRuleSources
<1>2. ASSUME NEW who \in Callers, NEW t \in ToolNames, Refuse(who, t) PROVE Goal
    BY <1>0, <1>2, <1>e DEF Refuse, ScopeTypeOK
<1>3. ASSUME NEW who \in Callers, NEW q \in Asks, githubAppInstallationToken(who, q) PROVE Goal
    <2>1. asked' \in Asks
        <3>1. rules \in Configs /\ parseGitHubRuleSources /\ Allows(who, TokenTool)
            BY <1>0, <1>3 DEF BootInv, githubAppInstallationToken
        <3>2. CASE UNCHANGED asked
            BY <1>0, <3>2 DEF ScopeTypeOK
        <3>3. CASE asked' = Applied(who, q) /\ (TokenCapsFrom(who) # {} => fitting(who, q) # {})
            <4>1. CASE who = Nil
                BY <3>3, <4>1 DEF Applied, TokenCapsFrom
            <4>2. CASE who # Nil
                BY <3>1, <3>3, <4>2, LetThrough
            <4> QED
                BY <4>1, <4>2
        <3> QED
            BY <1>3, <3>2, <3>3 DEF githubAppInstallationToken
    <2>2. /\ stage = "ready" /\ caller' = who /\ tool' = TokenTool /\ request' = q
          /\ UNCHANGED <<rules, token, live, written, lost>>
        BY <1>3 DEF githubAppInstallationToken
    <2>3. CASE stage' = "permissions" /\ UNCHANGED outcome
        BY <1>0, <2>1, <2>2, <2>3 DEF ScopeTypeOK, StageInv, BootInv, parseGitHubRuleSources
    <2>4. CASE \E o \in {"outside caps", "ambiguous", "own workflows"} : Finish(o)
        BY <1>e, <2>1, <2>2, <2>4
    <2> QED
        BY <1>3, <2>3, <2>4 DEF githubAppInstallationToken
<1>4. ASSUME NEW who \in Callers, NEW repo \in Repos, githubCommitStatusCreate(who, repo) PROVE Goal
    <2> DEFINE perms == [p \in {"statuses"} |-> 2]
    <2>1. perms \in PermSets
        BY StatusPermission
    <2>2. request' = [repositories |-> {repo}, permissions |-> perms]
        BY <1>4 DEF githubCommitStatusCreate
    <2> HIDE DEF perms
    <2>3. request' \in Asks /\ request'.permissions \in PermSets
        BY <2>1, <2>2 DEF Asks
    <2>4. /\ stage = "ready" /\ caller' = who /\ tool' = StatusTool
          /\ UNCHANGED <<rules, asked, token, live, written, lost>>
        BY <1>4 DEF githubCommitStatusCreate
    <2>5. CASE Finish("invalid")
        BY <1>0, <1>e, <2>3, <2>4, <2>5 DEF ScopeTypeOK
    <2>6. CASE GoTo("owner")
        BY <1>0, <2>3, <2>4, <2>6 DEF ScopeTypeOK, StageInv, BootInv, parseGitHubRuleSources
    <2> QED
        BY <1>4, <2>5, <2>6 DEF githubCommitStatusCreate
<1>5. CASE effectivePermissions
    <2>1. /\ stage = "permissions" /\ asked' \in Asks
          /\ stage' = "mint" => asked'.permissions \in PermSets
          /\ UNCHANGED <<rules, caller, tool, request, token, live, written, lost>>
        BY <1>0, <1>5, EffectivePermissions DEF effectivePermissions
    <2>2. CASE Finish("rejected")
        BY <1>0, <1>e, <2>1, <2>2 DEF ScopeTypeOK
    <2>3. CASE GoTo("mint")
        BY <1>0, <2>1, <2>3 DEF ScopeTypeOK, StageInv, BootInv, parseGitHubRuleSources
    <2> QED
        BY <1>5, <2>2, <2>3 DEF effectivePermissions
<1>6. CASE installationOwner
    BY <1>0, <1>6 DEF installationOwner, ScopeTypeOK, StageInv, BootInv, parseGitHubRuleSources
<1>7. CASE Unavailable \/ appJWTFails \/ fetchInstallationFails \/ mintFails
    BY <1>0, <1>7, <1>e DEF Unavailable, appJWTFails, fetchInstallationFails, mintFails, ScopeTypeOK
<1>8. CASE mintInstallationToken
    <2>1. token' \in PermSets /\ token' # Nil
        BY <1>0, <1>8, ReturnedType, NilAssumption DEF mintInstallationToken, StageInv
    <2>2. stage = "mint" /\ live' = TRUE /\ UNCHANGED <<rules, caller, tool, request, asked, written>>
        BY <1>8 DEF mintInstallationToken
    <2>3. \/ tool = StatusTool /\ GoTo("post")
          \/ tool # StatusTool /\ GoTo("revoke")
          \/ Finish("token") \/ Finish("error")
        BY <1>8 DEF mintInstallationToken
    <2> QED
        BY <1>0, <2>1, <2>2, <2>3 DEF ScopeTypeOK, StageInv, BootInv, parseGitHubRuleSources
<1>9. CASE postCommitStatus
    BY <1>0, <1>9 DEF postCommitStatus, ScopeTypeOK, StageInv, BootInv, parseGitHubRuleSources
<1>10. CASE revokeToken
    BY <1>0, <1>10 DEF revokeToken, ScopeTypeOK, StageInv, BootInv, parseGitHubRuleSources
<1>11. CASE CallerLeaves \/ UNCHANGED vars
    BY <1>0, <1>11 DEF CallerLeaves, vars, ScopeTypeOK, StageInv, BootInv, parseGitHubRuleSources
<1> QED
    BY <1>1, <1>2, <1>3, <1>4, <1>5, <1>6, <1>7, <1>8, <1>9, <1>10, <1>11 DEF Next

-----------------------------------------------------------------------------
\* Tokens, statuses and caps.

\* CreateInstallationToken withholds and revokes what carries an excluded write;
\* a token that is minted and not handed out is revoked before the call ends.
LEMMA TokenStep == Inv /\ [Next]_vars => (TokensAreAccountedFor /\ StatusInv)'
<1> SUFFICES ASSUME Inv, [Next]_vars PROVE (TokensAreAccountedFor /\ StatusInv)'
    OBVIOUS
<1>0. ScopeTypeOK /\ StageInv /\ TokensAreAccountedFor /\ StatusInv
    BY DEF Inv
<1> DEFINE Goal == (TokensAreAccountedFor /\ StatusInv)'
<1> USE DEF callVars, githubVars, Finish, GoTo
\* A step before the mint.
<1>e. ASSUME stage \in {"boot", "down", "ready", "permissions", "owner", "mint"},
             UNCHANGED <<token, live, written, lost>>, outcome' \notin {"token", "status"}
      PROVE  Goal
    BY <1>0, <1>e DEF StageInv, TokensAreAccountedFor, StatusInv
<1>k. stage \in {"boot", "down", "ready", "permissions", "owner", "mint"} => outcome = "none"
    BY <1>0 DEF ScopeTypeOK
<1>1. CASE Boot
    BY <1>1, <1>e, <1>k DEF Boot
<1>2. ASSUME NEW who \in Callers, NEW t \in ToolNames, Refuse(who, t) PROVE Goal
    BY <1>2, <1>e DEF Refuse
<1>3. ASSUME NEW who \in Callers, NEW q \in Asks, githubAppInstallationToken(who, q) PROVE Goal
    BY <1>3, <1>e, <1>k DEF githubAppInstallationToken
<1>4. ASSUME NEW who \in Callers, NEW repo \in Repos, githubCommitStatusCreate(who, repo) PROVE Goal
    BY <1>4, <1>e, <1>k DEF githubCommitStatusCreate
<1>5. CASE effectivePermissions \/ installationOwner
    BY <1>5, <1>e, <1>k DEF effectivePermissions, installationOwner
<1>6. CASE Unavailable \/ appJWTFails \/ fetchInstallationFails \/ mintFails
    BY <1>6, <1>e DEF Unavailable, appJWTFails, fetchInstallationFails, mintFails
<1>7. CASE mintInstallationToken
    <2>1. stage = "mint" /\ ~written /\ outcome = "none" /\ UNCHANGED written
        BY <1>0, <1>7, <1>k DEF mintInstallationToken, StageInv
    <2>2. \/ (GoTo("post") \/ GoTo("revoke")) /\ UNCHANGED lost
          \/ (\A p \in Excluded : Level(token', p) # 2) /\ Finish("token") /\ UNCHANGED lost
          \/ Finish("error") /\ lost' = lost \cup {"mint"}
        BY <1>7 DEF mintInstallationToken
    <2> QED
        BY <2>1, <2>2 DEF TokensAreAccountedFor, StatusInv
<1>8. CASE postCommitStatus
    BY <1>0, <1>8 DEF postCommitStatus, StageInv, TokensAreAccountedFor, StatusInv
<1>9. CASE revokeToken
    <2>1. /\ outcome' = IF outcome = "none" THEN "error" ELSE outcome
          /\ UNCHANGED <<token, written>> /\ lost \subseteq lost'
          /\ ~live' \/ "revoke" \in lost'
        BY <1>9 DEF revokeToken
    <2> QED
        BY <1>0, <2>1 DEF TokensAreAccountedFor, StatusInv
<1>10. CASE CallerLeaves \/ UNCHANGED vars
    BY <1>0, <1>10 DEF CallerLeaves, vars, TokensAreAccountedFor, StatusInv
<1> QED
    BY <1>1, <1>2, <1>3, <1>4, <1>5, <1>6, <1>7, <1>8, <1>9, <1>10 DEF Next

\* The rules do not change, so neither do the caps of a caller.
LEMMA CapsOfStay == UNCHANGED <<rules, caller>> => CallersCaps' = CallersCaps /\ Unbounded' = Unbounded
BY DEF CallersCaps, Unbounded, Matching

\* The request is judged in one step; afterwards effectivePermissions can only
\* take away from what goes to GitHub.
LEMMA CapsStep == Inv /\ [Next]_vars => CapsAreKept'
<1> SUFFICES ASSUME Inv, [Next]_vars PROVE CapsAreKept'
    OBVIOUS
<1>0. ScopeTypeOK /\ StageInv /\ BootInv /\ CapsAreKept
    BY DEF Inv
<1> USE DEF callVars, githubVars, Finish, GoTo
\* Nothing goes to GitHub yet, or any more, and the outcome is not a refusal of caps.
<1>n. ASSUME stage' \notin {"permissions", "mint"}, outcome' \notin {"outside caps", "own workflows"}
      PROVE  CapsAreKept'
    BY <1>n DEF CapsAreKept
<1>s. ASSUME tool' = StatusTool PROVE CapsAreKept'
    BY <1>s DEF CapsAreKept, StatusTool, TokenTool
<1>1. CASE Boot
    BY <1>0, <1>1, <1>n DEF Boot, ScopeTypeOK
<1>2. ASSUME NEW who \in Callers, NEW t \in ToolNames, Refuse(who, t) PROVE CapsAreKept'
    BY <1>2, <1>n DEF Refuse
<1>3. ASSUME NEW who \in Callers, NEW q \in Asks, githubAppInstallationToken(who, q) PROVE CapsAreKept'
    <2> SUFFICES ASSUME who # Nil PROVE CapsAreKept'
        BY <1>3 DEF githubAppInstallationToken, CapsAreKept
    <2>1. rules \in Configs /\ parseGitHubRuleSources /\ Allows(who, TokenTool) /\ outcome = "none"
        BY <1>0, <1>3 DEF BootInv, ScopeTypeOK, githubAppInstallationToken
    <2>2. caller' = who /\ tool' = TokenTool /\ request' = q /\ UNCHANGED rules
        BY <1>3 DEF githubAppInstallationToken
    <2>3. CallersCaps' = CapsOf(who) /\ (Unbounded' <=> UnboundedFor(who))
        BY <2>2 DEF CallersCaps, Unbounded, CapsOf, UnboundedFor, Matching
    <2>4. CASE TokenCapsFrom(who) # {} /\ fitting(who, q) = {} /\ Finish("outside caps")
        <3>1. ASSUME NamesRepos(q.repositories), NamesPerms(q.permissions),
                     \A p \in DOMAIN q.permissions : q.permissions[p] # 0
              PROVE  ~UnboundedFor(who) /\ \A c \in CapsOf(who) : ~(AskPowers(q) \subseteq CapPowers(c))
            BY <2>1, <2>4, <3>1, RefusedByAll
        <3> QED
            BY <2>2, <2>3, <2>4, <3>1 DEF CapsAreKept, AskPowers, CapPowers
    <2>5. CASE Finish("ambiguous")
        BY <1>n, <2>5
    <2>6. CASE /\ TokenCapsFrom(who) # {} => fitting(who, q) # {}
               /\ IF guardSelfWorkflows(who, Applied(who, q)) THEN Finish("own workflows")
                  ELSE GoTo("permissions") /\ asked' = Applied(who, q)
        <3>1. /\ Applied(who, q) \in Asks
              /\ AskPowers(Applied(who, q)) \subseteq AskPowers(q)
              /\ \/ UnboundedFor(who) /\ Applied(who, q) = q
                 \/ \E c \in CapsOf(who) :
                       AskPowers(Applied(who, q)) \subseteq CapPowers(c) /\ Parsed(c, who.repository)
              /\ guardSelfWorkflows(who, Applied(who, q)) => UnboundedFor(who)
            BY <2>1, <2>6, LetThrough
        <3>2. CASE guardSelfWorkflows(who, Applied(who, q))
            BY <2>3, <2>6, <3>1, <3>2 DEF CapsAreKept
        <3>3. CASE ~guardSelfWorkflows(who, Applied(who, q))
            <4>1. ASSUME NEW l \in 1..MaxLevel, <<who.repository, "workflows", l>> \in AskPowers(Applied(who, q))
                  PROVE  UnboundedFor(who) /\ NamesNothing(q)
                <5>1. ~ \E c \in CapsOf(who) :
                           AskPowers(Applied(who, q)) \subseteq CapPowers(c) /\ Parsed(c, who.repository)
                    BY <4>1, CapsHoldNoWorkflows DEF Parsed
                <5>2. UnboundedFor(who) /\ Applied(who, q) = q
                    BY <3>1, <5>1
                <5> QED
                    BY <3>1, <3>3, <4>1, <5>2, GuardKeepsWorkflows
            <4>2. asked' = Applied(who, q) /\ stage' = "permissions" /\ outcome' = "none"
                BY <2>1, <2>6, <3>3
            <4> QED
                BY <2>2, <2>3, <3>1, <4>1, <4>2 DEF CapsAreKept, AskPowers, CapPowers
        <3> QED
            BY <3>2, <3>3
    <2> QED
        BY <1>3, <2>4, <2>5, <2>6 DEF githubAppInstallationToken
<1>4. ASSUME NEW who \in Callers, NEW repo \in Repos, githubCommitStatusCreate(who, repo)
      PROVE  CapsAreKept'
    BY <1>4, <1>s DEF githubCommitStatusCreate
<1>5. CASE effectivePermissions
    <2>1. /\ stage = "permissions" /\ UNCHANGED <<rules, caller, tool, request>>
          /\ stage' = "mint" \/ (stage' = "done" /\ outcome' = "rejected")
          /\ outcome' \in {outcome, "rejected"} /\ outcome = "none"
        BY <1>0, <1>5 DEF effectivePermissions, ScopeTypeOK
    <2>2. /\ asked'.repositories = asked.repositories
          /\ asked.permissions # Nil => asked' = asked
        BY <1>0, <1>5, EffectivePermissions
    <2>3. AskPowers(asked') \subseteq AskPowers(asked)
        <3>1. CASE asked.permissions # Nil
            BY <2>2, <3>1
        <3>2. CASE asked.permissions = Nil
            BY <2>2, <3>2, PowersWithin DEF AskPowers, NamesPerms
        <3> QED
            BY <3>1, <3>2
    <2>4. CallersCaps' = CallersCaps /\ Unbounded' = Unbounded
        BY <2>1, CapsOfStay
    <2> QED
        BY <1>0, <2>1, <2>3, <2>4 DEF CapsAreKept, AskPowers, CapPowers
<1>6. CASE installationOwner
    BY <1>0, <1>6, <1>s DEF installationOwner, StageInv
<1>7. CASE Unavailable \/ appJWTFails \/ fetchInstallationFails \/ mintFails
    BY <1>7, <1>n DEF Unavailable, appJWTFails, fetchInstallationFails, mintFails
<1>8. CASE mintInstallationToken
    BY <1>0, <1>8, <1>n DEF mintInstallationToken, ScopeTypeOK
<1>9. CASE postCommitStatus
    BY <1>9, <1>n DEF postCommitStatus
<1>10. CASE revokeToken
    BY <1>0, <1>10, <1>n DEF revokeToken, StageInv
<1>11. CASE CallerLeaves \/ UNCHANGED vars
    <2>1. UNCHANGED <<rules, stage, caller, tool, request, asked, outcome>>
        BY <1>11 DEF CallerLeaves, vars
    <2>2. CallersCaps' = CallersCaps /\ Unbounded' = Unbounded
        BY <2>1, CapsOfStay
    <2> QED
        BY <1>0, <2>1, <2>2 DEF CapsAreKept, AskPowers, CapPowers
<1> QED
    BY <1>1, <1>2, <1>3, <1>4, <1>5, <1>6, <1>7, <1>8, <1>9, <1>10, <1>11 DEF Next

-----------------------------------------------------------------------------
\* The theorems.

\* The inductive invariant of the scopes holds in every reachable state.
LEMMA Invariance == Spec => []Inv
<1>1. Inv /\ [Next]_vars => Inv'
    BY StageStep, TokenStep, CapsStep DEF Inv
<1> QED
    BY <1>1, Initially, PTL DEF Spec

\* Every variable keeps its type for every configuration of rules.
THEOREM TypeCorrect == Spec => []ScopeTypeOK
BY Invariance, PTL DEF Inv

\* The caps decide, for every configuration, even if GitHub reads a list or an
\* object that names nothing as everything: what goes to GitHub is within the
\* request and one cap, what is refused exceeds every cap, and no caller with caps
\* gets workflows on its own repository, nor does the start leave the guard on it
\* anything to refuse of such a caller.  A caller without caps gets them only
\* through a request with an empty list or object in it, which that guard passes.
THEOREM CapsDecide == Spec => []CapsAreKept
BY Invariance, PTL DEF Inv

\* No token with an excluded write is handed out, and one that is withheld is
\* dead unless the exchange with GitHub about it was lost (CreateInstallationToken).
THEOREM TokensAccounted == Spec => []TokensAreAccountedFor
BY Invariance, PTL DEF Inv

\* The deferred revoke never changes what is reported about a commit status.
THEOREM StatusReport == Spec => []StatusReportIsTrue
<1>1. Inv => StatusReportIsTrue
    BY DEF Inv, StatusInv, StatusReportIsTrue
<1> QED
    BY <1>1, Invariance, PTL
=============================================================================

------------------------- MODULE CollectionSnapshot -------------------------
(***************************************************************************)
(* KubeService.ListTargets: a selection is read page by page while it      *)
(* changes, and what is returned must be one complete state of it, for it  *)
(* is what the operator approves and what the second listing is compared   *)
(* with; DeleteCollection.tla takes it for an atomic read.  Everything     *)
(* else ends the call.  The apiserver promises pages of one snapshot; the  *)
(* code checks what it can of that, so the server here may also move on to *)
(* a newer state, start again, repeat its cursor, stop short with or       *)
(* without saying so, or fail.  A page says truthfully which revision it   *)
(* is of, and leaves no gap before its last name.                          *)
(***************************************************************************)
EXTENDS Discovery, Sequences

CONSTANTS
    Listers,      \* the calls that list targets; the others read once
    Selection,    \* the kind whose objects the selector may match
    Names,        \* the number of names it may match; a name is its rank in list order
    PageSize,     \* collectionPageSize
    MaxPages,     \* collectionMaxPages
    MaxTargets,   \* collectionMaxTargets
    MaxRevision   \* bound: the collection stops changing at this revision

ASSUME ListersAssumption == Listers \subseteq Calls /\ Selection \in Kinds
ASSUME BoundsAssumption ==
    /\ Names \in Nat /\ MaxRevision \in Nat \ {0}
    /\ {PageSize, MaxPages, MaxTargets} \subseteq Nat \ {0}

VARIABLES
    past,      \* the collection at each revision since a call first listed it, the
               \* last being now: functions from names to resourceVersions
    pages,     \* pages each lister has read
    targets,   \* the targets it has gathered, a function from names
    pinned,    \* the resourceVersion of its first page, 0 before that
    cursor,    \* the last name its cursor stands for, 0 for the beginning
    cursors,   \* cursors it was given
    begun,     \* history: the revision when its listing began
    strayed,   \* history: listers whose server did not keep to the snapshot
    hushed     \* history: those it gave an end of the list that was none, unsaid

snapshotVars == <<pages, targets, pinned, cursor, cursors, begun, strayed, hushed>>
vars == <<discoveryVars, past, snapshotVars>>

Now == Len(past)
Empty == [n \in {} |-> 0]

Init ==
    /\ DiscoveryInit
    /\ \A c \in Listers : kind[c] = Selection
    /\ past = <<>>
    /\ pages = [c \in Listers |-> 0]
    /\ targets = [c \in Listers |-> Empty]
    /\ pinned = [c \in Listers |-> 0]
    /\ cursor = [c \in Listers |-> 0]
    /\ cursors = [c \in Listers |-> {}]
    /\ begun = [c \in Listers |-> 0]
    /\ strayed = {}
    /\ hushed = {}

-----------------------------------------------------------------------------
\* Someone creates, changes or deletes an object the selector matches.
ChangeObject(n) ==
    LET now == past[Now] IN
    /\ Now \in 1..(MaxRevision - 1)
    /\ \/ past' = Append(past, [m \in DOMAIN now \cup {n} |-> IF m = n THEN Now + 1 ELSE now[m]])
       \/ /\ n \in DOMAIN now
          /\ past' = Append(past, [m \in DOMAIN now \ {n} |-> now[m]])
    /\ UNCHANGED <<discoveryVars, snapshotVars>>

\* The kind is resolved; a cluster-scoped one ends the call.  Whatever the
\* collection holds when it is first looked at is revision 1.
StartListing(c) ==
    /\ stage[c] = "known"
    /\ \/ objectNamespaceRefuses(c) /\ UNCHANGED <<begun, past>>
       \/ /\ GoTo(c, "page")
          /\ past' \in IF past = <<>> THEN {<<[n \in S |-> 1]>> : S \in SUBSET (1..Names)}
                                   ELSE {past}
          /\ begun' = [begun EXCEPT ![c] = Len(past')]
    /\ UNCHANGED <<clusterVars, mapperVars, resolveVars, pages, targets, pinned,
                   cursor, cursors, strayed, hushed>>

\* The names of state S after rank n, cut to a page of at most size names.
PageNames(S, n, size) ==
    {m \in DOMAIN S : m > n /\ Cardinality({k \in DOMAIN S : n < k /\ k <= m}) <= size}

\* What a page brings: the revision it is of, its names, the rank its cursor
\* stands for (0: none) and how many objects it says remain (0: none, or unsaid:
\* a list with a selector does not say).
\* A server that keeps to the snapshot answers from the pinned revision, the
\* first page from the current one.
HonestPages(c) ==
    LET rv == IF pages[c] = 0 THEN Now ELSE pinned[c]
        S == past[rv]
    IN {[rv |-> rv, names |-> ns,
         next |-> IF \E m \in DOMAIN S : m > cursor[c] /\ m \notin ns
                  THEN CHOOSE m \in ns : \A k \in ns : k <= m ELSE 0,
         remaining |-> 0] :
            ns \in {PageNames(S, cursor[c], size) : size \in 1..PageSize}}

\* The pages of a server that does not: of the current state, of the beginning
\* again, with a cursor it has already given, or without one although it says that
\* objects remain.
MovedPages(c) ==
    {[p EXCEPT !.rv = Now, !.names = PageNames(past[Now], cursor[c], PageSize)] :
        p \in {q \in HonestPages(c) : Now # q.rv}}
RestartedPages(c) ==
    {[p EXCEPT !.names = PageNames(past[p.rv], 0, PageSize)] :
        p \in {q \in HonestPages(c) : cursor[c] # 0}}
RepeatingPages(c) ==
    UNION {{[p EXCEPT !.next = k] : p \in HonestPages(c)} : k \in cursors[c]}
CutPages(c) ==
    {[p EXCEPT !.next = 0, !.remaining = 1] : p \in {q \in HonestPages(c) : q.next # 0}}
StrayPages(c) == MovedPages(c) \cup RestartedPages(c) \cup RepeatingPages(c) \cup CutPages(c)

\* A page without a cursor although objects remain, and with no count of them:
\* nothing in it tells it from the last one.
HushedPages(c) == {[p EXCEPT !.next = 0] : p \in {q \in HonestPages(c) : q.next # 0}}

\* Mutants: any resourceVersion will do; the limit is exclusive; the limit is a
\* page's, not the snapshot's.
OneSnapshotUnchecked(c, p) == TRUE
WithinTargetsExclusive(c, p) == Cardinality(DOMAIN targets[c]) + Cardinality(p.names) < MaxTargets
WithinTargetsOfPage(c, p) == Cardinality(p.names) <= MaxTargets

\* The checks on a page, in their order.
OneSnapshot(c, p) == pages[c] > 0 => p.rv = pinned[c]
WithinTargets(c, p) == Cardinality(DOMAIN targets[c]) + Cardinality(p.names) <= MaxTargets
Distinct(c, p) == DOMAIN targets[c] \cap p.names = {}
Complete(c, p) == p.next = 0 => p.remaining = 0
FreshCursor(c, p) == p.next \notin cursors[c]

\* The call returns, and its cursors with it; only a snapshot is handed out.
Refuse(c, o) ==
    /\ Finish(c, o)
    /\ targets' = [targets EXCEPT ![c] = Empty]
    /\ cursor' = [cursor EXCEPT ![c] = 0]
    /\ cursors' = [cursors EXCEPT ![c] = {}]

\* The page is taken in, and was the last one or leads to the next; after the
\* last page allowed the next is not asked for.
TakePage(c, p) ==
    /\ targets' = [targets EXCEPT ![c] =
          [n \in DOMAIN @ \cup p.names |-> IF n \in p.names THEN past[p.rv][n] ELSE @[n]]]
    /\ IF p.next = 0
       THEN /\ Finish(c, "snapshot")
            /\ cursor' = [cursor EXCEPT ![c] = 0]
            /\ cursors' = [cursors EXCEPT ![c] = {}]
       ELSE /\ GoTo(c, "page")
            /\ cursor' = [cursor EXCEPT ![c] = p.next]
            /\ cursors' = [cursors EXCEPT ![c] = @ \cup {p.next}]

ReadPage(c, p) ==
    /\ pages' = [pages EXCEPT ![c] = @ + 1]
    /\ pinned' = [pinned EXCEPT ![c] = IF OneSnapshot(c, p) THEN p.rv ELSE @]
    /\ CASE ~OneSnapshot(c, p) -> Refuse(c, "moved")
         [] OneSnapshot(c, p) /\ ~WithinTargets(c, p) -> Refuse(c, "too many targets")
         [] OneSnapshot(c, p) /\ WithinTargets(c, p) /\ ~Distinct(c, p) -> Refuse(c, "duplicate")
         [] OTHER ->
              CASE ~Complete(c, p) -> Refuse(c, "incomplete")
                [] ~FreshCursor(c, p) -> Refuse(c, "repeated cursor")
                [] Complete(c, p) /\ FreshCursor(c, p) /\ p.next # 0 /\ pages'[c] = MaxPages ->
                     Refuse(c, "too many pages")
                [] OTHER -> TakePage(c, p)

ListPage(c) ==
    /\ stage[c] = "page"
    /\ \/ /\ \E p \in HonestPages(c) : ReadPage(c, p)
          /\ UNCHANGED <<strayed, hushed>>
       \/ /\ \E p \in StrayPages(c) : ReadPage(c, p)
          /\ strayed' = strayed \cup {c}
          /\ UNCHANGED hushed
       \/ /\ \E p \in HushedPages(c) : ReadPage(c, p)
          /\ strayed' = strayed \cup {c}
          /\ hushed' = hushed \cup {c}
    /\ UNCHANGED <<clusterVars, mapperVars, resolveVars, past, begun>>

\* The request fails (the server may have let go of the snapshot), or the answer
\* is no list of metadata, or an item of it is incomplete or of another namespace.
ListPageFails(c) ==
    /\ stage[c] = "page"
    /\ Refuse(c, "request failed")
    /\ UNCHANGED <<clusterVars, mapperVars, resolveVars, past, pages, pinned, begun, strayed,
                   hushed>>

Step(c) ==
    \/ Resolve(c) /\ UNCHANGED <<past, snapshotVars>>
    \/ c \notin Listers /\ ReadOnce(c) /\ UNCHANGED <<past, snapshotVars>>
    \/ c \in Listers /\ (StartListing(c) \/ ListPage(c) \/ ListPageFails(c))

Next ==
    \/ \E c \in Calls : Step(c)
    \/ \E k \in Kinds : Install(k) /\ UNCHANGED <<past, snapshotVars>>
    \/ \E n \in 1..Names : ChangeObject(n)

Spec == Init /\ [][Next]_vars

\* Go's mutex does not starve a waiter, goroutines run, and discovery's requests
\* end, at the latest by the timeout of client-go's discovery client.  Requests
\* for objects have no timeout and are not fair, nor is the rest of the world.
FairSpec ==
    /\ Spec
    /\ \A c \in Calls :
        /\ SF_vars((UseMapper(c) \/ StartDiscovery(c)) /\ UNCHANGED <<past, snapshotVars>>)
        /\ WF_vars(((\E k \in Kinds : AskGroup(c, k)) \/ FinishDiscovery(c))
                       /\ UNCHANGED <<past, snapshotVars>>)

-----------------------------------------------------------------------------
(* Properties.                                                             *)

\* Types of the state.
ReadsTypeOK ==
    /\ served \subseteq Kinds /\ mapper \subseteq Kinds /\ offered \subseteq Kinds
    /\ installs \in 0..MaxInstalls
    /\ holder \in Calls \cup {NoCall}
    /\ stage \in [Calls -> Resolving \cup {"idle", "known", "page", "done"}]
    /\ \A c \in Calls : holder = c <=> stage[c] \in {"build", "rebuild"}
    /\ \A c \in Listers :
        /\ pages[c] \in 0..MaxPages
        /\ pinned[c] \in 0..Now
        /\ DOMAIN targets[c] \subseteq 1..Names
        /\ Cardinality(DOMAIN targets[c]) <= MaxTargets

\* What ListTargets returns is of one moment, not before the call began to list:
\* no object in a version it did not have then, however the collection moves
\* between the pages and although the server moves on, starts again, repeats
\* itself or stops short.  And it is the whole collection of that moment, unless
\* the server ended its list early without a count of what remains: that end is
\* taken for the real one.
SnapshotIsOneState ==
    \A c \in Listers :
        outcome[c] = "snapshot" =>
            /\ pinned[c] \in begun[c]..Now
            /\ DOMAIN targets[c] \subseteq DOMAIN past[pinned[c]]
            /\ \A n \in DOMAIN targets[c] : targets[c][n] = past[pinned[c]][n]
            /\ c \notin hushed => targets[c] = past[pinned[c]]

\* A selection is refused as too large only if it is: with a server that keeps
\* to its snapshot there were more than MaxTargets objects at the snapshot's
\* revision, or more objects than pages were allowed; and every other refusal of its
\* pages accuses a server that did stray.
PageRefusalIsReal ==
    \A c \in Listers :
        c \notin strayed =>
            /\ outcome[c] = "too many targets" => Cardinality(DOMAIN past[pinned[c]]) > MaxTargets
            /\ outcome[c] = "too many pages" => Cardinality(DOMAIN past[pinned[c]]) > MaxPages
            /\ outcome[c] \notin {"moved", "duplicate", "incomplete", "repeated cursor"}
=============================================================================

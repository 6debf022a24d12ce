----------------------- MODULE CollectionSnapshotProofs -----------------------
(***************************************************************************)
(* Proofs about Discovery and CollectionSnapshot for any calls, kinds,     *)
(* names, page sizes and limits.                                           *)
(*                                                                         *)
(* ListTargets gathers its pages into a map and hands it out in the end,   *)
(* so the whole argument is about what the map holds on the way: exactly   *)
(* the part of the pinned state up to the cursor (ProgressInv).  A page of *)
(* an honest server extends that part; each way a server may stray runs    *)
(* into one of the checks (StrayIsRefused), but for a list it ends early   *)
(* without a count of what remains, which hands out a part of the state    *)
(* (HushedPage).                                                           *)
(***************************************************************************)
EXTENDS CollectionSnapshot, FiniteSetTheorems, WellFoundedInduction, TLAPS

Stages == Resolving \cup {"idle", "known", "page", "done"}
Outcomes ==
    {"none", "malformed", "ambiguous kind", "unknown kind", "discovery failed", "scope", "answer",
     "not found", "request failed", "snapshot", "moved", "too many targets", "duplicate",
     "incomplete", "repeated cursor", "too many pages"}

\* States of the collection.
States == UNION {[D -> 1..MaxRevision] : D \in SUBSET (1..Names)}

ResolveType ==
    /\ served \subseteq offered /\ mapper \subseteq offered /\ offered \subseteq Kinds
    /\ installs \in 0..MaxInstalls
    /\ holder \in Calls \cup {NoCall}
    /\ stage \in [Calls -> Stages]
    /\ kind \in [Calls -> Kinds]
    /\ found \in [Calls -> SUBSET Kinds]
    /\ todo \in [Calls -> SUBSET Kinds]
    /\ outcome \in [Calls -> Outcomes]
    /\ steady \subseteq Calls
    /\ missed \subseteq Calls

\* What a call in resolve knows: only the holder of the mutex builds, and the kind
\* of a steady call is found unless it is still to be asked for or was missed.
ResolveInv(c) ==
    /\ holder = c <=> stage[c] \in {"build", "rebuild"}
    /\ found[c] \subseteq offered
    /\ stage[c] \in {"known", "page"} => kind[c] \in offered
    /\ stage[c] # "done" => outcome[c] = "none"
    /\ c \in steady => kind[c] \in served
    /\ c \in steady /\ stage[c] \in {"build", "rebuild"} =>
          kind[c] \in todo[c] \cup found[c] \/ c \in missed
    /\ outcome[c] = "unknown kind" => c \notin steady \/ c \in missed
    /\ outcome[c] \in {"answer", "not found"} => kind[c] \in offered

ListType ==
    /\ past \in Seq(States) /\ Now <= MaxRevision
    /\ pages \in [Listers -> Nat]
    /\ targets \in [Listers -> States]
    /\ pinned \in [Listers -> Nat]
    /\ cursor \in [Listers -> Nat]
    /\ cursors \in [Listers -> SUBSET Nat]
    /\ begun \in [Listers -> Nat]
    /\ strayed \subseteq Listers /\ hushed \subseteq Listers

\* The targets gathered so far are the pinned state up to the cursor.
ProgressInv(c) ==
    LET S == past[pinned[c]]
    IN  /\ pinned[c] \in begun[c]..Now
        /\ cursor[c] \in DOMAIN S
        /\ DOMAIN targets[c] = {m \in DOMAIN S : m <= cursor[c]}
        /\ \A m \in DOMAIN targets[c] : targets[c][m] = S[m]
        /\ cursors[c] \subseteq 1..cursor[c]
        /\ pages[c] <= Cardinality(DOMAIN targets[c])

\* A listing, from before its first page to its end.
ListInv(c) ==
    /\ stage[c] \notin {"page", "done"} => pages[c] = 0
    /\ pages[c] = 0 =>
          /\ pinned[c] = 0 /\ cursor[c] = 0 /\ targets[c] = Empty /\ cursors[c] = {}
          /\ outcome[c] \notin {"snapshot", "moved", "too many targets", "duplicate",
                                "incomplete", "repeated cursor", "too many pages"}
    /\ pages[c] <= MaxPages
    /\ pinned[c] <= Now
    /\ Cardinality(DOMAIN targets[c]) <= MaxTargets
    /\ stage[c] = "page" => begun[c] \in 1..Now /\ pages[c] < MaxPages
    /\ stage[c] = "page" /\ pages[c] > 0 => ProgressInv(c)

\* A listing that has ended with a snapshot or a refusal of its pages.
EndInv(c) ==
    /\ outcome[c] = "snapshot" =>
          /\ pinned[c] \in begun[c]..Now /\ pinned[c] > 0
          /\ DOMAIN targets[c] \subseteq DOMAIN past[pinned[c]]
          /\ \A n \in DOMAIN targets[c] : targets[c][n] = past[pinned[c]][n]
          /\ c \notin hushed => targets[c] = past[pinned[c]]
    /\ c \notin strayed =>
          /\ outcome[c] = "too many targets" =>
                pinned[c] > 0 /\ Cardinality(DOMAIN past[pinned[c]]) > MaxTargets
          /\ outcome[c] = "too many pages" =>
                pinned[c] > 0 /\ Cardinality(DOMAIN past[pinned[c]]) > MaxPages
          /\ outcome[c] \notin {"moved", "duplicate", "incomplete", "repeated cursor"}

Inv ==
    /\ ResolveType
    /\ \A c \in Calls : ResolveInv(c)
    /\ ListType
    /\ \A c \in Listers : ListInv(c) /\ EndInv(c)

-----------------------------------------------------------------------------
\* Names, and the page of a state.

\* A set of names that is not empty has a smallest and a largest one.
LEMMA Smallest ==
  ASSUME NEW T, T \subseteq Nat, T # {}
  PROVE  \E m \in T : \A k \in T : m <= k
<1> DEFINE Less == OpToRel(<, Nat)
<1>1. IsWellFoundedOn(Less, Nat)
  BY NatLessThanWellFounded, Zenon DEF Less
<1>2. PICK m \in T : \A k \in T : ~(<<k, m>> \in Less)
  BY <1>1, WFMin
<1>3. \A k \in T : ~(k < m)
  BY <1>2 DEF OpToRel, Less
<1> QED BY <1>3

\* The same from above, below a bound.
LEMMA Largest ==
  ASSUME NEW n \in Nat, NEW T, T \subseteq 1..n, T # {}
  PROVE  \E m \in T : \A k \in T : k <= m
<1> DEFINE R == {n - k : k \in T}
<1>1. R \subseteq Nat /\ R # {}
  <2>1. PICK t \in T : TRUE  OBVIOUS
  <2>2. n - t \in R  OBVIOUS
  <2> QED BY <2>2
<1>2. PICK r \in R : \A k \in R : r <= k
  <2> HIDE DEF R
  <2> QED BY <1>1, Smallest
<1>3. PICK m \in T : r = n - m  OBVIOUS
<1>4. \A k \in T : n - k \in R  OBVIOUS
<1>5. \A k \in T : n - m <= n - k  BY <1>2, <1>3, <1>4
<1> QED BY <1>5

\* The number of names is finite, and so is every set of names.
LEMMA NamesFinite ==
  ASSUME NEW T, T \subseteq 1..Names
  PROVE  /\ IsFiniteSet(T)
         /\ Cardinality(T) \in Nat
         /\ \A R \in SUBSET T : IsFiniteSet(R) /\ Cardinality(R) \in Nat /\ Cardinality(R) <= Cardinality(T)
<1>1. IsFiniteSet(1..Names)  BY FS_Interval, BoundsAssumption
<1>2. IsFiniteSet(T)  BY <1>1, FS_Subset
<1> QED BY <1>2, FS_Subset, FS_CardinalityType

\* Two parts of a set of names that have no name in common fit into it together.
LEMMA DisjointParts ==
  ASSUME NEW T, T \subseteq 1..Names, NEW A, NEW B, A \subseteq T, B \subseteq T, A \cap B = {}
  PROVE  Cardinality(A) + Cardinality(B) <= Cardinality(T)
<1>1. IsFiniteSet(A) /\ IsFiniteSet(B) /\ Cardinality(A) \in Nat /\ Cardinality(B) \in Nat
  BY NamesFinite
<1>2. Cardinality(A \cup B) = Cardinality(A) + Cardinality(B) - Cardinality(A \cap B)
  BY <1>1, FS_Union
<1>3. Cardinality(A \cap B) = 0  BY FS_EmptySet
<1>4. A \cup B \in SUBSET T  OBVIOUS
<1>5. Cardinality(A \cup B) <= Cardinality(T)  BY <1>4, NamesFinite
<1>6. Cardinality(A \cup B) = Cardinality(A) + Cardinality(B)  BY <1>1, <1>2, <1>3
<1> QED BY <1>5, <1>6

\* A state is a function from names to resourceVersions.
LEMMA StateType ==
  ASSUME NEW S \in States
  PROVE  /\ DOMAIN S \subseteq 1..Names /\ DOMAIN S \subseteq Nat \ {0}
         /\ S = [m \in DOMAIN S |-> S[m]]
         /\ \A m \in DOMAIN S : S[m] \in 1..MaxRevision
<1>1. PICK D \in SUBSET (1..Names) : S \in [D -> 1..MaxRevision]  BY DEF States
<1>2. DOMAIN S = D  BY <1>1
<1>3. 1..Names \subseteq Nat \ {0}  BY BoundsAssumption
<1> QED BY <1>1, <1>2, <1>3

\* A function from names to resourceVersions is a state.
LEMMA StateFrom ==
  ASSUME NEW D, D \subseteq 1..Names, NEW f \in [D -> 1..MaxRevision]
  PROVE  f \in States
BY DEF States

\* A page starts after the cursor and leaves nothing out up to its last name.
LEMMA PageIsSegment ==
  ASSUME NEW S \in States, NEW n \in Nat, NEW size \in Nat \ {0}
  PROVE  /\ PageNames(S, n, size) \subseteq {m \in DOMAIN S : m > n}
         /\ \A m \in PageNames(S, n, size) : \A k \in DOMAIN S :
               n < k /\ k <= m => k \in PageNames(S, n, size)
<1>1. DOMAIN S \subseteq 1..Names /\ DOMAIN S \subseteq Nat  BY StateType
<1>2. ASSUME NEW m \in PageNames(S, n, size), NEW k \in DOMAIN S, n < k, k <= m
      PROVE  k \in PageNames(S, n, size)
  <2> DEFINE A == {j \in DOMAIN S : n < j /\ j <= k}
             B == {j \in DOMAIN S : n < j /\ j <= m}
  <2>1. m \in DOMAIN S /\ Cardinality(B) <= size  BY DEF PageNames
  <2>2. A \in SUBSET B  BY <1>1, <1>2, <2>1
  <2>3. B \subseteq 1..Names  BY <1>1
  <2>4. Cardinality(A) <= Cardinality(B) /\ Cardinality(A) \in Nat /\ Cardinality(B) \in Nat
    <3> HIDE DEF A, B
    <3> QED BY <2>2, <2>3, NamesFinite
  <2>5. Cardinality(A) <= size
    <3> HIDE DEF A, B
    <3> QED BY <2>1, <2>4
  <2> QED BY <1>2, <2>5 DEF PageNames
<1> QED BY <1>2 DEF PageNames

\* A page holds at least the first name after its cursor.
LEMMA PageHasFirst ==
  ASSUME NEW S \in States, NEW n \in Nat, NEW size \in Nat \ {0},
         NEW m \in DOMAIN S, m > n, \A k \in DOMAIN S : k > n => m <= k
  PROVE  m \in PageNames(S, n, size)
<1>1. DOMAIN S \subseteq 1..Names  BY StateType
<1> DEFINE B == {j \in DOMAIN S : n < j /\ j <= m}
<1>2. B = {m}  BY <1>1, BoundsAssumption
<1>3. Cardinality(B) = 1  BY <1>2, FS_Singleton
<1> QED BY <1>3 DEF PageNames

\* If there are names after the cursor, the page holds the first of them.
LEMMA PageNotEmpty ==
  ASSUME NEW S \in States, NEW n \in Nat, NEW size \in Nat \ {0},
         NEW x \in DOMAIN S, x > n
  PROVE  \E m \in PageNames(S, n, size) : \A k \in DOMAIN S : k > n => m <= k
<1>1. DOMAIN S \subseteq Nat  BY StateType
<1> DEFINE T == {m \in DOMAIN S : m > n}
<1>2. PICK m \in T : \A k \in T : m <= k
  <2>1. T \subseteq Nat /\ T # {}  BY <1>1
  <2> HIDE DEF T
  <2> QED BY <2>1, Smallest
<1> QED BY <1>2, PageHasFirst

-----------------------------------------------------------------------------
\* The page a lister reads next.

\* The revision the next page should be of: the current one for the first page.
Base(c) == IF pages[c] = 0 THEN Now ELSE pinned[c]

\* The state before a page is read, the first page included.
LEMMA BeforePage ==
  ASSUME Inv, NEW c \in Listers, stage[c] = "page"
  PROVE  /\ Base(c) \in begun[c]..Now /\ Base(c) \in 1..Now
         /\ past[Base(c)] \in States /\ targets[c] \in States
         /\ cursor[c] \in Nat /\ (cursor[c] # 0 => cursor[c] \in DOMAIN past[Base(c)])
         /\ DOMAIN targets[c] = {m \in DOMAIN past[Base(c)] : m <= cursor[c]}
         /\ \A m \in DOMAIN targets[c] : targets[c][m] = past[Base(c)][m]
         /\ cursors[c] \subseteq 1..cursor[c]
         /\ pages[c] \in Nat /\ pages[c] <= Cardinality(DOMAIN targets[c])
<1>1. ListType /\ ListInv(c)  BY DEF Inv
<1>2. /\ Now \in Nat /\ begun[c] \in 1..Now /\ pages[c] \in Nat /\ cursor[c] \in Nat
      /\ targets[c] \in States /\ pinned[c] \in Nat
      /\ \A i \in 1..Now : past[i] \in States
  <2>1. past \in Seq(States) /\ Now \in Nat /\ \A i \in 1..Now : past[i] \in States
    BY <1>1 DEF ListType, Now
  <2>2. begun[c] \in 1..Now /\ pages[c] \in Nat /\ cursor[c] \in Nat
    BY <1>1 DEF ListType, ListInv
  <2>3. targets[c] \in States /\ pinned[c] \in Nat  BY <1>1 DEF ListType
  <2> QED BY <2>1, <2>2, <2>3
<1>3. CASE pages[c] = 0
  <2>1. Base(c) = Now  BY <1>3 DEF Base
  <2>2. cursor[c] = 0 /\ targets[c] = Empty /\ cursors[c] = {}  BY <1>1, <1>3 DEF ListInv
  <2>3. past[Now] \in States  BY <1>2
  <2>4. \A m \in DOMAIN past[Now] : ~(m <= 0)  BY <2>3, StateType
  <2>5. DOMAIN targets[c] = {}  BY <2>2 DEF Empty
  <2>6. Cardinality(DOMAIN targets[c]) = 0  BY <2>5, FS_EmptySet
  <2> QED BY <1>2, <1>3, <2>1, <2>2, <2>3, <2>4, <2>5, <2>6
<1>4. CASE pages[c] > 0
  <2>1. Base(c) = pinned[c]  BY <1>4, <1>2 DEF Base
  <2>2. ProgressInv(c)  BY <1>1, <1>4 DEF ListInv
  <2>3. pinned[c] \in begun[c]..Now  BY <2>2 DEF ProgressInv
  <2>4. pinned[c] \in 1..Now  BY <1>2, <2>3
  <2> QED BY <1>2, <2>1, <2>2, <2>3, <2>4 DEF ProgressInv
<1> QED BY <1>2, <1>3, <1>4

\* A page of a server that keeps to the snapshot: the next names of it, with the
\* last of them for a cursor exactly if there are more.
LEMMA HonestPage ==
  ASSUME Inv, NEW c \in Listers, stage[c] = "page", NEW p \in HonestPages(c)
  PROVE  /\ p = [rv |-> p.rv, names |-> p.names, next |-> p.next, remaining |-> p.remaining]
         /\ p.rv = Base(c) /\ p.remaining = 0 /\ p.next \in Nat
         /\ p.names \subseteq {m \in DOMAIN past[Base(c)] : m > cursor[c]}
         /\ p.next = 0 => {m \in DOMAIN past[Base(c)] : m > cursor[c]} = p.names
         /\ p.next # 0 =>
               /\ p.next \in p.names
               /\ p.names = {m \in DOMAIN past[Base(c)] : cursor[c] < m /\ m <= p.next}
               /\ \E m \in DOMAIN past[Base(c)] : m > p.next
<1> DEFINE S == past[Base(c)]
           n == cursor[c]
<1>1. S \in States /\ n \in Nat  BY BeforePage
<1>2. PICK size \in 1..PageSize :
         p = [rv |-> Base(c), names |-> PageNames(S, n, size),
              next |-> IF \E m \in DOMAIN S : m > n /\ m \notin PageNames(S, n, size)
                       THEN CHOOSE m \in PageNames(S, n, size) : \A k \in PageNames(S, n, size) : k <= m
                       ELSE 0,
              remaining |-> 0]
  BY DEF HonestPages, Base
<1> DEFINE ns == PageNames(S, n, size)
<1>3. size \in Nat \ {0}  BY BoundsAssumption
<1>4. /\ ns \subseteq {m \in DOMAIN S : m > n}
      /\ \A m \in ns : \A k \in DOMAIN S : n < k /\ k <= m => k \in ns
  <2> HIDE DEF S, n
  <2> QED BY <1>1, <1>3, PageIsSegment
<1>5. /\ p = [rv |-> p.rv, names |-> p.names, next |-> p.next, remaining |-> p.remaining]
      /\ p.rv = Base(c) /\ p.remaining = 0 /\ p.names = ns
  <2> HIDE DEF S, n
  <2> QED BY <1>2
<1>6. CASE \E m \in DOMAIN S : m > n /\ m \notin ns
  <2>1. PICK x \in DOMAIN S : x > n /\ x \notin ns  BY <1>6
  <2>2. ns # {}
    <3> HIDE DEF S, n
    <3> QED BY <1>1, <1>3, <2>1, PageNotEmpty
  <2>3. DOMAIN S \subseteq 1..Names /\ DOMAIN S \subseteq Nat \ {0}
    <3> HIDE DEF S
    <3> QED BY <1>1, StateType
  <2>4. \E m \in ns : \A k \in ns : k <= m
    <3>1. ns \subseteq 1..Names  BY <1>4, <2>3
    <3>2. Names \in Nat  BY BoundsAssumption
    <3> HIDE DEF ns, S, n
    <3> QED BY <2>2, <3>1, <3>2, Largest
  <2>5. p.next = CHOOSE m \in ns : \A k \in ns : k <= m
    <3> HIDE DEF S, n
    <3> QED BY <1>2, <1>6
  <2>6. p.next \in ns /\ \A k \in ns : k <= p.next
    <3> HIDE DEF ns
    <3> QED BY <2>4, <2>5
  <2> HIDE DEF ns, S, n
  <2>7. p.next \in Nat \ {0}  BY <2>3, <2>6, <1>4
  <2>8. ns = {m \in DOMAIN S : n < m /\ m <= p.next}  BY <2>3, <2>6, <1>4, <1>1
  <2>9. x > p.next  BY <2>1, <2>3, <2>7, <2>8, <1>1
  <2> USE DEF S, n
  <2> QED BY <1>4, <1>5, <2>6, <2>7, <2>8, <2>9
<1>7. CASE ~ \E m \in DOMAIN S : m > n /\ m \notin ns
  <2>1. p.next = 0
    <3> HIDE DEF S, n
    <3> QED BY <1>2, <1>7
  <2> HIDE DEF ns
  <2> QED BY <1>4, <1>5, <1>7, <2>1
<1> QED BY <1>6, <1>7

\* A page that ends the list early and does not say so: a part of the snapshot
\* after the cursor, and for the checks an honest last page.
LEMMA HushedPage ==
  ASSUME Inv, NEW c \in Listers, stage[c] = "page", NEW p \in HushedPages(c)
  PROVE  /\ p.rv = Base(c) /\ p.remaining = 0 /\ p.next = 0
         /\ p.names \subseteq {m \in DOMAIN past[Base(c)] : m > cursor[c]}
<1>1. PICK q \in HonestPages(c) : p = [q EXCEPT !.next = 0]  BY DEF HushedPages
<1>2. /\ q = [rv |-> q.rv, names |-> q.names, next |-> q.next, remaining |-> q.remaining]
      /\ q.rv = Base(c) /\ q.remaining = 0
      /\ q.names \subseteq {m \in DOMAIN past[Base(c)] : m > cursor[c]}
  BY HonestPage
<1>3. p.rv = q.rv /\ p.names = q.names /\ p.next = 0 /\ p.remaining = q.remaining
  BY <1>1, <1>2
<1> QED BY <1>2, <1>3

\* No other page of a server that strays passes every check: a newer state shows by
\* its resourceVersion, a new beginning by a name it repeats, the others by their cursor.
LEMMA StrayIsRefused ==
  ASSUME Inv, NEW c \in Listers, stage[c] = "page", NEW p \in StrayPages(c)
  PROVE  ~(OneSnapshot(c, p) /\ Distinct(c, p) /\ Complete(c, p) /\ FreshCursor(c, p))
<1> DEFINE S == past[Base(c)]
<1>1. CASE p \in MovedPages(c)
  <2>0. PICK q \in HonestPages(c) : Now # q.rv /\
            p = [q EXCEPT !.rv = Now, !.names = PageNames(past[Now], cursor[c], PageSize)]
    BY <1>1 DEF MovedPages
  <2>1. q = [rv |-> q.rv, names |-> q.names, next |-> q.next, remaining |-> q.remaining] /\ q.rv = Base(c)
    BY HonestPage
  <2>2. p.rv = Now
    <3> HIDE DEF S
    <3> QED BY <2>0, <2>1
  <2>3. pages[c] \in Nat  BY BeforePage
  <2> QED BY <2>0, <2>1, <2>2, <2>3 DEF OneSnapshot, Base
<1>2. CASE p \in RestartedPages(c)
  <2>0. PICK q \in HonestPages(c) :
            cursor[c] # 0 /\ p = [q EXCEPT !.names = PageNames(past[q.rv], 0, PageSize)]
    BY <1>2 DEF RestartedPages
  <2>1. q = [rv |-> q.rv, names |-> q.names, next |-> q.next, remaining |-> q.remaining] /\ q.rv = Base(c)
    BY HonestPage
  <2>2. p.names = PageNames(S, 0, PageSize)  BY <2>0, <2>1
  <2>3. /\ S \in States /\ cursor[c] \in DOMAIN S /\ cursor[c] \in Nat
        /\ DOMAIN targets[c] = {m \in DOMAIN S : m <= cursor[c]}
    BY <2>0, BeforePage
  <2>4. DOMAIN S \subseteq Nat \ {0} /\ PageSize \in Nat \ {0}
    <3> HIDE DEF S
    <3> QED BY <2>3, StateType, BoundsAssumption
  <2>5. PICK m \in PageNames(S, 0, PageSize) : \A k \in DOMAIN S : k > 0 => m <= k
    <3> HIDE DEF S
    <3> QED BY <2>3, <2>4, PageNotEmpty
  <2>6. m \in DOMAIN S  BY DEF PageNames
  <2>7. m \in DOMAIN targets[c]
    <3> HIDE DEF S
    <3> QED BY <2>3, <2>4, <2>5, <2>6
  <2> QED BY <2>2, <2>7 DEF Distinct
<1>3. CASE p \in RepeatingPages(c)
  <2>0. PICK k \in cursors[c], q \in HonestPages(c) : p = [q EXCEPT !.next = k]
    BY <1>3 DEF RepeatingPages
  <2>1. q = [rv |-> q.rv, names |-> q.names, next |-> q.next, remaining |-> q.remaining]
    BY HonestPage
  <2> QED BY <2>0, <2>1 DEF FreshCursor
<1>4. CASE p \in CutPages(c)
  <2>0. PICK q \in HonestPages(c) : p = [q EXCEPT !.next = 0, !.remaining = 1]
    BY <1>4 DEF CutPages
  <2>1. q = [rv |-> q.rv, names |-> q.names, next |-> q.next, remaining |-> q.remaining]
    BY HonestPage
  <2> QED BY <2>0, <2>1 DEF Complete
<1> QED BY <1>1, <1>2, <1>3, <1>4 DEF StrayPages

-----------------------------------------------------------------------------
\* What reading a page does.

Refusals ==
    {"moved", "too many targets", "duplicate", "incomplete", "repeated cursor", "too many pages"}

\* The checks of ReadPage one by one.
LEMMA ReadCases ==
  ASSUME NEW c \in Listers, NEW p, pages \in [Listers -> Nat], ReadPage(c, p)
  PROVE  \/ ~OneSnapshot(c, p) /\ Refuse(c, "moved")
         \/ OneSnapshot(c, p) /\ ~WithinTargets(c, p) /\ Refuse(c, "too many targets")
         \/ OneSnapshot(c, p) /\ ~Distinct(c, p) /\ Refuse(c, "duplicate")
         \/ OneSnapshot(c, p) /\ ~Complete(c, p) /\ Refuse(c, "incomplete")
         \/ OneSnapshot(c, p) /\ ~FreshCursor(c, p) /\ Refuse(c, "repeated cursor")
         \/ /\ OneSnapshot(c, p) /\ p.next # 0 /\ pages[c] + 1 = MaxPages
            /\ Refuse(c, "too many pages")
         \/ /\ OneSnapshot(c, p) /\ WithinTargets(c, p) /\ Distinct(c, p)
            /\ Complete(c, p) /\ FreshCursor(c, p)
            /\ p.next = 0 \/ pages[c] + 1 # MaxPages
            /\ TakePage(c, p)
<1>1. pages'[c] = pages[c] + 1  BY DEF ReadPage
<1>2. CASE ~OneSnapshot(c, p) \/ ~WithinTargets(c, p) \/ ~Distinct(c, p)
  BY <1>2 DEF ReadPage
<1>3. CASE OneSnapshot(c, p) /\ WithinTargets(c, p) /\ Distinct(c, p)
  <2>1. CASE ~Complete(c, p)  BY <1>3, <2>1 DEF ReadPage
  <2>2. CASE Complete(c, p) /\ ~FreshCursor(c, p)  BY <1>3, <2>2 DEF ReadPage
  <2>3. CASE Complete(c, p) /\ FreshCursor(c, p)  BY <1>1, <1>3, <2>3 DEF ReadPage
  <2> QED BY <2>1, <2>2, <2>3
<1> QED BY <1>2, <1>3

\* An honest page is refused for its size only, and the state it is of is too large.
LEMMA HonestRefusals ==
  ASSUME Inv, NEW c \in Listers, stage[c] = "page", NEW p \in HonestPages(c)
  PROVE  /\ OneSnapshot(c, p) /\ Distinct(c, p) /\ Complete(c, p) /\ FreshCursor(c, p)
         /\ ~WithinTargets(c, p) => Cardinality(DOMAIN past[Base(c)]) > MaxTargets
         /\ p.next # 0 =>
               Cardinality(DOMAIN past[Base(c)]) > Cardinality(DOMAIN targets[c]) + 1
<1> DEFINE S == past[Base(c)]
           G == DOMAIN targets[c]
<1>1. /\ S \in States /\ cursor[c] \in Nat /\ pages[c] \in Nat
      /\ G = {m \in DOMAIN S : m <= cursor[c]}
      /\ cursors[c] \subseteq 1..cursor[c]
  BY BeforePage
<1>2. /\ p.rv = Base(c) /\ p.remaining = 0 /\ p.next \in Nat
      /\ p.names \subseteq {m \in DOMAIN S : m > cursor[c]}
      /\ p.next # 0 =>
               /\ p.next \in p.names
               /\ p.names = {m \in DOMAIN S : cursor[c] < m /\ m <= p.next}
               /\ \E m \in DOMAIN S : m > p.next
  BY HonestPage
<1>3. OneSnapshot(c, p) /\ Complete(c, p)
  BY <1>1, <1>2 DEF OneSnapshot, Complete, Base
<1> HIDE DEF S
<1>4. DOMAIN S \subseteq 1..Names /\ DOMAIN S \subseteq Nat \ {0}  BY <1>1, StateType
<1>5. G \cap p.names = {}  BY <1>1, <1>2, <1>4
<1>6. FreshCursor(c, p)  BY <1>1, <1>2, <1>4 DEF FreshCursor
<1>7. G \subseteq DOMAIN S /\ p.names \subseteq DOMAIN S  BY <1>1, <1>2
<1>8. /\ Cardinality(G) \in Nat /\ Cardinality(p.names) \in Nat /\ Cardinality(DOMAIN S) \in Nat
      /\ Cardinality(G) + Cardinality(p.names) <= Cardinality(DOMAIN S)
  <2> HIDE DEF G
  <2> QED BY <1>4, <1>5, <1>7, NamesFinite, DisjointParts
<1>9. ~WithinTargets(c, p) => Cardinality(DOMAIN S) > MaxTargets
  BY <1>8, BoundsAssumption DEF WithinTargets
<1>10. ASSUME p.next # 0
       PROVE  Cardinality(DOMAIN S) > Cardinality(G) + 1
  <2>1. PICK m \in DOMAIN S : m > p.next  BY <1>2, <1>10
  <2>2. m \notin p.names /\ m \notin G  BY <1>1, <1>2, <1>4, <1>10, <2>1
  <2> DEFINE B == {p.next, m}
  <2>3. B \subseteq DOMAIN S /\ G \cap B = {}  BY <1>2, <1>5, <1>7, <1>10, <2>1, <2>2
  <2>4. Cardinality(B) = 2
    <3>1. p.next # m  BY <1>2, <1>4, <2>1
    <3>2. IsFiniteSet({m}) /\ Cardinality({m}) = 1  BY FS_Singleton
    <3>3. Cardinality({m} \cup {p.next}) = Cardinality({m}) + 1  BY <3>1, <3>2, FS_AddElement
    <3>4. B = {m} \cup {p.next}  OBVIOUS
    <3> QED BY <3>2, <3>3, <3>4
  <2>5. Cardinality(G) + Cardinality(B) <= Cardinality(DOMAIN S)
    <3> HIDE DEF B, G
    <3> QED BY <1>4, <1>7, <2>3, DisjointParts
  <2> QED BY <1>8, <2>4, <2>5
<1> QED BY <1>3, <1>5, <1>6, <1>9, <1>10 DEF Distinct, S

\* A stray page is of the state asked for or of the current one.
LEMMA StrayRevision ==
  ASSUME Inv, NEW c \in Listers, stage[c] = "page", NEW p \in StrayPages(c)
  PROVE  p.rv \in {Now, Base(c)}
<1>1. \A q \in HonestPages(c) :
         /\ q = [rv |-> q.rv, names |-> q.names, next |-> q.next, remaining |-> q.remaining]
         /\ q.rv = Base(c)
  BY HonestPage
<1>2. CASE p \in MovedPages(c)
  <2>1. PICK q \in HonestPages(c) :
            p = [q EXCEPT !.rv = Now, !.names = PageNames(past[Now], cursor[c], PageSize)]
    BY <1>2 DEF MovedPages
  <2> QED BY <1>1, <2>1
<1>3. CASE p \in RestartedPages(c)
  <2>1. PICK q \in HonestPages(c) : p = [q EXCEPT !.names = PageNames(past[q.rv], 0, PageSize)]
    BY <1>3 DEF RestartedPages
  <2> QED BY <1>1, <2>1
<1>4. CASE p \in RepeatingPages(c)
  <2>1. PICK k \in cursors[c], q \in HonestPages(c) : p = [q EXCEPT !.next = k]
    BY <1>4 DEF RepeatingPages
  <2> QED BY <1>1, <2>1
<1>5. CASE p \in CutPages(c)
  <2>1. PICK q \in HonestPages(c) : p = [q EXCEPT !.next = 0, !.remaining = 1]
    BY <1>5 DEF CutPages
  <2> QED BY <1>1, <2>1
<1> QED BY <1>2, <1>3, <1>4, <1>5 DEF StrayPages

\* A page is refused, and then with cause unless the server strayed, or it is
\* taken, and then an honest one unless it ends the list unsaid.
LEMMA PageRead ==
  ASSUME Inv, NEW c \in Listers, ListPage(c)
  PROVE  /\ pages' = [pages EXCEPT ![c] = @ + 1]
         /\ \E rv \in 1..Now :
              /\ pinned' = [pinned EXCEPT ![c] = rv]
              /\ \/ \E o \in Refusals :
                       /\ Refuse(c, o)
                       /\ c \notin strayed' =>
                             /\ rv = Base(c)
                             /\ o \in {"too many targets", "too many pages"}
                             /\ o = "too many targets" => Cardinality(DOMAIN past[rv]) > MaxTargets
                             /\ o = "too many pages" => Cardinality(DOMAIN past[rv]) > MaxPages
                 \/ \E p \in HonestPages(c) \cup HushedPages(c) :
                       /\ p \in HonestPages(c) \/ c \in hushed'
                       /\ rv = Base(c)
                       /\ WithinTargets(c, p)
                       /\ p.next = 0 \/ pages[c] + 1 # MaxPages
                       /\ TakePage(c, p)
<1>1. stage[c] = "page" /\ pages \in [Listers -> Nat]  BY DEF ListPage, Inv, ListType
<1>2. Base(c) \in 1..Now /\ pages[c] \in Nat /\ pages[c] <= Cardinality(DOMAIN targets[c])
  BY <1>1, BeforePage
<1>3. Now \in 1..Now
  <2>1. Now \in Nat  BY DEF Inv, ListType, Now
  <2> QED BY <1>2, <2>1
<1>4. pages[c] # 0 => pinned[c] = Base(c)  BY DEF Base
<1>5. ASSUME NEW p \in HonestPages(c), ReadPage(c, p)
      PROVE  \/ ~WithinTargets(c, p) /\ Refuse(c, "too many targets")
             \/ p.next # 0 /\ pages[c] + 1 = MaxPages /\ Refuse(c, "too many pages")
             \/ WithinTargets(c, p) /\ (p.next = 0 \/ pages[c] + 1 # MaxPages) /\ TakePage(c, p)
  BY <1>1, <1>5, ReadCases, HonestRefusals
<1>6. ASSUME NEW p \in StrayPages(c), ReadPage(c, p)
      PROVE  \E o \in Refusals : Refuse(c, o)
  BY <1>1, <1>6, ReadCases, StrayIsRefused DEF Refusals
<1>7. CASE \E p \in HonestPages(c) : ReadPage(c, p)
  <2>1. PICK p \in HonestPages(c) : ReadPage(c, p)  BY <1>7
  <2>2. p.rv = Base(c) /\ OneSnapshot(c, p)  BY <1>1, HonestPage, HonestRefusals
  <2>3. pinned' = [pinned EXCEPT ![c] = Base(c)] /\ pages' = [pages EXCEPT ![c] = @ + 1]
    BY <2>1, <2>2 DEF ReadPage
  <2>4. CASE ~WithinTargets(c, p) /\ Refuse(c, "too many targets")
    <3>1. Cardinality(DOMAIN past[Base(c)]) > MaxTargets  BY <1>1, <2>4, HonestRefusals
    <3> QED BY <1>2, <2>3, <2>4, <3>1 DEF Refusals
  <2>5. CASE p.next # 0 /\ pages[c] + 1 = MaxPages /\ Refuse(c, "too many pages")
    <3>1. Cardinality(DOMAIN past[Base(c)]) > Cardinality(DOMAIN targets[c]) + 1
      BY <1>1, <2>5, HonestRefusals
    <3>2. Cardinality(DOMAIN past[Base(c)]) \in Nat /\ Cardinality(DOMAIN targets[c]) \in Nat
      <4>1. past[Base(c)] \in States /\ targets[c] \in States  BY <1>1, BeforePage
      <4>2. DOMAIN past[Base(c)] \subseteq 1..Names /\ DOMAIN targets[c] \subseteq 1..Names
        BY <4>1, StateType
      <4> QED BY <4>2, NamesFinite
    <3>3. Cardinality(DOMAIN past[Base(c)]) > MaxPages
      <4>1. \A a, b, n \in Nat : n <= a /\ b > a + 1 => b > n + 1  OBVIOUS
      <4> QED BY <1>2, <2>5, <3>1, <3>2, <4>1
    <3> QED BY <1>2, <2>3, <2>5, <3>3 DEF Refusals
  <2>6. CASE WithinTargets(c, p) /\ (p.next = 0 \/ pages[c] + 1 # MaxPages) /\ TakePage(c, p)
    BY <1>2, <2>3, <2>6
  <2> QED BY <1>5, <2>1, <2>4, <2>5, <2>6
<1>8. CASE (\E p \in StrayPages(c) : ReadPage(c, p)) /\ strayed' = strayed \cup {c}
  <2>1. PICK p \in StrayPages(c) : ReadPage(c, p)  BY <1>8
  <2>2. p.rv \in 1..Now  BY <1>1, <1>2, <1>3, StrayRevision
  <2>3. pages' = [pages EXCEPT ![c] = @ + 1]  BY <2>1 DEF ReadPage
  <2>4. \E rv \in 1..Now : pinned' = [pinned EXCEPT ![c] = rv]
    <3>1. CASE OneSnapshot(c, p)  BY <2>1, <2>2, <3>1 DEF ReadPage
    <3>2. CASE ~OneSnapshot(c, p)
      <4>1. pinned[c] \in 1..Now  BY <1>2, <1>4, <3>2 DEF OneSnapshot
      <4>2. pinned' = [pinned EXCEPT ![c] = @]  BY <2>1, <3>2 DEF ReadPage
      <4> QED BY <4>1, <4>2
    <3> QED BY <3>1, <3>2
  <2>5. \E o \in Refusals : Refuse(c, o)  BY <1>6, <2>1
  <2>6. c \in strayed'  BY <1>8
  <2> QED BY <2>3, <2>4, <2>5, <2>6
<1>9. CASE /\ \E p \in HushedPages(c) : ReadPage(c, p)
           /\ strayed' = strayed \cup {c} /\ hushed' = hushed \cup {c}
  <2>1. PICK p \in HushedPages(c) : ReadPage(c, p)  BY <1>9
  <2>2. p.rv = Base(c) /\ p.remaining = 0 /\ p.next = 0  BY <1>1, HushedPage
  <2>3. OneSnapshot(c, p) /\ Complete(c, p)  BY <1>2, <1>4, <2>2 DEF OneSnapshot, Complete
  <2>4. pinned' = [pinned EXCEPT ![c] = Base(c)] /\ pages' = [pages EXCEPT ![c] = @ + 1]
    BY <2>1, <2>2, <2>3 DEF ReadPage
  <2>5. (\E o \in Refusals : Refuse(c, o)) \/ (WithinTargets(c, p) /\ TakePage(c, p))
    BY <1>1, <2>1, ReadCases DEF Refusals
  <2>6. c \in strayed' /\ c \in hushed'  BY <1>9
  <2>7. CASE \E o \in Refusals : Refuse(c, o)  BY <1>2, <2>4, <2>6, <2>7
  <2>8. CASE WithinTargets(c, p) /\ TakePage(c, p)  BY <1>2, <2>1, <2>2, <2>4, <2>6, <2>8
  <2> QED BY <2>5, <2>7, <2>8
<1> QED BY <1>7, <1>8, <1>9 DEF ListPage

-----------------------------------------------------------------------------
\* Resolving a kind.

\* The outcomes of a call that has its kind.
Listed == Refusals \cup {"scope", "request failed", "snapshot"}

\* A listing touches nothing of discovery but its own stage and outcome.
LEMMA ListingEffect ==
  ASSUME Inv, NEW c \in Listers, StartListing(c) \/ ListPage(c) \/ ListPageFails(c)
  PROVE  /\ UNCHANGED <<clusterVars, mapperVars, resolveVars>>
         /\ stage[c] \in {"known", "page"}
         /\ \/ stage' = [stage EXCEPT ![c] = "page"] /\ UNCHANGED outcome
            \/ \E o \in Listed :
                  stage' = [stage EXCEPT ![c] = "done"] /\ outcome' = [outcome EXCEPT ![c] = o]
<1>1. CASE StartListing(c)
  BY <1>1 DEF StartListing, GoTo, objectNamespaceRefuses, Finish, Listed
<1>2. CASE ListPage(c)
  <2>1. UNCHANGED <<clusterVars, mapperVars, resolveVars>> /\ stage[c] = "page"
    BY <1>2 DEF ListPage
  <2>2. (\E o \in Refusals : Refuse(c, o)) \/ (\E p : TakePage(c, p))
    BY <1>2, PageRead
  <2> QED BY <2>1, <2>2 DEF Refuse, TakePage, GoTo, Finish, Listed
<1>3. CASE ListPageFails(c)
  BY <1>3 DEF ListPageFails, Refuse, Finish, Listed
<1> QED BY <1>1, <1>2, <1>3

\* The steps of the system, as far as discovery goes.
LEMMA StepCases ==
  ASSUME Inv, [Next]_vars
  PROVE  \/ UNCHANGED discoveryVars
         \/ \E k \in Kinds : Install(k)
         \/ \E c \in Calls : Resolve(c)
         \/ \E c \in Calls : ReadOnce(c)
         \/ \E c \in Listers : StartListing(c) \/ ListPage(c) \/ ListPageFails(c)
<1>1. CASE UNCHANGED vars  BY <1>1 DEF vars
<1>2. CASE \E n \in 1..Names : ChangeObject(n)  BY <1>2 DEF ChangeObject
<1>3. CASE \E c \in Calls : Step(c)  BY <1>3 DEF Step
<1> QED BY <1>1, <1>2, <1>3 DEF Next

\* A lookup in a mapper of kinds that were served moves the call on.
LEMMA LookupEffect ==
  ASSUME Inv, NEW c \in Calls, NEW M, M \subseteq offered, RESTMapping(c, M)
  PROVE  \/ /\ kind[c] \in offered
            /\ stage' = [stage EXCEPT ![c] = "known"] /\ UNCHANGED outcome
         \/ stage' = [stage EXCEPT ![c] = "refresh"] /\ UNCHANGED outcome
         \/ /\ stage' = [stage EXCEPT ![c] = "done"]
            /\ outcome' = [outcome EXCEPT ![c] = "ambiguous kind"]
         \/ /\ kind[c] \notin M /\ stage[c] \in {"refresh", "rebuild"}
            /\ stage' = [stage EXCEPT ![c] = "done"]
            /\ outcome' = [outcome EXCEPT ![c] = "unknown kind"]
BY DEF RESTMapping, GoTo, Finish

\* The same, for the call itself and for another.
LEMMA LookupOwn ==
  ASSUME Inv, NEW c \in Calls, NEW M, M \subseteq offered, RESTMapping(c, M)
  PROVE  /\ \/ kind[c] \in offered /\ stage'[c] = "known" /\ outcome'[c] = outcome[c]
            \/ stage'[c] = "refresh" /\ outcome'[c] = outcome[c]
            \/ stage'[c] = "done" /\ outcome'[c] = "ambiguous kind"
            \/ /\ kind[c] \notin M /\ stage[c] \in {"refresh", "rebuild"}
               /\ stage'[c] = "done" /\ outcome'[c] = "unknown kind"
         /\ \A d \in Calls \ {c} : stage'[d] = stage[d] /\ outcome'[d] = outcome[d]
<1>1. stage \in [Calls -> Stages] /\ outcome \in [Calls -> Outcomes]  BY DEF Inv, ResolveType
<1> QED BY <1>1 DEF RESTMapping, GoTo, Finish

\* Every step keeps the types of discovery.
LEMMA ResolveTypeStep == Inv /\ [Next]_vars => ResolveType'
<1> SUFFICES ASSUME Inv, [Next]_vars PROVE ResolveType'
  OBVIOUS
<1> USE DEF ResolveType, Stages, Outcomes, Resolving
<1>0. ResolveType  BY DEF Inv
<1>1. CASE UNCHANGED discoveryVars
  BY <1>0, <1>1 DEF discoveryVars, clusterVars, mapperVars, resolveVars
<1>2. ASSUME NEW k \in Kinds, Install(k) PROVE ResolveType'
  <2>1. /\ UNCHANGED <<mapperVars, resolveVars, stage, outcome>>
        /\ installs' = installs + 1 /\ installs < MaxInstalls
        /\ steady' \subseteq steady
    BY <1>2 DEF Install
  <2>2. installs' \in 0..MaxInstalls
    <3>1. installs \in 0..MaxInstalls  BY <1>0
    <3> QED BY <2>1, <3>1, MaxInstallsAssumption
  <2>3. served' \subseteq offered' /\ offered \subseteq offered' /\ offered' \subseteq Kinds
    BY <1>0, <1>2 DEF Install
  <2> QED BY <1>0, <2>1, <2>2, <2>3 DEF mapperVars, resolveVars
<1>3. ASSUME NEW c \in Calls, Resolve(c) PROVE ResolveType'
  <2>1. CASE Begin(c)
    BY <1>0, <2>1 DEF Begin, GoTo, Finish, mapperVars, resolveVars
  <2>2. CASE UseMapper(c)
    <3>1. UNCHANGED <<clusterVars, mapperVars, resolveVars>>  BY <2>2 DEF UseMapper
    <3>2. mapper \subseteq offered /\ RESTMapping(c, mapper)  BY <1>0, <2>2 DEF UseMapper
    <3> QED BY <1>0, <3>1, <3>2, LookupEffect DEF clusterVars, mapperVars, resolveVars
  <2>3. CASE StartDiscovery(c)
    BY <1>0, <2>3 DEF StartDiscovery, GoTo, clusterVars
  <2>4. CASE \E k \in Kinds : AskGroup(c, k)
    <3>1. PICK k \in Kinds : AskGroup(c, k)  BY <2>4
    <3>2. UNCHANGED <<clusterVars, mapperVars, stage, outcome, kind>>  BY <3>1 DEF AskGroup
    <3>3. found' \in [Calls -> SUBSET Kinds] /\ todo' \in [Calls -> SUBSET Kinds] /\ missed' \subseteq Calls
      BY <1>0, <3>1 DEF AskGroup
    <3> QED BY <1>0, <3>2, <3>3 DEF clusterVars, mapperVars
  <2>5. CASE FinishDiscovery(c)
    <3>1. UNCHANGED <<clusterVars, resolveVars>> /\ mapper' = found[c] /\ holder' = NoCall
      BY <2>5 DEF FinishDiscovery
    <3>2. found[c] \subseteq offered  BY DEF Inv, ResolveInv
    <3>3. RESTMapping(c, found[c])  BY <2>5 DEF FinishDiscovery
    <3> QED BY <1>0, <3>1, <3>2, <3>3, LookupEffect DEF clusterVars, resolveVars
  <2>6. CASE DiscoveryFails(c)
    BY <1>0, <2>6 DEF DiscoveryFails, Finish, clusterVars, resolveVars
  <2> QED BY <1>3, <2>1, <2>2, <2>3, <2>4, <2>5, <2>6 DEF Resolve
<1>4. ASSUME NEW c \in Calls, ReadOnce(c) PROVE ResolveType'
  BY <1>0, <1>4 DEF ReadOnce, objectNamespaceRefuses, Finish, clusterVars, mapperVars, resolveVars
<1>5. ASSUME NEW c \in Listers, StartListing(c) \/ ListPage(c) \/ ListPageFails(c)
      PROVE  ResolveType'
  <2>1. c \in Calls  BY ListersAssumption
  <2> QED BY <1>0, <1>5, <2>1, ListingEffect DEF Listed, Refusals, clusterVars, mapperVars, resolveVars
<1> QED BY <1>1, <1>2, <1>3, <1>4, <1>5, StepCases

\* Every step keeps what a call in resolve knows, action by action.
LEMMA ResolveStep == Inv /\ [Next]_vars => \A d \in Calls : ResolveInv(d)'
<1> SUFFICES ASSUME Inv, [Next]_vars, NEW d \in Calls PROVE ResolveInv(d)'
  OBVIOUS
<1>0. /\ ResolveType
      /\ ResolveInv(d)
      /\ \A c \in Calls : holder = c <=> stage[c] \in {"build", "rebuild"}
  BY DEF Inv, ResolveInv
<1> USE DEF ResolveType
<1>1. CASE UNCHANGED discoveryVars
  BY <1>0, <1>1 DEF ResolveInv, discoveryVars, clusterVars, mapperVars, resolveVars
<1>2. ASSUME NEW k \in Kinds, Install(k) PROVE ResolveInv(d)'
  <2>1. UNCHANGED <<mapperVars, resolveVars, stage, outcome>> /\ offered \subseteq offered'
        /\ steady' = {c \in steady : kind[c] # k}
        /\ served \ {k} \subseteq served'
    BY <1>2 DEF Install
  <2> QED BY <1>0, <2>1 DEF ResolveInv, mapperVars, resolveVars
<1>3. ASSUME NEW c \in Calls, Resolve(c) PROVE ResolveInv(d)'
  <2>1. CASE Begin(c)
    BY <1>0, <2>1 DEF ResolveInv, Begin, GoTo, Finish, mapperVars, resolveVars
  <2>2. CASE UseMapper(c)
    <3>1. UNCHANGED <<clusterVars, mapperVars, resolveVars>> /\ stage[c] = "lookup"
      BY <2>2 DEF UseMapper
    <3>2. mapper \subseteq offered /\ RESTMapping(c, mapper)  BY <1>0, <2>2 DEF UseMapper
    <3>3. CASE c = d
      BY <1>0, <3>1, <3>2, <3>3, LookupEffect DEF ResolveInv, clusterVars, mapperVars, resolveVars
    <3>4. CASE c # d
      <4>1. stage'[d] = stage[d] /\ outcome'[d] = outcome[d]  BY <3>2, <3>4, LookupOwn
      <4> QED BY <1>0, <3>1, <4>1 DEF ResolveInv, clusterVars, mapperVars, resolveVars
    <3> QED BY <3>3, <3>4
  <2>3. CASE StartDiscovery(c)
    <3>1. CASE c = d
      BY <1>0, <2>3, <3>1, NoCallAssumption DEF ResolveInv, StartDiscovery, GoTo, clusterVars
    <3>2. CASE c # d
      BY <1>0, <2>3, <3>2, NoCallAssumption DEF ResolveInv, StartDiscovery, GoTo, clusterVars
    <3> QED BY <3>1, <3>2
  <2>4. CASE \E k \in Kinds : AskGroup(c, k)
    <3>1. PICK k \in Kinds : AskGroup(c, k)  BY <2>4
    <3>2. UNCHANGED <<clusterVars, mapperVars, stage, outcome, kind>>  BY <3>1 DEF AskGroup
    <3>3. CASE c = d
      <4>1. todo'[d] = todo[d] \ {k}  BY <1>0, <3>1, <3>3 DEF AskGroup
      <4>2. CASE found' = [found EXCEPT ![c] = @ \cup ({k} \cap served)] /\ UNCHANGED missed
        <5>1. found'[d] = found[d] \cup ({k} \cap served)  BY <1>0, <3>3, <4>2
        <5> QED BY <1>0, <3>2, <4>1, <4>2, <5>1 DEF ResolveInv, clusterVars, mapperVars
      <4>3. CASE UNCHANGED found /\ missed' = IF k = kind[c] THEN missed \cup {c} ELSE missed
        BY <1>0, <3>2, <3>3, <4>1, <4>3 DEF ResolveInv, clusterVars, mapperVars
      <4> QED BY <3>1, <4>2, <4>3 DEF AskGroup
    <3>4. CASE c # d
      <4>1. todo'[d] = todo[d] /\ found'[d] = found[d] /\ (d \in missed' <=> d \in missed)
        BY <1>0, <3>1, <3>4 DEF AskGroup
      <4> QED BY <1>0, <3>2, <4>1 DEF ResolveInv, clusterVars, mapperVars
    <3> QED BY <3>3, <3>4
  <2>5. CASE FinishDiscovery(c)
    <3>1. UNCHANGED <<clusterVars, resolveVars>> /\ holder = c /\ todo[c] = {} /\ holder' = NoCall
      BY <2>5 DEF FinishDiscovery
    <3>2. found[c] \subseteq offered  BY DEF Inv, ResolveInv
    <3>3. RESTMapping(c, found[c])  BY <2>5 DEF FinishDiscovery
    <3>4. CASE c = d
      <4>1. \/ kind[d] \in offered /\ stage'[d] = "known" /\ outcome'[d] = outcome[d]
            \/ stage'[d] = "refresh" /\ outcome'[d] = outcome[d]
            \/ stage'[d] = "done" /\ outcome'[d] = "ambiguous kind"
            \/ kind[d] \notin found[d] /\ stage'[d] = "done" /\ outcome'[d] = "unknown kind"
        BY <3>2, <3>3, <3>4, LookupOwn
      <4>2. stage[d] \in {"build", "rebuild"}  BY <1>0, <3>1, <3>4
      <4>3. d \in steady => kind[d] \in found[d] \/ d \in missed
        BY <1>0, <3>1, <3>4, <4>2 DEF ResolveInv
      <4> QED BY <1>0, <3>1, <4>1, <4>2, <4>3, NoCallAssumption
              DEF ResolveInv, clusterVars, resolveVars
    <3>5. CASE c # d
      <4>1. stage'[d] = stage[d] /\ outcome'[d] = outcome[d]
        BY <3>2, <3>3, <3>5, LookupOwn
      <4> QED BY <1>0, <3>1, <3>5, <4>1, NoCallAssumption DEF ResolveInv, clusterVars, resolveVars
    <3> QED BY <3>4, <3>5
  <2>6. CASE DiscoveryFails(c)
    <3>1. CASE c = d
      BY <1>0, <2>6, <3>1, NoCallAssumption DEF ResolveInv, DiscoveryFails, Finish, clusterVars, resolveVars
    <3>2. CASE c # d
      BY <1>0, <2>6, <3>2, NoCallAssumption DEF ResolveInv, DiscoveryFails, Finish, clusterVars, resolveVars
    <3> QED BY <3>1, <3>2
  <2> QED BY <1>3, <2>1, <2>2, <2>3, <2>4, <2>5, <2>6 DEF Resolve
<1>4. ASSUME NEW c \in Calls, ReadOnce(c) PROVE ResolveInv(d)'
  <2>1. UNCHANGED <<clusterVars, mapperVars, resolveVars>> /\ stage[c] = "known"
    BY <1>4 DEF ReadOnce
  <2>2. \E o \in {"scope", "answer", "not found", "request failed"} :
           stage' = [stage EXCEPT ![c] = "done"] /\ outcome' = [outcome EXCEPT ![c] = o]
    BY <1>4 DEF ReadOnce, objectNamespaceRefuses, Finish
  <2> QED BY <1>0, <2>1, <2>2 DEF ResolveInv, clusterVars, mapperVars, resolveVars
<1>5. ASSUME NEW c \in Listers, StartListing(c) \/ ListPage(c) \/ ListPageFails(c)
      PROVE  ResolveInv(d)'
  <2>1. c \in Calls  BY ListersAssumption
  <2>2. UNCHANGED <<clusterVars, mapperVars, resolveVars>> /\ stage[c] \in {"known", "page"}
    BY <1>5, ListingEffect
  <2>3. CASE c = d
    <3>1. \/ stage'[d] = "page" /\ outcome'[d] = outcome[d]
          \/ stage'[d] = "done" /\ outcome'[d] \in Listed
      BY <1>0, <1>5, <2>1, <2>3, ListingEffect
    <3> QED BY <1>0, <2>2, <2>3, <3>1
            DEF ResolveInv, Listed, Refusals, clusterVars, mapperVars, resolveVars
  <2>4. CASE c # d
    <3>1. stage'[d] = stage[d] /\ outcome'[d] = outcome[d]
      BY <1>0, <1>5, <2>1, <2>4, ListingEffect
    <3> QED BY <1>0, <2>2, <3>1 DEF ResolveInv, clusterVars, mapperVars, resolveVars
  <2> QED BY <2>3, <2>4
<1> QED BY <1>1, <1>2, <1>3, <1>4, <1>5, StepCases

-----------------------------------------------------------------------------
\* Listing.

\* The collection without objects is a state.
LEMMA EmptyIsState == Empty \in States
<1>1. Empty \in [{} -> 1..MaxRevision]  BY DEF Empty
<1> QED BY <1>1, StateFrom

\* Revisions are only ever added.
LEMMA PastGrows ==
  ASSUME Inv, [Next]_vars
  PROVE  /\ past' \in Seq(States) /\ Now' \in Nat /\ Now' <= MaxRevision /\ Now \in Nat /\ Now <= Now'
         /\ \A i \in 1..Now : past'[i] = past[i] /\ past[i] \in States
<1>0. past \in Seq(States) /\ Now \in Nat /\ Now <= MaxRevision /\ \A i \in 1..Now : past[i] \in States
  BY DEF Inv, ListType, Now
<1>1. CASE UNCHANGED past  BY <1>0, <1>1 DEF Now
<1>2. ASSUME NEW n \in 1..Names, ChangeObject(n)
      PROVE  \E S \in States : past' = Append(past, S) /\ Now + 1 <= MaxRevision
  <2> DEFINE now == past[Now]
             wider == [m \in DOMAIN now \cup {n} |-> IF m = n THEN Now + 1 ELSE now[m]]
             narrower == [m \in DOMAIN now \ {n} |-> now[m]]
  <2>1. Now \in 1..(MaxRevision - 1)  BY <1>2 DEF ChangeObject
  <2>2. Now + 1 \in 1..MaxRevision /\ now \in States  BY <1>0, <2>1, BoundsAssumption
  <2>3. DOMAIN now \subseteq 1..Names /\ \A m \in DOMAIN now : now[m] \in 1..MaxRevision
    <3> HIDE DEF now
    <3> QED BY <2>2, StateType
  <2>4. wider \in States
    <3>1. wider \in [DOMAIN now \cup {n} -> 1..MaxRevision]  BY <2>2, <2>3
    <3> HIDE DEF wider, now
    <3> QED BY <2>3, <3>1, StateFrom
  <2>5. narrower \in States
    <3>1. narrower \in [DOMAIN now \ {n} -> 1..MaxRevision]  BY <2>3
    <3> HIDE DEF narrower, now
    <3> QED BY <2>3, <3>1, StateFrom
  <2>6. past' = Append(past, wider) \/ past' = Append(past, narrower)  BY <1>2 DEF ChangeObject
  <2> HIDE DEF wider, narrower, now
  <2> QED BY <2>2, <2>4, <2>5, <2>6
<1>3. ASSUME NEW S \in States, past' = Append(past, S), Now + 1 <= MaxRevision
      PROVE  /\ past' \in Seq(States) /\ Now' = Now + 1
             /\ \A i \in 1..Now : past'[i] = past[i]
  BY <1>0, <1>3 DEF Now
<1>4. ASSUME NEW c \in Listers, StartListing(c), past' # past
      PROVE  \E S \in States : past' = <<S>> /\ past = <<>>
  <2>1. PICK T \in SUBSET (1..Names) : past' = <<[n \in T |-> 1]>> /\ past = <<>>
    BY <1>4 DEF StartListing, objectNamespaceRefuses
  <2>2. [n \in T |-> 1] \in [T -> 1..MaxRevision]  BY BoundsAssumption
  <2>3. [n \in T |-> 1] \in States  BY <2>2, StateFrom
  <2> QED BY <2>1, <2>3
<1>5. ASSUME NEW S \in States, past' = <<S>>, past = <<>>
      PROVE  past' \in Seq(States) /\ Now' = 1 /\ Now = 0
  BY <1>5 DEF Now
<1>6. \/ UNCHANGED past
      \/ \E n \in 1..Names : ChangeObject(n)
      \/ \E c \in Listers : StartListing(c) /\ past' # past
  BY DEF Next, Step, ListPage, ListPageFails, vars
<1>7. CASE \E n \in 1..Names : ChangeObject(n)
  <2>1. PICK S \in States : past' = Append(past, S) /\ Now + 1 <= MaxRevision  BY <1>2, <1>7
  <2>2. past' \in Seq(States) /\ Now' = Now + 1 /\ \A i \in 1..Now : past'[i] = past[i]
    BY <1>3, <2>1
  <2>3. Now' \in Nat /\ Now <= Now'  BY <1>0, <2>2
  <2>4. Now' <= MaxRevision  BY <2>1, <2>2
  <2> QED BY <1>0, <2>2, <2>3, <2>4
<1>8. CASE \E c \in Listers : StartListing(c) /\ past' # past
  <2>1. PICK S \in States : past' = <<S>> /\ past = <<>>  BY <1>4, <1>8
  <2> QED BY <1>0, <1>5, <2>1, BoundsAssumption
<1> QED BY <1>1, <1>6, <1>7, <1>8

\* A lister whose own variables stay keeps what holds of it while revisions are added.
LEMMA ListerStays ==
  ASSUME Inv, [Next]_vars, NEW d \in Listers,
         stage'[d] = stage[d], outcome'[d] = outcome[d], pages'[d] = pages[d],
         targets'[d] = targets[d], pinned'[d] = pinned[d], cursor'[d] = cursor[d],
         cursors'[d] = cursors[d], begun'[d] = begun[d], d \in strayed' <=> d \in strayed,
         d \in hushed' <=> d \in hushed
  PROVE  ListInv(d)' /\ EndInv(d)'
<1>1. /\ Now' \in Nat /\ Now \in Nat /\ Now <= Now'
      /\ \A i \in 1..Now : past'[i] = past[i]
  BY PastGrows
<1>2. ListInv(d) /\ EndInv(d) /\ pinned[d] \in Nat /\ begun[d] \in Nat  BY DEF Inv, ListType
<1>3. pinned[d] > 0 => past'[pinned[d]] = past[pinned[d]]
  <2>1. pinned[d] <= Now  BY <1>2 DEF ListInv
  <2> QED BY <1>1, <1>2, <2>1
<1>4. EndInv(d)'
  <2>1. pinned[d] \in begun[d]..Now => pinned'[d] \in begun'[d]..Now'  BY <1>1, <1>2
  <2> QED BY <1>2, <1>3, <2>1 DEF EndInv
<1>5. ASSUME stage[d] = "page", pages[d] > 0 PROVE ProgressInv(d)'
  <2>1. ProgressInv(d) /\ begun[d] \in 1..Now  BY <1>2, <1>5 DEF ListInv
  <2>2. pinned[d] \in begun[d]..Now /\ pinned[d] > 0  BY <1>1, <2>1 DEF ProgressInv
  <2>3. past'[pinned'[d]] = past[pinned[d]] /\ pinned'[d] \in begun'[d]..Now'
    BY <1>1, <1>2, <1>3, <2>2
  <2> QED BY <2>1, <2>3 DEF ProgressInv
<1>6. begun[d] \in 1..Now => begun'[d] \in 1..Now'  BY <1>1
<1>7. pinned'[d] <= Now'
  <2>1. pinned[d] <= Now  BY <1>2 DEF ListInv
  <2> QED BY <1>1, <1>2, <2>1
<1> QED BY <1>2, <1>4, <1>5, <1>6, <1>7 DEF ListInv

\* While a call resolves its kind it does not get to a page or to a page's outcomes.
LEMMA ResolvingEffect ==
  ASSUME Inv, NEW c \in Calls, Resolve(c)
  PROVE  /\ stage[c] \notin {"page", "done"} /\ stage'[c] # "page"
         /\ outcome'[c] \notin Refusals \cup {"snapshot"}
         /\ \A d \in Calls \ {c} : stage'[d] = stage[d] /\ outcome'[d] = outcome[d]
<1>1. /\ stage \in [Calls -> Stages] /\ outcome \in [Calls -> Outcomes] /\ mapper \subseteq offered
      /\ holder = c <=> stage[c] \in {"build", "rebuild"}
      /\ found[c] \subseteq offered
      /\ stage[c] # "done" => outcome[c] = "none"
  BY DEF Inv, ResolveType, ResolveInv
<1> USE DEF Refusals
<1>2. CASE Begin(c)  BY <1>1, <1>2 DEF Begin, GoTo, Finish
<1>3. CASE UseMapper(c)
  <2>1. stage[c] = "lookup" /\ RESTMapping(c, mapper)  BY <1>3 DEF UseMapper
  <2> QED BY <1>1, <2>1, LookupOwn
<1>4. CASE StartDiscovery(c)  BY <1>1, <1>4 DEF StartDiscovery, GoTo
<1>5. CASE \E k \in Kinds : AskGroup(c, k)
  <2>1. holder = c /\ UNCHANGED <<stage, outcome>>  BY <1>5 DEF AskGroup
  <2> QED BY <1>1, <2>1
<1>6. CASE FinishDiscovery(c)
  <2>1. holder = c /\ RESTMapping(c, found[c])  BY <1>6 DEF FinishDiscovery
  <2> QED BY <1>1, <2>1, LookupOwn
<1>7. CASE DiscoveryFails(c)  BY <1>1, <1>7 DEF DiscoveryFails, Finish
<1> QED BY <1>2, <1>3, <1>4, <1>5, <1>6, <1>7 DEF Resolve

\* A page taken in: the gathered targets are again the pinned state up to the new
\* cursor, or, after the last page, a part of it, and all of it if the page is honest.
LEMMA TakeEffect ==
  ASSUME Inv, NEW c \in Listers, stage[c] = "page", NEW p \in HonestPages(c) \cup HushedPages(c),
         WithinTargets(c, p), TakePage(c, p)
  PROVE  LET S == past[Base(c)]
             T == targets'[c]
         IN  /\ T \in States /\ Cardinality(DOMAIN T) <= MaxTargets
             /\ targets' = [targets EXCEPT ![c] = T]
             /\ p.next \in Nat
             /\ DOMAIN T \subseteq DOMAIN S /\ \A m \in DOMAIN T : T[m] = S[m]
             /\ p.next = 0 /\ p \in HonestPages(c) => T = S
             /\ p.next # 0 =>
                   /\ p.next \in DOMAIN S /\ p.next > cursor[c]
                   /\ DOMAIN T = {m \in DOMAIN S : m <= p.next}
                   /\ pages[c] + 1 <= Cardinality(DOMAIN T)
<1> DEFINE S == past[Base(c)]
           G == DOMAIN targets[c]
           T == [n \in G \cup p.names |-> IF n \in p.names THEN S[n] ELSE targets[c][n]]
<1>1. /\ S \in States /\ targets[c] \in States /\ cursor[c] \in Nat /\ pages[c] \in Nat
      /\ G = {m \in DOMAIN S : m <= cursor[c]}
      /\ \A m \in G : targets[c][m] = S[m]
      /\ pages[c] <= Cardinality(G)
  BY BeforePage
<1>2. /\ p.rv = Base(c) /\ p.next \in Nat
      /\ p.names \subseteq {m \in DOMAIN S : m > cursor[c]}
      /\ p.next = 0 /\ p \in HonestPages(c) => {m \in DOMAIN S : m > cursor[c]} = p.names
      /\ p.next # 0 =>
            /\ p.next \in p.names
            /\ p.names = {m \in DOMAIN S : cursor[c] < m /\ m <= p.next}
  <2>1. CASE p \in HonestPages(c)  BY <2>1, HonestPage
  <2>2. CASE p \in HushedPages(c) /\ p \notin HonestPages(c)  BY <2>2, HushedPage
  <2> QED BY <2>1, <2>2
<1>3. targets \in [Listers -> States]  BY DEF Inv, ListType
<1>4. targets' = [targets EXCEPT ![c] = T]  BY <1>2, <1>3 DEF TakePage
<1>5. targets'[c] = T
  <2> HIDE DEF T
  <2> QED BY <1>3, <1>4
<1> HIDE DEF S
<1>6. /\ DOMAIN S \subseteq 1..Names /\ DOMAIN S \subseteq Nat \ {0}
      /\ S = [m \in DOMAIN S |-> S[m]] /\ \A m \in DOMAIN S : S[m] \in 1..MaxRevision
  BY <1>1, StateType
<1>7. G \subseteq DOMAIN S /\ p.names \subseteq DOMAIN S /\ G \cap p.names = {}
  BY <1>1, <1>2, <1>6
<1>8. \A m \in G \cup p.names : T[m] = S[m]  BY <1>1
<1>9. T \in States
  <2>1. T \in [G \cup p.names -> 1..MaxRevision]  BY <1>6, <1>7, <1>8
  <2>2. G \cup p.names \subseteq 1..Names  BY <1>6, <1>7
  <2> HIDE DEF T, G
  <2> QED BY <2>1, <2>2, StateFrom
<1>10. DOMAIN T = G \cup p.names  OBVIOUS
<1>11. /\ Cardinality(G) \in Nat /\ IsFiniteSet(G) /\ Cardinality(p.names) \in Nat /\ IsFiniteSet(p.names)
       /\ Cardinality(G \cup p.names) = Cardinality(G) + Cardinality(p.names)
  <2> HIDE DEF G
  <2>1. /\ Cardinality(G) \in Nat /\ IsFiniteSet(G) /\ Cardinality(p.names) \in Nat
        /\ IsFiniteSet(p.names)
    BY <1>6, <1>7, NamesFinite
  <2>2. Cardinality(G \cup p.names) = Cardinality(G) + Cardinality(p.names) - Cardinality(G \cap p.names)
    BY <2>1, FS_Union
  <2>3. Cardinality(G \cap p.names) = 0  BY <1>7, FS_EmptySet
  <2> QED BY <2>1, <2>2, <2>3
<1>12. Cardinality(DOMAIN T) <= MaxTargets
  BY <1>10, <1>11 DEF WithinTargets
<1>13. ASSUME p.next = 0, p \in HonestPages(c) PROVE T = S
  <2>1. G \cup p.names = DOMAIN S  BY <1>1, <1>2, <1>6, <1>13
  <2>2. T = [m \in DOMAIN S |-> T[m]]  BY <1>10, <2>1
  <2> HIDE DEF T, G
  <2> QED BY <1>6, <1>8, <2>1, <2>2
<1>14. ASSUME p.next # 0
       PROVE  /\ p.next \in DOMAIN S /\ p.next > cursor[c]
              /\ DOMAIN T = {m \in DOMAIN S : m <= p.next}
              /\ pages[c] + 1 <= Cardinality(DOMAIN T)
  <2>1. p.next \in DOMAIN S /\ p.next > cursor[c]  BY <1>2, <1>14
  <2>2. G \cup p.names = {m \in DOMAIN S : m <= p.next}
    BY <1>1, <1>2, <1>6, <1>14, <2>1
  <2>3. Cardinality(p.names) # 0  BY <1>2, <1>11, <1>14, FS_EmptySet
  <2>4. pages[c] + 1 <= Cardinality(G \cup p.names)
    <3> HIDE DEF G
    <3> QED BY <1>1, <1>11, <2>3
  <2> QED BY <1>10, <2>1, <2>2, <2>4
<1>15. DOMAIN T \subseteq DOMAIN S  BY <1>7, <1>10
<1> HIDE DEF T, G
<1> QED BY <1>2, <1>4, <1>5, <1>8, <1>9, <1>10, <1>12, <1>13, <1>14, <1>15 DEF S

\* Every step keeps the types of the listings.
LEMMA ListTypeStep == Inv /\ [Next]_vars => ListType'
<1> SUFFICES ASSUME Inv, [Next]_vars PROVE ListType'
  OBVIOUS
<1>0. ListType  BY DEF Inv
<1>1. past' \in Seq(States) /\ Now' <= MaxRevision /\ Now' \in Nat /\ Now \in Nat  BY PastGrows
<1> USE DEF ListType
<1>2. CASE UNCHANGED snapshotVars
  BY <1>0, <1>1, <1>2 DEF snapshotVars
<1>3. ASSUME NEW c \in Listers, StartListing(c) PROVE ListType'
  <2>1. UNCHANGED <<pages, targets, pinned, cursor, cursors, strayed, hushed>>  BY <1>3 DEF StartListing
  <2>2. begun' \in [Listers -> Nat]
    <3>1. UNCHANGED begun \/ begun' = [begun EXCEPT ![c] = Now']  BY <1>3 DEF StartListing, Now
    <3> QED BY <1>0, <1>1, <3>1
  <2> QED BY <1>0, <1>1, <2>1, <2>2
<1>4. ASSUME NEW c \in Listers, ListPageFails(c) PROVE ListType'
  <2>1. UNCHANGED <<pages, pinned, begun, strayed, hushed>> /\ Refuse(c, "request failed")
    BY <1>4 DEF ListPageFails
  <2> QED BY <1>0, <1>1, <2>1, EmptyIsState DEF Refuse
<1>5. ASSUME NEW c \in Listers, ListPage(c) PROVE ListType'
  <2>1. /\ stage[c] = "page" /\ UNCHANGED begun
        /\ strayed' \subseteq Listers /\ hushed' \subseteq Listers
    BY <1>0, <1>5 DEF ListPage
  <2>2. pages' \in [Listers -> Nat] /\ pinned' \in [Listers -> Nat]
    <3>1. PICK rv \in 1..Now : pinned' = [pinned EXCEPT ![c] = rv]  BY <1>5, PageRead
    <3>2. rv \in Nat  BY <1>1
    <3>3. pages' = [pages EXCEPT ![c] = @ + 1]  BY <1>5, PageRead
    <3> QED BY <1>0, <3>1, <3>2, <3>3
  <2>3. CASE \E o \in Refusals : Refuse(c, o)
    <3>1. /\ targets' = [targets EXCEPT ![c] = Empty] /\ cursor' = [cursor EXCEPT ![c] = 0]
          /\ cursors' = [cursors EXCEPT ![c] = {}]
      BY <2>3 DEF Refuse
    <3> QED BY <1>0, <1>1, <2>1, <2>2, <3>1, EmptyIsState
  <2>4. CASE \E p \in HonestPages(c) \cup HushedPages(c) : WithinTargets(c, p) /\ TakePage(c, p)
    <3>1. PICK p \in HonestPages(c) \cup HushedPages(c) : WithinTargets(c, p) /\ TakePage(c, p)
      BY <2>4
    <3>2. p.next \in Nat  BY <2>1, <3>1, TakeEffect
    <3>3. targets'[c] \in States /\ targets' = [targets EXCEPT ![c] = targets'[c]]
      BY <2>1, <3>1, TakeEffect
    <3>4. targets' \in [Listers -> States]  BY <1>0, <3>3
    <3>5. cursor' \in [Listers -> Nat] /\ cursors' \in [Listers -> SUBSET Nat]
      <4>1. \/ cursor' = [cursor EXCEPT ![c] = 0] /\ cursors' = [cursors EXCEPT ![c] = {}]
            \/ /\ cursor' = [cursor EXCEPT ![c] = p.next]
               /\ cursors' = [cursors EXCEPT ![c] = cursors[c] \cup {p.next}]
        BY <1>0, <3>1 DEF TakePage
      <4>2. cursors[c] \cup {p.next} \in SUBSET Nat  BY <1>0, <3>2
      <4>3. cursor \in [Listers -> Nat] /\ cursors \in [Listers -> SUBSET Nat]  BY <1>0
      <4> QED BY <3>2, <4>1, <4>2, <4>3
    <3> QED BY <1>0, <1>1, <2>1, <2>2, <3>4, <3>5
  <2> QED BY <1>5, <2>3, <2>4, PageRead
<1> QED BY <1>2, <1>3, <1>4, <1>5 DEF Next, Step, ChangeObject, vars

\* The part of a listing's invariant that the step of the call itself must keep.
LEMMA ListerStep ==
  ASSUME Inv, [Next]_vars, NEW c \in Listers, StartListing(c) \/ ListPage(c) \/ ListPageFails(c)
  PROVE  ListInv(c)' /\ EndInv(c)'
<1>0. /\ ListType /\ ListInv(c) /\ EndInv(c) /\ c \in Calls
      /\ stage \in [Calls -> Stages] /\ outcome \in [Calls -> Outcomes]
      /\ stage[c] # "done" => outcome[c] = "none"
  BY ListersAssumption DEF Inv, ResolveType, ResolveInv
<1>1. /\ Now' \in Nat /\ Now \in Nat /\ Now <= Now'
      /\ \A i \in 1..Now : past'[i] = past[i]
  BY PastGrows
<1>2. CASE StartListing(c)
  <2>1. UNCHANGED <<pages, targets, pinned, cursor, cursors, strayed, hushed>> /\ stage[c] = "known"
    BY <1>2 DEF StartListing
  <2>2. /\ pages[c] = 0 /\ pinned[c] = 0 /\ cursor[c] = 0 /\ targets[c] = Empty /\ cursors[c] = {}
        /\ pages[c] <= MaxPages /\ Cardinality(DOMAIN targets[c]) <= MaxTargets
    BY <1>0, <2>1 DEF ListInv
  <2>3. \/ stage'[c] = "done" /\ outcome'[c] = "scope"
        \/ /\ stage'[c] = "page" /\ outcome'[c] = "none" /\ begun'[c] = Now' /\ Now' >= 1
    <3>1. CASE objectNamespaceRefuses(c)  BY <1>0, <3>1 DEF objectNamespaceRefuses, Finish
    <3>2. CASE GoTo(c, "page") /\ begun' = [begun EXCEPT ![c] = Len(past')]
               /\ past' \in IF past = <<>> THEN {<<[n \in S |-> 1]>> : S \in SUBSET (1..Names)} ELSE {past}
      <4>1. stage'[c] = "page" /\ outcome'[c] = "none" /\ begun'[c] = Now'
        BY <1>0, <2>1, <3>2 DEF GoTo, ListType, Now
      <4>2. past' # <<>>  BY <3>2
      <4>3. past' \in Seq(States)  BY PastGrows
      <4>4. Len(past') # 0  BY <4>2, <4>3
      <4> QED BY <1>1, <4>1, <4>4 DEF Now
    <3> QED BY <1>2, <3>1, <3>2 DEF StartListing
  <2>4. 0 < MaxPages /\ ~(0 > 0)  BY BoundsAssumption
  <2>5. begun'[c] = Now' /\ Now' >= 1 => begun'[c] \in 1..Now'  BY <1>1
  <2>6. pages'[c] = 0 /\ pinned'[c] = 0 /\ cursor'[c] = 0 /\ targets'[c] = Empty /\ cursors'[c] = {}
    BY <2>1, <2>2
  <2>7. 0 <= MaxPages /\ 0 <= Now' /\ Cardinality(DOMAIN Empty) <= MaxTargets
    BY <1>1, <2>2, BoundsAssumption
  <2>8. CASE stage'[c] = "done" /\ outcome'[c] = "scope"
    BY <2>4, <2>6, <2>7, <2>8 DEF ListInv, EndInv
  <2>9. CASE stage'[c] = "page" /\ outcome'[c] = "none" /\ begun'[c] \in 1..Now'
    BY <2>4, <2>6, <2>7, <2>9 DEF ListInv, EndInv
  <2> QED BY <2>3, <2>5, <2>8, <2>9
<1>3. CASE ListPageFails(c)
  <2>1. UNCHANGED <<pages, pinned, begun, strayed, hushed>> /\ Refuse(c, "request failed") /\ stage[c] = "page"
    BY <1>3 DEF ListPageFails
  <2>2. /\ stage'[c] = "done" /\ outcome'[c] = "request failed" /\ targets'[c] = Empty
        /\ cursor'[c] = 0 /\ cursors'[c] = {}
    BY <1>0, <2>1 DEF Refuse, Finish, ListType
  <2>3. Cardinality(DOMAIN Empty) = 0  BY FS_EmptySet DEF Empty
  <2>4. pinned'[c] <= Now'
    <3>1. pinned[c] <= Now  BY <1>0 DEF ListInv
    <3>2. pinned[c] \in Nat  BY <1>0 DEF ListType
    <3>3. pinned'[c] = pinned[c]  BY <2>1
    <3>4. \A a, b, d \in Nat : a <= b /\ b <= d => a <= d  OBVIOUS
    <3> QED BY <1>1, <3>1, <3>2, <3>3, <3>4
  <2>5. 0 <= MaxTargets  BY BoundsAssumption
  <2> QED BY <1>0, <2>1, <2>2, <2>3, <2>4, <2>5 DEF ListInv, EndInv
<1>4. CASE ListPage(c)
  <2>1. stage[c] = "page" /\ UNCHANGED <<begun, past>>  BY <1>4 DEF ListPage
  <2>2. /\ Base(c) \in begun[c]..Now /\ Base(c) \in 1..Now
        /\ cursor[c] \in Nat /\ cursors[c] \subseteq 1..cursor[c] /\ pages[c] \in Nat
    BY <2>1, BeforePage
  <2>3. begun[c] \in 1..Now /\ pages[c] < MaxPages  BY <1>0, <2>1 DEF ListInv
  <2>4. pages'[c] = pages[c] + 1  BY <1>0, <1>4, PageRead DEF ListType
  <2>5. pages'[c] # 0 /\ pages'[c] <= MaxPages /\ pages'[c] > 0
    BY <2>2, <2>3, <2>4, BoundsAssumption
  <2>6. Now' = Now  BY <2>1 DEF Now
  <2>7. PICK rv \in 1..Now :
           /\ pinned' = [pinned EXCEPT ![c] = rv]
           /\ \/ \E o \in Refusals :
                    /\ Refuse(c, o)
                    /\ c \notin strayed' =>
                          /\ rv = Base(c)
                          /\ o \in {"too many targets", "too many pages"}
                          /\ o = "too many targets" => Cardinality(DOMAIN past[rv]) > MaxTargets
                          /\ o = "too many pages" => Cardinality(DOMAIN past[rv]) > MaxPages
              \/ \E p \in HonestPages(c) \cup HushedPages(c) :
                    /\ p \in HonestPages(c) \/ c \in hushed'
                    /\ rv = Base(c)
                    /\ WithinTargets(c, p)
                    /\ p.next = 0 \/ pages[c] + 1 # MaxPages
                    /\ TakePage(c, p)
    BY <1>4, PageRead
  <2>8. pinned'[c] = rv /\ rv <= Now /\ rv > 0
    <3>1. pinned \in [Listers -> Nat]  BY <1>0 DEF ListType
    <3>2. pinned' = [pinned EXCEPT ![c] = rv]  BY <2>7
    <3>3. pinned'[c] = rv  BY <3>1, <3>2
    <3> QED BY <1>1, <3>3
  <2>9. ASSUME NEW o \in Refusals, Refuse(c, o),
               c \notin strayed' =>
                  /\ rv = Base(c)
                  /\ o \in {"too many targets", "too many pages"}
                  /\ o = "too many targets" => Cardinality(DOMAIN past[rv]) > MaxTargets
                  /\ o = "too many pages" => Cardinality(DOMAIN past[rv]) > MaxPages
        PROVE  ListInv(c)' /\ EndInv(c)'
    <3>1. stage'[c] = "done" /\ outcome'[c] = o /\ targets'[c] = Empty
      BY <1>0, <2>9 DEF Refuse, Finish, ListType
    <3>2. Cardinality(DOMAIN Empty) = 0 /\ 0 <= MaxTargets
      BY FS_EmptySet, BoundsAssumption DEF Empty
    <3>3. ListInv(c)'  BY <2>5, <2>6, <2>8, <3>1, <3>2 DEF ListInv
    <3>4. EndInv(c)'  BY <2>1, <2>8, <2>9, <3>1 DEF EndInv, Refusals
    <3> QED BY <3>3, <3>4
  <2>10. ASSUME NEW p \in HonestPages(c) \cup HushedPages(c), p \in HonestPages(c) \/ c \in hushed',
                rv = Base(c), WithinTargets(c, p), TakePage(c, p),
                p.next = 0 \/ pages[c] + 1 # MaxPages
         PROVE  ListInv(c)' /\ EndInv(c)'
    <3> DEFINE S == past[Base(c)]
               T == targets'[c]
    <3>1. /\ T \in States /\ Cardinality(DOMAIN T) <= MaxTargets
          /\ p.next \in Nat
          /\ DOMAIN T \subseteq DOMAIN S /\ \A m \in DOMAIN T : T[m] = S[m]
          /\ p.next = 0 /\ p \in HonestPages(c) => T = S
          /\ p.next # 0 =>
                /\ p.next \in DOMAIN S /\ p.next > cursor[c]
                /\ DOMAIN T = {m \in DOMAIN S : m <= p.next}
                /\ pages[c] + 1 <= Cardinality(DOMAIN T)
      BY <2>1, <2>10, TakeEffect
    <3>2. p.next \in Nat  BY <3>1
    <3>3. pinned'[c] = Base(c) /\ past'[pinned'[c]] = S /\ begun'[c] = begun[c]
      BY <2>1, <2>8, <2>10
    <3> HIDE DEF S, T
    <3>4. CASE p.next = 0
      <4>1. stage'[c] = "done" /\ outcome'[c] = "snapshot"
        BY <1>0, <2>10, <3>4 DEF TakePage, Finish
      <4>2. ListInv(c)'  BY <2>5, <2>6, <2>8, <3>1, <4>1 DEF ListInv, T
      <4>3. c \notin hushed' => T = S  BY <2>10, <3>1, <3>4
      <4>4. EndInv(c)'  BY <2>2, <2>6, <2>8, <3>1, <3>3, <4>1, <4>3 DEF EndInv, T
      <4> QED BY <4>2, <4>4
    <3>5. CASE p.next # 0
      <4>1. stage'[c] = "page" /\ outcome'[c] = "none"
        BY <1>0, <2>1, <2>10, <3>5 DEF TakePage, GoTo
      <4>2. cursor'[c] = p.next /\ cursors'[c] = cursors[c] \cup {p.next}
        BY <1>0, <2>10, <3>5 DEF TakePage, ListType
      <4>3. cursors'[c] \subseteq 1..p.next  BY <2>2, <3>1, <3>2, <3>5, <4>2
      <4>4. pages[c] + 1 < MaxPages
        BY <2>2, <2>3, <2>10, <3>5, BoundsAssumption
      <4>5. ProgressInv(c)'
        BY <2>2, <2>4, <2>6, <3>1, <3>3, <3>5, <4>2, <4>3 DEF ProgressInv, T
      <4>6. ListInv(c)'
        BY <2>1, <2>3, <2>4, <2>5, <2>6, <2>8, <3>1, <4>1, <4>4, <4>5 DEF ListInv, T
      <4>7. EndInv(c)'  BY <4>1 DEF EndInv
      <4> QED BY <4>6, <4>7
    <3> QED BY <3>4, <3>5
  <2> QED BY <2>7, <2>9, <2>10
<1> QED BY <1>2, <1>3, <1>4

\* Every step keeps what a listing knows: its own by ListerStep, the others by ListerStays.
LEMMA ListStep == Inv /\ [Next]_vars => \A d \in Listers : (ListInv(d) /\ EndInv(d))'
<1> SUFFICES ASSUME Inv, [Next]_vars, NEW d \in Listers PROVE ListInv(d)' /\ EndInv(d)'
  OBVIOUS
<1>0. ListType /\ ListInv(d) /\ d \in Calls  BY ListersAssumption DEF Inv
<1>1. CASE UNCHANGED snapshotVars /\ stage'[d] = stage[d] /\ outcome'[d] = outcome[d]
  BY <1>1, ListerStays DEF snapshotVars
<1>2. ASSUME NEW c \in Calls, Resolve(c), UNCHANGED <<past, snapshotVars>>
      PROVE  ListInv(d)' /\ EndInv(d)'
  <2>1. CASE c # d
    <3>1. stage'[d] = stage[d] /\ outcome'[d] = outcome[d]  BY <1>0, <1>2, <2>1, ResolvingEffect
    <3> QED BY <1>1, <1>2, <3>1
  <2>2. CASE c = d
    <3>1. /\ stage[d] \notin {"page", "done"} /\ stage'[d] # "page"
          /\ outcome'[d] \notin Refusals \cup {"snapshot"}
      BY <1>2, <2>2, ResolvingEffect
    <3>2. pages[d] = 0  BY <1>0, <3>1 DEF ListInv
    <3>3. Now' = Now  BY <1>2 DEF Now
    <3> QED BY <1>0, <1>2, <3>1, <3>2, <3>3 DEF ListInv, EndInv, Refusals, snapshotVars
  <2> QED BY <2>1, <2>2
<1>3. ASSUME NEW c \in Calls \ Listers, ReadOnce(c), UNCHANGED snapshotVars
      PROVE  ListInv(d)' /\ EndInv(d)'
  <2>1. stage'[d] = stage[d] /\ outcome'[d] = outcome[d]
    <3>1. stage \in [Calls -> Stages] /\ outcome \in [Calls -> Outcomes]  BY DEF Inv, ResolveType
    <3>2. \E o : stage' = [stage EXCEPT ![c] = "done"] /\ outcome' = [outcome EXCEPT ![c] = o]
      BY <1>3 DEF ReadOnce, objectNamespaceRefuses, Finish
    <3> QED BY <1>0, <1>3, <3>1, <3>2
  <2> QED BY <1>1, <1>3, <2>1
<1>4. ASSUME NEW c \in Listers, StartListing(c) \/ ListPage(c) \/ ListPageFails(c)
      PROVE  ListInv(d)' /\ EndInv(d)'
  <2>1. CASE c = d  BY <1>4, <2>1, ListerStep
  <2>2. CASE c # d
    <3>1. c \in Calls /\ stage \in [Calls -> Stages] /\ outcome \in [Calls -> Outcomes]
      BY ListersAssumption DEF Inv, ResolveType
    <3>2. stage'[d] = stage[d] /\ outcome'[d] = outcome[d]
      BY <1>0, <1>4, <2>2, <3>1, ListingEffect
    <3>3. /\ pages'[d] = pages[d] /\ targets'[d] = targets[d] /\ pinned'[d] = pinned[d]
          /\ cursor'[d] = cursor[d] /\ cursors'[d] = cursors[d] /\ begun'[d] = begun[d]
          /\ d \in strayed' <=> d \in strayed
          /\ d \in hushed' <=> d \in hushed
      <4>1. CASE StartListing(c)  BY <1>0, <2>2, <4>1 DEF StartListing, ListType
      <4>2. CASE ListPageFails(c)  BY <1>0, <2>2, <4>2 DEF ListPageFails, Refuse, ListType
      <4>3. CASE ListPage(c)
        <5>1. /\ UNCHANGED begun /\ (d \in strayed' <=> d \in strayed)
              /\ d \in hushed' <=> d \in hushed
          BY <2>2, <4>3 DEF ListPage
        <5>2. pages'[d] = pages[d] /\ pinned'[d] = pinned[d]
          <6>1. pages' = [pages EXCEPT ![c] = @ + 1] /\ \E rv : pinned' = [pinned EXCEPT ![c] = rv]
            BY <4>3, PageRead
          <6>2. pages \in [Listers -> Nat] /\ pinned \in [Listers -> Nat]  BY <1>0 DEF ListType
          <6> QED BY <2>2, <6>1, <6>2
        <5>3. (\E o \in Refusals : Refuse(c, o)) \/ (\E p : TakePage(c, p))
          BY <4>3, PageRead
        <5>4. targets'[d] = targets[d] /\ cursor'[d] = cursor[d] /\ cursors'[d] = cursors[d]
          <6>1. \E T, k, K : /\ targets' = [targets EXCEPT ![c] = T]
                             /\ cursor' = [cursor EXCEPT ![c] = k]
                             /\ cursors' = [cursors EXCEPT ![c] = K]
            <7>1. CASE \E o \in Refusals : Refuse(c, o)  BY <7>1 DEF Refuse
            <7>2. ASSUME NEW p, TakePage(c, p)
                  PROVE  /\ \E T : targets' = [targets EXCEPT ![c] = T]
                         /\ \E k, K : /\ cursor' = [cursor EXCEPT ![c] = k]
                                      /\ cursors' = [cursors EXCEPT ![c] = K]
              BY <7>2 DEF TakePage
            <7> QED BY <5>3, <7>1, <7>2
          <6>2. /\ targets \in [Listers -> States] /\ cursor \in [Listers -> Nat]
                /\ cursors \in [Listers -> SUBSET Nat]
            BY <1>0 DEF ListType
          <6> QED BY <2>2, <6>1, <6>2
        <5> QED BY <5>1, <5>2, <5>4
      <4> QED BY <1>4, <4>1, <4>2, <4>3
    <3> QED BY <3>2, <3>3, ListerStays
  <2> QED BY <2>1, <2>2
<1>5. ASSUME NEW k \in Kinds, Install(k), UNCHANGED <<past, snapshotVars>>
      PROVE  ListInv(d)' /\ EndInv(d)'
  BY <1>1, <1>5 DEF Install
<1>6. ASSUME NEW n \in 1..Names, ChangeObject(n) PROVE ListInv(d)' /\ EndInv(d)'
  BY <1>1, <1>6 DEF ChangeObject, discoveryVars
<1>7. CASE UNCHANGED vars
  BY <1>1, <1>7 DEF vars, discoveryVars
<1>8. ASSUME NEW c \in Calls, Step(c) PROVE ListInv(d)' /\ EndInv(d)'
  <2>1. CASE Resolve(c) /\ UNCHANGED <<past, snapshotVars>>  BY <1>2, <2>1
  <2>2. CASE c \notin Listers /\ ReadOnce(c) /\ UNCHANGED <<past, snapshotVars>>  BY <1>3, <2>2
  <2>3. CASE c \in Listers /\ (StartListing(c) \/ ListPage(c) \/ ListPageFails(c))  BY <1>4, <2>3
  <2> QED BY <1>8, <2>1, <2>2, <2>3 DEF Step
<1> QED BY <1>5, <1>6, <1>7, <1>8 DEF Next

\* The initial states satisfy the invariant.
LEMMA Initially == Init => Inv
<1> SUFFICES ASSUME Init PROVE Inv
  OBVIOUS
<1>1. ResolveType
  BY MaxInstallsAssumption DEF Init, DiscoveryInit, ResolveType, Stages, Outcomes
<1>2. \A c \in Calls : ResolveInv(c)
  BY NoCallAssumption DEF Init, DiscoveryInit, ResolveInv
<1>3. past = <<>> /\ Now = 0  BY DEF Init, Now
<1>4. past \in Seq(States) /\ Now <= MaxRevision  BY <1>3, BoundsAssumption
<1>5. ListType
  BY <1>4, EmptyIsState DEF Init, ListType
<1>6. Cardinality(DOMAIN Empty) <= MaxTargets /\ 0 <= MaxPages /\ ~(0 > 0)
  <2>1. Cardinality(DOMAIN Empty) = 0  BY FS_EmptySet DEF Empty
  <2> QED BY <2>1, BoundsAssumption
<1>7. ASSUME NEW c \in Listers PROVE ListInv(c) /\ EndInv(c)
  <2>1. /\ pages[c] = 0 /\ pinned[c] = 0 /\ cursor[c] = 0 /\ targets[c] = Empty /\ cursors[c] = {}
        /\ stage[c] = "idle" /\ outcome[c] = "none"
    BY ListersAssumption DEF Init, DiscoveryInit
  <2> QED BY <1>3, <1>6, <2>1 DEF ListInv, EndInv
<1> QED BY <1>1, <1>2, <1>5, <1>7 DEF Inv

\* The invariant, from which the theorems follow.
LEMMA Invariance == Spec => []Inv
<1>1. Inv /\ [Next]_vars => Inv'
  BY ResolveTypeStep, ResolveStep, ListTypeStep, ListStep DEF Inv
<1> QED BY <1>1, Initially, PTL DEF Spec

-----------------------------------------------------------------------------
\* Theorems.

\* The state is well typed for any calls, kinds, names, page sizes and limits, and
\* only the call that builds the mapper holds its mutex (restMapper, ListTargets).
THEOREM TypeCorrect == Spec => []ReadsTypeOK
<1>1. Inv => ReadsTypeOK
  <2> SUFFICES ASSUME Inv PROVE ReadsTypeOK
    OBVIOUS
  <2>1. /\ ResolveType
        /\ \A c \in Calls : holder = c <=> stage[c] \in {"build", "rebuild"}
    BY DEF Inv, ResolveInv
  <2>2. ASSUME NEW c \in Listers
        PROVE  /\ pages[c] \in 0..MaxPages /\ pinned[c] \in 0..Now
               /\ DOMAIN targets[c] \subseteq 1..Names /\ Cardinality(DOMAIN targets[c]) <= MaxTargets
    <3>1. pages[c] \in Nat /\ pinned[c] \in Nat /\ targets[c] \in States  BY DEF Inv, ListType
    <3>2. /\ pages[c] <= MaxPages /\ pinned[c] <= Now
          /\ Cardinality(DOMAIN targets[c]) <= MaxTargets
      BY DEF Inv, ListInv
    <3>3. Now \in Nat /\ MaxPages \in Nat  BY BoundsAssumption DEF Inv, ListType, Now
    <3>4. DOMAIN targets[c] \subseteq 1..Names  BY <3>1, StateType
    <3> QED BY <3>1, <3>2, <3>3, <3>4
  <2> QED BY <2>1, <2>2 DEF ReadsTypeOK, ResolveType, Stages
<1> QED BY <1>1, Invariance, PTL

\* A kind is called unknown only if it was away during the call or the call's own
\* discovery failed for it, and no request answers for a kind that was never served,
\* whatever mappers other calls build and however kinds come and go (resolve).
THEOREM UnknownIsUnknown == Spec => []UnknownKindIsUnknown
<1>1. Inv => UnknownKindIsUnknown  BY DEF Inv, ResolveInv, UnknownKindIsUnknown
<1> QED BY <1>1, Invariance, PTL

\* What ListTargets hands out is of one revision of the time of the call, for any
\* page size and limits, however the collection moves, and although the server
\* moves on, starts again, repeats a cursor or stops short; and it is all of that
\* revision unless the server ended its list early with no count of what remains.
THEOREM OneState == Spec => []SnapshotIsOneState
<1>1. Inv => SnapshotIsOneState  BY DEF Inv, EndInv, SnapshotIsOneState
<1> QED BY <1>1, Invariance, PTL

\* With a server that keeps to its snapshot a listing is refused for its size only,
\* and then the selection is larger than the limit that refused it.
THEOREM RefusalIsReal == Spec => []PageRefusalIsReal
<1>1. Inv => PageRefusalIsReal  BY DEF Inv, EndInv, PageRefusalIsReal
<1> QED BY <1>1, Invariance, PTL
=============================================================================

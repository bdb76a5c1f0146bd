---------------------------- MODULE WindowsProofs ----------------------------
(***************************************************************************)
(* Proofs about what is decided by comparing.                              *)
(*                                                                         *)
(* IncrementalIngest: nothing modified behind the cursor is missing from   *)
(* the raw records, for any number of records, fetches, failures,          *)
(* modifications and delays, and pages of any size, but what slipped past  *)
(* the index of a walk when a record left its window.  An index that       *)
(* reaches an empty page has passed everything listed.                     *)
(*                                                                         *)
(* MatchEngine: the outcome of a match says of the component what the      *)
(* statements say, for any components, statements, aliases and decision    *)
(* rules, and any names.                                                   *)
(*                                                                         *)
(* VersionOrder: the comparators order the versions of a scheme, of any    *)
(* length, and the windows of rules partition them.  Each comparator is    *)
(* the first difference of a sequence of parts; the first difference is    *)
(* mirrored, and is an order, where each part is.                          *)
(*                                                                         *)
(* PriorityRuleset: exactly the rule sets are published that can award     *)
(* every class, for trees of any height.  Recursions over trees are shown  *)
(* to have a solution, and facts to hold of trees, level by level.         *)
(***************************************************************************)
EXTENDS IncrementalIngest, MatchEngine, VersionOrder, PriorityRuleset,
        FiniteSetTheorems, SequenceTheorems, WellFoundedInduction, TLAPS

-------------------------------------------------------------------------------
(* Numbers: the least one, and how many elements of a set are before one. *)

\* Any natural numbers have a least one.
LEMMA LeastNatural == ASSUME NEW T \in SUBSET Nat, T # {} PROVE \E m \in T : \A x \in T : m <= x
<1> DEFINE Below == {p \in Nat \X Nat : p[1] < p[2]}
<1>1. IsWellFoundedOn(Below, Nat)
  BY NatLessThanWellFounded DEF OpToRel
<1>2. PICK m \in T : \A x \in T : <<x, m>> \notin Below
  <2> HIDE DEF Below
  <2> QED
    BY <1>1, WFMin
<1>3. ASSUME NEW x \in T PROVE m <= x
  <2>1. <<x, m>> \in Nat \X Nat /\ <<x, m>>[1] = x /\ <<x, m>>[2] = m
    OBVIOUS
  <2>2. ~(x < m)
    BY <1>2, <2>1
  <2> QED
    BY <2>2
<1> QED
  BY <1>3

Before(S, q) == Cardinality({x \in S : x < q})

LEMMA BeforeType ==
    ASSUME NEW S \in SUBSET Int, IsFiniteSet(S), NEW q
    PROVE  IsFiniteSet({x \in S : x < q}) /\ Before(S, q) \in Nat
<1>1. {x \in S : x < q} \in SUBSET S
  OBVIOUS
<1>2. IsFiniteSet({x \in S : x < q})
  BY <1>1, FS_Subset
<1> QED
  BY <1>2, FS_CardinalityType DEF Before

\* More of a larger set are before an element,
LEMMA BeforeGrows ==
    ASSUME NEW S \in SUBSET Int, IsFiniteSet(S), NEW T \in SUBSET S, NEW q
    PROVE  Before(T, q) <= Before(S, q)
<1>1. IsFiniteSet({x \in S : x < q}) /\ {x \in T : x < q} \in SUBSET {x \in S : x < q}
  BY BeforeType
<1> QED
  BY <1>1, FS_Subset DEF Before

\* and one less at most without one element.
LEMMA BeforeWithout ==
    ASSUME NEW S \in SUBSET Int, IsFiniteSet(S), NEW r, NEW q
    PROVE  Before(S \ {r}, q) \in Nat /\ Before(S, q) <= Before(S \ {r}, q) + 1
<1> DEFINE A == {x \in S : x < q}
<1>1. IsFiniteSet(A) /\ Cardinality(A) \in Nat /\ Before(S, q) = Cardinality(A)
  BY BeforeType DEF Before
<1>2. {x \in S \ {r} : x < q} = A \ {r}
  OBVIOUS
<1>3. Before(S \ {r}, q) = Cardinality(A \ {r})
  BY <1>2 DEF Before
<1> HIDE DEF A
<1>4. /\ Cardinality(A \ {r}) = IF r \in A THEN Cardinality(A) - 1 ELSE Cardinality(A)
      /\ IsFiniteSet(A \ {r})
  BY <1>1, FS_RemoveElement
<1>5. Cardinality(A \ {r}) \in Nat
  BY <1>4, FS_CardinalityType
<1> QED
  BY <1>1, <1>3, <1>4, <1>5

\* A larger element has more before it,
LEMMA BeforeRises ==
    ASSUME NEW S \in SUBSET Int, IsFiniteSet(S), NEW p \in S, NEW q \in Int, p < q
    PROVE  Before(S, p) + 1 <= Before(S, q)
<1> DEFINE A == {x \in S : x < p}  B == {x \in S : x < q}
<1>1. IsFiniteSet(A) /\ IsFiniteSet(B) /\ Cardinality(A) \in Nat
  BY BeforeType, FS_CardinalityType
<1>2. p \notin A /\ A \union {p} \in SUBSET B
  <2>1. p \in Int /\ ~(p < p)
    OBVIOUS
  <2>2. ASSUME NEW x \in S, x < p PROVE x < q
    <3>1. x \in Int /\ p \in Int
      OBVIOUS
    <3> QED
      BY <2>2, <3>1
  <2> QED
    BY <2>1, <2>2
<1> HIDE DEF A, B
<1>3. Cardinality(A \union {p}) = Cardinality(A) + 1
  BY <1>1, <1>2, FS_AddElement
<1>4. Cardinality(A \union {p}) <= Cardinality(B)
  BY <1>1, <1>2, FS_Subset
<1> QED
  BY <1>3, <1>4 DEF Before, A, B

\* and the numbers of those before leave out none.
LEMMA BeforeReaches ==
    ASSUME NEW S \in SUBSET Int, IsFiniteSet(S), NEW i \in Nat, NEW q \in S, ~(Before(S, q) < i)
    PROVE  \E y \in S : Before(S, y) = i
<1>1. \A x : Before(S, x) \in Nat
  BY BeforeType
<1> DEFINE T == {n \in Nat : ~(n < i) /\ \E x \in S : Before(S, x) = n}
<1>2. Before(S, q) \in T /\ T \subseteq Nat
  BY <1>1
<1>3. PICK m \in T : \A n \in T : m <= n
  <2> HIDE DEF T
  <2> QED
    BY <1>2, LeastNatural
<1>4. PICK y \in S : Before(S, y) = m
  BY <1>3
<1>5. SUFFICES ASSUME m > i PROVE FALSE
  BY <1>3, <1>4
<1> DEFINE A == {x \in S : x < y}
<1>6. ASSUME NEW x \in A PROVE Before(S, x) < i
  <2>1. Before(S, x) + 1 <= m
    BY <1>4, <1>6, BeforeRises
  <2>2. Before(S, x) \notin T
    BY <1>1, <1>3, <2>1
  <2> QED
    BY <1>1, <2>2
<1>7. IsFiniteSet(A) /\ Cardinality(A) = m
  BY <1>4, BeforeType DEF Before
<1>8. A # {}
  <2>1. Cardinality({}) = 0
    BY FS_EmptySet
  <2> QED
    BY <1>3, <1>5, <1>7, <2>1
<1> DEFINE D == {d \in Nat : \E x \in A : Before(S, x) + d = i}
<1>9. D # {} /\ D \subseteq Nat
  <2>1. PICK x \in A : TRUE
    BY <1>8
  <2>2. i - Before(S, x) \in Nat /\ Before(S, x) + (i - Before(S, x)) = i
    BY <1>1, <1>6, <2>1
  <2> QED
    BY <2>1, <2>2
<1>10. PICK d \in D : \A n \in D : d <= n
  <2> HIDE DEF D
  <2> QED
    BY <1>9, LeastNatural
<1>11. PICK w \in A : Before(S, w) + d = i
  BY <1>10
<1>12. A \in SUBSET ({x \in S : x < w} \union {w})
  <2> SUFFICES ASSUME NEW x \in A, w < x PROVE FALSE
    <3>1. \A x \in A : x \in S /\ x \in Int /\ w \in Int
      OBVIOUS
    <3>2. \A x \in A : x < w \/ x = w \/ w < x
      BY <3>1
    <3> HIDE DEF A
    <3> QED
      BY <3>1, <3>2
  <2>1. Before(S, w) + 1 <= Before(S, x)
    BY BeforeRises
  <2>2. i - Before(S, x) \in D
    BY <1>1, <1>6
  <2>3. d <= i - Before(S, x)
    BY <1>10, <2>2
  <2> QED
    BY <1>1, <1>11, <2>1, <2>3
<1> DEFINE B == {x \in S : x < w}
<1>13. IsFiniteSet(B) /\ Cardinality(B) \in Nat /\ Cardinality(B) = Before(S, w)
  BY BeforeType DEF Before
<1> HIDE DEF A, B, D, T
<1>14. /\ IsFiniteSet(B \union {w})
       /\ Cardinality(B \union {w}) = IF w \in B THEN Cardinality(B) ELSE Cardinality(B) + 1
  BY <1>13, FS_AddElement
<1>15. Cardinality(A) <= Cardinality(B \union {w})
  BY <1>12, <1>14, FS_Subset DEF B
<1>16. Before(S, w) < i
  BY <1>6
<1>17. m \in Nat
  BY <1>1, <1>4
<1> QED
  BY <1>5, <1>7, <1>13, <1>14, <1>15, <1>16, <1>17

-------------------------------------------------------------------------------
(* IncrementalIngest *)

Found == Records \X Nat
RawSet == [window : SUBSET Int, to : Nat, found : SUBSET Found]
Fetches == [window : SUBSET Int, to : Nat, index : Nat, found : SUBSET Found, inline : BOOLEAN]

WindowTypes ==
    /\ now \in Nat /\ cursor \in Nat \union {NoCursor}
    /\ modified \in [Records -> Nat] /\ shown \in [Records -> Nat]
    /\ raws \in Seq(RawSet)
    /\ fetch \in [Fetchers -> Fetches]

\* Some raw record holds the last modification of r.
Covered(r) == \E j \in 1..Len(raws) : <<r, modified[r]>> \in raws[j].found

\* The API is late by MaxLag at most, and nothing is dated in the future.
LagOK ==
    /\ \A r \in Records : /\ modified[r] <= now
                          /\ shown[r] # modified[r] => now <= modified[r] + MaxLag
    /\ cursor # NoCursor => cursor <= now

\* What the API lists for a window.
ShownIn(window) == {r \in Records : shown[r] \in window}

\* What a fetch e will leave behind the cursor it stores is in a raw record, or
\* in its window; in the latter case the fetch has it when its index has passed
\* it, or it has slipped.
FetchOK(e) ==
    /\ e.to <= now
    /\ \A r \in Records :
         modified[r] # 0 /\ modified[r] < e.to - Overlap /\ <<r, modified[r]>> \notin slipped =>
         /\ modified[r] \notin e.window => Covered(r)
         /\ modified[r] \in e.window /\ Before(ShownIn(e.window), r) < e.index
              => <<r, modified[r]>> \in e.found

BehindOK ==
    \A r \in Records : /\ cursor # NoCursor /\ modified[r] # 0 /\ modified[r] < cursor - Overlap
                       /\ <<r, modified[r]>> \notin slipped
                       => Covered(r)

WindowInv == WindowTypes /\ LagOK /\ BehindOK /\ \A f \in Fetchers : FetchOK(fetch[f])

\* The places in the list, and what is listed late.
LEMMA ListOK ==
    ASSUME WindowTypes, LagOK
    PROVE  /\ \A window : ShownIn(window) \subseteq Int /\ IsFiniteSet(ShownIn(window))
           /\ \A f \in Fetchers : /\ Listed(f) = ShownIn(fetch[f].window)
                                  /\ \A r : Place(f, r) = Before(ShownIn(fetch[f].window), r)
           /\ \A r \in Records, to \in Nat : to <= now /\ modified[r] < to - Overlap
                                          => shown[r] = modified[r]
<1>1. ASSUME NEW window PROVE ShownIn(window) \subseteq Int /\ IsFiniteSet(ShownIn(window))
  <2>1. ShownIn(window) \in SUBSET Records
    BY DEF ShownIn
  <2> QED
    BY <2>1, RecordsAssumption, FS_Subset
<1>2. ASSUME NEW f \in Fetchers
      PROVE  /\ Listed(f) = ShownIn(fetch[f].window)
             /\ \A r : Place(f, r) = Before(ShownIn(fetch[f].window), r)
  <2>1. Listed(f) = ShownIn(fetch[f].window)
    BY DEF Listed, ShownIn
  <2> QED
    BY <2>1 DEF Place, Before
<1>3. ASSUME NEW r \in Records, NEW to \in Nat, to <= now, modified[r] < to - Overlap
      PROVE  shown[r] = modified[r]
  <2>1. modified[r] \in Nat /\ now \in Nat
    BY DEF WindowTypes
  <2>2. ~(now <= modified[r] + MaxLag)
    BY <1>3, <2>1, TimesAssumption
  <2> QED
    BY <2>2 DEF LagOK
<1> QED
  BY <1>1, <1>2, <1>3

\* A modification is shown: what the walk of fetch f has passed without having
\* it has slipped, or is too recent to be left behind.
LEMMA ShowKeepsWalk ==
    ASSUME WindowInv, NEW r \in Records, Show(r), NEW f \in Fetchers
    PROVE  FetchOK(fetch[f])'
<1> DEFINE window == fetch[f].window  S == ShownIn(window)
<1>1. /\ shown[r] # modified[r] /\ shown' = [shown EXCEPT ![r] = modified[r]]
      /\ slipped' = slipped \union Slips(r)
      /\ UNCHANGED <<now, modified, cursor, raws, fetch>>
  BY DEF Show
<1>2. FetchOK(fetch[f]) /\ fetch[f].to \in Nat /\ fetch[f].index \in Nat /\ now \in Nat
      /\ fetch[f].to <= now
  BY DEF WindowInv, WindowTypes, Fetches, FetchOK
<1>3. /\ S \subseteq Int /\ IsFiniteSet(S) /\ Listed(f) = S
      /\ \A q : Place(f, q) = Before(S, q)
      /\ \A q \in Records, to \in Nat : to <= now /\ modified[q] < to - Overlap
                                     => shown[q] = modified[q]
  BY ListOK DEF WindowInv
<1>4. shown \in [Records -> Nat] /\ modified \in [Records -> Nat] /\ Records \subseteq Int
  BY RecordsAssumption DEF WindowInv, WindowTypes
<1>5. SUFFICES ASSUME NEW q \in Records, modified[q] # 0, modified[q] < fetch[f].to - Overlap,
                      <<q, modified[q]>> \notin slipped, <<q, modified[q]>> \notin Slips(r)
               PROVE  /\ modified[q] \notin window => Covered(q)
                      /\ modified[q] \in window /\ Before(ShownIn(window)', q) < fetch[f].index
                           => <<q, modified[q]>> \in fetch[f].found
  <2>1. ShownIn(fetch[f].window)' = ShownIn(window)'
    BY <1>1 DEF ShownIn
  <2>2. \A q : Covered(q)' <=> Covered(q)
    BY <1>1 DEF Covered
  <2>3. \A q : <<q, modified[q]>> \in slipped' <=>
                 <<q, modified[q]>> \in slipped \/ <<q, modified[q]>> \in Slips(r)
    BY <1>1
  <2> QED
    BY <1>1, <1>2, <1>5, <2>1, <2>2, <2>3 DEF FetchOK, Before
<1>6. shown[q] = modified[q] /\ q # r
  BY <1>1, <1>2, <1>3, <1>5
<1>7. /\ modified[q] \notin window => Covered(q)
      /\ modified[q] \in window /\ Before(S, q) < fetch[f].index
           => <<q, modified[q]>> \in fetch[f].found
  BY <1>2, <1>5 DEF FetchOK
<1>8. SUFFICES ASSUME modified[q] \in window, Before(ShownIn(window)', q) < fetch[f].index
               PROVE  Before(S, q) < fetch[f].index
  BY <1>7
<1>9. \A x : shown'[x] = IF x = r /\ x \in Records THEN modified[r] ELSE shown'[x]
  BY <1>1, <1>4
<1>10. ShownIn(window)' = {x \in Records : shown'[x] \in window}
  BY <1>1 DEF ShownIn
<1>11. \A x \in Records : shown'[x] = IF x = r THEN modified[r] ELSE shown[x]
  BY <1>1, <1>4
<1> DEFINE S2 == {x \in Records : shown'[x] \in window}
<1>12. S = {x \in Records : shown[x] \in window}
  BY DEF ShownIn
<1>13. /\ Before(S, q) \in Nat /\ Before(S \ {r}, q) \in Nat
       /\ Before(S, q) <= Before(S \ {r}, q) + 1
  BY <1>3, <1>4, BeforeType, BeforeWithout
<1>14. CASE S \subseteq S2
  <2>1. IsFiniteSet(S2) /\ S2 \subseteq Int
    BY <1>4, RecordsAssumption, FS_Subset
  <2>2. Before(S, q) <= Before(S2, q) /\ Before(S2, q) \in Nat
    BY <1>4, <1>14, <2>1, BeforeType, BeforeGrows
  <2> QED
    BY <1>2, <1>8, <1>10, <1>13, <2>2
<1>15. CASE ~(S \subseteq S2)
  <2>1. r \in S /\ modified[r] \notin window /\ S2 = S \ {r}
    BY <1>11, <1>12, <1>15
  <2>2. Before(S \ {r}, q) < fetch[f].index
    BY <1>8, <1>10, <2>1
  <2>3. SUFFICES ASSUME Before(S, q) = fetch[f].index PROVE FALSE
    BY <1>2, <1>13, <2>2
  <2>4. r < q
    <3>1. ~(r < q) => {x \in S : x < q} = {x \in S \ {r} : x < q}
      BY <1>4
    <3> QED
      BY <2>2, <2>3, <3>1, <1>2 DEF Before
  <2>5. Before(S, r) \in Nat /\ Before(S, r) < fetch[f].index
    <3>1. q \in Int /\ S \in SUBSET Int /\ IsFiniteSet(S) /\ r \in S
      BY <1>3, <1>4, <2>1
    <3> HIDE DEF S
    <3>2. Before(S, r) \in Nat
      BY <3>1, BeforeType
    <3>3. Before(S, r) + 1 <= Before(S, q)
      BY <2>4, <3>1, BeforeRises
    <3> QED
      BY <1>2, <2>3, <3>2, <3>3
  <2>6. q \in Listed(f) /\ Place(f, q) = fetch[f].index /\ r \in Listed(f)
        /\ Place(f, r) < fetch[f].index /\ modified[r] \notin fetch[f].window
    BY <1>3, <1>6, <1>8, <1>12, <2>1, <2>3, <2>5
  <2>7. <<q, shown[q]>> \in Slips(r)
    BY <2>6 DEF Slips
  <2> QED
    BY <1>5, <1>6, <2>7
<1> QED
  BY <1>14, <1>15

\* Time passes, records are modified and shown.
LEMMA SourceStep ==
    ASSUME WindowInv, Tick \/ \E r \in Records : Modify(r) \/ Show(r)
    PROVE  WindowInv'
<1> USE TimesAssumption
<1>1. UNCHANGED <<cursor, raws, fetch>>
  BY DEF Tick, Modify, Show
<1>2. CASE Tick
  <2>1. now' = now + 1 /\ UNCHANGED <<modified, shown, slipped>>
    BY <1>2 DEF Tick
  <2>2. WindowTypes' /\ BehindOK'
    BY <1>1, <2>1 DEF WindowInv, WindowTypes, BehindOK, Covered
  <2>3. LagOK'
    BY <1>1, <1>2, <2>1 DEF WindowInv, WindowTypes, LagOK, Tick
  <2>4. ASSUME NEW f \in Fetchers PROVE FetchOK(fetch[f])'
    <3>1. FetchOK(fetch[f]) /\ fetch[f].to \in Int /\ now \in Nat
      BY DEF WindowInv, WindowTypes, Fetches
    <3> QED
      BY <1>1, <2>1, <3>1 DEF FetchOK, Covered, ShownIn, Before
  <2> QED
    BY <2>2, <2>3, <2>4 DEF WindowInv
<1>3. ASSUME NEW r \in Records, Modify(r) PROVE WindowInv'
  <2>1. modified' = [modified EXCEPT ![r] = now] /\ UNCHANGED <<now, shown, slipped>>
    BY <1>3 DEF Modify
  <2>2. modified'[r] = now /\ \A q \in Records \ {r} : modified'[q] = modified[q]
    BY <2>1 DEF WindowInv, WindowTypes
  <2>3. WindowTypes'
    BY <1>1, <2>1 DEF WindowInv, WindowTypes
  <2>4. LagOK'
    BY <1>1, <2>1, <2>2, <2>3 DEF WindowInv, WindowTypes, LagOK
  <2>5. \A q \in Records \ {r} : Covered(q)' <=> Covered(q)
    BY <1>1, <2>2 DEF Covered
  <2>6. BehindOK'
    BY <1>1, <2>1, <2>2, <2>4, <2>5 DEF BehindOK, WindowInv, WindowTypes, LagOK
  <2>7. ASSUME NEW f \in Fetchers PROVE FetchOK(fetch[f])'
    <3>1. FetchOK(fetch[f]) /\ fetch[f].to \in Int /\ now \in Nat
      BY DEF WindowInv, WindowTypes, Fetches
    <3> QED
      BY <1>1, <2>1, <2>2, <2>5, <3>1 DEF FetchOK, ShownIn, Before
  <2> QED
    BY <2>3, <2>4, <2>6, <2>7 DEF WindowInv
<1>4. ASSUME NEW r \in Records, Show(r) PROVE WindowInv'
  <2>1. /\ shown' = [shown EXCEPT ![r] = modified[r]] /\ slipped \subseteq slipped'
        /\ UNCHANGED <<now, modified>>
    BY <1>4 DEF Show
  <2>2. WindowTypes' /\ LagOK'
    BY <1>1, <2>1 DEF WindowInv, WindowTypes, LagOK
  <2>3. BehindOK'
    BY <1>1, <2>1 DEF WindowInv, BehindOK, Covered
  <2> QED
    BY <1>4, <2>2, <2>3, ShowKeepsWalk DEF WindowInv
<1> QED
  BY <1>2, <1>3, <1>4

\* A fetch takes its window, reads a page or gives up.
LEMMA WalkStep ==
    ASSUME WindowInv, NEW f \in Fetchers,
           StartFetch(f) \/ StartImportStep(f) \/ GetPage(f) \/ FetchFails(f)
    PROVE  WindowInv'
<1> USE TimesAssumption
<1>1. UNCHANGED <<now, modified, shown, cursor, raws, slipped>>
  BY DEF StartFetch, StartImportStep, OpenWindow, GetPage, FetchFails
<1>2. NotFetching \in Fetches /\ NotFetching.to = 0 /\ NotFetching.index = 0
  BY DEF NotFetching, Fetches
<1>3. fetch[f] \in Fetches
  BY DEF WindowInv, WindowTypes
<1>4. ASSUME NEW to \in Int, NEW inline \in BOOLEAN, OpenWindow(f, to, inline), 0 <= to, to <= now
      PROVE  \E e \in Fetches : fetch' = [fetch EXCEPT ![f] = e] /\ FetchOK(e)
  <2> DEFINE window == {t \in 1..to : t >= WindowFrom}
             e == [window |-> window, to |-> to, index |-> 0, found |-> {}, inline |-> inline]
  <2>1. e \in Fetches /\ e.to = to /\ e.index = 0 /\ e.window = window
    BY <1>4 DEF Fetches
  <2>2. fetch' = [fetch EXCEPT ![f] = e]
    BY <1>4 DEF OpenWindow
  <2> HIDE DEF e
  <2>3. ASSUME NEW r \in Records, modified[r] # 0, modified[r] < to - Overlap,
               <<r, modified[r]>> \notin slipped, modified[r] \notin window
        PROVE  Covered(r)
    <3>1. modified[r] \in Nat /\ modified[r] \in 1..to
      BY <1>4, <2>3 DEF WindowInv, WindowTypes
    <3>2. ~(modified[r] >= WindowFrom)
      BY <2>3, <3>1
    <3>3. cursor # NoCursor /\ cursor \in Nat
      BY <3>1, <3>2 DEF WindowFrom, WindowInv, WindowTypes
    <3>4. modified[r] < cursor - Overlap
      BY <3>1, <3>2, <3>3 DEF WindowFrom
    <3> QED
      BY <2>3, <3>3, <3>4 DEF WindowInv, BehindOK
  <2>4. ASSUME NEW r \in Records PROVE ~(Before(ShownIn(window), r) < 0)
    <3> HIDE DEF window
    <3>1. ShownIn(window) \in SUBSET Int /\ IsFiniteSet(ShownIn(window))
      BY ListOK DEF WindowInv
    <3>2. Before(ShownIn(window), r) \in Nat
      BY <3>1, BeforeType
    <3> QED
      BY <3>2
  <2>5. FetchOK(e)
    BY <1>4, <2>1, <2>3, <2>4 DEF FetchOK
  <2> QED
    BY <2>1, <2>2, <2>5
<1>5. ASSUME NEW e \in Fetches, fetch' = [fetch EXCEPT ![f] = e], FetchOK(e)
      PROVE  WindowInv'
  <2>1. WindowTypes' /\ LagOK' /\ BehindOK'
    BY <1>1, <1>5 DEF WindowInv, WindowTypes, LagOK, BehindOK, Covered
  <2>2. ASSUME NEW g \in Fetchers PROVE FetchOK(fetch'[g])
    BY <1>5 DEF WindowInv, WindowTypes
  <2>3. ASSUME NEW g \in Fetchers PROVE FetchOK(fetch[g])'
    <3> DEFINE d == fetch'[g]
    <3>1. PICK x : x = fetch'[g]
      OBVIOUS
    <3>2. FetchOK(x)
      BY <2>2, <3>1
    <3>3. \A r : Covered(r)' <=> Covered(r)
      BY <1>1 DEF Covered
    <3> QED
      BY <1>1, <3>1, <3>2, <3>3 DEF FetchOK, ShownIn, Before
  <2> QED
    BY <2>1, <2>3 DEF WindowInv
<1>6. CASE StartFetch(f) \/ StartImportStep(f)
  <2>1. now \in Int /\ 0 <= now /\ now <= now /\ FALSE \in BOOLEAN /\ TRUE \in BOOLEAN
    BY DEF WindowInv, WindowTypes
  <2>2. \E to \in Int, inline \in BOOLEAN : OpenWindow(f, to, inline) /\ 0 <= to /\ to <= now
    <3>1. CASE StartFetch(f)
      BY <2>1, <3>1, Zenon DEF StartFetch
    <3>2. CASE StartImportStep(f)
      <4>1. PICK to \in 1..now : OpenWindow(f, to, TRUE)
        BY <3>2 DEF StartImportStep
      <4>2. to \in Int /\ 0 <= to /\ to <= now
        BY <2>1
      <4> QED
        BY <4>1, <4>2
    <3> QED
      BY <1>6, <3>1, <3>2
  <2> QED
    BY <1>4, <1>5, <2>2
<1>7. CASE GetPage(f)
  <2> DEFINE got == {<<r, shown[r]>> : r \in Page(f)}
  <2>1. got \subseteq Found
    <3>1. \A r \in Page(f) : r \in Records /\ shown[r] \in Nat
      BY DEF Page, Listed, WindowInv, WindowTypes
    <3> QED
      BY <3>1 DEF Found
  <2>2. PICK n \in Nat : n = fetch[f].index + PageSize /\ n > 0
    BY <1>3, PageAssumption DEF Fetches
  <2> DEFINE e == [fetch[f] EXCEPT !.found = @ \union got, !.index = n]
  <2>3. /\ e \in Fetches /\ e.window = fetch[f].window /\ e.to = fetch[f].to /\ e.index = n
        /\ e.found = fetch[f].found \union got
    <3> HIDE DEF got
    <3> QED
      BY <1>3, <2>1 DEF Fetches
  <2>4. fetch' = [fetch EXCEPT ![f] = e]
    BY <1>7, <2>2 DEF GetPage
  <2> HIDE DEF e
  <2>5. ASSUME NEW r \in Records, modified[r] # 0, modified[r] < fetch[f].to - Overlap,
               <<r, modified[r]>> \notin slipped, modified[r] \in fetch[f].window,
               Before(ShownIn(fetch[f].window), r) < n
        PROVE  <<r, modified[r]>> \in fetch[f].found \union got
    <3> DEFINE rank == Before(ShownIn(fetch[f].window), r)
    <3>1. /\ rank \in Nat /\ Place(f, r) = rank /\ Listed(f) = ShownIn(fetch[f].window)
          /\ fetch[f].index \in Nat
      BY <1>3, ListOK, RecordsAssumption, BeforeType DEF WindowInv, Fetches
    <3>2. CASE rank < fetch[f].index
      BY <2>5, <3>2 DEF WindowInv, FetchOK
    <3>3. CASE ~(rank < fetch[f].index)
      <4>1. shown[r] = modified[r]
        BY <1>3, <2>5, ListOK DEF WindowInv, FetchOK, Fetches
      <4>2. rank \in fetch[f].index .. (fetch[f].index + PageSize - 1)
        BY <2>2, <2>5, <3>1, <3>3, PageAssumption
      <4>3. r \in Page(f)
        BY <2>5, <3>1, <4>1, <4>2 DEF Page, ShownIn
      <4> QED
        BY <4>1, <4>3
    <3> QED
      BY <3>2, <3>3
  <2>6. FetchOK(e)
    <3> HIDE DEF got
    <3> QED
      BY <2>3, <2>5 DEF WindowInv, FetchOK
  <2> QED
    BY <1>5, <2>3, <2>4, <2>6
<1>8. CASE FetchFails(f)
  <2>1. FetchOK(NotFetching)
    <3>1. \A r \in Records : ~(modified[r] < 0 - Overlap)
      BY DEF WindowInv, WindowTypes
    <3> QED
      BY <1>2, <3>1 DEF FetchOK, WindowInv, WindowTypes
  <2> QED
    BY <1>2, <1>5, <1>8, <2>1 DEF FetchFails
<1> QED
  BY <1>6, <1>7, <1>8

\* The transaction that ends a walk stores what was found and moves the cursor.
LEMMA StoreStep ==
    ASSUME WindowInv, NEW f \in Fetchers, StoreWindow(f)
    PROVE  WindowInv'
<1> USE TimesAssumption
<1> DEFINE raw == RawRecord(f)
<1>1. fetch[f] \in Fetches /\ raw \in RawSet /\ raw.found = fetch[f].found
  <2>1. fetch[f] \in Fetches
    BY DEF WindowInv, WindowTypes
  <2> QED
    BY <2>1 DEF Fetches, RawSet, RawRecord
<1>2. /\ UNCHANGED <<now, modified, shown, slipped>> /\ cursor' = fetch[f].to
      /\ fetch' = [fetch EXCEPT ![f] = NotFetching] /\ Page(f) = {} /\ fetch[f] # NotFetching
  BY DEF StoreWindow
<1>3. PICK j \in Jobs : InsertRaw(f, j)
  BY DEF StoreWindow
<1>4. raws \in Seq(RawSet) /\ Len(raws) \in Nat
  BY DEF WindowInv, WindowTypes
<1>5. /\ raws' \in Seq(RawSet) /\ Len(raws) <= Len(raws') /\ Len(raws') \in Nat
      /\ \A i \in 1..Len(raws) : raws'[i] = raws[i]
      /\ \E i \in 1..Len(raws') : raws'[i] = raw
  <2>1. CASE j \in DOMAIN raws /\ raws[j] = raw /\ UNCHANGED raws
    BY <1>4, <2>1
  <2>2. CASE raws' = Append(raws, raw)
    <3> HIDE DEF raw
    <3>1. raws' \in Seq(RawSet) /\ Len(raws') = Len(raws) + 1 /\ raws'[Len(raws) + 1] = raw
          /\ \A i \in 1..Len(raws) : raws'[i] = raws[i]
      BY <1>1, <1>4, <2>2
    <3>2. Len(raws) + 1 \in 1..Len(raws')
      BY <1>4, <3>1
    <3> QED
      BY <1>4, <3>1, <3>2
  <2> QED
    BY <1>3, <2>1, <2>2 DEF InsertRaw
<1> HIDE DEF raw
<1>6. \A r \in Records : Covered(r) => Covered(r)'
  <2> SUFFICES ASSUME NEW r \in Records, NEW i \in 1..Len(raws), <<r, modified[r]>> \in raws[i].found
               PROVE  Covered(r)'
    BY DEF Covered
  <2>1. i \in 1..Len(raws') /\ raws'[i] = raws[i]
    BY <1>4, <1>5
  <2> QED
    BY <1>2, <2>1 DEF Covered
<1>7. ASSUME NEW r \in Records, modified[r] # 0, modified[r] < fetch[f].to - Overlap,
             <<r, modified[r]>> \notin slipped
      PROVE  Covered(r)'
  <2>1. FetchOK(fetch[f]) /\ modified[r] \in Nat /\ now \in Nat /\ fetch[f].to \in Nat
        /\ fetch[f].index \in Nat
    BY <1>1 DEF WindowInv, WindowTypes, Fetches
  <2>2. CASE modified[r] \notin fetch[f].window
    BY <1>6, <1>7, <2>1, <2>2 DEF FetchOK
  <2>3. CASE modified[r] \in fetch[f].window
    <3> DEFINE S == ShownIn(fetch[f].window)
    <3>1. /\ S \subseteq Int /\ IsFiniteSet(S) /\ Listed(f) = S
          /\ \A y : Place(f, y) = Before(S, y)
          /\ shown[r] = modified[r]
      BY <1>7, <2>1, ListOK DEF WindowInv, FetchOK
    <3>2. r \in S
      BY <2>3, <3>1 DEF ShownIn
    <3> HIDE DEF S
    <3>3. ASSUME NEW y \in S PROVE Before(S, y) # fetch[f].index
      <4>1. fetch[f].index \in fetch[f].index .. (fetch[f].index + PageSize - 1)
        BY <2>1, PageAssumption
      <4> QED
        BY <1>2, <3>1, <3>3, <4>1 DEF Page
    <3>4. Before(S, r) \in Nat /\ Before(S, r) < fetch[f].index
      BY <2>1, <3>1, <3>2, <3>3, BeforeType, BeforeReaches
    <3>5. <<r, modified[r]>> \in raw.found
      BY <1>1, <1>7, <2>1, <2>3, <3>4 DEF FetchOK, S
    <3> QED
      BY <1>2, <1>5, <3>5 DEF Covered
  <2> QED
    BY <2>2, <2>3
<1>8. fetch[f].to \in Nat /\ fetch[f].to <= now
  BY <1>1 DEF WindowInv, FetchOK, Fetches
<1>9. NotFetching \in Fetches /\ NotFetching.to = 0 /\ NotFetching.index = 0
  BY DEF NotFetching, Fetches
<1>10. WindowTypes' /\ LagOK' /\ BehindOK'
  <2>1. WindowTypes'
    BY <1>2, <1>5, <1>8, <1>9 DEF WindowInv, WindowTypes
  <2>2. LagOK'
    BY <1>2, <1>8 DEF WindowInv, LagOK
  <2>3. BehindOK'
    BY <1>2, <1>7 DEF BehindOK
  <2> QED
    BY <2>1, <2>2, <2>3
<1>11. ASSUME NEW g \in Fetchers PROVE FetchOK(fetch[g])'
  <2>1. CASE g = f
    <3>1. fetch'[g] = NotFetching
      BY <1>2, <2>1 DEF WindowInv, WindowTypes
    <3>2. \A r \in Records : ~(modified[r] < 0 - Overlap)
      BY DEF WindowInv, WindowTypes
    <3> QED
      BY <1>2, <1>9, <3>1, <3>2 DEF FetchOK, WindowInv, WindowTypes
  <2>2. CASE g # f
    <3>1. fetch'[g] = fetch[g] /\ FetchOK(fetch[g])
      BY <1>2, <2>2 DEF WindowInv, WindowTypes
    <3> QED
      BY <1>2, <1>6, <3>1 DEF FetchOK, ShownIn, Before
  <2> QED
    BY <2>1, <2>2
<1> QED
  BY <1>10, <1>11 DEF WindowInv

\* Everything modified behind the cursor minus the overlap is in some raw record
\* (fetch_source.go, fetchWindow: "so window boundaries never gap"), for any
\* number of records, pages of any size that are read at different instants, any
\* number of concurrent fetches and import steps that move the cursor back and
\* forth; excepted is what slipped from a page not asked for to one that was.
THEOREM WindowsNeverGap == Spec => []NoModificationIsLost
<1>1. Init => WindowInv
  <2> SUFFICES ASSUME Init PROVE WindowInv
    OBVIOUS
  <2>1. NotFetching \in Fetches /\ NotFetching.to = 0 /\ NotFetching.index = 0
    BY DEF NotFetching, Fetches
  <2>2. WindowTypes
    BY <2>1 DEF Init, WindowTypes
  <2>3. LagOK /\ BehindOK
    BY TimesAssumption DEF Init, LagOK, BehindOK
  <2>4. \A f \in Fetchers : FetchOK(fetch[f])
    BY <2>1, TimesAssumption DEF Init, FetchOK
  <2> QED
    BY <2>2, <2>3, <2>4 DEF WindowInv
<1>2. WindowInv /\ [Next]_vars => WindowInv'
  <2> SUFFICES ASSUME WindowInv, [Next]_vars PROVE WindowInv'
    OBVIOUS
  <2>1. CASE UNCHANGED <<now, modified, shown, cursor, raws, fetch, slipped>>
    BY <2>1 DEF WindowInv, WindowTypes, LagOK, BehindOK, FetchOK, Covered, ShownIn, Before
  <2>2. CASE Tick \/ \E r \in Records : Modify(r) \/ Show(r)
    BY <2>2, SourceStep
  <2>3. ASSUME NEW f \in Fetchers, StartFetch(f) \/ StartImportStep(f) \/ GetPage(f) \/ FetchFails(f)
        PROVE  WindowInv'
    BY <2>3, WalkStep
  <2>4. ASSUME NEW f \in Fetchers, StoreWindow(f) PROVE WindowInv'
    BY <2>4, StoreStep
  <2> QED
    BY <2>1, <2>2, <2>3, <2>4 DEF Next, vars, Normalize, Settle
<1>3. WindowInv => NoModificationIsLost
  <2> SUFFICES ASSUME WindowInv, NEW r \in Records, cursor # NoCursor, modified[r] # 0,
                      modified[r] < cursor - Overlap,
                      <<r, modified[r]>> \notin slipped
               PROVE  \E j \in DOMAIN raws : <<r, modified[r]>> \in raws[j].found
    BY DEF NoModificationIsLost
  <2>1. Covered(r)
    BY DEF WindowInv, BehindOK
  <2>2. DOMAIN raws = 1..Len(raws)
    BY DEF WindowInv, WindowTypes
  <2> QED
    BY <2>1, <2>2 DEF Covered
<1> QED
  BY <1>1, <1>2, <1>3, PTL DEF Spec

-------------------------------------------------------------------------------
(* MatchEngine: numbers *)

LEMMA NaturalsByInduction ==
    ASSUME NEW S, 0 \in S, \A n \in Nat : n \in S => n + 1 \in S
    PROVE  Nat \subseteq S
<1> SUFFICES ASSUME Nat \ S # {} PROVE FALSE
  OBVIOUS
<1>1. PICK x \in Nat \ S : \A y \in Nat \ S : x <= y
  BY LeastNatural
<1>2. x # 0
  BY <1>1
<1>3. x - 1 \in Nat /\ x - 1 + 1 = x /\ ~(x <= x - 1)
  BY <1>1, <1>2
<1>4. x - 1 \notin S
  BY <1>1, <1>3
<1> QED
  BY <1>1, <1>3, <1>4

\* The least of four, and of two.
LEMMA LeastOfFour ==
    ASSUME NEW a \in Nat, NEW b \in Nat, NEW c \in Nat, NEW e \in Nat
    PROVE  Min({a, b, c, e}) \in Nat
<1>1. \E x \in {a, b, c, e} : \A y \in {a, b, c, e} : x =< y
  BY LeastNatural
<1> QED
  BY <1>1 DEF Min

LEMMA CappedAtThree == ASSUME NEW x \in Nat PROVE Min({3, x}) \in 0..3
<1>1. \E y \in {3, x} : \A z \in {3, x} : y =< z
  BY LeastNatural
<1>2. Min({3, x}) \in {3, x} /\ Min({3, x}) =< 3
  BY <1>1 DEF Min
<1> QED
  BY <1>2

\* A quotient stays below the factor its dividend is bounded by.
LEMMA QuotientBound ==
    ASSUME NEW x \in Nat, NEW y \in Nat \ {0}, NEW n \in Nat, x <= n * y
    PROVE  x \div y \in 0..n
<1>1. x \div y \in Nat /\ y * (x \div y) <= x
  BY SMT
<1>2. y * (x \div y) <= n * y
  BY <1>1, SMT
<1>3. x \div y <= n
  BY <1>1, <1>2, SMT
<1> QED
  BY <1>1, <1>3

-------------------------------------------------------------------------------
(* MatchEngine: the similarity of two names *)

\* An earlier occurrence is earlier.
LEMMA LastSameIsBefore ==
    ASSUME NEW u, NEW n \in Nat \ {0}, NEW word PROVE LastSame(u, n, word) \in 0..(n - 1)
<1> DEFINE T == {0} \union {x \in 1..(n - 1) : u[x] = word}
           Gaps == {n - x : x \in T}
<1>1. T \in SUBSET (0..(n - 1)) /\ 0 \in T
  OBVIOUS
<1>2. Gaps \in SUBSET Nat /\ Gaps # {}
  BY <1>1
<1>3. PICK g \in Gaps : \A h \in Gaps : g <= h
  <2> HIDE DEF Gaps
  <2> QED
    BY <1>2, LeastNatural
<1>4. PICK x \in T : g = n - x
  OBVIOUS
<1>5. ASSUME NEW y \in T PROVE x >= y
  <2>1. n - x <= n - y
    BY <1>3, <1>4
  <2> QED
    BY <1>1, <2>1
<1>6. Max(T) \in T
  <2> HIDE DEF T
  <2> QED
    BY <1>5 DEF Max
<1> QED
  BY <1>1, <1>6 DEF LastSame

Pairs(s, t) == (-1..Len(s)) \X (-1..Len(t))

\* Up to the diagonal n two tables hold the same natural numbers.
AgreeBefore(s, t, n, d, e) ==
    \A x \in -1..Len(s), y \in -1..Len(t) :
        x + y < n => d[<<x, y>>] \in Nat /\ d[<<x, y>>] = e[<<x, y>>]

LEMMA CostsAreNatural ==
    ASSUME NEW a \in Nat, NEW b \in Nat, NEW c \in Nat, NEW m, m \in Nat, NEW n, n \in Nat
    PROVE  a + b \in Nat /\ a + 1 \in Nat /\ a + m + 1 + n \in Nat
OBVIOUS

\* The cells a cell is computed from lie before it.
LEMMA CellLooksBack ==
    ASSUME NEW s \in Seq(STRING), NEW t \in Seq(STRING),
           NEW i \in -1..Len(s), NEW j \in -1..Len(t), NEW d, NEW e,
           AgreeBefore(s, t, i + j, d, e)
    PROVE  Cell(s, t, d, i, j) \in Nat /\ Cell(s, t, d, i, j) = Cell(s, t, e, i, j)
<1> DEFINE k == LastSame(s, i, t[j])
           l == LastSame(t, j, s[i])
<1>0. Len(s) \in Nat /\ Len(t) \in Nat
  OBVIOUS
<1>1. CASE i = -1 \/ j = -1
  BY <1>0, <1>1 DEF Cell
<1>2. CASE ~(i = -1 \/ j = -1) /\ (i = 0 \/ j = 0)
  <2>1. i + j \in Nat
    BY <1>0, <1>2
  <2> QED
    BY <1>2, <2>1 DEF Cell
<1>3. CASE ~(i = -1 \/ j = -1) /\ ~(i = 0 \/ j = 0)
  <2>1. i \in Nat \ {0} /\ j \in Nat \ {0}
    BY <1>0, <1>3
  <2>2. k \in 0..(i - 1) /\ l \in 0..(j - 1)
    BY <2>1, LastSameIsBefore
  <2> HIDE DEF k, l
  <2>3. /\ k - 1 \in -1..Len(s) /\ l - 1 \in -1..Len(t) /\ (k - 1) + (l - 1) < i + j
        /\ (i - k - 1) \in Nat /\ (j - l - 1) \in Nat
        /\ i - 1 \in -1..Len(s) /\ j - 1 \in -1..Len(t)
        /\ (i - 1) + (j - 1) < i + j /\ i + (j - 1) < i + j /\ (i - 1) + j < i + j
    BY <1>0, <2>1, <2>2
  <2>4. /\ d[<<i - 1, j - 1>>] \in Nat /\ d[<<i - 1, j - 1>>] = e[<<i - 1, j - 1>>]
        /\ d[<<i, j - 1>>] \in Nat /\ d[<<i, j - 1>>] = e[<<i, j - 1>>]
        /\ d[<<i - 1, j>>] \in Nat /\ d[<<i - 1, j>>] = e[<<i - 1, j>>]
        /\ d[<<k - 1, l - 1>>] \in Nat /\ d[<<k - 1, l - 1>>] = e[<<k - 1, l - 1>>]
    BY <2>3 DEF AgreeBefore
  <2> DEFINE cost == IF s[i] = t[j] THEN 0 ELSE 1
  <2>5. /\ d[<<i - 1, j - 1>>] + cost \in Nat /\ d[<<i, j - 1>>] + 1 \in Nat /\ d[<<i - 1, j>>] + 1 \in Nat
        /\ d[<<k - 1, l - 1>>] + (i - k - 1) + 1 + (j - l - 1) \in Nat
    <3>1. cost \in Nat
      OBVIOUS
    <3> HIDE DEF cost
    <3> QED
      BY <2>3, <2>4, <3>1, CostsAreNatural
  <2>6. Min({d[<<i - 1, j - 1>>] + cost, d[<<i, j - 1>>] + 1, d[<<i - 1, j>>] + 1,
             d[<<k - 1, l - 1>>] + (i - k - 1) + 1 + (j - l - 1)}) \in Nat
    <3> HIDE DEF cost
    <3> QED
      BY <2>5, LeastOfFour
  <2>7. ASSUME NEW c PROVE Cell(s, t, c, i, j) =
            Min({c[<<i - 1, j - 1>>] + cost, c[<<i, j - 1>>] + 1, c[<<i - 1, j>>] + 1,
                 c[<<k - 1, l - 1>>] + (i - k - 1) + 1 + (j - l - 1)})
    BY <1>3 DEF Cell, k, l
  <2> HIDE DEF cost
  <2> QED
    BY <2>4, <2>6, <2>7
<1> QED
  BY <1>1, <1>2, <1>3

\* There is a table of distances: of what the first n diagonals hold, the next
\* one can be computed.
LEMMA TableExists ==
    ASSUME NEW s \in Seq(STRING), NEW t \in Seq(STRING)
    PROVE  \E f \in [Pairs(s, t) -> Nat] : \A at \in Pairs(s, t) : f[at] = Cell(s, t, f, at[1], at[2])
<1> DEFINE Done(f, n) == \A at \in Pairs(s, t) :
                           at[1] + at[2] + 2 < n => f[at] = Cell(s, t, f, at[1], at[2])
           S == {n \in Nat : \E f \in [Pairs(s, t) -> Nat] : Done(f, n)}
<1>1. 0 \in S
  <2>1. \A at \in Pairs(s, t) : ~(at[1] + at[2] + 2 < 0)
    BY DEF Pairs
  <2>2. [at \in Pairs(s, t) |-> 0] \in [Pairs(s, t) -> Nat]
    OBVIOUS
  <2> QED
    BY <2>1, <2>2
<1>2. ASSUME NEW n \in Nat, n \in S PROVE n + 1 \in S
  <2>1. PICK f \in [Pairs(s, t) -> Nat] : Done(f, n)
    BY <1>2
  <2> DEFINE g == [at \in Pairs(s, t) |->
                     IF at[1] + at[2] + 2 = n THEN Cell(s, t, f, at[1], at[2]) ELSE f[at]]
  <2>2. ASSUME NEW i \in -1..Len(s), NEW j \in -1..Len(t), i + j + 2 <= n
        PROVE  Cell(s, t, f, i, j) \in Nat /\ Cell(s, t, f, i, j) = Cell(s, t, g, i, j)
    <3>1. ASSUME NEW x \in -1..Len(s), NEW y \in -1..Len(t), x + y < i + j
          PROVE  f[<<x, y>>] \in Nat /\ f[<<x, y>>] = g[<<x, y>>]
      <4>1. <<x, y>> \in Pairs(s, t) /\ x + y + 2 # n
        BY <2>2, <3>1 DEF Pairs
      <4> QED
        BY <4>1
    <3> HIDE DEF g
    <3>2. AgreeBefore(s, t, i + j, f, g)
      BY <3>1 DEF AgreeBefore
    <3> QED
      BY <3>2, CellLooksBack
  <2>3. ASSUME NEW at \in Pairs(s, t)
        PROVE  /\ g[at] \in Nat
               /\ at[1] + at[2] + 2 < n + 1 => g[at] = Cell(s, t, g, at[1], at[2])
    <3>1. at[1] \in -1..Len(s) /\ at[2] \in -1..Len(t)
      BY DEF Pairs
    <3>2. CASE at[1] + at[2] + 2 = n
      BY <2>2, <3>1, <3>2
    <3>3. CASE at[1] + at[2] + 2 # n
      <4>1. g[at] = f[at] /\ f[at] \in Nat
        BY <3>3
      <4>2. ASSUME at[1] + at[2] + 2 < n + 1 PROVE g[at] = Cell(s, t, g, at[1], at[2])
        <5>1. at[1] + at[2] + 2 < n /\ at[1] + at[2] + 2 <= n
          BY <3>1, <3>3, <4>2
        <5>2. f[at] = Cell(s, t, f, at[1], at[2])
          BY <2>1, <5>1
        <5>3. Cell(s, t, f, at[1], at[2]) = Cell(s, t, g, at[1], at[2])
          BY <2>2, <3>1, <5>1
        <5> HIDE DEF g
        <5> QED
          BY <4>1, <5>2, <5>3
      <4> HIDE DEF g
      <4> QED
        BY <4>1, <4>2
    <3> QED
      BY <3>2, <3>3
  <2>4. g \in [Pairs(s, t) -> Nat]
    BY <2>3
  <2>5. Done(g, n + 1)
    BY <2>3
  <2> HIDE DEF g, Done
  <2> QED
    BY <2>4, <2>5
<1>3. Nat \subseteq S
  <2> HIDE DEF S
  <2> QED
    BY <1>1, <1>2, NaturalsByInduction
<1> DEFINE all == Len(s) + Len(t) + 3
<1>4. all \in Nat /\ \A at \in Pairs(s, t) : at[1] + at[2] + 2 < all
  BY DEF Pairs
<1>5. PICK f \in [Pairs(s, t) -> Nat] : Done(f, all)
  <2> HIDE DEF all, Done
  <2> QED
    BY <1>3, <1>4
<1> QED
  BY <1>4, <1>5

\* The table the code fills holds natural numbers.
LEMMA CellsAreNatural ==
    ASSUME NEW s \in Seq(STRING), NEW t \in Seq(STRING), NEW at \in Pairs(s, t)
    PROVE  Cells(s, t)[at] \in Nat
<1> DEFINE Table(g) == g = [p \in Pairs(s, t) |-> Cell(s, t, g, p[1], p[2])]
           c == Cells(s, t)
<1>1. c = CHOOSE g : Table(g)
  BY DEF Cells, Pairs
<1>2. \E g : Table(g)
  <2>1. PICK f \in [Pairs(s, t) -> Nat] : \A p \in Pairs(s, t) : f[p] = Cell(s, t, f, p[1], p[2])
    BY TableExists
  <2>2. Table(f)
    BY <2>1
  <2> QED
    BY <2>2
<1>3. Table(c)
  <2> HIDE DEF Table, c
  <2> QED
    BY <1>1, <1>2
<1> DEFINE S == {n \in Nat : \A p \in Pairs(s, t) : p[1] + p[2] + 2 < n => c[p] \in Nat}
<1>4. 0 \in S
  BY DEF Pairs
<1>5. ASSUME NEW n \in Nat, n \in S PROVE n + 1 \in S
  <2>1. ASSUME NEW p \in Pairs(s, t), p[1] + p[2] + 2 < n + 1 PROVE c[p] \in Nat
    <3>1. p[1] \in -1..Len(s) /\ p[2] \in -1..Len(t)
      BY DEF Pairs
    <3>2. ASSUME NEW x \in -1..Len(s), NEW y \in -1..Len(t), x + y < p[1] + p[2]
          PROVE  c[<<x, y>>] \in Nat
      <4>1. <<x, y>> \in Pairs(s, t) /\ x + y + 2 < n
        BY <2>1, <3>1, <3>2 DEF Pairs
      <4> HIDE DEF c
      <4> QED
        BY <1>5, <4>1
    <3>3. Cell(s, t, c, p[1], p[2]) \in Nat
      <4> HIDE DEF c
      <4>1. AgreeBefore(s, t, p[1] + p[2], c, c)
        BY <3>2 DEF AgreeBefore
      <4> QED
        BY <3>1, <4>1, CellLooksBack
    <3> HIDE DEF c
    <3> QED
      BY <1>3, <3>3
  <2> QED
    BY <2>1
<1>6. Nat \subseteq S
  <2> HIDE DEF S
  <2> QED
    BY <1>4, <1>5, NaturalsByInduction
<1>7. at[1] + at[2] + 3 \in Nat /\ at[1] + at[2] + 2 < at[1] + at[2] + 3
  BY DEF Pairs
<1>8. at[1] + at[2] + 3 \in S
  <2> HIDE DEF S
  <2> QED
    BY <1>6, <1>7
<1> QED
  BY <1>7, <1>8

LEMMA DistanceBound ==
    ASSUME NEW s \in Seq(STRING), NEW t \in Seq(STRING) PROVE Distance(s, t) \in 0..3
<1>1. <<Len(s), Len(t)>> \in Pairs(s, t)
  BY DEF Pairs
<1>2. Cells(s, t)[<<Len(s), Len(t)>>] \in Nat
  BY <1>1, CellsAreNatural
<1> QED
  BY <1>2, CappedAtThree DEF Distance

\* Whatever the names, a similarity lies in the band of the candidates, so that
\* similar names are never mistaken for an identification (similarity.go: "the
\* score always lands inside [candidateScoreMin, candidateScoreMax]").
THEOREM CandidateBand ==
    ASSUME NEW s \in Seq(STRING), NEW t \in Seq(STRING) PROVE CandidateSimilarity(s, t) \in 1..54
<1> DEFINE common == Cardinality(ToSet(s) \intersect ToSet(t))
           all == Cardinality(ToSet(s) \union ToSet(t))
           sim == 9 * common + 2 * all * (3 - Distance(s, t))
<1>1. CASE s = <<>> \/ t = <<>>
  BY <1>1 DEF CandidateSimilarity
<1>2. CASE s # <<>> /\ t # <<>>
  <2>1. IsFiniteSet(ToSet(s)) /\ IsFiniteSet(ToSet(t))
    <3>1. ASSUME NEW u \in Seq(STRING) PROVE IsFiniteSet(ToSet(u))
      <4>1. IsFiniteSet(1..Len(u)) /\ ToSet(u) = {u[x] : x \in 1..Len(u)}
        BY FS_Interval DEF ToSet
      <4>2. u \in Surjection(1..Len(u), ToSet(u))
        BY <4>1 DEF Surjection
      <4> QED
        BY <4>1, <4>2, FS_Surjection
    <3> QED
      BY <3>1
  <2>2. IsFiniteSet(ToSet(s) \union ToSet(t))
    BY <2>1, FS_Union
  <2>3. common \in Nat /\ all \in Nat /\ common <= all
    BY <2>2, FS_Subset, FS_CardinalityType
  <2>4. all # 0
    <3>1. s[1] \in ToSet(s)
      BY <1>2 DEF ToSet
    <3> QED
      BY <2>2, <3>1, FS_EmptySet
  <2>5. Distance(s, t) \in 0..3
    BY DistanceBound
  <2> HIDE DEF common, all
  <2>6. /\ sim \in Nat /\ sim <= 15 * all
    <3>1. 2 * all * (3 - Distance(s, t)) \in Nat /\ 2 * all * (3 - Distance(s, t)) <= 6 * all
      <4>1. Distance(s, t) \in {0, 1, 2, 3}
        BY <2>5
      <4> QED
        BY <2>3, <4>1
    <3> QED
      BY <2>3, <3>1
  <2>7. (53 * sim) \div (15 * all) \in 0..53
    <3> HIDE DEF sim
    <3>1. 53 * sim \in Nat /\ 15 * all \in Nat \ {0} /\ 53 * sim <= 53 * (15 * all)
      BY <2>3, <2>4, <2>6
    <3> QED
      BY <3>1, QuotientBound
  <2>8. CandidateSimilarity(s, t) = 1 + (53 * sim) \div (15 * all)
    BY <1>2 DEF CandidateSimilarity, common, all
  <2> DEFINE q == (53 * sim) \div (15 * all)
  <2>9. q \in 0..53 /\ CandidateSimilarity(s, t) = 1 + q
    BY <2>7, <2>8
  <2> HIDE DEF q
  <2> QED
    BY <2>9
<1> QED
  BY <1>1, <1>2

-------------------------------------------------------------------------------
(* MatchEngine: what one statement says *)

High == {"exact_identifier", "container_digest", "alias_exact_version", "canonical_product_range"}
Medium == {"product_uncertain_version", "controlled_alias_only"}

\* The bands of the scores do not overlap, and each has its confidence.
LEMMA Bands ==
    ASSUME NEW e
    PROVE  /\ e.method \in High => Score(e) \in 80..100 /\ Confidence(e.method) = "high"
           /\ e.method \in Medium => Score(e) \in 55..65 /\ Confidence(e.method) = "medium"
           /\ e.method = "candidate" /\ e.similarity \in 1..54 =>
                Score(e) \in 1..54 /\ Confidence(e.method) = "low"
           /\ e.method = "no_match" => Score(e) = 0 /\ Confidence(e.method) = "none"
<1>1. /\ Rank["exact_identifier"] = 100 /\ Rank["container_digest"] = 95
      /\ Rank["alias_exact_version"] = 90 /\ Rank["canonical_product_range"] = 80
      /\ Rank["product_uncertain_version"] = 65 /\ Rank["controlled_alias_only"] = 55
      /\ Rank["no_match"] = 0
  BY DEF Rank
<1>2. e.method \in High => Score(e) \in 80..100 /\ Confidence(e.method) = "high"
  BY <1>1 DEF Score, Confidence, High
<1>3. e.method \in Medium => Score(e) \in 55..65 /\ Confidence(e.method) = "medium"
  BY <1>1 DEF Score, Confidence, Medium
<1>4. e.method = "candidate" /\ e.similarity \in 1..54 => Score(e) \in 1..54 /\ Confidence(e.method) = "low"
  BY DEF Score, Confidence
<1>5. e.method = "no_match" => Score(e) = 0 /\ Confidence(e.method) = "none"
  BY <1>1 DEF Score, Confidence
<1> QED
  BY <1>2, <1>3, <1>4, <1>5

LEMMA VersionIsPlace == ASSUME component \in Components PROVE componentVersion \in Nat
<1> DEFINE known == {i \in DOMAIN component.versions : component.versions[i] # NoVersion}
<1>1. component.versions \in Seq(Nat)
  BY InputsAssumption
<1>2. known \in SUBSET Nat /\ known \subseteq DOMAIN component.versions
  BY <1>1
<1>3. CASE known = {}
  BY <1>3 DEF componentVersion, NoVersion
<1>4. CASE known # {}
  <2> HIDE DEF known
  <2>1. Min(known) \in known
    BY <1>2, <1>4, LeastNatural DEF Min
  <2>2. componentVersion = component.versions[Min(known)]
    BY <1>4 DEF componentVersion, known
  <2>3. \A i \in DOMAIN component.versions : component.versions[i] \in Nat
    BY <1>1
  <2>4. Min(known) \in DOMAIN component.versions
    BY <1>2, <2>1
  <2> QED
    BY <2>2, <2>3, <2>4
<1> QED
  BY <1>3, <1>4

\* A window says "in" of the versions inside it and "out" of those outside.
LEMMA WindowSays ==
    ASSUME component \in Components, componentVersion # NoVersion,
           NEW w, w.from \in Nat, w.to \in Nat
    PROVE  /\ inVersionRange(componentVersion, w) \in {"in", "out", "unknown"}
           /\ inVersionRange(componentVersion, w) = "in" <=> Inside(w)
           /\ inVersionRange(componentVersion, w) = "out" <=> Outside(w)
<1>1. componentVersion \in Nat
  BY VersionIsPlace
<1> DEFINE v == componentVersion
           below == IF w.fromIncluding THEN v < w.from ELSE v <= w.from
           above == IF w.toIncluding THEN v > w.to ELSE v >= w.to
           end == IF w.to = NoVersion THEN "in"
                  ELSE IF ~Comparable(v, w.to) THEN "unknown"
                  ELSE IF above THEN "out" ELSE "in"
<1>2. inVersionRange(v, w) = IF w.from = NoVersion THEN end
                             ELSE IF ~Comparable(v, w.from) THEN "unknown"
                             ELSE IF below THEN "out" ELSE end
  BY DEF inVersionRange
<1>3. below <=> v < w.from \/ (v = w.from /\ ~w.fromIncluding)
  BY <1>1
<1>4. above <=> v > w.to \/ (v = w.to /\ ~w.toIncluding)
  BY <1>1
<1>5. ~below <=> v > w.from \/ (v = w.from /\ w.fromIncluding)
  BY <1>1
<1>6. ~above <=> v < w.to \/ (v = w.to /\ w.toIncluding)
  BY <1>1
<1>7. Outside(w) <=> \/ w.from # NoVersion /\ Comparable(v, w.from) /\ below
                     \/ /\ w.to # NoVersion /\ Comparable(v, w.to)
                        /\ w.from = NoVersion \/ Comparable(v, w.from)
                        /\ above
  BY <1>3, <1>4 DEF Outside
<1>8. Inside(w) <=> /\ w.from # NoVersion => Comparable(v, w.from) /\ ~below
                    /\ w.to # NoVersion => Comparable(v, w.to) /\ ~above
  BY <1>5, <1>6 DEF Inside
<1> HIDE DEF below, above, v
<1> QED
  BY <1>2, <1>7, <1>8 DEF v

\* Related by a name or an identifier, a component is affected, cleared or in
\* doubt.
LEMMA RelationSays ==
    ASSUME component \in Components, NEW a \in AffectedProducts
    PROVE  /\ classifyVersion(a) = "affected" <=>
                \/ componentVersion \in statementExactVersions(a) \ {NoVersion}
                \/ \E w \in a.windows : Inside(w)
           /\ classifyVersion(a) = "not affected" <=>
                /\ componentVersion # NoVersion
                /\ statementExactVersions(a) # {} \/ a.windows # {}
                /\ componentVersion \notin statementExactVersions(a)
                /\ \A w \in a.windows : Outside(w)
<1> DEFINE v == componentVersion
           exacts == statementExactVersions(a)
           results == {inVersionRange(v, w) : w \in a.windows}
<1>1. classifyVersion(a) =
        IF exacts = {} /\ a.windows = {} THEN "no expression"
        ELSE IF v = NoVersion THEN "missing"
        ELSE IF v \in exacts \/ "in" \in results THEN "affected"
        ELSE IF "unknown" \in results THEN "ambiguous" ELSE "not affected"
  BY DEF classifyVersion, versionEqual
<1>2. CASE v = NoVersion
  <2>1. \A w : ~Inside(w)
    BY <1>2 DEF Inside
  <2> HIDE DEF exacts, results
  <2> QED
    BY <1>1, <1>2, <2>1 DEF exacts
<1>3. CASE v # NoVersion
  <2>1. ASSUME NEW w \in a.windows
        PROVE  /\ inVersionRange(v, w) \in {"in", "out", "unknown"}
               /\ inVersionRange(v, w) = "in" <=> Inside(w)
               /\ inVersionRange(v, w) = "out" <=> Outside(w)
    BY <1>3, InputsAssumption, WindowSays
  <2>2. "in" \in results <=> \E w \in a.windows : Inside(w)
    BY <2>1
  <2>3. "in" \notin results /\ "unknown" \notin results <=> \A w \in a.windows : Outside(w)
    <3>1. ASSUME NEW w \in a.windows
          PROVE  Outside(w) <=> inVersionRange(v, w) # "in" /\ inVersionRange(v, w) # "unknown"
      BY <2>1
    <3> QED
      BY <3>1
  <2>4. a.windows = {} => "in" \notin results
    OBVIOUS
  <2> HIDE DEF results, v, exacts
  <2> QED
    BY <1>1, <1>3, <2>2, <2>3, <2>4 DEF v, exacts
<1> QED
  BY <1>2, <1>3

\* The tier of a statement is the one its relation to the component calls for.
LEMMA StatementSays ==
    ASSUME component \in Components, NEW a \in AffectedProducts
    PROVE  /\ Affects(a) => evaluateStatement(a).method \in High /\ ~Clears(a)
           /\ Clears(a) => evaluateStatement(a).method = "no_match" /\ Related(a)
           /\ ~Affects(a) /\ ~Clears(a) /\ Related(a) => evaluateStatement(a).method \in Medium
           /\ ~Affects(a) /\ ~Related(a) =>
                /\ evaluateStatement(a).method = "candidate"
                /\ evaluateStatement(a).similarity \in 1..54
<1> DEFINE relation == classifyVersion(a)
<1>1. /\ relation = "affected" => ~(relation = "not affected")
      /\ Affects(a) <=> SameImage(a) \/ (Related(a) /\ relation = "affected")
      /\ Clears(a) <=> ~SameImage(a) /\ Related(a) /\ relation = "not affected"
  BY RelationSays DEF Affects, Clears
<1>2. ASSUME NEW sure \in High, NEW unsure \in Medium
      PROVE  ByVersion(a, sure, unsure).method = IF relation = "affected" THEN sure
                                                 ELSE IF relation = "not affected" THEN "no_match"
                                                 ELSE unsure
  BY DEF ByVersion, Evidence
<1>3. /\ "exact_identifier" \in High /\ "container_digest" \in High
      /\ "alias_exact_version" \in High /\ "canonical_product_range" \in High
      /\ "product_uncertain_version" \in Medium /\ "controlled_alias_only" \in Medium
  BY DEF High, Medium
<1> HIDE DEF relation
<1>4. CASE SameImage(a)
  <2>1. evaluateStatement(a).method = "container_digest"
    BY <1>4 DEF evaluateStatement, Evidence
  <2> QED
    BY <1>1, <1>3, <1>4, <2>1
<1>5. CASE ~SameImage(a) /\ Related(a)
  <2>1. \E sure \in High, unsure \in Medium : evaluateStatement(a) = ByVersion(a, sure, unsure)
    BY <1>3, <1>5 DEF evaluateStatement, Related
  <2>2. \E sure \in High, unsure \in Medium :
          evaluateStatement(a).method = IF relation = "affected" THEN sure
                                        ELSE IF relation = "not affected" THEN "no_match"
                                        ELSE unsure
    BY <1>2, <2>1
  <2> QED
    BY <1>1, <1>5, <2>2
<1>6. CASE ~SameImage(a) /\ ~Related(a)
  <2>1. evaluateStatement(a) =
          [method |-> "candidate", similarity |-> CandidateSimilarity(a.product, component.product)]
    BY <1>6 DEF evaluateStatement, Related
  <2>2. CandidateSimilarity(a.product, component.product) \in 1..54
    BY InputsAssumption, CandidateBand
  <2>3. /\ evaluateStatement(a).method = "candidate"
        /\ evaluateStatement(a).similarity = CandidateSimilarity(a.product, component.product)
    BY <2>1
  <2> QED
    BY <1>1, <1>6, <2>2, <2>3
<1> QED
  BY <1>4, <1>5, <1>6

-------------------------------------------------------------------------------
(* MatchEngine: the loop and the outcome *)

Said == ToSet(statements)

\* The strongest evidence so far is that of one of the statements, and none is
\* stronger.
BestOK == IF statements = <<>> THEN best.method = ""
          ELSE /\ \E a \in Said : best = evaluateStatement(a)
               /\ \A a \in Said : Score(evaluateStatement(a)) <= Score(best)

OutcomeOK == outcome # <<>> => statements # <<>> /\ outcome = <<applyDecisionRules(Derive(best))>>

EngineInv ==
    /\ component \in Components /\ rules \in Corrections /\ statements \in Seq(AffectedProducts)
    /\ BestOK /\ OutcomeOK

LEMMA ScoresAreNumbers ==
    ASSUME component \in Components, NEW a \in AffectedProducts
    PROVE  Score(evaluateStatement(a)) \in 0..100 /\ evaluateStatement(a).method # ""
<1>1. \/ evaluateStatement(a).method \in High \union Medium \union {"no_match"}
      \/ evaluateStatement(a).method = "candidate" /\ evaluateStatement(a).similarity \in 1..54
  BY StatementSays
<1>2. evaluateStatement(a).method # ""
  BY <1>1 DEF High, Medium
<1> DEFINE score == Score(evaluateStatement(a))
<1>3. score \in 80..100 \/ score \in 55..65 \/ score \in 1..54 \/ score = 0
  BY <1>1, Bands
<1> HIDE DEF score
<1>4. score \in 0..100
  BY <1>3
<1> QED
  BY <1>2, <1>4 DEF score

Relation(v, exacts, windows, results) ==
    IF exacts = {} /\ windows = {} THEN "no expression"
    ELSE IF v = NoVersion THEN "missing"
    ELSE IF v \in exacts \/ "in" \in results THEN "affected"
    ELSE IF "unknown" \in results THEN "ambiguous" ELSE "not affected"

Results(a) == {inVersionRange(componentVersion, w) : w \in a.windows}

\* What a statement says depends on the component alone.
LEMMA EvaluationStays ==
    ASSUME component' = component, NEW a
    PROVE  evaluateStatement(a)' = evaluateStatement(a)
<1>1. componentVersion' = componentVersion
  BY DEF componentVersion
<1>2. \A v, w : inVersionRange(v, w)' = inVersionRange(v, w)
  BY DEF inVersionRange, Comparable
<1>3. classifyVersion(a)' = classifyVersion(a)
  <2>1. \A w : inVersionRange(componentVersion, w)' = inVersionRange(componentVersion, w)
    BY <1>1, <1>2
  <2>2. Results(a)' = Results(a)
    BY <2>1 DEF Results
  <2>3. statementExactVersions(a)' = statementExactVersions(a)
    BY DEF statementExactVersions
  <2>4. /\ classifyVersion(a) = Relation(componentVersion, statementExactVersions(a), a.windows, Results(a))
        /\ classifyVersion(a)' =
             Relation(componentVersion', statementExactVersions(a)', a.windows, Results(a)')
    BY DEF classifyVersion, Relation, Results, versionEqual
  <2> QED
    BY <1>1, <2>2, <2>3, <2>4
<1>4. \A x, y : ByVersion(a, x, y)' = ByVersion(a, x, y)
  BY <1>3 DEF ByVersion
<1>5. /\ SameImage(a)' = SameImage(a) /\ SameIdentifier(a)' = SameIdentifier(a)
      /\ Canonical(a)' = Canonical(a) /\ AliasOnly(a)' = AliasOnly(a)
  BY DEF SameImage, SameIdentifier, Canonical, AliasOnly, Named
<1> QED
  BY <1>4, <1>5 DEF evaluateStatement

\* What the decision rules make of a match depends on them, the component and
\* the instant.
LEMMA DecisionStays ==
    ASSUME UNCHANGED <<component, rules, instant, best>>
    PROVE  applyDecisionRules(Derive(best))' = applyDecisionRules(Derive(best))
<1>1. \A r : decisionRuleApplies(r)' = decisionRuleApplies(r)
  BY DEF decisionRuleApplies, AppliesAt
<1>2. applicableDecisionRule' = applicableDecisionRule
  BY <1>1 DEF applicableDecisionRule
<1>3. Derive(best)' = Derive(best)
  BY DEF Derive, Score
<1> QED
  BY <1>2, <1>3 DEF applyDecisionRules

LEMMA BestStays ==
    ASSUME BestOK, UNCHANGED <<component, statements, best>> PROVE BestOK'
<1>1. \A a : evaluateStatement(a)' = evaluateStatement(a)
  BY EvaluationStays
<1>2. Said' = Said
  BY DEF Said
<1>3. \A a : Score(evaluateStatement(a))' = Score(evaluateStatement(a)) /\ Score(best)' = Score(best)
  BY <1>1 DEF Score
<1> QED
  BY <1>1, <1>2, <1>3 DEF BestOK

LEMMA StrongerStays ==
    ASSUME NEW x \in 0..100, NEW y \in 0..100, NEW z \in 0..100, NEW m,
           m = IF y > z THEN y ELSE z, x <= z \/ x = y
    PROVE  x <= m
OBVIOUS

LEMMA BandsApart ==
    ASSUME NEW x \in 0..100, NEW y \in 0..100, x <= y
    PROVE  /\ x \in 80..100 => y \notin 55..65 /\ y \notin 1..54 /\ y # 0
           /\ x \in 55..65 => y \notin 1..54 /\ y # 0
           /\ x \in 1..54 => y # 0
OBVIOUS

LEMMA EngineStep == ASSUME EngineInv, [MatchNext]_matchVars PROVE EngineInv'
<1>1. CASE UNCHANGED matchVars
  BY <1>1, BestStays, DecisionStays DEF EngineInv, matchVars, OutcomeOK
<1>2. ASSUME NEW a \in AffectedProducts, EvaluateStatement(a) PROVE EngineInv'
  <2> DEFINE e == evaluateStatement(a)
  <2>1. /\ outcome = <<>> /\ outcome' = <<>> /\ statements' = Append(statements, a)
        /\ best' = IF best.method = "" \/ Score(e) > Score(best) THEN e ELSE best
        /\ component' = component /\ rules' = rules
    BY <1>2 DEF EvaluateStatement
  <2>0. statements \in Seq(AffectedProducts)
    BY DEF EngineInv
  <2>2. statements' \in Seq(AffectedProducts) /\ statements' # <<>>
    <3>1. statements' = Append(statements, a)
      BY <2>1
    <3>2. Append(statements, a) \in Seq(AffectedProducts) /\ Append(statements, a) # <<>>
      BY <2>0, AppendProperties
    <3> QED
      BY <3>1, <3>2
  <2>3. Said' = Said \union {a} /\ a \in Said' /\ Said \subseteq AffectedProducts
    <3>1. Len(statements) \in Nat /\ statements \in Seq(AffectedProducts)
      BY <2>0, AppendProperties
    <3>2. /\ DOMAIN statements = 1..Len(statements)
          /\ DOMAIN statements' = 1..(Len(statements) + 1)
          /\ statements'[Len(statements) + 1] = a
          /\ \A i \in 1..Len(statements) : statements'[i] = statements[i]
      <4>1. statements' = Append(statements, a)
        BY <2>1
      <4> QED
        BY <3>1, <4>1
    <3>3. 1..(Len(statements) + 1) = (1..Len(statements)) \union {Len(statements) + 1}
      BY <3>1
    <3> QED
      BY <3>1, <3>2, <3>3 DEF Said, ToSet
  <2>4. \A b \in AffectedProducts : evaluateStatement(b)' = evaluateStatement(b)
    BY <2>1, EvaluationStays
  <2>5. \A b \in AffectedProducts : Score(evaluateStatement(b)) \in 0..100
                                    /\ evaluateStatement(b).method # ""
    BY ScoresAreNumbers DEF EngineInv
  <2>6. BestOK'
    <3>1. CASE statements = <<>>
      <4>1. best' = e
        BY <2>1, <3>1 DEF EngineInv, BestOK
      <4>2. Said = {}
        BY <3>1 DEF Said, ToSet
      <4>3. Said' = {a} /\ best' = evaluateStatement(a)'
        BY <2>3, <2>4, <4>1, <4>2
      <4>4. Score(evaluateStatement(a))' = Score(best)' /\ Score(best)' \in 0..100
        BY <2>4, <2>5, <4>1, <4>3 DEF Score
      <4>5. Score(evaluateStatement(a))' <= Score(best)'
        BY <4>4
      <4> QED
        BY <2>2, <4>3, <4>5 DEF BestOK
    <3>2. CASE statements # <<>>
      <4>1. PICK b \in Said : best = evaluateStatement(b)
        BY <3>2 DEF EngineInv, BestOK
      <4>2. \A c \in Said : Score(evaluateStatement(c)) <= Score(best)
        BY <3>2 DEF EngineInv, BestOK
      <4>3. best.method # "" /\ Score(best) \in 0..100 /\ Score(e) \in 0..100
        BY <2>3, <2>5, <4>1
      <4>4. \E c \in Said' : best' = evaluateStatement(c)
        BY <2>1, <2>3, <4>1, <4>3
      <4>5. \A c \in Said' : Score(evaluateStatement(c)) <= Score(best')
        <5> SUFFICES ASSUME NEW c \in Said' PROVE Score(evaluateStatement(c)) <= Score(best')
          OBVIOUS
        <5>1. /\ c \in Said => Score(evaluateStatement(c)) <= Score(best)
              /\ c \notin Said => evaluateStatement(c) = e
              /\ Score(evaluateStatement(c)) \in 0..100
          BY <2>3, <2>5, <4>2
        <5>2. best' = IF Score(e) > Score(best) THEN e ELSE best
          BY <2>1, <4>3
        <5> HIDE DEF e
        <5>3. Score(best') = IF Score(e) > Score(best) THEN Score(e) ELSE Score(best)
          BY <5>2
        <5> QED
          BY <4>3, <5>1, <5>3, StrongerStays
      <4>6. Said' \subseteq AffectedProducts
        BY <2>3
      <4> QED
        BY <2>2, <2>4, <4>4, <4>5, <4>6 DEF BestOK, Score
    <3> QED
      BY <3>1, <3>2
  <2> QED
    BY <2>1, <2>2, <2>6 DEF EngineInv, OutcomeOK
<1>3. CASE Evaluate
  <2>1. /\ statements # <<>> /\ outcome' = <<applyDecisionRules(Derive(best))>>
        /\ UNCHANGED <<component, rules, instant, statements, best>>
    BY <1>3 DEF Evaluate
  <2>2. BestOK'
    BY <2>1, BestStays DEF EngineInv
  <2>3. applyDecisionRules(Derive(best))' = applyDecisionRules(Derive(best))
    BY <2>1, DecisionStays
  <2> QED
    BY <2>1, <2>2, <2>3 DEF EngineInv, OutcomeOK
<1> QED
  BY <1>1, <1>2, <1>3 DEF MatchNext

\* The confidence of the strongest evidence is what the statements say.
LEMMA BestTells ==
    ASSUME EngineInv, statements # <<>>
    PROVE  /\ (\E a \in Said : Affects(a)) => Confidence(best.method) = "high"
           /\ (\A a \in Said : Clears(a)) =>
                Confidence(best.method) = "none" /\ ~(\E a \in Said : Affects(a))
           /\ ~(\E a \in Said : Affects(a)) /\ ~(\A a \in Said : Clears(a)) =>
                Confidence(best.method) = IF \A a \in Said : Clears(a) \/ ~Related(a)
                                          THEN "low" ELSE "medium"
<1> DEFINE e(a) == evaluateStatement(a)
<1>1. component \in Components /\ Said \subseteq AffectedProducts
  BY DEF EngineInv, Said, ToSet
<1>2. ASSUME NEW a \in Said
      PROVE  /\ Affects(a) => Score(e(a)) \in 80..100 /\ Confidence(e(a).method) = "high" /\ ~Clears(a)
             /\ Clears(a) => Score(e(a)) = 0 /\ Confidence(e(a).method) = "none" /\ Related(a)
             /\ ~Affects(a) /\ ~Clears(a) /\ Related(a) =>
                  Score(e(a)) \in 55..65 /\ Confidence(e(a).method) = "medium"
             /\ ~Affects(a) /\ ~Related(a) =>
                  Score(e(a)) \in 1..54 /\ Confidence(e(a).method) = "low"
  BY <1>1, StatementSays, Bands
<1>3. PICK b \in Said : best = e(b)
  BY DEF EngineInv, BestOK
<1>4. \A a \in Said : Score(e(a)) <= Score(e(b))
  BY <1>3 DEF EngineInv, BestOK
<1>5. \A a \in Said : Score(e(a)) \in 0..100
  BY <1>1, ScoresAreNumbers
<1> HIDE DEF e
<1>6. ASSUME NEW a \in Said, Affects(a) PROVE Confidence(best.method) = "high"
  <2>1. Score(e(a)) \in 80..100
    BY <1>2, <1>6
  <2>2. Score(e(b)) \notin 55..65 /\ Score(e(b)) \notin 1..54 /\ Score(e(b)) # 0
    BY <1>4, <1>5, <2>1, BandsApart
  <2>3. Affects(b)
    BY <1>2, <2>2
  <2> QED
    BY <1>2, <1>3, <2>3
<1>7. ASSUME \A a \in Said : Clears(a)
      PROVE  Confidence(best.method) = "none" /\ ~(\E a \in Said : Affects(a))
  BY <1>2, <1>3, <1>7
<1>8. ASSUME ~(\E a \in Said : Affects(a)), ~(\A a \in Said : Clears(a))
      PROVE  Confidence(best.method) = IF \A a \in Said : Clears(a) \/ ~Related(a)
                                       THEN "low" ELSE "medium"
  <2>1. CASE \A a \in Said : Clears(a) \/ ~Related(a)
    <3>1. PICK a \in Said : ~Clears(a)
      BY <1>8
    <3>2. Score(e(a)) \in 1..54
      BY <1>2, <1>8, <2>1, <3>1
    <3>3. Score(e(b)) # 0
      BY <1>4, <1>5, <3>2, BandsApart
    <3>4. ~Affects(b) /\ ~Related(b)
      BY <1>2, <1>8, <2>1, <3>3
    <3> QED
      BY <1>2, <1>3, <2>1, <3>4
  <2>2. CASE ~(\A a \in Said : Clears(a) \/ ~Related(a))
    <3>1. PICK a \in Said : ~Clears(a) /\ Related(a)
      BY <2>2
    <3>2. Score(e(a)) \in 55..65
      BY <1>2, <1>8, <3>1
    <3>3. Score(e(b)) \notin 1..54 /\ Score(e(b)) # 0
      BY <1>4, <1>5, <3>2, BandsApart
    <3>4. ~Affects(b) /\ ~Clears(b) /\ Related(b)
      BY <1>2, <1>8, <3>3
    <3> QED
      BY <1>2, <1>3, <2>2, <3>4
  <2> QED
    BY <2>1, <2>2
<1> QED
  BY <1>6, <1>7, <1>8

\* Of any statements in any order, the computed confidence is high just when one
\* is shown to hold for the component, and none just when all are shown not to;
\* names that only resemble each other never count for more than low
\* (evaluate.go, Evaluate; decision.go).
THEOREM EvidenceDecides == MatchSpec => []OutcomeFollowsEvidence
<1>1. MatchInit => EngineInv
  <2>1. <<>> \in Seq(AffectedProducts) /\ Evidence("").method = ""
    BY DEF Evidence
  <2> QED
    BY <2>1 DEF MatchInit, EngineInv, BestOK, OutcomeOK
<1>2. EngineInv /\ [MatchNext]_matchVars => EngineInv'
  BY EngineStep
<1>3. EngineInv => OutcomeFollowsEvidence
  <2> SUFFICES ASSUME EngineInv, NEW o \in ToSet(outcome), ~(o.rule # 0 /\ o.auto = <<>>)
      PROVE  (IF o.auto = <<>> THEN o.effective ELSE o.auto[1]).confidence =
               CASE \E a \in Said : Affects(a) -> "high"
                 [] \A a \in Said : Clears(a) -> "none"
                 [] OTHER -> IF \A a \in Said : Clears(a) \/ ~Related(a) THEN "low" ELSE "medium"
    BY DEF OutcomeFollowsEvidence, Said
  <2>1. outcome # <<>>
    BY DEF ToSet
  <2>2. statements # <<>> /\ outcome = <<applyDecisionRules(Derive(best))>>
    BY <2>1 DEF EngineInv, OutcomeOK
  <2>3. o = applyDecisionRules(Derive(best))
    BY <2>2 DEF ToSet
  <2>4. (IF o.auto = <<>> THEN o.effective ELSE o.auto[1]) = Derive(best)
    <3>1. CASE applicableDecisionRule = {}
      BY <2>3, <3>1 DEF applyDecisionRules
    <3>2. CASE applicableDecisionRule # {}
      <4> DEFINE r == CHOOSE q \in applicableDecisionRule : TRUE
      <4>1. r \in rules
        BY <3>2 DEF applicableDecisionRule
      <4>2. r.id # 0
        BY <4>1, InputsAssumption DEF EngineInv
      <4>3. r.type # "exclude"
        BY <2>3, <3>2, <4>2 DEF applyDecisionRules
      <4>4. o.auto = <<Derive(best)>>
        BY <2>3, <3>2, <4>3 DEF applyDecisionRules
      <4> QED
        BY <4>4
    <3> QED
      BY <3>1, <3>2
  <2>5. Derive(best).confidence = Confidence(best.method)
    BY DEF Derive
  <2> DEFINE holds == \E a \in Said : Affects(a)
             cleared == \A a \in Said : Clears(a)
             alike == \A a \in Said : Clears(a) \/ ~Related(a)
  <2>6. /\ holds => Confidence(best.method) = "high"
        /\ cleared => Confidence(best.method) = "none" /\ ~holds
        /\ ~holds /\ ~cleared => Confidence(best.method) = IF alike THEN "low" ELSE "medium"
    BY <2>2, BestTells
  <2> HIDE DEF holds, cleared, alike
  <2>7. Confidence(best.method) = CASE holds -> "high" [] cleared -> "none"
                                    [] OTHER -> IF alike THEN "low" ELSE "medium"
    BY <2>6
  <2> QED
    BY <2>4, <2>5, <2>7 DEF holds, cleared, alike
<1> QED
  BY <1>1, <1>2, <1>3, PTL DEF MatchSpec

-------------------------------------------------------------------------------
(* VersionOrder: the first of the parts that differ *)

\* Three results of comparing v with w, w with u and v with u.
Ordered(a, b, c) == a <= 0 /\ b <= 0 => c <= 0 /\ (c = 0 <=> a = 0 /\ b = 0)

ResultAt(r, i) == IF i \in DOMAIN r THEN r[i] ELSE 0

LEMMA FirstDifference ==
    ASSUME NEW n \in Nat, NEW r \in [1..n -> -1..1]
    PROVE  /\ FirstOf(r) \in -1..1
           /\ \/ FirstOf(r) = 0 /\ \A i \in Nat : ResultAt(r, i) = 0
              \/ \E k \in 1..n : /\ FirstOf(r) = r[k] /\ r[k] # 0
                                 /\ \A i \in Nat : i < k => ResultAt(r, i) = 0
<1> DEFINE differ == {i \in DOMAIN r : r[i] # 0}
<1>1. CASE differ = {}
  BY <1>1 DEF FirstOf, ResultAt
<1>2. CASE differ # {}
  <2>1. PICK k \in differ : \A i \in differ : k <= i
    <3>1. differ \in SUBSET Nat
      OBVIOUS
    <3> HIDE DEF differ
    <3> QED
      BY <1>2, <3>1, LeastNatural
  <2>2. Min(differ) \in differ /\ \A i \in differ : Min(differ) <= i
    <3> HIDE DEF differ
    <3> QED
      BY <2>1 DEF Min
  <2>3. FirstOf(r) = r[Min(differ)]
    BY <1>2 DEF FirstOf
  <2> DEFINE m == Min(differ)
  <2>4. m \in 1..n /\ r[m] # 0 /\ \A i \in differ : m <= i
    BY <2>2
  <2> HIDE DEF m
  <2>5. ASSUME NEW i \in Nat, i < m PROVE ResultAt(r, i) = 0
    BY <2>4, <2>5 DEF ResultAt
  <2>6. FirstOf(r) = r[m] /\ r[m] \in -1..1
    BY <2>3, <2>4 DEF m
  <2> QED
    BY <2>4, <2>5, <2>6
<1> QED
  BY <1>1, <1>2

LEMMA FirstOfMirrored ==
    ASSUME NEW n \in Nat, NEW r \in [1..n -> -1..1], NEW q \in [1..n -> -1..1],
           \A i \in 1..n : q[i] = -r[i]
    PROVE  FirstOf(q) = -FirstOf(r)
<1>1. \A i \in Nat : ResultAt(q, i) = 0 <=> ResultAt(r, i) = 0
  BY DEF ResultAt
<1>2. \A k \in 1..n : ResultAt(q, k) = q[k] /\ ResultAt(r, k) = r[k]
  BY DEF ResultAt
<1>3. CASE FirstOf(r) = 0 /\ \A i \in Nat : ResultAt(r, i) = 0
  BY <1>1, <1>2, <1>3, FirstDifference
<1>4. CASE \E k \in 1..n : /\ FirstOf(r) = r[k] /\ r[k] # 0
                           /\ \A i \in Nat : i < k => ResultAt(r, i) = 0
  <2>1. PICK k \in 1..n : /\ FirstOf(r) = r[k] /\ r[k] # 0
                          /\ \A i \in Nat : i < k => ResultAt(r, i) = 0
    BY <1>4
  <2>2. q[k] # 0 /\ q[k] = -r[k]
    BY <2>1
  <2>3. PICK m \in 1..n : /\ FirstOf(q) = q[m] /\ q[m] # 0
                          /\ \A i \in Nat : i < m => ResultAt(q, i) = 0
    BY <1>2, <2>2, FirstDifference
  <2>4. m = k
    BY <1>1, <1>2, <2>1, <2>2, <2>3
  <2> QED
    BY <2>1, <2>2, <2>3, <2>4
<1> QED
  BY <1>3, <1>4, FirstDifference

\* Where each part is ordered, the first difference is.
LEMMA FirstOfOrdered ==
    ASSUME NEW n1 \in Nat, NEW r1 \in [1..n1 -> -1..1],
           NEW n2 \in Nat, NEW r2 \in [1..n2 -> -1..1],
           NEW n3 \in Nat, NEW r3 \in [1..n3 -> -1..1],
           \A i \in Nat : Ordered(ResultAt(r1, i), ResultAt(r2, i), ResultAt(r3, i))
    PROVE  Ordered(FirstOf(r1), FirstOf(r2), FirstOf(r3))
<1> SUFFICES ASSUME FirstOf(r1) <= 0, FirstOf(r2) <= 0
             PROVE  FirstOf(r3) <= 0 /\ (FirstOf(r3) = 0 <=> FirstOf(r1) = 0 /\ FirstOf(r2) = 0)
  BY DEF Ordered
<1> DEFINE First(r, k) == /\ FirstOf(r) = ResultAt(r, k) /\ ResultAt(r, k) \in {-1, 1}
                          /\ \A i \in Nat : i < k => ResultAt(r, i) = 0
           Same(r) == FirstOf(r) = 0 /\ \A i \in Nat : ResultAt(r, i) = 0
<1>1. ASSUME NEW n \in Nat, NEW r \in [1..n -> -1..1] PROVE Same(r) \/ \E k \in Nat : First(r, k)
  <2>1. CASE Same(r)
    BY <2>1
  <2>2. ASSUME NEW k \in 1..n, FirstOf(r) = r[k] /\ r[k] # 0,
               \A i \in Nat : i < k => ResultAt(r, i) = 0
        PROVE  First(r, k)
    BY <2>2 DEF ResultAt
  <2>3. \/ Same(r)
        \/ \E k \in 1..n : /\ FirstOf(r) = r[k] /\ r[k] # 0
                           /\ \A i \in Nat : i < k => ResultAt(r, i) = 0
    BY FirstDifference
  <2> HIDE DEF First, Same
  <2> QED
    BY <2>1, <2>2, <2>3
<1>0. FirstOf(r1) \in -1..1 /\ FirstOf(r2) \in -1..1 /\ FirstOf(r3) \in -1..1
  BY FirstDifference
<1>2. /\ Same(r1) \/ \E k \in Nat : First(r1, k)
      /\ Same(r2) \/ \E k \in Nat : First(r2, k)
      /\ Same(r3) \/ \E k \in Nat : First(r3, k)
  BY <1>1
<1>3. CASE Same(r1) /\ Same(r2)
  <2>1. \A i \in Nat : ResultAt(r3, i) = 0
    BY <1>3 DEF Ordered
  <2> QED
    BY <1>2, <1>3, <2>1
\* The first place where v and w, or w and u, differ.
<1>4. ASSUME NEW k \in Nat, ResultAt(r1, k) <= 0, ResultAt(r2, k) <= 0,
             ResultAt(r1, k) # 0 \/ ResultAt(r2, k) # 0,
             \A i \in Nat : i < k => ResultAt(r1, i) = 0 /\ ResultAt(r2, i) = 0
      PROVE  FirstOf(r3) < 0
  <2>1. ResultAt(r3, k) < 0 /\ \A i \in Nat : i < k => ResultAt(r3, i) = 0
    <3>1. ResultAt(r3, k) \in -1..1
      BY DEF ResultAt
    <3> QED
      BY <1>4, <3>1 DEF Ordered
  <2>2. PICK m \in Nat : First(r3, m)
    BY <1>2, <2>1
  <2>3. m = k
    BY <2>1, <2>2
  <2> QED
    BY <2>1, <2>2, <2>3
<1>5. ASSUME NEW k \in Nat, First(r1, k), Same(r2) \/ \E m \in Nat : First(r2, m) /\ k <= m
      PROVE  FirstOf(r3) < 0 /\ FirstOf(r1) # 0
  <2>1. FirstOf(r1) < 0 /\ ResultAt(r1, k) < 0
    BY <1>5
  <2>2. ResultAt(r2, k) <= 0 /\ \A i \in Nat : i < k => ResultAt(r2, i) = 0
    <3>1. CASE Same(r2)
      BY <3>1
    <3>2. ASSUME NEW m \in Nat, First(r2, m), k <= m PROVE <2>2!1 /\ <2>2!2
      BY <3>2
    <3> QED
      BY <1>5, <3>1, <3>2
  <2> QED
    BY <1>4, <1>5, <2>1, <2>2
<1>6. ASSUME NEW k \in Nat, First(r2, k), Same(r1) \/ \E m \in Nat : First(r1, m) /\ k <= m
      PROVE  FirstOf(r3) < 0 /\ FirstOf(r2) # 0
  <2>1. FirstOf(r2) < 0 /\ ResultAt(r2, k) < 0
    BY <1>6
  <2>2. ResultAt(r1, k) <= 0 /\ \A i \in Nat : i < k => ResultAt(r1, i) = 0
    <3>1. CASE Same(r1)
      BY <3>1
    <3>2. ASSUME NEW m \in Nat, First(r1, m), k <= m PROVE <2>2!1 /\ <2>2!2
      BY <3>2
    <3> QED
      BY <1>6, <3>1, <3>2
  <2> QED
    BY <1>4, <1>6, <2>1, <2>2
<1>7. CASE \E k \in Nat : First(r1, k)
  <2>1. PICK k \in Nat : First(r1, k)
    BY <1>7
  <2>2. Same(r2) \/ (\E m \in Nat : First(r2, m) /\ k <= m) \/ \E m \in Nat : First(r2, m) /\ m <= k
    BY <1>2
  <2>3. CASE Same(r2) \/ \E m \in Nat : First(r2, m) /\ k <= m
    BY <1>0, <1>5, <2>1, <2>3
  <2>4. ASSUME NEW m \in Nat, First(r2, m), m <= k
        PROVE  FirstOf(r3) < 0 /\ FirstOf(r2) # 0
    <3> HIDE DEF First, Same
    <3> QED
      BY <1>6, <2>1, <2>4
  <2> HIDE DEF First, Same
  <2> QED
    BY <1>0, <2>2, <2>3, <2>4
<1>8. CASE Same(r1) /\ \E k \in Nat : First(r2, k)
  <2> HIDE DEF First, Same
  <2> QED
    BY <1>0, <1>6, <1>8
<1> QED
  BY <1>2, <1>3, <1>7, <1>8

\* A comparison of two parts: a result, the negated one in the other direction,
\* and an order.
LEMMA SignOrders ==
    /\ \A x, y \in Int : Sign(x - y) \in -1..1 /\ Sign(y - x) = -Sign(x - y)
    /\ \A x, y, z \in Int : Ordered(Sign(x - y), Sign(y - z), Sign(x - z))
BY DEF Sign, Ordered

\* Two parts, the first of which is decisive.
LEMMA TwoParts ==
    ASSUME NEW a \in -1..1, NEW b \in -1..1
    PROVE  /\ FirstOf(<<a, b>>) \in -1..1
           /\ FirstOf(<<-a, -b>>) = -FirstOf(<<a, b>>)
           /\ \A a2, b2, a3, b3 \in -1..1 : Ordered(a, a2, a3) /\ Ordered(b, b2, b3) =>
                 Ordered(FirstOf(<<a, b>>), FirstOf(<<a2, b2>>), FirstOf(<<a3, b3>>))
<1>1. \A x, y \in -1..1 : <<x, y>> \in [1..2 -> -1..1]
  OBVIOUS
<1>2. <<a, b>> \in [1..2 -> -1..1] /\ <<-a, -b>> \in [1..2 -> -1..1]
  BY <1>1
<1>3. \A i \in 1..2 : <<-a, -b>>[i] = -<<a, b>>[i]
  OBVIOUS
<1>4. ASSUME NEW a2 \in -1..1, NEW b2 \in -1..1, NEW a3 \in -1..1, NEW b3 \in -1..1,
             Ordered(a, a2, a3), Ordered(b, b2, b3)
      PROVE  Ordered(FirstOf(<<a, b>>), FirstOf(<<a2, b2>>), FirstOf(<<a3, b3>>))
  <2>1. ASSUME NEW i \in Nat
        PROVE  Ordered(ResultAt(<<a, b>>, i), ResultAt(<<a2, b2>>, i), ResultAt(<<a3, b3>>, i))
    <3>1. CASE i \notin 1..2
      BY <3>1 DEF ResultAt, Ordered
    <3>2. CASE i = 1
      BY <1>4, <3>2 DEF ResultAt
    <3>3. CASE i = 2
      BY <1>4, <3>3 DEF ResultAt
    <3> QED
      BY <3>1, <3>2, <3>3
  <2> QED
    BY <1>1, <2>1, FirstOfOrdered
<1> QED
  BY <1>2, <1>3, <1>4, FirstDifference, FirstOfMirrored

LEMMA LexicalOrders ==
    ASSUME NEW a \in Seq(Int), NEW b \in Seq(Int)
    PROVE  /\ Lexical(a, b) \in -1..1 /\ Lexical(b, a) = -Lexical(a, b)
           /\ a = b => Lexical(a, b) = 0
           /\ \A c \in Seq(Int) : Ordered(Lexical(a, b), Lexical(b, c), Lexical(a, c))
<1> DEFINE part(x, y) == [i \in 1..MaxLen(x, y) |->
                            IF i > Len(x) THEN -1 ELSE IF i > Len(y) THEN 1 ELSE Sign(x[i] - y[i])]
<1>1. ASSUME NEW x \in Seq(Int), NEW y \in Seq(Int)
      PROVE  /\ MaxLen(x, y) \in Nat /\ MaxLen(x, y) = MaxLen(y, x)
             /\ part(x, y) \in [1..MaxLen(x, y) -> -1..1]
             /\ Lexical(x, y) = FirstOf(part(x, y))
             /\ \A i \in 1..MaxLen(x, y) : part(y, x)[i] = -part(x, y)[i]
             /\ x = y => \A i \in 1..MaxLen(x, y) : part(x, y)[i] = 0
  <2>1. \A i \in 1..Len(x) : x[i] \in Int
    OBVIOUS
  <2>2. \A i \in 1..Len(y) : y[i] \in Int
    OBVIOUS
  <2>3. Len(x) \in Nat /\ Len(y) \in Nat
    OBVIOUS
  <2>4. MaxLen(x, y) \in Nat /\ MaxLen(x, y) = MaxLen(y, x)
    BY <2>3 DEF MaxLen
  <2>5. ASSUME NEW i \in 1..MaxLen(x, y)
        PROVE  /\ part(x, y)[i] \in -1..1 /\ part(y, x)[i] = -part(x, y)[i]
               /\ x = y => part(x, y)[i] = 0
    <3>1. i \in 1..MaxLen(y, x) /\ (i \in 1..Len(x) \/ i \in 1..Len(y))
      BY <2>3, <2>4 DEF MaxLen
    <3>2. i <= Len(x) => x[i] \in Int
      BY <2>1, <2>3
    <3>3. i <= Len(y) => y[i] \in Int
      BY <2>2, <2>3
    <3>4. CASE i > Len(x)
      <4>1. i <= Len(y) /\ x # y
        BY <2>3, <3>1, <3>4
      <4>2. part(x, y)[i] = -1
        BY <3>4
      <4>3. part(y, x)[i] = 1
        BY <3>1, <3>4, <4>1, <2>3
      <4>4. part(x, y)[i] \in -1..1 /\ part(y, x)[i] = -part(x, y)[i]
        <5>1. \A p, q \in {-1, 1} : p = -q => p \in -1..1 /\ q = -p
          OBVIOUS
        <5>2. part(x, y)[i] \in {-1, 1} /\ part(y, x)[i] \in {-1, 1}
          <6> HIDE DEF part
          <6> QED
            BY <4>2, <4>3
        <5>3. part(x, y)[i] = -part(y, x)[i]
          <6> HIDE DEF part
          <6> QED
            BY <4>2, <4>3
        <5> HIDE DEF part
        <5> QED
          BY <5>1, <5>2, <5>3
      <4> QED
        BY <4>1, <4>4
    <3>5. CASE i > Len(y)
      <4>1. i <= Len(x) /\ x # y
        BY <2>3, <3>1, <3>5
      <4>2. part(x, y)[i] = 1
        BY <3>5, <4>1, <2>3
      <4>3. part(y, x)[i] = -1
        BY <3>1, <3>5
      <4>4. part(x, y)[i] \in -1..1 /\ part(y, x)[i] = -part(x, y)[i]
        <5>1. \A p, q \in {-1, 1} : q = -p => p \in -1..1 /\ q = -p
          OBVIOUS
        <5>2. part(x, y)[i] \in {-1, 1} /\ part(y, x)[i] \in {-1, 1}
          <6> HIDE DEF part
          <6> QED
            BY <4>2, <4>3
        <5>3. part(y, x)[i] = -part(x, y)[i]
          <6> HIDE DEF part
          <6> QED
            BY <4>2, <4>3
        <5> HIDE DEF part
        <5> QED
          BY <5>1, <5>2, <5>3
      <4> QED
        BY <4>1, <4>4
    <3>6. CASE i <= Len(x) /\ i <= Len(y)
      <4>1. part(x, y)[i] = Sign(x[i] - y[i]) /\ part(y, x)[i] = Sign(y[i] - x[i])
        BY <2>3, <2>4, <3>1, <3>6
      <4>2. x[i] \in Int /\ y[i] \in Int
        BY <3>2, <3>3, <3>6
      <4>3. /\ Sign(x[i] - y[i]) \in -1..1 /\ Sign(y[i] - x[i]) = -Sign(x[i] - y[i])
        BY <4>2, SignOrders
      <4>4. x = y => Sign(x[i] - y[i]) = 0
        BY <4>2 DEF Sign
      <4> HIDE DEF part
      <4> QED
        BY <4>1, <4>3, <4>4
    <3> QED
      BY <2>3, <3>1, <3>4, <3>5, <3>6
  <2>6. part(x, y) \in [1..MaxLen(x, y) -> -1..1]
    <3>1. part(x, y) = [i \in 1..MaxLen(x, y) |-> part(x, y)[i]]
      OBVIOUS
    <3> HIDE DEF part
    <3> QED
      BY <2>5, <3>1
  <2> QED
    BY <2>4, <2>5, <2>6 DEF Lexical
<1>2. ASSUME NEW c \in Seq(Int) PROVE Ordered(Lexical(a, b), Lexical(b, c), Lexical(a, c))
  <2>1. ASSUME NEW i \in Nat
        PROVE  Ordered(ResultAt(part(a, b), i), ResultAt(part(b, c), i), ResultAt(part(a, c), i))
    <3> DEFINE cell(x, y) == IF i = 0 \/ (i > Len(x) /\ i > Len(y)) THEN 0
                             ELSE IF i > Len(x) THEN -1 ELSE IF i > Len(y) THEN 1 ELSE Sign(x[i] - y[i])
    <3>1. ASSUME NEW x \in Seq(Int), NEW y \in Seq(Int) PROVE ResultAt(part(x, y), i) = cell(x, y)
      <4>1. Len(x) \in Nat /\ Len(y) \in Nat
        OBVIOUS
      <4> QED
        BY <4>1 DEF ResultAt, MaxLen
    <3>2. Len(a) \in Nat /\ Len(b) \in Nat /\ Len(c) \in Nat
      OBVIOUS
    <3>3. /\ i # 0 /\ i <= Len(a) => a[i] \in Int
          /\ i # 0 /\ i <= Len(b) => b[i] \in Int
          /\ i # 0 /\ i <= Len(c) => c[i] \in Int
      OBVIOUS
    <3>4. Ordered(cell(a, b), cell(b, c), cell(a, c))
      <4>1. CASE i = 0
        BY <4>1 DEF Ordered
      <4>2. CASE i # 0 /\ i <= Len(a) /\ i <= Len(b) /\ i <= Len(c)
        <5>1. /\ cell(a, b) = Sign(a[i] - b[i]) /\ cell(b, c) = Sign(b[i] - c[i])
              /\ cell(a, c) = Sign(a[i] - c[i])
          BY <3>2, <4>2
        <5> HIDE DEF cell
        <5> QED
          BY <3>3, <4>2, <5>1, SignOrders
      <4>3. CASE i # 0 /\ (i > Len(a) \/ i > Len(b) \/ i > Len(c))
        <5>1. cell(a, b) \in -1..1 /\ cell(b, c) \in -1..1
          BY <3>2, <3>3, <4>3 DEF Sign
        <5>2. /\ i > Len(a) => cell(a, b) = (IF i > Len(b) THEN 0 ELSE -1)
              /\ i > Len(a) => cell(a, c) = (IF i > Len(c) THEN 0 ELSE -1)
              /\ i <= Len(a) /\ i > Len(b) => cell(a, b) = 1
              /\ i <= Len(a) /\ i > Len(c) => cell(a, c) = 1
              /\ i > Len(b) => cell(b, c) = (IF i > Len(c) THEN 0 ELSE -1)
              /\ i <= Len(b) /\ i > Len(c) => cell(b, c) = 1
          BY <3>2, <4>3
        <5> HIDE DEF cell
        <5> QED
          BY <3>2, <4>3, <5>1, <5>2 DEF Ordered
      <4> QED
        BY <3>2, <4>1, <4>2, <4>3
    <3> HIDE DEF cell, part
    <3> QED
      BY <3>1, <3>4
  <2>2. /\ MaxLen(a, b) \in Nat /\ part(a, b) \in [1..MaxLen(a, b) -> -1..1]
        /\ MaxLen(b, c) \in Nat /\ part(b, c) \in [1..MaxLen(b, c) -> -1..1]
        /\ MaxLen(a, c) \in Nat /\ part(a, c) \in [1..MaxLen(a, c) -> -1..1]
        /\ Lexical(a, b) = FirstOf(part(a, b)) /\ Lexical(b, c) = FirstOf(part(b, c))
        /\ Lexical(a, c) = FirstOf(part(a, c))
    BY <1>1
  <2> HIDE DEF part
  <2>3. Ordered(FirstOf(part(a, b)), FirstOf(part(b, c)), FirstOf(part(a, c)))
    BY <2>1, <2>2, FirstOfOrdered
  <2> QED
    BY <2>2, <2>3
<1>3. Lexical(a, b) \in -1..1 /\ Lexical(b, a) = -Lexical(a, b)
  <2>1. /\ MaxLen(a, b) \in Nat /\ part(a, b) \in [1..MaxLen(a, b) -> -1..1]
        /\ part(b, a) \in [1..MaxLen(a, b) -> -1..1]
        /\ \A i \in 1..MaxLen(a, b) : part(b, a)[i] = -part(a, b)[i]
        /\ Lexical(a, b) = FirstOf(part(a, b)) /\ Lexical(b, a) = FirstOf(part(b, a))
    <3> HIDE DEF part
    <3> QED
      BY <1>1
  <2> HIDE DEF part
  <2> QED
    BY <2>1, FirstDifference, FirstOfMirrored
<1>4. a = b => Lexical(a, b) = 0
  <2> HIDE DEF part
  <2> QED
    BY <1>1, FirstDifference
<1> QED
  BY <1>2, <1>3, <1>4

-------------------------------------------------------------------------------
(* VersionOrder: what is read of a string *)

LEMMA BytesAreNumbers ==
    /\ \A c \in Character : Byte(c) \in Int
    /\ \A s \in Seq(Character) : Bytes(s) \in Seq(Int)
<1>1. ASSUME NEW c \in Character PROVE Byte(c) \in Int
  BY DEF Character, AlphaNum, Digits, Byte, Digit, Letter, Mark
<1>2. ASSUME NEW s \in Seq(Character) PROVE Bytes(s) \in Seq(Int)
  <2>1. DOMAIN s = 1..Len(s) /\ Len(s) \in Nat /\ \A i \in 1..Len(s) : s[i] \in Character
    OBVIOUS
  <2>2. Bytes(s) = [i \in 1..Len(s) |-> Byte(s[i])]
    BY <2>1 DEF Bytes
  <2>3. \A i \in 1..Len(s) : Byte(s[i]) \in Int
    BY <1>1, <2>1
  <2> QED
    BY <2>1, <2>2, <2>3
<1> QED
  BY <1>1, <1>2

\* The prefix Run chooses exists.
LEMMA RunAndAfter ==
    ASSUME NEW T, NEW s \in Seq(T), NEW C
    PROVE  /\ Run(s, C) \in Seq(T) /\ Len(Run(s, C)) \in 0..Len(s)
           /\ \A i \in 1..Len(Run(s, C)) : Run(s, C)[i] = s[i] /\ s[i] \in C
           /\ After(s, C) \in Seq(T) /\ Len(After(s, C)) = Len(s) - Len(Run(s, C))
           /\ s # <<>> /\ s[1] \in C => Len(Run(s, C)) > 0
           /\ After(s, C) # <<>> => After(s, C)[1] \notin C
<1> DEFINE Ends(n) == /\ \A i \in 1..n : s[i] \in C
                      /\ n < Len(s) => s[n + 1] \notin C
           out == {n \in 0..Len(s) : n < Len(s) => s[n + 1] \notin C}
           k == CHOOSE n \in 0..Len(s) : Ends(n)
<1>1. Len(s) \in Nat
  OBVIOUS
<1>2. \E n \in 0..Len(s) : Ends(n)
  <2>1. Len(s) \in out /\ out \in SUBSET Nat
    BY <1>1
  <2>2. PICK n \in out : \A x \in out : n <= x
    <3> HIDE DEF out
    <3> QED
      BY <2>1, LeastNatural
  <2>3. ASSUME NEW i \in 1..n PROVE s[i] \in C
    <3>1. n \in 0..Len(s) /\ i - 1 \in 0..Len(s) /\ i - 1 + 1 = i /\ ~(n <= i - 1)
      BY <1>1, <2>2
    <3>2. i - 1 \notin out
      <4> HIDE DEF out
      <4> QED
        BY <2>2, <3>1
    <3> QED
      BY <3>1, <3>2
  <2> QED
    BY <2>2, <2>3
<1>3. k \in 0..Len(s) /\ Ends(k)
  <2> HIDE DEF Ends
  <2> QED
    BY <1>2
<1>4. Run(s, C) = SubSeq(s, 1, k)
  BY DEF Run
<1> HIDE DEF k
<1>5. /\ Run(s, C) \in Seq(T) /\ Len(Run(s, C)) = k
      /\ \A i \in 1..k : Run(s, C)[i] = s[i]
  BY <1>1, <1>3, <1>4, SubSeqProperties
<1>6. After(s, C) = SubSeq(s, k + 1, Len(s))
  BY <1>5 DEF After
<1>7. /\ After(s, C) \in Seq(T) /\ Len(After(s, C)) = Len(s) - k
      /\ k < Len(s) => After(s, C)[1] = s[k + 1]
  BY <1>1, <1>3, <1>6, SubSeqProperties
<1>8. After(s, C) # <<>> => k < Len(s)
  BY <1>1, <1>3, <1>7
<1>9. s # <<>> /\ s[1] \in C => k > 0
  BY <1>1, <1>3
<1> QED
  BY <1>3, <1>5, <1>7, <1>8, <1>9

LEMMA RestIsShorter ==
    ASSUME NEW T, NEW s \in Seq(T)
    PROVE  /\ Rest(s) \in Seq(T) /\ Len(Rest(s)) = (IF s = <<>> THEN 0 ELSE Len(s) - 1)
           /\ At(s) \in T \union {""}
           /\ At(s) # "" => s # <<>>
<1>1. CASE s = <<>>
  BY <1>1 DEF Rest, At
<1>2. CASE s # <<>>
  <2>1. Len(s) \in Nat \ {0} /\ s[1] \in T
    BY <1>2
  <2>2. Tail(s) \in Seq(T) /\ Len(Tail(s)) = Len(s) - 1
    BY <1>2, HeadTailProperties
  <2> QED
    BY <1>2, <2>1, <2>2 DEF Rest, At
<1> QED
  BY <1>1, <1>2

LEMMA LongerOrders ==
    ASSUME NEW s \in Seq(Character), NEW t \in Seq(Character)
    PROVE  /\ Longer(s, t) \in -1..1 /\ Longer(t, s) = -Longer(s, t)
           /\ s = t => Longer(s, t) = 0
           /\ \A u \in Seq(Character) : Ordered(Longer(s, t), Longer(t, u), Longer(s, u))
<1>1. ASSUME NEW u \in Seq(Character)
      PROVE  Ordered(Longer(s, t), Longer(t, u), Longer(s, u))
  <2>1. Ordered(Sign(Len(s) - Len(t)), Sign(Len(t) - Len(u)), Sign(Len(s) - Len(u)))
    <3>1. Len(s) \in Int /\ Len(t) \in Int /\ Len(u) \in Int
      OBVIOUS
    <3> QED
      BY <3>1, SignOrders
  <2>2. Ordered(Lexical(Bytes(s), Bytes(t)), Lexical(Bytes(t), Bytes(u)), Lexical(Bytes(s), Bytes(u)))
    BY BytesAreNumbers, LexicalOrders
  <2>3. ASSUME NEW x \in Seq(Character), NEW y \in Seq(Character)
        PROVE  Sign(Len(x) - Len(y)) \in -1..1 /\ Lexical(Bytes(x), Bytes(y)) \in -1..1
    <3>1. Len(x) \in Int /\ Len(y) \in Int
      OBVIOUS
    <3> QED
      BY <3>1, BytesAreNumbers, LexicalOrders, SignOrders
  <2> QED
    BY <2>1, <2>2, <2>3, TwoParts DEF Longer
<1>2. /\ Sign(Len(s) - Len(t)) \in -1..1 /\ Sign(Len(t) - Len(s)) = -Sign(Len(s) - Len(t))
      /\ Lexical(Bytes(s), Bytes(t)) \in -1..1
      /\ Lexical(Bytes(t), Bytes(s)) = -Lexical(Bytes(s), Bytes(t))
      /\ s = t => Sign(Len(s) - Len(t)) = 0 /\ Lexical(Bytes(s), Bytes(t)) = 0
  <2>1. Len(s) \in Int /\ Len(t) \in Int
    OBVIOUS
  <2>2. s = t => Sign(Len(s) - Len(t)) = 0
    BY <2>1 DEF Sign
  <2> QED
    BY <2>1, <2>2, SignOrders, BytesAreNumbers, LexicalOrders
<1>3. Longer(s, t) \in -1..1 /\ Longer(t, s) = -Longer(s, t)
  BY <1>2, TwoParts DEF Longer
<1>4. s = t => Longer(s, t) = 0
  <2>1. ASSUME s = t PROVE Longer(s, t) = 0
    <3>1. Longer(s, t) = -Longer(s, t) /\ Longer(s, t) \in -1..1
      BY <1>3, <2>1
    <3> QED
      BY <3>1
  <2> QED
    BY <2>1
<1> QED
  BY <1>1, <1>3, <1>4

-------------------------------------------------------------------------------
(* VersionOrder: what a loop has not read after n turns *)

TurnsOf(g, S, next, s) == g \in [Nat -> S] /\ g[0] = s /\ \A n \in Nat : g[n + 1] = next[g[n]]

LEMMA TurnsExist ==
    ASSUME NEW S, NEW next \in [S -> S], NEW s \in S
    PROVE  \E g : TurnsOf(g, S, next, s)
<1> DEFINE Done(g, n) == g[0] = s /\ \A i \in Nat : i < n => g[i + 1] = next[g[i]]
           Reached == {n \in Nat : \E g \in [Nat -> S] : Done(g, n)}
<1>1. 0 \in Reached
  <2>1. [i \in Nat |-> s] \in [Nat -> S] /\ Done([i \in Nat |-> s], 0)
    OBVIOUS
  <2> QED
    BY <2>1
<1>2. ASSUME NEW n \in Nat, n \in Reached PROVE n + 1 \in Reached
  <2>1. PICK g \in [Nat -> S] : Done(g, n)
    BY <1>2
  <2> DEFINE h == [i \in Nat |-> IF i = n + 1 THEN next[g[n]] ELSE g[i]]
  <2>2. g[n] \in S /\ h \in [Nat -> S]
    OBVIOUS
  <2>3. h[0] = s
    BY <2>1
  <2>4. ASSUME NEW i \in Nat, i < n + 1 PROVE h[i + 1] = next[h[i]]
    <3>1. CASE i = n
      BY <3>1
    <3>2. CASE i < n
      BY <2>1, <3>2
    <3> QED
      BY <2>4, <3>1, <3>2
  <2>5. Done(h, n + 1)
    BY <2>3, <2>4
  <2> HIDE DEF h, Done
  <2> QED
    BY <2>2, <2>5
<1>3. Nat \subseteq Reached
  <2> HIDE DEF Reached
  <2> QED
    BY <1>1, <1>2, NaturalsByInduction
<1> DEFINE at(n) == CHOOSE g \in [Nat -> S] : Done(g, n)
           f == [n \in Nat |-> at(n)[n]]
<1>4. ASSUME NEW n \in Nat PROVE at(n) \in [Nat -> S] /\ Done(at(n), n)
  <2>1. \E g \in [Nat -> S] : Done(g, n)
    BY <1>3
  <2> HIDE DEF Done
  <2> QED
    BY <2>1
\* Two that have done n turns agree on them.
<1>5. ASSUME NEW n \in Nat, NEW g \in [Nat -> S], NEW h \in [Nat -> S], Done(g, n), Done(h, n)
      PROVE  g[n] = h[n]
  <2> DEFINE Agree == {i \in Nat : i <= n => g[i] = h[i]}
  <2>1. 0 \in Agree
    BY <1>5
  <2>2. ASSUME NEW i \in Nat, i \in Agree PROVE i + 1 \in Agree
    BY <1>5, <2>2
  <2>3. Nat \subseteq Agree
    <3> HIDE DEF Agree
    <3> QED
      BY <2>1, <2>2, NaturalsByInduction
  <2> QED
    BY <2>3
<1>6. f \in [Nat -> S]
  <2>1. \A n \in Nat : at(n)[n] \in S
    <3> HIDE DEF at, Done
    <3> QED
      BY <1>4
  <2> HIDE DEF at
  <2> QED
    BY <2>1
<1>7. f[0] = s
  <2> HIDE DEF at
  <2> QED
    BY <1>4
<1>8. ASSUME NEW n \in Nat PROVE f[n + 1] = next[f[n]]
  <2> DEFINE g == at(n + 1)
  <2>1. n + 1 \in Nat /\ g \in [Nat -> S] /\ Done(g, n + 1)
    <3> HIDE DEF at, Done
    <3> QED
      BY <1>4
  <2>2. Done(g, n) /\ g[n + 1] = next[g[n]]
    <3> HIDE DEF g
    <3> QED
      BY <2>1
  <2>3. g[n] = at(n)[n]
    <3> HIDE DEF at, g, Done
    <3> QED
      BY <1>4, <1>5, <2>1, <2>2
  <2>4. f[n + 1] = g[n + 1] /\ f[n] = at(n)[n]
    <3> HIDE DEF at
    <3> QED
      BY <2>1
  <2> HIDE DEF f, g, at
  <2> QED
    BY <2>2, <2>3, <2>4
<1>9. TurnsOf(f, S, next, s)
  <2> HIDE DEF f
  <2> QED
    BY <1>6, <1>7, <1>8 DEF TurnsOf
<1> QED
  BY <1>9

LEMMA RpmRestIsShorter ==
    ASSUME NEW s \in Seq(Character)
    PROVE  /\ Stripped(s) \in Seq(Character) /\ Segment(Stripped(s)) \in Seq(Character)
           /\ RpmRest(s) \in Seq(Character)
           /\ Len(RpmRest(s)) <= (IF s = <<>> THEN 0 ELSE Len(s) - 1)
<1> DEFINE u == Stripped(s)
<1>1. u \in Seq(Character) /\ Len(u) \in 0..Len(s)
  BY RunAndAfter DEF Stripped
<1> HIDE DEF u
<1>2. /\ Segment(u) \in Seq(Character) /\ After(u, Class(u)) \in Seq(Character)
      /\ Len(After(u, Class(u))) = Len(u) - Len(Run(u, Class(u)))
      /\ Len(Run(u, Class(u))) \in 0..Len(u)
      /\ u # <<>> /\ u[1] \in Class(u) => Len(Run(u, Class(u))) > 0
  BY <1>1, RunAndAfter DEF Segment
<1>3. u # <<>> => u[1] \in Character /\ u[1] \in Class(u)
  <2>1. u # <<>> => At(u) = u[1] /\ u[1] \in Character
    BY <1>1 DEF At
  <2> QED
    BY <2>1 DEF Class
<1>4. s = <<>> => Len(s) = 0
  OBVIOUS
<1>5. s # <<>> => Len(s) \in Nat \ {0}
  OBVIOUS
<1>6. u # <<>> => Len(u) \in Nat \ {0}
  BY <1>1
<1>7. u = <<>> => Len(u) = 0
  BY <1>1
<1>8. CASE At(s) = "~"
  <2>1. RpmRest(s) = Rest(s)
    BY <1>8 DEF RpmRest
  <2>2. s # <<>> /\ Rest(s) \in Seq(Character) /\ Len(Rest(s)) = Len(s) - 1
    BY <1>8, RestIsShorter
  <2> QED
    BY <1>1, <1>2, <1>5, <2>1, <2>2 DEF u
<1>9. CASE At(s) # "~"
  <2>1. RpmRest(s) = After(u, Class(u))
    BY <1>9 DEF RpmRest, u
  <2>2. Len(RpmRest(s)) <= (IF s = <<>> THEN 0 ELSE Len(s) - 1)
    BY <1>1, <1>2, <1>3, <1>4, <1>5, <1>6, <1>7, <2>1
  <2> QED
    BY <1>1, <1>2, <2>1, <2>2 DEF u
<1> QED
  BY <1>8, <1>9

LEMMA RpmUnreadIs ==
    ASSUME NEW s \in Seq(Character)
    PROVE  /\ RpmUnread(s) \in [Nat -> Seq(Character)]
           /\ \A n \in Nat : n >= Len(s) => RpmUnread(s)[n] = <<>>
<1> DEFINE S == Seq(Character)
           Turns(g) == g = [n \in Nat |-> IF n = 0 THEN s ELSE RpmRest(g[n - 1])]
           g == RpmUnread(s)
<1>1. g = CHOOSE h : Turns(h)
  BY DEF RpmUnread
<1>2. \E h : Turns(h)
  <2> DEFINE next == [u \in S |-> RpmRest(u)]
  <2>1. next \in [S -> S] /\ s \in S
    BY RpmRestIsShorter
  <2>2. PICK h : TurnsOf(h, S, next, s)
    <3> HIDE DEF next, S
    <3> QED
      BY <2>1, TurnsExist
  <2>3. ASSUME NEW n \in Nat PROVE h[n] = IF n = 0 THEN s ELSE RpmRest(h[n - 1])
    <3>1. CASE n = 0
      BY <2>2, <3>1 DEF TurnsOf
    <3>2. CASE n # 0
      <4>1. n - 1 \in Nat /\ n - 1 + 1 = n
        BY <3>2
      <4>2. h[n] = next[h[n - 1]] /\ h[n - 1] \in S
        <5> HIDE DEF next, S
        <5> QED
          BY <2>2, <4>1 DEF TurnsOf
      <4> QED
        BY <3>2, <4>2
    <3> QED
      BY <3>1, <3>2
  <2>4. Turns(h)
    <3>1. h \in [Nat -> S]
      BY <2>2 DEF TurnsOf
    <3> HIDE DEF next, S
    <3> QED
      BY <2>3, <3>1
  <2> QED
    BY <2>4
<1>3. Turns(g)
  <2> HIDE DEF Turns, g
  <2> QED
    BY <1>1, <1>2
<1>4. g[0] = s /\ \A n \in Nat : g[n + 1] = RpmRest(g[n])
  <2> HIDE DEF g
  <2>1. g[0] = s
    BY <1>3
  <2>2. ASSUME NEW n \in Nat PROVE g[n + 1] = RpmRest(g[n])
    <3>1. n + 1 \in Nat /\ n + 1 # 0 /\ n + 1 - 1 = n
      OBVIOUS
    <3>2. g[n + 1] = IF n + 1 = 0 THEN s ELSE RpmRest(g[n + 1 - 1])
      BY <1>3, <3>1
    <3> QED
      BY <3>1, <3>2
  <2> QED
    BY <2>1, <2>2
<1> DEFINE left(n) == IF n >= Len(s) THEN 0 ELSE Len(s) - n
           Typed == {n \in Nat : g[n] \in S /\ Len(g[n]) <= left(n)}
<1>5. Len(s) \in Nat
  OBVIOUS
<1>6. 0 \in Typed
  <2>1. g[0] = s
    BY <1>4
  <2> HIDE DEF g
  <2> QED
    BY <1>5, <2>1
<1>7. ASSUME NEW n \in Nat, n \in Typed PROVE n + 1 \in Typed
  <2> HIDE DEF g
  <2>1. g[n] \in S /\ Len(g[n]) \in Nat /\ Len(g[n]) <= left(n)
    BY <1>7
  <2>2. g[n + 1] \in S /\ Len(g[n + 1]) <= (IF g[n] = <<>> THEN 0 ELSE Len(g[n]) - 1)
    BY <1>4, <2>1, RpmRestIsShorter
  <2>3. g[n] # <<>> => Len(g[n]) # 0
    BY <2>1
  <2>4. left(n) \in Nat /\ left(n + 1) \in Nat /\ (left(n) = 0 \/ left(n + 1) = left(n) - 1)
        /\ (left(n) = 0 => left(n + 1) = 0)
    BY <1>5
  <2>5. Len(g[n + 1]) \in Nat
    BY <2>2
  <2> HIDE DEF left
  <2>6. Len(g[n + 1]) <= left(n + 1)
    BY <2>1, <2>2, <2>3, <2>4, <2>5
  <2> QED
    BY <2>2, <2>6
<1>8. Nat \subseteq Typed
  <2> HIDE DEF Typed
  <2> QED
    BY <1>6, <1>7, NaturalsByInduction
<1>9. g \in [Nat -> S]
  <2>1. g = [n \in Nat |-> g[n]]
    <3> HIDE DEF g
    <3> QED
      BY <1>3
  <2> HIDE DEF g
  <2> QED
    BY <1>8, <2>1
<1>10. ASSUME NEW n \in Nat, n >= Len(s) PROVE g[n] = <<>>
  <2> HIDE DEF g
  <2>1. g[n] \in S /\ Len(g[n]) <= 0
    BY <1>5, <1>8, <1>10
  <2> QED
    BY <2>1
<1> QED
  BY <1>9, <1>10

-------------------------------------------------------------------------------
(* VersionOrder: RPM *)

\* A segment of digits is greater than one that begins with a letter, and that
\* than the end.
LEMMA SegmentsOrder ==
    ASSUME NEW s \in Seq(Character), NEW t \in Seq(Character)
    PROVE  /\ Segments(s, t) \in -1..1 /\ Segments(t, s) = -Segments(s, t)
           /\ s = t => Segments(s, t) = 0
           /\ \A u \in Seq(Character) : Ordered(Segments(s, t), Segments(t, u), Segments(s, u))
<1>1. ASSUME NEW x \in Seq(Character), NEW y \in Seq(Character)
      PROVE  /\ Lexical(Bytes(x), Bytes(y)) \in -1..1
             /\ Lexical(Bytes(y), Bytes(x)) = -Lexical(Bytes(x), Bytes(y))
             /\ x = y => Lexical(Bytes(x), Bytes(y)) = 0
             /\ \A u \in Seq(Character) : Ordered(Lexical(Bytes(x), Bytes(y)), Lexical(Bytes(y), Bytes(u)),
                                                  Lexical(Bytes(x), Bytes(u)))
  BY BytesAreNumbers, LexicalOrders
<1> DEFINE digit(x) == At(x) \in Digits
           between(x, y) == IF digit(x) THEN (IF digit(y) THEN Longer(x, y) ELSE 1)
                            ELSE IF digit(y) THEN -1 ELSE Lexical(Bytes(x), Bytes(y))
<1>2. \A x, y : Segments(x, y) = between(x, y)
  BY DEF Segments
<1>3. Segments(s, t) \in -1..1 /\ Segments(t, s) = -Segments(s, t) /\ (s = t => Segments(s, t) = 0)
  BY <1>1, <1>2, LongerOrders
<1>4. ASSUME NEW u \in Seq(Character)
      PROVE  Ordered(between(s, t), between(t, u), between(s, u))
  <2>1. Ordered(Longer(s, t), Longer(t, u), Longer(s, u))
    BY LongerOrders
  <2>2. Ordered(Lexical(Bytes(s), Bytes(t)), Lexical(Bytes(t), Bytes(u)), Lexical(Bytes(s), Bytes(u)))
    BY <1>1
  <2>3. /\ Longer(s, t) \in -1..1 /\ Longer(t, u) \in -1..1 /\ Longer(s, u) \in -1..1
        /\ Lexical(Bytes(s), Bytes(t)) \in -1..1 /\ Lexical(Bytes(t), Bytes(u)) \in -1..1
        /\ Lexical(Bytes(s), Bytes(u)) \in -1..1
    BY <1>1, LongerOrders
  <2> HIDE DEF digit
  <2> QED
    BY <2>1, <2>2, <2>3 DEF Ordered
<1> HIDE DEF between
<1> QED
  BY <1>2, <1>3, <1>4

\* The four kinds of what can follow: a tilde, the end, letters, digits.
LEMMA RpmTurnOrders ==
    ASSUME NEW s \in Seq(Character), NEW t \in Seq(Character)
    PROVE  /\ RpmTurn(s, t) \in -1..1 /\ RpmTurn(t, s) = -RpmTurn(s, t)
           /\ s = t => RpmTurn(s, t) = 0
           /\ \A u \in Seq(Character) : Ordered(RpmTurn(s, t), RpmTurn(t, u), RpmTurn(s, u))
<1> DEFINE seg(x) == Segment(Stripped(x))
           tilde(x) == At(x) = "~"
           done(x) == Stripped(x) = <<>>
           turn(x, y) == IF tilde(x) THEN (IF tilde(y) THEN 0 ELSE -1) ELSE IF tilde(y) THEN 1
                         ELSE IF done(x) THEN (IF done(y) THEN 0 ELSE -1) ELSE IF done(y) THEN 1
                         ELSE Segments(seg(x), seg(y))
<1>1. ASSUME NEW x \in Seq(Character), NEW y \in Seq(Character) PROVE RpmTurn(x, y) = turn(x, y)
  <2>1. Stripped(x) \in Seq(Character) /\ Stripped(y) \in Seq(Character)
    BY RpmRestIsShorter
  <2>2. CASE tilde(x) \/ tilde(y)
    BY <2>2 DEF RpmTurn, TildeOrder
  <2>3. CASE ~tilde(x) /\ ~tilde(y) /\ (done(x) \/ done(y))
    <3>1. /\ done(x) => Len(Stripped(x)) = 0
          /\ done(y) => Len(Stripped(y)) = 0
          /\ ~done(x) => Len(Stripped(x)) \in Nat \ {0}
          /\ ~done(y) => Len(Stripped(y)) \in Nat \ {0}
      BY <2>1
    <3>2. RpmTurn(x, y) = Sign(Len(Stripped(x)) - Len(Stripped(y)))
      BY <2>3 DEF RpmTurn
    <3>3. Sign(Len(Stripped(x)) - Len(Stripped(y))) = turn(x, y)
      BY <2>3, <3>1 DEF Sign
    <3> QED
      BY <3>2, <3>3
  <2>4. CASE ~tilde(x) /\ ~tilde(y) /\ ~done(x) /\ ~done(y)
    BY <2>4 DEF RpmTurn
  <2> QED
    BY <2>2, <2>3, <2>4
<1>2. ASSUME NEW x \in Seq(Character), NEW y \in Seq(Character)
      PROVE  /\ Segments(seg(x), seg(y)) \in -1..1
             /\ Segments(seg(y), seg(x)) = -Segments(seg(x), seg(y))
             /\ x = y => Segments(seg(x), seg(y)) = 0
             /\ \A u \in Seq(Character) : Ordered(Segments(seg(x), seg(y)), Segments(seg(y), seg(u)),
                                                  Segments(seg(x), seg(u)))
  BY RpmRestIsShorter, SegmentsOrder
<1> HIDE DEF seg, tilde, done
<1>3. turn(s, t) \in -1..1 /\ turn(t, s) = -turn(s, t) /\ (s = t => turn(s, t) = 0)
  BY <1>2
<1>4. ASSUME NEW u \in Seq(Character) PROVE Ordered(turn(s, t), turn(t, u), turn(s, u))
  <2>1. /\ Segments(seg(s), seg(t)) \in -1..1 /\ Segments(seg(t), seg(u)) \in -1..1
        /\ Segments(seg(s), seg(u)) \in -1..1
        /\ Ordered(Segments(seg(s), seg(t)), Segments(seg(t), seg(u)), Segments(seg(s), seg(u)))
    BY <1>2
  <2> QED
    BY <2>1 DEF Ordered
<1> HIDE DEF turn
<1> QED
  BY <1>1, <1>3, <1>4

LEMMA RpmOrders ==
    ASSUME NEW s \in Seq(Character), NEW t \in Seq(Character)
    PROVE  /\ CompareRPM(s, t) \in -1..1 /\ CompareRPM(t, s) = -CompareRPM(s, t)
           /\ \A u \in Seq(Character) : Ordered(CompareRPM(s, t), CompareRPM(t, u), CompareRPM(s, u))
<1> DEFINE turns(x, y) == [n \in 1..MaxLen(x, y) |-> RpmTurn(RpmUnread(x)[n - 1], RpmUnread(y)[n - 1])]
<1>1. ASSUME NEW x \in Seq(Character), NEW y \in Seq(Character)
      PROVE  /\ MaxLen(x, y) \in Nat /\ MaxLen(x, y) = MaxLen(y, x)
             /\ turns(x, y) \in [1..MaxLen(x, y) -> -1..1]
             /\ \A n \in 1..MaxLen(x, y) : turns(y, x)[n] = -turns(x, y)[n]
             /\ CompareRPM(x, y) = FirstOf(turns(x, y))
  <2>1. Len(x) \in Nat /\ Len(y) \in Nat
    OBVIOUS
  <2>2. MaxLen(x, y) \in Nat /\ MaxLen(x, y) = MaxLen(y, x)
    BY <2>1 DEF MaxLen
  <2>3. ASSUME NEW n \in 1..MaxLen(x, y)
        PROVE  /\ turns(x, y)[n] \in -1..1 /\ turns(y, x)[n] = -turns(x, y)[n]
               /\ x = y => turns(x, y)[n] = 0
    <3>1. n - 1 \in Nat /\ n \in 1..MaxLen(y, x)
      BY <2>2
    <3>2. RpmUnread(x)[n - 1] \in Seq(Character) /\ RpmUnread(y)[n - 1] \in Seq(Character)
      BY <3>1, RpmUnreadIs
    <3> QED
      BY <3>1, <3>2, RpmTurnOrders
  <2>4. turns(x, y) \in [1..MaxLen(x, y) -> -1..1]
    <3>1. turns(x, y) = [n \in 1..MaxLen(x, y) |-> turns(x, y)[n]]
      OBVIOUS
    <3> HIDE DEF turns
    <3> QED
      BY <2>3, <3>1
  <2>5. CASE x # y
    BY <2>2, <2>3, <2>4, <2>5 DEF CompareRPM
  <2>6. CASE x = y
    <3>1. FirstOf(turns(x, y)) = 0
      <4> HIDE DEF turns
      <4> QED
        BY <2>2, <2>3, <2>4, <2>6, FirstDifference
    <3> QED
      BY <2>2, <2>3, <2>4, <2>6, <3>1 DEF CompareRPM
  <2> QED
    BY <2>5, <2>6
<1>2. CompareRPM(s, t) \in -1..1 /\ CompareRPM(t, s) = -CompareRPM(s, t)
  <2>1. /\ MaxLen(s, t) \in Nat /\ turns(s, t) \in [1..MaxLen(s, t) -> -1..1]
        /\ turns(t, s) \in [1..MaxLen(s, t) -> -1..1]
        /\ \A n \in 1..MaxLen(s, t) : turns(t, s)[n] = -turns(s, t)[n]
        /\ CompareRPM(s, t) = FirstOf(turns(s, t)) /\ CompareRPM(t, s) = FirstOf(turns(t, s))
    <3> HIDE DEF turns
    <3> QED
      BY <1>1
  <2> HIDE DEF turns
  <2> QED
    BY <2>1, FirstDifference, FirstOfMirrored
<1>3. ASSUME NEW u \in Seq(Character)
      PROVE  Ordered(CompareRPM(s, t), CompareRPM(t, u), CompareRPM(s, u))
  <2>1. ASSUME NEW n \in Nat
        PROVE  Ordered(ResultAt(turns(s, t), n), ResultAt(turns(t, u), n), ResultAt(turns(s, u), n))
    <3>1. CASE n = 0
      <4>1. \A x, y : n \notin DOMAIN turns(x, y)
        BY <3>1
      <4> HIDE DEF turns
      <4> QED
        BY <4>1 DEF ResultAt, Ordered
    <3>2. CASE n # 0
      <4>1. n - 1 \in Nat
        BY <3>2
      <4>2. ASSUME NEW x \in Seq(Character), NEW y \in Seq(Character)
            PROVE  ResultAt(turns(x, y), n) = RpmTurn(RpmUnread(x)[n - 1], RpmUnread(y)[n - 1])
        <5>1. CASE n \in 1..MaxLen(x, y)
          BY <5>1 DEF ResultAt
        <5>2. CASE n \notin 1..MaxLen(x, y)
          <6>1. n - 1 >= Len(x) /\ n - 1 >= Len(y)
            <7>1. Len(x) \in Nat /\ Len(y) \in Nat
              OBVIOUS
            <7> QED
              BY <3>2, <5>2, <7>1 DEF MaxLen
          <6>2. RpmUnread(x)[n - 1] = <<>> /\ RpmUnread(y)[n - 1] = <<>>
            BY <4>1, <6>1, RpmUnreadIs
          <6>3. RpmTurn(<<>>, <<>>) = 0
            <7>1. <<>> \in Seq(Character)
              OBVIOUS
            <7> QED
              BY <7>1, RpmTurnOrders
          <6> QED
            BY <5>2, <6>2, <6>3 DEF ResultAt
        <5> QED
          BY <5>1, <5>2
      <4>3. /\ RpmUnread(s)[n - 1] \in Seq(Character) /\ RpmUnread(t)[n - 1] \in Seq(Character)
            /\ RpmUnread(u)[n - 1] \in Seq(Character)
        BY <4>1, RpmUnreadIs
      <4> HIDE DEF turns
      <4> QED
        BY <4>2, <4>3, RpmTurnOrders
    <3> QED
      BY <3>1, <3>2
  <2>2. /\ MaxLen(s, t) \in Nat /\ turns(s, t) \in [1..MaxLen(s, t) -> -1..1]
        /\ MaxLen(t, u) \in Nat /\ turns(t, u) \in [1..MaxLen(t, u) -> -1..1]
        /\ MaxLen(s, u) \in Nat /\ turns(s, u) \in [1..MaxLen(s, u) -> -1..1]
        /\ CompareRPM(s, t) = FirstOf(turns(s, t)) /\ CompareRPM(t, u) = FirstOf(turns(t, u))
        /\ CompareRPM(s, u) = FirstOf(turns(s, u))
    <3> HIDE DEF turns
    <3> QED
      BY <1>1
  <2> HIDE DEF turns
  <2>3. Ordered(FirstOf(turns(s, t)), FirstOf(turns(t, u)), FirstOf(turns(s, u)))
    BY <2>1, <2>2, FirstOfOrdered
  <2> QED
    BY <2>2, <2>3
<1> QED
  BY <1>2, <1>3

-------------------------------------------------------------------------------
(* VersionOrder: Debian and generic *)

LEMMA DpkgOrderIsNumber == \A x \in Character \union {""} : DpkgOrder(x) \in Int
<1>1. DOMAIN Letter = {"a", "b"}
  BY DEF Letter
<1>2. Digits = {"0", "1", "2"}
  BY DEF Digits, Digit
<1>3. Letter["a"] \in Int /\ Letter["b"] \in Int
  BY DEF Letter
<1>4. Character = {"~", "a", "b", "0", "1", "2", ".", "-"}
  BY <1>1, <1>2 DEF Character, AlphaNum, Mark
<1>5. DpkgOrder("~") = -1
  BY <1>1, <1>2 DEF DpkgOrder
<1>6. DpkgOrder("") = 0
  BY <1>1, <1>2 DEF DpkgOrder
<1>7. \A x \in {"a", "b"} : DpkgOrder(x) \in Int
  BY <1>1, <1>2, <1>3 DEF DpkgOrder
<1>8. \A x \in {"0", "1", "2", ".", "-"} : DpkgOrder(x) = 256 + Byte(x)
  BY <1>1, <1>2 DEF DpkgOrder
<1>9. \A x \in Character : Byte(x) \in Int
  BY BytesAreNumbers
<1>10. \A x \in {"0", "1", "2", ".", "-"} : DpkgOrder(x) \in Int
  BY <1>4, <1>8, <1>9
<1>11. DpkgOrder("~") \in Int
  <2>1. -1 \in Int
    OBVIOUS
  <2> QED
    BY <1>5, <2>1
<1>12. DpkgOrder("") \in Int
  <2>1. 0 \in Int
    OBVIOUS
  <2> QED
    BY <1>6, <2>1
<1> QED
  BY <1>4, <1>7, <1>10, <1>11, <1>12

LEMMA DpkgTurnMirrored ==
    ASSUME NEW s \in Seq(Character), NEW t \in Seq(Character)
    PROVE  /\ DpkgTurn(s, t) \in -1..1 /\ DpkgTurn(t, s) = -DpkgTurn(s, t)
           /\ DpkgRest(s, t) \in Seq(Character)
<1>1. ByCharacter(s, t) <=> ByCharacter(t, s)
  BY DEF ByCharacter
<1>2. CASE ByCharacter(s, t)
  <2>2. DpkgOrder(At(s)) \in Int /\ DpkgOrder(At(t)) \in Int
    BY DpkgOrderIsNumber, RestIsShorter
  <2>3. /\ DpkgTurn(s, t) = Sign(DpkgOrder(At(s)) - DpkgOrder(At(t)))
        /\ DpkgTurn(t, s) = Sign(DpkgOrder(At(t)) - DpkgOrder(At(s)))
        /\ DpkgRest(s, t) = Rest(s)
    BY <1>1, <1>2 DEF DpkgTurn, DpkgRest
  <2>4. /\ Sign(DpkgOrder(At(s)) - DpkgOrder(At(t))) \in -1..1
        /\ Sign(DpkgOrder(At(t)) - DpkgOrder(At(s))) = -Sign(DpkgOrder(At(s)) - DpkgOrder(At(t)))
    BY <2>2, SignOrders
  <2>5. Rest(s) \in Seq(Character)
    BY RestIsShorter
  <2> QED
    BY <2>3, <2>4, <2>5
<1>3. CASE ~ByCharacter(s, t)
  <2>1. /\ After(Run(s, Digits), {"0"}) \in Seq(Character)
        /\ After(Run(t, Digits), {"0"}) \in Seq(Character)
    <3>1. Run(s, Digits) \in Seq(Character) /\ Run(t, Digits) \in Seq(Character)
      BY RunAndAfter
    <3> QED
      BY <3>1, RunAndAfter
  <2>2. /\ DpkgTurn(s, t) = ByValue(Run(s, Digits), Run(t, Digits))
        /\ DpkgTurn(t, s) = ByValue(Run(t, Digits), Run(s, Digits))
        /\ DpkgRest(s, t) = After(s, Digits)
    BY <1>1, <1>3 DEF DpkgTurn, DpkgRest
  <2>3. After(s, Digits) \in Seq(Character)
    BY RunAndAfter
  <2> QED
    BY <2>1, <2>2, <2>3, LongerOrders DEF ByValue
<1> QED
  BY <1>2, <1>3

LEMMA DpkgUnreadIs ==
    ASSUME NEW s \in Seq(Character), NEW t \in Seq(Character)
    PROVE  LET g == DpkgUnread(s, t)
           IN /\ g \in [Nat -> Seq(Character) \X Seq(Character)]
              /\ g[0] = <<s, t>>
              /\ \A n \in Nat : g[n + 1] = <<DpkgRest(g[n][1], g[n][2]), DpkgRest(g[n][2], g[n][1])>>
<1> DEFINE S == Seq(Character) \X Seq(Character)
           step(both) == <<DpkgRest(both[1], both[2]), DpkgRest(both[2], both[1])>>
           Turns(g) == g = [n \in Nat |-> IF n = 0 THEN <<s, t>> ELSE step(g[n - 1])]
           g == DpkgUnread(s, t)
<1>1. g = CHOOSE h : Turns(h)
  BY DEF DpkgUnread
<1>2. \A both \in S : step(both) \in S
  BY DpkgTurnMirrored
<1> HIDE DEF step
<1>3. \E h : Turns(h)
  <2> DEFINE next == [both \in S |-> step(both)]
             start == <<s, t>>
  <2>1. next \in [S -> S] /\ start \in S
    BY <1>2
  <2>2. PICK h : TurnsOf(h, S, next, start)
    <3> HIDE DEF next, S, start
    <3> QED
      BY <2>1, TurnsExist
  <2>3. ASSUME NEW n \in Nat PROVE h[n] = IF n = 0 THEN start ELSE step(h[n - 1])
    <3>1. CASE n = 0
      <4> HIDE DEF next, S, start
      <4> QED
        BY <2>2, <3>1 DEF TurnsOf
    <3>2. CASE n # 0
      <4>1. n - 1 \in Nat /\ n - 1 + 1 = n
        BY <3>2
      <4>2. h[n] = next[h[n - 1]] /\ h[n - 1] \in S
        <5> HIDE DEF next, S, start
        <5> QED
          BY <2>2, <4>1 DEF TurnsOf
      <4>3. next[h[n - 1]] = step(h[n - 1])
        <5> HIDE DEF S
        <5> QED
          BY <4>2
      <4> QED
        BY <3>2, <4>2, <4>3
    <3> QED
      BY <3>1, <3>2
  <2>4. Turns(h)
    <3>1. h \in [Nat -> S]
      BY <2>2 DEF TurnsOf
    <3> HIDE DEF next, S
    <3> QED
      BY <2>3, <3>1
  <2> QED
    BY <2>4
<1>4. Turns(g)
  <2> HIDE DEF Turns, g
  <2> QED
    BY <1>1, <1>3
<1>5. g[0] = <<s, t>> /\ \A n \in Nat : g[n + 1] = step(g[n])
  <2> DEFINE start == <<s, t>>
  <2>0. g = [n \in Nat |-> IF n = 0 THEN start ELSE step(g[n - 1])]
    <3> HIDE DEF g
    <3> QED
      BY <1>4
  <2> HIDE DEF g, start
  <2>1. g[0] = start
    BY <2>0
  <2>2. ASSUME NEW n \in Nat PROVE g[n + 1] = step(g[n])
    <3>1. n + 1 \in Nat /\ n + 1 # 0 /\ n + 1 - 1 = n
      OBVIOUS
    <3>2. g[n + 1] = IF n + 1 = 0 THEN start ELSE step(g[n + 1 - 1])
      BY <2>0, <3>1
    <3> QED
      BY <3>1, <3>2
  <2> USE DEF start
  <2> QED
    BY <2>1, <2>2
<1> DEFINE Typed == {n \in Nat : g[n] \in S}
<1>6. 0 \in Typed
  <2>1. <<s, t>> \in S
    OBVIOUS
  <2> HIDE DEF g, S
  <2> QED
    BY <1>5, <2>1
<1>7. ASSUME NEW n \in Nat, n \in Typed PROVE n + 1 \in Typed
  <2>1. g[n] \in S
    BY <1>7
  <2> HIDE DEF g
  <2>2. step(g[n]) \in S
    BY <1>2, <2>1
  <2>3. g[n + 1] = step(g[n])
    BY <1>5
  <2> QED
    BY <2>2, <2>3
<1>8. Nat \subseteq Typed
  <2> HIDE DEF Typed
  <2> QED
    BY <1>6, <1>7, NaturalsByInduction
<1>9. g \in [Nat -> S]
  <2>1. g = [n \in Nat |-> g[n]]
    <3> HIDE DEF g
    <3> QED
      BY <1>4
  <2> HIDE DEF g, S
  <2> QED
    BY <1>8, <2>1
<1> QED
  BY <1>5, <1>9 DEF step

\* The loop over t and s is the loop over s and t with the sides swapped.
LEMMA DpkgMirrored ==
    ASSUME NEW s \in Seq(Character), NEW t \in Seq(Character)
    PROVE  DpkgCompare(s, t) \in -1..1 /\ DpkgCompare(t, s) = -DpkgCompare(s, t)
<1> DEFINE g == DpkgUnread(s, t)
           h == DpkgUnread(t, s)
           Swapped == {n \in Nat : h[n] = <<g[n][2], g[n][1]>>}
<1>1. /\ g \in [Nat -> Seq(Character) \X Seq(Character)]
      /\ h \in [Nat -> Seq(Character) \X Seq(Character)]
      /\ g[0] = <<s, t>> /\ h[0] = <<t, s>>
      /\ \A n \in Nat : g[n + 1] = <<DpkgRest(g[n][1], g[n][2]), DpkgRest(g[n][2], g[n][1])>>
      /\ \A n \in Nat : h[n + 1] = <<DpkgRest(h[n][1], h[n][2]), DpkgRest(h[n][2], h[n][1])>>
  BY DpkgUnreadIs
<1> HIDE DEF g, h
<1>2. 0 \in Swapped
  BY <1>1
<1>3. ASSUME NEW n \in Nat, n \in Swapped PROVE n + 1 \in Swapped
  <2>1. h[n][1] = g[n][2] /\ h[n][2] = g[n][1]
    BY <1>3
  <2>2. /\ g[n + 1] = <<DpkgRest(g[n][1], g[n][2]), DpkgRest(g[n][2], g[n][1])>>
        /\ h[n + 1] = <<DpkgRest(g[n][2], g[n][1]), DpkgRest(g[n][1], g[n][2])>>
    BY <1>1, <2>1
  <2>3. h[n + 1] = <<g[n + 1][2], g[n + 1][1]>>
    BY <2>2
  <2> QED
    BY <2>3
<1>4. Nat \subseteq Swapped
  <2> HIDE DEF Swapped
  <2> QED
    BY <1>2, <1>3, NaturalsByInduction
<1> DEFINE turns(both) == [n \in 1..MaxLen(s, t) |-> DpkgTurn(both[n - 1][1], both[n - 1][2])]
<1>5. MaxLen(s, t) \in Nat /\ MaxLen(t, s) = MaxLen(s, t)
  <2>1. Len(s) \in Nat /\ Len(t) \in Nat
    OBVIOUS
  <2> QED
    BY <2>1 DEF MaxLen
<1>6. DpkgCompare(s, t) = FirstOf(turns(g)) /\ DpkgCompare(t, s) = FirstOf(turns(h))
  BY <1>5 DEF DpkgCompare, g, h
<1>7. ASSUME NEW n \in 1..MaxLen(s, t)
      PROVE  /\ turns(g)[n] \in -1..1 /\ turns(h)[n] \in -1..1 /\ turns(h)[n] = -turns(g)[n]
  <2>1. n - 1 \in Nat
    BY <1>5
  <2>2. g[n - 1][1] \in Seq(Character) /\ g[n - 1][2] \in Seq(Character)
    BY <1>1, <2>1
  <2>3. h[n - 1][1] = g[n - 1][2] /\ h[n - 1][2] = g[n - 1][1]
    BY <1>4, <2>1
  <2> QED
    BY <2>2, <2>3, DpkgTurnMirrored
<1>8. turns(g) \in [1..MaxLen(s, t) -> -1..1] /\ turns(h) \in [1..MaxLen(s, t) -> -1..1]
  <2>1. \A f : turns(f) = [n \in 1..MaxLen(s, t) |-> turns(f)[n]]
    OBVIOUS
  <2> HIDE DEF turns
  <2> QED
    BY <1>7, <2>1
<1> HIDE DEF turns
<1> QED
  BY <1>5, <1>6, <1>7, <1>8, FirstDifference, FirstOfMirrored

LEMMA DebianMirrored ==
    ASSUME NEW s \in Seq(Character), NEW t \in Seq(Character)
    PROVE  CompareDebian(s, t) \in -1..1 /\ CompareDebian(t, s) = -CompareDebian(s, t)
<1>1. ASSUME NEW u \in Seq(Character)
      PROVE  Upstream(u) \in Seq(Character) /\ Revision(u) \in Seq(Character)
  <2>1. CASE Hyphens(u) = {}
    BY <2>1 DEF Upstream, Revision
  <2>2. CASE Hyphens(u) # {}
    <3> DEFINE back == {n \in Nat : \E i \in Hyphens(u) : n = Len(u) - i}
    <3>1. Len(u) \in Nat /\ Hyphens(u) \subseteq 1..Len(u)
      BY DEF Hyphens
    <3>2. back \in SUBSET Nat /\ back # {}
      <4>1. \A i \in Hyphens(u) : Len(u) - i \in Nat
        BY <3>1
      <4>2. PICK i \in Hyphens(u) : TRUE
        BY <2>2
      <4> QED
        BY <4>1, <4>2
    <3>3. PICK n \in back : \A x \in back : n <= x
      <4> HIDE DEF back
      <4> QED
        BY <3>2, LeastNatural
    <3>4. PICK m \in Hyphens(u) : n = Len(u) - m
      BY <3>3
    <3>5. \A i \in Hyphens(u) : i <= m
      <4>1. ASSUME NEW i \in Hyphens(u) PROVE i <= m
        <5>1. i \in 1..Len(u) /\ m \in 1..Len(u) /\ Len(u) - i \in back
          BY <3>1
        <5>2. n <= Len(u) - i
          <6> HIDE DEF back
          <6> QED
            BY <3>3, <5>1
        <5> QED
          BY <3>1, <3>4, <5>1, <5>2
      <4> QED
        BY <4>1
    <3>6. Max(Hyphens(u)) \in Hyphens(u)
      BY <3>4, <3>5 DEF Max
    <3>7. Max(Hyphens(u)) \in 1..Len(u)
      BY <3>1, <3>6
    <3> DEFINE top == Max(Hyphens(u))
    <3>8. SubSeq(u, 1, top - 1) \in Seq(Character) /\ SubSeq(u, top + 1, Len(u)) \in Seq(Character)
      <4> HIDE DEF top
      <4>1. \A i \in 1..Len(u) : u[i] \in Character
        OBVIOUS
      <4>2. top \in 1..Len(u)
        BY <3>7 DEF top
      <4>3. /\ \A i \in 1..(top - 1) : u[i] \in Character
            /\ \A i \in (top + 1)..Len(u) : u[i] \in Character
        BY <3>1, <4>1, <4>2
      <4>4. top - 1 \in Int /\ top + 1 \in Int /\ Len(u) \in Int
        BY <3>1, <4>2
      <4>5. SubSeq(u, 1, top - 1) \in Seq(Character)
        BY <4>3, <4>4, SubSeqProperties
      <4> QED
        BY <4>3, <4>4, <4>5, SubSeqProperties
    <3> QED
      BY <2>2, <3>8 DEF Upstream, Revision
  <2> QED
    BY <2>1, <2>2
<1>2. /\ DpkgCompare(Upstream(s), Upstream(t)) \in -1..1
      /\ DpkgCompare(Revision(s), Revision(t)) \in -1..1
      /\ DpkgCompare(Upstream(t), Upstream(s)) = -DpkgCompare(Upstream(s), Upstream(t))
      /\ DpkgCompare(Revision(t), Revision(s)) = -DpkgCompare(Revision(s), Revision(t))
  BY <1>1, DpkgMirrored
<1> QED
  BY <1>2, TwoParts DEF CompareDebian

-------------------------------------------------------------------------------
(* VersionOrder: Maven, semver and calver *)

LEMMA ItemsOrder ==
    ASSUME NEW x \in Int \X Int, NEW y \in Int \X Int
    PROVE  /\ CompareItem(x, y) \in -1..1 /\ CompareItem(y, x) = -CompareItem(x, y)
           /\ \A z \in Int \X Int : Ordered(CompareItem(x, y), CompareItem(y, z), CompareItem(x, z))
<1>1. ASSUME NEW v \in Int \X Int, NEW w \in Int \X Int
      PROVE  /\ Sign(v[1] - w[1]) \in -1..1 /\ Sign(v[2] - w[2]) \in -1..1
             /\ Sign(w[1] - v[1]) = -Sign(v[1] - w[1]) /\ Sign(w[2] - v[2]) = -Sign(v[2] - w[2])
  BY SignOrders
<1>2. ASSUME NEW z \in Int \X Int
      PROVE  Ordered(CompareItem(x, y), CompareItem(y, z), CompareItem(x, z))
  <2>1. /\ Ordered(Sign(x[1] - y[1]), Sign(y[1] - z[1]), Sign(x[1] - z[1]))
        /\ Ordered(Sign(x[2] - y[2]), Sign(y[2] - z[2]), Sign(x[2] - z[2]))
    BY SignOrders
  <2> QED
    BY <1>1, <2>1, TwoParts DEF CompareItem
<1>3. CompareItem(x, y) \in -1..1 /\ CompareItem(y, x) = -CompareItem(x, y)
  <2> DEFINE a == Sign(x[1] - y[1])
             b == Sign(x[2] - y[2])
  <2>1. a \in -1..1 /\ b \in -1..1
    BY <1>1
  <2>2. Sign(y[1] - x[1]) = -a /\ Sign(y[2] - x[2]) = -b
    BY <1>1
  <2>3. CompareItem(x, y) = FirstOf(<<a, b>>) /\ CompareItem(y, x) = FirstOf(<<-a, -b>>)
    BY <2>2 DEF CompareItem
  <2> HIDE DEF a, b
  <2> QED
    BY <2>1, <2>3, TwoParts
<1> QED
  BY <1>2, <1>3

LEMMA SelfItem == \A x \in Int \X Int : CompareItem(x, x) = 0
<1> SUFFICES ASSUME NEW x \in Int \X Int PROVE CompareItem(x, x) = 0
  OBVIOUS
<1>1. CompareItem(x, x) = -CompareItem(x, x) /\ CompareItem(x, x) \in -1..1
  BY ItemsOrder
<1> QED
  BY <1>1

LEMMA MavenItemIs == MavenPad \in Int \X Int /\ \A token \in MavenTokens : MavenItem(token) \in Int \X Int
<1>1. /\ ToSet(Qualifiers) = {"alpha", "beta", "milestone", "rc", "snapshot"}
      /\ DOMAIN Letter = {"a", "b"} /\ Digits = {"0", "1", "2"}
  <2>1. ToSet(Qualifiers) = {"alpha", "beta", "milestone", "rc", "snapshot"}
    BY DEF Qualifiers, ToSet
  <2>2. DOMAIN Letter = {"a", "b"}
    BY DEF Letter
  <2>3. Digits = {"0", "1", "2"}
    BY DEF Digits, Digit
  <2> QED
    BY <2>1, <2>2, <2>3
<1>2. ASSUME NEW token \in ToSet(Qualifiers)
      PROVE  MavenItem(token) \in Int \X Int
  <2> DEFINE k == CHOOSE i \in 1..5 : Qualifiers[i] = token
  <2>1. \E i \in 1..5 : Qualifiers[i] = token
    BY DEF Qualifiers, ToSet
  <2>2. k \in 1..5
    BY <2>1
  <2>3. DOMAIN Qualifiers = 1..5
    BY DEF Qualifiers
  <2>4. MavenItem(token) = <<0, k>>
    <3>1. token \notin Release /\ token \notin Digits /\ token # "sp" /\ token \notin DOMAIN Letter
      BY <1>1 DEF Release
    <3> QED
      BY <2>3, <3>1 DEF MavenItem
  <2> HIDE DEF k
  <2> QED
    BY <2>2, <2>4
<1>3. \A t \in Release : MavenItem(t) = <<1, 0>>
  BY <1>1 DEF MavenItem, Release
<1>4. MavenItem("1") = <<2, Digit["1"]>> /\ MavenItem("2") = <<2, Digit["2"]>>
  BY <1>1 DEF MavenItem, Release
<1>5. MavenItem("sp") = <<3, 0>>
  BY <1>1 DEF MavenItem, Release
<1>6. MavenItem("a") = <<4, Letter["a"]>> /\ MavenItem("b") = <<4, Letter["b"]>>
  BY <1>1 DEF MavenItem, Release
<1>7. Digit["1"] \in Int /\ Digit["2"] \in Int
  BY DEF Digit
<1>8. Letter["a"] \in Int /\ Letter["b"] \in Int
  BY DEF Letter
<1>9. <<1, 0>> \in Int \X Int /\ MavenPad \in Int \X Int /\ MavenItem("sp") \in Int \X Int
  BY <1>5 DEF MavenPad
<1>10. /\ MavenItem("1") \in Int \X Int /\ MavenItem("2") \in Int \X Int
       /\ MavenItem("a") \in Int \X Int /\ MavenItem("b") \in Int \X Int
  BY <1>4, <1>6, <1>7, <1>8
<1>11. ASSUME NEW t \in MavenTokens
       PROVE  t \in ToSet(Qualifiers) \/ t \in Release \/ t \in {"1", "2", "a", "b", "sp"}
  BY <1>1 DEF MavenTokens, AlphaNum, Release
<1> QED
  BY <1>2, <1>3, <1>9, <1>10, <1>11

LEMMA MavenOrders ==
    ASSUME NEW s \in Seq(MavenTokens), NEW t \in Seq(MavenTokens)
    PROVE  /\ CompareMaven(s, t) \in -1..1 /\ CompareMaven(t, s) = -CompareMaven(s, t)
           /\ \A u \in Seq(MavenTokens) : Ordered(CompareMaven(s, t), CompareMaven(t, u), CompareMaven(s, u))
<1> DEFINE item(v, i) == IF i \in DOMAIN v THEN MavenItem(v[i]) ELSE MavenPad
           parts(x, y) == [i \in 1..MaxLen(x, y) |-> CompareItem(item(x, i), item(y, i))]
<1>1. ASSUME NEW v \in Seq(MavenTokens), NEW i \in Nat PROVE item(v, i) \in Int \X Int
  BY MavenItemIs
<1>2. ASSUME NEW x \in Seq(MavenTokens), NEW y \in Seq(MavenTokens)
      PROVE  /\ MaxLen(x, y) \in Nat /\ MaxLen(x, y) = MaxLen(y, x)
             /\ parts(x, y) \in [1..MaxLen(x, y) -> -1..1]
             /\ CompareMaven(x, y) = FirstOf(parts(x, y))
             /\ \A i \in 1..MaxLen(x, y) : parts(y, x)[i] = -parts(x, y)[i]
             /\ \A i \in Nat : ResultAt(parts(x, y), i) = CompareItem(item(x, i), item(y, i))
  <2>1. /\ Len(x) \in Nat /\ Len(y) \in Nat
        /\ DOMAIN x = 1..Len(x) /\ DOMAIN y = 1..Len(y)
    OBVIOUS
  <2>2. MaxLen(x, y) \in Nat /\ MaxLen(x, y) = MaxLen(y, x)
    BY <2>1 DEF MaxLen
  <2>3. CompareMaven(x, y) = FirstOf(parts(x, y))
    BY DEF CompareMaven
  <2> HIDE DEF item
  <2>4. ASSUME NEW i \in 1..MaxLen(x, y)
        PROVE  parts(x, y)[i] \in -1..1 /\ parts(y, x)[i] = -parts(x, y)[i]
    <3>1. i \in Nat
      BY <2>2
    <3> QED
      BY <1>1, <2>2, <3>1, ItemsOrder
  <2>5. parts(x, y) \in [1..MaxLen(x, y) -> -1..1]
    <3>1. parts(x, y) = [i \in 1..MaxLen(x, y) |-> parts(x, y)[i]]
      OBVIOUS
    <3> HIDE DEF parts
    <3> QED
      BY <2>4, <3>1
  <2>6. ASSUME NEW i \in Nat PROVE ResultAt(parts(x, y), i) = CompareItem(item(x, i), item(y, i))
    <3>1. CASE i \in 1..MaxLen(x, y)
      BY <3>1 DEF ResultAt
    <3>2. CASE i \notin 1..MaxLen(x, y)
      <4>1. i \notin DOMAIN x /\ i \notin DOMAIN y
        BY <2>1, <3>2 DEF MaxLen
      <4>2. item(x, i) = MavenPad /\ item(y, i) = MavenPad
        BY <4>1 DEF item
      <4>3. CompareItem(MavenPad, MavenPad) = 0
        BY MavenItemIs, SelfItem
      <4> QED
        BY <3>2, <4>2, <4>3 DEF ResultAt
    <3> QED
      BY <3>1, <3>2
  <2> HIDE DEF parts
  <2> QED
    BY <2>2, <2>3, <2>4, <2>5, <2>6
<1> HIDE DEF parts, item
<1>3. CompareMaven(s, t) \in -1..1 /\ CompareMaven(t, s) = -CompareMaven(s, t)
  <2>1. /\ MaxLen(s, t) \in Nat /\ parts(s, t) \in [1..MaxLen(s, t) -> -1..1]
        /\ parts(t, s) \in [1..MaxLen(s, t) -> -1..1]
        /\ \A i \in 1..MaxLen(s, t) : parts(t, s)[i] = -parts(s, t)[i]
        /\ CompareMaven(s, t) = FirstOf(parts(s, t)) /\ CompareMaven(t, s) = FirstOf(parts(t, s))
    BY <1>2
  <2> QED
    BY <2>1, FirstDifference, FirstOfMirrored
<1>4. ASSUME NEW u \in Seq(MavenTokens)
      PROVE  Ordered(CompareMaven(s, t), CompareMaven(t, u), CompareMaven(s, u))
  <2>1. \A i \in Nat : Ordered(ResultAt(parts(s, t), i), ResultAt(parts(t, u), i), ResultAt(parts(s, u), i))
    <3> SUFFICES ASSUME NEW i \in Nat
                 PROVE  Ordered(ResultAt(parts(s, t), i), ResultAt(parts(t, u), i), ResultAt(parts(s, u), i))
      OBVIOUS
    <3>1. item(s, i) \in Int \X Int /\ item(t, i) \in Int \X Int /\ item(u, i) \in Int \X Int
      BY <1>1
    <3>2. Ordered(CompareItem(item(s, i), item(t, i)), CompareItem(item(t, i), item(u, i)),
                  CompareItem(item(s, i), item(u, i)))
      BY <3>1, ItemsOrder
    <3>3. /\ ResultAt(parts(s, t), i) = CompareItem(item(s, i), item(t, i))
          /\ ResultAt(parts(t, u), i) = CompareItem(item(t, i), item(u, i))
          /\ ResultAt(parts(s, u), i) = CompareItem(item(s, i), item(u, i))
      BY <1>2
    <3> QED
      BY <3>2, <3>3
  <2>2. /\ MaxLen(s, t) \in Nat /\ parts(s, t) \in [1..MaxLen(s, t) -> -1..1]
        /\ MaxLen(t, u) \in Nat /\ parts(t, u) \in [1..MaxLen(t, u) -> -1..1]
        /\ MaxLen(s, u) \in Nat /\ parts(s, u) \in [1..MaxLen(s, u) -> -1..1]
        /\ CompareMaven(s, t) = FirstOf(parts(s, t)) /\ CompareMaven(t, u) = FirstOf(parts(t, u))
        /\ CompareMaven(s, u) = FirstOf(parts(s, u))
    BY <1>2
  <2>3. Ordered(FirstOf(parts(s, t)), FirstOf(parts(t, u)), FirstOf(parts(s, u)))
    BY <2>1, <2>2, FirstOfOrdered
  <2> QED
    BY <2>2, <2>3
<1> QED
  BY <1>3, <1>4

LEMMA IdentifierIs == \A c \in AlphaNum : Identifier(c) \in Int \X Int
<1>1. DOMAIN Letter = {"a", "b"}
  BY DEF Letter
<1>2. Letter["a"] \in Int /\ Letter["b"] \in Int
  BY DEF Letter
<1>3. Digits = {"0", "1", "2"}
  BY DEF Digits, Digit
<1>4. Digit["0"] \in Int /\ Digit["1"] \in Int /\ Digit["2"] \in Int
  BY DEF Digit
<1> SUFFICES ASSUME NEW x \in AlphaNum PROVE Identifier(x) \in Int \X Int
  OBVIOUS
<1>5. CASE x \in Digits
  <2>1. Identifier(x) = <<0, Digit[x]>> /\ Digit[x] \in Int
    BY <1>3, <1>4, <1>5 DEF Identifier
  <2> QED
    BY <2>1
<1>6. CASE x \notin Digits
  <2>1. Identifier(x) = <<1, Letter[x]>> /\ Letter[x] \in Int
    BY <1>1, <1>2, <1>6 DEF Identifier, AlphaNum
  <2> QED
    BY <2>1
<1> QED
  BY <1>5, <1>6

\* The end of a list comes before any identifier of a longer one.
LEMMA PreOrders ==
    ASSUME NEW s \in Seq(AlphaNum), NEW t \in Seq(AlphaNum)
    PROVE  /\ ComparePre(s, t) \in -1..1 /\ ComparePre(t, s) = -ComparePre(s, t)
           /\ \A u \in Seq(AlphaNum) : Ordered(ComparePre(s, t), ComparePre(t, u), ComparePre(s, u))
<1> DEFINE within(x, y, i) == CompareItem(Identifier(x[i]), Identifier(y[i]))
           parts(x, y) == [i \in 1..MaxLen(x, y) |->
                             IF i > Len(x) THEN -1 ELSE IF i > Len(y) THEN 1 ELSE within(x, y, i)]
           cell(x, y, i) == IF i = 0 \/ (i > Len(x) /\ i > Len(y)) THEN 0
                            ELSE IF i > Len(x) THEN -1 ELSE IF i > Len(y) THEN 1 ELSE within(x, y, i)
           list(x, y) == IF x = <<>> \/ y = <<>> THEN Sign(Len(y) - Len(x)) ELSE FirstOf(parts(x, y))
<1>1. ASSUME NEW v \in Seq(AlphaNum)
      PROVE  Len(v) \in Nat /\ \A i \in Nat : i # 0 /\ i <= Len(v) => Identifier(v[i]) \in Int \X Int
  <2>1. Len(v) \in Nat /\ \A i \in Nat : i # 0 /\ i <= Len(v) => v[i] \in AlphaNum
    OBVIOUS
  <2> QED
    BY <2>1, IdentifierIs
<1>2. ASSUME NEW x \in Seq(AlphaNum), NEW y \in Seq(AlphaNum), NEW i \in Nat
      PROVE  /\ cell(x, y, i) \in -1..1 /\ cell(y, x, i) = -cell(x, y, i)
             /\ \A z \in Seq(AlphaNum) : Ordered(cell(x, y, i), cell(y, z, i), cell(x, z, i))
  <2>1. ASSUME i # 0, NEW v \in Seq(AlphaNum), NEW w \in Seq(AlphaNum), i <= Len(v), i <= Len(w)
        PROVE  within(v, w, i) \in -1..1 /\ within(w, v, i) = -within(v, w, i)
    BY <1>1, <2>1, ItemsOrder
  <2>2. ASSUME NEW v \in Seq(AlphaNum), NEW w \in Seq(AlphaNum)
        PROVE  cell(v, w, i) \in -1..1 /\ cell(w, v, i) = -cell(v, w, i)
    <3>1. Len(v) \in Nat /\ Len(w) \in Nat
      BY <1>1
    <3>2. CASE i # 0 /\ i <= Len(v) /\ i <= Len(w)
      <4>1. within(v, w, i) \in -1..1 /\ within(w, v, i) = -within(v, w, i)
        BY <2>1, <3>2
      <4>2. cell(v, w, i) = within(v, w, i) /\ cell(w, v, i) = within(w, v, i)
        BY <3>1, <3>2
      <4> QED
        BY <4>1, <4>2
    <3>3. CASE i = 0 \/ i > Len(v) \/ i > Len(w)
      <4> HIDE DEF within
      <4> QED
        BY <3>1, <3>3
    <3> QED
      BY <3>1, <3>2, <3>3
  <2>3. ASSUME NEW z \in Seq(AlphaNum) PROVE Ordered(cell(x, y, i), cell(y, z, i), cell(x, z, i))
    <3>1. Len(x) \in Nat /\ Len(y) \in Nat /\ Len(z) \in Nat
      BY <1>1
    <3>2. CASE i # 0 /\ i <= Len(x) /\ i <= Len(y) /\ i <= Len(z)
      <4>1. Ordered(within(x, y, i), within(y, z, i), within(x, z, i))
        BY <1>1, <3>2, ItemsOrder
      <4> HIDE DEF within
      <4> QED
        BY <3>1, <3>2, <4>1
    <3>3. CASE i = 0
      BY <3>3 DEF Ordered
    <3>4. CASE i # 0 /\ (i > Len(x) \/ i > Len(y) \/ i > Len(z))
      <4>1. cell(x, y, i) \in -1..1 /\ cell(y, z, i) \in -1..1
        BY <2>2
      <4>2. /\ i > Len(x) => cell(x, y, i) = (IF i > Len(y) THEN 0 ELSE -1)
            /\ i > Len(x) => cell(x, z, i) = (IF i > Len(z) THEN 0 ELSE -1)
            /\ i <= Len(x) /\ i > Len(y) => cell(x, y, i) = 1
            /\ i <= Len(x) /\ i > Len(z) => cell(x, z, i) = 1
            /\ i > Len(y) => cell(y, z, i) = (IF i > Len(z) THEN 0 ELSE -1)
            /\ i <= Len(y) /\ i > Len(z) => cell(y, z, i) = 1
        BY <3>1, <3>4
      <4> HIDE DEF cell
      <4> QED
        BY <3>1, <3>4, <4>1, <4>2 DEF Ordered
    <3> QED
      BY <3>1, <3>2, <3>3, <3>4
  <2> HIDE DEF cell
  <2> QED
    BY <2>2, <2>3
<1>3. ASSUME NEW x \in Seq(AlphaNum), NEW y \in Seq(AlphaNum)
      PROVE  /\ MaxLen(x, y) \in Nat /\ MaxLen(x, y) = MaxLen(y, x)
             /\ parts(x, y) \in [1..MaxLen(x, y) -> -1..1]
             /\ \A i \in 1..MaxLen(x, y) : parts(y, x)[i] = -parts(x, y)[i]
             /\ \A i \in Nat : ResultAt(parts(x, y), i) = cell(x, y, i)
  <2>1. Len(x) \in Nat /\ Len(y) \in Nat
    BY <1>1
  <2>2. MaxLen(x, y) \in Nat /\ MaxLen(x, y) = MaxLen(y, x)
    BY <2>1 DEF MaxLen
  <2>3. ASSUME NEW i \in 1..MaxLen(x, y)
        PROVE  i \in Nat /\ parts(x, y)[i] = cell(x, y, i) /\ parts(y, x)[i] = cell(y, x, i)
    <3> HIDE DEF within
    <3> QED
      BY <2>1, <2>2 DEF MaxLen
  <2>4. ASSUME NEW i \in 1..MaxLen(x, y)
        PROVE  parts(x, y)[i] \in -1..1 /\ parts(y, x)[i] = -parts(x, y)[i]
    <3> HIDE DEF cell, parts
    <3> QED
      BY <1>2, <2>3
  <2>5. parts(x, y) \in [1..MaxLen(x, y) -> -1..1]
    <3>1. parts(x, y) = [i \in 1..MaxLen(x, y) |-> parts(x, y)[i]]
      OBVIOUS
    <3> HIDE DEF parts
    <3> QED
      BY <2>4, <3>1
  <2>6. ASSUME NEW i \in Nat PROVE ResultAt(parts(x, y), i) = cell(x, y, i)
    <3>1. CASE i \in 1..MaxLen(x, y)
      <4>1. DOMAIN parts(x, y) = 1..MaxLen(x, y)
        OBVIOUS
      <4> HIDE DEF parts, cell
      <4> QED
        BY <2>3, <3>1, <4>1 DEF ResultAt
    <3>2. CASE i \notin 1..MaxLen(x, y)
      <4>1. cell(x, y, i) = 0
        <5> HIDE DEF within
        <5> QED
          BY <2>1, <3>2 DEF MaxLen
      <4>2. DOMAIN parts(x, y) = 1..MaxLen(x, y)
        OBVIOUS
      <4> HIDE DEF parts, cell
      <4> QED
        BY <3>2, <4>1, <4>2 DEF ResultAt
    <3> QED
      BY <3>1, <3>2
  <2> HIDE DEF parts, cell
  <2> QED
    BY <2>2, <2>4, <2>5, <2>6
<1>4. ASSUME NEW x \in Seq(AlphaNum), NEW y \in Seq(AlphaNum) PROVE ComparePre(x, y) = list(x, y)
  BY DEF ComparePre
<1> HIDE DEF parts, cell, within
<1>5. ASSUME NEW x \in Seq(AlphaNum), NEW y \in Seq(AlphaNum)
      PROVE  FirstOf(parts(x, y)) \in -1..1 /\ FirstOf(parts(y, x)) = -FirstOf(parts(x, y))
  <2>1. /\ MaxLen(x, y) \in Nat /\ parts(x, y) \in [1..MaxLen(x, y) -> -1..1]
        /\ parts(y, x) \in [1..MaxLen(x, y) -> -1..1]
        /\ \A i \in 1..MaxLen(x, y) : parts(y, x)[i] = -parts(x, y)[i]
    BY <1>3
  <2> QED
    BY <2>1, FirstDifference, FirstOfMirrored
<1>6. list(s, t) \in -1..1 /\ list(t, s) = -list(s, t)
  <2>1. Len(s) \in Int /\ Len(t) \in Int
    BY <1>1
  <2> QED
    BY <1>5, <2>1, SignOrders
<1>7. ASSUME NEW u \in Seq(AlphaNum) PROVE Ordered(list(s, t), list(t, u), list(s, u))
  <2>1. /\ Len(s) \in Nat /\ Len(t) \in Nat /\ Len(u) \in Nat
        /\ (s = <<>> <=> Len(s) = 0) /\ (t = <<>> <=> Len(t) = 0) /\ (u = <<>> <=> Len(u) = 0)
    BY <1>1
  <2>2. Ordered(FirstOf(parts(s, t)), FirstOf(parts(t, u)), FirstOf(parts(s, u)))
    <3>1. /\ MaxLen(s, t) \in Nat /\ parts(s, t) \in [1..MaxLen(s, t) -> -1..1]
          /\ MaxLen(t, u) \in Nat /\ parts(t, u) \in [1..MaxLen(t, u) -> -1..1]
          /\ MaxLen(s, u) \in Nat /\ parts(s, u) \in [1..MaxLen(s, u) -> -1..1]
      BY <1>3
    <3>2. ASSUME NEW i \in Nat
          PROVE  Ordered(ResultAt(parts(s, t), i), ResultAt(parts(t, u), i), ResultAt(parts(s, u), i))
      BY <1>2, <1>3
    <3> QED
      BY <3>1, <3>2, FirstOfOrdered
  <2>3. FirstOf(parts(s, t)) \in -1..1 /\ FirstOf(parts(t, u)) \in -1..1 /\ FirstOf(parts(s, u)) \in -1..1
    BY <1>5
  <2> QED
    BY <2>1, <2>2, <2>3 DEF Ordered, Sign
<1> HIDE DEF list
<1> QED
  BY <1>4, <1>6, <1>7

\* Three parts of numbers, and what follows them.
LEMMA PartsOrder ==
    ASSUME NEW n \in Nat,
           NEW r1 \in [1..n -> -1..1], NEW r2 \in [1..n -> -1..1]
    PROVE  /\ FirstOf(r1) \in -1..1
           /\ (\A i \in 1..n : r2[i] = -r1[i]) => FirstOf(r2) = -FirstOf(r1)
           /\ \A r3 \in [1..n -> -1..1] :
                 (\A i \in 1..n : Ordered(r1[i], r2[i], r3[i])) =>
                    Ordered(FirstOf(r1), FirstOf(r2), FirstOf(r3))
<1>1. ASSUME NEW r3 \in [1..n -> -1..1], \A i \in 1..n : Ordered(r1[i], r2[i], r3[i])
      PROVE  Ordered(FirstOf(r1), FirstOf(r2), FirstOf(r3))
  <2>1. ASSUME NEW i \in Nat PROVE Ordered(ResultAt(r1, i), ResultAt(r2, i), ResultAt(r3, i))
    <3>1. CASE i \in 1..n
      BY <1>1, <3>1 DEF ResultAt
    <3>2. CASE i \notin 1..n
      BY <3>2 DEF ResultAt, Ordered
    <3> QED
      BY <3>1, <3>2
  <2> QED
    BY <2>1, FirstOfOrdered
<1> QED
  BY <1>1, FirstDifference, FirstOfMirrored

LEMMA PartIsNatural == \A core \in Seq(Nat), i \in Nat : Part(core, i) \in Int
BY DEF Part

LEMMA SemverOrders ==
    LET S == [core : Seq(Nat), pre : Seq(AlphaNum)]
    IN \A v, w, u \in S :
          /\ CompareSemver(v, w) \in -1..1 /\ CompareSemver(w, v) = -CompareSemver(v, w)
          /\ Ordered(CompareSemver(v, w), CompareSemver(w, u), CompareSemver(v, u))
<1> DEFINE S == [core : Seq(Nat), pre : Seq(AlphaNum)]
           part(x, y, i) == IF i < 4 THEN Sign(Part(x.core, i) - Part(y.core, i))
                            ELSE ComparePre(x.pre, y.pre)
           parts(x, y) == [i \in 1..4 |-> part(x, y, i)]
<1>1. ASSUME NEW x \in S, NEW y \in S, NEW i \in 1..4
      PROVE  /\ part(x, y, i) \in -1..1 /\ part(y, x, i) = -part(x, y, i)
             /\ \A z \in S : Ordered(part(x, y, i), part(y, z, i), part(x, z, i))
  <2>1. \A z \in S : z.core \in Seq(Nat) /\ z.pre \in Seq(AlphaNum)
    OBVIOUS
  <2>2. CASE i < 4
    <3>1. ASSUME NEW z \in S PROVE Part(z.core, i) \in Int
      <4>1. i \in Nat /\ z.core \in Seq(Nat)
        BY <2>1
      <4> QED
        BY <4>1, PartIsNatural
    <3>2. \A y1, z1 \in S : part(y1, z1, i) = Sign(Part(y1.core, i) - Part(z1.core, i))
      BY <2>2
    <3> HIDE DEF part, S
    <3>3. part(x, y, i) \in -1..1 /\ part(y, x, i) = -part(x, y, i)
      BY <3>1, <3>2, SignOrders
    <3>4. ASSUME NEW z \in S PROVE Ordered(part(x, y, i), part(y, z, i), part(x, z, i))
      <4>1. Part(x.core, i) \in Int /\ Part(y.core, i) \in Int /\ Part(z.core, i) \in Int
        BY <3>1
      <4>2. Ordered(Sign(Part(x.core, i) - Part(y.core, i)), Sign(Part(y.core, i) - Part(z.core, i)),
                    Sign(Part(x.core, i) - Part(z.core, i)))
        BY <4>1, SignOrders
      <4> QED
        BY <3>2, <4>2
    <3> QED
      BY <3>3, <3>4
  <2>3. CASE ~(i < 4)
    <3>1. \A y1, z1 \in S : part(y1, z1, i) = ComparePre(y1.pre, z1.pre)
      BY <2>3
    <3> HIDE DEF part, S
    <3> QED
      BY <2>1, <3>1, PreOrders
  <2> QED
    BY <2>2, <2>3
<1> HIDE DEF part
<1>2. ASSUME NEW x \in S, NEW y \in S
      PROVE  /\ parts(x, y) \in [1..4 -> -1..1] /\ CompareSemver(x, y) = FirstOf(parts(x, y))
             /\ \A i \in 1..4 : parts(x, y)[i] = part(x, y, i)
  BY <1>1 DEF CompareSemver, part
<1> HIDE DEF parts, S
<1> SUFFICES ASSUME NEW v \in S, NEW w \in S, NEW u \in S
             PROVE  /\ CompareSemver(v, w) \in -1..1 /\ CompareSemver(w, v) = -CompareSemver(v, w)
                    /\ Ordered(CompareSemver(v, w), CompareSemver(w, u), CompareSemver(v, u))
  BY DEF S
<1>3. \A i \in 1..4 : parts(w, v)[i] = -parts(v, w)[i]
  BY <1>1, <1>2
<1>4. \A i \in 1..4 : Ordered(parts(v, w)[i], parts(w, u)[i], parts(v, u)[i])
  BY <1>1, <1>2
<1>5. CompareSemver(v, w) \in -1..1 /\ CompareSemver(w, v) = -CompareSemver(v, w)
  <2>1. /\ parts(v, w) \in [1..4 -> -1..1] /\ parts(w, v) \in [1..4 -> -1..1]
        /\ CompareSemver(v, w) = FirstOf(parts(v, w)) /\ CompareSemver(w, v) = FirstOf(parts(w, v))
    BY <1>2
  <2> QED
    BY <1>3, <2>1, PartsOrder
<1>6. Ordered(FirstOf(parts(v, w)), FirstOf(parts(w, u)), FirstOf(parts(v, u)))
  BY <1>2, <1>4, PartsOrder
<1> QED
  BY <1>2, <1>5, <1>6

LEMMA CalverOrders ==
    \A v, w, u \in Seq(Nat) :
        /\ CompareCalver(v, w) \in -1..1 /\ CompareCalver(w, v) = -CompareCalver(v, w)
        /\ Ordered(CompareCalver(v, w), CompareCalver(w, u), CompareCalver(v, u))
<1> DEFINE parts(x, y) == [i \in 1..3 |-> Sign(Part(x, i) - Part(y, i))]
<1>1. ASSUME NEW x \in Seq(Nat), NEW y \in Seq(Nat)
      PROVE  /\ parts(x, y) \in [1..3 -> -1..1] /\ CompareCalver(x, y) = FirstOf(parts(x, y))
             /\ \A i \in 1..3 : parts(x, y)[i] = Sign(Part(x, i) - Part(y, i))
  <2>1. ASSUME NEW i \in 1..3 PROVE Sign(Part(x, i) - Part(y, i)) \in -1..1
    <3>1. i \in Nat
      OBVIOUS
    <3>2. Part(x, i) \in Int /\ Part(y, i) \in Int
      BY <3>1, PartIsNatural
    <3> QED
      BY <3>2, SignOrders
  <2> QED
    BY <2>1 DEF CompareCalver
<1> HIDE DEF parts
<1> SUFFICES ASSUME NEW v \in Seq(Nat), NEW w \in Seq(Nat), NEW u \in Seq(Nat)
             PROVE  /\ CompareCalver(v, w) \in -1..1 /\ CompareCalver(w, v) = -CompareCalver(v, w)
                    /\ Ordered(CompareCalver(v, w), CompareCalver(w, u), CompareCalver(v, u))
  OBVIOUS
<1>2. \A i \in 1..3 : Part(v, i) \in Int /\ Part(w, i) \in Int /\ Part(u, i) \in Int
  <2>1. 1..3 \subseteq Nat
    OBVIOUS
  <2> QED
    BY <2>1, PartIsNatural
<1>3. ASSUME NEW i \in 1..3 PROVE parts(w, v)[i] = -parts(v, w)[i]
  <2>1. Part(v, i) \in Int /\ Part(w, i) \in Int
    BY <1>2
  <2>2. parts(w, v)[i] = Sign(Part(w, i) - Part(v, i)) /\ parts(v, w)[i] = Sign(Part(v, i) - Part(w, i))
    BY <1>1
  <2> QED
    BY <2>1, <2>2, SignOrders
<1>4. ASSUME NEW i \in 1..3 PROVE Ordered(parts(v, w)[i], parts(w, u)[i], parts(v, u)[i])
  <2>1. Part(v, i) \in Int /\ Part(w, i) \in Int /\ Part(u, i) \in Int
    BY <1>2
  <2>2. /\ parts(v, w)[i] = Sign(Part(v, i) - Part(w, i)) /\ parts(w, u)[i] = Sign(Part(w, i) - Part(u, i))
        /\ parts(v, u)[i] = Sign(Part(v, i) - Part(u, i))
    BY <1>1
  <2>3. Ordered(Sign(Part(v, i) - Part(w, i)), Sign(Part(w, i) - Part(u, i)), Sign(Part(v, i) - Part(u, i)))
    BY <2>1, SignOrders
  <2> QED
    BY <2>2, <2>3
<1>5. CompareCalver(v, w) \in -1..1 /\ CompareCalver(w, v) = -CompareCalver(v, w)
  <2>1. /\ parts(v, w) \in [1..3 -> -1..1] /\ parts(w, v) \in [1..3 -> -1..1]
        /\ CompareCalver(v, w) = FirstOf(parts(v, w)) /\ CompareCalver(w, v) = FirstOf(parts(w, v))
    BY <1>1
  <2> QED
    BY <1>3, <2>1, PartsOrder
<1>6. Ordered(FirstOf(parts(v, w)), FirstOf(parts(w, u)), FirstOf(parts(v, u)))
  BY <1>1, <1>4, PartsOrder
<1> QED
  BY <1>1, <1>5, <1>6

-------------------------------------------------------------------------------
(* VersionOrder: all schemes *)

LEMMA CompareOrders ==
    ASSUME scheme \in DOMAIN VersionsOf,
           NEW v \in VersionsOf[scheme], NEW w \in VersionsOf[scheme], NEW u \in VersionsOf[scheme]
    PROVE  /\ Compare(v, w) \in -1..1 /\ Compare(w, v) = -Compare(v, w)
           /\ scheme \notin Unordered => Ordered(Compare(v, w), Compare(w, u), Compare(v, u))
<1>1. scheme \in {"debian", "generic", "rpm", "maven", "semver", "calver"}
  BY VersionsAssumption
<1>2. v \in ParsedVersions(scheme) /\ w \in ParsedVersions(scheme) /\ u \in ParsedVersions(scheme)
  BY VersionsAssumption
<1>3. CASE scheme = "debian"
  <2>1. v \in Seq(Character) /\ w \in Seq(Character)
    BY <1>2, <1>3 DEF ParsedVersions
  <2> QED
    BY <1>3, <2>1, DebianMirrored DEF Compare, Unordered
<1>4. CASE scheme = "generic"
  <2>1. v \in Seq(Character) /\ w \in Seq(Character)
    BY <1>2, <1>4 DEF ParsedVersions
  <2> QED
    BY <1>4, <2>1, DpkgMirrored DEF Compare, CompareGeneric, Unordered
<1>5. CASE scheme = "rpm"
  <2>1. v \in Seq(Character) /\ w \in Seq(Character) /\ u \in Seq(Character)
    BY <1>2, <1>5 DEF ParsedVersions
  <2>2. \A x, y : Compare(x, y) = CompareRPM(x, y)
    BY <1>5 DEF Compare
  <2> QED
    BY <2>1, <2>2, RpmOrders
<1>6. CASE scheme = "maven"
  <2>1. v \in Seq(MavenTokens) /\ w \in Seq(MavenTokens) /\ u \in Seq(MavenTokens)
    BY <1>2, <1>6 DEF ParsedVersions
  <2>2. \A x, y : Compare(x, y) = CompareMaven(x, y)
    BY <1>6 DEF Compare
  <2> QED
    BY <2>1, <2>2, MavenOrders
<1>7. CASE scheme = "semver"
  <2> DEFINE S == [core : Seq(Nat), pre : Seq(AlphaNum)]
  <2>1. v \in S /\ w \in S /\ u \in S
    BY <1>2, <1>7 DEF ParsedVersions
  <2>2. \A x, y : Compare(x, y) = CompareSemver(x, y)
    BY <1>7 DEF Compare
  <2> QED
    BY <2>1, <2>2, SemverOrders
<1>8. CASE scheme = "calver"
  <2>1. v \in Seq(Nat) /\ w \in Seq(Nat) /\ u \in Seq(Nat)
    BY <1>2, <1>8 DEF ParsedVersions
  <2>2. \A x, y : Compare(x, y) = CompareCalver(x, y)
    BY <1>8 DEF Compare
  <2> QED
    BY <2>1, <2>2, CalverOrders
<1> QED
  BY <1>1, <1>3, <1>4, <1>5, <1>6, <1>7, <1>8

VersionTypes == scheme \in DOMAIN VersionsOf /\ asked \in Seq(VersionsOf[scheme])

LEMMA AskedAreVersions ==
    ASSUME VersionTypes
    PROVE  /\ Len(asked) = 2 => asked[1] \in VersionsOf[scheme] /\ asked[2] \in VersionsOf[scheme]
           /\ Len(asked) = 3 => /\ asked[1] \in VersionsOf[scheme] /\ asked[2] \in VersionsOf[scheme]
                                /\ asked[3] \in VersionsOf[scheme]
<1> DEFINE S == VersionsOf[scheme]
<1>1. asked \in Seq(S)
  BY DEF VersionTypes
<1> HIDE DEF S
<1>2. \A i \in 1..Len(asked) : asked[i] \in S
  BY <1>1, ElementOfSeq
<1> QED
  BY <1>2 DEF S

LEMMA VersionsStay == VersionSpec => []VersionTypes
<1>1. VersionInit => VersionTypes
  BY DEF VersionInit, VersionTypes
<1>2. VersionTypes /\ [VersionNext]_versionVars => VersionTypes'
  BY DEF VersionTypes, VersionNext, Ask, versionVars
<1> QED
  BY <1>1, <1>2, PTL DEF VersionSpec

\* Compare is an order of the versions of a scheme, however long they are: the
\* two directions of a comparison agree, and outside the dpkg schemes it is
\* transitive (version_strategy.go, the six comparators).
THEOREM ComparatorsOrder == VersionSpec => []TotalOrder
<1>1. ASSUME VersionTypes PROVE TotalOrder
  <2>1. Pairwise(LAMBDA v, w : Compare(v, w) = -Compare(w, v))
    <3>1. ASSUME Len(asked) = 2 PROVE Compare(asked[1], asked[2]) = -Compare(asked[2], asked[1])
      <4>1. asked[1] \in VersionsOf[scheme] /\ asked[2] \in VersionsOf[scheme]
        BY <1>1, <3>1, AskedAreVersions
      <4> QED
        BY <1>1, <4>1, CompareOrders DEF VersionTypes
    <3> QED
      BY <3>1 DEF Pairwise
  <2>2. ASSUME scheme \notin Unordered PROVE TransitiveTriple
    <3>1. ASSUME Len(asked) = 3
          PROVE  Ordered(Compare(asked[1], asked[2]), Compare(asked[2], asked[3]), Compare(asked[1], asked[3]))
      <4>1. /\ asked[1] \in VersionsOf[scheme] /\ asked[2] \in VersionsOf[scheme]
            /\ asked[3] \in VersionsOf[scheme]
        BY <1>1, <3>1, AskedAreVersions
      <4> QED
        BY <1>1, <2>2, <4>1, CompareOrders DEF VersionTypes
    <3> QED
      BY <3>1 DEF TransitiveTriple, Ordered
  <2> QED
    BY <2>1, <2>2 DEF TotalOrder
<1> QED
  BY <1>1, VersionsStay, PTL

\* A version lies in exactly one of a window, what is before and what is after
\* it, whichever bounds the window includes (inVersionRange).
THEOREM WindowsPartitionVersions == VersionSpec => []WindowsPartition
<1>1. ASSUME VersionTypes PROVE WindowsPartition
  <2> SUFFICES ASSUME scheme \notin Unordered, Len(asked) = 3, Compare(asked[1], asked[2]) < 0,
                      NEW in1 \in BOOLEAN, NEW in2 \in BOOLEAN
               PROVE  LET window(from, to, inFrom, inTo) ==
                              [from |-> from, to |-> to, fromIncluding |-> inFrom, toIncluding |-> inTo]
                          first == <<asked[1]>>
                          last == <<asked[2]>>
                      IN Cardinality({r \in {window(<<>>, first, FALSE, ~in1), window(first, last, in1, in2),
                                             window(last, <<>>, ~in2, FALSE)} : InRange(asked[3], r)}) = 1
    BY DEF WindowsPartition
  <2> DEFINE a == asked[1]
             b == asked[2]
             v == asked[3]
             before == [from |-> <<>>, to |-> <<a>>, fromIncluding |-> FALSE, toIncluding |-> ~in1]
             inside == [from |-> <<a>>, to |-> <<b>>, fromIncluding |-> in1, toIncluding |-> in2]
             after == [from |-> <<b>>, to |-> <<>>, fromIncluding |-> ~in2, toIncluding |-> FALSE]
  <2>1. a \in VersionsOf[scheme] /\ b \in VersionsOf[scheme] /\ v \in VersionsOf[scheme]
    BY <1>1, AskedAreVersions
  <2>2. /\ Compare(v, a) \in -1..1 /\ Compare(v, b) \in -1..1 /\ Compare(a, b) \in -1..1
        /\ Compare(a, v) = -Compare(v, a) /\ Compare(b, v) = -Compare(v, b)
        /\ Compare(b, a) = -Compare(a, b)
        /\ Ordered(Compare(v, a), Compare(a, b), Compare(v, b))
        /\ Ordered(Compare(b, v), Compare(v, a), Compare(b, a))
    <3> HIDE DEF a, b, v
    <3> QED
      BY <1>1, <2>1, CompareOrders DEF VersionTypes
  <2>3. Compare(a, b) < 0
    OBVIOUS
  <2> HIDE DEF a, b, v
  <2>4. /\ InRange(v, before) <=> Compare(v, a) <= (IF in1 THEN -1 ELSE 0)
        /\ InRange(v, inside) <=> /\ Compare(v, a) >= (IF in1 THEN 0 ELSE 1)
                                  /\ Compare(v, b) <= (IF in2 THEN 0 ELSE -1)
        /\ InRange(v, after) <=> Compare(v, b) >= (IF in2 THEN 1 ELSE 0)
    BY DEF InRange
  <2>5. /\ InRange(v, before) \/ InRange(v, inside) \/ InRange(v, after)
        /\ ~(InRange(v, before) /\ InRange(v, inside)) /\ ~(InRange(v, before) /\ InRange(v, after))
        /\ ~(InRange(v, inside) /\ InRange(v, after))
    BY <2>2, <2>3, <2>4 DEF Ordered
  <2>6. before # inside /\ before # after /\ inside # after
    <3>1. before.from = <<>> /\ inside.from = <<a>> /\ after.from = <<b>> /\ after.to = <<>> /\ inside.to = <<b>>
      OBVIOUS
    <3>2. <<>> # <<a>> /\ <<>> # <<b>>
      OBVIOUS
    <3> HIDE DEF before, inside, after
    <3> QED
      BY <3>1, <3>2
  <2> HIDE DEF before, inside, after
  <2>7. \E r : {x \in {before, inside, after} : InRange(v, x)} = {r}
    BY <2>5
  <2>8. Cardinality({x \in {before, inside, after} : InRange(v, x)}) = 1
    BY <2>7, FS_Singleton
  <2> QED
    BY <2>8 DEF before, inside, after, a, b, v
<1> QED
  BY <1>1, VersionsStay, PTL

-------------------------------------------------------------------------------
(* PriorityRuleset *)

LEMMA LevelsAre ==
    /\ Len(Levels) \in Nat /\ DOMAIN Levels = 1..Len(Levels)
    /\ \A n \in Nodes : \E k \in 1..Len(Levels) : n \in Levels[k]
    /\ \A k \in 1..Len(Levels) : Levels[k] \subseteq Nodes
    /\ \A n \in Nodes : Children(n) \subseteq Nodes
<1>1. Len(Levels) \in Nat /\ DOMAIN Levels = 1..Len(Levels)
  BY TreesAssumption
<1>2. \A n \in Nodes : n.all \in Seq(Nodes) /\ n.any \in Seq(Nodes)
  BY TreesAssumption
<1>3. \A s \in Seq(Nodes) : ToSet(s) \subseteq Nodes
  BY DEF ToSet
<1>4. \A n \in Nodes : Children(n) \subseteq Nodes
  BY <1>2, <1>3 DEF Children
<1> QED
  BY <1>1, <1>4 DEF Nodes

\* What holds of a node if it holds of those below it holds of all nodes.
LEMMA NodesByInduction ==
    ASSUME NEW S, \A n \in Nodes : Children(n) \subseteq S => n \in S
    PROVE  Nodes \subseteq S
<1> DEFINE Reached == {k \in Nat : \A j \in 1..Len(Levels) : j <= k => Levels[j] \subseteq S}
<1>1. 0 \in Reached
  BY LevelsAre
<1>2. ASSUME NEW k \in Nat, k \in Reached PROVE k + 1 \in Reached
  <2>1. ASSUME NEW j \in 1..Len(Levels), j <= k + 1, NEW n \in Levels[j] PROVE n \in S
    <3>1. ASSUME NEW c \in Children(n) PROVE c \in S
      <4>1. PICK i \in 1..(j - 1) : c \in Levels[i]
        BY LevelsAre, TreesAssumption
      <4>2. i \in 1..Len(Levels) /\ i <= k
        BY <2>1, <4>1, LevelsAre
      <4> QED
        BY <1>2, <4>1, <4>2
    <3>2. n \in Nodes
      BY LevelsAre
    <3> QED
      BY <3>1, <3>2
  <2> QED
    BY <2>1
<1>3. Nat \subseteq Reached
  <2> HIDE DEF Reached
  <2> QED
    BY <1>1, <1>2, NaturalsByInduction
<1>4. Len(Levels) \in Reached
  BY <1>3, LevelsAre
<1> QED
  BY <1>4, LevelsAre

\* B maps a valuation of the nodes to another, which at a node depends on the
\* nodes below it only.
FromChildren(B, V) ==
    /\ B \in [[Nodes -> V] -> [Nodes -> V]]
    /\ \A g, h \in [Nodes -> V] : \A n \in Nodes :
          (\A c \in Children(n) : g[c] = h[c]) => B[g][n] = B[h][n]

\* Such a recursion over trees has a solution.
LEMMA ValuationExists ==
    ASSUME NEW V, NEW v \in V, NEW B, FromChildren(B, V)
    PROVE  \E g \in [Nodes -> V] : B[g] = g
<1> DEFINE Solved(g, k) == \A j \in 1..Len(Levels) : j <= k => \A n \in Levels[j] : B[g][n] = g[n]
           Reached == {k \in Nat : \E g \in [Nodes -> V] : Solved(g, k)}
<1>1. 0 \in Reached
  <2>1. [n \in Nodes |-> v] \in [Nodes -> V] /\ Solved([n \in Nodes |-> v], 0)
    BY LevelsAre
  <2> QED
    BY <2>1
<1>2. ASSUME NEW k \in Nat, k \in Reached PROVE k + 1 \in Reached
  <2>1. PICK g \in [Nodes -> V] : Solved(g, k)
    BY <1>2
  <2>2. B[g] \in [Nodes -> V]
    BY DEF FromChildren
  <2>3. ASSUME NEW j \in 1..Len(Levels), j <= k + 1, NEW n \in Levels[j]
        PROVE  B[B[g]][n] = B[g][n]
    <3>1. ASSUME NEW c \in Children(n) PROVE B[g][c] = g[c]
      <4>1. PICK i \in 1..(j - 1) : c \in Levels[i]
        BY LevelsAre, TreesAssumption
      <4>2. i \in 1..Len(Levels) /\ i <= k
        BY <2>3, <4>1, LevelsAre
      <4> QED
        BY <2>1, <4>1, <4>2
    <3>2. n \in Nodes
      BY LevelsAre
    <3> QED
      BY <2>2, <3>1, <3>2 DEF FromChildren
  <2>4. Solved(B[g], k + 1)
    BY <2>3
  <2> HIDE DEF Solved
  <2> QED
    BY <2>2, <2>4
<1>3. Nat \subseteq Reached
  <2> HIDE DEF Reached
  <2> QED
    BY <1>1, <1>2, NaturalsByInduction
<1>4. PICK g \in [Nodes -> V] : Solved(g, Len(Levels))
  <2>1. Len(Levels) \in Reached
    BY <1>3, LevelsAre
  <2> QED
    BY <2>1
<1>5. \A n \in Nodes : B[g][n] = g[n]
  BY <1>4, LevelsAre
<1>6. B[g] \in [Nodes -> V]
  BY DEF FromChildren
<1>7. B[g] = g
  BY <1>5, <1>6
<1> QED
  BY <1>7

LEMMA SubtreeIs ==
    ASSUME NEW n \in Nodes
    PROVE  Subtree(n) = {n} \union UNION {Subtree(c) : c \in Children(n)}
<1> DEFINE F == CHOOSE g : g = [m \in Nodes |-> {m} \union UNION {g[c] : c \in Children(m)}]
<1>1. \A m : Subtree(m) = F[m]
  BY DEF Subtree
<1> DEFINE V == SUBSET Nodes
           B == [g \in [Nodes -> V] |-> [m \in Nodes |-> {m} \union UNION {g[c] : c \in Children(m)}]]
<1>2. \E g \in [Nodes -> V] : B[g] = g
  <2>1. B \in [[Nodes -> V] -> [Nodes -> V]]
    <3>1. ASSUME NEW g \in [Nodes -> V], NEW m \in Nodes
          PROVE  {m} \union UNION {g[c] : c \in Children(m)} \in V
      BY LevelsAre
    <3> QED
      BY <3>1
  <2>2. ASSUME NEW g \in [Nodes -> V], NEW h \in [Nodes -> V], NEW m \in Nodes,
               \A c \in Children(m) : g[c] = h[c]
        PROVE  B[g][m] = B[h][m]
    <3>1. {g[c] : c \in Children(m)} = {h[c] : c \in Children(m)}
      BY <2>2
    <3> QED
      BY <3>1
  <2>3. FromChildren(B, V)
    <3> HIDE DEF B, V
    <3> QED
      BY <2>1, <2>2 DEF FromChildren
  <2>4. {} \in V
    OBVIOUS
  <2> HIDE DEF B, V
  <2> QED
    BY <2>3, <2>4, ValuationExists
<1>3. \E g : g = [m \in Nodes |-> {m} \union UNION {g[c] : c \in Children(m)}]
  BY <1>2
<1>4. F = [m \in Nodes |-> {m} \union UNION {F[c] : c \in Children(m)}]
  BY <1>3
<1> HIDE DEF F
<1>5. F[n] = {n} \union UNION {F[c] : c \in Children(n)}
  BY <1>4
<1> QED
  BY <1>1, <1>5

LEMMA EvalIs ==
    ASSUME NEW f, NEW n \in Nodes
    PROVE  evalRuleNode(n, f) =
              IF Children(n) = {} THEN evalRuleAtom(n, f)
              ELSE /\ \A c \in ToSet(n.all) : evalRuleNode(c, f)
                   /\ n.any # <<>> => \E c \in ToSet(n.any) : evalRuleNode(c, f)
<1> DEFINE Value(g, m) == IF Children(m) = {} THEN evalRuleAtom(m, f)
                          ELSE /\ \A c \in ToSet(m.all) : g[c]
                               /\ m.any # <<>> => \E c \in ToSet(m.any) : g[c]
           F == CHOOSE g : g = [m \in Nodes |-> Value(g, m)]
           V == BOOLEAN \union {evalRuleAtom(m, f) : m \in Nodes}
           B == [g \in [Nodes -> V] |-> [m \in Nodes |-> Value(g, m)]]
<1>1. \A m : evalRuleNode(m, f) = F[m]
  BY DEF evalRuleNode
<1>2. \E g \in [Nodes -> V] : B[g] = g
  <2>1. B \in [[Nodes -> V] -> [Nodes -> V]]
    <3>1. ASSUME NEW g, NEW m \in Nodes PROVE Value(g, m) \in V
      BY Zenon
    <3> HIDE DEF Value, V
    <3> QED
      BY <3>1
  <2>2. ASSUME NEW g \in [Nodes -> V], NEW h \in [Nodes -> V], NEW m \in Nodes,
               \A c \in Children(m) : g[c] = h[c]
        PROVE  B[g][m] = B[h][m]
    <3>1. /\ \A c \in ToSet(m.all) : g[c] = h[c]
          /\ \A c \in ToSet(m.any) : g[c] = h[c]
      BY <2>2 DEF Children
    <3>2. Value(g, m) = Value(h, m)
      BY <3>1, Zenon
    <3> HIDE DEF Value, V
    <3> QED
      BY <3>2
  <2>3. FromChildren(B, V)
    <3> HIDE DEF B, V
    <3> QED
      BY <2>1, <2>2 DEF FromChildren
  <2>4. TRUE \in V
    OBVIOUS
  <2> HIDE DEF B, V
  <2> QED
    BY <2>3, <2>4, ValuationExists
<1>3. \E g : g = [m \in Nodes |-> Value(g, m)]
  <2> HIDE DEF Value, V
  <2> QED
    BY <1>2
<1>4. F = [m \in Nodes |-> Value(F, m)]
  <2> HIDE DEF Value
  <2> QED
    BY <1>3
<1> HIDE DEF F
<1>5. F[n] = Value(F, n)
  <2> HIDE DEF Value
  <2> QED
    BY <1>4
<1> QED
  BY <1>1, <1>5, Zenon

LEMMA HoldsIs ==
    ASSUME NEW f, NEW n \in Nodes
    PROVE  Holds(n, f) =
              \/ n.op = "eq" /\ f[n.field] = n.value[2]
              \/ n.op = "in" /\ f[n.field] \in n.values
              \/ n.op = "ge" /\ f[n.field] >= n.value[2]
              \/ /\ n.op = "" /\ \A i \in DOMAIN n.all : Holds(n.all[i], f)
                 /\ n.any = <<>> \/ \E i \in DOMAIN n.any : Holds(n.any[i], f)
<1> DEFINE Value(g, m) ==
               \/ m.op = "eq" /\ f[m.field] = m.value[2]
               \/ m.op = "in" /\ f[m.field] \in m.values
               \/ m.op = "ge" /\ f[m.field] >= m.value[2]
               \/ /\ m.op = "" /\ \A i \in DOMAIN m.all : g[m.all[i]]
                  /\ m.any = <<>> \/ \E i \in DOMAIN m.any : g[m.any[i]]
           F == CHOOSE g : g = [m \in Nodes |-> Value(g, m)]
           V == BOOLEAN
           B == [g \in [Nodes -> V] |-> [m \in Nodes |-> Value(g, m)]]
<1>1. \A m : Holds(m, f) = F[m]
  BY DEF Holds
<1>2. \E g \in [Nodes -> V] : B[g] = g
  <2>1. B \in [[Nodes -> V] -> [Nodes -> V]]
    <3>1. ASSUME NEW g, NEW m \in Nodes PROVE Value(g, m) \in V
      BY Zenon
    <3> HIDE DEF Value, V
    <3> QED
      BY <3>1
  <2>2. ASSUME NEW g \in [Nodes -> V], NEW h \in [Nodes -> V], NEW m \in Nodes,
               \A c \in Children(m) : g[c] = h[c]
        PROVE  B[g][m] = B[h][m]
    <3>1. /\ \A i \in DOMAIN m.all : g[m.all[i]] = h[m.all[i]]
          /\ \A i \in DOMAIN m.any : g[m.any[i]] = h[m.any[i]]
      BY <2>2 DEF Children, ToSet
    <3>2. Value(g, m) = Value(h, m)
      BY <3>1, Zenon
    <3> HIDE DEF Value, V
    <3> QED
      BY <3>2
  <2>3. FromChildren(B, V)
    <3> HIDE DEF B, V
    <3> QED
      BY <2>1, <2>2 DEF FromChildren
  <2>4. TRUE \in V
    OBVIOUS
  <2> HIDE DEF B, V
  <2> QED
    BY <2>3, <2>4, ValuationExists
<1>3. \E g : g = [m \in Nodes |-> Value(g, m)]
  <2> HIDE DEF Value, V
  <2> QED
    BY <1>2
<1>4. F = [m \in Nodes |-> Value(F, m)]
  <2> HIDE DEF Value
  <2> QED
    BY <1>3
<1> HIDE DEF F
<1>5. F[n] = Value(F, n)
  <2> HIDE DEF Value
  <2> QED
    BY <1>4
<1> QED
  BY <1>1, <1>5, Zenon

LEMMA SubtreesBelow ==
    ASSUME NEW n \in Nodes
    PROVE  n \in Subtree(n) /\ \A c \in Children(n) : c \in Nodes /\ Subtree(c) \subseteq Subtree(n)
BY SubtreeIs, LevelsAre

\* A validated node is a group whose parts are valid, or a condition.
LEMMA ValidIs ==
    ASSUME NEW n \in Nodes, validateRuleNode(n)
    PROVE  /\ (Children(n) # {}) # (n.op # "") /\ (n.op # "" => validateRuleAtom(n))
           /\ \A c \in Children(n) : validateRuleNode(c)
<1>1. n \in Subtree(n) /\ \A c \in Children(n) : Subtree(c) \subseteq Subtree(n)
  BY SubtreesBelow
<1>2. (Children(n) # {}) # (n.op # "") /\ (n.op # "" => validateRuleAtom(n))
  BY <1>1, Zenon DEF validateRuleNode
<1>3. ASSUME NEW c \in Children(n) PROVE validateRuleNode(c)
  <2>1. \A m \in Subtree(c) : m \in Subtree(n)
    BY <1>1
  <2> QED
    BY <2>1, Zenon DEF validateRuleNode
<1> QED
  BY <1>2, <1>3, Zenon

\* The evaluation of a validated tree is what its words mean.
LEMMA EvaluationMeans ==
    ASSUME NEW f, NEW n \in Nodes, validateRuleNode(n)
    PROVE  evalRuleNode(n, f) <=> Holds(n, f)
<1> DEFINE S == {m \in Nodes : validateRuleNode(m) => (evalRuleNode(m, f) <=> Holds(m, f))}
<1>1. ASSUME NEW m \in Nodes, Children(m) \subseteq S, validateRuleNode(m)
      PROVE  evalRuleNode(m, f) <=> Holds(m, f)
  <2>1. CASE Children(m) = {}
    <3>1. m.op # "" /\ validateRuleAtom(m)
      BY <1>1, <2>1, ValidIs
    <3>2. m.op \in {"eq", "in", "ge"}
      BY <3>1 DEF validateRuleAtom
    <3>3. evalRuleNode(m, f) = evalRuleAtom(m, f)
      BY <2>1, EvalIs, Zenon
    <3>4. Holds(m, f) <=> evalRuleAtom(m, f)
      <4>1. Holds(m, f) <=> \/ m.op = "eq" /\ f[m.field] = m.value[2]
                            \/ m.op = "in" /\ f[m.field] \in m.values
                            \/ m.op = "ge" /\ f[m.field] >= m.value[2]
        BY <3>1, HoldsIs, Zenon
      <4>2. CASE m.op = "eq"
        BY <4>1, <4>2 DEF evalRuleAtom
      <4>3. CASE m.op = "in"
        BY <4>1, <4>3 DEF evalRuleAtom
      <4>4. CASE m.op = "ge"
        BY <4>1, <4>4 DEF evalRuleAtom
      <4> QED
        BY <3>2, <4>2, <4>3, <4>4
    <3> QED
      BY <3>3, <3>4, Zenon
  <2>2. CASE Children(m) # {}
    <3>1. m.op = ""
      BY <1>1, <2>2, ValidIs
    <3>2. \A c \in Children(m) : evalRuleNode(c, f) <=> Holds(c, f)
      BY <1>1, ValidIs, Zenon
    <3>3. m.all \in Seq(Nodes) /\ m.any \in Seq(Nodes)
      BY TreesAssumption
    <3>4. /\ (\A c \in ToSet(m.all) : evalRuleNode(c, f)) <=> \A i \in DOMAIN m.all : Holds(m.all[i], f)
          /\ (\E c \in ToSet(m.any) : evalRuleNode(c, f)) <=> \E i \in DOMAIN m.any : Holds(m.any[i], f)
      BY <3>2, Zenon DEF Children, ToSet
    <3>5. Holds(m, f) <=> /\ \A i \in DOMAIN m.all : Holds(m.all[i], f)
                          /\ m.any = <<>> \/ \E i \in DOMAIN m.any : Holds(m.any[i], f)
      <4>1. m.op # "eq" /\ m.op # "in" /\ m.op # "ge"
        BY <3>1
      <4> QED
        BY <3>1, <4>1, HoldsIs, Zenon
    <3>6. evalRuleNode(m, f) <=> /\ \A c \in ToSet(m.all) : evalRuleNode(c, f)
                                 /\ m.any # <<>> => \E c \in ToSet(m.any) : evalRuleNode(c, f)
      BY <2>2, EvalIs, Zenon
    <3> QED
      BY <3>4, <3>5, <3>6, Zenon
  <2> QED
    BY <2>1, <2>2
<1>2. Nodes \subseteq S
  <2>1. \A m \in Nodes : Children(m) \subseteq S => m \in S
    BY <1>1, Zenon
  <2> HIDE DEF S
  <2> QED
    BY <2>1, NodesByInduction
<1> QED
  BY <1>2, Zenon

\* Factors on the same side of each threshold of a tree.
EnumFields == {"confidence", "kev", "criticality", "exposure"}
SameCell(f, g, n) ==
    /\ \A field \in EnumFields : f[field] = g[field]
    /\ \A field \in DOMAIN Uppers : \A t \in collectRuleThresholds(n, field) :
          f[field] >= t <=> g[field] >= t

LEMMA CellsDecide ==
    ASSUME NEW f, NEW g, NEW n \in Nodes, validateRuleNode(n), SameCell(f, g, n)
    PROVE  Holds(n, f) <=> Holds(n, g)
<1> DEFINE S == {m \in Nodes : validateRuleNode(m) /\ SameCell(f, g, m) => (Holds(m, f) <=> Holds(m, g))}
<1>1. ASSUME NEW m \in Nodes, Children(m) \subseteq S, validateRuleNode(m), SameCell(f, g, m)
      PROVE  Holds(m, f) <=> Holds(m, g)
  <2>1. CASE Children(m) = {}
    <3>1. m.op # "" /\ validateRuleAtom(m)
      BY <1>1, <2>1, ValidIs
    <3>2. \A x \in {f, g} : Holds(m, x) <=> \/ m.op = "eq" /\ x[m.field] = m.value[2]
                                            \/ m.op = "in" /\ x[m.field] \in m.values
                                            \/ m.op = "ge" /\ x[m.field] >= m.value[2]
      BY <3>1, HoldsIs, Zenon
    <3>3. m.op \in {"eq", "in"} => m.field \in EnumFields
      BY <3>1, FactorsAssumption DEF validateRuleAtom, EnumFields
    <3>4. m.op = "ge" => m.field \in DOMAIN Uppers /\ m.value[2] \in collectRuleThresholds(m, m.field)
      BY <3>1, SubtreesBelow DEF validateRuleAtom, collectRuleThresholds
    <3>5. CASE m.op \in {"eq", "in"}
      <4>1. f[m.field] = g[m.field]
        BY <1>1, <3>3, <3>5 DEF SameCell
      <4>2. m.op # "ge"
        BY <3>5
      <4> QED
        BY <3>2, <4>1, <4>2, Zenon
    <3>6. CASE m.op = "ge"
      <4>1. f[m.field] >= m.value[2] <=> g[m.field] >= m.value[2]
        BY <1>1, <3>4, <3>6, Zenon DEF SameCell
      <4>2. m.op # "eq" /\ m.op # "in"
        BY <3>6
      <4> QED
        BY <3>2, <4>1, <4>2, Zenon
    <3>7. m.op \in {"eq", "in", "ge"}
      BY <3>1 DEF validateRuleAtom
    <3> QED
      BY <3>5, <3>6, <3>7
  <2>2. CASE Children(m) # {}
    <3>1. m.op = ""
      BY <1>1, <2>2, ValidIs
    <3>2. ASSUME NEW c \in Children(m) PROVE Holds(c, f) <=> Holds(c, g)
      <4>1. validateRuleNode(c)
        BY <1>1, ValidIs
      <4>2. Subtree(c) \subseteq Subtree(m)
        BY SubtreesBelow
      <4>3. \A field : collectRuleThresholds(c, field) \subseteq collectRuleThresholds(m, field)
        BY <4>2 DEF collectRuleThresholds
      <4>4. SameCell(f, g, c)
        BY <1>1, <4>3, Zenon DEF SameCell
      <4> QED
        BY <1>1, <4>1, <4>4, Zenon
    <3>3. /\ \A i \in DOMAIN m.all : Holds(m.all[i], f) <=> Holds(m.all[i], g)
          /\ \A i \in DOMAIN m.any : Holds(m.any[i], f) <=> Holds(m.any[i], g)
      BY <3>2, Zenon DEF Children, ToSet
    <3>4. m.op # "eq" /\ m.op # "in" /\ m.op # "ge"
      BY <3>1
    <3>5. \A x \in {f, g} :
             Holds(m, x) <=> /\ \A i \in DOMAIN m.all : Holds(m.all[i], x)
                             /\ m.any = <<>> \/ \E i \in DOMAIN m.any : Holds(m.any[i], x)
      BY <3>1, <3>4, HoldsIs, Zenon
    <3> QED
      BY <3>3, <3>5, Zenon
  <2> QED
    BY <2>1, <2>2
<1>2. Nodes \subseteq S
  <2>1. \A m \in Nodes : Children(m) \subseteq S => m \in S
    BY <1>1, Zenon
  <2> HIDE DEF S
  <2> QED
    BY <2>1, NodesByInduction
<1> QED
  BY <1>2, Zenon

LEMMA GreatestOf ==
    ASSUME NEW u \in Nat, NEW T, T \subseteq 0..u, T # {}
    PROVE  Max(T) \in T /\ \A x \in T : x <= Max(T)
<1> DEFINE back == {n \in Nat : \E x \in T : n = u - x}
<1>1. PICK n \in back : \A x \in back : n <= x
  <2>1. \A x \in T : u - x \in Nat
    OBVIOUS
  <2>2. back # {}
    BY <2>1
  <2>3. back \in SUBSET Nat
    OBVIOUS
  <2> HIDE DEF back
  <2> QED
    BY <2>2, <2>3, LeastNatural
<1>2. PICK m \in T : n = u - m
  BY <1>1
<1>3. ASSUME NEW x \in T PROVE x <= m
  <2>1. u - x \in back
    OBVIOUS
  <2> QED
    BY <1>1, <1>2, <2>1
<1>4. \A x \in T : m >= x
  BY <1>2, <1>3
<1> HIDE DEF back
<1>5. Max(T) \in T /\ \A x \in T : Max(T) >= x
  BY <1>4 DEF Max
<1> QED
  BY <1>5

\* The probes of a score lie in its range, and each value of the range is on
\* the same side of every threshold as one of them.
LEMMA ProbesHitCells ==
    ASSUME NEW T, T \subseteq Int, NEW u \in Nat
    PROVE  /\ numericProbes(T, u) \subseteq 0..u
           /\ \A v \in 0..u : \E p \in numericProbes(T, u) : \A t \in T : v >= t <=> p >= t
<1> DEFINE used == {t \in T : t > 0 /\ t <= u}
           below(t) == {0} \union {x \in used : x < t}
           last == Max({0} \union used)
<1>0. used \subseteq 0..u /\ 0 \in 0..u /\ u \in 0..u
  <2>1. \A x \in used : x \in Int /\ x > 0 /\ x <= u
    OBVIOUS
  <2> HIDE DEF used
  <2> QED
    BY <2>1
<1>1. \A t : below(t) \subseteq 0..u /\ below(t) # {}
  <2>1. \A t : 0 \in below(t)
    OBVIOUS
  <2>2. \A t : below(t) \subseteq 0..u
    <3> HIDE DEF used
    <3> QED
      BY <1>0
  <2> HIDE DEF below
  <2> QED
    BY <2>1, <2>2
<1>2. \A t : Max(below(t)) \in 0..u
  <2> HIDE DEF below
  <2> QED
    BY <1>1, GreatestOf
<1>3. last \in 0..u
  <2> HIDE DEF used
  <2>1. {0} \union used \subseteq 0..u
    BY <1>0
  <2>2. {0} \union used # {}
    OBVIOUS
  <2> QED
    BY <2>1, <2>2, GreatestOf
<1>4. \A x, y \in 0..u : (x + y) \div 2 \in 0..u
  OBVIOUS
<1>5. numericProbes(T, u) = {0} \union used \union {(Max(below(t)) + t) \div 2 : t \in used}
                               \union (IF last < u THEN {(last + u) \div 2} ELSE {})
  BY DEF numericProbes
<1>6. numericProbes(T, u) \subseteq 0..u
  <2>2. {(Max(below(t)) + t) \div 2 : t \in used} \subseteq 0..u
    <3> HIDE DEF below, used
    <3> QED
      BY <1>0, <1>2, <1>4
  <2>3. (IF last < u THEN {(last + u) \div 2} ELSE {}) \subseteq 0..u
    <3> HIDE DEF last
    <3> QED
      BY <1>0, <1>3, <1>4
  <2> HIDE DEF used, below, last
  <2> QED
    BY <1>0, <1>5, <2>2, <2>3
<1>7. ASSUME NEW v \in 0..u
      PROVE  \E p \in numericProbes(T, u) : \A t \in T : v >= t <=> p >= t
  <2> DEFINE low == {0} \union {x \in used : x <= v}
             p == Max(low)
  <2>1. low \subseteq 0..u /\ low # {} /\ low \subseteq {0} \union used /\ \A x \in low : x <= v
    <3> HIDE DEF used
    <3>1. low \subseteq {0} \union used /\ \A x \in low : x <= v
      OBVIOUS
    <3>2. 0 \in low
      OBVIOUS
    <3> HIDE DEF low
    <3> QED
      BY <1>0, <3>1, <3>2
  <2>2. p \in low /\ \A x \in low : x <= p
    <3> HIDE DEF low
    <3> QED
      BY <2>1, GreatestOf
  <2>3. 0 \in low
    OBVIOUS
  <2>4. p \in 0..u /\ p <= v /\ 0 <= p
    <3> HIDE DEF low, p
    <3> QED
      BY <2>1, <2>2, <2>3
  <2>5. p \in numericProbes(T, u)
    <3> HIDE DEF low, p, used, below, last
    <3> QED
      BY <1>5, <2>1, <2>2
  <2>6. ASSUME NEW t \in T PROVE v >= t <=> p >= t
    <3>1. t \in Int /\ v \in Int /\ p \in Int
      <4> HIDE DEF p
      <4> QED
        BY <2>4
    <3>2. ASSUME v >= t, t > 0 PROVE p >= t
      <4>1. t \in low
        BY <3>1, <3>2
      <4> HIDE DEF low, p
      <4> QED
        BY <2>2, <3>1, <4>1
    <3> HIDE DEF p
    <3> QED
      BY <2>4, <3>1, <3>2
  <2> HIDE DEF p
  <2> QED
    BY <2>5, <2>6
<1> QED
  BY <1>6, <1>7

LEMMA ThresholdsAreNumbers ==
    ASSUME NEW n \in Nodes, NEW field PROVE collectRuleThresholds(n, field) \subseteq Int
<1> DEFINE S == {m \in Nodes : Subtree(m) \subseteq Nodes}
<1>1. ASSUME NEW m \in Nodes, Children(m) \subseteq S PROVE Subtree(m) \subseteq Nodes
  BY <1>1, SubtreeIs
<1>2. Nodes \subseteq S
  <2>1. \A m \in Nodes : Children(m) \subseteq S => m \in S
    BY <1>1
  <2> HIDE DEF S
  <2> QED
    BY <2>1, NodesByInduction
<1> QED
  BY <1>2, TreesAssumption DEF collectRuleThresholds

\* Every cell of the factors holds a probe.
LEMMA CellsAreProbed ==
    ASSUME chosen \in Seq(DOMAIN Definitions)
    PROVE  /\ rulesetProbeFactors \subseteq AllFactors
           /\ \A f \in AllFactors : \E g \in rulesetProbeFactors :
                 \A i \in DOMAIN chosen : SameCell(f, g, Definition(i))
<1> DEFINE T(field) == UNION {collectRuleThresholds(Definition(i), field) : i \in DOMAIN chosen}
           probes(field) == numericProbes(T(field), Uppers[field])
<1>1. ASSUME NEW field \in {"cvss", "epss"}
      PROVE  /\ probes(field) \subseteq 0..Uppers[field]
             /\ \A v \in 0..Uppers[field] : \E p \in probes(field) : \A t \in T(field) : v >= t <=> p >= t
  <2>1. \A i \in DOMAIN chosen : Definition(i) \in Nodes
    BY TreesAssumption DEF Definition
  <2>2. T(field) \subseteq Int
    BY <2>1, ThresholdsAreNumbers
  <2>3. Uppers[field] \in Nat
    BY FactorsAssumption
  <2> HIDE DEF T
  <2> QED
    BY <2>2, <2>3, ProbesHitCells
<1>2. rulesetProbeFactors = Factors(probes("cvss"), probes("epss"))
  BY DEF rulesetProbeFactors
<1> HIDE DEF probes
<1>3. rulesetProbeFactors \subseteq AllFactors
  BY <1>1, <1>2 DEF AllFactors, Factors
<1>4. ASSUME NEW f \in AllFactors
      PROVE  \E g \in rulesetProbeFactors : \A i \in DOMAIN chosen : SameCell(f, g, Definition(i))
  <2>1. f["cvss"] \in 0..Uppers["cvss"] /\ f["epss"] \in 0..Uppers["epss"]
    BY DEF AllFactors, Factors
  <2>2. PICK p \in probes("cvss") : \A t \in T("cvss") : f["cvss"] >= t <=> p >= t
    <3> HIDE DEF T
    <3> QED
      BY <1>1, <2>1
  <2>3. PICK q \in probes("epss") : \A t \in T("epss") : f["epss"] >= t <=> q >= t
    <3> HIDE DEF T
    <3> QED
      BY <1>1, <2>1
  <2> DEFINE g == [confidence |-> f["confidence"], kev |-> f["kev"], cvss |-> p, epss |-> q,
                   criticality |-> f["criticality"], exposure |-> f["exposure"]]
  <2>4. g \in rulesetProbeFactors
    BY <1>2, <2>2, <2>3 DEF AllFactors, Factors
  <2>5. /\ \A x \in EnumFields : f[x] = g[x]
        /\ g["cvss"] = p /\ g["epss"] = q
    BY DEF EnumFields
  <2>6. ASSUME NEW i \in DOMAIN chosen PROVE SameCell(f, g, Definition(i))
    <3>1. \A field : collectRuleThresholds(Definition(i), field) \subseteq T(field)
      OBVIOUS
    <3>2. DOMAIN Uppers = {"cvss", "epss"}
      BY FactorsAssumption
    <3>3. ASSUME NEW t \in collectRuleThresholds(Definition(i), "cvss")
          PROVE  f["cvss"] >= t <=> g["cvss"] >= t
      <4> HIDE DEF T, g
      <4> QED
        BY <2>2, <2>5, <3>1
    <3>4. ASSUME NEW t \in collectRuleThresholds(Definition(i), "epss")
          PROVE  f["epss"] >= t <=> g["epss"] >= t
      <4> HIDE DEF T, g
      <4> QED
        BY <2>3, <2>5, <3>1
    <3> HIDE DEF g
    <3> QED
      BY <2>5, <3>2, <3>3, <3>4, Zenon DEF SameCell
  <2> HIDE DEF g
  <2> QED
    BY <2>4, <2>6
<1> QED
  BY <1>3, <1>4

\* Four definitions with the ids of the classes.
FourRules == /\ chosen \in Seq(DOMAIN Definitions) /\ Len(chosen) = 4
             /\ disabled \subseteq 1..4 /\ WellFormed

\* The i-th class is awarded to f.
Wins(i, f) == /\ i < 4 => i \notin disabled /\ Holds(Definition(i), f)
              /\ \A j \in 1..(i - 1) : j \in disabled \/ ~Holds(Definition(j), f)

LEMMA RulesAreValid ==
    ASSUME FourRules
    PROVE  /\ DOMAIN chosen = 1..4
           /\ \A i \in 1..4 : Definition(i) \in Nodes /\ validateRuleNode(Definition(i))
<1>1. DOMAIN chosen = 1..4
  BY DEF FourRules
<1>2. \A i \in 1..4 : Definition(i) \in Nodes
  <2>1. \A i \in 1..4 : chosen[i] \in DOMAIN Definitions
    BY <1>1, ElementOfSeq DEF FourRules
  <2>2. \A k \in DOMAIN Definitions : Definitions[k] \in Nodes
    BY TreesAssumption
  <2> QED
    BY <2>1, <2>2 DEF Definition
<1>3. \A i \in 1..4 : validateRuleNode(Definition(i))
  BY <1>1, Zenon DEF FourRules, WellFormed
<1> QED
  BY <1>1, <1>2, <1>3, Zenon

LEMMA PriorityIsFirstMatch ==
    ASSUME FourRules, NEW f, NEW i \in 1..4
    PROVE  EvaluatePriority(f) = Classes[i] <=> Wins(i, f)
<1> DEFINE M == {j \in DOMAIN chosen \ disabled : evalRuleNode(Definition(j), f)}
<1>1. EvaluatePriority(f) = IF M = {} THEN "P4" ELSE Classes[Min(M)]
  BY Zenon DEF EvaluatePriority, FourRules, WellFormed
<1>2. \A j \in 1..4 : j \in M <=> j \notin disabled /\ Holds(Definition(j), f)
  BY RulesAreValid, EvaluationMeans, Zenon
<1>3. M \subseteq 1..4
  BY RulesAreValid
<1>4. Wins(i, f) <=> /\ i < 4 => i \in M
                     /\ \A j \in 1..(i - 1) : j \notin M
  <2>1. \A j \in 1..(i - 1) : j \in 1..4
    OBVIOUS
  <2> HIDE DEF M
  <2> QED
    BY <1>2, <2>1, Zenon DEF Wins
<1> HIDE DEF M
<1>5. CASE M = {}
  <2>1. Wins(i, f) <=> i = 4
    BY <1>4, <1>5
  <2>2. EvaluatePriority(f) = Classes[4]
    BY <1>1, <1>5 DEF Classes
  <2>3. Classes[i] = Classes[4] <=> i = 4
    BY DEF Classes
  <2> QED
    BY <2>1, <2>2, <2>3
<1>6. CASE M # {}
  <2>1. Min(M) \in M /\ \A j \in M : Min(M) <= j
    <3>1. M \in SUBSET Nat
      BY <1>3
    <3>2. \E m \in M : \A x \in M : m <= x
      BY <1>6, <3>1, LeastNatural
    <3> QED
      BY <3>2 DEF Min
  <2>2. Wins(i, f) <=> i = Min(M)
    <3>1. Min(M) \in 1..4
      BY <1>3, <2>1
    <3> QED
      BY <1>3, <1>4, <2>1, <3>1
  <2>3. \A k \in 1..4 : Classes[k] = Classes[i] <=> k = i
    BY DEF Classes
  <2>4. EvaluatePriority(f) = Classes[Min(M)] /\ Min(M) \in 1..4
    BY <1>1, <1>3, <1>6, <2>1
  <2> QED
    BY <2>2, <2>3, <2>4
<1> QED
  BY <1>5, <1>6

\* What the probes find is what some factors are awarded.
LEMMA ProbesFindClasses ==
    ASSUME FourRules
    PROVE  validateRulesetDistinct <=> \A i \in 1..4 : Awarded(i)
<1>1. \A i \in 1..4 : Awarded(i) <=> \E f \in AllFactors : Wins(i, f)
  BY Zenon DEF Awarded, Wins
<1>2. ASSUME NEW i \in 1..4, NEW f, NEW g, \A j \in 1..4 : SameCell(f, g, Definition(j)), Wins(i, f)
      PROVE  Wins(i, g)
  <2>1. \A j \in 1..4 : Holds(Definition(j), f) <=> Holds(Definition(j), g)
    BY <1>2, RulesAreValid, CellsDecide, Zenon
  <2>2. \A j \in 1..(i - 1) : j \in 1..4
    OBVIOUS
  <2> QED
    BY <1>2, <2>1, <2>2, Zenon DEF Wins
<1>3. ASSUME NEW i \in 1..4
      PROVE  Awarded(i) <=> \E g \in rulesetProbeFactors : EvaluatePriority(g) = Classes[i]
  <2>1. ASSUME NEW g \in rulesetProbeFactors, EvaluatePriority(g) = Classes[i] PROVE Awarded(i)
    <3>1. Wins(i, g)
      BY <2>1, PriorityIsFirstMatch
    <3>2. g \in AllFactors
      BY CellsAreProbed DEF FourRules
    <3> QED
      BY <1>1, <3>1, <3>2
  <2>2. ASSUME Awarded(i) PROVE \E g \in rulesetProbeFactors : EvaluatePriority(g) = Classes[i]
    <3>1. PICK f \in AllFactors : Wins(i, f)
      BY <1>1, <2>2
    <3>2. PICK g \in rulesetProbeFactors : \A j \in 1..4 : SameCell(f, g, Definition(j))
      BY CellsAreProbed, RulesAreValid DEF FourRules
    <3> QED
      BY <1>2, <3>1, <3>2, PriorityIsFirstMatch
  <2> QED
    BY <2>1, <2>2
<1>4. ToSet(Classes) = {Classes[i] : i \in 1..4}
  BY DEF ToSet, Classes
<1>5. validateRulesetDistinct <=> \A i \in 1..4 : \E g \in rulesetProbeFactors : EvaluatePriority(g) = Classes[i]
  BY <1>4 DEF validateRulesetDistinct
<1> QED
  BY <1>3, <1>5

\* A rule set is judged once, and as it was handed in.
RulesetInv ==
    /\ chosen \in Seq(DOMAIN Definitions) /\ disabled \subseteq 1..4
    /\ verdict # "draft" => /\ Len(chosen) = Len(ruleIds)
                            /\ verdict = "published" <=> ValidateRuleset

LEMMA VerdictStays ==
    ASSUME UNCHANGED <<ruleIds, disabled, chosen>> PROVE ValidateRuleset' = ValidateRuleset
<1>1. \A i : Definition(i)' = Definition(i)
  BY DEF Definition
<1>2. WellFormed' = WellFormed
  BY DEF WellFormed, Definition
<1>3. rulesetProbeFactors' = rulesetProbeFactors
  BY DEF rulesetProbeFactors, Definition
<1>4. \A f : EvaluatePriority(f)' = EvaluatePriority(f)
  BY DEF EvaluatePriority, Definition
<1>5. validateRulesetDistinct' = validateRulesetDistinct
  BY <1>3, <1>4 DEF validateRulesetDistinct
<1> QED
  BY <1>2, <1>5 DEF ValidateRuleset

LEMMA RulesetStays == RulesetSpec => []RulesetInv
<1>1. RulesetInit => RulesetInv
  BY DEF RulesetInit, RulesetInv
<1>2. ASSUME RulesetInv, [RulesetNext]_rulesetVars PROVE RulesetInv'
  <2>1. ASSUME NEW d \in DOMAIN Definitions, Choose(d) PROVE RulesetInv'
    <3>1. Len(chosen) \in Nat /\ Append(chosen, d) \in Seq(DOMAIN Definitions)
      BY <1>2 DEF RulesetInv
    <3>2. verdict = "draft"
      BY <1>2, <2>1, <3>1 DEF RulesetInv, Choose
    <3> QED
      BY <1>2, <2>1, <3>1, <3>2 DEF RulesetInv, Choose
  <2>2. CASE PublishPriorityRules
    <3>1. UNCHANGED <<ruleIds, disabled, chosen>> /\ ValidateRuleset' = ValidateRuleset
      BY <2>2, VerdictStays DEF PublishPriorityRules
    <3>2. verdict' = "published" <=> ValidateRuleset
      BY <2>2 DEF PublishPriorityRules
    <3> QED
      BY <1>2, <2>2, <3>1, <3>2 DEF RulesetInv, PublishPriorityRules
  <2>3. CASE UNCHANGED rulesetVars
    <3>1. UNCHANGED <<ruleIds, disabled, chosen, verdict>> /\ ValidateRuleset' = ValidateRuleset
      BY <2>3, VerdictStays DEF rulesetVars
    <3> QED
      BY <1>2, <3>1 DEF RulesetInv
  <2> QED
    BY <1>2, <2>1, <2>2, <2>3 DEF RulesetNext
<1> QED
  BY <1>1, <1>2, PTL DEF RulesetSpec

\* For any definitions, trees of any height with any thresholds, exactly the
\* well-formed rule sets are published that award each class to some factors
\* (priority_rules.go, validateRulesetDistinct).
THEOREM ProbesDecideClasses == RulesetSpec => []ProbesDecide
<1>1. ASSUME RulesetInv PROVE ProbesDecide
  <2> SUFFICES ASSUME verdict # "draft", WellFormed
               PROVE  verdict = "published" <=> \A i \in 1..4 : Awarded(i)
    BY DEF ProbesDecide
  <2>1. FourRules
    <3>1. Len(ruleIds) = 4
      BY DEF WellFormed, Classes
    <3> QED
      BY <1>1, <3>1 DEF RulesetInv, FourRules
  <2>2. verdict = "published" <=> validateRulesetDistinct
    BY <1>1 DEF RulesetInv, ValidateRuleset
  <2> QED
    BY <2>1, <2>2, ProbesFindClasses
<1> QED
  BY <1>1, RulesetStays, PTL
===============================================================================

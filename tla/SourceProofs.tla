----------------------------- MODULE SourceProofs -----------------------------
(***************************************************************************)
(* Proofs about the ways into the database: the transactions that enqueue  *)
(* source.fetch jobs (SourceSchedule), for any number of sources,          *)
(* schedulers, triggers and failures, the passes over documents and the    *)
(* quarantine (SourceIntake), for any number of documents, records,        *)
(* defects, workers, clerks and failures, the KEV catalogs (KevCatalog),   *)
(* for any sequence of catalogs and any number of workers, and the files   *)
(* of a full-set source (FullSetIngest), for any number of fetches.        *)
(***************************************************************************)
EXTENDS SourceSchedule, SourceIntake, KevCatalog, FullSetIngest, FiniteSetTheorems, SequenceTheorems, TLAPS

-------------------------------------------------------------------------------
(* Finite sets *)

\* A finite set of integers has a greatest element: one that the fewest
\* elements exceed.
LEMMA GreatestOf ==
    ASSUME NEW T \in SUBSET Int, IsFiniteSet(T), T # {}
    PROVE  \E m \in T : \A x \in T : x <= m
<1> DEFINE Above(m) == {x \in T : x > m}
           Sizes == {Cardinality(Above(m)) : m \in T}
           Below == {p \in Nat \X Nat : p[1] < p[2]}
<1>1. \A m \in T : IsFiniteSet(Above(m)) /\ Cardinality(Above(m)) \in Nat
  <2> SUFFICES ASSUME NEW m \in T PROVE IsFiniteSet(Above(m)) /\ Cardinality(Above(m)) \in Nat
    OBVIOUS
  <2>1. Above(m) \in SUBSET T
    OBVIOUS
  <2> HIDE DEF Above
  <2> QED
    BY <2>1, FS_Subset, FS_CardinalityType
<1>2. Sizes \subseteq Nat /\ Sizes # {}
  BY <1>1
<1>3. IsWellFoundedOn(Below, Nat)
  BY NatLessThanWellFounded DEF OpToRel
<1>4. PICK n \in Sizes : \A k \in Sizes : <<k, n>> \notin Below
  <2> HIDE DEF Below, Sizes
  <2> QED
    BY <1>2, <1>3, WFMin
<1>5. PICK m \in T : n = Cardinality(Above(m))
  OBVIOUS
<1> SUFFICES ASSUME NEW x \in T, ~(x <= m) PROVE FALSE
  BY <1>5
<1>6. Above(x) \in SUBSET Above(m) /\ Above(x) # Above(m)
  <2>1. x > m /\ x \in Int /\ m \in Int
    OBVIOUS
  <2>2. \A y \in T : y > x => y > m
    BY <2>1
  <2>3. x \in Above(m) /\ x \notin Above(x)
    BY <2>1
  <2> QED
    BY <2>2, <2>3
<1>7. Cardinality(Above(x)) < n
  <2>1. IsFiniteSet(Above(m)) /\ Cardinality(Above(m)) \in Nat /\ Cardinality(Above(x)) \in Nat
    BY <1>1
  <2> HIDE DEF Above
  <2>2. /\ Cardinality(Above(x)) <= Cardinality(Above(m))
        /\ Cardinality(Above(m)) = Cardinality(Above(x)) => Above(m) = Above(x)
    BY <1>6, <2>1, FS_Subset
  <2> QED
    BY <1>5, <1>6, <2>1, <2>2
<1>8. Cardinality(Above(x)) \in Sizes /\ Cardinality(Above(x)) \in Nat /\ n \in Nat
  BY <1>1, <1>2
<1>9. <<Cardinality(Above(x)), n>> \in Below
  BY <1>7, <1>8
<1> QED
  BY <1>4, <1>8, <1>9

\* SetToSeq lists all elements of a finite set.
LEMMA SetToSeqLists ==
    ASSUME NEW S, IsFiniteSet(S)
    PROVE  /\ Cardinality(S) \in Nat
           /\ SetToSeq(S) \in [1..Cardinality(S) -> S]
           /\ \A x \in S : \E i \in 1..Cardinality(S) : SetToSeq(S)[i] = x
<1> DEFINE n == Cardinality(S)
           q == SetToSeq(S)
<1>1. n \in Nat /\ ExistsBijection(1..n, S)
  BY FS_CardinalityType
<1>2. \E f \in [1..n -> S] : IsInjective(f)
  BY <1>1 DEF ExistsBijection, Bijection, Injection, IsInjective
<1>3. q \in [1..n -> S] /\ IsInjective(q)
  BY <1>2 DEF SetToSeq
<1>4. Cardinality(1..n) = n
  BY <1>1, FS_Interval
<1> HIDE DEF n, q
<1>5. q \in Injection(1..n, S)
  BY <1>3 DEF Injection, IsInjective
<1>6. q \in Surjection(1..n, S)
  BY <1>4, <1>5, FS_Injection DEF n
<1>7. \A x \in S : \E i \in 1..n : q[i] = x
  BY <1>6 DEF Surjection
<1> QED
  BY <1>1, <1>3, <1>7 DEF n, q

-------------------------------------------------------------------------------
(* SourceSchedule *)

ScheduleTypes ==
    /\ tick \in 0..LastTick /\ enabled \subseteq Sources
    /\ stage \in [Appenders -> {"idle", "running", "succeeded"}]
    /\ plan \in [Appenders -> Seq(Keys)]
    /\ pos \in [Appenders -> Nat \ {0}]
    /\ absent \in [Appenders -> BOOLEAN] /\ aborted \in [Appenders -> BOOLEAN]
    /\ uncommitted \in [Appenders -> SUBSET Keys]

\* A transaction takes its keys in the order of their sources, holds only keys
\* it has passed, and has passed only keys that are there unless PostgreSQL has
\* aborted it; outside of a transaction nothing is held.
\* A plan names its sources in ascending order.
InOrder(a) == \A i, j \in 1..Len(plan[a]) : i < j => plan[a][i][2] < plan[a][j][2]

TxOK(a) ==
    /\ InOrder(a)
    /\ absent[a] => pos[a] <= Len(plan[a]) /\ stage[a] = "running"
    /\ \A k \in uncommitted[a] : \E i \in 1..Len(plan[a]) : i < pos[a] /\ plan[a][i] = k
    /\ stage[a] # "running" => pos[a] = 1 /\ ~aborted[a]
    /\ stage[a] = "running" /\ ~aborted[a] =>
         \A i \in 1..Len(plan[a]) : i < pos[a] => plan[a][i] \in jobKeys \union uncommitted[a]
    /\ stage[a] = "succeeded" => \A i \in 1..Len(plan[a]) : plan[a][i] \in jobKeys

ScheduleInv == ScheduleTypes /\ \A a \in Appenders : TxOK(a)

\* A key is about one source.
LEMMA KeysHaveSources == \A k \in Keys : k[2] \in Sources
BY RequestsAssumption DEF Keys, PlanKeys, ManualKey

\* The slot of an instant is not after it.
LEMMA SlotBound ==
    ASSUME NEW t \in Nat, NEW p \in Nat, p > 0
    PROVE  t - (t % p) \in 0..t
<1> DEFINE q == t \div p
           r == t % p
<1>1. q \in Int /\ r \in Int /\ t = p * q + r /\ 0 <= r /\ r < p
  OBVIOUS
<1> HIDE DEF q, r
<1>2. q >= 0
  <2> SUFFICES ASSUME q <= 0 - 1 PROVE FALSE
    BY <1>1
  <2>1. p * q <= p * (0 - 1)
    BY <1>1
  <2> QED
    BY <1>1, <2>1
<1>3. p * q >= 0
  BY <1>1, <1>2
<1>4. t - r \in 0..t
  BY <1>1, <1>3
<1> QED
  BY <1>4 DEF r

\* The list of a scan is a sequence of keys in the order of their sources.
LEMMA ScanPlans ==
    ASSUME NEW S \in SUBSET Sources, \A s \in S : Period[s] # 0,
           NEW list \in InScanOrder(S), NEW t \in 0..LastTick
    PROVE  LET keys == [i \in DOMAIN list |-> PlanKey(list[i], t)]
           IN  /\ keys \in Seq(Keys)
               /\ \A i, j \in 1..Len(keys) : i < j => keys[i][2] < keys[j][2]
<1> DEFINE n == Cardinality(S)
           keys == [i \in DOMAIN list |-> PlanKey(list[i], t)]
<1>1. n \in Nat
  BY FS_Subset, FS_CardinalityType, SourcesAssumption
<1> HIDE DEF n
<1>2. list \in [1..n -> S] /\ \A i, j \in 1..n : i < j => list[i] < list[j]
  BY DEF InScanOrder, n
<1>3. \A s \in S : PlanKey(s, t) \in Keys /\ PlanKey(s, t)[2] = s
  <2> SUFFICES ASSUME NEW s \in S PROVE PlanKey(s, t) \in Keys /\ PlanKey(s, t)[2] = s
    OBVIOUS
  <2>1. Period[s] \in Nat /\ Period[s] > 0 /\ t \in Nat
    BY PeriodAssumption
  <2>2. Slot(s, t) \in 0..t
    BY <2>1, SlotBound DEF Slot
  <2>3. Slot(s, t) \in 0..LastTick
    BY <2>1, <2>2, ScanBounds
  <2>4. s \in Sources
    OBVIOUS
  <2> QED
    BY <2>3, <2>4 DEF PlanKey, Keys, PlanKeys
<1>4. keys \in [1..n -> Keys]
  BY <1>2, <1>3
<1>5. keys \in Seq(Keys) /\ Len(keys) = n
  <2> HIDE DEF keys
  <2> QED
    BY <1>1, <1>4
<1>6. \A i \in 1..n : keys[i][2] = list[i]
  BY <1>2, <1>3
<1> QED
  BY <1>2, <1>5, <1>6

\* Who begins writes only the own stage and plan.
LEMMA BeginStep ==
    ASSUME NEW a \in Appenders, NEW keys \in Seq(Keys), ScheduleInv, Begin(a, keys),
           \A i, j \in 1..Len(keys) : i < j => keys[i][2] < keys[j][2]
    PROVE  ScheduleInv'
<1>1. ScheduleTypes'
  BY DEF Begin, ScheduleInv, ScheduleTypes
<1>2. /\ stage'[a] = "running" /\ plan'[a] = keys
      /\ UNCHANGED <<pos, absent, uncommitted, aborted, jobKeys>>
      /\ \A b \in Appenders \ {a} : stage'[b] = stage[b] /\ plan'[b] = plan[b]
  BY DEF Begin, ScheduleInv, ScheduleTypes
<1>3. stage[a] = "idle" /\ TxOK(a)
  BY DEF Begin, ScheduleInv
<1>4. TxOK(a)'
  <2>1. pos[a] = 1 /\ ~absent[a] /\ uncommitted[a] = {}
    <3>1. \A k \in uncommitted[a] : FALSE
      BY <1>3 DEF TxOK, InOrder
    <3> QED
      BY <1>3, <3>1 DEF TxOK, InOrder
  <2> QED
    BY <1>2, <2>1 DEF TxOK, InOrder
<1>5. ASSUME NEW b \in Appenders \ {a} PROVE TxOK(b)'
  <2>1. TxOK(b)
    BY DEF ScheduleInv
  <2>2. stage'[b] = stage[b] /\ plan'[b] = plan[b]
        /\ UNCHANGED <<pos[b], absent[b], uncommitted[b], aborted[b], jobKeys>>
    BY <1>2
  <2> QED
    BY ONLY <2>1, <2>2 DEF TxOK, InOrder
<1> QED
  BY <1>1, <1>4, <1>5 DEF ScheduleInv

\* Who ends a transaction, or the cycle after it, holds nothing.
LEMMA EndsStep ==
    ASSUME NEW a \in Appenders, NEW outcome \in {"idle", "succeeded"}, ScheduleInv,
           Ends(a, outcome), UNCHANGED <<tick, enabled>>, jobKeys \subseteq jobKeys',
           outcome = "succeeded" => \A i \in 1..Len(plan[a]) : plan[a][i] \in jobKeys'
    PROVE  ScheduleInv'
<1>1. /\ stage'[a] = outcome /\ pos'[a] = 1 /\ absent'[a] = FALSE /\ uncommitted'[a] = {}
      /\ aborted'[a] = FALSE /\ plan'[a] = IF outcome = "idle" THEN <<>> ELSE plan[a]
  BY DEF Ends, ScheduleInv, ScheduleTypes
<1>2. \A b \in Appenders \ {a} :
        /\ stage'[b] = stage[b] /\ pos'[b] = pos[b] /\ absent'[b] = absent[b]
        /\ uncommitted'[b] = uncommitted[b] /\ aborted'[b] = aborted[b] /\ plan'[b] = plan[b]
  BY DEF Ends, ScheduleInv, ScheduleTypes
<1>3. ScheduleTypes'
  <2>1. plan' \in [Appenders -> Seq(Keys)]
    BY DEF Ends, ScheduleInv, ScheduleTypes
  <2> QED
    BY <2>1 DEF Ends, ScheduleInv, ScheduleTypes
<1>4. TxOK(a)'
  BY <1>1 DEF TxOK, InOrder, ScheduleInv
<1>5. ASSUME NEW b \in Appenders \ {a} PROVE TxOK(b)'
  <2>1. TxOK(b)
    BY DEF ScheduleInv
  <2>2. UNCHANGED <<stage[b], plan[b], pos[b], absent[b], uncommitted[b], aborted[b]>>
    BY <1>2
  <2> QED
    BY ONLY <2>1, <2>2, jobKeys \subseteq jobKeys' DEF TxOK, InOrder
<1> QED
  BY <1>3, <1>4, <1>5 DEF ScheduleInv

\* Every step of the schedule keeps the invariant: a plan is written once, in
\* ascending order of source, and walked from the front.
LEMMA ScheduleStep == ScheduleInv /\ [ScheduleNext]_scheduleVars => ScheduleInv'
<1> SUFFICES ASSUME ScheduleInv, [ScheduleNext]_scheduleVars PROVE ScheduleInv'
  OBVIOUS
<1>1. CASE UNCHANGED <<tick, enabled, jobKeys, stage, txVars>>
  BY <1>1 DEF txVars, ScheduleInv, ScheduleTypes, TxOK, InOrder
<1>2. CASE TimePasses
  BY <1>2, ScanBounds DEF TimePasses, txVars, ScheduleInv, ScheduleTypes, TxOK, InOrder
<1>3. ASSUME NEW s \in Sources, SetEnabled(s) PROVE ScheduleInv'
  BY <1>3 DEF SetEnabled, txVars, ScheduleInv, ScheduleTypes, TxOK, InOrder
<1>4. ASSUME NEW w \in Scanners, Scan(w) PROVE ScheduleInv'
  <2> DEFINE S == {s \in enabled : Period[s] # 0}
  <2>1. PICK list \in InScanOrder(S) : Begin(w, [i \in DOMAIN list |-> PlanKey(list[i], tick)])
    BY <1>4 DEF Scan
  <2>2. S \in SUBSET Sources /\ \A s \in S : Period[s] # 0
    BY DEF ScheduleInv, ScheduleTypes
  <2>3. tick \in 0..LastTick /\ w \in Appenders
    BY DEF ScheduleInv, ScheduleTypes, Appenders
  <2> HIDE DEF S
  <2> DEFINE keys == [i \in DOMAIN list |-> PlanKey(list[i], tick)]
  <2>4. /\ keys \in Seq(Keys)
        /\ \A i, j \in 1..Len(keys) : i < j => keys[i][2] < keys[j][2]
    BY <2>1, <2>2, <2>3, ScanPlans
  <2>5. Begin(w, keys)
    BY <2>1
  <2> HIDE DEF keys
  <2> QED
    BY <2>3, <2>4, <2>5, BeginStep
<1>5. ASSUME NEW r \in Requests, Trigger(r) PROVE ScheduleInv'
  <2> DEFINE keys == <<ManualKey(r)>>
  <2>1. ManualKey(r) \in Keys
    BY DEF Keys
  <2>2. keys \in Seq(Keys) /\ Len(keys) = 1
    BY <2>1
  <2>3. r \in Appenders /\ Begin(r, keys)
    BY <1>5 DEF Trigger, Appenders
  <2> HIDE DEF keys
  <2> QED
    BY <2>2, <2>3, BeginStep
<1>6. ASSUME NEW a \in Appenders, Check(a) PROVE ScheduleInv'
  <2>1. /\ stage[a] = "running" /\ ~aborted[a] /\ ~absent[a] /\ pos[a] <= Len(plan[a])
        /\ UNCHANGED <<tick, enabled, jobKeys, stage, plan, uncommitted, aborted>>
        /\ \/ /\ plan[a][pos[a]] \in jobKeys \union uncommitted[a]
              /\ pos' = [pos EXCEPT ![a] = pos[a] + 1] /\ UNCHANGED absent
           \/ absent' = [absent EXCEPT ![a] = TRUE] /\ UNCHANGED pos
    BY <1>6 DEF Check, Exists, NextKey
  <2>2. Len(plan[a]) \in Nat /\ pos[a] \in Nat \ {0} /\ TxOK(a)
    BY DEF ScheduleInv, ScheduleTypes
  <2>3. CASE absent' = [absent EXCEPT ![a] = TRUE] /\ UNCHANGED pos
    <3>1. ScheduleTypes'
      BY <2>1, <2>3 DEF ScheduleInv, ScheduleTypes
    <3>2. absent'[a] = TRUE /\ \A b \in Appenders \ {a} : absent'[b] = absent[b]
      BY <2>3 DEF ScheduleInv, ScheduleTypes
    <3>3. TxOK(a)'
      BY <2>1, <2>2, <2>3, <3>2 DEF TxOK, InOrder
    <3>4. \A b \in Appenders \ {a} : TxOK(b)'
      BY <2>1, <2>3, <3>2 DEF ScheduleInv, TxOK, InOrder
    <3> QED
      BY <3>1, <3>3, <3>4 DEF ScheduleInv
  <2>4. CASE /\ plan[a][pos[a]] \in jobKeys \union uncommitted[a]
             /\ pos' = [pos EXCEPT ![a] = pos[a] + 1] /\ UNCHANGED absent
    <3>1. ScheduleTypes'
      BY <2>1, <2>2, <2>4 DEF ScheduleInv, ScheduleTypes
    <3>2. pos'[a] = pos[a] + 1 /\ \A b \in Appenders \ {a} : pos'[b] = pos[b]
      BY <2>4 DEF ScheduleInv, ScheduleTypes
    <3>3. \A i \in 1..Len(plan[a]) : i < pos[a] + 1 <=> i < pos[a] \/ i = pos[a]
      BY <2>2
    <3>4. TxOK(a)'
      <4>1. \A i \in 1..Len(plan[a]) : i < pos[a] + 1 => plan[a][i] \in jobKeys \union uncommitted[a]
        BY <2>1, <2>2, <2>4, <3>3 DEF TxOK, InOrder
      <4>2. \A k \in uncommitted[a] :
               \E i \in 1..Len(plan[a]) : i < pos[a] + 1 /\ plan[a][i] = k
        BY <2>2, <3>3 DEF TxOK, InOrder
      <4>3. ~absent'[a]
        BY <2>1, <2>4
      <4>4. /\ stage' = stage /\ plan' = plan /\ uncommitted' = uncommitted
            /\ aborted' = aborted /\ jobKeys' = jobKeys
        BY <2>1
      <4>5. pos'[a] = pos[a] + 1 /\ stage[a] = "running"
        BY <2>1, <3>2
      <4>6. \A k \in uncommitted'[a] : \E i \in 1..Len(plan'[a]) : i < pos'[a] /\ plan'[a][i] = k
        BY ONLY <4>2, <4>4, <4>5
      <4>7. \A i \in 1..Len(plan'[a]) : i < pos'[a] => plan'[a][i] \in jobKeys' \union uncommitted'[a]
        BY ONLY <4>1, <4>4, <4>5
      <4>8. InOrder(a)'
        <5>1. InOrder(a)
          BY <2>2 DEF TxOK
        <5> QED
          BY ONLY <4>4, <5>1 DEF InOrder
      <4>9. stage'[a] = "running"
        BY ONLY <4>4, <4>5
      <4> QED
        BY ONLY <4>3, <4>6, <4>7, <4>8, <4>9 DEF TxOK
    <3>5. ASSUME NEW b \in Appenders \ {a} PROVE TxOK(b)'
      <4>1. TxOK(b) /\ pos'[b] = pos[b]
        BY <3>2 DEF ScheduleInv
      <4>2. UNCHANGED <<jobKeys, stage, plan, uncommitted, aborted, absent>>
        BY <2>1, <2>4
      <4> QED
        BY ONLY <4>1, <4>2 DEF TxOK, InOrder
    <3> QED
      BY <3>1, <3>4, <3>5 DEF ScheduleInv
  <2> QED
    BY <2>1, <2>3, <2>4
<1>7. ASSUME NEW a \in Appenders, Insert(a) PROVE ScheduleInv'
  <2> DEFINE k == plan[a][pos[a]]
  <2>1. Len(plan[a]) \in Nat /\ pos[a] \in Nat \ {0} /\ TxOK(a) /\ absent[a]
        /\ pos[a] <= Len(plan[a]) /\ stage[a] = "running"
    BY <1>7 DEF Insert, ScheduleInv, ScheduleTypes, TxOK, InOrder
  <2>2. k \in Keys
    BY <2>1 DEF ScheduleInv, ScheduleTypes
  <2>3. /\ UNCHANGED <<tick, enabled, jobKeys, stage, plan>>
        /\ pos' = [pos EXCEPT ![a] = pos[a] + 1] /\ absent' = [absent EXCEPT ![a] = FALSE]
        /\ \/ aborted' = [aborted EXCEPT ![a] = TRUE] /\ UNCHANGED uncommitted
           \/ UNCHANGED aborted /\ uncommitted' = [uncommitted EXCEPT ![a] = @ \union {k}]
    BY <1>7 DEF Insert, NextKey
  <2>4. ScheduleTypes'
    <3>1. pos' \in [Appenders -> Nat \ {0}] /\ absent' \in [Appenders -> BOOLEAN]
      BY <2>1, <2>3 DEF ScheduleInv, ScheduleTypes
    <3>2. aborted' \in [Appenders -> BOOLEAN]
      BY <2>3 DEF ScheduleInv, ScheduleTypes
    <3>3. uncommitted' \in [Appenders -> SUBSET Keys]
      <4> HIDE DEF k
      <4>1. uncommitted \in [Appenders -> SUBSET Keys]
        BY DEF ScheduleInv, ScheduleTypes
      <4>2. uncommitted[a] \union {k} \in SUBSET Keys
        BY <2>2, <4>1
      <4>3. UNCHANGED uncommitted
            \/ uncommitted' = [uncommitted EXCEPT ![a] = uncommitted[a] \union {k}]
        BY <2>3
      <4> QED
        BY <4>1, <4>2, <4>3
    <3> QED
      BY <2>3, <3>1, <3>2, <3>3 DEF ScheduleInv, ScheduleTypes
  <2>5. /\ pos'[a] = pos[a] + 1 /\ absent'[a] = FALSE
        /\ \A b \in Appenders \ {a} : /\ pos'[b] = pos[b] /\ absent'[b] = absent[b]
                                      /\ aborted'[b] = aborted[b]
                                      /\ uncommitted'[b] = uncommitted[b]
    BY <2>3 DEF ScheduleInv, ScheduleTypes
  <2>6. \A i \in 1..Len(plan[a]) : i < pos[a] + 1 <=> i < pos[a] \/ i = pos[a]
    BY <2>1
  <2>7. TxOK(a)'
    <3>1. CASE aborted' = [aborted EXCEPT ![a] = TRUE] /\ UNCHANGED uncommitted
      <4>1. aborted'[a] = TRUE
        BY <3>1 DEF ScheduleInv, ScheduleTypes
      <4> QED
        BY <2>1, <2>3, <2>5, <2>6, <3>1, <4>1 DEF TxOK, InOrder
    <3>2. CASE UNCHANGED aborted /\ uncommitted' = [uncommitted EXCEPT ![a] = @ \union {k}]
      <4>1. uncommitted'[a] = uncommitted[a] \union {k}
        BY <3>2 DEF ScheduleInv, ScheduleTypes
      <4>2. pos[a] \in 1..Len(plan[a])
        BY <2>1
      <4> QED
        BY <2>1, <2>3, <2>5, <2>6, <3>2, <4>1, <4>2 DEF TxOK, InOrder
    <3> QED
      BY <2>3, <3>1, <3>2
  <2>8. \A b \in Appenders \ {a} : TxOK(b)'
    BY <2>3, <2>5 DEF ScheduleInv, TxOK, InOrder
  <2> QED
    BY <2>4, <2>7, <2>8 DEF ScheduleInv
<1>8. ASSUME NEW a \in Appenders, CommitScan(a) PROVE ScheduleInv'
  <2>1. Len(plan[a]) \in Nat /\ pos[a] \in Nat /\ TxOK(a)
    BY DEF ScheduleInv, ScheduleTypes
  <2>2. /\ stage[a] = "running" /\ pos[a] > Len(plan[a]) /\ ~aborted[a]
        /\ jobKeys' = jobKeys \union uncommitted[a]
        /\ Ends(a, "succeeded") /\ UNCHANGED <<tick, enabled>>
    BY <1>8 DEF CommitScan
  <2>3. \A i \in 1..Len(plan[a]) : plan[a][i] \in jobKeys'
    BY <2>1, <2>2 DEF TxOK, InOrder
  <2> QED
    BY <2>2, <2>3, EndsStep
<1>9. ASSUME NEW a \in Appenders, Rollback(a) \/ ScanFails(a) \/ Finish(a) PROVE ScheduleInv'
  <2>1. Ends(a, "idle") /\ UNCHANGED <<tick, enabled, jobKeys>>
    BY <1>9 DEF Rollback, ScanFails, Finish
  <2> QED
    BY <2>1, EndsStep
<1> QED
  BY <1>1, <1>2, <1>3, <1>4, <1>5, <1>6, <1>7, <1>8, <1>9
     DEF ScheduleNext, scheduleVars, Statement

\* The invariant the theorems about the schedule rest on.
LEMMA ScheduleInvariant == ScheduleSpec => []ScheduleInv
<1>1. ScheduleInit => ScheduleInv
  <2> SUFFICES ASSUME ScheduleInit PROVE ScheduleInv
    OBVIOUS
  <2>1. ScheduleTypes
    BY ScanBounds DEF ScheduleInit, ScheduleTypes
  <2>2. \A a \in Appenders : TxOK(a)
    BY DEF ScheduleInit, TxOK, InOrder
  <2> QED
    BY <2>1, <2>2 DEF ScheduleInv
<1> QED
  BY <1>1, ScheduleStep, PTL DEF ScheduleSpec

\* Concurrent scans and triggers never wait for each other in a circle, for any
\* number of sources and transactions: who waits for b wants a key of an earlier
\* source than the one b wants (ListEnabledScheduledSources, ORDER BY id).
THEOREM ScansAreDeadlockFree == ScheduleSpec => []ScansNeverDeadlock
<1>1. ScheduleInv => ScansNeverDeadlock
  <2> SUFFICES ASSUME ScheduleInv, NEW S \in SUBSET Appenders, S # {},
                      \A a \in S : \E b \in S : WaitsFor(a, b)
               PROVE  FALSE
    BY DEF ScansNeverDeadlock
  <2> DEFINE Wants(a) == plan[a][pos[a]][2]
  <2>1. ASSUME NEW a \in S
        PROVE  /\ absent[a] /\ pos[a] \in 1..Len(plan[a]) /\ TxOK(a)
               /\ plan[a] \in Seq(Keys) /\ Wants(a) \in Sources
    <3>1. a \in Appenders /\ absent[a] /\ TxOK(a)
      BY DEF WaitsFor, ScheduleInv
    <3>2. plan[a] \in Seq(Keys) /\ pos[a] \in Nat \ {0}
      BY <3>1 DEF ScheduleInv, ScheduleTypes
    <3>3. pos[a] \in 1..Len(plan[a])
      BY <3>1, <3>2 DEF TxOK, InOrder
    <3>4. plan[a][pos[a]] \in Keys
      BY <3>2, <3>3
    <3> QED
      BY <3>1, <3>2, <3>3, <3>4, KeysHaveSources
  <2>2. ASSUME NEW a \in S, NEW b \in S, WaitsFor(a, b)
        PROVE  Wants(a) < Wants(b)
    <3>1. PICK i \in 1..Len(plan[b]) : i < pos[b] /\ plan[b][i] = plan[a][pos[a]]
      BY <2>1, <2>2 DEF WaitsFor, TxOK, InOrder
    <3>2. plan[b][i][2] < plan[b][pos[b]][2]
      BY <2>1, <3>1 DEF TxOK, InOrder
    <3> QED
      BY <3>1, <3>2
  <2> DEFINE T == {Wants(a) : a \in S}
  <2>3. T \in SUBSET Sources /\ T # {}
    BY <2>1
  <2>4. IsFiniteSet(T) /\ T \in SUBSET Int
    <3> HIDE DEF T
    <3> QED
      BY <2>3, FS_Subset, SourcesAssumption
  <2>5. PICK m \in T : \A x \in T : x <= m
    <3> HIDE DEF T
    <3> QED
      BY <2>3, <2>4, GreatestOf
  <2>6. PICK a \in S : m = Wants(a)
    OBVIOUS
  <2>7. PICK b \in S : WaitsFor(a, b)
    OBVIOUS
  <2>8. Wants(b) \in T /\ Wants(b) \in Int /\ Wants(a) \in Int
    BY <2>1, SourcesAssumption
  <2>9. Wants(a) < Wants(b)
    BY <2>2, <2>7
  <2> HIDE DEF Wants, T
  <2>10. Wants(b) <= Wants(a)
    BY <2>5, <2>6, <2>8
  <2> QED
    BY <2>8, <2>9, <2>10
<1> QED
  BY <1>1, ScheduleInvariant, PTL

\* A scan or a trigger that returns without an error has left a job of every
\* key it was to enqueue (source_schedule.go, postgres/tx.go).
THEOREM SuccessIsQueued == ScheduleSpec => []ReportedIsQueued
<1>1. ScheduleInv => ReportedIsQueued
  <2> SUFFICES ASSUME ScheduleInv, NEW a \in Appenders, stage[a] = "succeeded"
               PROVE  ToSet(plan[a]) \subseteq jobKeys
    BY DEF ReportedIsQueued
  <2>1. plan[a] \in Seq(Keys) /\ TxOK(a)
    BY DEF ScheduleInv, ScheduleTypes
  <2>2. DOMAIN plan[a] = 1..Len(plan[a])
    BY <2>1
  <2> QED
    BY <2>1, <2>2 DEF TxOK, InOrder, ToSet
<1> QED
  BY <1>1, ScheduleInvariant, PTL

-------------------------------------------------------------------------------
(* SourceIntake *)

QRows == [doc : Docs, cve : CVEs, srun : Nat, status : Statuses, attempts : Nat]
SRuns == [kind : {"fetch", "pass"}, status : {"running", "succeeded", "failed"},
          quarantined : Nat]
Procs == [pc : {"idle", "fetch", "pass", "failed", "ended"}, doc : Docs \union {0}, srun : Nat]
Desks == [pc : {"idle", "acknowledge", "reprocess"}, row : Nat, read : Statuses]

IntakeTypes ==
    /\ normJobs \subseteq Docs
    /\ sourceRuns \in Seq(SRuns)
    /\ rows \in Seq(QRows)
    /\ proc \in [IntakeWorkers -> Procs]
    /\ desk \in [Clerks -> Desks]
    /\ \A w \in IntakeWorkers : proc[w].pc # "idle" => proc[w].doc \in Docs
    /\ \A k \in Clerks : desk[k].pc # "idle" => desk[k].row \in 1..Len(rows)

\* A quarantine row is about a record of a document.
RowsOK == \A i \in 1..Len(rows) : <<rows[i].doc, rows[i].cve>> \in Records

IntakeInv == IntakeTypes /\ RowsOK /\ NothingDropped /\ ResolvedIsNormalised

\* The rows a pass over a document adds: one for each record that fails.
LEMMA IsolatedRows ==
    ASSUME NEW d \in Docs, NEW r \in Nat
    PROVE  /\ Isolated(d, r) \in Seq(QRows)
           /\ Len(Isolated(d, r)) = Cardinality(Failing(d))
           /\ \A i \in 1..Len(Isolated(d, r)) :
                /\ Isolated(d, r)[i].doc = d /\ Isolated(d, r)[i].cve \in Statements[d]
                /\ Isolated(d, r)[i].status = "new" /\ Isolated(d, r)[i].srun = r
           /\ \A c \in Failing(d) : \E i \in 1..Len(Isolated(d, r)) : Isolated(d, r)[i].cve = c
<1> DEFINE order == SetToSeq(Failing(d))
           n == Cardinality(Failing(d))
           RowOf(c) == [doc |-> d, cve |-> c, srun |-> r, status |-> "new", attempts |-> 0]
<1>1. IsFiniteSet(Failing(d)) /\ Failing(d) \subseteq Statements[d] /\ Statements[d] \subseteq CVEs
  <2>1. IsFiniteSet(Statements[d]) /\ Statements[d] \subseteq CVEs
    BY StatementsAssumption
  <2>2. Failing(d) \in SUBSET Statements[d]
    BY DEF Failing
  <2> QED
    BY <2>1, <2>2, FS_Subset
<1>2. n \in Nat /\ order \in [1..n -> Failing(d)] /\ \A c \in Failing(d) : \E i \in 1..n : order[i] = c
  BY <1>1, SetToSeqLists
<1>3. \A c \in CVEs : RowOf(c) \in QRows
  BY DEF QRows, Statuses
<1>4. \A c : RowOf(c).doc = d /\ RowOf(c).cve = c /\ RowOf(c).status = "new" /\ RowOf(c).srun = r
  OBVIOUS
<1>5. Isolated(d, r) = [i \in 1..Len(order) |-> RowOf(order[i])]
  BY DEF Isolated
<1> HIDE DEF order, n, RowOf
<1>6. Len(order) = n
  BY <1>2
<1>7. Isolated(d, r) \in [1..n -> QRows]
  BY <1>1, <1>2, <1>3, <1>5, <1>6
<1>8. Isolated(d, r) \in Seq(QRows) /\ Len(Isolated(d, r)) = n
  BY <1>2, <1>7
<1>9. \A i \in 1..n : Isolated(d, r)[i] = RowOf(order[i]) /\ order[i] \in Failing(d)
  BY <1>2, <1>5, <1>6
<1> QED
  BY <1>1, <1>2, <1>4, <1>8, <1>9 DEF n

\* The moves of a row's status (domain/quarantine.go).
Moves == {<<"new", "new">>, <<"new", "acknowledged">>, <<"new", "resolved">>,
          <<"new", "ready_for_retry">>, <<"acknowledged", "ready_for_retry">>,
          <<"acknowledged", "resolved">>, <<"ready_for_retry", "ready_for_retry">>,
          <<"ready_for_retry", "resolved">>}

\* What a step may do to the quarantine: a row keeps what it is about, and the
\* run it is of, and moves forward, a new row is a failed record, of no run
\* unless a run's pass wrote it, and a row that becomes resolved is of a record
\* that has become a statement.
QuarantineStep ==
    /\ rows' \in Seq(QRows) /\ Len(rows) <= Len(rows')
    /\ \A i \in 1..Len(rows) :
         /\ rows'[i].doc = rows[i].doc /\ rows'[i].cve = rows[i].cve
         /\ rows'[i].srun = rows[i].srun
         /\ rows'[i] # rows[i] =>
              /\ rows'[i].attempts >= rows[i].attempts
              /\ <<rows[i].status, rows'[i].status>> \in Moves
              /\ rows'[i].status = "resolved" => <<rows[i].doc, rows[i].cve>> \in stating'
    /\ \A i \in 1..Len(rows') : i > Len(rows) =>
         /\ rows'[i].status = "new" /\ <<rows'[i].doc, rows'[i].cve>> \in Records
         /\ rows'[i].srun # 0 => \E w \in IntakeWorkers : PassDocument(w)
    /\ stating \subseteq stating' /\ passed \subseteq passed'
    /\ \A p \in Records : p[1] \in passed' => \/ p[1] \in passed \/ p \in stating'
                                              \/ \E i \in 1..Len(rows') :
                                                   <<rows'[i].doc, rows'[i].cve>> = p

\* A pass over a document leaves no record out.
LEMMA PassCovers ==
    ASSUME NEW d \in Docs, Normalise(d), NEW c \in Statements[d]
    PROVE  c \in Failing(d) \/ <<d, c>> \in stating'
BY DEF Normalise

\* A pass over a document writes a row for each record it could not state.
LEMMA PassStep ==
    ASSUME IntakeTypes, NEW w \in IntakeWorkers, PassDocument(w)
    PROVE  QuarantineStep
<1> DEFINE d == proc[w].doc
           new == Isolated(d, PassRun(w))
<1>1. d \in Docs /\ PassRun(w) \in Nat /\ rows \in Seq(QRows)
  <2>1. proc[w] \in Procs /\ proc[w].pc # "idle"
    BY DEF PassDocument, IntakeTypes
  <2> QED
    BY <2>1 DEF IntakeTypes, Procs, PassRun
<1>2. rows' = rows \o new /\ Normalise(d) /\ passed' = passed \union {d}
  BY DEF PassDocument
<1>3. /\ new \in Seq(QRows)
      /\ \A i \in 1..Len(new) : /\ new[i].doc = d /\ new[i].cve \in Statements[d]
                                /\ new[i].status = "new"
      /\ \A c \in Failing(d) : \E i \in 1..Len(new) : new[i].cve = c
  BY <1>1, IsolatedRows
<1> HIDE DEF d, new
<1>4. /\ rows' \in Seq(QRows) /\ Len(rows') = Len(rows) + Len(new)
      /\ Len(rows) \in Nat /\ Len(new) \in Nat
      /\ \A i \in 1..Len(rows) : rows'[i] = rows[i]
      /\ \A i \in 1..Len(new) : rows'[Len(rows) + i] = new[i]
  BY <1>1, <1>2, <1>3, ConcatProperties
<1>5. ASSUME NEW i \in 1..Len(rows'), i > Len(rows)
      PROVE  rows'[i].status = "new" /\ <<rows'[i].doc, rows'[i].cve>> \in Records
  <2>1. i - Len(rows) \in 1..Len(new) /\ rows'[i] = new[i - Len(rows)]
    BY <1>4, <1>5
  <2> QED
    BY <1>1, <1>3, <2>1, StatementsAssumption DEF Records
<1>6. ASSUME NEW p \in Records, p[1] \in passed', p[1] \notin passed
      PROVE  p \in stating' \/ \E i \in 1..Len(rows') : <<rows'[i].doc, rows'[i].cve>> = p
  <2>1. p[1] = d /\ p[2] \in Statements[d] /\ p = <<d, p[2]>>
    BY <1>2, <1>6 DEF Records
  <2>2. CASE p[2] \in Failing(d)
    <3>1. PICK i \in 1..Len(new) : new[i].cve = p[2]
      BY <1>3, <2>2
    <3>2. Len(rows) + i \in 1..Len(rows') /\ rows'[Len(rows) + i] = new[i]
      BY <1>4
    <3> QED
      BY <1>3, <2>1, <3>1, <3>2
  <2>3. CASE p[2] \notin Failing(d)
    BY <1>1, <1>2, <2>1, <2>3, PassCovers
  <2> QED
    BY <2>2, <2>3
<1>7. stating \subseteq stating' /\ passed \subseteq passed'
  BY <1>2 DEF Normalise
<1>8. Len(rows) <= Len(rows')
  BY <1>4
<1>9. \A p \in Records : p[1] \in passed' => \/ p[1] \in passed \/ p \in stating'
                                              \/ \E i \in 1..Len(rows') :
                                                   <<rows'[i].doc, rows'[i].cve>> = p
  BY <1>6
<1>10. \A i \in 1..Len(rows') : i > Len(rows) =>
         /\ rows'[i].status = "new" /\ <<rows'[i].doc, rows'[i].cve>> \in Records
         /\ \E v \in IntakeWorkers : PassDocument(v)
  BY <1>5
<1> QED
  BY <1>4, <1>7, <1>8, <1>9, <1>10 DEF QuarantineStep

\* A command at the quarantine moves its row, if the row has not moved before.
LEMMA ReprocessStep ==
    ASSUME IntakeTypes, RowsOK, NEW k \in Clerks, Reprocess(k)
    PROVE  QuarantineStep
<1> DEFINE i == desk[k].row
           d == rows[i].doc
           reviewed == desk[k].read = "acknowledged"
           status == IF reviewed THEN "ready_for_retry" ELSE rows[i].status
           out == RowOutcome(rows[i], status, Failing(d))
           mid == [rows EXCEPT ![i] = out]
           new == Isolated(d, 0)
<1>1. i \in 1..Len(rows) /\ rows \in Seq(QRows) /\ rows[i] \in QRows /\ d \in Docs
  <2>1. i \in 1..Len(rows) /\ rows \in Seq(QRows)
    BY DEF Reprocess, IntakeTypes
  <2>2. rows[i] \in QRows
    BY <2>1
  <2> QED
    BY <2>1, <2>2 DEF QRows
<1>2. CASE UNCHANGED <<statements, rows>>
  BY <1>1, <1>2 DEF Reprocess, Leave, statements, QuarantineStep
<1>3. CASE ~UNCHANGED <<statements, rows>>
  <2>1. /\ reviewed => rows[i].status \in {"new", "acknowledged"}
        /\ status \in {"new", "ready_for_retry"}
        /\ Normalise(d) /\ rows' = mid \o new /\ passed' = passed
    BY <1>3 DEF Reprocess, Leave
  <2>2. /\ new \in Seq(QRows)
        /\ \A j \in 1..Len(new) : /\ new[j].doc = d /\ new[j].cve \in Statements[d]
                                  /\ new[j].status = "new" /\ new[j].srun = 0
    BY <1>1, IsolatedRows
  <2>3. /\ out \in QRows /\ out.doc = rows[i].doc /\ out.cve = rows[i].cve /\ out.srun = rows[i].srun
        /\ out.attempts >= rows[i].attempts
        /\ <<rows[i].status, out.status>> \in Moves
        /\ out.status = "resolved" => Failing(d) = {}
    <3>1. rows[i].attempts \in Nat
      BY <1>1 DEF QRows
    <3>2. CASE Failing(d) = {}
      <4>1. out = [rows[i] EXCEPT !.status = "resolved"]
        BY <3>2 DEF RowOutcome
      <4>2. out \in QRows /\ out.doc = rows[i].doc /\ out.cve = rows[i].cve /\ out.srun = rows[i].srun
            /\ out.attempts = rows[i].attempts /\ out.status = "resolved"
        <5> HIDE DEF out, i
        <5> QED
          BY <1>1, <4>1 DEF QRows, Statuses
      <4>3. rows[i].status \in {"new", "acknowledged", "ready_for_retry"}
        BY <2>1
      <4> HIDE DEF out, i
      <4> QED
        BY <3>1, <3>2, <4>2, <4>3 DEF Moves
    <3>3. CASE Failing(d) # {}
      <4>1. out = [rows[i] EXCEPT !.status = status, !.attempts = @ + 1]
        BY <3>3 DEF RowOutcome
      <4>2. status \in {"new", "ready_for_retry"}
            /\ <<rows[i].status, status>> \in Moves
        BY <2>1 DEF Moves
      <4>3. out \in QRows /\ out.doc = rows[i].doc /\ out.cve = rows[i].cve /\ out.srun = rows[i].srun
            /\ out.attempts = rows[i].attempts + 1 /\ out.status = status
        <5>1. PICK n \in Nat : n = rows[i].attempts + 1
          BY <3>1
        <5>2. out = [rows[i] EXCEPT !.status = status, !.attempts = n]
          BY <4>1, <5>1
        <5> HIDE DEF out, i, status
        <5> QED
          BY <1>1, <4>2, <5>1, <5>2 DEF QRows, Statuses
      <4> HIDE DEF out, i, status
      <4> QED
        BY <3>1, <3>3, <4>2, <4>3
    <3> QED
      BY <3>2, <3>3
  <2>4. <<d, rows[i].cve>> \in Records
    BY <1>1 DEF RowsOK
  <2>5. out.status = "resolved" => <<d, rows[i].cve>> \in stating'
    <3> SUFFICES ASSUME out.status = "resolved" PROVE <<d, rows[i].cve>> \in stating'
      OBVIOUS
    <3>1. rows[i].cve \in Statements[d]
      BY <2>4 DEF Records
    <3> HIDE DEF out
    <3> QED
      BY <1>1, <2>1, <2>3, <3>1, PassCovers
  <2>6. mid \in Seq(QRows) /\ Len(mid) = Len(rows) /\ mid[i] = out
        /\ \A j \in 1..Len(rows) : j # i => mid[j] = rows[j]
    <3> HIDE DEF out, i
    <3> QED
      BY <1>1, <2>3
  <2> HIDE DEF out, mid, new, d, i
  <2>7. /\ rows' \in Seq(QRows) /\ Len(rows') = Len(rows) + Len(new)
        /\ Len(rows) \in Nat /\ Len(new) \in Nat
        /\ \A j \in 1..Len(rows) : rows'[j] = mid[j]
        /\ \A j \in 1..Len(new) : rows'[Len(rows) + j] = new[j]
    <3>1. rows' = mid \o new
      BY <2>1
    <3>2. Len(rows) \in Nat /\ Len(new) \in Nat
      BY <1>1, <2>2
    <3>3. /\ mid \o new \in Seq(QRows) /\ Len(mid \o new) = Len(mid) + Len(new)
          /\ \A j \in 1..(Len(mid) + Len(new)) :
               (mid \o new)[j] = IF j <= Len(mid) THEN mid[j] ELSE new[j - Len(mid)]
      <4>1. mid \in Seq(QRows) /\ new \in Seq(QRows)
        BY <2>2, <2>6
      <4> QED
        BY ONLY <4>1, ConcatProperties
    <3> QED
      BY <2>6, <3>1, <3>2, <3>3
  <2>8. ASSUME NEW j \in 1..Len(rows'), j > Len(rows)
        PROVE  /\ rows'[j].status = "new" /\ <<rows'[j].doc, rows'[j].cve>> \in Records
               /\ rows'[j].srun = 0
    <3>1. j - Len(rows) \in 1..Len(new) /\ rows'[j] = new[j - Len(rows)]
      BY <2>7, <2>8
    <3> QED
      BY <1>1, <2>2, <3>1, StatementsAssumption DEF Records
  <2>9. stating \subseteq stating'
    BY <2>1 DEF Normalise
  <2>10. \A j \in 1..Len(rows) :
           /\ rows'[j].doc = rows[j].doc /\ rows'[j].cve = rows[j].cve /\ rows'[j].srun = rows[j].srun
           /\ rows'[j] # rows[j] =>
                /\ rows'[j].attempts >= rows[j].attempts
                /\ <<rows[j].status, rows'[j].status>> \in Moves
                /\ rows'[j].status = "resolved" => <<rows[j].doc, rows[j].cve>> \in stating'
    <3> SUFFICES ASSUME NEW j \in 1..Len(rows)
                 PROVE  /\ rows'[j].doc = rows[j].doc /\ rows'[j].cve = rows[j].cve
                        /\ rows'[j].srun = rows[j].srun
                        /\ rows'[j] # rows[j] =>
                             /\ rows'[j].attempts >= rows[j].attempts
                             /\ <<rows[j].status, rows'[j].status>> \in Moves
                             /\ rows'[j].status = "resolved" =>
                                  <<rows[j].doc, rows[j].cve>> \in stating'
      OBVIOUS
    <3>1. CASE j = i
      <4>1. rows'[i] = out /\ d = rows[i].doc
        BY <1>1, <2>6, <2>7 DEF d
      <4> QED
        BY <2>3, <2>5, <3>1, <4>1
    <3>2. CASE j # i
      BY <2>6, <2>7, <3>2
    <3> QED
      BY <3>1, <3>2
  <2>11. Len(rows) <= Len(rows') /\ passed' = passed
    BY <2>1, <2>7
  <2>12. \A j \in 1..Len(rows') : j > Len(rows) =>
           /\ rows'[j].status = "new" /\ <<rows'[j].doc, rows'[j].cve>> \in Records
           /\ rows'[j].srun = 0
    BY <2>8
  <2> QED
    BY <2>7, <2>9, <2>10, <2>11, <2>12 DEF QuarantineStep
<1> QED
  BY <1>2, <1>3

\* A clerk's acknowledgement closes a new row (quarantine.go: Acknowledge).
LEMMA AcknowledgeStep ==
    ASSUME IntakeTypes, RowsOK, NEW k \in Clerks, Acknowledge(k)
    PROVE  QuarantineStep
<1> DEFINE i == desk[k].row
           out == [rows[i] EXCEPT !.status = "acknowledged"]
<1>1. i \in 1..Len(rows) /\ rows \in Seq(QRows) /\ rows[i] \in QRows
  <2>1. i \in 1..Len(rows) /\ rows \in Seq(QRows)
    BY DEF Acknowledge, IntakeTypes
  <2> QED
    BY <2>1
<1>2. UNCHANGED <<stating, passed>>
  BY DEF Acknowledge, Leave, statements
<1>3. CASE UNCHANGED rows
  BY <1>1, <1>2, <1>3 DEF QuarantineStep
<1>4. CASE ~UNCHANGED rows
  <2>1. rows[i].status = "new" /\ rows' = [rows EXCEPT ![i] = out]
    BY <1>4 DEF Acknowledge, Acknowledgeable
  <2>2. /\ out \in QRows /\ out.doc = rows[i].doc /\ out.cve = rows[i].cve /\ out.srun = rows[i].srun
        /\ out.attempts = rows[i].attempts /\ out.status = "acknowledged"
    <3> HIDE DEF i
    <3> QED
      BY <1>1 DEF QRows, Statuses
  <2>3. rows[i].attempts \in Nat
    BY <1>1 DEF QRows
  <2> HIDE DEF out, i
  <2>4. /\ rows' \in Seq(QRows) /\ Len(rows') = Len(rows) /\ rows'[i] = out /\ Len(rows) \in Nat
        /\ \A j \in 1..Len(rows) : j # i => rows'[j] = rows[j]
    BY <1>1, <2>1, <2>2
  <2>5. <<rows[i].status, out.status>> \in Moves
    BY <2>1, <2>2 DEF Moves
  <2>6. \A j \in 1..Len(rows) :
          /\ rows'[j].doc = rows[j].doc /\ rows'[j].cve = rows[j].cve /\ rows'[j].srun = rows[j].srun
          /\ rows'[j] # rows[j] =>
               /\ rows'[j].attempts >= rows[j].attempts
               /\ <<rows[j].status, rows'[j].status>> \in Moves
               /\ rows'[j].status # "resolved"
    <3> SUFFICES ASSUME NEW j \in 1..Len(rows)
                 PROVE  /\ rows'[j].doc = rows[j].doc /\ rows'[j].cve = rows[j].cve
                        /\ rows'[j].srun = rows[j].srun
                        /\ rows'[j] # rows[j] =>
                             /\ rows'[j].attempts >= rows[j].attempts
                             /\ <<rows[j].status, rows'[j].status>> \in Moves
                             /\ rows'[j].status # "resolved"
      OBVIOUS
    <3>1. CASE j # i
      BY <2>4, <3>1
    <3>2. CASE j = i
      <4>1. rows'[j] = out /\ rows[j] = rows[i]
        BY <2>4, <3>2
      <4> QED
        BY ONLY <4>1, <2>2, <2>3, <2>5
    <3> QED
      BY <3>1, <3>2
  <2> QED
    BY <1>2, <2>4, <2>6 DEF QuarantineStep
<1> QED
  BY <1>3, <1>4

\* Every step treats the quarantine so.
LEMMA QuarantineAlways == IntakeTypes /\ RowsOK /\ [IntakeNext]_intakeVars => QuarantineStep
<1> SUFFICES ASSUME IntakeTypes, RowsOK, [IntakeNext]_intakeVars PROVE QuarantineStep
  OBVIOUS
<1>1. CASE UNCHANGED <<rows, stating, passed>>
  <2>1. rows \in Seq(QRows) /\ Len(rows) \in Nat
    BY DEF IntakeTypes
  <2> QED
    BY <1>1, <2>1 DEF QuarantineStep
<1> QED
  BY <1>1, PassStep, ReprocessStep, AcknowledgeStep
     DEF IntakeNext, intakeVars, statements, BeginFetch, StartPass, OpenRun, IntakeStep, FetchEnds,
         StoreDocument, KeyIsTaken, FindUnchanged, SettleJob, FailRun, TransactionFails, Dies,
         Release, ReadRow

\* Closing a run keeps the runs well-formed.
LEMMA RunCloses ==
    ASSUME NEW s \in Seq(SRuns), NEW i, NEW q \in Nat,
           NEW st \in {"running", "succeeded", "failed"}
    PROVE  [s EXCEPT ![i].status = st, ![i].quarantined = q] \in Seq(SRuns)
<1> DEFINE r == [[s[i] EXCEPT !.status = st] EXCEPT !.quarantined = q]
           t == [s EXCEPT ![i].status = st, ![i].quarantined = q]
<1>1. Len(s) \in Nat /\ s \in [1..Len(s) -> SRuns]
  OBVIOUS
<1>2. DOMAIN t = 1..Len(s)
  BY <1>1
<1>3. ASSUME NEW j \in 1..Len(s) PROVE t[j] \in SRuns
  <2>1. CASE j # i
    <3>1. t[j] = s[j]
      BY <1>1, <2>1
    <3> QED
      BY <1>1, <3>1
  <2>2. CASE j = i
    <3>1. s[i] \in SRuns
      BY <1>1, <2>2
    <3>2. r \in SRuns
      BY <3>1 DEF SRuns
    <3>3. t[i] = r
      BY <1>1, <2>2
    <3> QED
      BY <2>2, <3>2, <3>3
  <2> QED
    BY <2>1, <2>2
<1>4. t = [j \in 1..Len(s) |-> t[j]]
  BY <1>1
<1>5. t \in [1..Len(s) -> SRuns]
  <2> HIDE DEF t
  <2> QED
    BY <1>3, <1>4
<1> HIDE DEF t
<1>6. t \in Seq(SRuns)
  BY <1>1, <1>5
<1> QED
  BY <1>6 DEF t

\* The jobs in the workers and the commands of the clerks keep their types.
LEMMA IntakeTypesStep ==
    IntakeTypes /\ QuarantineStep /\ [IntakeNext]_intakeVars => IntakeTypes'
<1> SUFFICES ASSUME IntakeTypes, QuarantineStep, [IntakeNext]_intakeVars PROVE IntakeTypes'
  OBVIOUS
<1>a. rows' \in Seq(QRows) /\ Len(rows) <= Len(rows') /\ Len(rows) \in Nat /\ Len(rows') \in Nat
  BY DEF QuarantineStep, IntakeTypes
<1>b. NoJob \in Procs /\ NoJob.pc = "idle" /\ AtEase \in Desks /\ AtEase.pc = "idle"
  BY DEF NoJob, Procs, AtEase, Desks, Statuses
<1>1. normJobs' \subseteq Docs
  <2>1. CASE UNCHANGED normJobs
    BY <2>1 DEF IntakeTypes
  <2>2. ASSUME NEW w \in IntakeWorkers, StoreDocument(w) PROVE normJobs' \subseteq Docs
    <3>1. proc[w].doc \in Docs
      BY <2>2 DEF StoreDocument, IntakeTypes
    <3> QED
      BY <2>2, <3>1 DEF StoreDocument, JobFor, IntakeTypes
  <2>3. ASSUME NEW w \in IntakeWorkers, SettleJob(w) PROVE normJobs' \subseteq Docs
    BY <2>3 DEF SettleJob, IntakeTypes
  <2> QED
    BY <2>1, <2>2, <2>3
       DEF IntakeNext, intakeVars, BeginFetch, StartPass, OpenRun, IntakeStep, FetchEnds, KeyIsTaken,
           FindUnchanged, PassDocument, FailRun, TransactionFails, Dies, Release, ReadRow,
           Acknowledge, Reprocess, Leave
<1>2. \/ UNCHANGED <<sourceRuns, proc>>
      \/ /\ sourceRuns' \in Seq(SRuns)
         /\ \E w \in IntakeWorkers, p \in Procs :
              proc' = [proc EXCEPT ![w] = p] /\ (p.pc # "idle" => p.doc \in Docs)
  <2>1. ASSUME NEW w \in IntakeWorkers, NEW d \in Docs, NEW pc \in {"fetch", "pass"},
               OpenRun(w, pc, d)
        PROVE  /\ sourceRuns' \in Seq(SRuns)
               /\ \E p \in Procs : proc' = [proc EXCEPT ![w] = p] /\ (p.pc # "idle" => p.doc \in Docs)
    <3> DEFINE r == [kind |-> pc, status |-> "running", quarantined |-> 0]
               p == [pc |-> pc, doc |-> d, srun |-> Len(sourceRuns) + 1]
    <3>1. r \in SRuns /\ sourceRuns \in Seq(SRuns)
      BY DEF SRuns, IntakeTypes
    <3>2. Len(sourceRuns) + 1 \in Nat
      BY <3>1
    <3>3. p \in Procs /\ p.doc = d
      BY <3>2 DEF Procs
    <3>4. sourceRuns' = Append(sourceRuns, r) /\ proc' = [proc EXCEPT ![w] = p]
      BY <2>1 DEF OpenRun
    <3> HIDE DEF r, p
    <3>5. sourceRuns' \in Seq(SRuns)
      BY <3>1, <3>4
    <3>6. p.doc \in Docs
      BY <3>3
    <3> QED
      BY <3>3, <3>4, <3>5, <3>6
  <2>2. ASSUME NEW w \in IntakeWorkers, NEW n \in Nat, Committed(w, n), proc[w].pc # "idle"
        PROVE  /\ sourceRuns' \in Seq(SRuns)
               /\ \E p \in Procs : proc' = [proc EXCEPT ![w] = p] /\ (p.pc # "idle" => p.doc \in Docs)
    <3>1. proc[w] \in Procs /\ proc[w].doc \in Docs
      BY <2>2 DEF IntakeTypes
    <3>2. PICK pc \in {"ended", "failed"} : proc' = [proc EXCEPT ![w].pc = pc]
      BY <2>2 DEF Committed
    <3> DEFINE p == [proc[w] EXCEPT !.pc = pc]
    <3>3. p \in Procs /\ p.doc \in Docs
      BY <3>1 DEF Procs
    <3>4. proc' = [proc EXCEPT ![w] = p]
      BY <3>2
    <3>5. sourceRuns' \in Seq(SRuns)
      <4> DEFINE i == proc[w].srun
      <4>1. sourceRuns' = [sourceRuns EXCEPT ![i].status = "succeeded", ![i].quarantined = n]
        BY <2>2 DEF Committed, Closed
      <4> HIDE DEF i
      <4> QED
        BY <4>1, RunCloses DEF IntakeTypes
    <3> HIDE DEF p
    <3> QED
      BY <3>3, <3>4, <3>5
  <2>3. CASE UNCHANGED <<sourceRuns, proc>>
    BY <2>3
  <2>4. ASSUME NEW w \in IntakeWorkers, BeginFetch(w) \/ StartPass(w)
        PROVE  /\ sourceRuns' \in Seq(SRuns)
               /\ \E p \in Procs : proc' = [proc EXCEPT ![w] = p] /\ (p.pc # "idle" => p.doc \in Docs)
    BY <2>1, <2>4 DEF BeginFetch, StartPass, IntakeTypes
  <2>5. ASSUME NEW w \in IntakeWorkers, StoreDocument(w) \/ PassDocument(w)
        PROVE  /\ sourceRuns' \in Seq(SRuns)
               /\ \E p \in Procs : proc' = [proc EXCEPT ![w] = p] /\ (p.pc # "idle" => p.doc \in Docs)
    <3>1. CASE StoreDocument(w)
      BY <2>2, <3>1 DEF StoreDocument
    <3>2. CASE PassDocument(w)
      <4>1. proc[w].doc \in Docs
        BY <3>2 DEF PassDocument, IntakeTypes
      <4>2. Cardinality(Failing(proc[w].doc)) \in Nat
        <5>1. IsFiniteSet(Statements[proc[w].doc])
          BY <4>1, StatementsAssumption
        <5>2. Failing(proc[w].doc) \in SUBSET Statements[proc[w].doc]
          BY DEF Failing
        <5> QED
          BY <5>1, <5>2, FS_Subset, FS_CardinalityType
      <4> QED
        BY <2>2, <3>2, <4>2 DEF PassDocument
    <3> QED
      BY <2>5, <3>1, <3>2
  <2>6. ASSUME NEW w \in IntakeWorkers, SettleJob(w) \/ TransactionFails(w) \/ FailRun(w) \/ Dies(w)
        PROVE  /\ sourceRuns' \in Seq(SRuns)
               /\ \E p \in Procs : proc' = [proc EXCEPT ![w] = p] /\ (p.pc # "idle" => p.doc \in Docs)
    <3>1. sourceRuns' \in Seq(SRuns)
      <4>1. sourceRuns \in Seq(SRuns)
        BY DEF IntakeTypes
      <4>2. CASE UNCHANGED sourceRuns
        BY <4>1, <4>2
      <4>3. CASE ~UNCHANGED sourceRuns
        <5> DEFINE i == proc[w].srun
        <5>1. sourceRuns' = [sourceRuns EXCEPT ![i].status = "failed", ![i].quarantined = 0]
          BY <2>6, <4>3 DEF SettleJob, TransactionFails, FailRun, Dies
        <5> HIDE DEF i
        <5> QED
          BY <4>1, <5>1, RunCloses
      <4> QED
        BY <4>2, <4>3
    <3>2. CASE TransactionFails(w)
      <4>1. proc[w] \in Procs /\ proc[w].doc \in Docs
        BY <3>2 DEF TransactionFails, IntakeTypes
      <4> DEFINE p == [proc[w] EXCEPT !.pc = "failed"]
      <4>2. p \in Procs /\ p.doc \in Docs
        BY <4>1 DEF Procs
      <4>3. proc' = [proc EXCEPT ![w] = p]
        BY <3>2 DEF TransactionFails
      <4> HIDE DEF p
      <4> QED
        BY <3>1, <4>2, <4>3
    <3>3. CASE SettleJob(w) \/ FailRun(w) \/ Dies(w)
      BY <1>b, <3>1, <3>3 DEF SettleJob, FailRun, Dies
    <3> QED
      BY <2>6, <3>2, <3>3
  <2>7. ASSUME NEW w \in IntakeWorkers, KeyIsTaken(w) \/ FindUnchanged(w)
        PROVE  /\ sourceRuns' \in Seq(SRuns)
               /\ \E p \in Procs : proc' = [proc EXCEPT ![w] = p] /\ (p.pc # "idle" => p.doc \in Docs)
    <3>1. proc[w] \in Procs /\ proc[w].doc \in Docs
      BY <2>7 DEF KeyIsTaken, FindUnchanged, IntakeTypes
    <3>2. PICK pc \in {"ended", "failed"} : proc' = [proc EXCEPT ![w].pc = pc]
      BY <2>7 DEF KeyIsTaken, FindUnchanged
    <3> DEFINE p == [proc[w] EXCEPT !.pc = pc]
               i == proc[w].srun
    <3>3. p \in Procs /\ p.doc \in Docs
      BY <3>1 DEF Procs
    <3>4. proc' = [proc EXCEPT ![w] = p]
      BY <3>2
    <3>5. \/ UNCHANGED sourceRuns
          \/ sourceRuns' = [sourceRuns EXCEPT ![i].status = "succeeded", ![i].quarantined = 0]
      BY <2>7 DEF KeyIsTaken, FindUnchanged, Closed
    <3> HIDE DEF p, i
    <3>6. sourceRuns' \in Seq(SRuns)
      <4>1. sourceRuns \in Seq(SRuns)
        BY DEF IntakeTypes
      <4>2. [sourceRuns EXCEPT ![i].status = "succeeded", ![i].quarantined = 0] \in Seq(SRuns)
        BY <4>1, RunCloses
      <4> QED
        BY <3>5, <4>1, <4>2
    <3> QED
      BY <3>3, <3>4, <3>6
  <2> QED
    BY <2>3, <2>4, <2>5, <2>6, <2>7
       DEF IntakeNext, intakeVars, IntakeStep, FetchEnds, Release, ReadRow, Acknowledge, Reprocess, Leave
<1>3. \/ UNCHANGED desk
      \/ \E k \in Clerks, c \in Desks :
           desk' = [desk EXCEPT ![k] = c] /\ (c.pc # "idle" => c.row \in 1..Len(rows))
  <2>1. ASSUME NEW k \in Clerks, NEW i \in DOMAIN rows, NEW pc \in {"acknowledge", "reprocess"},
               ReadRow(k, i, pc)
        PROVE  \E c \in Desks : desk' = [desk EXCEPT ![k] = c] /\ c.row \in 1..Len(rows)
    <3> DEFINE c == [pc |-> pc, row |-> i, read |-> rows[i].status]
    <3>1. i \in 1..Len(rows) /\ rows[i].status \in Statuses
      <4>1. rows \in Seq(QRows)
        BY DEF IntakeTypes
      <4>2. i \in 1..Len(rows) /\ rows[i] \in QRows
        BY <4>1
      <4> QED
        BY <4>2 DEF QRows
    <3>2. c \in Desks /\ c.row = i
      BY <3>1 DEF Desks
    <3>3. desk' = [desk EXCEPT ![k] = c]
      BY <2>1 DEF ReadRow
    <3> HIDE DEF c
    <3> QED
      BY <3>1, <3>2, <3>3
  <2>2. ASSUME NEW k \in Clerks, Acknowledge(k) \/ Reprocess(k)
        PROVE  \E c \in Desks : desk' = [desk EXCEPT ![k] = c] /\ c.pc = "idle"
    BY <1>b, <2>2 DEF Acknowledge, Reprocess, Leave
  <2>3. \/ UNCHANGED desk
        \/ \E k \in Clerks : \/ \E i \in DOMAIN rows, pc \in {"acknowledge", "reprocess"} : ReadRow(k, i, pc)
                           \/ Acknowledge(k) \/ Reprocess(k)
    BY DEF IntakeNext, intakeVars, BeginFetch, StartPass, OpenRun, IntakeStep, FetchEnds,
           StoreDocument, KeyIsTaken, FindUnchanged,
           PassDocument, SettleJob, FailRun, TransactionFails, Dies, Release
  <2> QED
    BY <2>1, <2>2, <2>3
<1>4. \/ UNCHANGED <<sourceRuns, proc>>
      \/ sourceRuns' \in Seq(SRuns)
  BY <1>2
<1>5. sourceRuns' \in Seq(SRuns)
  BY <1>4 DEF IntakeTypes
<1>6. /\ proc' \in [IntakeWorkers -> Procs]
      /\ \A w \in IntakeWorkers : proc'[w].pc # "idle" => proc'[w].doc \in Docs
  BY <1>2 DEF IntakeTypes
<1>7. /\ desk' \in [Clerks -> Desks]
      /\ \A k \in Clerks : desk'[k].pc # "idle" => desk'[k].row \in 1..Len(rows)
  BY <1>3 DEF IntakeTypes
<1>8. \A k \in Clerks : desk'[k].pc # "idle" => desk'[k].row \in 1..Len(rows')
  BY <1>a, <1>7
<1> QED
  BY <1>a, <1>1, <1>5, <1>6, <1>7, <1>8 DEF IntakeTypes

\* Every step keeps the invariant and treats the quarantine as QuarantineStep says.
LEMMA IntakeInvStep == IntakeInv /\ [IntakeNext]_intakeVars => IntakeInv' /\ QuarantineStep
<1> SUFFICES ASSUME IntakeInv, [IntakeNext]_intakeVars PROVE IntakeInv' /\ QuarantineStep
  OBVIOUS
<1>1. QuarantineStep /\ IntakeTypes'
  BY QuarantineAlways, IntakeTypesStep DEF IntakeInv
<1>2. /\ Len(rows) \in Nat /\ Len(rows') \in Nat /\ Len(rows) <= Len(rows')
      /\ DOMAIN rows = 1..Len(rows) /\ DOMAIN rows' = 1..Len(rows')
  <2>1. rows \in Seq(QRows) /\ rows' \in Seq(QRows) /\ Len(rows) <= Len(rows')
    BY <1>1 DEF IntakeInv, IntakeTypes, QuarantineStep
  <2>2. Len(rows) \in Nat /\ DOMAIN rows = 1..Len(rows)
    BY <2>1
  <2>3. Len(rows') \in Nat /\ DOMAIN rows' = 1..Len(rows')
    BY <2>1
  <2> QED
    BY <2>1, <2>2, <2>3
<1>3. RowsOK'
  <2> SUFFICES ASSUME NEW i \in 1..Len(rows') PROVE <<rows'[i].doc, rows'[i].cve>> \in Records
    BY DEF RowsOK
  <2>1. CASE i \in 1..Len(rows)
    BY <1>1, <2>1 DEF IntakeInv, RowsOK, QuarantineStep
  <2>2. CASE i \notin 1..Len(rows)
    BY <1>1, <1>2, <2>2 DEF QuarantineStep
  <2> QED
    BY <2>1, <2>2
<1>4. NothingDropped'
  <2> SUFFICES ASSUME NEW p \in Records, p[1] \in passed'
               PROVE  p \in stating' \/ \E i \in 1..Len(rows') : <<rows'[i].doc, rows'[i].cve>> = p
    BY <1>2 DEF NothingDropped
  <2>1. CASE p[1] \in passed
    <3>1. p \in stating \/ \E i \in 1..Len(rows) : <<rows[i].doc, rows[i].cve>> = p
      BY <1>2, <2>1 DEF IntakeInv, NothingDropped
    <3>2. CASE p \in stating
      BY <1>1, <3>2 DEF QuarantineStep
    <3>3. ASSUME NEW i \in 1..Len(rows), <<rows[i].doc, rows[i].cve>> = p
          PROVE  \E j \in 1..Len(rows') : <<rows'[j].doc, rows'[j].cve>> = p
      <4>1. rows'[i].doc = rows[i].doc /\ rows'[i].cve = rows[i].cve
        BY <1>1 DEF QuarantineStep
      <4>2. i \in 1..Len(rows')
        BY <1>2
      <4> QED
        BY <3>3, <4>1, <4>2
    <3> QED
      BY <3>1, <3>2, <3>3
  <2>2. CASE p[1] \notin passed
    BY <1>1, <2>2 DEF QuarantineStep
  <2> QED
    BY <2>1, <2>2
<1>5. ResolvedIsNormalised'
  <2> SUFFICES ASSUME NEW i \in 1..Len(rows'), rows'[i].status = "resolved"
               PROVE  <<rows'[i].doc, rows'[i].cve>> \in stating'
    BY <1>2 DEF ResolvedIsNormalised
  <2>1. CASE i \in 1..Len(rows)
    BY <1>1, <1>2, <2>1 DEF QuarantineStep, IntakeInv, ResolvedIsNormalised
  <2>2. CASE i \notin 1..Len(rows)
    BY <1>1, <1>2, <2>2 DEF QuarantineStep
  <2> QED
    BY <2>1, <2>2
<1> QED
  BY <1>1, <1>3, <1>4, <1>5 DEF IntakeInv

\* The invariant the theorems about documents and the quarantine rest on.
LEMMA IntakeInvariant == IntakeSpec => []IntakeInv
<1>1. IntakeInit => IntakeInv
  <2> SUFFICES ASSUME IntakeInit PROVE IntakeInv
    OBVIOUS
  <2>1. NoJob \in Procs /\ NoJob.pc = "idle" /\ AtEase \in Desks /\ AtEase.pc = "idle"
    BY DEF NoJob, Procs, AtEase, Desks, Statuses
  <2>2. IntakeTypes
    BY <2>1 DEF IntakeInit, IntakeTypes
  <2>3. RowsOK /\ ResolvedIsNormalised
    BY DEF IntakeInit, RowsOK, ResolvedIsNormalised
  <2>4. NothingDropped
    BY DEF IntakeInit, NothingDropped
  <2> QED
    BY <2>2, <2>3, <2>4 DEF IntakeInv
<1>2. IntakeInv /\ [IntakeNext]_intakeVars => IntakeInv'
  BY IntakeInvStep
<1> QED
  BY <1>1, <1>2, PTL DEF IntakeSpec

\* Each record of a normalised document is a statement or a quarantine row,
\* for any number of documents, records, defects, workers, clerks and failures
\* (normalize_source.go: an isolated record is counted, not fatal).
THEOREM NoRecordIsDropped == IntakeSpec => []NothingDropped
<1>1. IntakeInv => NothingDropped
  BY DEF IntakeInv
<1> QED
  BY <1>1, IntakeInvariant, PTL

\* A resolved row's record has become a statement, whoever raced to reprocess
\* or acknowledge the row (quarantine.go, QuarantineReprocess).
THEOREM ResolvedRowsAreStatements == IntakeSpec => []ResolvedIsNormalised
<1>1. IntakeInv => ResolvedIsNormalised
  BY DEF IntakeInv
<1> QED
  BY <1>1, IntakeInvariant, PTL

\* The state machine of a quarantine row holds between concurrent clerks, and
\* its attempts never decrease (domain/quarantine.go).
THEOREM RowsMoveForward == IntakeSpec => QuarantineMovesForward
<1>1. IntakeInv /\ QuarantineStep =>
        \A i \in DOMAIN rows : rows'[i] # rows[i] =>
          /\ rows'[i].attempts >= rows[i].attempts
          /\ <<rows[i].status, rows'[i].status>> \in Moves
  <2> SUFFICES ASSUME IntakeInv, QuarantineStep, NEW i \in DOMAIN rows, rows'[i] # rows[i]
               PROVE  /\ rows'[i].attempts >= rows[i].attempts
                      /\ <<rows[i].status, rows'[i].status>> \in Moves
    OBVIOUS
  <2>1. i \in 1..Len(rows)
    BY DEF IntakeInv, IntakeTypes
  <2> QED
    BY <2>1 DEF QuarantineStep
<1>2. IntakeInv /\ [IntakeNext]_intakeVars =>
        [\A i \in DOMAIN rows : rows'[i] # rows[i] =>
          /\ rows'[i].attempts >= rows[i].attempts
          /\ <<rows[i].status, rows'[i].status>> \in
               {<<"new", "new">>, <<"new", "acknowledged">>, <<"new", "resolved">>,
                <<"new", "ready_for_retry">>, <<"acknowledged", "ready_for_retry">>,
                <<"acknowledged", "resolved">>, <<"ready_for_retry", "ready_for_retry">>,
                <<"ready_for_retry", "resolved">>}]_rows
  BY <1>1, IntakeInvStep DEF Moves
<1> QED
  BY <1>2, IntakeInvariant, PTL DEF IntakeSpec, QuarantineMovesForward

\* The quarantine rows of a run.
RowsOf(r) == {i \in DOMAIN rows : rows[i].srun = r}

\* No two jobs are of one run, and a run has no rows before its commit.
RunsOK ==
    /\ \A i \in 1..Len(rows) : rows[i].srun <= Len(sourceRuns)
    /\ \A w \in IntakeWorkers : proc[w].pc # "idle" => proc[w].srun \in 1..Len(sourceRuns)
    /\ \A v, w \in IntakeWorkers :
         v # w /\ proc[v].pc # "idle" /\ proc[w].pc # "idle" => proc[v].srun # proc[w].srun
    /\ \A w \in IntakeWorkers : proc[w].pc \in {"fetch", "pass"} => RowsOf(proc[w].srun) = {}

\* A step that is no pass of a run leaves the rows of every run alone.
LEMMA RowsOfStay ==
    ASSUME IntakeTypes, QuarantineStep, \A w \in IntakeWorkers : ~PassDocument(w),
           NEW r \in Nat \ {0}
    PROVE  RowsOf(r)' = RowsOf(r)
<1>1. /\ DOMAIN rows = 1..Len(rows) /\ DOMAIN rows' = 1..Len(rows')
      /\ Len(rows) \in Nat /\ Len(rows') \in Nat /\ Len(rows) <= Len(rows')
  <2>1. rows \in Seq(QRows) /\ rows' \in Seq(QRows) /\ Len(rows) <= Len(rows')
    BY DEF IntakeTypes, QuarantineStep
  <2>2. Len(rows) \in Nat /\ DOMAIN rows = 1..Len(rows)
    BY <2>1
  <2>3. Len(rows') \in Nat /\ DOMAIN rows' = 1..Len(rows')
    BY <2>1
  <2> QED
    BY <2>1, <2>2, <2>3
<1>2. \A i \in 1..Len(rows) : rows'[i].srun = rows[i].srun
  BY DEF QuarantineStep
<1>3. \A i \in 1..Len(rows') : i > Len(rows) => rows'[i].srun = 0
  BY DEF QuarantineStep
<1>4. \A i : i \in DOMAIN rows' /\ rows'[i].srun = r <=> i \in DOMAIN rows /\ rows[i].srun = r
  BY <1>1, <1>2, <1>3
<1> QED
  BY <1>4 DEF RowsOf

\* The pass of a run writes as many rows of that run as the document has
\* records that fail, and none of another.
LEMMA RowsOfPass ==
    ASSUME IntakeTypes, QuarantineStep, NEW w \in IntakeWorkers, PassDocument(w),
           RowsOf(proc[w].srun) = {}
    PROVE  /\ Cardinality(Failing(proc[w].doc)) \in Nat
           /\ \A i \in 1..Len(rows') : rows'[i].srun = IF i <= Len(rows) THEN rows[i].srun
                                                                      ELSE proc[w].srun
           /\ \A r \in Nat : r # proc[w].srun => RowsOf(r)' = RowsOf(r)
           /\ \A r \in Nat : r = proc[w].srun =>
                Cardinality(RowsOf(r)') = Cardinality(Failing(proc[w].doc))
<1> DEFINE d == proc[w].doc
           s == proc[w].srun
           new == Isolated(d, s)
           n == Cardinality(Failing(d))
<1>1. d \in Docs /\ s \in Nat /\ rows \in Seq(QRows)
  <2>1. proc[w] \in Procs /\ proc[w].pc # "idle"
    BY DEF PassDocument, IntakeTypes
  <2> QED
    BY <2>1 DEF IntakeTypes, Procs
<1>2. rows' = rows \o new
  BY DEF PassDocument, PassRun
<1>3. new \in Seq(QRows) /\ Len(new) = n /\ \A i \in 1..Len(new) : new[i].srun = s
  BY <1>1, IsolatedRows
<1>4. RowsOf(s) = {}
  OBVIOUS
<1> HIDE DEF d, s, new, n
<1>5. n \in Nat /\ Len(rows) \in Nat /\ DOMAIN rows = 1..Len(rows)
  BY <1>1, <1>3
<1>6. /\ rows' \in Seq(QRows) /\ Len(rows') = Len(rows) + n
      /\ \A i \in 1..Len(rows) : rows'[i] = rows[i]
      /\ \A i \in 1..n : rows'[Len(rows) + i] = new[i]
  <2>1. /\ rows \o new \in Seq(QRows) /\ Len(rows \o new) = Len(rows) + Len(new)
        /\ \A i \in 1..(Len(rows) + Len(new)) :
             (rows \o new)[i] = IF i <= Len(rows) THEN rows[i] ELSE new[i - Len(rows)]
    BY ONLY <1>1, <1>3, ConcatProperties
  <2> QED
    BY <1>2, <1>3, <1>5, <2>1
<1>7. DOMAIN rows' = 1..(Len(rows) + n)
  BY <1>6
<1>8. \A i \in 1..(Len(rows) + n) : i > Len(rows) => rows'[i].srun = s
  <2> SUFFICES ASSUME NEW i \in 1..(Len(rows) + n), i > Len(rows) PROVE rows'[i].srun = s
    OBVIOUS
  <2>1. i - Len(rows) \in 1..n /\ rows'[i] = new[i - Len(rows)]
    BY <1>5, <1>6
  <2> QED
    BY <1>3, <2>1
<1>9. \A i \in 1..Len(rows') : rows'[i].srun = IF i <= Len(rows) THEN rows[i].srun ELSE s
  BY <1>5, <1>6, <1>8
<1>10. ASSUME NEW r \in Nat, r # s PROVE RowsOf(r)' = RowsOf(r)
  <2>1. \A i : i \in DOMAIN rows' /\ rows'[i].srun = r <=> i \in DOMAIN rows /\ rows[i].srun = r
    BY <1>5, <1>6, <1>7, <1>8, <1>10
  <2> QED
    BY <2>1 DEF RowsOf
<1>11. ASSUME NEW r \in Nat, r = s PROVE Cardinality(RowsOf(r)') = n
  <2>1. \A i \in 1..Len(rows) : rows[i].srun # r
    BY <1>4, <1>5, <1>11 DEF RowsOf
  <2>2. \A i : i \in DOMAIN rows' /\ rows'[i].srun = r <=> i \in (Len(rows) + 1)..(Len(rows) + n)
    BY <1>5, <1>6, <1>7, <1>8, <1>11, <2>1
  <2>3. RowsOf(r)' = (Len(rows) + 1)..(Len(rows) + n)
    BY <2>2 DEF RowsOf
  <2>4. Cardinality((Len(rows) + 1)..(Len(rows) + n)) = n
    <3>1. PICK a, b \in Int : a = Len(rows) + 1 /\ b = Len(rows) + n
      BY <1>5
    <3>2. Cardinality(a..b) = IF a > b THEN 0 ELSE b - a + 1
      BY FS_Interval
    <3> QED
      BY <1>5, <3>1, <3>2
  <2> QED
    BY <2>3, <2>4
<1> QED
  BY <1>5, <1>9, <1>10, <1>11 DEF d, s, n

\* What a step does to the jobs and the runs: it opens a run for an idle
\* worker, or the jobs go on or end with the runs they have.
LEMMA JobsGoOn ==
    ASSUME IntakeTypes, IntakeTypes', [IntakeNext]_intakeVars
    PROVE  \/ \E w \in IntakeWorkers, pc \in {"fetch", "pass"}, d \in Docs : OpenRun(w, pc, d)
           \/ /\ Len(sourceRuns') = Len(sourceRuns)
              /\ \A v \in IntakeWorkers :
                   /\ proc'[v].pc # "idle" => proc[v].pc # "idle" /\ proc'[v].srun = proc[v].srun
                   /\ proc'[v].pc \in {"fetch", "pass"} => proc[v].pc = proc'[v].pc /\ ~PassDocument(v)
<1> DEFINE GoOn == \A v \in IntakeWorkers :
                   /\ proc'[v].pc # "idle" => proc[v].pc # "idle" /\ proc'[v].srun = proc[v].srun
                   /\ proc'[v].pc \in {"fetch", "pass"} => proc[v].pc = proc'[v].pc /\ ~PassDocument(v)
<1>1. sourceRuns \in Seq(SRuns) /\ DOMAIN sourceRuns = 1..Len(sourceRuns)
      /\ proc \in [IntakeWorkers -> Procs]
  BY DEF IntakeTypes
<1>2. ASSUME NEW w \in IntakeWorkers, proc[w].pc # "idle",
             NEW pc \in {"idle", "failed", "ended"}, proc'[w].pc = pc,
             pc # "idle" => proc'[w].srun = proc[w].srun,
             \A v \in IntakeWorkers \ {w} : proc'[v] = proc[v]
      PROVE  GoOn
  <2> SUFFICES ASSUME NEW v \in IntakeWorkers
               PROVE  /\ proc'[v].pc # "idle" => proc[v].pc # "idle" /\ proc'[v].srun = proc[v].srun
                      /\ proc'[v].pc \in {"fetch", "pass"} =>
                           proc[v].pc = proc'[v].pc /\ ~PassDocument(v)
    OBVIOUS
  <2>1. CASE v = w
    BY <1>2, <2>1
  <2>2. CASE v # w
    <3>1. proc'[v] = proc[v]
      BY <1>2, <2>2
    <3>2. PassDocument(v) => proc'[v].pc \in {"ended", "failed"}
      BY <1>1 DEF PassDocument, Committed, Procs
    <3> QED
      BY <3>1, <3>2
  <2> QED
    BY <2>1, <2>2
<1>3. NoJob.pc = "idle"
  BY DEF NoJob
<1>4. ASSUME NEW w \in IntakeWorkers, IntakeStep(w) \/ TransactionFails(w) \/ Dies(w)
      PROVE  Len(sourceRuns') = Len(sourceRuns) /\ GoOn
  <2>1. proc[w].pc # "idle"
    BY <1>4 DEF IntakeStep, FetchEnds, StoreDocument, KeyIsTaken, FindUnchanged, PassDocument,
                SettleJob, FailRun, TransactionFails, Dies
  <2>2. \/ proc' = [proc EXCEPT ![w] = NoJob]
        \/ \E pc \in {"failed", "ended"} : proc' = [proc EXCEPT ![w].pc = pc]
    BY <1>4 DEF IntakeStep, FetchEnds, StoreDocument, KeyIsTaken, FindUnchanged, PassDocument,
                SettleJob, FailRun, TransactionFails, Dies, Committed
  <2>3. /\ proc'[w].pc \in {"idle", "failed", "ended"}
        /\ proc'[w].pc # "idle" => proc'[w].srun = proc[w].srun
        /\ \A v \in IntakeWorkers \ {w} : proc'[v] = proc[v]
    BY <1>1, <1>3, <2>2 DEF Procs
  <2>4. Len(sourceRuns') = Len(sourceRuns)
    <3>1. DOMAIN sourceRuns' = DOMAIN sourceRuns
      <4>1. CASE FetchEnds(w) \/ PassDocument(w)
        BY <4>1 DEF FetchEnds, StoreDocument, KeyIsTaken, FindUnchanged, PassDocument, Committed, Closed
      <4>2. CASE FailRun(w)
        BY <4>2 DEF FailRun
      <4>3. CASE SettleJob(w) \/ TransactionFails(w) \/ Dies(w)
        BY <4>3 DEF SettleJob, TransactionFails, Dies
      <4> QED
        BY <1>4, <4>1, <4>2, <4>3 DEF IntakeStep
    <3>2. sourceRuns' \in Seq(SRuns) /\ sourceRuns \in Seq(SRuns)
      BY DEF IntakeTypes
    <3>3. Len(sourceRuns') \in Nat /\ Len(sourceRuns) \in Nat
          /\ 1..Len(sourceRuns') = 1..Len(sourceRuns)
      BY <3>1, <3>2
    <3> QED
      BY <3>3
  <2> QED
    BY <1>2, <2>1, <2>3, <2>4
<1>5. CASE UNCHANGED <<sourceRuns, proc>>
  <2>1. ASSUME NEW v \in IntakeWorkers PROVE ~PassDocument(v)
    <3>1. PassDocument(v) => proc'[v].pc \in {"ended", "failed"} /\ proc[v].pc = "pass"
      BY <1>1 DEF PassDocument, Committed, Procs
    <3> QED
      BY <1>5, <3>1
  <2> QED
    BY <1>5, <2>1
<1>6. \/ UNCHANGED <<sourceRuns, proc>>
      \/ \E w \in IntakeWorkers : \/ BeginFetch(w) \/ StartPass(w) \/ IntakeStep(w)
                                  \/ TransactionFails(w) \/ Dies(w)
  BY DEF IntakeNext, intakeVars, Release, ReadRow, Acknowledge, Reprocess, Leave
<1>7. ASSUME NEW w \in IntakeWorkers, BeginFetch(w) \/ StartPass(w)
      PROVE  \E pc \in {"fetch", "pass"}, d \in Docs : OpenRun(w, pc, d)
  BY <1>7 DEF BeginFetch, StartPass, IntakeTypes
<1> QED
  BY <1>4, <1>5, <1>6, <1>7

\* The counter of a run that a step has closed with success, or that had been.
LEMMA CountersOfRuns ==
    ASSUME IntakeTypes, IntakeTypes', [IntakeNext]_intakeVars,
           NEW r \in 1..Len(sourceRuns'), sourceRuns'[r].status = "succeeded"
    PROVE  \/ /\ r \in 1..Len(sourceRuns) /\ sourceRuns[r].status = "succeeded"
              /\ sourceRuns'[r].quarantined = sourceRuns[r].quarantined
           \/ \E w \in IntakeWorkers :
                /\ r = proc[w].srun
                /\ \/ FetchEnds(w) /\ sourceRuns'[r].quarantined = 0
                   \/ PassDocument(w)
                        /\ sourceRuns'[r].quarantined = Cardinality(Failing(proc[w].doc))
<1>1. /\ sourceRuns \in Seq(SRuns) /\ DOMAIN sourceRuns = 1..Len(sourceRuns)
      /\ sourceRuns' \in Seq(SRuns) /\ DOMAIN sourceRuns' = 1..Len(sourceRuns')
      /\ Len(sourceRuns) \in Nat
  <2>1. sourceRuns \in Seq(SRuns) /\ sourceRuns' \in Seq(SRuns)
    BY DEF IntakeTypes
  <2> QED
    BY <2>1
<1>2. CASE UNCHANGED sourceRuns
  BY <1>2
<1>3. ASSUME NEW w \in IntakeWorkers, NEW pc \in {"fetch", "pass"}, NEW d \in Docs,
             OpenRun(w, pc, d)
      PROVE  r \in 1..Len(sourceRuns) /\ sourceRuns'[r] = sourceRuns[r]
  <2> DEFINE run == [kind |-> pc, status |-> "running", quarantined |-> 0]
  <2>1. sourceRuns' = Append(sourceRuns, run) /\ run \in SRuns /\ run.status = "running"
    BY <1>3 DEF OpenRun, SRuns
  <2> HIDE DEF run
  <2>2. /\ Len(sourceRuns') = Len(sourceRuns) + 1
        /\ sourceRuns'[Len(sourceRuns) + 1] = run
        /\ \A i \in 1..Len(sourceRuns) : sourceRuns'[i] = sourceRuns[i]
    BY <1>1, <2>1
  <2>3. r # Len(sourceRuns) + 1
    BY <2>1, <2>2
  <2>4. r \in 1..Len(sourceRuns)
    BY <1>1, <2>2, <2>3
  <2> QED
    BY <2>2, <2>4
<1>4. ASSUME NEW w \in IntakeWorkers, NEW q, Closed(w, q)
      PROVE  /\ r \in 1..Len(sourceRuns)
             /\ r # proc[w].srun => sourceRuns'[r] = sourceRuns[r]
             /\ r = proc[w].srun => sourceRuns'[r].quarantined = q
  <2> DEFINE s == proc[w].srun
  <2>1. sourceRuns' = [sourceRuns EXCEPT ![s].status = "succeeded", ![s].quarantined = q]
    BY <1>4 DEF Closed
  <2> HIDE DEF s
  <2>2. r \in DOMAIN sourceRuns
    BY <1>1, <2>1
  <2>3. sourceRuns[r] \in SRuns
    BY <1>1, <2>2
  <2>4. r # s => sourceRuns'[r] = sourceRuns[r]
    BY <1>1, <2>1, <2>2
  <2>5. r = s => sourceRuns'[r] = [[sourceRuns[r] EXCEPT !.status = "succeeded"] EXCEPT !.quarantined = q]
    BY <1>1, <2>1, <2>2
  <2>6. r = s => sourceRuns'[r].quarantined = q
    BY <2>3, <2>5 DEF SRuns
  <2> QED
    BY <1>1, <2>2, <2>4, <2>6 DEF s
<1>5. ASSUME NEW w \in IntakeWorkers, FailRun(w), ~UNCHANGED sourceRuns
      PROVE  r \in 1..Len(sourceRuns) /\ sourceRuns'[r] = sourceRuns[r]
  <2> DEFINE s == proc[w].srun
  <2>1. sourceRuns' = [sourceRuns EXCEPT ![s].status = "failed", ![s].quarantined = 0]
    BY <1>5 DEF FailRun
  <2> HIDE DEF s
  <2>2. r \in DOMAIN sourceRuns
    BY <1>1, <2>1
  <2>3. sourceRuns[r] \in SRuns
    BY <1>1, <2>2
  <2>4. r = s => sourceRuns'[r] = [[sourceRuns[r] EXCEPT !.status = "failed"] EXCEPT !.quarantined = 0]
    BY <1>1, <2>1, <2>2
  <2>5. r # s
    BY <2>3, <2>4 DEF SRuns
  <2>6. sourceRuns'[r] = sourceRuns[r]
    BY <1>1, <2>1, <2>2, <2>5
  <2> QED
    BY <1>1, <2>2, <2>6
<1>6. \/ UNCHANGED sourceRuns
      \/ \E w \in IntakeWorkers, pc \in {"fetch", "pass"}, d \in Docs : OpenRun(w, pc, d)
      \/ \E w \in IntakeWorkers : FetchEnds(w) \/ PassDocument(w) \/ FailRun(w)
  <2>1. ASSUME NEW w \in IntakeWorkers, BeginFetch(w) \/ StartPass(w)
        PROVE  \E pc \in {"fetch", "pass"}, d \in Docs : OpenRun(w, pc, d)
    BY <2>1 DEF BeginFetch, StartPass, IntakeTypes
  <2> QED
    BY <2>1 DEF IntakeNext, intakeVars, IntakeStep, SettleJob, TransactionFails, Dies, Release,
                ReadRow, Acknowledge, Reprocess, Leave
<1>7. ASSUME NEW w \in IntakeWorkers, FetchEnds(w) \/ PassDocument(w)
      PROVE  \/ /\ r \in 1..Len(sourceRuns) /\ sourceRuns'[r] = sourceRuns[r]
             \/ /\ r = proc[w].srun
                /\ \/ FetchEnds(w) /\ sourceRuns'[r].quarantined = 0
                   \/ PassDocument(w)
                        /\ sourceRuns'[r].quarantined = Cardinality(Failing(proc[w].doc))
  <2>1. FetchEnds(w) => Closed(w, 0) \/ UNCHANGED sourceRuns
    BY DEF FetchEnds, StoreDocument, KeyIsTaken, FindUnchanged, Committed
  <2>2. PassDocument(w) => Closed(w, Cardinality(Failing(proc[w].doc)))
    BY DEF PassDocument, Committed
  <2>3. UNCHANGED sourceRuns => r \in 1..Len(sourceRuns) /\ sourceRuns'[r] = sourceRuns[r]
    OBVIOUS
  <2> QED
    BY <1>4, <1>7, <2>1, <2>2, <2>3
<1> QED
  BY <1>2, <1>3, <1>5, <1>6, <1>7

\* Every step keeps the jobs and the counters right.
LEMMA CountsStep ==
    ASSUME IntakeTypes, IntakeTypes', QuarantineStep, RunsOK, RunCountsItsRows,
           [IntakeNext]_intakeVars
    PROVE  RunsOK' /\ RunCountsItsRows'
<1>1. /\ Len(sourceRuns) \in Nat /\ Len(sourceRuns') \in Nat
      /\ DOMAIN sourceRuns = 1..Len(sourceRuns) /\ DOMAIN sourceRuns' = 1..Len(sourceRuns')
  <2>1. sourceRuns \in Seq(SRuns) /\ sourceRuns' \in Seq(SRuns)
    BY DEF IntakeTypes
  <2>2. Len(sourceRuns) \in Nat /\ DOMAIN sourceRuns = 1..Len(sourceRuns)
    BY <2>1
  <2>3. Len(sourceRuns') \in Nat /\ DOMAIN sourceRuns' = 1..Len(sourceRuns')
    BY <2>1
  <2> QED
    BY <2>2, <2>3
<1>2. /\ Len(rows) \in Nat /\ Len(rows') \in Nat /\ Len(rows) <= Len(rows')
      /\ DOMAIN rows = 1..Len(rows) /\ DOMAIN rows' = 1..Len(rows')
      /\ \A i \in 1..Len(rows) : rows[i].srun \in Nat
      /\ \A i \in 1..Len(rows') : rows'[i].srun \in Nat
  <2>1. rows \in Seq(QRows) /\ rows' \in Seq(QRows) /\ Len(rows) <= Len(rows')
    BY DEF IntakeTypes, QuarantineStep
  <2>2. /\ Len(rows) \in Nat /\ DOMAIN rows = 1..Len(rows)
        /\ \A i \in 1..Len(rows) : rows[i] \in QRows
    BY <2>1
  <2>3. /\ Len(rows') \in Nat /\ DOMAIN rows' = 1..Len(rows')
        /\ \A i \in 1..Len(rows') : rows'[i] \in QRows
    BY <2>1
  <2> QED
    BY <2>1, <2>2, <2>3 DEF QRows
<1>3. ASSUME NEW w \in IntakeWorkers, PassDocument(w)
      PROVE  /\ proc[w].srun \in 1..Len(sourceRuns) /\ RowsOf(proc[w].srun) = {}
             /\ \A i \in 1..Len(rows') : rows'[i].srun = IF i <= Len(rows) THEN rows[i].srun
                                                                        ELSE proc[w].srun
             /\ \A r \in Nat : r # proc[w].srun => RowsOf(r)' = RowsOf(r)
             /\ \A r \in Nat : r = proc[w].srun =>
                  Cardinality(RowsOf(r)') = Cardinality(Failing(proc[w].doc))
  <2>1. proc[w].srun \in 1..Len(sourceRuns) /\ RowsOf(proc[w].srun) = {}
    BY <1>3 DEF RunsOK, PassDocument
  <2> QED
    BY <1>3, <2>1, RowsOfPass
<1>4. \A i \in 1..Len(rows') : rows'[i].srun <= Len(sourceRuns)
  <2> SUFFICES ASSUME NEW i \in 1..Len(rows') PROVE rows'[i].srun <= Len(sourceRuns)
    OBVIOUS
  <2>1. CASE i \in 1..Len(rows)
    BY <2>1 DEF QuarantineStep, RunsOK
  <2>2. CASE i \notin 1..Len(rows)
    <3>1. i > Len(rows)
      BY <1>2, <2>2
    <3>2. CASE rows'[i].srun = 0
      BY <1>1, <3>2
    <3>3. CASE rows'[i].srun # 0
      <4>1. PICK w \in IntakeWorkers : PassDocument(w)
        BY <3>1, <3>3 DEF QuarantineStep
      <4>2. rows'[i].srun = proc[w].srun /\ proc[w].srun \in 1..Len(sourceRuns)
        BY <1>2, <1>3, <3>1, <4>1
      <4> QED
        BY <1>1, <4>2
    <3> QED
      BY <3>2, <3>3
  <2> QED
    BY <2>1, <2>2
\* The rows of a run no pass of which commits stay.
<1>5. ASSUME NEW r \in Nat \ {0}, \A w \in IntakeWorkers : PassDocument(w) => r # proc[w].srun
      PROVE  RowsOf(r)' = RowsOf(r)
  <2>1. CASE \E w \in IntakeWorkers : PassDocument(w)
    BY <1>3, <1>5, <2>1
  <2>2. CASE \A w \in IntakeWorkers : ~PassDocument(w)
    BY <2>2, RowsOfStay
  <2> QED
    BY <2>1, <2>2
<1>6. RunsOK'
  <2>1. ASSUME NEW w \in IntakeWorkers, NEW pc \in {"fetch", "pass"}, NEW d \in Docs,
               OpenRun(w, pc, d)
        PROVE  RunsOK'
    <3> DEFINE n == Len(sourceRuns) + 1
    <3>1. /\ Len(sourceRuns') = n /\ UNCHANGED rows
          /\ proc'[w].srun = n /\ \A v \in IntakeWorkers \ {w} : proc'[v] = proc[v]
      <4>1. sourceRuns \in Seq(SRuns) /\ proc \in [IntakeWorkers -> Procs]
        BY DEF IntakeTypes
      <4>2. [kind |-> pc, status |-> "running", quarantined |-> 0] \in SRuns
        BY DEF SRuns
      <4> QED
        BY <2>1, <4>1, <4>2 DEF OpenRun
    <3>2. n \in Nat /\ n > Len(sourceRuns) /\ n > 0
      BY <1>1
    <3> HIDE DEF n
    <3>3. \A i \in 1..Len(rows') : rows'[i].srun <= Len(sourceRuns')
      BY <1>1, <1>2, <1>4, <3>1, <3>2
    <3>4. \A v \in IntakeWorkers : proc'[v].pc # "idle" => proc'[v].srun \in 1..Len(sourceRuns')
      <4> SUFFICES ASSUME NEW v \in IntakeWorkers, proc'[v].pc # "idle"
                   PROVE  proc'[v].srun \in 1..Len(sourceRuns')
        OBVIOUS
      <4>1. CASE v = w
        BY <3>1, <3>2, <4>1
      <4>2. CASE v # w
        <5>1. proc[v].srun \in 1..Len(sourceRuns) /\ proc'[v] = proc[v]
          BY <3>1, <4>2 DEF RunsOK
        <5> QED
          BY <1>1, <3>1, <3>2, <5>1
      <4> QED
        BY <4>1, <4>2
    <3>5. \A u, v \in IntakeWorkers :
            u # v /\ proc'[u].pc # "idle" /\ proc'[v].pc # "idle" => proc'[u].srun # proc'[v].srun
      <4>1. \A v \in IntakeWorkers : v # w /\ proc'[v].pc # "idle" => proc'[v].srun # n
        <5> SUFFICES ASSUME NEW v \in IntakeWorkers, v # w, proc'[v].pc # "idle"
                     PROVE  proc'[v].srun # n
          OBVIOUS
        <5>1. proc[v].srun \in 1..Len(sourceRuns) /\ proc'[v] = proc[v]
          BY <3>1 DEF RunsOK
        <5> QED
          BY <1>1, <3>2, <5>1
      <4>2. \A u, v \in IntakeWorkers :
              u # v /\ proc[u].pc # "idle" /\ proc[v].pc # "idle" => proc[u].srun # proc[v].srun
        BY DEF RunsOK
      <4> QED
        BY <3>1, <4>1, <4>2
    <3>6. ASSUME NEW v \in IntakeWorkers, proc'[v].pc \in {"fetch", "pass"}
          PROVE  \A i \in DOMAIN rows' : rows'[i].srun # proc'[v].srun
      <4>1. CASE v = w
        <5>1. \A i \in DOMAIN rows' : rows'[i].srun # n
          BY <1>1, <1>2, <1>4, <3>2
        <5> QED
          BY <3>1, <4>1, <5>1 DEF RowsOf
      <4>2. CASE v # w
        <5>1. proc'[v] = proc[v] /\ RowsOf(proc[v].srun) = {}
          BY <3>1, <3>6, <4>2 DEF RunsOK
        <5> QED
          BY <3>1, <5>1 DEF RowsOf
      <4> QED
        BY <4>1, <4>2
    <3> QED
      BY <3>3, <3>4, <3>5, <3>6 DEF RunsOK, RowsOf
  <2>2. ASSUME Len(sourceRuns') = Len(sourceRuns),
               \A v \in IntakeWorkers :
                   /\ proc'[v].pc # "idle" => proc[v].pc # "idle" /\ proc'[v].srun = proc[v].srun
                   /\ proc'[v].pc \in {"fetch", "pass"} => proc[v].pc = proc'[v].pc /\ ~PassDocument(v)
        PROVE  RunsOK'
    <3>1. \A i \in 1..Len(rows') : rows'[i].srun <= Len(sourceRuns')
      BY <1>4, <2>2
    <3>2. \A v \in IntakeWorkers : proc'[v].pc # "idle" => proc'[v].srun \in 1..Len(sourceRuns')
      BY <2>2 DEF RunsOK
    <3>3. \A u, v \in IntakeWorkers :
            u # v /\ proc'[u].pc # "idle" /\ proc'[v].pc # "idle" => proc'[u].srun # proc'[v].srun
      BY <2>2 DEF RunsOK
    <3>4. ASSUME NEW v \in IntakeWorkers, proc'[v].pc \in {"fetch", "pass"}
          PROVE  \A i \in DOMAIN rows' : rows'[i].srun # proc'[v].srun
      <4>1. /\ proc[v].pc = proc'[v].pc /\ ~PassDocument(v) /\ proc'[v].srun = proc[v].srun
            /\ proc[v].pc # "idle"
        BY <2>2, <3>4
      <4>2. proc[v].srun \in 1..Len(sourceRuns) /\ RowsOf(proc[v].srun) = {}
        BY <3>4, <4>1 DEF RunsOK
      <4>3. PICK r \in Nat \ {0} : r = proc[v].srun
        BY <1>1, <4>2
      <4>4. \A w \in IntakeWorkers : PassDocument(w) => r # proc[w].srun
        <5>1. \A w \in IntakeWorkers : PassDocument(w) => proc[w].pc = "pass" /\ w # v
          BY <4>1 DEF PassDocument
        <5> QED
          BY <4>1, <4>3, <5>1 DEF RunsOK
      <4>5. RowsOf(r)' = {}
        BY <1>5, <4>2, <4>3, <4>4
      <4> QED
        BY <4>1, <4>3, <4>5 DEF RowsOf
    <3> QED
      BY <3>1, <3>2, <3>3, <3>4 DEF RunsOK, RowsOf
  <2> QED
    BY <2>1, <2>2, JobsGoOn
<1>7. RunCountsItsRows'
  <2> SUFFICES ASSUME NEW r \in 1..Len(sourceRuns'), sourceRuns'[r].status = "succeeded"
               PROVE  sourceRuns'[r].quarantined = Cardinality(RowsOf(r)')
    BY <1>1 DEF RunCountsItsRows, RowsOf
  <2>1. r \in Nat \ {0}
    BY <1>1
  <2>2. CASE \E w \in IntakeWorkers :
               /\ r = proc[w].srun
               /\ \/ FetchEnds(w) /\ sourceRuns'[r].quarantined = 0
                  \/ PassDocument(w)
                       /\ sourceRuns'[r].quarantined = Cardinality(Failing(proc[w].doc))
    <3>1. PICK w \in IntakeWorkers :
               /\ r = proc[w].srun
               /\ \/ FetchEnds(w) /\ sourceRuns'[r].quarantined = 0
                  \/ PassDocument(w)
                       /\ sourceRuns'[r].quarantined = Cardinality(Failing(proc[w].doc))
      BY <2>2
    <3>2. CASE PassDocument(w)
      <4>1. ~FetchEnds(w)
        BY <3>2 DEF PassDocument, FetchEnds, StoreDocument, KeyIsTaken, FindUnchanged
      <4> QED
        BY <1>3, <2>1, <3>1, <3>2, <4>1
    <3>3. CASE FetchEnds(w)
      <4>1. ~PassDocument(w) /\ proc[w].pc = "fetch"
        BY <3>3 DEF PassDocument, FetchEnds, StoreDocument, KeyIsTaken, FindUnchanged
      <4>2. \A v \in IntakeWorkers : PassDocument(v) => r # proc[v].srun
        <5>1. \A v \in IntakeWorkers : PassDocument(v) => proc[v].pc = "pass" /\ v # w
          BY <4>1 DEF PassDocument
        <5> QED
          BY <3>1, <4>1, <5>1 DEF RunsOK
      <4>3. RowsOf(r)' = RowsOf(r) /\ RowsOf(r) = {}
        BY <1>5, <2>1, <3>1, <4>1, <4>2 DEF RunsOK
      <4> QED
        BY <3>1, <4>1, <4>3, FS_EmptySet
    <3> QED
      BY <3>1, <3>2, <3>3
  <2>3. CASE /\ r \in 1..Len(sourceRuns) /\ sourceRuns[r].status = "succeeded"
             /\ sourceRuns'[r].quarantined = sourceRuns[r].quarantined
             /\ \A w \in IntakeWorkers : PassDocument(w) => r # proc[w].srun
    <3>1. sourceRuns[r].quarantined = Cardinality(RowsOf(r))
      BY <1>1, <2>3 DEF RunCountsItsRows, RowsOf
    <3> QED
      BY <1>5, <2>1, <2>3, <3>1
  <2>4. ASSUME NEW w \in IntakeWorkers, PassDocument(w), r = proc[w].srun
        PROVE  sourceRuns'[r].quarantined = Cardinality(Failing(proc[w].doc))
    <3> DEFINE q == Cardinality(Failing(proc[w].doc))
               s == proc[w].srun
    <3>1. sourceRuns' = [sourceRuns EXCEPT ![s].status = "succeeded", ![s].quarantined = q]
      BY <2>4 DEF PassDocument, Committed, Closed
    <3>2. sourceRuns \in Seq(SRuns) /\ r = s
      BY <2>4 DEF IntakeTypes
    <3> HIDE DEF q, s
    <3>3. r \in DOMAIN sourceRuns
      BY <1>1, <3>1
    <3>4. sourceRuns[r] \in SRuns
      BY <3>2, <3>3
    <3>5. sourceRuns'[r] = [[sourceRuns[r] EXCEPT !.status = "succeeded"] EXCEPT !.quarantined = q]
      BY <3>1, <3>2, <3>3
    <3> QED
      BY <3>4, <3>5 DEF SRuns, q
  <2> QED
    BY <2>2, <2>3, <2>4, CountersOfRuns
<1> QED
  BY <1>6, <1>7

\* A succeeded run counts the quarantine rows it wrote, for any number of
\* documents, workers, clerks and failures: no redelivery, no second run over
\* the same document and no reprocess adds a row to it or takes one away
\* (normalize_source.go, normalizeCounters).
THEOREM CountersAreRows == IntakeSpec => []RunCountsItsRows
<1>1. IntakeInit => RunsOK /\ RunCountsItsRows
  BY DEF IntakeInit, RunsOK, RunCountsItsRows, RowsOf, NoJob
<1>2. /\ IntakeInv /\ RunsOK /\ RunCountsItsRows /\ IntakeInv'
      /\ [IntakeNext]_intakeVars
      => RunsOK' /\ RunCountsItsRows'
  BY CountsStep, IntakeInvStep DEF IntakeInv
<1> QED
  BY <1>1, <1>2, IntakeInvariant, PTL DEF IntakeSpec

-------------------------------------------------------------------------------
(* KevCatalog *)

Statings == [raw : Nat, type : {"kev", "kev_removed"}, cve : KevCVEs, at : Nat]
Passes == [doc : Nat, at : Nat, previous : SUBSET KevCVEs]

KevTypes ==
    /\ raw \in Nat /\ raw <= Len(Listed) /\ instant \in Nat
    /\ kevJobs \subseteq {raw} /\ (raw = 0 => kevJobs = {})
    /\ evidences \subseteq Statings
    /\ pass \in [KevWorkers -> Passes]

\* A catalog's statements are about what it lists, and later than those of the
\* catalogs before it.
StatedOK ==
    /\ \A e \in evidences : /\ e.raw \in 1..raw /\ e.at \in 1..instant
                            /\ e.type = "kev" <=> e.cve \in Listed[e.raw]
    /\ \A e, f \in evidences : e.raw < f.raw => e.at < f.at

States(d, type, c) == \E e \in evidences : e.raw = d /\ e.type = type /\ e.cve = c

\* A normalised catalog has stated its entries and its removals.
CompleteOK ==
    \A d \in (1..raw) \ kevJobs :
        /\ \A c \in Listed[d] : States(d, "kev", c)
        /\ d > 1 => \A c \in Listed[d - 1] \ Listed[d] : States(d, "kev_removed", c)

\* One pass over the newest catalog at a time, which has read the previous one
\* and is later than all that was stated before.
PassOK ==
    \A w \in KevWorkers : pass[w].doc # 0 =>
        /\ pass[w].doc \in kevJobs
        /\ \A v \in KevWorkers \ {w} : pass[v].doc = 0
        /\ pass[w].previous = IF pass[w].doc = 1 THEN {} ELSE Listed[pass[w].doc - 1]
        /\ pass[w].at \in 1..instant
        /\ \A e \in evidences : e.raw < pass[w].doc => e.at < pass[w].at

KevInv == KevTypes /\ StatedOK /\ CompleteOK /\ PassOK

\* The entries of a catalog.
LEMMA ListedOf == Len(Listed) \in Nat /\ Catalogs = 1..Len(Listed)
                  /\ \A d \in 1..Len(Listed) : Listed[d] \subseteq KevCVEs
BY ListedAssumption DEF Catalogs

\* The greatest of bounded naturals.
LEMMA MaxOfBounded ==
    ASSUME NEW S, NEW n \in Nat, S \subseteq 0..n, S # {}
    PROVE  Max(S) \in S /\ \A x \in S : x <= Max(S)
<1>1. IsFiniteSet(S)
  <2>1. IsFiniteSet(0..n)
    BY FS_Interval
  <2>2. S \in SUBSET (0..n)
    OBVIOUS
  <2> QED
    BY <2>1, <2>2, FS_Subset
<1>2. S \in SUBSET Int
  OBVIOUS
<1>3. PICK m \in S : \A x \in S : x <= m
  BY <1>1, <1>2, GreatestOf
<1>4. \A x \in S : m >= x
  BY <1>2, <1>3
<1>5. Max(S) \in S /\ \A x \in S : Max(S) >= x
  BY <1>4 DEF Max
<1> QED
  BY <1>2, <1>5

\* What the newest catalog is compared with.
LEMMA PreviousIs ==
    ASSUME KevInv, raw > 0
    PROVE  PreviousOf(raw) = IF raw = 1 THEN {} ELSE Listed[raw - 1]
<1> DEFINE others == (1..raw) \ {raw}
<1>1. raw \in Nat
  BY DEF KevInv, KevTypes
<1>2. CASE raw = 1
  <2>1. others = {}
    BY <1>2
  <2> QED
    BY <1>2, <2>1 DEF PreviousOf
<1>3. CASE raw # 1
  <2>1. raw - 1 \in others /\ others # {} /\ others \subseteq 0..raw /\ raw - 1 \in 1..raw
    <3>1. raw - 1 \in 1..raw /\ raw - 1 # raw
      BY <1>1, <1>3
    <3>2. others \subseteq 0..raw
      BY <1>1
    <3> QED
      BY <3>1, <3>2
  <2>2. Max(others) \in others /\ \A x \in others : x <= Max(others)
    <3> HIDE DEF others
    <3> QED
      BY <1>1, <2>1, MaxOfBounded
  <2>3. Max(others) = raw - 1
    BY <1>1, <2>1, <2>2
  <2>4. raw - 1 \notin kevJobs
    BY <1>1 DEF KevInv, KevTypes
  <2>5. \A c : c \in Listed[raw - 1] <=> \E e \in evidences : e.raw = raw - 1 /\ e.type = "kev" /\ e.cve = c
    BY <2>1, <2>4 DEF KevInv, StatedOK, CompleteOK, States
  <2>6. PreviousOf(raw) = {e.cve : e \in {x \in evidences : /\ others # {} /\ x.raw = Max(others)
                                                            /\ x.type = "kev"}}
    BY DEF PreviousOf
  <2>7. \A c : c \in PreviousOf(raw) <=> c \in Listed[raw - 1]
    <3> HIDE DEF others
    <3> QED
      BY <2>1, <2>3, <2>5, <2>6
  <2> QED
    BY <1>3, <2>7
<1> QED
  BY <1>2, <1>3

\* A fetched catalog is newer than every statement (fetch_source.go: FetchSource).
LEMMA StoreCatalogStep ==
    ASSUME KevInv, MaxBacklog <= 1, StoreCatalog PROVE KevInv'
<1>1. raw \in Nat /\ kevJobs \subseteq {raw} /\ MaxBacklog \in Nat
  BY KevBounds DEF KevInv, KevTypes
<1>2. /\ raw + 1 \in Catalogs /\ Cardinality(kevJobs) < MaxBacklog /\ raw' = raw + 1
      /\ kevJobs' = kevJobs \union {raw + 1} /\ UNCHANGED <<evidences, instant, pass>>
  BY DEF StoreCatalog
<1>3. kevJobs = {}
  <2> SUFFICES ASSUME kevJobs # {} PROVE FALSE
    OBVIOUS
  <2>1. kevJobs = {raw}
    BY <1>1
  <2>2. Cardinality(kevJobs) = 1
    BY <2>1, FS_Singleton
  <2> QED
    BY <1>1, <1>2, <2>2
<1>4. KevTypes'
  BY <1>1, <1>2, <1>3, ListedOf DEF KevInv, KevTypes
<1>5. StatedOK'
  BY <1>1, <1>2 DEF KevInv, StatedOK
<1>6. CompleteOK'
  <2>1. (1..raw') \ kevJobs' = (1..raw) \ kevJobs
    BY <1>1, <1>2, <1>3
  <2> QED
    BY <1>2, <2>1 DEF KevInv, CompleteOK, States
<1>7. PassOK'
  BY <1>2, <1>3 DEF KevInv, PassOK
<1> QED
  BY <1>4, <1>5, <1>6, <1>7 DEF KevInv

\* What begins, ends and fails a pass changes it alone.
LEMMA NoPassIs == NoPass \in Passes /\ NoPass.doc = 0
BY DEF NoPass, Passes

\* A pass begins with the catalog before its own as the previous one.
LEMMA BeginPassStep ==
    ASSUME KevInv, NEW w \in KevWorkers, BeginKevPass(w) PROVE KevInv'
<1>1. PICK d \in kevJobs \ InHand :
         /\ pass[w].doc = 0 /\ instant' = instant + 1
         /\ pass' = [pass EXCEPT ![w] = [doc |-> d, at |-> instant + 1, previous |-> PreviousOf(d)]]
         /\ UNCHANGED <<raw, kevJobs, evidences>>
  BY DEF BeginKevPass
<1>2. d = raw /\ raw > 0 /\ raw \in Nat /\ instant \in Nat /\ raw \in 1..Len(Listed)
  <2>1. d \in kevJobs
    BY <1>1
  <2>2. /\ raw \in Nat /\ raw <= Len(Listed) /\ instant \in Nat
        /\ kevJobs \subseteq {raw} /\ (raw = 0 => kevJobs = {})
    BY DEF KevInv, KevTypes
  <2> QED
    BY <2>1, <2>2, ListedOf
<1> DEFINE p == [doc |-> d, at |-> instant + 1, previous |-> PreviousOf(d)]
<1>3. PreviousOf(d) = IF d = 1 THEN {} ELSE Listed[d - 1]
  BY <1>2, PreviousIs
<1>4. PreviousOf(d) \subseteq KevCVEs
  <2>1. d # 1 => d - 1 \in 1..Len(Listed)
    BY <1>2, ListedOf
  <2> QED
    BY <1>3, <2>1, ListedOf
<1>5. p \in Passes /\ p.doc = d /\ p.at = instant + 1 /\ p.previous = PreviousOf(d)
  BY <1>2, <1>4 DEF Passes
<1>6. pass' = [pass EXCEPT ![w] = p]
  BY <1>1
<1> HIDE DEF p
<1>7. pass'[w] = p /\ \A v \in KevWorkers \ {w} : pass'[v] = pass[v]
  BY <1>6 DEF KevInv, KevTypes
<1>8. \A v \in KevWorkers : pass[v].doc = 0
  <2> SUFFICES ASSUME NEW v \in KevWorkers, pass[v].doc # 0 PROVE FALSE
    OBVIOUS
  <2>1. pass[v].doc \in kevJobs /\ kevJobs \subseteq {raw}
    BY DEF KevInv, KevTypes, PassOK
  <2> QED
    BY <1>1, <1>2, <2>1 DEF InHand
<1>9. KevTypes'
  BY <1>1, <1>2, <1>5, <1>6 DEF KevInv, KevTypes
<1>10. StatedOK' /\ CompleteOK'
  <2>1. \A e \in evidences : e.at \in 1..instant'
    BY <1>1, <1>2 DEF KevInv, StatedOK
  <2> QED
    BY <1>1, <2>1 DEF KevInv, StatedOK, CompleteOK, States
<1>11. PassOK'
  <2> SUFFICES ASSUME NEW v \in KevWorkers, pass'[v].doc # 0
               PROVE  /\ pass'[v].doc \in kevJobs'
                      /\ \A u \in KevWorkers \ {v} : pass'[u].doc = 0
                      /\ pass'[v].previous = IF pass'[v].doc = 1 THEN {} ELSE Listed[pass'[v].doc - 1]
                      /\ pass'[v].at \in 1..instant'
                      /\ \A e \in evidences' : e.raw < pass'[v].doc => e.at < pass'[v].at
    BY DEF PassOK
  <2>1. v = w
    BY <1>7, <1>8
  <2>2. instant + 1 \in 1..instant' /\ \A e \in evidences : e.at < instant + 1
    BY <1>1, <1>2 DEF KevInv, StatedOK
  <2> QED
    BY <1>1, <1>3, <1>5, <1>7, <1>8, <2>1, <2>2
<1> QED
  BY <1>9, <1>10, <1>11 DEF KevInv

\* A pass states what is missing, once, at its instant.
LEMMA CommitPassStep ==
    ASSUME KevInv, NEW w \in KevWorkers, CommitKevPass(w) PROVE KevInv'
<1> DEFINE d == pass[w].doc
           when == pass[w].at
           row(type, c) == [raw |-> d, type |-> type, cve |-> c, at |-> when]
           new == {row("kev", c) : c \in Listed[d]}
                  \union {row("kev_removed", c) : c \in Removed(d, pass[w].previous)}
<1>1. /\ d # 0 /\ StateOnce(new) /\ pass' = [pass EXCEPT ![w] = NoPass]
      /\ kevJobs' \in {kevJobs, kevJobs \ {d}} /\ UNCHANGED <<raw, instant>>
  BY DEF CommitKevPass
<1>2. /\ d \in kevJobs /\ d = raw /\ raw > 0 /\ raw \in Nat /\ raw \in 1..Len(Listed)
      /\ instant \in Nat /\ when \in 1..instant /\ when \in Nat
      /\ pass[w].previous = IF d = 1 THEN {} ELSE Listed[d - 1]
      /\ \A e \in evidences : e.raw < d => e.at < when
      /\ \A v \in KevWorkers \ {w} : pass[v].doc = 0
  <2>1. d \in kevJobs /\ kevJobs \subseteq {raw} /\ raw \in Nat /\ raw <= Len(Listed) /\ instant \in Nat
    <3>1. /\ kevJobs \subseteq {raw} /\ raw \in Nat /\ raw <= Len(Listed) /\ instant \in Nat
      BY DEF KevInv, KevTypes
    <3>2. d \in kevJobs
      BY <1>1 DEF KevInv, PassOK
    <3> HIDE DEF d, when
    <3> QED
      BY <3>1, <3>2
  <2>2. raw > 0 /\ raw \in 1..Len(Listed)
    <3> HIDE DEF d, when
    <3>1. raw = d /\ raw # 0
      BY <1>1, <2>1
    <3>2. Len(Listed) \in Nat
      BY ListedAssumption
    <3> QED
      BY <2>1, <3>1, <3>2
  <2>3. /\ when \in 1..instant /\ pass[w].previous = IF d = 1 THEN {} ELSE Listed[d - 1]
        /\ \A e \in evidences : e.raw < d => e.at < when
        /\ \A v \in KevWorkers \ {w} : pass[v].doc = 0
    BY <1>1 DEF KevInv, PassOK
  <2>4. d = raw /\ when \in Nat
    <3> HIDE DEF d, when
    <3>1. \A x \in 1..instant : x \in Nat
      BY <2>1
    <3> QED
      BY <2>1, <2>3, <3>1
  <2> HIDE DEF d, when
  <2> QED
    BY <2>1, <2>2, <2>3, <2>4
<1>3. Listed[d] \subseteq KevCVEs /\ pass[w].previous \subseteq KevCVEs
  <2>1. d # 1 => d - 1 \in 1..Len(Listed)
    BY <1>2, ListedOf
  <2> QED
    BY <1>2, <2>1, ListedOf
<1> HIDE DEF d, when
<1>4. ASSUME NEW e \in new
      PROVE  /\ e \in Statings /\ e.raw = d /\ e.at = when
             /\ e.type = "kev" <=> e.cve \in Listed[d]
  <2>1. CASE e \in {row("kev", c) : c \in Listed[d]}
    BY <1>2, <1>3, <2>1 DEF Statings
  <2>2. CASE e \in {row("kev_removed", c) : c \in Removed(d, pass[w].previous)}
    BY <1>2, <1>3, <2>2 DEF Statings, Removed
  <2> QED
    BY <2>1, <2>2
<1>5. /\ \A c \in Listed[d] : \E e \in new : e.raw = d /\ e.type = "kev" /\ e.cve = c
      /\ d > 1 => \A c \in Listed[d - 1] \ Listed[d] :
                    \E e \in new : e.raw = d /\ e.type = "kev_removed" /\ e.cve = c
  <2>1. ASSUME NEW c \in Listed[d]
        PROVE  \E e \in new : e.raw = d /\ e.type = "kev" /\ e.cve = c
    <3>1. row("kev", c) \in new
      OBVIOUS
    <3> QED
      BY <3>1
  <2>2. ASSUME d > 1, NEW c \in Listed[d - 1] \ Listed[d]
        PROVE  \E e \in new : e.raw = d /\ e.type = "kev_removed" /\ e.cve = c
    <3>1. c \in Removed(d, pass[w].previous)
      BY <1>2, <2>2 DEF Removed
    <3>2. row("kev_removed", c) \in new
      BY <3>1
    <3> QED
      BY <3>2
  <2> QED
    BY <2>1, <2>2
<1> HIDE DEF new
<1>6. /\ evidences \subseteq evidences' /\ evidences' \subseteq evidences \union new
      /\ \A r \in new : \E e \in evidences' : e.raw = r.raw /\ e.type = r.type /\ e.cve = r.cve
  <2>1. evidences' = evidences \union
          {r \in new : \A e \in evidences : <<e.raw, e.type, e.cve>> # <<r.raw, r.type, r.cve>>}
    BY <1>1 DEF StateOnce
  <2>2. ASSUME NEW r \in new
        PROVE  \E e \in evidences' : e.raw = r.raw /\ e.type = r.type /\ e.cve = r.cve
    <3>1. CASE \E e \in evidences : <<e.raw, e.type, e.cve>> = <<r.raw, r.type, r.cve>>
      BY <2>1, <3>1
    <3>2. CASE ~ \E e \in evidences : <<e.raw, e.type, e.cve>> = <<r.raw, r.type, r.cve>>
      BY <2>1, <3>2
    <3> QED
      BY <3>1, <3>2
  <2> QED
    BY <2>1, <2>2
<1>7. pass'[w].doc = 0 /\ \A v \in KevWorkers : pass'[v].doc = 0
  BY <1>1, <1>2, NoPassIs DEF KevInv, KevTypes
<1>8. KevTypes'
  <2>1. evidences' \subseteq Statings
    BY <1>4, <1>6 DEF KevInv, KevTypes
  <2>2. pass' \in [KevWorkers -> Passes]
    BY <1>1, NoPassIs DEF KevInv, KevTypes
  <2> QED
    BY <1>1, <2>1, <2>2 DEF KevInv, KevTypes
<1>9. StatedOK'
  <2>1. ASSUME NEW e \in evidences'
        PROVE  /\ e.raw \in 1..raw /\ e.at \in 1..instant /\ (e.type = "kev" <=> e.cve \in Listed[e.raw])
               /\ e \in evidences \/ (e.raw = d /\ e.at = when)
    <3>1. CASE e \in evidences
      BY <3>1 DEF KevInv, StatedOK
    <3>2. CASE e \in new
      BY <1>2, <1>4, <3>2
    <3> QED
      BY <1>6, <3>1, <3>2
  <2>2. ASSUME NEW e \in evidences', NEW f \in evidences', e.raw < f.raw
        PROVE  e.at < f.at
    <3>1. e \in evidences
      BY <1>2, <2>1, <2>2
    <3> QED
      BY <1>2, <2>1, <2>2, <3>1 DEF KevInv, StatedOK
  <2> QED
    BY <1>1, <2>1, <2>2 DEF StatedOK
<1>10. CompleteOK'
  <2> DEFINE Now(x, type, c) == \E e \in evidences' : e.raw = x /\ e.type = type /\ e.cve = c
  <2>1. \A x, type, c : States(x, type, c) => Now(x, type, c)
    BY <1>6 DEF States
  <2>2. \A x, type, c : (\E r \in new : r.raw = x /\ r.type = type /\ r.cve = c) => Now(x, type, c)
    BY <1>6
  <2>3. ASSUME NEW x \in (1..raw') \ kevJobs'
        PROVE  /\ \A c \in Listed[x] : Now(x, "kev", c)
               /\ x > 1 => \A c \in Listed[x - 1] \ Listed[x] : Now(x, "kev_removed", c)
    <3> HIDE DEF Now
    <3>1. CASE x = d
      BY <1>5, <2>2, <3>1
    <3>2. CASE x # d
      <4>1. x \in (1..raw) \ kevJobs
        BY <1>1, <3>2
      <4> QED
        BY <2>1, <4>1 DEF KevInv, CompleteOK
    <3> QED
      BY <3>1, <3>2
  <2> QED
    BY <2>3 DEF CompleteOK, States
<1>11. PassOK'
  BY <1>7 DEF PassOK
<1> QED
  BY <1>8, <1>9, <1>10, <1>11 DEF KevInv

\* With at most one catalog waiting, the invariant holds in every reachable state.
LEMMA KevInvariant == ASSUME MaxBacklog <= 1 PROVE KevSpec => []KevInv
<1>1. KevInit => KevInv
  BY NoPassIs, ListedOf DEF KevInit, KevInv, KevTypes, StatedOK, CompleteOK, PassOK
<1>2. KevInv /\ [KevNext]_kevVars => KevInv'
  <2> SUFFICES ASSUME KevInv, [KevNext]_kevVars PROVE KevInv'
    OBVIOUS
  <2>1. CASE UNCHANGED kevVars
    BY <2>1 DEF kevVars, KevInv, KevTypes, StatedOK, CompleteOK, States, PassOK
  <2>2. ASSUME NEW w \in KevWorkers, KevPassFails(w) PROVE KevInv'
    <3>1. pass' = [pass EXCEPT ![w] = NoPass] /\ UNCHANGED <<raw, kevJobs, evidences, instant>>
      BY <2>2 DEF KevPassFails
    <3>2. pass' \in [KevWorkers -> Passes] /\ pass'[w].doc = 0
          /\ \A v \in KevWorkers \ {w} : pass'[v] = pass[v]
      BY <3>1, NoPassIs DEF KevInv, KevTypes
    <3>3. PassOK'
      BY <3>1, <3>2 DEF KevInv, PassOK
    <3> QED
      BY <3>1, <3>2, <3>3 DEF KevInv, KevTypes, StatedOK, CompleteOK, States
  <2> QED
    BY <2>1, <2>2, StoreCatalogStep, BeginPassStep, CommitPassStep DEF KevNext
<1> QED
  BY <1>1, <1>2, PTL DEF KevSpec

\* When every stored catalog is normalised, the KEV factor of a CVE is whether
\* the newest catalog lists it, for any catalogs, workers, failed passes and
\* redeliveries, while the next catalog is stored only after the last one is
\* normalised (source_pass.go, repo/priorityfactor.go: factorsFromSource).
THEOREM FactorsFollow == ASSUME MaxBacklog <= 1 PROVE KevSpec => []FactorFollowsCatalog
<1>1. KevInv => FactorFollowsCatalog
  <2> SUFFICES ASSUME KevInv, kevJobs = {}, raw > 0, NEW c \in KevCVEs
               PROVE  KEV(c) <=> c \in Listed[raw]
    BY DEF FactorFollowsCatalog
  <2> DEFINE of(type) == {e.at : e \in {x \in evidences : x.cve = c /\ x.type = type}}
  <2>1. raw \in Nat /\ instant \in Nat
    BY DEF KevInv, KevTypes
  <2>2. \A type : of(type) \subseteq 0..instant
    BY <2>1 DEF KevInv, StatedOK
  <2>3. ASSUME NEW type, of(type) # {}
        PROVE  /\ Max(of(type)) \in of(type) /\ Max(of(type)) \in Nat
               /\ \A x \in of(type) : x <= Max(of(type))
    <3>1. of(type) \subseteq 0..instant
      BY <2>2
    <3> HIDE DEF of
    <3> QED
      BY <2>1, <2>3, <3>1, MaxOfBounded
  <2>4. KEV(c) <=> of("kev") # {} /\ (of("kev_removed") # {} => Max(of("kev_removed")) <= Max(of("kev")))
    BY DEF KEV
  <2>5. ASSUME c \in Listed[raw] PROVE KEV(c)
    <3>1. PICK e \in evidences : e.raw = raw /\ e.type = "kev" /\ e.cve = c
      BY <2>1, <2>5 DEF KevInv, CompleteOK, States
    <3>2. e.at \in of("kev")
      BY <3>1
    <3>3. \A x \in of("kev_removed") : x < e.at
      <4> SUFFICES ASSUME NEW f \in evidences, f.cve = c, f.type = "kev_removed" PROVE f.at < e.at
        OBVIOUS
      <4>1. f.raw \in 1..raw /\ f.raw # raw
        BY <2>5 DEF KevInv, StatedOK
      <4>2. f.raw < e.raw
        BY <2>1, <3>1, <4>1
      <4> QED
        BY <4>2 DEF KevInv, StatedOK
    <3>4. e.at \in Nat /\ e.at <= Max(of("kev")) /\ Max(of("kev")) \in Nat
      <4>1. of("kev") # {} /\ \A x \in of("kev") : x \in Nat
        BY <2>2, <3>2
      <4> HIDE DEF of
      <4>2. Max(of("kev")) \in of("kev") /\ \A x \in of("kev") : x <= Max(of("kev"))
        BY <2>3, <4>1
      <4> QED
        BY <3>2, <4>1, <4>2
    <3>5. of("kev_removed") # {} => Max(of("kev_removed")) <= Max(of("kev"))
      <4> SUFFICES ASSUME of("kev_removed") # {}
                   PROVE  Max(of("kev_removed")) <= Max(of("kev"))
        OBVIOUS
      <4>1. Max(of("kev_removed")) < e.at /\ Max(of("kev_removed")) \in Nat
        BY <2>3, <3>3
      <4> QED
        BY <3>4, <4>1
    <3> QED
      BY <2>4, <3>2, <3>5
  <2>6. ASSUME KEV(c), c \notin Listed[raw] PROVE FALSE
    <3>1. Max(of("kev")) \in of("kev") /\ Max(of("kev")) \in Nat /\ \A x \in of("kev") : x <= Max(of("kev"))
      BY <2>3, <2>4, <2>6
    <3>2. PICK e \in evidences : e.cve = c /\ e.type = "kev" /\ e.at = Max(of("kev"))
      BY <3>1
    <3>3. e.raw \in 1..raw /\ c \in Listed[e.raw] /\ e.raw # raw
      BY <2>6, <3>2 DEF KevInv, StatedOK
    <3> DEFINE n == e.raw + 1
    <3>4. n \in 1..raw /\ n > 1 /\ n - 1 = e.raw /\ e.raw < n
      BY <2>1, <3>3
    <3>5. c \notin Listed[n]
      <4> SUFFICES ASSUME c \in Listed[n] PROVE FALSE
        OBVIOUS
      <4>1. PICK f \in evidences : f.raw = n /\ f.type = "kev" /\ f.cve = c
        BY <3>4 DEF KevInv, CompleteOK, States
      <4>2. e.at < f.at /\ f.at \in of("kev") /\ f.at \in Nat
        BY <2>1, <3>4, <4>1 DEF KevInv, StatedOK
      <4> HIDE DEF of
      <4> QED
        BY <3>1, <3>2, <4>2
    <3>6. PICK f \in evidences : f.raw = n /\ f.type = "kev_removed" /\ f.cve = c
      <4> HIDE DEF n
      <4> QED
        BY <3>3, <3>4, <3>5 DEF KevInv, CompleteOK, States
    <3>7. e.at < f.at /\ f.at \in of("kev_removed") /\ f.at \in Nat
      BY <2>1, <3>4, <3>6 DEF KevInv, StatedOK
    <3>8. Max(of("kev_removed")) >= f.at /\ Max(of("kev_removed")) \in Nat
      BY <2>3, <3>7
    <3>9. Max(of("kev_removed")) <= Max(of("kev"))
      BY <2>4, <2>6, <3>7
    <3> HIDE DEF of
    <3> QED
      BY <3>1, <3>2, <3>7, <3>8, <3>9
  <2> QED
    BY <2>5, <2>6
<1> QED
  BY <1>1, KevInvariant, PTL

-------------------------------------------------------------------------------
(* FullSetIngest *)

\* A fetch that is about to store has a revision in hand.
FetchesOK ==
    /\ phase \in [Jobs -> {"absent", "queued", "done", "failed"}]
    /\ upstream \in Jobs /\ raws \subseteq Jobs
    /\ at \in [Fetchers -> {"idle", "fetching", "storing"}]
    /\ DOMAIN got = Fetchers
    /\ \A f \in Fetchers : at[f] = "storing" => got[f] \in Jobs

\* A job that is there stays, settled or not.
LEMMA JobsStay ==
    ASSUME FetchesOK, Next
    PROVE  \A r \in Jobs : phase[r] # "absent" => phase'[r] # "absent"
<1>1. ASSUME NEW j \in Jobs, Enqueue(j) \/ Handle(j) \/ Complete(j) \/ Abandon(j) \/ UNCHANGED phase
      PROVE  \A r \in Jobs : phase[r] # "absent" => phase'[r] # "absent"
  BY <1>1 DEF FetchesOK, Enqueue, Handle, Complete, Abandon
<1>2. CASE Publish
  BY <1>2 DEF Publish
<1>3. ASSUME NEW f \in Fetchers, FetchStep(f) \/ FetchFails(f)
      PROVE  \A r \in Jobs : phase[r] # "absent" => phase'[r] # "absent"
  BY <1>1, <1>3 DEF FetchStep, FetchFails, StartFetch, Download, Store, StoreConflicts, FetchesOK
<1>4. ASSUME NEW r \in Jobs, Normalize(r) \/ Settle(r)
      PROVE  \A j \in Jobs : phase[j] # "absent" => phase'[j] # "absent"
  BY <1>1, <1>4 DEF Normalize, Settle
<1> QED
  BY <1>2, <1>3, <1>4 DEF Next

\* A fetch downloads before it stores.
LEMMA FetchesStep == ASSUME FetchesOK, [Next]_vars PROVE FetchesOK'
<1> SUFFICES ASSUME Next PROVE FetchesOK'
  BY DEF vars, fetchVars, FetchesOK
<1>1. ASSUME NEW j \in Jobs, Enqueue(j) \/ Handle(j) \/ Complete(j) \/ Abandon(j)
      PROVE  phase' \in [Jobs -> {"absent", "queued", "done", "failed"}]
  BY <1>1 DEF FetchesOK, Enqueue, Handle, Complete, Abandon
<1>2. CASE Publish
  BY <1>2, RevisionAssumption, JobsAreRevisions DEF Publish, FetchesOK, fetchVars
<1>3. ASSUME NEW f \in Fetchers, FetchStep(f) \/ FetchFails(f) PROVE FetchesOK'
  <2>1. CASE StartFetch(f)
    BY <2>1 DEF StartFetch, FetchesOK
  <2>2. CASE Download(f)
    BY <2>2 DEF Download, FetchReturns, FetchesOK
  <2>3. CASE Store(f)
    <3>1. got[f] \in Jobs
      BY <2>3 DEF Store, FetchesOK
    <3> QED
      BY <1>1, <2>3, <3>1 DEF Store, FetchReturns, FetchesOK
  <2>4. CASE StoreConflicts(f) \/ FetchFails(f)
    BY <2>4 DEF StoreConflicts, FetchFails, FetchReturns, FetchesOK
  <2> QED
    BY <1>3, <2>1, <2>2, <2>3, <2>4 DEF FetchStep
<1>4. ASSUME NEW r \in Jobs, Normalize(r) \/ Settle(r) PROVE FetchesOK'
  BY <1>1, <1>4 DEF Normalize, Settle, FetchesOK, fetchVars
<1> QED
  BY <1>2, <1>3, <1>4 DEF Next

\* Whoever stores a file enqueues its job in the same transaction.
LEMMA StoredStep ==
    ASSUME FetchesOK, StoredIsQueued, [Next]_vars PROVE StoredIsQueued'
<1>1. CASE UNCHANGED vars
  BY <1>1 DEF vars, StoredIsQueued
<1>2. CASE Next /\ UNCHANGED <<raws, lastHash>>
  BY <1>2, JobsStay DEF StoredIsQueued, FetchesOK
<1>3. ASSUME NEW f \in Fetchers, Store(f) PROVE StoredIsQueued'
  <2>1. got[f] \in Jobs
    BY <1>3 DEF Store, FetchesOK
  <2>2. Next
    BY <1>3 DEF Next, FetchStep
  <2>3. phase'[got[f]] = "queued"
    BY <1>3, <2>1 DEF Store, Enqueue, FetchesOK
  <2>4. raws' = raws \union {got[f]} /\ lastHash' = got[f]
    BY <1>3 DEF Store
  <2> QED
    BY <2>1, <2>2, <2>3, <2>4, JobsStay DEF StoredIsQueued, FetchesOK
<1>4. Next => UNCHANGED <<raws, lastHash>> \/ \E f \in Fetchers : Store(f)
  BY DEF Next, Publish, FetchStep, FetchFails, StartFetch, Download, StoreConflicts, Normalize, Settle
<1> QED
  BY <1>1, <1>2, <1>3, <1>4

\* The raw record, the hash that suppresses later fetches and the normalize job
\* commit together (fetch_source.go, the terminal commit), for any number of
\* fetches, revisions and failures.
THEOREM StoredHasJob == Spec => []StoredIsQueued
<1>1. Init => FetchesOK /\ StoredIsQueued
  BY RevisionAssumption, JobsAreRevisions
     DEF Init, JQInit, FetchesOK, StoredIsQueued, NoRevision
<1>2. FetchesOK /\ StoredIsQueued /\ [Next]_vars => (FetchesOK /\ StoredIsQueued)'
  BY FetchesStep, StoredStep
<1> QED
  BY <1>1, <1>2, PTL DEF Spec
===============================================================================

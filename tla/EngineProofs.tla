------------------------------ MODULE EngineProofs ------------------------------
(***************************************************************************)
(* Machine-checked proofs about the two engines that onBatch feeds.        *)
(*                                                                         *)
(* The first part is about GeofenceWatch, for every number of workers,     *)
(* fixes, late fixes, batches, failed and lost calls, edits, moves of the  *)
(* shard and deaths, and for every streak: crossings have one row each,    *)
(* enter and exit alternate, the engine is on the recorded side, a         *)
(* duration runs to the next crossing, and a streak at the end of the      *)
(* stream is recorded.                                                     *)
(*                                                                         *)
(* The second part is about TripLog, which is instantiated as Trips: a     *)
(* device never has two open rows.  The two modules describe different     *)
(* state; a name that both declare stands for either in its own part, and  *)
(* no fact of one part is used in the other.                               *)
(***************************************************************************)
EXTENDS GeofenceWatch, FiniteSetTheorems, SequenceTheorems, WellFoundedInduction, TLAPS

-----------------------------------------------------------------------------
(* Lists cut by index sets.                                                *)

\* A non-empty set of numbers has a least one.
Less == {p \in Nat \X Nat : p[1] < p[2]}
LEMMA Least ==
  ASSUME NEW S \in SUBSET Nat, S # {}
  PROVE  \E m \in S : \A n \in S : m <= n
<1>1. IsWellFoundedOn(Less, Nat)
  BY NatLessThanWellFounded DEF OpToRel, Less
<1>2. PICK m \in S : \A n \in S : ~ (<<n, m>> \in Less)
  BY <1>1, WFMin
<1>3. ASSUME NEW n \in S PROVE m <= n
  <2>1. n < m => <<n, m>> \in Less
    BY DEF Less
  <2> QED BY <1>2, <2>1
<1> QED BY <1>3

\* Indices up to i.
UpTo(I, i) == {j \in I : j <= i}
\* A later index has more indices up to it.
LEMMA UpToGrows ==
  ASSUME NEW I \in SUBSET Nat, IsFiniteSet(I), NEW i \in I, NEW j \in I
  PROVE  /\ Cardinality(UpTo(I, i)) \in 1 .. Cardinality(I)
         /\ i < j => Cardinality(UpTo(I, i)) < Cardinality(UpTo(I, j))
<1>1. UpTo(I, i) \in SUBSET I /\ UpTo(I, j) \in SUBSET I BY DEF UpTo
<1>2. IsFiniteSet(UpTo(I, i)) /\ IsFiniteSet(UpTo(I, j)) BY <1>1, FS_Subset
<1>3. /\ Cardinality(UpTo(I, i)) \in Nat /\ Cardinality(UpTo(I, j)) \in Nat
      /\ Cardinality(I) \in Nat /\ Cardinality(UpTo(I, i)) <= Cardinality(I)
  BY <1>1, <1>2, FS_Subset, FS_CardinalityType
<1>4. Cardinality(UpTo(I, i)) # 0
  <2>1. i \in UpTo(I, i) BY DEF UpTo
  <2> QED BY <2>1, <1>2, FS_EmptySet
<1>5. ASSUME i < j PROVE Cardinality(UpTo(I, i)) < Cardinality(UpTo(I, j))
  <2>1. UpTo(I, i) \in SUBSET UpTo(I, j)
    <3>1. \A m \in Nat : m <= i => m <= j BY <1>5
    <3> QED BY <3>1 DEF UpTo
  <2>2. j \in UpTo(I, j) /\ j \notin UpTo(I, i) BY <1>5 DEF UpTo
  <2>3. Cardinality(UpTo(I, i)) <= Cardinality(UpTo(I, j)) BY <1>2, <2>1, FS_Subset
  <2>4. Cardinality(UpTo(I, j)) # Cardinality(UpTo(I, i)) BY <1>2, <2>1, <2>2, FS_Subset
  <2> QED BY <2>3, <2>4, <1>3
<1> QED BY <1>3, <1>4, <1>5

\* There is a k-th index.
LEMMA NthIs ==
  ASSUME NEW I \in SUBSET Nat, IsFiniteSet(I), NEW k \in 1 .. Cardinality(I)
  PROVE  Nth(I, k) \in I /\ Cardinality(UpTo(I, Nth(I, k))) = k
<1> DEFINE f == [i \in I |-> Cardinality(UpTo(I, i))]
           n == Cardinality(I)
<1>1. n \in Nat BY FS_CardinalityType
<1>2. f \in [I -> 1 .. n] BY UpToGrows
<1>3. ASSUME NEW i \in I, NEW j \in I, f[i] = f[j] PROVE i = j
  <2>1. ~ (i < j) /\ ~ (j < i) BY <1>2, <1>3, UpToGrows
  <2> QED BY <2>1
<1>4. f \in Injection(I, 1 .. n)
  BY <1>2, <1>3 DEF Injection, IsInjective
<1>5. IsFiniteSet(1 .. n) /\ Cardinality(1 .. n) = n BY <1>1, FS_Interval
<1>6. f \in Surjection(I, 1 .. n) BY <1>4, <1>5, FS_Injection
<1>7. \E i \in I : f[i] = k BY <1>6 DEF Surjection
<1>8. \E i \in I : Cardinality({j \in I : j <= i}) = k BY <1>7 DEF UpTo
<1> QED BY <1>8 DEF Nth, UpTo

\* A list that is cut keeps the order: its elements are those of the list at
\* increasing indices.
LEMMA AtThins ==
  ASSUME NEW S, NEW list \in Seq(S), NEW I \in SUBSET (1 .. Len(list))
  PROVE  /\ At(list, I) \in Seq(S)
         /\ Len(At(list, I)) = Cardinality(I)
         /\ \E g \in [1 .. Len(At(list, I)) -> I] :
              /\ \A k \in 1 .. Len(At(list, I)) : At(list, I)[k] = list[g[k]]
              /\ \A k, l \in 1 .. Len(At(list, I)) : k < l => g[k] < g[l]
<1> DEFINE n == Cardinality(I)
           g == [k \in 1 .. n |-> Nth(I, k)]
           s == At(list, I)
<1>1. Len(list) \in Nat /\ list \in [1 .. Len(list) -> S] BY LenProperties
<1>2. IsFiniteSet(1 .. Len(list)) BY <1>1, FS_Interval
<1>3. IsFiniteSet(I) /\ I \in SUBSET Nat
  <2>1. IsFiniteSet(I) BY <1>2, FS_Subset
  <2> QED BY <1>1, <2>1
<1>4. n \in Nat BY <1>3, FS_CardinalityType
<1>5. \A k \in 1 .. n : Nth(I, k) \in I /\ Cardinality(UpTo(I, Nth(I, k))) = k
  BY <1>3, NthIs
<1>6. g \in [1 .. n -> I] BY <1>5
<1>7. s = [k \in 1 .. n |-> list[Nth(I, k)]] BY DEF At
<1>8. s \in [1 .. n -> S] BY <1>1, <1>5, <1>7
<1>9. s \in Seq(S) /\ Len(s) = n BY <1>4, <1>7, <1>8, SeqDef
<1>10. ASSUME NEW k \in 1 .. n, NEW l \in 1 .. n, k < l PROVE g[k] < g[l]
  <2>1. g[k] \in I /\ g[l] \in I /\ Cardinality(UpTo(I, g[k])) = k /\ Cardinality(UpTo(I, g[l])) = l
    BY <1>5
  <2>3. g[k] \in Nat /\ g[l] \in Nat BY <2>1, <1>3
  <2> HIDE DEF g
  <2>2. g[l] < g[k] => Cardinality(UpTo(I, g[l])) < Cardinality(UpTo(I, g[k])) BY <1>3, <2>1, UpToGrows
  <2> QED BY <1>10, <2>1, <2>2, <2>3
<1>11. \A k \in 1 .. n : s[k] = list[g[k]] BY <1>7
<1> HIDE DEF s, g, n
<1> QED BY <1>6, <1>9, <1>10, <1>11 DEF s, n

-----------------------------------------------------------------------------
(* The two loops: the engine over the fixes of a batch, the close over its *)
(* rows.                                                                   *)

\* What holds at the start of a loop and is kept by each round holds after it.
LEMMA Climb ==
  ASSUME NEW L \in Nat, NEW S, 0 \in S, \A n \in 1 .. L : n - 1 \in S => n \in S
  PROVE  \A n \in 0 .. L : n \in S
<1> DEFINE Bad == {n \in 0 .. L : n \notin S}
<1> SUFFICES ASSUME Bad # {} PROVE FALSE OBVIOUS
<1>1. PICK m \in Bad : \A n \in Bad : m <= n
  <2>1. Bad \in SUBSET Nat OBVIOUS
  <2> HIDE DEF Bad
  <2> QED BY <2>1, Least
<1>2. m \in 1 .. L /\ m - 1 \in 0 .. L /\ ~ (m <= m - 1) OBVIOUS
<1>3. m - 1 \notin Bad BY <1>1, <1>2
<1> QED BY <1>2, <1>3

\* The engine before the first fix of a batch.
Start(e) == [seen |-> e.seen, pair |-> e.pair, out |-> <<>>, any |-> FALSE]

\* feed takes the fixes of a batch one after the other, however many there are.
LEMMA FeedingIs ==
  ASSUME NEW e, NEW fixes, Len(fixes) \in Nat
  PROVE  /\ Feeding(e, fixes)[0] = Start(e)
         /\ \A n \in 1 .. Len(fixes) : Feeding(e, fixes)[n] = Observe(Feeding(e, fixes)[n - 1], fixes[n])
<1> DEFINE L == Len(fixes)
           Runs(g, n) == g = [m \in 0 .. n |-> IF m = 0 THEN Start(e) ELSE Observe(g[m - 1], fixes[m])]
           Good == {n \in 0 .. L : \E g : Runs(g, n)}
<1>0. L \in Nat OBVIOUS
<1>1. 0 \in Good
  <2>1. Runs([j \in 0 .. 0 |-> Start(e)], 0) OBVIOUS
  <2> HIDE DEF Runs, L
  <2> QED BY <1>0, <2>1
<1>2. ASSUME NEW m \in 1 .. L, m - 1 \in Good PROVE m \in Good
  <2>1. PICK g : Runs(g, m - 1) BY <1>2
  <2> DEFINE h == [j \in 0 .. m |-> IF j = m THEN Observe(g[m - 1], fixes[m]) ELSE g[j]]
  <2>2. \A j \in 0 .. m - 1 : h[j] = g[j] OBVIOUS
  <2>3. \A j \in 0 .. m - 1 : g[j] = IF j = 0 THEN Start(e) ELSE Observe(g[j - 1], fixes[j]) BY <2>1
  <2>4. ASSUME NEW j \in 0 .. m
        PROVE  h[j] = IF j = 0 THEN Start(e) ELSE Observe(h[j - 1], fixes[j])
    <3>1. CASE j = m
      <4>1. h[m] = Observe(g[m - 1], fixes[m]) /\ h[m - 1] = g[m - 1] BY <2>2
      <4> QED BY <3>1, <4>1
    <3>2. CASE j # m
      <4>1. j \in 0 .. m - 1 /\ (j # 0 => j - 1 \in 0 .. m - 1) BY <3>2
      <4> HIDE DEF h
      <4> QED BY <4>1, <2>2, <2>3
    <3> QED BY <3>1, <3>2
  <2>5. Runs(h, m)
    <3>1. h = [j \in 0 .. m |-> h[j]] OBVIOUS
    <3> HIDE DEF h
    <3> QED BY <3>1, <2>4
  <2> HIDE DEF Runs, L
  <2> QED BY <1>0, <2>5
<1>3. L \in Good
  <2> HIDE DEF Good, L
  <2>1. L \in 0 .. L BY <1>0
  <2> QED BY <1>0, <1>1, <1>2, <2>1, Climb
<1>4. PICK g : Runs(g, L) BY <1>3
<1>5. Feeding(e, fixes) = CHOOSE h : Runs(h, L) BY DEF Feeding, Start
<1>6. Runs(Feeding(e, fixes), L)
  <2> HIDE DEF Runs
  <2> QED BY <1>4, <1>5
<1> QED BY <1>6

\* closeGeofenceStates takes the rows one after the other.
LEMMA ClosingIs ==
  ASSUME NEW table, NEW list, Len(list) \in Nat
  PROVE  /\ Closing(table, list)[0] = table
         /\ \A n \in 1 .. Len(list) : Closing(table, list)[n] = Ends(Closing(table, list)[n - 1], list[n])
<1> DEFINE L == Len(list)
           Runs(g, n) == g = [m \in 0 .. n |-> IF m = 0 THEN table ELSE Ends(g[m - 1], list[m])]
           Good == {n \in 0 .. L : \E g : Runs(g, n)}
<1>0. L \in Nat OBVIOUS
<1>1. 0 \in Good
  <2>1. Runs([j \in 0 .. 0 |-> table], 0) OBVIOUS
  <2> HIDE DEF Runs, L
  <2> QED BY <1>0, <2>1
<1>2. ASSUME NEW m \in 1 .. L, m - 1 \in Good PROVE m \in Good
  <2>1. PICK g : Runs(g, m - 1) BY <1>2
  <2> DEFINE h == [j \in 0 .. m |-> IF j = m THEN Ends(g[m - 1], list[m]) ELSE g[j]]
  <2>2. \A j \in 0 .. m - 1 : h[j] = g[j] OBVIOUS
  <2>3. \A j \in 0 .. m - 1 : g[j] = IF j = 0 THEN table ELSE Ends(g[j - 1], list[j]) BY <2>1
  <2>4. ASSUME NEW j \in 0 .. m
        PROVE  h[j] = IF j = 0 THEN table ELSE Ends(h[j - 1], list[j])
    <3>1. CASE j = m
      <4>1. h[m] = Ends(g[m - 1], list[m]) /\ h[m - 1] = g[m - 1] BY <2>2
      <4> QED BY <3>1, <4>1
    <3>2. CASE j # m
      <4>1. j \in 0 .. m - 1 /\ (j # 0 => j - 1 \in 0 .. m - 1) BY <3>2
      <4> HIDE DEF h
      <4> QED BY <4>1, <2>2, <2>3
    <3> QED BY <3>1, <3>2
  <2>5. Runs(h, m)
    <3>1. h = [j \in 0 .. m |-> h[j]] OBVIOUS
    <3> HIDE DEF h
    <3> QED BY <3>1, <2>4
  <2> HIDE DEF Runs, L
  <2> QED BY <1>0, <2>5
<1>3. L \in Good
  <2> HIDE DEF Good, L
  <2>1. L \in 0 .. L BY <1>0
  <2> QED BY <1>0, <1>1, <1>2, <2>1, Climb
<1>4. PICK g : Runs(g, L) BY <1>3
<1>5. Closing(table, list) = CHOOSE h : Runs(h, L) BY DEF Closing
<1>6. Runs(Closing(table, list), L)
  <2> HIDE DEF Runs
  <2> QED BY <1>4, <1>5
<1> QED BY <1>6

-----------------------------------------------------------------------------
(* The order of a batch.                                                   *)

\* The fix at j comes no later than the one at i.
Upto(fixes, i) ==
  {j \in 1 .. Len(fixes) : fixes[j].at < fixes[i].at \/ (fixes[j].at = fixes[i].at /\ j <= i)}

\* A fix that comes later has a greater place.
LEMMA PlaceGrows ==
  ASSUME NEW fixes \in Seq(FixType), NEW i \in 1 .. Len(fixes), NEW j \in 1 .. Len(fixes), i # j,
         fixes[i].at < fixes[j].at \/ (fixes[i].at = fixes[j].at /\ i <= j)
  PROVE  Place(fixes, i) < Place(fixes, j)
<1>1. Len(fixes) \in Nat /\ \A k \in 1 .. Len(fixes) : fixes[k].at \in Nat
  <2>1. \A k \in 1 .. Len(fixes) : fixes[k] \in FixType BY ElementOfSeq
  <2> QED BY <2>1 DEF FixType
<1>2. Upto(fixes, i) \in SUBSET Upto(fixes, j) BY <1>1 DEF Upto
<1>3. j \in Upto(fixes, j) /\ j \notin Upto(fixes, i) BY <1>1 DEF Upto
<1>4. IsFiniteSet(Upto(fixes, i)) /\ IsFiniteSet(Upto(fixes, j))
  <2>1. Upto(fixes, i) \in SUBSET (1 .. Len(fixes)) /\ Upto(fixes, j) \in SUBSET (1 .. Len(fixes))
    BY DEF Upto
  <2>2. IsFiniteSet(1 .. Len(fixes)) BY <1>1, FS_Interval
  <2> QED BY <2>1, <2>2, FS_Subset
<1>5. Cardinality(Upto(fixes, i)) \in Nat /\ Cardinality(Upto(fixes, j)) \in Nat
  BY <1>4, FS_CardinalityType
<1>6. /\ Cardinality(Upto(fixes, i)) <= Cardinality(Upto(fixes, j))
      /\ Cardinality(Upto(fixes, j)) # Cardinality(Upto(fixes, i))
  BY <1>2, <1>3, <1>4, FS_Subset
<1> QED BY <1>5, <1>6 DEF Place, Upto

\* A batch in the order of time is the batch, rearranged; fixes of one instant
\* stay in the order in which they arrived.
LEMMA ByTimeIs ==
  ASSUME NEW fixes \in Seq(FixType)
  PROVE  /\ ByTime(fixes) \in Seq(FixType) /\ Len(ByTime(fixes)) = Len(fixes)
         /\ \E g \in [1 .. Len(fixes) -> 1 .. Len(fixes)] :
              /\ \A n \in 1 .. Len(fixes) : ByTime(fixes)[n] = fixes[g[n]]
              /\ \A i \in 1 .. Len(fixes) : \E n \in 1 .. Len(fixes) : g[n] = i
              /\ \A m, n \in 1 .. Len(fixes) : m < n =>
                   \/ fixes[g[m]].at < fixes[g[n]].at
                   \/ fixes[g[m]].at = fixes[g[n]].at /\ g[m] < g[n]
<1> DEFINE L == Len(fixes)
           P == [i \in 1 .. L |-> Place(fixes, i)]
           g == [n \in 1 .. L |-> CHOOSE i \in 1 .. L : Place(fixes, i) = n]
<1>1. L \in Nat /\ \A k \in 1 .. L : fixes[k] \in FixType /\ fixes[k].at \in Nat
  <2>1. \A k \in 1 .. L : fixes[k] \in FixType BY ElementOfSeq
  <2> QED BY <2>1 DEF FixType
<1>2. IsFiniteSet(1 .. L) /\ Cardinality(1 .. L) = L
  <2> HIDE DEF L
  <2> QED BY <1>1, FS_Interval
<1>3. ASSUME NEW i \in 1 .. L PROVE Place(fixes, i) \in 1 .. L
  <2>1. Upto(fixes, i) \in SUBSET (1 .. L) /\ i \in Upto(fixes, i) BY <1>1 DEF Upto
  <2>2. IsFiniteSet(Upto(fixes, i)) /\ Cardinality(Upto(fixes, i)) <= L BY <1>2, <2>1, FS_Subset
  <2>3. Cardinality(Upto(fixes, i)) \in Nat /\ Cardinality(Upto(fixes, i)) # 0
    BY <2>1, <2>2, FS_CardinalityType, FS_EmptySet
  <2> QED BY <1>1, <2>2, <2>3 DEF Place, Upto
<1>4. ASSUME NEW i \in 1 .. L, NEW j \in 1 .. L, Place(fixes, i) < Place(fixes, j)
      PROVE  fixes[i].at < fixes[j].at \/ (fixes[i].at = fixes[j].at /\ i < j)
  <2>1. i # j BY <1>3, <1>4
  <2>2. ~ (fixes[j].at < fixes[i].at \/ (fixes[j].at = fixes[i].at /\ j <= i))
    BY <1>3, <1>4, <2>1, PlaceGrows
  <2> QED BY <1>1, <2>2
<1>5. ASSUME NEW i \in 1 .. L, NEW j \in 1 .. L, Place(fixes, i) = Place(fixes, j) PROVE i = j
  <2> SUFFICES ASSUME i # j PROVE FALSE OBVIOUS
  <2>1. \/ fixes[i].at < fixes[j].at \/ (fixes[i].at = fixes[j].at /\ i <= j)
        \/ fixes[j].at < fixes[i].at \/ (fixes[j].at = fixes[i].at /\ j <= i)
    BY <1>1
  <2>2. Place(fixes, i) < Place(fixes, j) \/ Place(fixes, j) < Place(fixes, i) BY <2>1, PlaceGrows
  <2> QED BY <1>3, <1>5, <2>2
<1>6. P \in Injection(1 .. L, 1 .. L) BY <1>3, <1>5 DEF Injection, IsInjective
<1>7. P \in Surjection(1 .. L, 1 .. L) BY <1>2, <1>6, FS_Injection
<1>8. ASSUME NEW n \in 1 .. L PROVE g[n] \in 1 .. L /\ Place(fixes, g[n]) = n
  <2>1. \E i \in 1 .. L : P[i] = n BY <1>7 DEF Surjection
  <2>2. \E i \in 1 .. L : Place(fixes, i) = n BY <2>1
  <2> QED BY <2>2
<1>9. g \in [1 .. L -> 1 .. L] BY <1>8
<1>10. \A n \in 1 .. L : ByTime(fixes)[n] = fixes[g[n]] BY DEF ByTime
<1>11. ByTime(fixes) \in [1 .. L -> FixType]
  <2>1. ByTime(fixes) = [n \in 1 .. L |-> fixes[g[n]]] BY DEF ByTime
  <2> HIDE DEF g
  <2> QED BY <1>1, <1>9, <2>1
<1>12. ByTime(fixes) \in Seq(FixType) /\ Len(ByTime(fixes)) = L BY <1>1, <1>11, SeqDef
<1> HIDE DEF g
<1>13. ASSUME NEW i \in 1 .. L PROVE \E n \in 1 .. L : g[n] = i
  <2>1. Place(fixes, i) \in 1 .. L BY <1>3
  <2>2. g[Place(fixes, i)] = i BY <2>1, <1>5, <1>8
  <2> QED BY <2>1, <2>2
<1>14. ASSUME NEW m \in 1 .. L, NEW n \in 1 .. L, m < n
       PROVE  fixes[g[m]].at < fixes[g[n]].at \/ (fixes[g[m]].at = fixes[g[n]].at /\ g[m] < g[n])
  BY <1>4, <1>8, <1>14
<1> QED BY <1>9, <1>10, <1>12, <1>13, <1>14

-----------------------------------------------------------------------------
(* One fix at the engine.                                                  *)

\* What the engine knows between and during batches, and a streak in the making
\* that is shorter than the one that confirms a side.
Mem == [seen : Nat, pair : Pair \cup {None}]
Run == [seen : Nat, pair : Pair \cup {None}, out : Seq(Crossing), any : BOOLEAN]
Short(p) == p # None => p.n < Streak

\* None is neither a pair nor a side.
LEMMA NoneIsNone == None \notin Pair /\ None # "in" /\ None # "out"
BY GeofenceAssumption DEF Pair, Sides

\* A settled pair is on its side and has no streak.
LEMMA SettledIs ==
  ASSUME NEW b \in BOOLEAN
  PROVE  Settled(b) \in Pair /\ Settled(b) # None /\ Settled(b).n = 0 /\ Settled(b).inside = b
         /\ Short(Settled(b))
<1>1. Settled(b) \in Pair BY DEF Settled, Pair
<1> QED BY <1>1, NoneIsNone, GeofenceAssumption DEF Settled, Short

\* The pair before a fix is a pair, with a streak that is too short.
LEMMA BeforeIs ==
  ASSUME NEW e, e.pair \in Pair \cup {None}, Short(e.pair), marker \in BOOLEAN
  PROVE  /\ Before(e) \in Pair /\ Before(e) # None /\ Before(e).n \in Nat /\ Before(e).n < Streak
         /\ Before(e).inside \in BOOLEAN /\ Short(Before(e))
         /\ e.pair # None => Before(e) = e.pair
         /\ e.pair = None => Before(e) = Settled(marker)
<1>1. Before(e) \in Pair /\ Before(e).n < Streak
  BY SettledIs, GeofenceAssumption DEF Before, Short
<1> QED BY <1>1, NoneIsNone DEF Before, Pair, Short

\* step confirms the other side only after a streak of two at least; otherwise the
\* side stays.
LEMMA StepIs ==
  ASSUME NEW e, e.pair \in Pair \cup {None}, Short(e.pair), marker \in BOOLEAN, NEW r \in FixType
  PROVE  /\ Step(e, r) \in Pair /\ Step(e, r) # None /\ Short(Step(e, r))
         /\ Confirms(e, r) => /\ Step(e, r) = Settled(r.side = "in")
                              /\ Before(e).inside # (r.side = "in")
                              /\ Before(e).n # 0
         /\ ~ Confirms(e, r) => Step(e, r).inside = Before(e).inside
         /\ Step(e, r).n <= Before(e).n + 1
<1>1. Before(e) \in Pair /\ Before(e).n \in Nat /\ Before(e).inside \in BOOLEAN /\ Before(e).n < Streak
  BY BeforeIs
<1>2. Observed(e, r) \in Nat /\ Observed(e, r) <= Before(e).n + 1 BY <1>1 DEF Observed
<1>3. r.side \in Sides BY DEF FixType
<1>4. CASE Other(e, r) /\ ~ Confirms(e, r)
  <2>1. Step(e, r) = [inside |-> Before(e).inside, pend |-> r.side, n |-> Observed(e, r)]
    BY <1>4 DEF Step
  <2>2. Step(e, r) \in Pair BY <1>1, <1>2, <1>3, <2>1 DEF Pair
  <2>3. Observed(e, r) < Streak BY <1>2, <1>4, GeofenceAssumption DEF Confirms
  <2> QED BY <1>2, <1>4, <2>1, <2>2, <2>3, NoneIsNone DEF Short
<1>5. CASE ~ (Other(e, r) /\ ~ Confirms(e, r))
  <2>1. Step(e, r) = Settled(r.side = "in") BY <1>5 DEF Step
  <2>2. (r.side = "in") \in BOOLEAN OBVIOUS
  <2>3. Step(e, r) \in Pair /\ Step(e, r) # None /\ Short(Step(e, r)) /\ Step(e, r).n = 0
        /\ Step(e, r).inside = (r.side = "in")
    BY <2>1, <2>2, SettledIs
  <2>4. Confirms(e, r) => Before(e).inside # (r.side = "in") BY DEF Confirms, Other
  <2>5. Confirms(e, r) => Before(e).n # 0
    BY <1>1, <1>2, GeofenceAssumption DEF Confirms
  <2>6. ~ Confirms(e, r) => Before(e).inside = (r.side = "in") BY <1>1, <1>5 DEF Other
  <2> QED BY <1>1, <2>1, <2>3, <2>4, <2>5, <2>6
<1> QED BY <1>4, <1>5

\* What a fix does to the engine in the course of a batch.
LEMMA ObserveIs ==
  ASSUME NEW f \in Run, Short(f.pair), marker \in BOOLEAN, fence \in BOOLEAN, NEW r \in FixType
  PROVE  /\ Observe(f, r) \in Run /\ Short(Observe(f, r).pair)
         /\ ~ Counts(f, r) => Observe(f, r) = f
         /\ Counts(f, r) => /\ r.at >= f.seen /\ Observe(f, r).seen = r.at /\ Observe(f, r).any
                            /\ fence => Observe(f, r).pair = Step(f, r)
                            /\ ~ fence => Observe(f, r).pair = f.pair
         /\ IF Counts(f, r) /\ fence /\ Confirms(f, r)
            THEN Observe(f, r).out = Append(f.out, [side |-> r.side, at |-> r.at])
            ELSE Observe(f, r).out = f.out
<1>1. f.seen \in Nat /\ f.pair \in Pair \cup {None} /\ f.out \in Seq(Crossing) /\ f.any \in BOOLEAN
  BY DEF Run
<1>2. r.side \in Sides /\ r.at \in Nat /\ [side |-> r.side, at |-> r.at] \in Crossing
  BY DEF FixType, Crossing
<1>3. Step(f, r) \in Pair /\ Short(Step(f, r)) BY <1>1, StepIs
<1>4. Append(f.out, [side |-> r.side, at |-> r.at]) \in Seq(Crossing) BY <1>1, <1>2
<1>5. CASE ~ Counts(f, r) BY <1>5 DEF Observe
<1>6. CASE Counts(f, r)
  <2>1. Observe(f, r) = [seen |-> r.at, any |-> TRUE,
                         pair |-> IF fence THEN Step(f, r) ELSE f.pair,
                         out |-> IF fence /\ Confirms(f, r)
                                 THEN Append(f.out, [side |-> r.side, at |-> r.at]) ELSE f.out]
    BY <1>6 DEF Observe
  <2>2. r.at >= f.seen BY <1>6 DEF Counts
  <2>3. Observe(f, r) \in Run BY <1>1, <1>2, <1>3, <1>4, <2>1 DEF Run
  <2>4. Short(Observe(f, r).pair) BY <1>3, <2>1
  <2> QED BY <1>6, <2>1, <2>2, <2>3, <2>4
<1> QED BY <1>5, <1>6

-----------------------------------------------------------------------------
(* A batch at the engine.                                                  *)

\* The marker and the fence, as far as the engine needs them.
Bools == marker \in BOOLEAN /\ fence \in BOOLEAN

\* The engine has its type after each fix of a batch.
LEMMA FeedingTypes ==
  ASSUME NEW e \in Mem, Short(e.pair), Bools, NEW fixes \in Seq(FixType), NEW n \in 0 .. Len(fixes)
  PROVE  Feeding(e, fixes)[n] \in Run /\ Short(Feeding(e, fixes)[n].pair)
<1> DEFINE f == Feeding(e, fixes)
           Good == {m \in 0 .. Len(fixes) : f[m] \in Run /\ Short(f[m].pair)}
<1>1. Len(fixes) \in Nat /\ \A m \in 1 .. Len(fixes) : fixes[m] \in FixType BY ElementOfSeq, LenProperties
<1>2. f[0] = Start(e) /\ \A m \in 1 .. Len(fixes) : f[m] = Observe(f[m - 1], fixes[m])
  BY <1>1, FeedingIs
<1> HIDE DEF f
<1>3. 0 \in Good
  <2>1. Start(e) \in Run BY EmptySeq DEF Start, Mem, Run
  <2>2. Start(e).pair = e.pair BY DEF Start
  <2> QED BY <1>1, <1>2, <2>1, <2>2
<1>4. ASSUME NEW m \in 1 .. Len(fixes), m - 1 \in Good PROVE m \in Good
  <2>1. f[m] = Observe(f[m - 1], fixes[m]) /\ f[m - 1] \in Run /\ Short(f[m - 1].pair) BY <1>2, <1>4
  <2>2. f[m] \in Run /\ Short(f[m].pair) BY <1>1, <2>1, ObserveIs DEF Bools
  <2> QED BY <1>1, <2>2
<1>5. n \in Good
  <2> HIDE DEF Good
  <2> QED BY <1>1, <1>3, <1>4, Climb
<1> QED BY <1>5 DEF f

\* The side before the first transition of a list is s, and each has the other
\* side than the one before it.
Alternates(list, s) ==
  /\ \A i \in 1 .. Len(list) - 1 : list[i].side # list[i + 1].side
  /\ list # <<>> => (list[1].side = "out") = s

\* In the course of a batch the engine's side is the one of the last transition.
Follows(f, s) ==
  /\ Alternates(f.out, s)
  /\ f.out = <<>> => Before(f).inside = s
  /\ f.out # <<>> => f.pair # None /\ f.pair.inside = (f.out[Len(f.out)].side = "in") /\ fence

\* A fix leaves the engine on the side of the last transition.
LEMMA ObserveFollows ==
  ASSUME NEW f \in Run, Short(f.pair), Bools, NEW r \in FixType, NEW s \in BOOLEAN, Follows(f, s)
  PROVE  Follows(Observe(f, r), s)
<1> DEFINE o == Observe(f, r)
           c == [side |-> r.side, at |-> r.at]
<1> SUFFICES Follows(o, s) OBVIOUS
<1>1. /\ f.pair \in Pair \cup {None} /\ f.out \in Seq(Crossing) /\ marker \in BOOLEAN /\ fence \in BOOLEAN
      /\ Len(f.out) \in Nat
  BY LenProperties DEF Run, Bools
<1>2. r.side \in Sides BY DEF FixType
<1>3. o \in Run /\ Short(o.pair) BY <1>1, ObserveIs
<1>4. CASE Counts(f, r) /\ fence /\ Confirms(f, r)
  <2>1. o.out = Append(f.out, c) /\ o.pair = Step(f, r) BY <1>1, <1>4, ObserveIs
  <2>2. o.pair = Settled(r.side = "in") /\ Before(f).inside # (r.side = "in")
    BY <1>1, <1>4, <2>1, StepIs
  <2>3. o.pair # None /\ o.pair.inside = (r.side = "in")
    <3>1. (r.side = "in") \in BOOLEAN OBVIOUS
    <3> QED BY <2>2, <3>1, SettledIs
  <2>4. Before(f).inside \in BOOLEAN /\ (f.pair # None => Before(f) = f.pair) BY <1>1, BeforeIs
  <2>5. c \in Crossing /\ c.side = r.side BY DEF Crossing, FixType
  <2>6. /\ Len(o.out) = Len(f.out) + 1 /\ o.out[Len(f.out) + 1] = c
        /\ \A i \in 1 .. Len(f.out) : o.out[i] = f.out[i]
    BY <1>1, <2>1, <2>5, AppendProperties
  <2>7. \A i \in 1 .. Len(f.out) : f.out[i].side \in Sides
    <3>1. \A i \in 1 .. Len(f.out) : f.out[i] \in Crossing BY <1>1, ElementOfSeq
    <3> QED BY <3>1 DEF Crossing
  <2>8. CASE f.out = <<>>
    <3>1. Len(f.out) = 0 BY <2>8
    <3>2. Before(f).inside = s BY <2>8 DEF Follows
    <3>3. (r.side = "out") = s BY <1>2, <2>2, <2>4, <3>2 DEF Sides
    <3>4. o.out[1].side = r.side /\ Len(o.out) = 1 BY <2>5, <2>6, <3>1
    <3>5. Alternates(o.out, s) BY <3>3, <3>4 DEF Alternates
    <3>6. o.out # <<>> BY <3>4
    <3> HIDE DEF o
    <3> QED BY <1>4, <2>3, <3>4, <3>5, <3>6 DEF Follows
  <2>9. CASE f.out # <<>>
    <3>1. Len(f.out) >= 1 BY <1>1, <2>9, EmptySeq
    <3>2. f.pair.inside = (f.out[Len(f.out)].side = "in") /\ f.pair # None BY <2>9 DEF Follows
    <3>3. f.out[Len(f.out)].side # r.side BY <1>1, <1>2, <2>2, <2>4, <2>7, <3>1, <3>2 DEF Sides
    <3>4. ASSUME NEW i \in 1 .. Len(o.out) - 1 PROVE o.out[i].side # o.out[i + 1].side
      <4>1. CASE i = Len(f.out) BY <2>5, <2>6, <3>1, <3>3, <4>1
      <4>2. CASE i # Len(f.out)
        <5>1. i \in 1 .. Len(f.out) - 1 /\ i + 1 \in 1 .. Len(f.out) /\ i \in 1 .. Len(f.out)
          BY <1>1, <2>6, <4>2
        <5>2. f.out[i].side # f.out[i + 1].side BY <5>1 DEF Follows, Alternates
        <5> QED BY <2>6, <5>1, <5>2
      <4> QED BY <4>1, <4>2
    <3>5. o.out[1] = f.out[1] BY <1>1, <2>6, <3>1
    <3>6. (f.out[1].side = "out") = s BY <2>9 DEF Follows, Alternates
    <3>7. Alternates(o.out, s) BY <3>4, <3>5, <3>6 DEF Alternates
    <3>8. o.out # <<>> /\ o.out[Len(o.out)].side = r.side BY <1>1, <2>5, <2>6
    <3> HIDE DEF o
    <3> QED BY <1>4, <2>3, <3>7, <3>8 DEF Follows
  <2> QED BY <2>8, <2>9
<1>5. CASE ~ (Counts(f, r) /\ fence /\ Confirms(f, r))
  <2>1. o.out = f.out BY <1>1, <1>5, ObserveIs
  <2>2. Before(o).inside = Before(f).inside /\ (f.pair # None => o.pair # None)
    <3>1. CASE ~ Counts(f, r) BY <1>1, <3>1, ObserveIs DEF Before
    <3>2. CASE Counts(f, r) /\ ~ fence
      <4>1. o.pair = f.pair BY <1>1, <3>2, ObserveIs
      <4> HIDE DEF o
      <4> QED BY <4>1 DEF Before
    <3>3. CASE Counts(f, r) /\ fence
      <4>1. o.pair = Step(f, r) /\ ~ Confirms(f, r) BY <1>1, <1>5, <3>3, ObserveIs
      <4>2. o.pair # None /\ o.pair.inside = Before(f).inside BY <1>1, <4>1, StepIs
      <4>3. o.pair \in Pair \cup {None} BY <1>3 DEF Run
      <4> HIDE DEF o
      <4>4. Before(o) = o.pair BY <4>2 DEF Before
      <4> QED BY <4>2, <4>4
    <3> QED BY <1>1, <3>1, <3>2, <3>3
  <2>3. ASSUME f.out # <<>> PROVE o.pair # None /\ o.pair.inside = f.pair.inside
    <3>1. f.pair # None BY <2>3 DEF Follows
    <3> HIDE DEF o
    <3>2. o.pair # None BY <2>2, <3>1
    <3> QED BY <2>2, <3>1, <3>2 DEF Before
  <2> HIDE DEF o
  <2>4. Alternates(o.out, s) BY <2>1 DEF Follows
  <2> QED BY <2>1, <2>2, <2>3, <2>4 DEF Follows
<1> QED BY <1>4, <1>5

\* A batch leaves the engine on the side of its last transition.
LEMMA FeedingFollows ==
  ASSUME NEW e \in Mem, Short(e.pair), Bools, NEW fixes \in Seq(FixType), NEW n \in 0 .. Len(fixes)
  PROVE  Follows(Feeding(e, fixes)[n], Before(e).inside)
<1> DEFINE f == Feeding(e, fixes)
           s == Before(e).inside
           Good == {m \in 0 .. Len(fixes) : Follows(f[m], s)}
<1>1. Len(fixes) \in Nat /\ \A m \in 1 .. Len(fixes) : fixes[m] \in FixType BY ElementOfSeq, LenProperties
<1>2. f[0] = Start(e) /\ \A m \in 1 .. Len(fixes) : f[m] = Observe(f[m - 1], fixes[m])
  BY <1>1, FeedingIs
<1>3. \A m \in 0 .. Len(fixes) : f[m] \in Run /\ Short(f[m].pair) BY FeedingTypes
<1>4. s \in BOOLEAN
  <2>1. e.pair \in Pair \cup {None} BY DEF Mem
  <2> QED BY <2>1, BeforeIs DEF Bools
<1> HIDE DEF f
<1>5. 0 \in Good
  <2>1. Start(e).out = <<>> /\ Start(e).pair = e.pair BY DEF Start
  <2>2. Before(Start(e)) = Before(e) BY <2>1 DEF Before
  <2>3. Follows(Start(e), s) BY <2>1, <2>2 DEF Follows, Alternates
  <2> HIDE DEF s
  <2> QED BY <1>1, <1>2, <2>3
<1> HIDE DEF s
<1>6. ASSUME NEW m \in 1 .. Len(fixes), m - 1 \in Good PROVE m \in Good
  <2>1. f[m] = Observe(f[m - 1], fixes[m]) /\ Follows(f[m - 1], s) /\ m - 1 \in 0 .. Len(fixes)
    BY <1>2, <1>6
  <2>2. f[m - 1] \in Run /\ Short(f[m - 1].pair) BY <1>3, <2>1
  <2>3. Follows(f[m], s) BY <1>1, <1>4, <2>1, <2>2, ObserveFollows
  <2> QED BY <1>1, <2>3
<1>7. n \in Good
  <2> HIDE DEF Good
  <2> QED BY <1>1, <1>5, <1>6, Climb
<1> QED BY <1>7 DEF f, s

\* How far the streak of the engine's pair is.
Tries(e) == IF e.pair = None THEN 0 ELSE e.pair.n

\* No crossing that the engine has still to find, once it has taken in the fixes
\* P, is at b or before it: it is past b, or it is at b and the one other fix that
\* may be of that instant is not enough to confirm a side.
Ahead(b, e, P) ==
  \/ b = 0 \/ b < e.seen
  \/ /\ b = e.seen
     /\ \/ Tries(e) = 0 /\ \E i \in P : stream[i].at = b
        \/ Tries(e) <= 1 /\ \E i, j \in P : i # j /\ stream[i].at = b /\ stream[j].at = b

\* At most two fixes are of one instant, and no instant is 0.
Thin ==
  /\ stream \in Seq(FixType)
  /\ \A i \in 1 .. Len(stream) : stream[i].at > 0
  /\ \A i, j, k \in 1 .. Len(stream) :
       i # j /\ i # k /\ j # k /\ stream[i].at = stream[j].at => stream[k].at # stream[i].at

\* The transitions of a list are one after the other, later than b and not later than top.
Rising(list, b, top) ==
  \A i \in 1 .. Len(list) : /\ b < list[i].at /\ list[i].at <= top
                            /\ \A j \in 1 .. i - 1 : list[j].at < list[i].at
LastAt(list, b) == IF list = <<>> THEN b ELSE list[Len(list)].at
Timely(f, b, top, P, Q) ==
  /\ Rising(f.out, b, top)
  /\ Ahead(LastAt(f.out, b), f, P) \/ (f.out = <<>> /\ Q # {} /\ \A i \in Q : b < stream[i].at)

\* More fixes taken in do no harm.
LEMMA AheadMore ==
  ASSUME NEW b, NEW e, NEW P, NEW Q, P \subseteq Q, Ahead(b, e, P)
  PROVE  Ahead(b, e, Q)
BY DEF Ahead

\* A fix that the engine counts either confirms a crossing after b or leaves it ahead of b.
LEMMA AheadStep ==
  ASSUME Thin, NEW f \in Run, Short(f.pair), Bools, NEW P \in SUBSET (1 .. Len(stream)),
         NEW i \in 1 .. Len(stream), i \notin P, NEW b \in Nat, Ahead(b, f, P),
         Counts(f, stream[i])
  PROVE  IF fence /\ Confirms(f, stream[i]) THEN b < stream[i].at
         ELSE Ahead(b, Observe(f, stream[i]), P \cup {i})
<1> DEFINE r == stream[i]
           o == Observe(f, r)
<1>1. r \in FixType /\ r.at \in Nat /\ r.at > 0
  <2>1. r \in FixType BY ElementOfSeq DEF Thin
  <2> QED BY <2>1 DEF Thin, FixType
<1>2. f.seen \in Nat /\ f.pair \in Pair \cup {None} /\ marker \in BOOLEAN /\ fence \in BOOLEAN
  BY DEF Run, Bools
<1>3. o \in Run /\ r.at >= f.seen /\ o.seen = r.at BY <1>1, <1>2, ObserveIs
<1>4. Tries(f) = Before(f).n /\ Tries(f) \in Nat
  BY <1>2, BeforeIs, SettledIs DEF Tries
<1>5. ASSUME ~ (fence /\ Confirms(f, r)) PROVE Tries(o) <= Tries(f) + 1
  <2>1. CASE fence
    <3>1. o.pair = Step(f, r) BY <1>1, <1>2, <2>1, ObserveIs
    <3>2. Step(f, r) # None /\ Step(f, r).n <= Before(f).n + 1 BY <1>1, <1>2, StepIs
    <3> HIDE DEF o
    <3> QED BY <1>4, <3>1, <3>2 DEF Tries
  <2>2. CASE ~ fence
    <3>1. o.pair = f.pair BY <1>1, <1>2, <2>2, ObserveIs
    <3> HIDE DEF o
    <3> QED BY <1>4, <3>1 DEF Tries
  <2> QED BY <1>2, <2>1, <2>2
<1>6. CASE b = 0 \/ b < f.seen \/ b < r.at
  <2>1. b < r.at BY <1>1, <1>2, <1>3, <1>6
  <2>2. b < o.seen BY <1>3, <2>1
  <2> QED BY <2>1, <2>2 DEF Ahead
<1>7. CASE ~ (b = 0 \/ b < f.seen \/ b < r.at)
  <2>1. b = f.seen /\ r.at = b BY <1>1, <1>2, <1>3, <1>7 DEF Ahead
  <2>2. ~ \E j, k \in P : j # k /\ stream[j].at = b /\ stream[k].at = b
    <3> SUFFICES ASSUME NEW j \in P, NEW k \in P, j # k, stream[j].at = b, stream[k].at = b PROVE FALSE
      OBVIOUS
    <3>1. i # j /\ i # k /\ j \in 1 .. Len(stream) /\ k \in 1 .. Len(stream) OBVIOUS
    <3> QED BY <2>1, <3>1 DEF Thin
  <2>3. Tries(f) = 0 /\ \E j \in P : stream[j].at = b BY <1>7, <2>2 DEF Ahead
  <2>4. PICK j \in P : stream[j].at = b BY <2>3
  <2>5. ~ Confirms(f, r) BY <1>1, <1>2, <1>4, <2>3, StepIs
  <2>6. Tries(o) <= 1 BY <1>4, <1>5, <2>3, <2>5
  <2>7. b = o.seen /\ j \in P \cup {i} /\ i \in P \cup {i} /\ i # j BY <1>3, <2>1, <2>4
  <2>8. Ahead(b, o, P \cup {i}) BY <2>1, <2>4, <2>6, <2>7 DEF Ahead
  <2> QED BY <2>5, <2>8
<1> QED BY <1>6, <1>7

\* A fix that the engine has not taken in keeps the transitions one after the other.
LEMMA ObserveTimely ==
  ASSUME Thin, NEW f \in Run, Short(f.pair), Bools, NEW P \in SUBSET (1 .. Len(stream)),
         NEW i \in 1 .. Len(stream), i \notin P, NEW b \in Nat, NEW top \in Nat, NEW Q,
         Q # {} => i \in Q, stream[i].at <= top, Timely(f, b, top, P, Q)
  PROVE  Timely(Observe(f, stream[i]), b, top, P \cup {i}, Q)
<1> DEFINE r == stream[i]
           o == Observe(f, r)
           c == [side |-> r.side, at |-> r.at]
           R == P \cup {i}
           l == LastAt(f.out, b)
<1> SUFFICES Timely(o, b, top, R, Q) OBVIOUS
<1>1. r \in FixType /\ r.at \in Nat /\ r.at > 0
  <2>1. r \in FixType BY ElementOfSeq DEF Thin
  <2> QED BY <2>1 DEF Thin, FixType
<1>2. /\ f.seen \in Nat /\ f.pair \in Pair \cup {None} /\ marker \in BOOLEAN /\ fence \in BOOLEAN
      /\ f.out \in Seq(Crossing) /\ Len(f.out) \in Nat /\ Len(f.out) >= 0
      /\ \A k \in 1 .. Len(f.out) : f.out[k].at \in Nat
  <2>1. f.out \in Seq(Crossing) BY DEF Run
  <2>2. \A k \in 1 .. Len(f.out) : f.out[k] \in Crossing BY <2>1, ElementOfSeq
  <2> QED BY <2>1, <2>2 DEF Run, Bools, Crossing
<1>3. f.out # <<>> => Len(f.out) >= 1 BY <1>2, EmptySeq
<1>4. l \in Nat BY <1>2, <1>3 DEF LastAt
<1>5. CASE ~ Counts(f, r)
  <2>1. o = f BY <1>1, <1>2, <1>5, ObserveIs
  <2>2. Ahead(l, f, P) => Ahead(l, f, R) BY AheadMore
  <2> QED BY <2>1, <2>2 DEF Timely
<1>6. CASE Counts(f, r) /\ ~ (fence /\ Confirms(f, r))
  <2>1. o.out = f.out BY <1>1, <1>2, <1>6, ObserveIs
  <2>2. Ahead(l, f, P) => Ahead(l, o, R)
    <3> HIDE DEF l
    <3> QED BY <1>4, <1>6, AheadStep
  <2> HIDE DEF o
  <2> QED BY <2>1, <2>2 DEF Timely
<1>7. CASE Counts(f, r) /\ fence /\ Confirms(f, r)
  <2>1. /\ o.out = Append(f.out, c) /\ o.pair = Step(f, r) /\ o.seen = r.at
        /\ o.pair = Settled(r.side = "in")
    BY <1>1, <1>2, <1>7, ObserveIs, StepIs
  <2>2. l < r.at
    <3>1. CASE Ahead(l, f, P)
      <4> HIDE DEF l
      <4> QED BY <1>4, <1>7, <3>1, AheadStep
    <3>2. CASE ~ Ahead(l, f, P) BY <3>2 DEF LastAt, Timely
    <3> QED BY <3>1, <3>2
  <2>3. c \in Crossing /\ c.at = r.at BY <1>1 DEF Crossing, FixType
  <2>4. /\ Len(o.out) = Len(f.out) + 1 /\ o.out[Len(f.out) + 1] = c
        /\ \A k \in 1 .. Len(f.out) : o.out[k] = f.out[k]
    BY <1>2, <2>1, <2>3, AppendProperties
  <2>5. b < r.at /\ \A k \in 1 .. Len(f.out) : f.out[k].at < r.at
    <3>1. CASE f.out = <<>> BY <2>2, <3>1 DEF LastAt
    <3>2. CASE f.out # <<>>
      <4>1. l = f.out[Len(f.out)].at /\ Len(f.out) \in 1 .. Len(f.out) BY <1>2, <1>3, <3>2 DEF LastAt
      <4>2. b < l BY <4>1 DEF Timely, Rising
      <4>3. \A k \in 1 .. Len(f.out) : f.out[k].at <= l
        <5> SUFFICES ASSUME NEW k \in 1 .. Len(f.out) PROVE f.out[k].at <= l OBVIOUS
        <5>1. CASE k = Len(f.out) BY <1>2, <4>1, <5>1
        <5>2. CASE k # Len(f.out)
          <6>1. k \in 1 .. Len(f.out) - 1 BY <1>2, <5>2
          <6>2. f.out[k].at < f.out[Len(f.out)].at BY <4>1, <6>1 DEF Timely, Rising
          <6> QED BY <1>2, <4>1, <6>2, SMTT(30)
        <5> QED BY <5>1, <5>2
      <4> HIDE DEF l, r
      <4> QED BY <1>1, <1>2, <1>4, <2>2, <4>2, <4>3
    <3> QED BY <3>1, <3>2
  <2>6. Rising(o.out, b, top)
    <3> SUFFICES ASSUME NEW k \in 1 .. Len(o.out)
                 PROVE  /\ b < o.out[k].at /\ o.out[k].at <= top
                        /\ \A j \in 1 .. k - 1 : o.out[j].at < o.out[k].at
      BY DEF Rising
    <3>1. CASE k = Len(f.out) + 1
      <4>1. o.out[k].at = r.at /\ k - 1 = Len(f.out) BY <1>2, <2>3, <2>4, <3>1
      <4>2. \A j \in 1 .. k - 1 : o.out[j] = f.out[j] BY <2>4, <4>1
      <4> HIDE DEF o, r
      <4> QED BY <2>5, <4>1, <4>2 DEF r
    <3>2. CASE k # Len(f.out) + 1
      <4>1. k \in 1 .. Len(f.out) /\ \A j \in 1 .. k - 1 : j \in 1 .. Len(f.out) BY <1>2, <2>4, <3>2
      <4>2. o.out[k] = f.out[k] /\ \A j \in 1 .. k - 1 : o.out[j] = f.out[j] BY <2>4, <4>1
      <4> QED BY <4>1, <4>2 DEF Timely, Rising
    <3> QED BY <3>1, <3>2
  <2>7. LastAt(o.out, b) = r.at
    <3>1. o.out # <<>> BY <1>2, <2>4
    <3> QED BY <2>3, <2>4, <3>1 DEF LastAt
  <2>8. Tries(o) = 0
    <3>1. (r.side = "in") \in BOOLEAN OBVIOUS
    <3> HIDE DEF o
    <3> QED BY <2>1, <3>1, SettledIs DEF Tries
  <2>9. i \in R /\ stream[i].at = r.at OBVIOUS
  <2> HIDE DEF o, R, r
  <2>10. Ahead(r.at, o, R) BY <2>1, <2>8, <2>9 DEF Ahead
  <2> QED BY <2>6, <2>7, <2>10 DEF Timely
<1> QED BY <1>5, <1>6, <1>7

\* The places in the stream of the first n fixes of a batch.
Taken(ix, n) == {ix[m] : m \in 1 .. n}

\* The transitions of a batch of fixes that the engine has not taken in are one
\* after the other, and later than b if the engine is ahead of b or the fixes are
\* later than b.
LEMMA FeedingTimely ==
  ASSUME Thin, NEW e \in Mem, Short(e.pair), Bools, NEW fixes \in Seq(FixType),
         NEW P \in SUBSET (1 .. Len(stream)), NEW b \in Nat, NEW top \in Nat, NEW Q,
         NEW ix \in [1 .. Len(fixes) -> 1 .. Len(stream)],
         \A m \in 1 .. Len(fixes) :
           /\ fixes[m] = stream[ix[m]] /\ ix[m] \notin P /\ stream[ix[m]].at <= top
           /\ Q # {} => ix[m] \in Q
           /\ \A l \in 1 .. m - 1 : ix[l] # ix[m],
         Ahead(b, e, P) \/ (Q # {} /\ \A i \in Q : b < stream[i].at), NEW n \in 0 .. Len(fixes)
  PROVE  Timely(Feeding(e, fixes)[n], b, top, P \cup Taken(ix, n), Q)
<1> DEFINE f == Feeding(e, fixes)
           Past(m) == P \cup {ix[l] : l \in 1 .. m}
           Good == {m \in 0 .. Len(fixes) : Timely(f[m], b, top, Past(m), Q)}
<1>1. Len(fixes) \in Nat /\ \A m \in 1 .. Len(fixes) : fixes[m] \in FixType BY ElementOfSeq, LenProperties
<1>2. f[0] = Start(e) /\ \A m \in 1 .. Len(fixes) : f[m] = Observe(f[m - 1], fixes[m])
  BY <1>1, FeedingIs
<1>3. \A m \in 0 .. Len(fixes) : f[m] \in Run /\ Short(f[m].pair) BY FeedingTypes
<1> HIDE DEF f
<1>4. 0 \in Good
  <2>1. Start(e).out = <<>> /\ Start(e).pair = e.pair /\ Start(e).seen = e.seen BY DEF Start
  <2>2. Ahead(b, e, P) => Ahead(b, Start(e), P) BY <2>1 DEF Ahead, Tries
  <2>3. Ahead(b, e, P) => Ahead(b, Start(e), Past(0)) BY <2>2, AheadMore
  <2>4. Timely(Start(e), b, top, Past(0), Q)
    <3> HIDE DEF Past
    <3> QED BY <2>1, <2>3 DEF Timely, Rising, LastAt
  <2> QED BY <1>1, <1>2, <2>4
<1>5. ASSUME NEW m \in 1 .. Len(fixes), m - 1 \in Good PROVE m \in Good
  <2>1. /\ f[m] = Observe(f[m - 1], stream[ix[m]]) /\ Timely(f[m - 1], b, top, Past(m - 1), Q)
        /\ m - 1 \in 0 .. Len(fixes) /\ ix[m] \in 1 .. Len(stream)
    BY <1>2, <1>5
  <2>2. f[m - 1] \in Run /\ Short(f[m - 1].pair) BY <1>3, <2>1
  <2>3. Past(m - 1) \in SUBSET (1 .. Len(stream)) /\ ix[m] \notin Past(m - 1)
    <3>1. \A l \in 1 .. m - 1 : l \in 1 .. Len(fixes) BY <1>1
    <3>2. \A l \in 1 .. m - 1 : ix[l] \in 1 .. Len(stream) /\ ix[l] # ix[m] BY <3>1
    <3>3. ix[m] \notin P OBVIOUS
    <3> DEFINE D == {ix[l] : l \in 1 .. m - 1}
    <3>4. \A x \in D : x \in 1 .. Len(stream) /\ x # ix[m] BY ONLY <3>2
    <3> HIDE DEF D
    <3>5. P \cup D \in SUBSET (1 .. Len(stream)) /\ ix[m] \notin P \cup D BY ONLY P \in SUBSET (1 .. Len(stream)), <3>3, <3>4
    <3> QED BY <3>5 DEF D
  <2>4. Past(m) = Past(m - 1) \cup {ix[m]}
    <3>1. 1 .. m = (1 .. m - 1) \cup {m} BY <1>1
    <3> QED BY <3>1
  <2>5. (Q # {} => ix[m] \in Q) /\ stream[ix[m]].at <= top OBVIOUS
  <2> HIDE DEF Past
  <2>6. Timely(f[m], b, top, Past(m), Q)
    <3>1. Timely(Observe(f[m - 1], stream[ix[m]]), b, top, Past(m - 1) \cup {ix[m]}, Q)
      BY <2>1, <2>2, <2>3, <2>5, ObserveTimely
    <3> QED BY <2>1, <2>4, <3>1
  <2> QED BY <1>1, <2>6
<1>6. n \in Good
  <2> HIDE DEF Good
  <2> QED BY <1>1, <1>4, <1>5, Climb
<1> QED BY <1>6 DEF f, Taken

\* The batch that is read, in the order in which the engine gets it.
Due(k) == ByTime(SubSeq(stream, acked + 1, acked + k))

\* ByTime sorts: the batch holds the fixes after acked, each once, by time and then
\* by their place in the stream.
LEMMA DueIs ==
  ASSUME stream \in Seq(FixType), acked \in Nat, NEW k \in Nat, acked + k <= Len(stream)
  PROVE  /\ Due(k) \in Seq(FixType) /\ Len(Due(k)) = k
         /\ \E ix \in [1 .. k -> acked + 1 .. acked + k] :
              /\ \A n \in 1 .. k : Due(k)[n] = stream[ix[n]]
              /\ \A i \in acked + 1 .. acked + k : \E n \in 1 .. k : ix[n] = i
              /\ \A m, n \in 1 .. k : m < n =>
                   \/ stream[ix[m]].at < stream[ix[n]].at
                   \/ stream[ix[m]].at = stream[ix[n]].at /\ ix[m] < ix[n]
<1> DEFINE s == SubSeq(stream, acked + 1, acked + k)
<1>1. Len(stream) \in Nat BY LenProperties
<1>2. /\ s \in Seq(FixType) /\ Len(s) = k /\ \A n \in 1 .. k : s[n] = stream[acked + n]
  <2>1. s \in Seq(FixType)
    <3>1. \A n \in acked + 1 .. acked + k : n \in 1 .. Len(stream) BY <1>1
    <3> QED BY <3>1, SubSeqProperties
  <2>2. Len(s) = k /\ \A n \in 1 .. k : s[n] = stream[acked + n] BY <1>1
  <2> QED BY <2>1, <2>2
<1> HIDE DEF s
<1>3. PICK g \in [1 .. Len(s) -> 1 .. Len(s)] :
        /\ \A n \in 1 .. Len(s) : ByTime(s)[n] = s[g[n]]
        /\ \A i \in 1 .. Len(s) : \E n \in 1 .. Len(s) : g[n] = i
        /\ \A m, n \in 1 .. Len(s) : m < n =>
             (s[g[m]].at < s[g[n]].at \/ (s[g[m]].at = s[g[n]].at /\ g[m] < g[n]))
  BY <1>2, ByTimeIs
<1>3a. /\ g \in [1 .. k -> 1 .. k] /\ \A n \in 1 .. k : ByTime(s)[n] = s[g[n]]
       /\ \A i \in 1 .. k : \E n \in 1 .. k : g[n] = i
       /\ \A m, n \in 1 .. k : m < n =>
            (s[g[m]].at < s[g[n]].at \/ (s[g[m]].at = s[g[n]].at /\ g[m] < g[n]))
  <2>1. Len(s) = k BY <1>2
  <2> QED BY <1>3, <2>1
<1>4. Due(k) = ByTime(s) BY DEF Due, s
<1>5. Due(k) \in Seq(FixType) /\ Len(Due(k)) = k BY <1>2, <1>4, ByTimeIs
<1> DEFINE ix == [n \in 1 .. k |-> acked + g[n]]
<1>6. ix \in [1 .. k -> acked + 1 .. acked + k] BY <1>3a
<1>7. \A n \in 1 .. k : g[n] \in 1 .. k /\ ix[n] = acked + g[n] /\ s[g[n]] = stream[ix[n]] BY <1>2, <1>3a
<1>8. \A n \in 1 .. k : Due(k)[n] = stream[ix[n]] BY <1>3a, <1>4, <1>7
<1>9. ASSUME NEW i \in acked + 1 .. acked + k PROVE \E n \in 1 .. k : ix[n] = i
  <2>1. i - acked \in 1 .. k OBVIOUS
  <2>2. PICK n \in 1 .. k : g[n] = i - acked BY <1>3a, <2>1
  <2>3. ix[n] = i BY <1>7, <2>2
  <2> QED BY <2>3
<1>10. ASSUME NEW m \in 1 .. k, NEW n \in 1 .. k, m < n
       PROVE  \/ stream[ix[m]].at < stream[ix[n]].at
              \/ stream[ix[m]].at = stream[ix[n]].at /\ ix[m] < ix[n]
  <2>1. s[g[m]].at < s[g[n]].at \/ (s[g[m]].at = s[g[n]].at /\ g[m] < g[n]) BY <1>3a, <1>10
  <2>2. g[m] < g[n] => ix[m] < ix[n] BY <1>7
  <2> HIDE DEF ix
  <2> QED BY <1>7, <2>1, <2>2
<1> HIDE DEF ix
<1> QED BY <1>5, <1>6, <1>8, <1>9, <1>10

\* The usable fixes, and those of them from q on that are among P.
Usable == {i \in 1 .. Len(stream) : stream[i].usable}
Since(q, P) == {i \in Usable \cap P : i >= q}

\* The usable fixes from q to top are on side s, and none before is newer.
OneSide(q, s, top) ==
  \A i \in Since(q, 1 .. top) :
    stream[i].side = s /\ \A j \in Usable : j < i => stream[j].at <= stream[i].at

\* The engine has taken in the usable fixes of P.
SeenBy(e, P) == e.seen = 0 \/ \E j \in Usable \cap P : e.seen = stream[j].at

\* It holds the side s, or a streak of that side as long as the run from q on.
Holds(e, q, s, P) ==
  Since(q, P) # {} =>
    /\ e.pair # None
    /\ \/ e.pair.inside = (s = "in")
       \/ e.pair.pend = s /\ e.pair.n >= Cardinality(Since(q, P))

\* These sets can be counted.
LEMMA SinceFinite ==
  ASSUME Len(stream) \in Nat, NEW q, NEW P
  PROVE  IsFiniteSet(Since(q, P)) /\ Cardinality(Since(q, P)) \in Nat
<1>1. IsFiniteSet(1 .. Len(stream)) BY FS_Interval
<1>2. Since(q, P) \in SUBSET (1 .. Len(stream)) BY DEF Since, Usable
<1> QED BY <1>1, <1>2, FS_Subset, FS_CardinalityType

\* A fix of the run from q on adds one to the streak, or the side is confirmed.
LEMMA ObserveHolds ==
  ASSUME stream \in Seq(FixType), NEW f \in Run, Short(f.pair), Bools, fence,
         NEW P \in SUBSET (1 .. Len(stream)), NEW i \in 1 .. Len(stream), i \notin P,
         NEW q \in Nat, NEW s \in Sides, SeenBy(f, P), Holds(f, q, s, P),
         i \in Usable /\ i < q => Since(q, P) = {},
         i \in Usable /\ i >= q => /\ stream[i].side = s
                                   /\ \A j \in Usable \cap P : stream[j].at <= stream[i].at
  PROVE  Holds(Observe(f, stream[i]), q, s, P \cup {i})
<1> DEFINE r == stream[i]
           o == Observe(f, r)
           Q == P \cup {i}
<1> SUFFICES Holds(o, q, s, Q) OBVIOUS
<1>1. r \in FixType /\ r.at \in Nat /\ r.usable \in BOOLEAN /\ r.side \in Sides
  <2>1. r \in FixType BY ElementOfSeq
  <2> QED BY <2>1 DEF FixType
<1>2. /\ f.seen \in Nat /\ f.pair \in Pair \cup {None} /\ marker \in BOOLEAN /\ fence \in BOOLEAN
      /\ Len(stream) \in Nat
  BY LenProperties DEF Run, Bools
<1>3. CASE i \notin Usable
  <2>1. ~ r.usable BY <1>3 DEF Usable
  <2>2. o = f BY <1>1, <1>2, <2>1, ObserveIs DEF Counts
  <2>3. Since(q, Q) = Since(q, P) BY <1>3 DEF Since
  <2> HIDE DEF o, Q
  <2> QED BY <2>2, <2>3 DEF Holds
<1>4. CASE i \in Usable /\ i < q
  <2>1. Since(q, P) = {} BY <1>4
  <2>2. ~ (i >= q) BY <1>4
  <2>3. Since(q, Q) = Since(q, P) BY <2>2 DEF Since
  <2> QED BY <2>1, <2>3 DEF Holds
<1>5. CASE i \in Usable /\ i >= q
  <2>1. r.usable /\ r.side = s /\ \A j \in Usable \cap P : stream[j].at <= r.at BY <1>5 DEF Usable
  <2>2. f.seen <= r.at BY <1>1, <1>2, <2>1 DEF SeenBy
  <2>3. Counts(f, r) BY <1>1, <1>2, <2>1, <2>2 DEF Counts
  <2>4. o.pair = Step(f, r) BY <1>1, <1>2, <2>3, ObserveIs
  <2>5. Step(f, r) # None BY <1>1, <1>2, StepIs
  <2>6. Since(q, Q) = Since(q, P) \cup {i} /\ i \notin Since(q, P) BY <1>5 DEF Since
  <2>7. /\ Cardinality(Since(q, Q)) = Cardinality(Since(q, P)) + 1
        /\ Cardinality(Since(q, P)) \in Nat /\ (Since(q, P) = {} => Cardinality(Since(q, P)) = 0)
    <3>1. IsFiniteSet(Since(q, P)) /\ Cardinality(Since(q, P)) \in Nat BY <1>2, SinceFinite
    <3>2. Cardinality(Since(q, P) \cup {i}) = Cardinality(Since(q, P)) + 1 BY <2>6, <3>1, FS_AddElement
    <3>3. Since(q, P) = {} => Cardinality(Since(q, P)) = 0 BY FS_EmptySet
    <3> QED BY <2>6, <3>1, <3>2, <3>3
  <2>8. Before(f).inside \in BOOLEAN /\ Before(f).n \in Nat /\ (f.pair # None => Before(f) = f.pair)
    BY <1>2, BeforeIs
  <2>9. CASE Other(f, r) /\ ~ Confirms(f, r)
    <3>1. Step(f, r) = [inside |-> Before(f).inside, pend |-> r.side, n |-> Observed(f, r)]
      BY <2>9 DEF Step
    <3>2. Step(f, r).pend = s /\ Step(f, r).n = Observed(f, r) BY <2>1, <3>1
    <3>3. Observed(f, r) >= Cardinality(Since(q, P)) + 1
      <4>1. CASE Since(q, P) = {} BY <2>7, <2>8, <4>1 DEF Observed
      <4>2. CASE Since(q, P) # {}
        <5>1. f.pair # None /\ Before(f) = f.pair BY <2>8, <4>2 DEF Holds
        <5>2. Before(f).inside # (s = "in") BY <2>1, <2>9 DEF Other
        <5>3. f.pair.pend = s /\ f.pair.n >= Cardinality(Since(q, P)) BY <4>2, <5>1, <5>2 DEF Holds
        <5>4. Observed(f, r) = Before(f).n + 1 BY <2>1, <5>1, <5>3 DEF Observed
        <5> QED BY <2>7, <2>8, <5>1, <5>3, <5>4
      <4> QED BY <4>1, <4>2
    <3> HIDE DEF o
    <3> QED BY <2>4, <2>5, <2>7, <3>2, <3>3 DEF Holds
  <2>10. CASE ~ (Other(f, r) /\ ~ Confirms(f, r))
    <3>1. Step(f, r) = Settled(r.side = "in") BY <2>10 DEF Step
    <3>2. (r.side = "in") \in BOOLEAN OBVIOUS
    <3>3. Step(f, r).inside = (s = "in") BY <2>1, <3>1, <3>2, SettledIs
    <3> HIDE DEF o
    <3> QED BY <2>4, <2>5, <3>3 DEF Holds
  <2> QED BY <2>9, <2>10
<1> QED BY <1>2, <1>3, <1>4, <1>5

\* The newest fix the engine has seen is a usable one of those taken in.
LEMMA ObserveSeen ==
  ASSUME stream \in Seq(FixType), NEW f \in Run, Short(f.pair), Bools, NEW P,
         NEW i \in 1 .. Len(stream), SeenBy(f, P)
  PROVE  SeenBy(Observe(f, stream[i]), P \cup {i})
<1> DEFINE r == stream[i]
           o == Observe(f, r)
<1> SUFFICES SeenBy(o, P \cup {i}) OBVIOUS
<1>1. r \in FixType BY ElementOfSeq
<1>2. CASE Counts(f, r)
  <2>1. o.seen = r.at BY <1>1, <1>2, ObserveIs DEF Bools
  <2>2. i \in Usable \cap (P \cup {i}) BY <1>2 DEF Counts, Usable
  <2> HIDE DEF o
  <2> QED BY <2>1, <2>2 DEF SeenBy
<1>3. CASE ~ Counts(f, r)
  <2>1. o = f BY <1>1, <1>3, ObserveIs DEF Bools
  <2> QED BY <2>1 DEF SeenBy
<1> QED BY <1>2, <1>3

\* After a batch the engine has the side of the fixes at the end of the stream,
\* or their number as a streak.
LEMMA FeedingHolds ==
  ASSUME stream \in Seq(FixType), NEW e \in Mem, Short(e.pair), Bools, fence,
         NEW a \in Nat, NEW k \in Nat, a + k <= Len(stream),
         NEW fixes \in Seq(FixType), Len(fixes) = k,
         NEW ix \in [1 .. k -> a + 1 .. a + k],
         \A n \in 1 .. k : fixes[n] = stream[ix[n]],
         \A m, n \in 1 .. k : m < n =>
            \/ stream[ix[m]].at < stream[ix[n]].at
            \/ stream[ix[m]].at = stream[ix[n]].at /\ ix[m] < ix[n],
         NEW q \in Nat, NEW s \in Sides, OneSide(q, s, a + k),
         SeenBy(e, 1 .. a), Holds(e, q, s, 1 .. a), NEW n \in 0 .. k
  PROVE  LET Q == (1 .. a) \cup Taken(ix, n) IN
         SeenBy(Feeding(e, fixes)[n], Q) /\ Holds(Feeding(e, fixes)[n], q, s, Q)
<1> DEFINE f == Feeding(e, fixes)
           Q(m) == (1 .. a) \cup {ix[l] : l \in 1 .. m}
           Good == {m \in 0 .. k : SeenBy(f[m], Q(m)) /\ Holds(f[m], q, s, Q(m))}
<1>1. Len(stream) \in Nat /\ \A m \in 1 .. Len(stream) : stream[m] \in FixType /\ stream[m].at \in Nat
  <2>1. \A m \in 1 .. Len(stream) : stream[m] \in FixType BY ElementOfSeq
  <2> QED BY <2>1, LenProperties DEF FixType
<1>2. f[0] = Start(e) /\ \A m \in 1 .. k : f[m] = Observe(f[m - 1], fixes[m])
  <2>1. Len(fixes) \in Nat OBVIOUS
  <2>2. /\ Feeding(e, fixes)[0] = Start(e)
        /\ \A m \in 1 .. Len(fixes) : Feeding(e, fixes)[m] = Observe(Feeding(e, fixes)[m - 1], fixes[m])
    BY ONLY <2>1, FeedingIs
  <2> QED BY <2>2
<1>3. \A m \in 0 .. k : f[m] \in Run /\ Short(f[m].pair) BY FeedingTypes
<1> HIDE DEF f
<1>4. 0 \in Good
  <2>1. Start(e).pair = e.pair /\ Start(e).seen = e.seen BY DEF Start
  <2>2. Q(0) = 1 .. a OBVIOUS
  <2>3. SeenBy(Start(e), Q(0)) /\ Holds(Start(e), q, s, Q(0))
    <3> HIDE DEF Q
    <3> QED BY <2>1, <2>2 DEF SeenBy, Holds
  <2> HIDE DEF Q
  <2> QED BY <1>2, <2>3
<1>5. ASSUME NEW m \in 1 .. k, m - 1 \in Good PROVE m \in Good
  <2> DEFINE i == ix[m]
  <2>1. /\ f[m] = Observe(f[m - 1], stream[i]) /\ m - 1 \in 0 .. k
        /\ SeenBy(f[m - 1], Q(m - 1)) /\ Holds(f[m - 1], q, s, Q(m - 1))
    BY <1>2, <1>5
  <2>2. i \in a + 1 .. a + k /\ i \in 1 .. Len(stream) BY <1>1
  <2>3. f[m - 1] \in Run /\ Short(f[m - 1].pair) BY <1>3, <2>1
  <2>4. Q(m) = Q(m - 1) \cup {i}
    <3>1. 1 .. m = (1 .. m - 1) \cup {m} OBVIOUS
    <3> QED BY <3>1
  <2>5. ASSUME NEW l \in 1 .. m - 1
        PROVE  /\ ix[l] \in a + 1 .. a + k /\ ix[l] \in 1 .. Len(stream) /\ ix[l] # i
               /\ stream[ix[l]].at < stream[i].at \/ (stream[ix[l]].at = stream[i].at /\ ix[l] < i)
    <3>1. l \in 1 .. k /\ l < m OBVIOUS
    <3>2. stream[ix[l]].at < stream[i].at \/ (stream[ix[l]].at = stream[i].at /\ ix[l] < i) BY <3>1
    <3>3. ix[l] \in a + 1 .. a + k /\ ix[l] \in 1 .. Len(stream) BY <1>1, <3>1
    <3> QED BY <1>1, <2>2, <3>2, <3>3
  <2>6. \A j \in Q(m - 1) : j \in 1 .. a \/ \E l \in 1 .. m - 1 : j = ix[l] OBVIOUS
  <2>7. Q(m - 1) \in SUBSET (1 .. Len(stream)) /\ i \notin Q(m - 1) BY <1>1, <2>2, <2>5, <2>6
  <2> HIDE DEF Q
  <2>8. ASSUME i \in Usable, i < q PROVE Since(q, Q(m - 1)) = {}
    <3> SUFFICES ASSUME NEW j \in Since(q, Q(m - 1)) PROVE FALSE OBVIOUS
    <3>1. j \in Usable /\ j \in Q(m - 1) /\ j >= q BY DEF Since
    <3>2. j \in 1 .. Len(stream) BY <2>7, <3>1
    <3>3. j \notin 1 .. a BY <2>2, <2>8, <3>1, <3>2
    <3>4. PICK l \in 1 .. m - 1 : j = ix[l] BY <2>6, <3>1, <3>3
    <3>5. j \in a + 1 .. a + k BY <2>5, <3>4
    <3>6. stream[j].at < stream[i].at \/ (stream[j].at = stream[i].at /\ j < i) BY <2>5, <3>4
    <3>7. j \in Since(q, 1 .. a + k) BY <3>1, <3>2, <3>5 DEF Since
    <3>8. i < j BY <2>2, <2>8, <3>1, <3>2
    <3>9. stream[i].at <= stream[j].at BY <2>8, <3>7, <3>8 DEF OneSide
    <3>10. stream[i].at \in Nat /\ stream[j].at \in Nat BY <1>1, <2>2, <3>2
    <3>11. ~ (j < i) BY <2>2, <3>2, <3>8
    <3>12. ~ (stream[j].at < stream[i].at) BY <3>9, <3>10, SMTT(30)
    <3> QED BY <3>6, <3>11, <3>12
  <2>9. ASSUME i \in Usable, i >= q
        PROVE  stream[i].side = s /\ \A j \in Usable \cap Q(m - 1) : stream[j].at <= stream[i].at
    <3>1. i \in Since(q, 1 .. a + k) BY <2>2, <2>9 DEF Since
    <3>2. ASSUME NEW j \in Usable \cap Q(m - 1) PROVE stream[j].at <= stream[i].at
      <4>1. CASE j \in 1 .. a
        <5>1. j < i BY <2>2, <4>1
        <5> QED BY <3>1, <3>2, <5>1 DEF OneSide
      <4>2. CASE j \notin 1 .. a
        <5>1. PICK l \in 1 .. m - 1 : j = ix[l] BY <2>6, <3>2, <4>2
        <5>2. stream[j].at < stream[i].at \/ stream[j].at = stream[i].at BY <2>5, <5>1
        <5>3. stream[i].at \in Nat /\ stream[j].at \in Nat BY <1>1, <2>2, <2>5, <5>1
        <5> QED BY <5>2, <5>3, SMTT(30)
      <4> QED BY <4>1, <4>2
    <3> QED BY <3>1, <3>2 DEF OneSide
  <2> HIDE DEF i
  <2>10. SeenBy(f[m], Q(m))
    <3>1. SeenBy(Observe(f[m - 1], stream[i]), Q(m - 1) \cup {i}) BY <2>1, <2>2, <2>3, ObserveSeen
    <3> QED BY <2>1, <2>4, <3>1
  <2>11. Holds(f[m], q, s, Q(m))
    <3>1. Holds(Observe(f[m - 1], stream[i]), q, s, Q(m - 1) \cup {i})
      BY <2>1, <2>2, <2>3, <2>7, <2>8, <2>9, ObserveHolds
    <3> QED BY <2>1, <2>4, <3>1
  <2> QED BY <2>10, <2>11
<1>6. n \in Good
  <2> HIDE DEF Good
  <2> QED BY <1>4, <1>5, Climb
<1> QED BY <1>6 DEF f, Taken

-----------------------------------------------------------------------------
(* The rows of the events table, and how they are closed.                  *)

\* A row of the events table.
Row == [side : Sides, at : Nat, ended : Nat]

\* Two tables that differ in the ends only.
SameRows(t, u) ==
  /\ Len(t) = Len(u)
  /\ \A i \in 1 .. Len(u) : t[i].side = u[i].side /\ t[i].at = u[i].at

\* A crossing that ends a row takes away none and moves none.
LEMMA EndsIs ==
  ASSUME NEW t \in Seq(Row), NEW c \in Crossing
  PROVE  Ends(t, c) \in Seq(Row) /\ SameRows(Ends(t, c), t)
<1> DEFINE open == {i \in 1 .. Len(t) : t[i].side # c.side /\ t[i].ended = 0 /\ t[i].at < c.at}
           j == Latest(t, open)
<1>1. CASE open = {}
  <2>1. Ends(t, c) = t BY <1>1 DEF Ends
  <2> QED BY <2>1 DEF SameRows
<1>2. CASE open # {}
  <2>1. Ends(t, c) = [t EXCEPT ![j].ended = c.at] BY <1>2 DEF Ends
  <2> HIDE DEF open, j
  <2>2. Len(t) \in Nat /\ t \in [1 .. Len(t) -> Row] BY LenProperties
  <2>3. \A i \in 1 .. Len(t) : [t[i] EXCEPT !.ended = c.at] =
           [side |-> t[i].side, at |-> t[i].at, ended |-> c.at]
    BY <2>2 DEF Row
  <2>4. Ends(t, c) = [i \in 1 .. Len(t) |-> IF i = j THEN [side |-> t[i].side, at |-> t[i].at, ended |-> c.at]
                                            ELSE t[i]]
    BY <2>1, <2>2, <2>3
  <2>5. Ends(t, c) \in [1 .. Len(t) -> Row] BY <2>2, <2>4 DEF Row, Crossing
  <2>6. Ends(t, c) \in Seq(Row) /\ Len(Ends(t, c)) = Len(t) BY <2>2, <2>5, SeqDef
  <2>7. \A i \in 1 .. Len(t) : Ends(t, c)[i].side = t[i].side /\ Ends(t, c)[i].at = t[i].at
    BY <2>4
  <2> QED BY <2>6, <2>7 DEF SameRows
<1> QED BY <1>1, <1>2

\* The rows are in the order of time, and every other is an enter.
InTurn(t) ==
  /\ \A i \in 1 .. Len(t) : \A j \in 1 .. i - 1 : t[j].at < t[i].at
  /\ \A i \in 1 .. Len(t) - 1 : t[i].side # t[i + 1].side

\* A row that has ended ends with the next one.
Linked(t) ==
  \A i \in 1 .. Len(t) : t[i].ended # 0 => i < Len(t) /\ t[i].ended = t[i + 1].at

\* In such a table a crossing that has its row ends the row before it.
LEMMA EndsBefore ==
  ASSUME NEW t \in Seq(Row), NEW c \in Crossing, NEW k \in 1 .. Len(t), InTurn(t),
         c.side = t[k].side, c.at = t[k].at, k > 1 => t[k - 1].ended = 0
  PROVE  \A i \in 1 .. Len(t) : Ends(t, c)[i].ended = IF i = k - 1 THEN c.at ELSE t[i].ended
<1> DEFINE open == {i \in 1 .. Len(t) : t[i].side # c.side /\ t[i].ended = 0 /\ t[i].at < c.at}
           j == Latest(t, open)
<1>1. Len(t) \in Nat /\ t \in [1 .. Len(t) -> Row] BY LenProperties
<1>2. \A i \in 1 .. Len(t) : t[i] \in Row /\ t[i].at \in Nat BY <1>1 DEF Row
<1>3. \A i \in 1 .. Len(t) : t[i].at < t[k].at => i \in 1 .. k - 1
  <2> SUFFICES ASSUME NEW i \in 1 .. Len(t), t[i].at < t[k].at, ~ (i \in 1 .. k - 1) PROVE FALSE OBVIOUS
  <2>1. i = k \/ k \in 1 .. i - 1 BY <1>1
  <2>2. i = k \/ t[k].at < t[i].at BY <2>1 DEF InTurn
  <2> QED BY <1>2, <2>2
<1>4. CASE k = 1
  <2>1. open = {} BY <1>3, <1>4
  <2>2. Ends(t, c) = t BY <2>1 DEF Ends
  <2> QED BY <1>1, <1>4, <2>2
<1>5. CASE k # 1
  <2>1. k - 1 \in 1 .. Len(t) /\ k - 1 \in 1 .. k - 1 /\ k - 1 \in 1 .. Len(t) - 1 /\ (k - 1) + 1 = k /\ k > 1
    BY <1>1, <1>5
  <2>2. t[k - 1].at < t[k].at BY <2>1 DEF InTurn
  <2>3. t[k - 1].side # t[k].side BY <2>1 DEF InTurn
  <2>4. t[k - 1].ended = 0 BY <2>1
  <2>5. k - 1 \in open BY <2>1, <2>2, <2>3, <2>4
  <2>6. \A l \in open : l \in 1 .. Len(t) /\ l \in 1 .. k - 1 BY <1>3
  <2>7. \A l \in open : l # k - 1 => t[l].at < t[k - 1].at
    <3> SUFFICES ASSUME NEW l \in open, l # k - 1 PROVE t[l].at < t[k - 1].at OBVIOUS
    <3>1. l \in 1 .. (k - 1) - 1 BY <2>1, <2>6
    <3> QED BY <2>1, <3>1 DEF InTurn
  <2>8. Ends(t, c) = [t EXCEPT ![j].ended = c.at] BY <2>5 DEF Ends
  <2> HIDE DEF open
  <2>9. j = k - 1
    <3>1. \A l \in open : t[k - 1].at >= t[l].at BY <1>2, <2>1, <2>6, <2>7
    <3>2. \E m \in open : \A l \in open : t[m].at >= t[l].at BY <2>5, <3>1
    <3>3. j \in open /\ \A l \in open : t[j].at >= t[l].at BY <3>2 DEF Latest
    <3> HIDE DEF j
    <3>4. t[j].at >= t[k - 1].at BY <2>5, <3>3
    <3> QED BY <1>2, <2>1, <2>6, <2>7, <3>3, <3>4
  <2>10. Ends(t, c) = [t EXCEPT ![k - 1].ended = c.at] BY <2>8, <2>9
  <2>11. [t[k - 1] EXCEPT !.ended = c.at].ended = c.at BY <1>2, <2>1 DEF Row
  <2> QED BY <1>1, <2>1, <2>10, <2>11
<1> QED BY <1>4, <1>5

\* The close takes away no row and moves none.
LEMMA ClosingIsSame ==
  ASSUME NEW t \in Seq(Row), NEW list \in Seq(Crossing), NEW n \in 0 .. Len(list)
  PROVE  Closing(t, list)[n] \in Seq(Row) /\ SameRows(Closing(t, list)[n], t)
<1> DEFINE u == Closing(t, list)
           Good == {m \in 0 .. Len(list) : u[m] \in Seq(Row) /\ SameRows(u[m], t)}
<1>1. Len(list) \in Nat /\ \A m \in 1 .. Len(list) : list[m] \in Crossing BY ElementOfSeq, LenProperties
<1>2. u[0] = t /\ \A m \in 1 .. Len(list) : u[m] = Ends(u[m - 1], list[m]) BY <1>1, ClosingIs
<1> HIDE DEF u
<1>3. 0 \in Good BY <1>1, <1>2 DEF SameRows
<1>4. ASSUME NEW m \in 1 .. Len(list), m - 1 \in Good PROVE m \in Good
  <2>1. u[m] = Ends(u[m - 1], list[m]) /\ u[m - 1] \in Seq(Row) /\ SameRows(u[m - 1], t) BY <1>2, <1>4
  <2>2. u[m] \in Seq(Row) /\ SameRows(u[m], u[m - 1]) BY <1>1, <2>1, EndsIs
  <2>3. SameRows(u[m], t) BY <2>1, <2>2 DEF SameRows
  <2> QED BY <1>1, <2>2, <2>3
<1>5. n \in Good
  <2> HIDE DEF Good
  <2> QED BY <1>1, <1>3, <1>4, Climb
<1> QED BY <1>5 DEF u

\* The close of the rows at the end of the table leaves each row before one of
\* them ended by it.
LEMMA ClosingLinks ==
  ASSUME NEW t \in Seq(Row), NEW list \in Seq(Crossing), NEW base \in Nat, Len(t) = base + Len(list),
         InTurn(t), Linked(t),
         \A m \in 1 .. Len(list) : list[m].side = t[base + m].side /\ list[m].at = t[base + m].at,
         \A i \in 1 .. Len(t) : i >= base => t[i].ended = 0, NEW n \in 0 .. Len(list)
  PROVE  Linked(Closing(t, list)[n])
<1> DEFINE u == Closing(t, list)
           Good == {m \in 0 .. Len(list) :
                      Linked(u[m]) /\ \A i \in 1 .. Len(t) : i >= base + m => u[m][i].ended = 0}
<1>1. Len(list) \in Nat /\ \A m \in 1 .. Len(list) : list[m] \in Crossing BY ElementOfSeq, LenProperties
<1>2. u[0] = t /\ \A m \in 1 .. Len(list) : u[m] = Ends(u[m - 1], list[m]) BY <1>1, ClosingIs
<1>3. \A m \in 0 .. Len(list) : u[m] \in Seq(Row) /\ SameRows(u[m], t) BY ClosingIsSame
<1>4. Len(t) \in Nat /\ base + 0 = base BY LenProperties
<1> HIDE DEF u
<1>5. 0 \in Good BY <1>1, <1>2, <1>4
<1>6. ASSUME NEW m \in 1 .. Len(list), m - 1 \in Good PROVE m \in Good
  <2> DEFINE v == u[m - 1]
             k == base + m
  <2>1. /\ u[m] = Ends(v, list[m]) /\ Linked(v) /\ m - 1 \in 0 .. Len(list)
        /\ \A i \in 1 .. Len(t) : i >= base + (m - 1) => v[i].ended = 0
    BY <1>2, <1>6
  <2>2. v \in Seq(Row) /\ Len(v) = Len(t)
        /\ \A i \in 1 .. Len(t) : v[i].side = t[i].side /\ v[i].at = t[i].at
    BY <1>3, <2>1 DEF SameRows
  <2>3. u[m] \in Seq(Row) /\ Len(u[m]) = Len(t)
        /\ \A i \in 1 .. Len(t) : u[m][i].at = t[i].at
    <3>1. m \in 0 .. Len(list) BY <1>1
    <3> QED BY <1>3, <3>1 DEF SameRows
  <2> HIDE DEF v
  <2>4. k \in 1 .. Len(t) /\ k \in Nat BY <1>1, <1>4
  <2>5. InTurn(v)
    <3>1. \A i \in 1 .. Len(t) : \A j \in 1 .. i - 1 : j \in 1 .. Len(t) BY <1>4
    <3>2. \A i \in 1 .. Len(t) - 1 : i \in 1 .. Len(t) /\ i + 1 \in 1 .. Len(t) BY <1>4
    <3> QED BY <2>2, <3>1, <3>2 DEF InTurn
  <2>6. list[m].side = v[k].side /\ list[m].at = v[k].at /\ list[m].at = t[k].at BY <2>2, <2>4
  <2>7. k > 1 => v[k - 1].ended = 0
    <3> SUFFICES ASSUME k > 1 PROVE v[k - 1].ended = 0 OBVIOUS
    <3>1. k - 1 \in 1 .. Len(t) /\ k - 1 >= base + (m - 1) BY <1>1, <1>4, <2>4
    <3> QED BY <2>1, <3>1
  <2> HIDE DEF k
  <2>8. \A i \in 1 .. Len(t) : u[m][i].ended = IF i = k - 1 THEN t[k].at ELSE v[i].ended
    <3>1. \A i \in 1 .. Len(v) : Ends(v, list[m])[i].ended = IF i = k - 1 THEN list[m].at ELSE v[i].ended
      BY <1>1, <2>2, <2>4, <2>5, <2>6, <2>7, EndsBefore
    <3> QED BY <2>1, <2>2, <2>6, <3>1
  <2>9. Linked(u[m])
    <3> SUFFICES ASSUME NEW i \in 1 .. Len(u[m]), u[m][i].ended # 0
                 PROVE  i < Len(u[m]) /\ u[m][i].ended = u[m][i + 1].at
      BY DEF Linked
    <3>0. i \in 1 .. Len(t) BY <2>3
    <3> SUFFICES i < Len(t) /\ u[m][i].ended = t[i + 1].at
      <4>1. i < Len(t) => i + 1 \in 1 .. Len(t) BY <1>4, <3>0
      <4> QED BY <2>3, <4>1
    <3>1. CASE i = k - 1
      <4>1. i + 1 = k /\ i < Len(t) BY <1>4, <2>4, <3>1
      <4> QED BY <2>8, <3>0, <3>1, <4>1
    <3>2. CASE i # k - 1
      <4>1. v[i].ended # 0 /\ u[m][i].ended = v[i].ended BY <2>8, <3>0, <3>2
      <4>2. i < Len(t) /\ v[i].ended = v[i + 1].at BY <2>1, <2>2, <3>0, <4>1 DEF Linked
      <4>3. i + 1 \in 1 .. Len(t) BY <1>4, <3>0, <4>2
      <4> QED BY <2>2, <4>1, <4>2, <4>3
    <3> QED BY <3>1, <3>2
  <2>10. ASSUME NEW i \in 1 .. Len(t), i >= base + m PROVE u[m][i].ended = 0
    <3>1. i # k - 1 /\ i >= base + (m - 1) BY <1>4, <2>10 DEF k
    <3> QED BY <2>1, <2>8, <3>1
  <2> QED BY <1>1, <2>9, <2>10
<1>7. n \in Good
  <2> HIDE DEF Good
  <2> QED BY <1>1, <1>5, <1>6, Climb
<1> QED BY <1>7 DEF u

-----------------------------------------------------------------------------
(* The inductive invariant.                                                *)

\* Fixes are at their place in the stream plus Lag, or Lag earlier.
StreamInv ==
  \A i \in 1 .. Len(stream) :
    stream[i].at \in {i, i + Lag} /\ (Never({"odd"}) => stream[i].at = i + Lag)

\* What the stages are for.
StageInv ==
  /\ stage # "idle" => acked < batch.to
  /\ stage \in {"claim", "insert"} => batch.out # <<>>
  /\ stage = "claim" => batch.mine = {}
  /\ stage \in {"insert", "close", "save"} => batch.fresh # <<>>
TInv == TypeOK /\ StreamInv /\ StageInv

\* The last fix that the owner's engine has taken in.
End == IF stage = "idle" THEN acked ELSE batch.to

\* A fence that nobody edits is there, and a worker that has not had the shard
\* knows nothing.
OwnInv ==
  /\ Never({"edit"}) => fence
  /\ Never({"handoff", "crash"}) => \A w \in Workers : w # owner => engine[w] = Unseen

\* The key under which a row was claimed.
Key(r) == [side |-> r.side, at |-> r.at]

\* Rows have their claims, and what was claimed to be written has no row yet, so
\* that a failed insert releases claims without rows only.
RowsInv ==
  Never({"loss"}) =>
    /\ \A i, j \in 1 .. Len(events) : Key(events[i]) = Key(events[j]) => i = j
    /\ \A i \in 1 .. Len(events) : Key(events[i]) \in claims
    /\ stage = "insert" =>
         /\ batch.mine = ToSet(batch.fresh) /\ batch.mine \subseteq claims
         /\ \A i, j \in 1 .. Len(batch.fresh) : batch.fresh[i] = batch.fresh[j] => i = j
         /\ \A i \in 1 .. Len(events) : Key(events[i]) \notin batch.mine

\* The instant of the last row, and of the last crossing found.
Base == LastAt(events, 0)
Found == IF stage \in {"claim", "insert"} THEN LastAt(batch.out, Base) ELSE Base
Reach == IF stage \in {"idle", "claim", "insert"} THEN acked ELSE batch.to

\* Rows are written in the order of time, and every crossing that is found is
\* later than all of them: no claim of an earlier one is in its way.
Quiet == Never({"crash"}) /\ (Never({"handoff"}) \/ Never({"odd"}))
Timed ==
  /\ Rising(events, 0, Reach + Lag)
  /\ \A c \in claims : c.at <= Base \/ (stage = "insert" /\ c \in batch.mine)
  /\ stage = "insert" => batch.mine \subseteq ToSet(batch.fresh)
  /\ stage \in {"claim", "insert"} => Rising(batch.out, Base, batch.to + Lag)
  /\ stage \in {"insert", "close", "save"} => batch.fresh = batch.out
  /\ Never({"handoff"}) => Ahead(Found, engine[owner], 1 .. End)
TimesInv == Quiet => Timed

\* The engine is on the side of the last row, or of the last crossing found that
\* is to be one, and so is the marker.
Inside(side) == side = "in"
Sided ==
  /\ \A i \in 1 .. Len(events) - 1 : events[i].side # events[i + 1].side
  /\ stage \in {"idle", "ack"} => Before(engine[owner]).inside = RecordedInside
  /\ stage \in {"claim", "insert"} =>
       /\ Alternates(batch.out, RecordedInside) /\ engine[owner].pair # None
       /\ engine[owner].pair.inside = Inside(batch.out[Len(batch.out)].side)
  /\ stage \in {"close", "save"} =>
       /\ RecordedInside = Inside(batch.fresh[Len(batch.fresh)].side)
       /\ engine[owner].pair # None /\ engine[owner].pair.inside = RecordedInside
  /\ Undisturbed /\ stage \notin {"close", "save"} => marker = RecordedInside
SideInv == Steady => Sided

\* A row ends with the next one, and the rows just written are the last.
Ended ==
  /\ Linked(events)
  /\ stage = "close" =>
       \E b \in Nat :
         /\ Len(events) = b + Len(batch.fresh)
         /\ \A m \in 1 .. Len(batch.fresh) : batch.fresh[m] = Key(events[b + m])
         /\ \A i \in 1 .. Len(events) : i >= b => events[i].ended = 0
LinkInv == Steady => Ended

\* The engine has the side of the last usable fixes, or their number as a streak.
Trailed ==
  /\ SeenBy(engine[owner], 1 .. End)
  /\ \A q \in 1 .. Len(stream), s \in Sides :
       OneSide(q, s, End) => Holds(engine[owner], q, s, 1 .. End)
TrailInv == Never({"fail", "edit", "handoff", "crash"}) => Trailed

\* The inductive invariant.
GInv == TInv /\ OwnInv /\ RowsInv /\ TimesInv /\ SideInv /\ LinkInv /\ TrailInv

-----------------------------------------------------------------------------
(* The faults so far.                                                      *)

\* A fault takes one from its budget and none from the others.
LEMMA SpendIs ==
  ASSUME spent \in [Faults -> Nat], NEW k \in Faults, Spend(k)
  PROVE  /\ spent' \in [Faults -> Nat] /\ spent'[k] = spent[k] + 1
         /\ \A j \in Faults : j # k => spent'[j] = spent[j]
BY DEF Spend

\* Budgets are not refunded.
LEMMA NeverBack ==
  ASSUME spent \in [Faults -> Nat], [Next]_vars
  PROVE  spent' \in [Faults -> Nat] /\ \A j \in Faults : spent[j] <= spent'[j]
<1>1. ASSUME NEW k \in Faults, Spend(k) PROVE spent' \in [Faults -> Nat] /\ \A j \in Faults : spent[j] <= spent'[j]
  <2>1. /\ spent' \in [Faults -> Nat] /\ spent'[k] = spent[k] + 1
        /\ \A j \in Faults : j # k => spent'[j] = spent[j]
    BY <1>1, SpendIs
  <2> QED BY <2>1
<1>2. UNCHANGED spent \/ \E k \in Faults : Spend(k)
  <2>1. {"odd", "fail", "loss", "edit", "handoff", "crash"} \subseteq Faults BY DEF Faults
  <2>2. CASE Fix BY <2>1, <2>2 DEF Fix
  <2>3. CASE Edit \/ Handoff \/ Crash \/ ClaimLost \/ InsertFails
    BY <2>1, <2>3 DEF Edit, Handoff, Crash, ClaimLost, InsertFails
  <2>4. CASE Feed \/ Claim \/ Insert \/ Ack \/ UNCHANGED vars
    BY <2>4 DEF Feed, Claim, Insert, Ack, vars
  <2>5. CASE Close \/ Save BY <2>1, <2>5 DEF Close, Save
  <2> QED BY <2>2, <2>3, <2>4, <2>5 DEF Next
<1>3. CASE UNCHANGED spent BY <1>3
<1> QED BY <1>1, <1>2, <1>3

\* So a condition that holds after a step held before it.
LEMMA CalmBack ==
  ASSUME spent \in [Faults -> Nat], [Next]_vars
  PROVE  /\ \A K \in SUBSET Faults : Never(K)' => Never(K)
         /\ Quiet' => Quiet
         /\ Undisturbed' => Undisturbed
         /\ Steady' => Steady
         /\ Steady => Quiet
<1>1. spent' \in [Faults -> Nat] /\ \A j \in Faults : spent[j] <= spent'[j] BY NeverBack
<1>2. ASSUME NEW j \in Faults PROVE spent'[j] = 0 => spent[j] = 0
  <2>1. spent[j] \in Nat /\ spent'[j] \in Nat /\ spent[j] <= spent'[j] BY <1>1
  <2> QED BY <2>1
<1>3. \A K \in SUBSET Faults : Never(K)' => Never(K) BY <1>2 DEF Never
<1>4. /\ {"odd"} \in SUBSET Faults /\ {"crash"} \in SUBSET Faults /\ {"handoff"} \in SUBSET Faults
      /\ {"loss", "crash"} \in SUBSET Faults /\ {"handoff", "edit", "crash"} \in SUBSET Faults
      /\ "handoff" \in Faults
  BY DEF Faults
<1>5. Quiet' => Quiet BY <1>3, <1>4 DEF Quiet
<1>6. spent'["handoff"] <= 1 => spent["handoff"] <= 1
  <2>1. spent["handoff"] \in Nat /\ spent'["handoff"] \in Nat /\ spent["handoff"] <= spent'["handoff"]
    BY <1>1, <1>4
  <2> QED BY <2>1
<1>7. Undisturbed' => Undisturbed BY <1>3, <1>4, <1>6 DEF Undisturbed
<1>8. Steady' => Steady BY <1>3, <1>4, <1>7 DEF Steady
<1>9. Steady => Quiet BY DEF Steady, Undisturbed, Quiet, Never
<1> QED BY <1>3, <1>5, <1>7, <1>8, <1>9

-----------------------------------------------------------------------------
(* Types.                                                                  *)

\* The parts of TypeOK, one by one.
LEMMA Types ==
  ASSUME TInv
  PROVE  /\ stream \in Seq(FixType) /\ Len(stream) \in Nat /\ acked \in Nat /\ acked <= Len(stream)
         /\ Bools /\ owner \in Workers /\ spent \in [Faults -> Nat]
         /\ engine \in [Workers -> Mem] /\ engine[owner] \in Mem /\ Short(engine[owner].pair)
         /\ \A w \in Workers : Short(engine[w].pair)
         /\ batch \in [to : Nat, out : Seq(Crossing), fresh : Seq(Crossing), mine : SUBSET Crossing]
         /\ batch.to \in Nat /\ batch.to <= Len(stream)
         /\ batch.out \in Seq(Crossing) /\ batch.fresh \in Seq(Crossing) /\ batch.mine \subseteq Crossing
         /\ claims \subseteq Crossing /\ events \in Seq(Row) /\ Len(events) \in Nat
<1>1. /\ stream \in Seq(FixType) /\ acked \in 0 .. Len(stream) /\ Bools /\ owner \in Workers
      /\ spent \in [Faults -> Nat] /\ engine \in [Workers -> Mem] /\ claims \subseteq Crossing
      /\ events \in Seq(Row)
      /\ batch \in [to : 0 .. Len(stream), out : Seq(Crossing), fresh : Seq(Crossing), mine : SUBSET Crossing]
  BY DEF TInv, TypeOK, Bools, Mem, Row
<1>2. Len(stream) \in Nat /\ Len(events) \in Nat BY <1>1, LenProperties
<1>3. \A w \in Workers : Short(engine[w].pair) BY DEF TInv, TypeOK, Short
<1>4. /\ batch.to \in 0 .. Len(stream) /\ batch.out \in Seq(Crossing) /\ batch.fresh \in Seq(Crossing)
      /\ batch.mine \subseteq Crossing
      /\ batch \in [to : Nat, out : Seq(Crossing), fresh : Seq(Crossing), mine : SUBSET Crossing]
  BY <1>1, <1>2
<1> QED BY <1>1, <1>2, <1>3, <1>4

\* What Feed does, in terms of the engine after the last fix of the batch.
FeedDoes(k, r) ==
  /\ k \in Nat /\ k > 0 /\ acked + k <= Len(stream)
  /\ r = Feeding(engine[owner], Due(k))[k] /\ r \in Run /\ Short(r.pair)
  /\ engine' = [engine EXCEPT ![owner] = [seen |-> r.seen, pair |-> IF r.any /\ ~fence THEN None ELSE r.pair]]
  /\ batch' = [to |-> acked + k, out |-> r.out, fresh |-> <<>>, mine |-> {}]
  /\ stage = "idle" /\ stage' = IF r.out = <<>> THEN "ack" ELSE "claim"
  /\ UNCHANGED <<stream, acked, fence, owner, claims, marker, events, spent>>

\* Every Feed is of that form.
LEMMA FeedIs == ASSUME TInv, Feed PROVE \E k, r : FeedDoes(k, r)
<1>1. PICK k \in 1 .. BatchSize :
        /\ acked + k <= Len(stream)
        /\ LET f == Fed(engine[owner], ByTime(SubSeq(stream, acked + 1, acked + k))) IN
             /\ engine' = [engine EXCEPT ![owner] = [seen |-> f.seen, pair |-> f.pair]]
             /\ batch' = [to |-> acked + k, out |-> f.out, fresh |-> <<>>, mine |-> {}]
             /\ stage' = IF f.out = <<>> THEN "ack" ELSE "claim"
  BY DEF Feed
<1> DEFINE r == Feeding(engine[owner], Due(k))[k]
<1>2. k \in Nat /\ k > 0 BY GeofenceAssumption
<1>3. Due(k) \in Seq(FixType) /\ Len(Due(k)) = k BY <1>1, <1>2, Types, DueIs
<1>4. r \in Run /\ Short(r.pair) BY <1>2, <1>3, Types, FeedingTypes
<1>5. Fed(engine[owner], Due(k)) =
        [seen |-> r.seen, pair |-> IF r.any /\ ~fence THEN None ELSE r.pair, out |-> r.out]
  BY <1>3 DEF Fed
<1> HIDE DEF r
<1>6. LET f == Fed(engine[owner], Due(k)) IN
        /\ engine' = [engine EXCEPT ![owner] = [seen |-> f.seen, pair |-> f.pair]]
        /\ batch' = [to |-> acked + k, out |-> f.out, fresh |-> <<>>, mine |-> {}]
        /\ stage' = IF f.out = <<>> THEN "ack" ELSE "claim"
  BY <1>1 DEF Due
<1>7. /\ engine' = [engine EXCEPT ![owner] = [seen |-> r.seen, pair |-> IF r.any /\ ~fence THEN None ELSE r.pair]]
      /\ batch' = [to |-> acked + k, out |-> r.out, fresh |-> <<>>, mine |-> {}]
      /\ stage' = IF r.out = <<>> THEN "ack" ELSE "claim"
  BY <1>5, <1>6
<1>8. r = Feeding(engine[owner], Due(k))[k] BY DEF r
<1>9. stage = "idle" /\ UNCHANGED <<stream, acked, fence, owner, claims, marker, events, spent>> BY DEF Feed
<1>10. FeedDoes(k, r) BY <1>1, <1>2, <1>4, <1>7, <1>8, <1>9 DEF FeedDoes
<1> QED BY <1>10

\* And it leaves an engine and a batch.
LEMMA FeedTypes ==
  ASSUME TInv, NEW k, NEW r, FeedDoes(k, r)
  PROVE  /\ engine' \in [Workers -> Mem] /\ \A w \in Workers : Short(engine'[w].pair)
         /\ engine'[owner] = [seen |-> r.seen, pair |-> IF r.any /\ ~fence THEN None ELSE r.pair]
         /\ \A w \in Workers : w # owner => engine'[w] = engine[w]
         /\ batch'.to = acked + k /\ batch'.out = r.out /\ r.out \in Seq(Crossing)
         /\ batch' \in [to : 0 .. Len(stream), out : Seq(Crossing), fresh : Seq(Crossing), mine : SUBSET Crossing]
<1> DEFINE e == [seen |-> r.seen, pair |-> IF r.any /\ ~fence THEN None ELSE r.pair]
<1>1. r.seen \in Nat /\ r.pair \in Pair \cup {None} /\ r.out \in Seq(Crossing) BY DEF FeedDoes, Run
<1>2. e \in Mem BY <1>1 DEF Mem
<1>3. Short(e.pair) BY DEF FeedDoes, Short
<1>4. engine' = [engine EXCEPT ![owner] = e] BY DEF FeedDoes
<1> HIDE DEF e
<1>5. engine' \in [Workers -> Mem] /\ engine'[owner] = e /\ \A w \in Workers : w # owner => engine'[w] = engine[w]
  BY <1>2, <1>4, Types
<1>6. \A w \in Workers : Short(engine'[w].pair) BY <1>3, <1>5, Types
<1>7. <<>> \in Seq(Crossing) BY EmptySeq
<1>8. acked + k \in 0 .. Len(stream) BY Types DEF FeedDoes
<1>9. batch' \in [to : 0 .. Len(stream), out : Seq(Crossing), fresh : Seq(Crossing), mine : SUBSET Crossing]
      /\ batch'.to = acked + k /\ batch'.out = r.out
  BY <1>1, <1>7, <1>8 DEF FeedDoes
<1> QED BY <1>1, <1>5, <1>6, <1>9 DEF e

\* The elements of a list.
LEMMA ToSetIs ==
  ASSUME NEW S, NEW list \in Seq(S)
  PROVE  ToSet(list) \subseteq S /\ \A x : x \in ToSet(list) <=> \E i \in 1 .. Len(list) : x = list[i]
<1>1. DOMAIN list = 1 .. Len(list) /\ \A i \in 1 .. Len(list) : list[i] \in S BY LenProperties, ElementOfSeq
<1> QED BY <1>1 DEF ToSet

\* SET NX lets each transition through once, if it has no claim.
LEMMA FreshIs ==
  ASSUME TInv
  PROVE  /\ Fresh \in Seq(Crossing) /\ Len(Fresh) \in Nat
         /\ ToSet(Fresh) \subseteq Crossing
         /\ \A i \in 1 .. Len(Fresh) : Fresh[i] \notin claims
         /\ \A i, j \in 1 .. Len(Fresh) : Fresh[i] = Fresh[j] => i = j
<1> DEFINE out == batch.out
           I == Unclaimed
<1>1. out \in Seq(Crossing) /\ Len(out) \in Nat BY Types, LenProperties
<1>2. I \in SUBSET (1 .. Len(out)) BY DEF Unclaimed
<1>3. PICK g \in [1 .. Len(At(out, I)) -> I] :
        /\ \A k \in 1 .. Len(At(out, I)) : At(out, I)[k] = out[g[k]]
        /\ \A k, l \in 1 .. Len(At(out, I)) : k < l => g[k] < g[l]
  BY <1>1, <1>2, AtThins
<1>4. At(out, I) \in Seq(Crossing) BY <1>1, <1>2, AtThins
<1>5. Fresh = At(out, I) BY DEF Fresh
<1> HIDE DEF I, out
<1>6. Fresh \in Seq(Crossing) /\ Len(Fresh) \in Nat BY <1>4, <1>5, LenProperties
<1>7. \A k \in 1 .. Len(Fresh) : Fresh[k] = out[g[k]] /\ g[k] \in I /\ g[k] \in 1 .. Len(out)
  BY <1>2, <1>3, <1>5
<1>8. \A i \in I : out[i] \notin claims /\ \A j \in 1 .. i - 1 : out[j] # out[i] BY DEF I, out, Unclaimed
<1>9. ASSUME NEW i \in 1 .. Len(Fresh), NEW j \in 1 .. Len(Fresh), Fresh[i] = Fresh[j], i < j PROVE FALSE
  <2>1. g[i] < g[j] BY <1>3, <1>5, <1>9
  <2>2. g[i] \in 1 .. g[j] - 1 BY <1>1, <1>7, <2>1
  <2> QED BY <1>7, <1>8, <1>9, <2>2
<1>10. \A i, j \in 1 .. Len(Fresh) : Fresh[i] = Fresh[j] => i = j BY <1>6, <1>9
<1>11. \A i \in 1 .. Len(Fresh) : Fresh[i] \notin claims BY <1>7, <1>8
<1>12. ToSet(Fresh) \subseteq Crossing BY <1>6, ToSetIs
<1> QED BY <1>6, <1>10, <1>11, <1>12

\* Transitions that have no claim, each at its own instant, all go through.
LEMMA FreshIsAll ==
  ASSUME TInv, \A i \in 1 .. Len(batch.out) :
                 batch.out[i] \notin claims /\ \A j \in 1 .. i - 1 : batch.out[j] # batch.out[i]
  PROVE  Fresh = batch.out
<1> DEFINE out == batch.out
           n == Len(out)
<1>1. out \in Seq(Crossing) /\ n \in Nat /\ out = [k \in 1 .. n |-> out[k]] BY Types, LenProperties
<1>2. Unclaimed = 1 .. n BY DEF Unclaimed
<1> HIDE DEF n
<1>3. IsFiniteSet(1 .. n) /\ Cardinality(1 .. n) = n /\ 1 .. n \in SUBSET Nat BY <1>1, FS_Interval
<1>4. ASSUME NEW k \in 1 .. n PROVE Nth(1 .. n, k) = k
  <2>1. PICK i : i = Nth(1 .. n, k) OBVIOUS
  <2>2. i \in 1 .. n /\ Cardinality(UpTo(1 .. n, i)) = k BY <1>3, <2>1, NthIs
  <2>3. UpTo(1 .. n, i) = 1 .. i BY <1>1, <2>2 DEF UpTo
  <2>4. Cardinality(1 .. i) = i BY <2>2, FS_Interval
  <2> QED BY <2>1, <2>2, <2>3, <2>4
<1>5. At(out, 1 .. n) = [k \in 1 .. n |-> out[k]]
  <2>1. At(out, 1 .. n) = [k \in 1 .. n |-> out[Nth(1 .. n, k)]] BY <1>3 DEF At
  <2> QED BY <1>4, <2>1
<1> QED BY <1>1, <1>2, <1>5 DEF Fresh

\* rollback leaves a pair.
LEMMA RolledIs ==
  ASSUME NEW p \in Pair \cup {None}, Short(p), NEW out
  PROVE  Rolled(p, out) \in Pair \cup {None} /\ Short(Rolled(p, out))
<1>1. (Head(out).side = "out") \in BOOLEAN OBVIOUS
<1>2. Settled(Head(out).side = "out") \in Pair /\ Short(Settled(Head(out).side = "out")) BY <1>1, SettledIs
<1> QED BY <1>2 DEF Rolled

\* The rows that an insert adds.
NewRows == [i \in 1 .. Len(batch.fresh) |->
              [side |-> batch.fresh[i].side, at |-> batch.fresh[i].at, ended |-> 0]]
LEMMA InsertIs ==
  ASSUME TInv
  PROVE  /\ NewRows \in Seq(Row) /\ Len(NewRows) = Len(batch.fresh) /\ Len(batch.fresh) \in Nat
         /\ events \o NewRows \in Seq(Row)
         /\ Len(events \o NewRows) = Len(events) + Len(batch.fresh)
         /\ \A i \in 1 .. Len(events) : (events \o NewRows)[i] = events[i]
         /\ \A m \in 1 .. Len(batch.fresh) :
              LET r == (events \o NewRows)[Len(events) + m] IN
              Key(r) = batch.fresh[m] /\ r.side = batch.fresh[m].side /\ r.at = batch.fresh[m].at
              /\ r.ended = 0
<1>1. /\ batch.fresh \in Seq(Crossing) /\ events \in Seq(Row) /\ Len(events) \in Nat
      /\ Len(batch.fresh) \in Nat /\ \A m \in 1 .. Len(batch.fresh) : batch.fresh[m] \in Crossing
  BY Types, LenProperties, ElementOfSeq
<1>2. NewRows \in [1 .. Len(batch.fresh) -> Row] BY <1>1 DEF NewRows, Row, Crossing
<1>3. NewRows \in Seq(Row) /\ Len(NewRows) = Len(batch.fresh) BY <1>1, <1>2, SeqDef
<1>4. /\ events \o NewRows \in Seq(Row) /\ Len(events \o NewRows) = Len(events) + Len(batch.fresh)
      /\ \A i \in 1 .. Len(events) : (events \o NewRows)[i] = events[i]
  <2>1. /\ events \o NewRows \in Seq(Row) /\ Len(events \o NewRows) = Len(events) + Len(NewRows)
        /\ \A i \in 1 .. Len(events) + Len(NewRows) :
             (events \o NewRows)[i] = IF i <= Len(events) THEN events[i] ELSE NewRows[i - Len(events)]
    BY <1>1, <1>3, ConcatProperties
  <2>2. \A i \in 1 .. Len(events) : i \in 1 .. Len(events) + Len(NewRows) /\ i <= Len(events) BY <1>1, <1>3
  <2> QED BY <1>3, <2>1, <2>2
<1>5. ASSUME NEW m \in 1 .. Len(batch.fresh)
      PROVE  /\ (events \o NewRows)[Len(events) + m] = NewRows[m]
             /\ NewRows[m] = [side |-> batch.fresh[m].side, at |-> batch.fresh[m].at, ended |-> 0]
             /\ [side |-> batch.fresh[m].side, at |-> batch.fresh[m].at] = batch.fresh[m]
  <2>1. Len(events) + m \in 1 .. Len(events) + Len(NewRows) /\ ~ (Len(events) + m <= Len(events))
        /\ (Len(events) + m) - Len(events) = m
    BY <1>1, <1>3
  <2>2. (events \o NewRows)[Len(events) + m] = NewRows[m] BY <1>1, <1>3, <2>1, ConcatProperties
  <2>3. [side |-> batch.fresh[m].side, at |-> batch.fresh[m].at] = batch.fresh[m] BY <1>1 DEF Crossing
  <2> QED BY <2>2, <2>3 DEF NewRows
<1>6. \A m \in 1 .. Len(batch.fresh) :
        LET r == (events \o NewRows)[Len(events) + m] IN
        Key(r) = batch.fresh[m] /\ r.side = batch.fresh[m].side /\ r.at = batch.fresh[m].at /\ r.ended = 0
  <2> SUFFICES ASSUME NEW m \in 1 .. Len(batch.fresh)
               PROVE  LET r == (events \o NewRows)[Len(events) + m] IN
                      Key(r) = batch.fresh[m] /\ r.side = batch.fresh[m].side
                      /\ r.at = batch.fresh[m].at /\ r.ended = 0
    OBVIOUS
  <2>1. PICK r : r = (events \o NewRows)[Len(events) + m] OBVIOUS
  <2>2. r = [side |-> batch.fresh[m].side, at |-> batch.fresh[m].at, ended |-> 0] BY <1>5, <2>1
  <2>3. Key(r) = batch.fresh[m] BY <1>5, <2>2 DEF Key
  <2> QED BY <2>1, <2>2, <2>3
<1> QED BY <1>1, <1>3, <1>4, <1>6

\* The type invariant, put together again.
LEMMA TypesBack ==
  ASSUME stream \in Seq(FixType), acked \in 0 .. Len(stream), Bools, owner \in Workers,
         spent \in [Faults -> Nat], engine \in [Workers -> Mem],
         \A w \in Workers : Short(engine[w].pair),
         stage \in {"idle", "claim", "insert", "close", "save", "ack"},
         batch \in [to : 0 .. Len(stream), out : Seq(Crossing), fresh : Seq(Crossing), mine : SUBSET Crossing],
         claims \subseteq Crossing, events \in Seq(Row)
  PROVE  TypeOK
BY DEF TypeOK, Bools, Mem, Row, Short

\* Where the owner is in the batch, and what it works on.
Stages == {"idle", "claim", "insert", "close", "save", "ack"}
BatchType == [to : 0 .. Len(stream), out : Seq(Crossing), fresh : Seq(Crossing), mine : SUBSET Crossing]

\* A step of the owner: the stream and the shard stay.
LEMMA WorkKeepsTypes ==
  ASSUME TInv, [Next]_vars, UNCHANGED <<stream, owner, fence>>,
         acked' \in 0 .. Len(stream), engine' \in [Workers -> Mem],
         \A w \in Workers : Short(engine'[w].pair), marker' \in BOOLEAN,
         stage' \in Stages, batch' \in BatchType, claims' \subseteq Crossing, events' \in Seq(Row), StageInv'
  PROVE  TInv'
<1>1. stream' = stream /\ owner' = owner /\ fence' = fence OBVIOUS
<1>2. TypeOK'
  <2>1. spent' \in [Faults -> Nat] BY Types, NeverBack
  <2>2. (marker \in BOOLEAN /\ fence \in BOOLEAN)' BY <1>1, Types DEF Bools
  <2>3. stream' \in Seq(FixType) /\ owner' \in Workers /\ acked' \in 0 .. Len(stream') BY <1>1, Types
  <2>4. /\ stage' \in {"idle", "claim", "insert", "close", "save", "ack"}
        /\ batch' \in [to : 0 .. Len(stream'), out : Seq(Crossing), fresh : Seq(Crossing), mine : SUBSET Crossing]
    BY <1>1 DEF Stages, BatchType
  <2>5. engine' \in [Workers -> [seen : Nat, pair : Pair \cup {None}]] BY DEF Mem
  <2>6. \A w \in Workers : engine'[w].pair # None => engine'[w].pair.n < Streak BY DEF Short
  <2>7. events' \in Seq([side : Sides, at : Nat, ended : Nat]) BY DEF Row
  <2> QED BY <2>1, <2>2, <2>3, <2>4, <2>5, <2>6, <2>7 DEF TypeOK
<1>3. StreamInv'
  <2>1. Never({"odd"})' => Never({"odd"})
    <3>1. {"odd"} \in SUBSET Faults BY DEF Faults
    <3> QED BY <3>1, Types, CalmBack
  <2> QED BY <1>1, <2>1 DEF TInv, StreamInv
<1> QED BY <1>2, <1>3 DEF TInv

\* A fix arrives: the stream grows by one.
LEMMA FixKeepsTypes == ASSUME TInv, Fix PROVE TInv'
<1>1. [Next]_vars BY DEF Next
<1>2. PICK s \in Sides, u \in BOOLEAN, lag \in {0, Lag} :
        /\ stream' = Append(stream, [side |-> s, usable |-> u, at |-> Len(stream) + 1 + Lag - lag])
        /\ IF u /\ lag = 0 THEN UNCHANGED spent ELSE Spend("odd")
  BY DEF Fix
<1> DEFINE r == [side |-> s, usable |-> u, at |-> Len(stream) + 1 + Lag - lag]
           n == Len(stream) + 1
<1>3. UNCHANGED <<acked, fence, owner, engine, stage, batch, claims, marker, events>> BY DEF Fix
<1>4. Len(stream) \in Nat /\ Lag \in Nat BY Types, GeofenceAssumption
<1>5. r.at \in Nat /\ r.at \in {n, n + Lag} /\ (lag = 0 => r.at = n + Lag)
  <2>1. CASE lag = 0
    <3>1. r.at = n + Lag BY <1>4, <2>1
    <3> QED BY <1>4, <3>1
  <2>2. CASE lag = Lag
    <3>1. r.at = n /\ n \in Nat BY <1>4, <2>2
    <3> QED BY <1>4, <2>2, <3>1
  <2> QED BY <2>1, <2>2
<1>6. r \in FixType BY <1>5 DEF FixType
<1> HIDE DEF r
<1>7. /\ stream' \in Seq(FixType) /\ Len(stream') = n /\ stream'[n] = r
      /\ \A i \in 1 .. Len(stream) : stream'[i] = stream[i]
  <2>1. stream' = Append(stream, r) BY <1>2 DEF r
  <2> QED BY <1>6, <2>1, Types, AppendProperties
<1>8. StreamInv'
  <2>1. Never({"odd"})' => Never({"odd"}) /\ lag = 0
    <3>1. {"odd"} \in SUBSET Faults /\ "odd" \in Faults BY DEF Faults
    <3>2. Never({"odd"})' => Never({"odd"}) BY <1>1, <3>1, Types, CalmBack
    <3>3. ASSUME Spend("odd") PROVE ~ Never({"odd"})'
      <4>1. spent'["odd"] = spent["odd"] + 1 /\ spent["odd"] \in Nat BY <3>1, <3>3, Types, SpendIs
      <4>2. spent'["odd"] # 0 BY <4>1
      <4> QED BY <4>2 DEF Never
    <3> QED BY <1>2, <3>2, <3>3
  <2> SUFFICES ASSUME NEW i \in 1 .. Len(stream')
               PROVE  stream'[i].at \in {i, i + Lag} /\ (Never({"odd"})' => stream'[i].at = i + Lag)
    BY DEF StreamInv
  <2>2. CASE i = n BY <1>5, <1>7, <2>1, <2>2
  <2>3. CASE i # n
    <3>1. i \in 1 .. Len(stream) BY <1>4, <1>7, <2>3
    <3> QED BY <1>7, <2>1, <3>1 DEF TInv, StreamInv
  <2> QED BY <2>2, <2>3
<1>9. StageInv' BY <1>3 DEF TInv, StageInv
<1>10. TypeOK'
  <2>1. spent' \in [Faults -> Nat] BY <1>1, Types, NeverBack
  <2>2. acked \in 0 .. n /\ \A m \in 0 .. Len(stream) : m \in 0 .. n BY <1>4, Types
  <2>3. batch' \in [to : 0 .. Len(stream'), out : Seq(Crossing), fresh : Seq(Crossing), mine : SUBSET Crossing]
    BY <1>3, <1>7, <2>2 DEF TInv, TypeOK
  <2> QED BY <1>3, <1>7, <2>1, <2>2, <2>3 DEF TInv, TypeOK
<1> QED BY <1>8, <1>9, <1>10 DEF TInv

\* An edit, a move of the shard and a death leave the stream.
LEMMA WorldKeepsTypes ==
  ASSUME TInv, Edit \/ Handoff \/ Crash
  PROVE  TInv'
<1>1. [Next]_vars BY DEF Next
<1>2. spent' \in [Faults -> Nat] BY <1>1, Types, NeverBack
<1>3. stream' = stream /\ acked' = acked /\ claims' = claims /\ events' = events /\ marker' = marker
  BY DEF Edit, Handoff, Crash
<1>4. StreamInv'
  <2>1. {"odd"} \in SUBSET Faults BY DEF Faults
  <2>2. Never({"odd"})' => Never({"odd"}) BY <1>1, <2>1, Types, CalmBack
  <2> QED BY <1>3, <2>2 DEF TInv, StreamInv
<1>5. CASE Edit \/ Handoff
  <2>1. engine' = engine /\ stage' = stage /\ batch' = batch /\ owner' \in Workers /\ fence' \in BOOLEAN
    BY <1>5, Types DEF Edit, Handoff, Bools
  <2>2. TypeOK' BY <1>2, <1>3, <2>1 DEF TInv, TypeOK
  <2>3. StageInv' BY <1>3, <2>1 DEF TInv, StageInv
  <2> QED BY <1>4, <2>2, <2>3 DEF TInv
<1>6. CASE Crash
  <2>1. stage' = "idle" /\ batch' = NoBatch /\ owner' \in Workers /\ fence' = fence
        /\ engine' = [engine EXCEPT ![owner] = Unseen]
    BY <1>6 DEF Crash
  <2>2. Unseen \in Mem /\ Short(Unseen.pair) BY DEF Unseen, Mem, Short
  <2>3. engine' \in [Workers -> Mem] /\ \A w \in Workers : Short(engine'[w].pair) BY <2>1, <2>2, Types
  <2>4. NoBatch \in [to : 0 .. Len(stream), out : Seq(Crossing), fresh : Seq(Crossing), mine : SUBSET Crossing]
    <3>1. <<>> \in Seq(Crossing) /\ 0 \in 0 .. Len(stream) BY Types, EmptySeq
    <3> QED BY <3>1 DEF NoBatch
  <2>5. TypeOK' BY <1>2, <1>3, <2>1, <2>3, <2>4 DEF TInv, TypeOK, Mem, Short
  <2>6. StageInv' BY <2>1 DEF StageInv
  <2> QED BY <1>4, <2>5, <2>6 DEF TInv
<1> QED BY <1>5, <1>6

\* Every step keeps the types and what the stages are for.
LEMMA TypeKeeps == ASSUME TInv, [Next]_vars PROVE TInv'
<1>0. /\ acked \in 0 .. Len(stream) /\ engine \in [Workers -> Mem] /\ marker \in BOOLEAN
      /\ \A w \in Workers : Short(engine[w].pair)
      /\ batch \in BatchType /\ claims \subseteq Crossing /\ events \in Seq(Row)
  BY Types DEF TInv, TypeOK, BatchType, Bools
<1>1. CASE Fix BY <1>1, FixKeepsTypes
<1>2. CASE Edit \/ Handoff \/ Crash BY <1>2, WorldKeepsTypes
<1>3. CASE Feed
  <2>1. PICK k, r : FeedDoes(k, r) BY <1>3, FeedIs
  <2>2. /\ engine' \in [Workers -> Mem] /\ \A w \in Workers : Short(engine'[w].pair)
        /\ batch' \in BatchType /\ batch'.to = acked + k /\ batch'.out = r.out
    BY <2>1, FeedTypes DEF BatchType
  <2>3. StageInv' /\ stage' \in Stages
    <3>1. acked < acked + k /\ acked' = acked BY <2>1, Types DEF FeedDoes
    <3> QED BY <2>1, <2>2, <3>1 DEF StageInv, FeedDoes, Stages
  <2>4. UNCHANGED <<stream, owner, fence, acked, claims, marker, events>> BY <2>1 DEF FeedDoes
  <2> QED BY <1>0, <2>2, <2>3, <2>4, WorkKeepsTypes
<1>4. CASE Claim
  <2>1. batch' = [to |-> batch.to, out |-> batch.out, fresh |-> Fresh, mine |-> ToSet(Fresh)]
    BY <1>0, <1>4 DEF Claim, BatchType
  <2>2. batch' \in BatchType /\ claims' \subseteq Crossing BY <1>0, <1>4, <2>1, FreshIs DEF BatchType, Claim
  <2>3. StageInv' /\ stage' \in Stages BY <1>4, <2>1 DEF TInv, StageInv, Claim, Stages
  <2>4. UNCHANGED <<stream, owner, fence, acked, engine, marker, events>> BY <1>4 DEF Claim
  <2> QED BY <1>0, <2>2, <2>3, <2>4, WorkKeepsTypes
<1>5. CASE ClaimLost
  <2>1. batch' = [to |-> batch.to, out |-> batch.out, fresh |-> batch.out, mine |-> batch.mine]
    BY <1>0, <1>5 DEF ClaimLost, BatchType
  <2>2. batch' \in BatchType BY <1>0, <2>1 DEF BatchType
  <2>3. StageInv' /\ stage' \in Stages BY <1>5, <2>1 DEF TInv, StageInv, ClaimLost, Stages
  <2>4. UNCHANGED <<stream, owner, fence, acked, engine, marker, events, claims>> BY <1>5 DEF ClaimLost
  <2> QED BY <1>0, <2>2, <2>3, <2>4, WorkKeepsTypes
<1>6. CASE Insert
  <2>1. events' \in Seq(Row) BY <1>6, InsertIs DEF Insert, NewRows
  <2>2. StageInv' /\ stage' \in Stages BY <1>6 DEF TInv, StageInv, Insert, Stages
  <2>3. UNCHANGED <<stream, owner, fence, acked, engine, marker, batch, claims>> BY <1>6 DEF Insert
  <2> QED BY <1>0, <2>1, <2>2, <2>3, WorkKeepsTypes
<1>7. CASE InsertFails
  <2> DEFINE e == [seen |-> engine[owner].seen, pair |-> Rolled(engine[owner].pair, batch.out)]
  <2>1. engine' = [engine EXCEPT ![owner] = e] BY <1>7 DEF InsertFails
  <2>2. e \in Mem /\ Short(e.pair)
    <3>1. engine[owner].seen \in Nat /\ engine[owner].pair \in Pair \cup {None} /\ Short(engine[owner].pair)
      BY Types DEF Mem
    <3> QED BY <3>1, RolledIs DEF Mem
  <2> HIDE DEF e
  <2>3. engine' \in [Workers -> Mem] /\ \A w \in Workers : Short(engine'[w].pair)
    BY <1>0, <2>1, <2>2, Types
  <2>4. claims' \subseteq Crossing BY <1>0, <1>7 DEF InsertFails
  <2>5. StageInv' /\ stage' \in Stages BY <1>7 DEF TInv, StageInv, InsertFails, Stages
  <2>6. UNCHANGED <<stream, owner, fence, acked, marker, batch, events>> BY <1>7 DEF InsertFails
  <2> QED BY <1>0, <2>3, <2>4, <2>5, <2>6, WorkKeepsTypes
<1>8. CASE Close
  <2>1. events' \in Seq(Row)
    <3>1. Len(batch.fresh) \in 0 .. Len(batch.fresh) BY Types, LenProperties
    <3>2. Closing(events, batch.fresh)[Len(batch.fresh)] \in Seq(Row) BY <3>1, Types, ClosingIsSame
    <3> QED BY <1>0, <1>8, <3>2 DEF Close
  <2>2. StageInv' /\ stage' \in Stages BY <1>8 DEF TInv, StageInv, Close, Stages
  <2>3. UNCHANGED <<stream, owner, fence, acked, engine, marker, batch, claims>> BY <1>8 DEF Close
  <2> QED BY <1>0, <2>1, <2>2, <2>3, WorkKeepsTypes
<1>9. CASE Save
  <2>1. marker' \in BOOLEAN BY <1>0, <1>9 DEF Save
  <2>2. StageInv' /\ stage' \in Stages BY <1>9 DEF TInv, StageInv, Save, Stages
  <2>3. UNCHANGED <<stream, owner, fence, acked, engine, batch, claims, events>> BY <1>9 DEF Save
  <2> QED BY <1>0, <2>1, <2>2, <2>3, WorkKeepsTypes
<1>10. CASE Ack
  <2>1. acked' \in 0 .. Len(stream) BY <1>10, Types DEF Ack
  <2>2. batch' \in BatchType
    <3>1. <<>> \in Seq(Crossing) /\ 0 \in 0 .. Len(stream) BY Types, EmptySeq
    <3> QED BY <1>10, <3>1 DEF NoBatch, Ack, BatchType
  <2>3. StageInv' /\ stage' \in Stages BY <1>10 DEF StageInv, Ack, Stages
  <2>4. UNCHANGED <<stream, owner, fence, engine, marker, claims, events>> BY <1>10 DEF Ack
  <2> QED BY <1>0, <2>1, <2>2, <2>3, <2>4, WorkKeepsTypes
<1>11. CASE UNCHANGED vars
  BY <1>11 DEF vars, TInv, TypeOK, StreamInv, StageInv, Never
<1> QED BY <1>1, <1>2, <1>3, <1>4, <1>5, <1>6, <1>7, <1>8, <1>9, <1>10, <1>11 DEF Next

\* They hold at the start.
LEMMA TypeStarts == ASSUME Init PROVE TInv
<1>1. <<>> \in Seq(FixType) /\ <<>> \in Seq(Crossing) /\ <<>> \in Seq(Row) /\ Len(<<>>) = 0 BY EmptySeq
<1>2. 0 \in 0 .. Len(stream) BY <1>1 DEF Init
<1>3. NoBatch \in [to : 0 .. Len(stream), out : Seq(Crossing), fresh : Seq(Crossing), mine : SUBSET Crossing]
  BY <1>1, <1>2 DEF NoBatch
<1>4. Unseen \in Mem /\ Short(Unseen.pair) BY DEF Unseen, Mem, Short
<1>5. engine \in [Workers -> Mem] /\ \A w \in Workers : Short(engine[w].pair) BY <1>4 DEF Init
<1>6. TypeOK BY <1>1, <1>2, <1>3, <1>5, TypesBack DEF Init, Bools
<1>7. StreamInv BY <1>1 DEF Init, StreamInv
<1>8. StageInv BY DEF Init, StageInv
<1> QED BY <1>6, <1>7, <1>8 DEF TInv

\* A fault that happens is one that has happened.
LEMMA Spoils ==
  ASSUME spent \in [Faults -> Nat], NEW k \in Faults, Spend(k), NEW K, k \in K
  PROVE  ~ Never(K)'
<1>1. spent'[k] = spent[k] + 1 /\ spent[k] \in Nat BY SpendIs
<1>2. spent'[k] # 0 BY <1>1
<1> QED BY <1>2 DEF Never

\* Every step keeps OwnInv: only an edit touches the fence, and only a move of the
\* shard or a death makes a worker the owner.
LEMMA OwnKeeps == ASSUME TInv, OwnInv, [Next]_vars PROVE OwnInv'
<1>1. /\ {"edit"} \in SUBSET Faults /\ {"handoff", "crash"} \in SUBSET Faults
      /\ "edit" \in Faults /\ "handoff" \in Faults /\ "crash" \in Faults
  BY DEF Faults
<1>2. /\ Never({"edit"})' => Never({"edit"})
      /\ Never({"handoff", "crash"})' => Never({"handoff", "crash"})
  BY <1>1, Types, CalmBack
<1>3. CASE Edit
  <2>1. ~ Never({"edit"})' BY <1>1, <1>3, Types, Spoils DEF Edit
  <2>2. UNCHANGED <<owner, engine>> BY <1>3 DEF Edit
  <2> QED BY <1>2, <2>1, <2>2 DEF OwnInv
<1>4. CASE Handoff \/ Crash
  <2>1. ~ Never({"handoff", "crash"})' BY <1>1, <1>4, Types, Spoils DEF Handoff, Crash
  <2>2. UNCHANGED fence BY <1>4 DEF Handoff, Crash
  <2> QED BY <1>2, <2>1, <2>2 DEF OwnInv
<1>5. ASSUME owner' = owner, fence' = fence, \A w \in Workers : w # owner => engine'[w] = engine[w]
      PROVE  OwnInv'
  BY <1>2, <1>5 DEF OwnInv
<1>6. CASE Feed
  <2>1. PICK k, r : FeedDoes(k, r) BY <1>6, FeedIs
  <2>2. \A w \in Workers : w # owner => engine'[w] = engine[w] BY <2>1, FeedTypes
  <2> QED BY <1>5, <2>1, <2>2 DEF FeedDoes
<1>7. CASE InsertFails
  <2>1. \A w \in Workers : w # owner => engine'[w] = engine[w] BY <1>7, Types DEF InsertFails
  <2> QED BY <1>5, <1>7, <2>1 DEF InsertFails
<1>8. CASE Fix \/ Claim \/ ClaimLost \/ Insert \/ Close \/ Save \/ Ack \/ UNCHANGED vars
  <2>1. owner' = owner /\ fence' = fence /\ engine' = engine
    BY <1>8 DEF Fix, Claim, ClaimLost, Insert, Close, Save, Ack, vars
  <2> QED BY <1>5, <2>1
<1> QED BY <1>3, <1>4, <1>6, <1>7, <1>8 DEF Next

\* A step that leaves the rows, their claims and what is about to be written.
LEMMA RowsStay ==
  ASSUME TInv, RowsInv, [Next]_vars, SameRows(events', events), claims' = claims,
         stage' = "insert" => stage = "insert" /\ batch' = batch
  PROVE  RowsInv'
<1>1. Never({"loss"})' => Never({"loss"})
  <2>1. {"loss"} \in SUBSET Faults BY DEF Faults
  <2> QED BY <2>1, Types, CalmBack
<1>2. \A i \in 1 .. Len(events) : Key(events'[i]) = Key(events[i]) BY DEF SameRows, Key
<1>3. Len(events') = Len(events) BY DEF SameRows
<1> QED BY <1>1, <1>2, <1>3 DEF RowsInv, Key

\* Every step keeps RowsInv: SET NX lets through what has no claim, and no row is
\* without one.
LEMMA RowsKeep == ASSUME TInv, RowsInv, [Next]_vars PROVE RowsInv'
<1>1. Never({"loss"})' => Never({"loss"})
  <2>1. {"loss"} \in SUBSET Faults BY DEF Faults
  <2> QED BY <2>1, Types, CalmBack
<1>2. SameRows(events, events) BY DEF SameRows
<1>3. CASE Fix \/ Edit \/ Handoff \/ Crash \/ Feed \/ Save \/ Ack \/ UNCHANGED vars
  <2>1. events' = events /\ claims' = claims /\ (stage' = "insert" => stage = "insert" /\ batch' = batch)
    BY <1>3 DEF Fix, Edit, Handoff, Crash, Feed, Save, Ack, vars
  <2> QED BY <1>2, <2>1, RowsStay
<1>4. CASE Close
  <2>1. Len(batch.fresh) \in 0 .. Len(batch.fresh) BY Types, LenProperties
  <2>2. SameRows(Closing(events, batch.fresh)[Len(batch.fresh)], events) BY <2>1, Types, ClosingIsSame
  <2>3. SameRows(events', events) BY <1>2, <1>4, <2>2 DEF Close
  <2>4. claims' = claims /\ stage' # "insert" BY <1>4 DEF Close
  <2> QED BY <2>3, <2>4, RowsStay
<1>5. CASE ClaimLost
  <2>1. "loss" \in Faults BY DEF Faults
  <2>2. ~ Never({"loss"})' BY <1>5, <2>1, Types, Spoils DEF ClaimLost
  <2> QED BY <2>2 DEF RowsInv
<1>6. CASE Claim
  <2> SUFFICES ASSUME Never({"loss"})
               PROVE  /\ \A i, j \in 1 .. Len(events) : Key(events[i]) = Key(events[j]) => i = j
                      /\ \A i \in 1 .. Len(events) : Key(events[i]) \in claims'
                      /\ batch'.mine = ToSet(batch'.fresh) /\ batch'.mine \subseteq claims'
                      /\ \A i, j \in 1 .. Len(batch'.fresh) : batch'.fresh[i] = batch'.fresh[j] => i = j
                      /\ \A i \in 1 .. Len(events) : Key(events[i]) \notin batch'.mine
    <3>1. events' = events BY <1>6 DEF Claim
    <3> QED BY <1>1, <3>1 DEF RowsInv, Key
  <2>1. batch'.fresh = Fresh /\ batch'.mine = ToSet(Fresh) /\ claims' = claims \cup ToSet(Fresh)
    BY <1>6, Types DEF Claim
  <2>2. \A x \in ToSet(Fresh) : x \notin claims BY FreshIs, ToSetIs
  <2> QED BY <2>1, <2>2, FreshIs DEF RowsInv
<1>7. CASE InsertFails
  <2>1. events' = events /\ claims' = claims \ batch.mine /\ stage' # "insert" /\ stage = "insert"
    BY <1>7 DEF InsertFails
  <2> QED BY <1>1, <2>1 DEF RowsInv, Key
<1>8. CASE Insert
  <2> DEFINE n == Len(events)
             l == Len(batch.fresh)
             t == events \o NewRows
  <2>1. events' = t /\ claims' = claims /\ stage' # "insert" /\ stage = "insert"
    BY <1>8 DEF Insert, NewRows
  <2>2. /\ Len(t) = n + l /\ n \in Nat /\ l \in Nat /\ batch.fresh \in Seq(Crossing)
        /\ \A i \in 1 .. n : t[i] = events[i]
        /\ \A m \in 1 .. l : Key(t[n + m]) = batch.fresh[m]
    BY InsertIs, Types
  <2> HIDE DEF t, n, l
  <2> SUFFICES ASSUME Never({"loss"})
               PROVE  /\ \A i, j \in 1 .. Len(t) : Key(t[i]) = Key(t[j]) => i = j
                      /\ \A i \in 1 .. Len(t) : Key(t[i]) \in claims
    BY <1>1, <2>1 DEF RowsInv, Key
  <2>3. /\ \A i, j \in 1 .. n : Key(events[i]) = Key(events[j]) => i = j
        /\ \A i \in 1 .. n : Key(events[i]) \in claims /\ Key(events[i]) \notin batch.mine
        /\ batch.mine = ToSet(batch.fresh) /\ batch.mine \subseteq claims
        /\ \A i, j \in 1 .. l : batch.fresh[i] = batch.fresh[j] => i = j
    BY <2>1 DEF RowsInv, n, l
  <2>4. \A m \in 1 .. l : batch.fresh[m] \in batch.mine BY <2>2, <2>3, ToSetIs DEF l
  <2>5. \A i \in 1 .. n : Key(t[i]) = Key(events[i]) BY <2>2
  <2>6. \A i \in 1 .. Len(t) : i \in 1 .. n \/ (i - n \in 1 .. l /\ i = n + (i - n)) BY <2>2
  <2>7. \A i \in 1 .. Len(t) : i \notin 1 .. n => Key(t[i]) = batch.fresh[i - n] /\ i - n \in 1 .. l
    BY <2>2, <2>6
  <2>8. \A i \in 1 .. Len(t) : Key(t[i]) \in claims BY <2>3, <2>4, <2>5, <2>7
  <2>9. ASSUME NEW i \in 1 .. Len(t), NEW j \in 1 .. Len(t), Key(t[i]) = Key(t[j]) PROVE i = j
    <3>1. CASE i \in 1 .. n /\ j \in 1 .. n BY <2>3, <2>5, <2>9, <3>1
    <3>2. CASE i \in 1 .. n /\ j \notin 1 .. n BY <2>3, <2>4, <2>5, <2>7, <2>9, <3>2
    <3>3. CASE i \notin 1 .. n /\ j \in 1 .. n BY <2>3, <2>4, <2>5, <2>7, <2>9, <3>3
    <3>4. CASE i \notin 1 .. n /\ j \notin 1 .. n
      <4>1. i - n = j - n BY <2>3, <2>7, <2>9, <3>4
      <4> QED BY <2>2, <4>1
    <3> QED BY <3>1, <3>2, <3>3, <3>4
  <2> QED BY <2>8, <2>9
<1> QED BY <1>3, <1>4, <1>5, <1>6, <1>7, <1>8 DEF Next

-----------------------------------------------------------------------------
(* The order of time.                                                      *)

\* A fix on time and a late one may be of one instant, and no third.
LEMMA ThinIs == ASSUME TInv PROVE Thin
<1>1. stream \in Seq(FixType) /\ Len(stream) \in Nat /\ Lag \in Nat BY Types, GeofenceAssumption
<1>2. \A i \in 1 .. Len(stream) : stream[i].at \in {i, i + Lag} BY DEF TInv, StreamInv
<1>3. \A i \in 1 .. Len(stream) : stream[i].at > 0 BY <1>1, <1>2
<1>4. ASSUME NEW i \in 1 .. Len(stream), NEW j \in 1 .. Len(stream), NEW k \in 1 .. Len(stream),
             i # j, i # k, j # k, stream[i].at = stream[j].at
      PROVE  stream[k].at # stream[i].at
  <2>1. /\ stream[i].at = i \/ stream[i].at = i + Lag
        /\ stream[j].at = j \/ stream[j].at = j + Lag
        /\ stream[k].at = k \/ stream[k].at = k + Lag
    BY <1>2
  <2> QED BY <1>1, <1>4, <2>1
<1> QED BY <1>1, <1>3, <1>4 DEF Thin

\* The last of a rising list.
LEMMA LastIs ==
  ASSUME NEW S, NEW list \in Seq(S), \A i \in 1 .. Len(list) : list[i].at \in Nat,
         NEW b \in Nat, NEW top \in Nat, Rising(list, b, top)
  PROVE  /\ LastAt(list, b) \in Nat /\ b <= LastAt(list, b)
         /\ \A i \in 1 .. Len(list) : list[i].at <= LastAt(list, b)
         /\ list # <<>> => b < LastAt(list, b) /\ LastAt(list, b) <= top
<1>1. Len(list) \in Nat BY LenProperties
<1>2. CASE list = <<>>
  <2>1. LastAt(list, b) = b /\ Len(list) = 0 BY <1>2 DEF LastAt
  <2> QED BY <1>2, <2>1
<1>3. CASE list # <<>>
  <2>1. Len(list) \in 1 .. Len(list) BY <1>1, <1>3, EmptySeq
  <2>2. LastAt(list, b) = list[Len(list)].at BY <1>3 DEF LastAt
  <2>3. b < list[Len(list)].at /\ list[Len(list)].at <= top BY <2>1 DEF Rising
  <2>4. ASSUME NEW i \in 1 .. Len(list) PROVE list[i].at <= list[Len(list)].at
    <3>1. CASE i = Len(list) BY <2>1, <3>1
    <3>2. CASE i # Len(list)
      <4>1. i \in 1 .. Len(list) - 1 BY <1>1, <3>2
      <4>2. list[i].at < list[Len(list)].at BY <2>1, <4>1 DEF Rising
      <4> QED BY <2>1, <4>2
    <3> QED BY <3>1, <3>2
  <2>5. list[Len(list)].at \in Nat BY <2>1
  <2> QED BY <2>2, <2>3, <2>4, <2>5
<1> QED BY <1>2, <1>3

\* The rows and the transitions are at natural numbers.
LEMMA Ats ==
  ASSUME TInv
  PROVE  /\ \A i \in 1 .. Len(events) : events[i] \in Row /\ events[i].at \in Nat
         /\ \A i \in 1 .. Len(batch.out) : batch.out[i] \in Crossing /\ batch.out[i].at \in Nat
         /\ \A i \in 1 .. Len(batch.fresh) : batch.fresh[i] \in Crossing /\ batch.fresh[i].at \in Nat
         /\ \A c \in claims : c.at \in Nat
         /\ acked + Lag \in Nat /\ batch.to + Lag \in Nat
<1>1. /\ \A i \in 1 .. Len(events) : events[i] \in Row
      /\ \A i \in 1 .. Len(batch.out) : batch.out[i] \in Crossing
      /\ \A i \in 1 .. Len(batch.fresh) : batch.fresh[i] \in Crossing
  BY Types, ElementOfSeq
<1>2. acked \in Nat /\ batch.to \in Nat /\ Lag \in Nat BY Types, GeofenceAssumption
<1>3. \A c \in claims : c.at \in Nat BY Types DEF Crossing
<1> QED BY <1>1, <1>2, <1>3 DEF Row, Crossing

\* No row is later than the last.
LEMMA BaseIs ==
  ASSUME TInv, NEW top \in Nat, Rising(events, 0, top)
  PROVE  /\ Base \in Nat /\ Base <= top
         /\ \A i \in 1 .. Len(events) : events[i].at <= Base
<1>1. LastAt(events, 0) \in Nat /\ \A i \in 1 .. Len(events) : events[i].at <= LastAt(events, 0)
  BY Types, Ats, LastIs
<1>2. LastAt(events, 0) <= top
  <2>1. CASE events = <<>> BY <2>1 DEF LastAt
  <2>2. CASE events # <<>> BY <2>2, Types, Ats, LastIs
  <2> QED BY <2>1, <2>2
<1> QED BY <1>1, <1>2 DEF Base

\* A later bound will do.
LEMMA RisingMore ==
  ASSUME NEW S, NEW list \in Seq(S), \A i \in 1 .. Len(list) : list[i].at \in Nat,
         NEW b, NEW top \in Nat, NEW higher \in Nat, top <= higher, Rising(list, b, top)
  PROVE  Rising(list, b, higher)
<1>1. ASSUME NEW i \in 1 .. Len(list) PROVE list[i].at <= higher
  <2>1. list[i].at \in Nat /\ list[i].at <= top BY DEF Rising
  <2> QED BY <2>1
<1> QED BY <1>1 DEF Rising

\* What the order of time needs to know of a table.
LEMMA SameTimes ==
  ASSUME NEW t, NEW u, SameRows(t, u), NEW top, (t = <<>>) <=> (u = <<>>), Len(u) \in Nat,
         u # <<>> => Len(u) >= 1
  PROVE  LastAt(t, 0) = LastAt(u, 0) /\ (Rising(u, 0, top) => Rising(t, 0, top))
<1>1. \A i \in 1 .. Len(u) : \A j \in 1 .. i - 1 : j \in 1 .. Len(u) OBVIOUS
<1>2. Rising(u, 0, top) => Rising(t, 0, top) BY <1>1 DEF Rising, SameRows
<1>3. u # <<>> => Len(u) \in 1 .. Len(u) OBVIOUS
<1> QED BY <1>2, <1>3 DEF LastAt, SameRows

\* Ahead in the next state: the fixes that were taken in are still there.
LEMMA AheadStays ==
  ASSUME NEW b, NEW e, NEW f, NEW P, Ahead(b, e, P), f.seen = e.seen, Tries(f) = Tries(e) \/ Tries(f) = 0,
         \A i \in P : stream'[i] = stream[i]
  PROVE  Ahead(b, f, P) /\ (b = 0 \/ b < f.seen \/
           (b = f.seen /\ (\/ Tries(f) = 0 /\ \E i \in P : stream'[i].at = b
                           \/ Tries(f) <= 1 /\ \E i, j \in P : i # j /\ stream'[i].at = b /\ stream'[j].at = b)))
BY DEF Ahead

\* Steps that find no crossing and write none: what comes in the stream, an edit,
\* a move of the shard, the close, the marker and the acknowledgement.
LEMMA TimesStay ==
  ASSUME TInv, TInv', Timed, Never({"handoff"})' => Never({"handoff"}), SameRows(events', events),
         claims' = claims, Reach' = Reach, End' = End,
         (stage \in {"claim", "insert"} \/ stage' \in {"claim", "insert"}) => stage' = stage /\ batch' = batch,
         stage' \in {"close", "save"} => stage \in {"close", "save"} /\ batch' = batch,
         Never({"handoff"})' => engine'[owner'] = engine[owner],
         \A i \in 1 .. End : stream'[i] = stream[i]
  PROVE  Timed'
<1>1. events \in Seq(Row) /\ Len(events) \in Nat BY Types
<1>2. events' \in Seq(Row) BY DEF TInv, TypeOK, Row
<1>3. (events' = <<>>) <=> (events = <<>>) BY <1>1, <1>2, EmptySeq DEF SameRows
<1>4. events # <<>> => Len(events) >= 1 BY <1>1, EmptySeq
<1>5. LastAt(events', 0) = LastAt(events, 0)
      /\ (Rising(events, 0, Reach + Lag) => Rising(events', 0, Reach + Lag))
  BY <1>1, <1>3, <1>4, SameTimes
<1>6. Base' = Base BY <1>5 DEF Base, LastAt
<1>7. Found' = Found BY <1>6 DEF Found, LastAt
<1>8. Rising(events', 0, Reach' + Lag) BY <1>5 DEF Timed
<1>9. \A c \in claims' : c.at <= Base' \/ (stage' = "insert" /\ c \in batch'.mine) BY <1>6 DEF Timed
<1>10. /\ stage' = "insert" => batch'.mine \subseteq ToSet(batch'.fresh)
       /\ stage' \in {"claim", "insert"} => Rising(batch'.out, Base', batch'.to + Lag)
       /\ stage' \in {"insert", "close", "save"} => batch'.fresh = batch'.out
  BY <1>6 DEF Timed
<1>11. Never({"handoff"})' => Ahead(Found, engine[owner], 1 .. End)'
  <2> SUFFICES ASSUME Never({"handoff"})' PROVE Ahead(Found, engine[owner], 1 .. End)' OBVIOUS
  <2>1. Ahead(Found, engine[owner], 1 .. End) BY DEF Timed
  <2> HIDE DEF Found, End
  <2> QED BY <1>7, <2>1 DEF Ahead
<1>12. Rising(events, 0, Reach + Lag)' BY <1>8 DEF Rising
<1> QED BY <1>9, <1>10, <1>11, <1>12 DEF Timed, Rising, ToSet

\* What a batch finds is later than every row: the engine is ahead of them, or it
\* starts anew and every fix that it gets is newer.
LEMMA FeedTimed ==
  ASSUME TInv, Timed, Quiet, Feed
  PROVE  Timed'
<1>1. PICK k, r : FeedDoes(k, r) BY FeedIs
<1> DEFINE e == engine[owner]
           P == 1 .. acked
           N == acked + 1 .. acked + k
           Q == IF Never({"handoff"}) THEN {} ELSE N
           top == acked + k + Lag
<1>2. /\ k \in Nat /\ k > 0 /\ acked + k <= Len(stream) /\ r = Feeding(e, Due(k))[k] /\ r \in Run
      /\ stage = "idle" /\ stage' = IF r.out = <<>> THEN "ack" ELSE "claim"
      /\ UNCHANGED <<stream, acked, fence, owner, claims, marker, events, spent>>
      /\ batch' = [to |-> acked + k, out |-> r.out, fresh |-> <<>>, mine |-> {}]
  BY <1>1 DEF FeedDoes
<1>3. /\ acked \in Nat /\ Lag \in Nat /\ top \in Nat /\ Len(stream) \in Nat /\ stream \in Seq(FixType)
      /\ e \in Mem /\ Short(e.pair) /\ Bools
  BY <1>2, Types, GeofenceAssumption
<1>4. Reach = acked /\ Rising(events, 0, acked + Lag) BY <1>2 DEF Timed, Reach
<1>5. Base \in Nat /\ Base <= acked + Lag BY <1>3, <1>4, BaseIs
<1>6. Due(k) \in Seq(FixType) /\ Len(Due(k)) = k BY <1>2, <1>3, DueIs
<1>7. PICK ix \in [1 .. k -> N] :
        /\ \A n \in 1 .. k : Due(k)[n] = stream[ix[n]]
        /\ \A i \in N : \E n \in 1 .. k : ix[n] = i
        /\ \A m, n \in 1 .. k : m < n =>
             \/ stream[ix[m]].at < stream[ix[n]].at
             \/ stream[ix[m]].at = stream[ix[n]].at /\ ix[m] < ix[n]
  BY <1>2, <1>3, DueIs
<1>8. \A i \in N : i \in 1 .. Len(stream) /\ i \notin P BY <1>2, <1>3
<1>9. \A i \in N : stream[i].at \in Nat /\ stream[i].at <= top
  <2> SUFFICES ASSUME NEW i \in N PROVE stream[i].at \in Nat /\ stream[i].at <= top OBVIOUS
  <2>1. stream[i].at = i \/ stream[i].at = i + Lag BY <1>8 DEF TInv, StreamInv
  <2> QED BY <1>2, <1>3, <2>1
<1>10. ix \in [1 .. Len(Due(k)) -> 1 .. Len(stream)] BY <1>6, <1>7, <1>8
<1>11. \A m \in 1 .. k : \A l \in 1 .. m - 1 : ix[l] # ix[m]
  <2> SUFFICES ASSUME NEW m \in 1 .. k, NEW l \in 1 .. m - 1 PROVE ix[l] # ix[m] OBVIOUS
  <2>1. l \in 1 .. k /\ l < m BY <1>2
  <2>2. ix[l] \in N /\ ix[m] \in N BY <1>7, <2>1
  <2>3. stream[ix[l]].at < stream[ix[m]].at \/ ix[l] < ix[m] BY <1>7, <2>1
  <2>4. stream[ix[l]].at \in Nat /\ stream[ix[m]].at \in Nat BY <1>9, <2>2
  <2>5. ix[l] \in Nat /\ ix[m] \in Nat BY <1>3, <2>2
  <2> QED BY <2>3, <2>4, <2>5
<1>12. Ahead(Base, e, P) \/ (Q # {} /\ \A i \in Q : Base < stream[i].at)
  <2>1. CASE Never({"handoff"})
    <3>1. Found = Base /\ End = acked BY <1>2 DEF Found, End
    <3> QED BY <2>1, <3>1 DEF Timed
  <2>2. CASE ~ Never({"handoff"})
    <3>1. Never({"odd"}) BY <2>2 DEF Quiet
    <3>2. acked + 1 \in N /\ Q = N BY <1>2, <1>3, <2>2
    <3>3. ASSUME NEW i \in N PROVE Base < stream[i].at
      <4>1. stream[i].at = i + Lag BY <1>8, <3>1 DEF TInv, StreamInv
      <4> QED BY <1>3, <1>5, <4>1
    <3> QED BY <3>2, <3>3
  <2> QED BY <2>1, <2>2
<1>13. Timely(r, Base, top, P \cup Taken(ix, k), Q)
  <2>1. P \in SUBSET (1 .. Len(stream)) BY <1>2, <1>3
  <2>2. k \in 0 .. Len(Due(k)) BY <1>2, <1>6
  <2>3. \A m \in 1 .. Len(Due(k)) :
          /\ Due(k)[m] = stream[ix[m]] /\ ix[m] \notin P /\ stream[ix[m]].at <= top
          /\ Q # {} => ix[m] \in Q
          /\ \A l \in 1 .. m - 1 : ix[l] # ix[m]
    <3>1. \A m \in 1 .. k : ix[m] \in N BY <1>7
    <3> QED BY <1>6, <1>7, <1>8, <1>9, <1>11, <3>1
  <2>4. Thin BY ThinIs
  <2>5. PICK d : d = Due(k) OBVIOUS
  <2>6. d \in Seq(FixType) /\ ix \in [1 .. Len(d) -> 1 .. Len(stream)] /\ k \in 0 .. Len(d)
        /\ r = Feeding(e, d)[k]
        /\ \A m \in 1 .. Len(d) :
             /\ d[m] = stream[ix[m]] /\ ix[m] \notin P /\ stream[ix[m]].at <= top
             /\ Q # {} => ix[m] \in Q
             /\ \A l \in 1 .. m - 1 : ix[l] # ix[m]
    BY <1>2, <1>6, <1>10, <2>2, <2>3, <2>5
  <2> HIDE DEF P, Q, top, N, e
  <2>7. Timely(Feeding(e, d)[k], Base, top, P \cup Taken(ix, k), Q)
    BY <1>3, <1>5, <1>12, <2>1, <2>4, <2>6, FeedingTimely
  <2> QED BY <2>6, <2>7
<1>14. Taken(ix, k) \subseteq N BY <1>7 DEF Taken
<1>15. P \cup Taken(ix, k) \subseteq 1 .. acked + k BY <1>2, <1>3, <1>14
<1>16. /\ engine'[owner] = [seen |-> r.seen, pair |-> IF r.any /\ ~fence THEN None ELSE r.pair]
       /\ batch'.to = acked + k /\ batch'.out = r.out
  BY <1>1, FeedTypes
<1>17. Base' = Base BY <1>2 DEF Base, LastAt
<1>18. Found' = LastAt(r.out, Base)
  BY <1>2, <1>16, <1>17 DEF Found, LastAt
<1>19. Never({"handoff"})' => Ahead(Found, engine[owner], 1 .. End)'
  <2> SUFFICES ASSUME Never({"handoff"})' PROVE Ahead(Found, engine[owner], 1 .. End)' OBVIOUS
  <2>1. Never({"handoff"}) BY <1>2 DEF Never
  <2>2. Q = {} BY <2>1
  <2>3. Ahead(LastAt(r.out, Base), r, P \cup Taken(ix, k)) BY <1>13, <2>2 DEF Timely
  <2>4. Ahead(LastAt(r.out, Base), r, 1 .. acked + k) BY <1>15, <2>3, AheadMore
  <2>5. engine'[owner'].seen = r.seen
        /\ (Tries(engine'[owner']) = Tries(r) \/ Tries(engine'[owner']) = 0)
    BY <1>2, <1>16 DEF Tries
  <2>6. End' = acked + k BY <1>2, <1>16 DEF End
  <2> DEFINE b == LastAt(r.out, Base)
             f == engine'[owner']
  <2>7. Ahead(b, f, 1 .. acked + k)
    <3> HIDE DEF b, f
    <3> QED BY <2>4, <2>5, AheadStays, <1>2 DEF b, f
  <2> HIDE DEF Found, End
  <2> QED BY <1>2, <1>18, <2>6, <2>7 DEF Ahead, Tries
<1>20. Rising(r.out, Base, top) BY <1>13 DEF Timely
<1>21. Rising(events', 0, Reach' + Lag)
  <2>1. Rising(events, 0, top)
    <3>1. acked + Lag <= top /\ acked + Lag \in Nat BY <1>2, <1>3
    <3> QED BY <1>3, <1>4, <3>1, Types, Ats, RisingMore
  <2>2. Reach' + Lag = acked + Lag \/ Reach' + Lag = top BY <1>2, <1>3, <1>16 DEF Reach
  <2> HIDE DEF top
  <2> QED BY <1>2, <1>4, <2>1, <2>2
<1>22. \A c \in claims' : c.at <= Base' BY <1>2, <1>17 DEF Timed
<1>23. Rising(batch'.out, Base', batch'.to + Lag)
  <2>1. batch'.to + Lag = top BY <1>16
  <2> HIDE DEF top
  <2> QED BY <1>16, <1>17, <1>20, <2>1
<1>24. stage' \notin {"insert", "close", "save"} BY <1>2
<1> QED BY <1>19, <1>21, <1>22, <1>23, <1>24 DEF Timed, Rising

\* So no claim is in its way, and all of it is to be recorded.
LEMMA ClaimTimed ==
  ASSUME TInv, Timed, Claim \/ ClaimLost
  PROVE  Timed' /\ batch'.fresh = batch.out /\ stage' = "insert" /\ batch'.out = batch.out /\ batch'.to = batch.to
<1>1. stage = "claim" /\ UNCHANGED <<stream, acked, fence, owner, engine, marker, events>>
  BY DEF Claim, ClaimLost
<1>2. batch.out \in Seq(Crossing) /\ Len(batch.out) \in Nat /\ batch.out # <<>> /\ batch.mine = {}
  BY <1>1, Types, LenProperties DEF TInv, StageInv
<1>3. /\ Rising(batch.out, Base, batch.to + Lag) /\ \A c \in claims : c.at <= Base
      /\ Rising(events, 0, Reach + Lag) /\ Reach = acked
      /\ Never({"handoff"}) => Ahead(Found, engine[owner], 1 .. End)
  BY <1>1 DEF Timed, Reach
<1>4. Base \in Nat BY <1>3, Ats, BaseIs
<1>5. Fresh = batch.out
  <2>1. ASSUME NEW i \in 1 .. Len(batch.out)
        PROVE  batch.out[i] \notin claims /\ \A j \in 1 .. i - 1 : batch.out[j] # batch.out[i]
    <3>1. batch.out[i].at \in Nat /\ Base < batch.out[i].at BY <1>3, Ats DEF Rising
    <3>2. batch.out[i] \notin claims
      <4>1. ~ (batch.out[i].at <= Base) BY <1>4, <3>1
      <4> QED BY <1>3, <4>1
    <3>3. ASSUME NEW j \in 1 .. i - 1 PROVE batch.out[j] # batch.out[i]
      <4>1. batch.out[j].at < batch.out[i].at BY <1>3 DEF Rising
      <4>2. batch.out[j].at # batch.out[i].at BY <3>1, <4>1
      <4> QED BY <4>2
    <3> QED BY <3>2, <3>3
  <2> QED BY <2>1, FreshIsAll
<1>6. /\ batch'.fresh = batch.out /\ batch'.out = batch.out /\ batch'.to = batch.to /\ stage' = "insert"
      /\ batch'.mine \subseteq ToSet(batch.out)
      /\ claims' \subseteq claims \cup batch'.mine
  <2>1. CASE Claim
    <3>1. batch' = [batch EXCEPT !.fresh = Fresh, !.mine = ToSet(Fresh)] /\ claims' = claims \cup ToSet(Fresh)
          /\ stage' = IF Fresh = <<>> THEN "ack" ELSE "insert"
      BY <2>1 DEF Claim
    <3>2. batch'.fresh = Fresh /\ batch'.mine = ToSet(Fresh) /\ batch'.out = batch.out /\ batch'.to = batch.to
      BY <3>1, Types
    <3> QED BY <1>2, <1>5, <3>1, <3>2
  <2>2. CASE ClaimLost
    <3>1. batch' = [batch EXCEPT !.fresh = batch.out] /\ stage' = "insert" /\ claims' = claims
      BY <2>2 DEF ClaimLost
    <3>2. batch'.fresh = batch.out /\ batch'.mine = batch.mine /\ batch'.out = batch.out /\ batch'.to = batch.to
      BY <3>1, Types
    <3> QED BY <1>2, <3>1, <3>2
  <2> QED BY <2>1, <2>2
<1>7. Base' = Base BY <1>1 DEF Base, LastAt
<1>8. Found' = Found BY <1>1, <1>6, <1>7 DEF Found, LastAt
<1>9. Reach' = Reach /\ End' = End BY <1>1, <1>6 DEF Reach, End
<1>10. Rising(events, 0, Reach + Lag)' BY <1>1, <1>3, <1>9 DEF Rising
<1>11. Rising(batch.out, Base, batch.to + Lag)' BY <1>3, <1>6, <1>7 DEF Rising
<1>12. Never({"handoff"})' => Never({"handoff"})
  <2>1. {"handoff"} \in SUBSET Faults BY DEF Faults
  <2>2. [Next]_vars BY DEF Next
  <2> QED BY <2>1, <2>2, Types, CalmBack
<1>13. Never({"handoff"})' => Ahead(Found, engine[owner], 1 .. End)'
  <2> SUFFICES ASSUME Never({"handoff"})' PROVE Ahead(Found, engine[owner], 1 .. End)' OBVIOUS
  <2>1. Ahead(Found, engine[owner], 1 .. End) BY <1>3, <1>12
  <2> HIDE DEF Found, End
  <2> QED BY <1>1, <1>8, <1>9, <2>1 DEF Ahead, Tries
<1>14. \A c \in claims' : c.at <= Base' \/ (stage' = "insert" /\ c \in batch'.mine) BY <1>3, <1>6, <1>7
<1>15. batch'.mine \subseteq ToSet(batch'.fresh) BY <1>6
<1>16. Timed' BY <1>6, <1>10, <1>11, <1>13, <1>14, <1>15 DEF Timed, ToSet
<1> QED BY <1>6, <1>16

\* The rows that are written are later than all before them.
LEMMA InsertTimed ==
  ASSUME TInv, Timed, Insert
  PROVE  Timed'
<1> DEFINE n == Len(events)
           l == Len(batch.fresh)
           t == events \o NewRows
           out == batch.out
           top == batch.to + Lag
<1>1. /\ stage = "insert" /\ stage' = "close" /\ events' = t
      /\ UNCHANGED <<stream, acked, fence, owner, engine, batch, claims, marker, spent>>
  BY DEF Insert, NewRows
<1>2. /\ Rising(out, Base, top) /\ batch.fresh = out /\ batch.mine \subseteq ToSet(out)
      /\ \A c \in claims : c.at <= Base \/ c \in batch.mine
      /\ Rising(events, 0, acked + Lag)
      /\ Never({"handoff"}) => Ahead(Found, engine[owner], 1 .. End)
  BY <1>1 DEF Timed, Reach
<1>3. /\ t \in Seq(Row) /\ n \in Nat /\ l \in Nat /\ Len(t) = n + l
      /\ \A i \in 1 .. n : t[i] = events[i]
      /\ \A m \in 1 .. l : t[n + m].at = out[m].at
  BY <1>2, InsertIs, Types
<1>4. Base \in Nat /\ \A i \in 1 .. n : events[i].at <= Base BY <1>2, Ats, BaseIs
<1>5. acked + Lag <= top /\ acked + Lag \in Nat /\ top \in Nat
  BY <1>1, Types, GeofenceAssumption DEF TInv, StageInv
<1>6. out \in Seq(Crossing) /\ l = Len(out) /\ out # <<>> /\ l >= 1
      /\ \A m \in 1 .. l : out[m].at \in Nat
  <2>1. out \in Seq(Crossing) /\ out # <<>> /\ l = Len(out) BY <1>1, <1>2, Types DEF TInv, StageInv
  <2>2. \A m \in 1 .. l : out[m].at \in Nat BY <2>1, Ats
  <2>3. Len(out) >= 1 BY <2>1, EmptySeq, LenProperties
  <2> QED BY <2>1, <2>2, <2>3
<1>7. /\ LastAt(out, Base) \in Nat /\ Base < LastAt(out, Base)
      /\ \A m \in 1 .. l : out[m].at <= LastAt(out, Base)
  BY <1>2, <1>4, <1>5, <1>6, LastIs
<1>8. LastAt(out, Base) = out[l].at BY <1>6 DEF LastAt
<1>9. \A m \in 1 .. l : /\ Base < out[m].at /\ out[m].at <= top
                        /\ \A j \in 1 .. m - 1 : out[j].at < out[m].at
  BY <1>2, <1>6 DEF Rising
<1>9a. \A i \in 1 .. n : /\ 0 < events[i].at /\ events[i].at <= acked + Lag /\ events[i].at \in Nat
                         /\ \A j \in 1 .. i - 1 : events[j].at < events[i].at
  BY <1>2, Ats DEF Rising
<1> HIDE DEF n, l, t, out, top
<1>10. Rising(t, 0, top)
  <2> SUFFICES ASSUME NEW i \in 1 .. n + l
               PROVE  /\ 0 < t[i].at /\ t[i].at <= top /\ \A j \in 1 .. i - 1 : t[j].at < t[i].at
    BY <1>3 DEF Rising
  <2>1. CASE i \in 1 .. n
    <3>1. t[i] = events[i] /\ \A j \in 1 .. i - 1 : t[j] = events[j] BY <1>3, <2>1, SMTT(30)
    <3>2. events[i].at <= top BY <1>5, <1>9a, <2>1
    <3> QED BY <1>9a, <2>1, <3>1, <3>2
  <2>2. CASE i \notin 1 .. n
    <3>1. i - n \in 1 .. l /\ n + (i - n) = i BY <1>3, <2>2
    <3>2. t[i].at = out[i - n].at /\ out[i - n].at \in Nat BY <1>3, <1>6, <3>1
    <3>3. Base < t[i].at /\ t[i].at <= top BY <1>9, <3>1, <3>2
    <3>4. ASSUME NEW j \in 1 .. i - 1 PROVE t[j].at < t[i].at
      <4>1. CASE j \in 1 .. n
        <5>1. t[j].at = events[j].at /\ events[j].at <= Base /\ events[j].at \in Nat BY <1>3, <1>4, <1>9a, <4>1
        <5> QED BY <1>4, <3>2, <3>3, <5>1
      <4>2. CASE j \notin 1 .. n
        <5>1. j - n \in 1 .. (i - n) - 1 /\ j - n \in 1 .. l /\ n + (j - n) = j BY <1>3, <3>1, <4>2
        <5>2. t[j].at = out[j - n].at BY <1>3, <5>1
        <5> QED BY <1>9, <3>1, <3>2, <5>1, <5>2
      <4> QED BY <4>1, <4>2
    <3>5. 0 < t[i].at BY <1>4, <3>2, <3>3
    <3> QED BY <3>3, <3>4, <3>5
  <2> QED BY <2>1, <2>2
<1>11. LastAt(t, 0) = LastAt(out, Base)
  <2>1. t # <<>>
    <3>1. Len(t) # 0 BY <1>3, <1>6
    <3> QED BY <3>1
  <2>2. l \in 1 .. l BY <1>3, <1>6
  <2>3. t[n + l].at = out[l].at BY <1>3, <2>2
  <2> QED BY <1>3, <1>8, <2>1, <2>3 DEF LastAt
<1>12. Base' = LastAt(out, Base) BY <1>1, <1>11 DEF Base, LastAt
<1>13. Found' = Found BY <1>1, <1>12 DEF Found, out
<1>14. Reach' + Lag = top /\ End' = End BY <1>1 DEF Reach, End, top
<1>15. Rising(events, 0, Reach + Lag)' BY <1>1, <1>10, <1>14 DEF Rising
<1>16. \A c \in claims' : c.at <= Base'
  <2> SUFFICES ASSUME NEW c \in claims PROVE c.at <= LastAt(out, Base) BY <1>1, <1>12
  <2>1. c.at \in Nat BY Ats
  <2>2. CASE c.at <= Base BY <1>4, <1>7, <2>1, <2>2
  <2>3. CASE c \in batch.mine
    <3>1. PICK m \in 1 .. l : c = out[m] BY <1>2, <1>6, <2>3, ToSetIs
    <3> QED BY <1>7, <3>1
  <2> QED BY <1>2, <2>2, <2>3
<1>17. Never({"handoff"})' => Ahead(Found, engine[owner], 1 .. End)'
  <2> SUFFICES ASSUME Never({"handoff"})' PROVE Ahead(Found, engine[owner], 1 .. End)' OBVIOUS
  <2>1. Never({"handoff"}) BY <1>1 DEF Never
  <2>2. Ahead(Found, engine[owner], 1 .. End) BY <1>2, <2>1
  <2> HIDE DEF Found, End
  <2> QED BY <1>1, <1>13, <1>14, <2>2 DEF Ahead, Tries
<1>18. batch'.fresh = batch'.out BY <1>1, <1>2 DEF out
<1> QED BY <1>1, <1>15, <1>16, <1>17, <1>18 DEF Timed

\* A failed insert releases its claims, and the engine is past what it found.
LEMMA InsertFailsTimed ==
  ASSUME TInv, Timed, InsertFails
  PROVE  Timed'
<1>1. /\ stage = "insert" /\ stage' = "ack" /\ claims' = claims \ batch.mine
      /\ engine' = [engine EXCEPT ![owner] = [seen |-> @.seen, pair |-> Rolled(@.pair, batch.out)]]
      /\ UNCHANGED <<stream, acked, fence, owner, batch, marker, events>>
  BY DEF InsertFails
<1>2. /\ Rising(batch.out, Base, batch.to + Lag) /\ Rising(events, 0, acked + Lag)
      /\ \A c \in claims : c.at <= Base \/ c \in batch.mine
      /\ Never({"handoff"}) => Ahead(Found, engine[owner], 1 .. End)
  BY <1>1 DEF Timed, Reach
<1>3. Base \in Nat BY <1>2, Ats, BaseIs
<1>4. Base' = Base BY <1>1 DEF Base, LastAt
<1>5. Found' = Base /\ Reach' = batch.to /\ Found = LastAt(batch.out, Base)
  BY <1>1, <1>4 DEF Found, Reach
<1>6. Rising(events, 0, batch.to + Lag)
  <2>1. acked + Lag <= batch.to + Lag BY <1>1, Types, GeofenceAssumption, SMTT(30) DEF TInv, StageInv
  <2> QED BY <1>2, <2>1, Types, Ats, RisingMore
<1>7. Rising(events, 0, Reach + Lag)' BY <1>1, <1>5, <1>6 DEF Rising
<1>8. \A c \in claims' : c.at <= Base' BY <1>1, <1>2, <1>4
<1>9. Never({"handoff"})' => Ahead(Found, engine[owner], 1 .. End)'
  <2> SUFFICES ASSUME Never({"handoff"})' PROVE Ahead(Found, engine[owner], 1 .. End)' OBVIOUS
  <2>1. Never({"handoff"})
    <3>1. {"handoff"} \in SUBSET Faults BY DEF Faults
    <3>2. [Next]_vars BY DEF Next
    <3> QED BY <3>1, <3>2, Types, CalmBack
  <2>2. Ahead(LastAt(batch.out, Base), engine[owner], 1 .. End) BY <1>2, <1>5, <2>1
  <2>3. LastAt(batch.out, Base) \in Nat /\ Base < LastAt(batch.out, Base)
    <3>1. batch.out # <<>> BY <1>1 DEF TInv, StageInv
    <3> QED BY <1>2, <1>3, <3>1, Types, Ats, LastIs
  <2>4. LastAt(batch.out, Base) <= engine[owner].seen /\ engine[owner].seen \in Nat
    BY <1>3, <2>2, <2>3, Types DEF Ahead, Mem
  <2>5. engine'[owner'].seen = engine[owner].seen BY <1>1, Types
  <2>6. Found' < engine'[owner'].seen BY <1>3, <1>5, <2>3, <2>4, <2>5
  <2> QED BY <2>6 DEF Ahead
<1> QED BY <1>1, <1>7, <1>8, <1>9 DEF Timed

\* Every step keeps the order of time.
LEMMA TimesKeep == ASSUME TInv, TimesInv, [Next]_vars PROVE TimesInv'
<1> SUFFICES ASSUME Quiet' PROVE Timed' BY DEF TimesInv
<1>1. Quiet /\ Timed BY Types, CalmBack DEF TimesInv
<1>2. TInv' BY TypeKeeps
<1>3. Never({"handoff"})' => Never({"handoff"})
  <2>1. {"handoff"} \in SUBSET Faults BY DEF Faults
  <2> QED BY <2>1, Types, CalmBack
<1>4. SameRows(events, events) BY DEF SameRows
<1>5. \A i \in 1 .. End : i \in 1 .. Len(stream) BY Types DEF End
<1>6. CASE Crash
  <2>1. "crash" \in Faults BY DEF Faults
  <2>2. ~ Never({"crash"})' BY <1>6, <2>1, Types, Spoils DEF Crash
  <2> QED BY <2>2 DEF Quiet
<1>7. CASE Feed BY <1>1, <1>7, FeedTimed
<1>8. CASE Claim \/ ClaimLost BY <1>1, <1>8, ClaimTimed
<1>9. CASE Insert BY <1>1, <1>9, InsertTimed
<1>10. CASE InsertFails BY <1>1, <1>10, InsertFailsTimed
<1>11. CASE Fix \/ Edit \/ Handoff \/ UNCHANGED vars
  <2>1. events' = events /\ claims' = claims /\ stage' = stage /\ batch' = batch /\ acked' = acked
        /\ engine' = engine
    BY <1>11 DEF Fix, Edit, Handoff, vars
  <2>2. Reach' = Reach /\ End' = End BY <2>1 DEF Reach, End
  <2>3. \A i \in 1 .. End : stream'[i] = stream[i]
    <3>1. CASE Fix
      <4>1. PICK r \in FixType : stream' = Append(stream, r)
        <5>1. PICK s \in Sides, u \in BOOLEAN, lag \in {0, Lag} :
                stream' = Append(stream, [side |-> s, usable |-> u, at |-> Len(stream) + 1 + Lag - lag])
          BY <3>1 DEF Fix
        <5>2. Len(stream) + 1 + Lag - lag \in Nat BY Types, GeofenceAssumption
        <5> QED BY <5>1, <5>2 DEF FixType
      <4> QED BY <1>5, <4>1, Types, AppendProperties
    <3>2. CASE ~ Fix BY <1>11, <3>2 DEF Edit, Handoff, vars
    <3> QED BY <3>1, <3>2
  <2>4. Never({"handoff"})' => owner' = owner
    <3>1. CASE Handoff
      <4>1. "handoff" \in Faults BY DEF Faults
      <4> QED BY <3>1, <4>1, Types, Spoils DEF Handoff
    <3>2. CASE ~ Handoff BY <1>11, <3>2 DEF Fix, Edit, vars
    <3> QED BY <3>1, <3>2
  <2> QED BY <1>1, <1>2, <1>3, <1>4, <2>1, <2>2, <2>3, <2>4, TimesStay
<1>12. CASE Close \/ Save \/ Ack
  <2>1. claims' = claims /\ engine' = engine /\ stream' = stream /\ owner' = owner
    BY <1>12 DEF Close, Save, Ack
  <2>2. SameRows(events', events)
    <3>1. Len(batch.fresh) \in 0 .. Len(batch.fresh) BY Types, LenProperties
    <3>2. SameRows(Closing(events, batch.fresh)[Len(batch.fresh)], events) BY <3>1, Types, ClosingIsSame
    <3> QED BY <1>4, <1>12, <3>2 DEF Close, Save, Ack
  <2>3. Reach' = Reach /\ End' = End BY <1>12, Types DEF Close, Save, Ack, Reach, End
  <2>4. /\ stage \notin {"claim", "insert"} /\ stage' \notin {"claim", "insert"}
        /\ stage' \in {"close", "save"} => stage \in {"close", "save"} /\ batch' = batch
    BY <1>12 DEF Close, Save, Ack
  <2> QED BY <1>1, <1>2, <1>3, <2>1, <2>2, <2>3, <2>4, TimesStay
<1> QED BY <1>6, <1>7, <1>8, <1>9, <1>10, <1>11, <1>12 DEF Next

-----------------------------------------------------------------------------
(* The side.                                                               *)

\* The recorded side is that of the last row.
LEMMA RecordedIs ==
  ASSUME TInv
  PROVE  /\ RecordedInside \in BOOLEAN
         /\ events = <<>> => ~ RecordedInside
         /\ events # <<>> => Len(events) >= 1 /\ RecordedInside = (events[Len(events)].side = "in")
<1>1. events \in Seq(Row) /\ Len(events) \in Nat BY Types
<1>2. events # <<>> => Len(events) >= 1 BY <1>1, EmptySeq
<1> QED BY <1>2 DEF RecordedInside, Last

\* The close leaves the recorded side.
LEMMA RecordedStays ==
  ASSUME TInv, TInv', SameRows(events', events)
  PROVE  RecordedInside' = RecordedInside
<1>1. events \in Seq(Row) /\ Len(events) \in Nat BY Types
<1>2. events' \in Seq(Row) BY DEF TInv, TypeOK, Row
<1>3. (events' = <<>>) <=> (events = <<>>) BY <1>1, <1>2, EmptySeq DEF SameRows
<1>4. events # <<>> => Len(events) \in 1 .. Len(events) BY <1>1, EmptySeq
<1> QED BY <1>3, <1>4 DEF RecordedInside, Last, SameRows

\* Steps that leave the engine, the marker and the order of the rows.
LEMMA SideStays ==
  ASSUME TInv, TInv', Sided, Undisturbed' => Undisturbed, SameRows(events', events), marker' = marker,
         engine'[owner'] = engine[owner],
         \/ stage' = stage /\ batch' = batch
         \/ stage = "ack" /\ stage' = "idle"
         \/ stage = "close" /\ stage' = "save" /\ batch' = batch
  PROVE  Sided'
<1>1. RecordedInside' = RecordedInside BY RecordedStays
<1>2. Before(engine[owner])' = Before(engine[owner]) BY DEF Before
<1>3. \A i \in 1 .. Len(events') - 1 : events'[i].side # events'[i + 1].side
  <2>1. Len(events') = Len(events) /\ Len(events) \in Nat BY Types DEF SameRows
  <2>2. \A i \in 1 .. Len(events) - 1 : i \in 1 .. Len(events) /\ i + 1 \in 1 .. Len(events) BY <2>1
  <2> QED BY <2>1, <2>2 DEF Sided, SameRows
<1> HIDE DEF RecordedInside, Before
<1>4. CASE stage' = stage /\ batch' = batch
  <2> USE DEF Sided
  <2>1. stage' \in {"idle", "ack"} => Before(engine[owner])'.inside = RecordedInside'
    BY <1>1, <1>2, <1>4
  <2>2. stage' \in {"claim", "insert"} =>
          /\ Alternates(batch.out, RecordedInside)' /\ engine'[owner'].pair # None
          /\ engine'[owner'].pair.inside = Inside(batch'.out[Len(batch'.out)].side)
    BY <1>1, <1>4 DEF Alternates
  <2>3. stage' \in {"close", "save"} =>
          /\ RecordedInside' = Inside(batch'.fresh[Len(batch'.fresh)].side)
          /\ engine'[owner'].pair # None /\ engine'[owner'].pair.inside = RecordedInside'
    BY <1>1, <1>4
  <2>4. Undisturbed' /\ stage' \notin {"close", "save"} => marker' = RecordedInside'
    BY <1>1, <1>4
  <2> QED BY <1>3, <2>1, <2>2, <2>3, <2>4
<1>5. CASE stage = "ack" /\ stage' = "idle" BY <1>1, <1>2, <1>3, <1>5 DEF Sided
<1>6. CASE stage = "close" /\ stage' = "save" /\ batch' = batch BY <1>1, <1>3, <1>6 DEF Sided
<1> QED BY <1>4, <1>5, <1>6

\* A worker that gets the shard for the first time starts from the marker.
LEMMA HandoffSided ==
  ASSUME TInv, OwnInv, Sided, Undisturbed', Handoff
  PROVE  Sided'
<1>1. /\ stage = "idle" /\ owner' \in Workers /\ owner' # owner
      /\ UNCHANGED <<engine, stage, batch, marker, events>>
  BY DEF Handoff
<1>2. "handoff" \in Faults /\ "crash" \in Faults BY DEF Faults
<1>3. spent'["handoff"] = spent["handoff"] + 1 /\ spent["handoff"] \in Nat
  BY <1>2, Types, SpendIs DEF Handoff
<1>4. spent["handoff"] = 0 BY <1>3 DEF Undisturbed
<1>5. Undisturbed
  <2>1. [Next]_vars BY DEF Next
  <2> QED BY <2>1, Types, CalmBack
<1>6. Never({"handoff", "crash"}) BY <1>4, <1>5 DEF Undisturbed, Never
<1>7. engine[owner'] = Unseen BY <1>1, <1>6 DEF OwnInv
<1>8. marker = RecordedInside /\ marker \in BOOLEAN BY <1>1, <1>5, Types DEF Sided, Bools
<1>9. Before(engine[owner])' = Settled(marker) BY <1>1, <1>7 DEF Before, Unseen, Settled
<1>10. RecordedInside' = RecordedInside BY <1>1 DEF RecordedInside
<1>11. Before(engine[owner])'.inside = RecordedInside' BY <1>8, <1>9, <1>10, SettledIs
<1>12. \A i \in 1 .. Len(events') - 1 : events'[i].side # events'[i + 1].side BY <1>1 DEF Sided
<1> HIDE DEF RecordedInside
<1> QED BY <1>1, <1>8, <1>10, <1>11, <1>12 DEF Sided

\* A batch leaves the engine on the side of its last transition; an engine that is
\* pruned because the fence is gone falls back to the marker.
LEMMA FeedSided ==
  ASSUME TInv, OwnInv, Steady, Sided, Feed
  PROVE  Sided'
<1>1. PICK k, r : FeedDoes(k, r) BY FeedIs
<1> DEFINE e == engine[owner]
<1>2. /\ k \in Nat /\ acked + k <= Len(stream) /\ r = Feeding(e, Due(k))[k] /\ r \in Run /\ Short(r.pair)
      /\ stage = "idle" /\ stage' = IF r.out = <<>> THEN "ack" ELSE "claim"
      /\ UNCHANGED <<stream, acked, fence, owner, claims, marker, events, spent>>
  BY <1>1 DEF FeedDoes
<1>3. /\ engine'[owner] = [seen |-> r.seen, pair |-> IF r.any /\ ~fence THEN None ELSE r.pair]
      /\ batch'.out = r.out
  BY <1>1, FeedTypes
<1>4. Before(e).inside = RecordedInside BY <1>2 DEF Sided
<1>5. Follows(r, RecordedInside)
  <2>1. Due(k) \in Seq(FixType) /\ Len(Due(k)) = k BY <1>2, Types, DueIs
  <2>2. k \in 0 .. Len(Due(k)) BY <1>2, <2>1
  <2>3. Follows(Feeding(e, Due(k))[k], Before(e).inside)
    <3>1. e \in Mem /\ Short(e.pair) /\ Bools BY Types
    <3> HIDE DEF e
    <3> QED BY <2>1, <2>2, <3>1, FeedingFollows
  <2> QED BY <1>2, <1>4, <2>3
<1>6. RecordedInside' = RecordedInside BY <1>2 DEF RecordedInside
<1>7. Undisturbed => marker = RecordedInside BY <1>2 DEF Sided
<1>8. Undisturbed' => marker' = RecordedInside'
  <2>1. Undisturbed' => Undisturbed BY <1>2 DEF Undisturbed, Never
  <2> QED BY <1>2, <1>6, <1>7, <2>1
<1>9. \A i \in 1 .. Len(events') - 1 : events'[i].side # events'[i + 1].side BY <1>2 DEF Sided
<1>10. CASE r.out = <<>>
  <2>1. Before(engine[owner])'.inside = RecordedInside
    <3>1. CASE r.any /\ ~ fence
      <4>1. ~ Never({"edit"}) BY <3>1 DEF OwnInv
      <4>2. Undisturbed BY <4>1 DEF Steady, Never
      <4>3. Before(engine[owner])' = Settled(marker) BY <1>2, <1>3, <3>1 DEF Before, Settled
      <4>4. marker \in BOOLEAN BY Types DEF Bools
      <4> QED BY <1>7, <4>2, <4>3, <4>4, SettledIs
    <3>2. CASE ~ (r.any /\ ~ fence)
      <4>1. engine'[owner'].pair = r.pair BY <1>2, <1>3, <3>2
      <4>2. Before(engine[owner])' = Before(r) BY <1>2, <4>1 DEF Before, Settled
      <4> QED BY <1>5, <1>10, <4>2 DEF Follows
    <3> QED BY <3>1, <3>2
  <2> HIDE DEF RecordedInside
  <2> QED BY <1>2, <1>6, <1>8, <1>9, <1>10, <2>1 DEF Sided
<1>11. CASE r.out # <<>>
  <2>1. r.pair # None /\ r.pair.inside = (r.out[Len(r.out)].side = "in") /\ fence BY <1>5, <1>11 DEF Follows
  <2>2. engine'[owner'].pair = r.pair BY <1>2, <1>3, <2>1
  <2>3. Alternates(r.out, RecordedInside) BY <1>5 DEF Follows
  <2>4. Alternates(batch.out, RecordedInside)' BY <1>3, <1>6, <2>3 DEF Alternates
  <2>5. engine'[owner'].pair.inside = Inside(batch'.out[Len(batch'.out)].side)
    BY <1>3, <2>1, <2>2 DEF Inside
  <2> HIDE DEF RecordedInside
  <2> QED BY <1>2, <1>8, <1>9, <1>11, <2>1, <2>2, <2>4, <2>5 DEF Sided, Inside
<1> QED BY <1>10, <1>11

\* The first row that is written has the other side than the one before it.
LEMMA InsertSided ==
  ASSUME TInv, TInv', Timed, Sided, Insert
  PROVE  Sided'
<1> DEFINE n == Len(events)
           l == Len(batch.fresh)
           t == events \o NewRows
           out == batch.out
<1>1. /\ stage = "insert" /\ stage' = "close" /\ events' = t
      /\ UNCHANGED <<stream, acked, fence, owner, engine, batch, claims, marker, spent>>
  BY DEF Insert, NewRows
<1>2. batch.fresh = out BY <1>1 DEF Timed
<1>3. /\ t \in Seq(Row) /\ n \in Nat /\ l \in Nat /\ Len(t) = n + l
      /\ \A i \in 1 .. n : t[i] = events[i]
      /\ \A m \in 1 .. l : t[n + m].side = out[m].side
  BY <1>2, InsertIs, Types
<1>4. out \in Seq(Crossing) /\ l = Len(out) /\ out # <<>> /\ l >= 1
  <2>1. out \in Seq(Crossing) /\ out # <<>> /\ l = Len(out) BY <1>1, <1>2, Types DEF TInv, StageInv
  <2>2. Len(out) >= 1 BY <2>1, EmptySeq, LenProperties
  <2> QED BY <2>1, <2>2
<1>5. \A m \in 1 .. l : out[m].side \in Sides
  <2>1. \A m \in 1 .. l : out[m] \in Crossing BY <1>4, Ats
  <2> QED BY <2>1 DEF Crossing
<1>6. /\ \A i \in 1 .. n - 1 : events[i].side # events[i + 1].side
      /\ \A m \in 1 .. l - 1 : out[m].side # out[m + 1].side
      /\ (out[1].side = "out") = RecordedInside
      /\ engine[owner].pair # None /\ engine[owner].pair.inside = Inside(out[l].side)
  BY <1>1, <1>4 DEF Sided, Alternates
<1>7. n # 0 => events[n].side # out[1].side
  <2> SUFFICES ASSUME n # 0 PROVE events[n].side # out[1].side OBVIOUS
  <2>1. events # <<>> BY DEF n
  <2>2. RecordedInside = (events[n].side = "in") BY <2>1, RecordedIs
  <2>3. 1 \in 1 .. l /\ n \in 1 .. n BY <1>3, <1>4
  <2>4. events[n].side \in Sides /\ out[1].side \in Sides
    <3>1. events[n] \in Row BY <2>3, Ats
    <3> QED BY <1>5, <2>3, <3>1 DEF Row
  <2> HIDE DEF n, out, RecordedInside
  <2> QED BY <1>6, <2>2, <2>4 DEF Sides
<1> HIDE DEF n, l, t, out
<1>8. ASSUME NEW i \in 1 .. n + l - 1 PROVE t[i].side # t[i + 1].side
  <2>1. CASE i < n
    <3>1. i \in 1 .. n /\ i + 1 \in 1 .. n /\ i \in 1 .. n - 1 BY <1>3, <2>1
    <3> QED BY <1>3, <1>6, <3>1
  <2>2. CASE i = n
    <3>1. i \in 1 .. n /\ 1 \in 1 .. l /\ i + 1 = n + 1 /\ n # 0 BY <1>3, <1>4, <2>2
    <3>2. t[i] = events[n] BY <1>3, <2>2, <3>1
    <3>3. t[n + 1].side = out[1].side BY <1>3, <3>1
    <3> QED BY <1>7, <3>1, <3>2, <3>3
  <2>3. CASE i > n
    <3>1. i - n \in 1 .. l /\ i - n \in 1 .. l - 1 /\ (i - n) + 1 \in 1 .. l /\ n + (i - n) = i
          /\ n + ((i - n) + 1) = i + 1
      BY <1>3, <2>3
    <3>2. t[n + (i - n)].side = out[i - n].side /\ t[n + ((i - n) + 1)].side = out[(i - n) + 1].side
      BY <1>3, <3>1
    <3>3. out[i - n].side # out[(i - n) + 1].side BY <1>6, <3>1
    <3> QED BY <3>1, <3>2, <3>3
  <2> QED BY <1>3, <2>1, <2>2, <2>3
<1>9. RecordedInside' = Inside(out[l].side)
  <2>1. t # <<>>
    <3>1. Len(t) # 0 BY <1>3, <1>4
    <3> QED BY <3>1
  <2>2. l \in 1 .. l BY <1>3, <1>4
  <2>3. t[n + l].side = out[l].side BY <1>3, <2>2
  <2> QED BY <1>1, <1>3, <2>1, <2>3 DEF RecordedInside, Last, Inside
<1>10. batch'.fresh[Len(batch'.fresh)] = out[l] BY <1>1, <1>2, <1>4 DEF l
<1>11. engine'[owner'] = engine[owner] BY <1>1
<1>12. \A i \in 1 .. Len(events') - 1 : events'[i].side # events'[i + 1].side BY <1>1, <1>3, <1>8
<1> HIDE DEF RecordedInside
<1> QED BY <1>1, <1>6, <1>9, <1>10, <1>11, <1>12 DEF Sided

\* rollback takes the engine back to the recorded side.
LEMMA InsertFailsSided ==
  ASSUME TInv, Sided, Undisturbed' => Undisturbed, InsertFails
  PROVE  Sided'
<1>1. /\ stage = "insert" /\ stage' = "ack"
      /\ engine' = [engine EXCEPT ![owner] = [seen |-> @.seen, pair |-> Rolled(@.pair, batch.out)]]
      /\ UNCHANGED <<stream, acked, fence, owner, batch, marker, events>>
  BY DEF InsertFails
<1>2. /\ batch.out # <<>> /\ engine[owner].pair # None /\ (batch.out[1].side = "out") = RecordedInside
      /\ Undisturbed => marker = RecordedInside
  BY <1>1 DEF TInv, StageInv, Sided, Alternates
<1>3. engine'[owner'].pair = Settled(RecordedInside)
  <2>1. engine'[owner'].pair = Rolled(engine[owner].pair, batch.out) BY <1>1, Types
  <2>2. Head(batch.out) = batch.out[1] OBVIOUS
  <2> HIDE DEF RecordedInside
  <2> QED BY <1>2, <2>1, <2>2 DEF Rolled
<1>4. Settled(RecordedInside) # None /\ Settled(RecordedInside).inside = RecordedInside
  BY RecordedIs, SettledIs
<1>5. Before(engine[owner])' = Settled(RecordedInside) BY <1>3, <1>4 DEF Before
<1>6. RecordedInside' = RecordedInside BY <1>1 DEF RecordedInside
<1>7. \A i \in 1 .. Len(events') - 1 : events'[i].side # events'[i + 1].side BY <1>1 DEF Sided
<1> HIDE DEF RecordedInside
<1> QED BY <1>1, <1>2, <1>4, <1>5, <1>6, <1>7 DEF Sided

\* The marker is saved as the side that was just recorded.
LEMMA SaveSided ==
  ASSUME TInv, Sided, Save
  PROVE  Sided'
<1>1. /\ stage = "save" /\ stage' = "ack"
      /\ UNCHANGED <<stream, acked, fence, owner, engine, batch, claims, events>>
  BY DEF Save
<1>2. /\ RecordedInside = Inside(batch.fresh[Len(batch.fresh)].side)
      /\ engine[owner].pair # None /\ engine[owner].pair.inside = RecordedInside
  BY <1>1 DEF Sided
<1>3. Before(engine[owner])' = engine[owner].pair BY <1>1, <1>2 DEF Before
<1>4. RecordedInside' = RecordedInside BY <1>1 DEF RecordedInside
<1>5. Undisturbed' => marker' = RecordedInside
  <2>1. CASE marker' = (Last(batch.fresh).side = "in") BY <1>2, <2>1 DEF Last, Inside
  <2>2. CASE Spend("loss")
    <3>1. "loss" \in Faults BY DEF Faults
    <3>2. ~ Never({"loss", "crash"})' BY <2>2, <3>1, Types, Spoils
    <3> QED BY <3>2 DEF Undisturbed
  <2> QED BY <2>1, <2>2 DEF Save
<1>6. \A i \in 1 .. Len(events') - 1 : events'[i].side # events'[i + 1].side BY <1>1 DEF Sided
<1> HIDE DEF RecordedInside
<1> QED BY <1>1, <1>2, <1>3, <1>4, <1>5, <1>6 DEF Sided

\* Every step keeps the side.
LEMMA SideKeep == ASSUME TInv, OwnInv, TimesInv, SideInv, [Next]_vars PROVE SideInv'
<1> SUFFICES ASSUME Steady' PROVE Sided' BY DEF SideInv
<1>1. Steady /\ Sided /\ Timed /\ (Undisturbed' => Undisturbed) BY Types, CalmBack DEF SideInv, TimesInv
<1>2. TInv' BY TypeKeeps
<1>3. SameRows(events, events) BY DEF SameRows
<1>4. "crash" \in Faults /\ "handoff" \in Faults BY DEF Faults
<1>5. CASE Crash
  <2>1. ~ Never({"loss", "crash"})' /\ ~ Never({"handoff", "edit", "crash"})'
    BY <1>4, <1>5, Types, Spoils DEF Crash
  <2> QED BY <2>1 DEF Steady, Undisturbed
<1>6. CASE Handoff
  <2>1. ~ Never({"handoff", "edit", "crash"})' BY <1>4, <1>6, Types, Spoils DEF Handoff
  <2> QED BY <1>1, <1>6, <2>1, HandoffSided DEF Steady
<1>7. CASE Feed BY <1>1, <1>7, FeedSided
<1>8. CASE Insert BY <1>1, <1>2, <1>8, InsertSided
<1>9. CASE InsertFails BY <1>1, <1>9, InsertFailsSided
<1>10. CASE Save BY <1>1, <1>10, SaveSided
<1>11. CASE Claim \/ ClaimLost
  <2>1. stage' = "insert" /\ batch'.out = batch.out BY <1>1, <1>11, ClaimTimed
  <2>2. stage = "claim" /\ UNCHANGED <<owner, engine, marker, events>> BY <1>11 DEF Claim, ClaimLost
  <2>3. RecordedInside' = RecordedInside BY <2>2 DEF RecordedInside
  <2>4. Alternates(batch.out, RecordedInside)'
    <3> HIDE DEF RecordedInside
    <3> QED BY <1>1, <2>1, <2>2, <2>3 DEF Sided, Alternates
  <2>5. \A i \in 1 .. Len(events') - 1 : events'[i].side # events'[i + 1].side BY <1>1, <2>2 DEF Sided
  <2> HIDE DEF RecordedInside
  <2> QED BY <1>1, <2>1, <2>2, <2>3, <2>4, <2>5 DEF Sided
<1>12. CASE Fix \/ Edit \/ Ack \/ UNCHANGED vars
  <2>1. events' = events /\ engine' = engine /\ owner' = owner /\ marker' = marker
    BY <1>12 DEF Fix, Edit, Ack, vars
  <2>2. (stage' = stage /\ batch' = batch) \/ (stage = "ack" /\ stage' = "idle")
    <3>1. CASE Ack BY <3>1 DEF Ack
    <3>2. CASE ~ Ack BY <1>12, <3>2 DEF Fix, Edit, vars
    <3> QED BY <3>1, <3>2
  <2> QED BY <1>1, <1>2, <1>3, <2>1, <2>2, SideStays
<1>13. CASE Close
  <2>1. SameRows(events', events)
    <3>1. Len(batch.fresh) \in 0 .. Len(batch.fresh) BY Types, LenProperties
    <3>2. SameRows(Closing(events, batch.fresh)[Len(batch.fresh)], events) BY <3>1, Types, ClosingIsSame
    <3> QED BY <1>3, <1>13, <3>2 DEF Close
  <2>2. engine' = engine /\ owner' = owner /\ marker' = marker /\ batch' = batch
        /\ stage = "close" /\ stage' = "save"
    BY <1>13 DEF Close
  <2> QED BY <1>1, <1>2, <2>1, <2>2, SideStays
<1> QED BY <1>5, <1>6, <1>7, <1>8, <1>9, <1>10, <1>11, <1>12, <1>13 DEF Next

-----------------------------------------------------------------------------
(* The ends of the rows.                                                   *)

\* New rows come after the last one, which has not ended.
LEMMA InsertEnded ==
  ASSUME TInv, Ended, Insert
  PROVE  Ended'
<1> DEFINE n == Len(events)
           l == Len(batch.fresh)
           t == events \o NewRows
<1>1. stage' = "close" /\ events' = t /\ batch' = batch BY DEF Insert, NewRows
<1>2. /\ n \in Nat /\ l \in Nat /\ Len(t) = n + l
      /\ \A i \in 1 .. n : t[i] = events[i]
      /\ \A m \in 1 .. l : batch.fresh[m] = Key(t[n + m]) /\ t[n + m].ended = 0
  <2>1. \A m \in 1 .. l : Key(t[n + m]) = batch.fresh[m] /\ t[n + m].ended = 0 BY InsertIs
  <2> QED BY <2>1, InsertIs, Types
<1>3. \A i \in 1 .. n : events[i].ended # 0 => i < n /\ events[i].ended = events[i + 1].at
  BY DEF Ended, Linked
<1> HIDE DEF n, l, t
<1>4. \A i \in 1 .. n + l : i \notin 1 .. n => t[i].ended = 0
  <2> SUFFICES ASSUME NEW i \in 1 .. n + l, i \notin 1 .. n PROVE t[i].ended = 0 OBVIOUS
  <2>1. i - n \in 1 .. l /\ n + (i - n) = i BY <1>2
  <2> QED BY <1>2, <2>1
<1>5. ASSUME NEW i \in 1 .. n + l, t[i].ended # 0
      PROVE  i \in 1 .. n /\ i < n /\ i + 1 \in 1 .. n /\ t[i].ended = t[i + 1].at
  <2>1. i \in 1 .. n BY <1>4, <1>5
  <2>2. i < n /\ t[i].ended = events[i + 1].at BY <1>2, <1>3, <1>5, <2>1
  <2>3. i + 1 \in 1 .. n BY <1>2, <2>1, <2>2
  <2> QED BY <1>2, <2>1, <2>2, <2>3
<1>6. Linked(t) BY <1>2, <1>5 DEF Linked
<1>7. ASSUME NEW i \in 1 .. n + l, i >= n PROVE t[i].ended = 0
  <2>1. ~ (i \in 1 .. n /\ i < n) BY <1>2, <1>7
  <2> QED BY <1>5, <2>1
<1>8. /\ Len(t) = n + l
      /\ \A m \in 1 .. l : batch.fresh[m] = Key(t[n + m])
      /\ \A i \in 1 .. Len(t) : i >= n => t[i].ended = 0
  BY <1>2, <1>7
<1>9. Linked(events)' BY <1>1, <1>6 DEF Linked
<1>10. \E b \in Nat :
         /\ Len(events') = b + Len(batch'.fresh)
         /\ \A m \in 1 .. Len(batch'.fresh) : batch'.fresh[m] = Key(events'[b + m])
         /\ \A i \in 1 .. Len(events') : i >= b => events'[i].ended = 0
  BY <1>1, <1>2, <1>8 DEF l
<1> QED BY <1>9, <1>10 DEF Ended, Key

\* Each of the new rows ends the one before it.
LEMMA CloseEnded ==
  ASSUME TInv, Timed, Sided, Ended, Close
  PROVE  Ended'
<1>1. stage = "close" /\ stage' = "save" BY DEF Close
<1>2. CASE events' = events BY <1>1, <1>2 DEF Ended, Linked
<1>3. CASE events' = Closing(events, batch.fresh)[Len(batch.fresh)]
  <2>1. PICK b \in Nat :
          /\ Len(events) = b + Len(batch.fresh)
          /\ \A m \in 1 .. Len(batch.fresh) : batch.fresh[m] = Key(events[b + m])
          /\ \A i \in 1 .. Len(events) : i >= b => events[i].ended = 0
    BY <1>1 DEF Ended
  <2>2. InTurn(events) BY DEF InTurn, Timed, Sided, Rising
  <2>3. \A m \in 1 .. Len(batch.fresh) :
          batch.fresh[m].side = events[b + m].side /\ batch.fresh[m].at = events[b + m].at
    <3> SUFFICES ASSUME NEW m \in 1 .. Len(batch.fresh)
                 PROVE  batch.fresh[m].side = events[b + m].side /\ batch.fresh[m].at = events[b + m].at
      OBVIOUS
    <3>1. batch.fresh[m] = [side |-> events[b + m].side, at |-> events[b + m].at] BY <2>1 DEF Key
    <3> QED BY <3>1
  <2>4. Len(batch.fresh) \in 0 .. Len(batch.fresh) BY Types, LenProperties
  <2>5. Linked(Closing(events, batch.fresh)[Len(batch.fresh)])
    BY <2>1, <2>2, <2>3, <2>4, Types, ClosingLinks DEF Ended
  <2> QED BY <1>1, <1>3, <2>5 DEF Ended, Linked
<1> QED BY <1>2, <1>3 DEF Close

\* Every step keeps the ends of the rows.
LEMMA LinkKeep == ASSUME TInv, TimesInv, SideInv, LinkInv, [Next]_vars PROVE LinkInv'
<1> SUFFICES ASSUME Steady' PROVE Ended' BY DEF LinkInv
<1>1. Steady /\ Sided /\ Timed BY Types, CalmBack DEF SideInv, TimesInv
<1>2. Ended BY <1>1 DEF LinkInv
<1>3. CASE Insert BY <1>2, <1>3, InsertEnded
<1>4. CASE Close BY <1>1, <1>2, <1>4, CloseEnded
<1>5. CASE Claim \/ ClaimLost \/ Crash \/ Feed \/ InsertFails \/ Save \/ Ack
  <2>1. events' = events BY <1>5 DEF Claim, ClaimLost, Crash, Feed, InsertFails, Save, Ack
  <2>2. stage' # "close"
    <3>1. CASE Claim \/ ClaimLost \/ Crash \/ InsertFails \/ Save \/ Ack
      BY <3>1 DEF Claim, ClaimLost, Crash, InsertFails, Save, Ack
    <3>2. CASE Feed
      <4>1. PICK k, r : FeedDoes(k, r) BY <3>2, FeedIs
      <4> QED BY <4>1 DEF FeedDoes
    <3> QED BY <1>5, <3>1, <3>2
  <2> QED BY <1>2, <2>1, <2>2 DEF Ended, Linked
<1>6. CASE Fix \/ Edit \/ Handoff \/ UNCHANGED vars
  <2>1. events' = events /\ stage' = stage /\ batch' = batch BY <1>6 DEF Fix, Edit, Handoff, vars
  <2> QED BY <1>2, <2>1 DEF Ended, Linked, Key
<1> QED BY <1>3, <1>4, <1>5, <1>6 DEF Next

-----------------------------------------------------------------------------
(* The fixes at the end of the stream.                                     *)

\* Steps that leave the engine and the fixes that it has taken in.
LEMMA TrailStays ==
  ASSUME TInv, Trailed, engine'[owner'] = engine[owner], End' = End, Len(stream') \in Nat,
         Len(stream) <= Len(stream'), \A i \in 1 .. Len(stream) : stream'[i] = stream[i]
  PROVE  Trailed'
<1>1. Len(stream) \in Nat /\ End \in Nat /\ End <= Len(stream) BY Types DEF End
<1> HIDE DEF End
<1>2. \A i \in 1 .. End : i \in 1 .. Len(stream) /\ i \in 1 .. Len(stream') BY <1>1
<1>3. Usable \subseteq 1 .. Len(stream) /\ Usable' \subseteq 1 .. Len(stream') BY DEF Usable
<1>4. \A i \in 1 .. Len(stream) : i \in Usable' <=> i \in Usable
  <2>1. \A i \in 1 .. Len(stream) : i \in 1 .. Len(stream') BY <1>1
  <2> QED BY <2>1 DEF Usable
<1>5. Usable' \cap 1 .. End = Usable \cap 1 .. End BY <1>2, <1>4
<1>6. SeenBy(engine[owner], 1 .. End)'
  <2>1. SeenBy(engine[owner], 1 .. End) BY DEF Trailed
  <2>2. \A j \in Usable \cap 1 .. End : stream'[j] = stream[j] BY <1>2
  <2> HIDE DEF Usable
  <2> QED BY <1>5, <2>1, <2>2 DEF SeenBy
<1>7. ASSUME NEW q \in 1 .. Len(stream'), NEW s \in Sides, OneSide(q, s, End)'
      PROVE  Holds(engine[owner], q, s, 1 .. End)'
  <2>1. Since(q, 1 .. End)' = Since(q, 1 .. End)
    <3> HIDE DEF Usable
    <3> QED BY <1>5 DEF Since
  <2>2. CASE Since(q, 1 .. End) = {} BY <2>1, <2>2 DEF Holds
  <2>3. CASE Since(q, 1 .. End) # {}
    <3>1. q \in 1 .. Len(stream)
      <4>1. PICK i : i \in Since(q, 1 .. End) BY <2>3
      <4>2. i \in 1 .. End /\ i >= q BY <4>1 DEF Since
      <4> QED BY <1>1, <4>2
    <3>2. OneSide(q, s, End)
      <4> SUFFICES ASSUME NEW i \in Since(q, 1 .. End)
                   PROVE  stream[i].side = s /\ \A j \in Usable : j < i => stream[j].at <= stream[i].at
        BY DEF OneSide
      <4>1. i \in 1 .. End BY DEF Since
      <4>2. stream'[i].side = s /\ \A j \in Usable' : j < i => stream'[j].at <= stream'[i].at
        <5> HIDE DEF Usable
        <5> QED BY <1>7, <2>1 DEF OneSide
      <4>3. stream'[i] = stream[i] /\ \A j \in Usable : stream'[j] = stream[j] /\ j \in Usable'
        BY <1>2, <1>3, <1>4, <4>1
      <4> QED BY <4>2, <4>3
    <3>3. Holds(engine[owner], q, s, 1 .. End) BY <3>1, <3>2 DEF Trailed
    <3> QED BY <2>1, <3>3 DEF Holds
  <2> QED BY <2>2, <2>3
<1> QED BY <1>6, <1>7 DEF Trailed

\* A batch takes in the fixes up to its last one.
LEMMA FeedTrailed ==
  ASSUME TInv, Trailed, fence, Feed
  PROVE  Trailed'
<1>1. PICK k, r : FeedDoes(k, r) BY FeedIs
<1> DEFINE e == engine[owner]
           top == acked + k
<1>2. /\ k \in Nat /\ top <= Len(stream) /\ r = Feeding(e, Due(k))[k] /\ r \in Run
      /\ stage = "idle" /\ stage' # "idle"
      /\ UNCHANGED <<stream, acked, fence, owner, claims, marker, events, spent>>
  BY <1>1 DEF FeedDoes
<1>3. engine'[owner'].seen = r.seen /\ engine'[owner'].pair = r.pair /\ batch'.to = top
  <2>1. engine'[owner] = [seen |-> r.seen, pair |-> IF r.any /\ ~fence THEN None ELSE r.pair] /\ batch'.to = top
    BY <1>1, FeedTypes
  <2>2. engine'[owner] = [seen |-> r.seen, pair |-> r.pair] BY <2>1
  <2> QED BY <1>2, <2>1, <2>2
<1>4. End = acked /\ End' = top BY <1>2, <1>3 DEF End
<1>5. acked \in Nat /\ Len(stream) \in Nat /\ top \in Nat /\ stream \in Seq(FixType) /\ e \in Mem /\ Short(e.pair) /\ Bools
  BY <1>2, Types
<1>6. Due(k) \in Seq(FixType) /\ Len(Due(k)) = k BY <1>2, <1>5, DueIs
<1>7. PICK ix \in [1 .. k -> acked + 1 .. acked + k] :
        /\ \A n \in 1 .. k : Due(k)[n] = stream[ix[n]]
        /\ \A i \in acked + 1 .. acked + k : \E n \in 1 .. k : ix[n] = i
        /\ \A m, n \in 1 .. k : m < n =>
             \/ stream[ix[m]].at < stream[ix[n]].at
             \/ stream[ix[m]].at = stream[ix[n]].at /\ ix[m] < ix[n]
  BY <1>2, <1>5, DueIs
<1>8. (1 .. acked) \cup Taken(ix, k) = 1 .. top
  <2>1. \A i \in Taken(ix, k) : i \in acked + 1 .. top BY <1>7 DEF Taken
  <2>2. \A i \in acked + 1 .. top : i \in Taken(ix, k) BY <1>7 DEF Taken
  <2> QED BY <1>2, <1>5, <2>1, <2>2
<1>9. SeenBy(e, 1 .. acked) BY <1>4 DEF Trailed
<1>10. ASSUME NEW q \in Nat, NEW s \in Sides, OneSide(q, s, top), Holds(e, q, s, 1 .. acked)
       PROVE  SeenBy(r, 1 .. top) /\ Holds(r, q, s, 1 .. top)
  <2>1. k \in 0 .. k BY <1>2
  <2>2. PICK d : d = Due(k) OBVIOUS
  <2>3. d \in Seq(FixType) /\ Len(d) = k /\ r = Feeding(e, d)[k] /\ \A n \in 1 .. k : d[n] = stream[ix[n]]
    BY <1>2, <1>6, <1>7, <2>2
  <2> HIDE DEF e
  <2>4. /\ SeenBy(Feeding(e, d)[k], (1 .. acked) \cup Taken(ix, k))
        /\ Holds(Feeding(e, d)[k], q, s, (1 .. acked) \cup Taken(ix, k))
    BY <1>2, <1>5, <1>7, <1>9, <1>10, <2>1, <2>3, FeedingHolds
  <2> QED BY <1>8, <2>3, <2>4
<1>11. SeenBy(r, 1 .. top)
  <2> DEFINE q == Len(stream) + 1
  <2>1. \A P : Since(q, P) = {}
    <3>1. \A i \in Usable : ~ (i >= q) BY <1>5 DEF Usable
    <3> QED BY <3>1 DEF Since
  <2>2. q \in Nat /\ "in" \in Sides BY <1>5 DEF Sides
  <2> HIDE DEF q
  <2>3. OneSide(q, "in", top) /\ Holds(e, q, "in", 1 .. acked) BY <2>1 DEF OneSide, Holds
  <2> QED BY <1>10, <2>2, <2>3
<1>12. ASSUME NEW q \in 1 .. Len(stream), NEW s \in Sides, OneSide(q, s, top)
       PROVE  Holds(r, q, s, 1 .. top)
  <2>1. Since(q, 1 .. acked) \subseteq Since(q, 1 .. top)
    <3>1. 1 .. acked \subseteq 1 .. top BY <1>2, <1>5
    <3> QED BY <3>1 DEF Since
  <2>2. OneSide(q, s, acked) BY <1>12, <2>1 DEF OneSide
  <2>3. Holds(e, q, s, 1 .. acked) BY <1>4, <2>2 DEF Trailed
  <2>4. q \in Nat BY <1>5
  <2> QED BY <1>10, <1>12, <2>3, <2>4
<1>13. SeenBy(engine[owner], 1 .. End)'
  <2>1. Usable' = Usable BY <1>2 DEF Usable
  <2> HIDE DEF top, Usable
  <2> QED BY <1>2, <1>3, <1>4, <1>11, <2>1 DEF SeenBy
<1>14. ASSUME NEW q \in 1 .. Len(stream'), NEW s \in Sides, OneSide(q, s, End)'
       PROVE  Holds(engine[owner], q, s, 1 .. End)'
  <2>1. Usable' = Usable BY <1>2 DEF Usable
  <2>2. Since(q, 1 .. End)' = Since(q, 1 .. top)
    <3> HIDE DEF Usable, top
    <3> QED BY <1>4, <2>1 DEF Since
  <2>3. OneSide(q, s, top)
    <3> HIDE DEF Usable, top
    <3> QED BY <1>2, <1>14, <2>1, <2>2 DEF OneSide
  <2>4. Holds(r, q, s, 1 .. top) BY <1>2, <1>12, <2>3
  <2> HIDE DEF top
  <2> QED BY <1>3, <2>2, <2>4 DEF Holds
<1> QED BY <1>13, <1>14 DEF Trailed

\* Every step keeps what the engine has of the fixes at the end of the stream.
LEMMA TrailKeep == ASSUME TInv, OwnInv, TrailInv, [Next]_vars PROVE TrailInv'
<1> DEFINE K == {"fail", "edit", "handoff", "crash"}
<1> SUFFICES ASSUME Never(K)' PROVE Trailed' BY DEF TrailInv
<1>1. K \in SUBSET Faults /\ \A k \in K : k \in Faults BY DEF Faults
<1>2. Never(K) BY <1>1, Types, CalmBack
<1>3. Trailed /\ fence BY <1>2 DEF TrailInv, OwnInv, Never
<1>4. ASSUME NEW k \in K, Spend(k) PROVE FALSE BY <1>1, <1>4, Types, Spoils
<1>5. CASE Edit \/ Handoff \/ Crash \/ InsertFails BY <1>4, <1>5 DEF Edit, Handoff, Crash, InsertFails
<1>6. CASE Feed BY <1>3, <1>6, FeedTrailed
<1>7. CASE Fix
  <2>1. PICK r \in FixType : stream' = Append(stream, r)
    <3>1. PICK s \in Sides, u \in BOOLEAN, lag \in {0, Lag} :
            stream' = Append(stream, [side |-> s, usable |-> u, at |-> Len(stream) + 1 + Lag - lag])
      BY <1>7 DEF Fix
    <3>2. Len(stream) + 1 + Lag - lag \in Nat BY Types, GeofenceAssumption
    <3> QED BY <3>1, <3>2 DEF FixType
  <2>2. Len(stream') = Len(stream) + 1 /\ \A i \in 1 .. Len(stream) : stream'[i] = stream[i]
    BY <2>1, Types, AppendProperties
  <2>3. Len(stream') \in Nat /\ Len(stream) <= Len(stream') BY <2>2, Types
  <2>4. engine' = engine /\ owner' = owner /\ End' = End BY <1>7 DEF Fix, End
  <2> QED BY <1>3, <2>2, <2>3, <2>4, TrailStays
<1>8. CASE Claim \/ ClaimLost \/ Insert \/ Close \/ Save \/ Ack \/ UNCHANGED vars
  <2>1. stream' = stream /\ engine' = engine /\ owner' = owner
    BY <1>8 DEF Claim, ClaimLost, Insert, Close, Save, Ack, vars
  <2>2. End' = End
    <3>1. CASE Claim \/ ClaimLost
      <4>1. stage = "claim" /\ stage' # "idle" /\ batch'.to = batch.to BY <3>1, Types DEF Claim, ClaimLost
      <4> QED BY <4>1 DEF End
    <3>2. CASE Insert \/ Close \/ Save BY <3>2 DEF Insert, Close, Save, End
    <3>3. CASE Ack \/ UNCHANGED vars BY <3>3 DEF Ack, vars, End
    <3> QED BY <1>8, <3>1, <3>2, <3>3
  <2>3. Len(stream') \in Nat /\ Len(stream) <= Len(stream') BY <2>1, Types
  <2> QED BY <1>3, <2>1, <2>2, <2>3, TrailStays
<1> QED BY <1>5, <1>6, <1>7, <1>8 DEF Next

-----------------------------------------------------------------------------
(* The theorems.                                                           *)

\* The invariant holds at the start.
LEMMA GeofenceStarts == ASSUME Init PROVE GInv
<1>1. TInv BY TypeStarts
<1>2. /\ stream = <<>> /\ acked = 0 /\ fence = TRUE /\ owner \in Workers
      /\ engine = [w \in Workers |-> Unseen] /\ stage = "idle" /\ claims = {} /\ marker = FALSE /\ events = <<>>
  BY DEF Init
<1>3. engine[owner] = Unseen /\ Len(events) = 0 /\ Len(stream) = 0 BY <1>2
<1>4. OwnInv BY <1>2 DEF OwnInv
<1>5. RowsInv BY <1>2, <1>3 DEF RowsInv
<1>6. TimesInv
  <2>1. Found = 0 BY <1>2 DEF Found, Base, LastAt
  <2>2. Ahead(Found, engine[owner], 1 .. End) BY <2>1 DEF Ahead
  <2>3. Rising(events, 0, Reach + Lag) BY <1>3 DEF Rising
  <2> QED BY <1>2, <2>2, <2>3 DEF TimesInv, Timed
<1>7. SideInv
  <2>1. RecordedInside = FALSE BY <1>2 DEF RecordedInside
  <2>2. Before(engine[owner]) = Settled(FALSE) BY <1>2, <1>3 DEF Before, Unseen
  <2>3. Before(engine[owner]).inside = FALSE BY <2>2, SettledIs
  <2>4. \A i \in 1 .. Len(events) - 1 : events[i].side # events[i + 1].side BY <1>3
  <2>5. /\ stage \in {"idle", "ack"} => Before(engine[owner]).inside = RecordedInside
        /\ marker = RecordedInside /\ stage \notin {"claim", "insert"} /\ stage \notin {"close", "save"}
    BY <1>2, <2>1, <2>3
  <2> HIDE DEF RecordedInside
  <2> QED BY <2>4, <2>5 DEF SideInv, Sided
<1>8. LinkInv BY <1>2, <1>3 DEF LinkInv, Ended, Linked
<1>9. TrailInv BY <1>3 DEF TrailInv, Trailed, SeenBy, Unseen
<1> QED BY <1>1, <1>4, <1>5, <1>6, <1>7, <1>8, <1>9 DEF GInv

\* Every step keeps it.
LEMMA GeofenceKeeps == ASSUME GInv, [Next]_vars PROVE GInv'
<1>1. TInv' BY TypeKeeps DEF GInv
<1>2. OwnInv' BY OwnKeeps DEF GInv
<1>3. RowsInv' BY RowsKeep DEF GInv
<1>4. TimesInv' BY TimesKeep DEF GInv
<1>5. SideInv' BY SideKeep DEF GInv
<1>6. LinkInv' BY LinkKeep DEF GInv
<1>7. TrailInv' BY TrailKeep DEF GInv
<1> QED BY <1>1, <1>2, <1>3, <1>4, <1>5, <1>6, <1>7 DEF GInv

\* So it always holds.
LEMMA GeofenceInvariant == Spec => []GInv
<1>1. Init => GInv BY GeofenceStarts
<1>2. GInv /\ [Next]_vars => GInv' BY GeofenceKeeps
<1> QED BY <1>1, <1>2, PTL DEF Spec

\* Each usable fix has its place among the usable ones, in their order.
LEMMA CountedIs ==
  ASSUME stream \in Seq(FixType)
  PROVE  /\ IsFiniteSet(Usable) /\ Usable \in SUBSET Nat /\ Usable \in SUBSET (1 .. Len(stream))
         /\ Len(Counted) = Cardinality(Usable) /\ Cardinality(Usable) \in Nat
         /\ \A i \in Usable :
              /\ Cardinality(UpTo(Usable, i)) \in 1 .. Cardinality(Usable)
              /\ Counted[Cardinality(UpTo(Usable, i))] = stream[i]
<1>1. Len(stream) \in Nat BY LenProperties
<1>2. IsFiniteSet(1 .. Len(stream)) BY <1>1, FS_Interval
<1>3. Usable \in SUBSET (1 .. Len(stream)) BY DEF Usable
<1>4. IsFiniteSet(Usable) /\ Usable \in SUBSET Nat /\ Cardinality(Usable) \in Nat
  <2>1. IsFiniteSet(Usable) BY <1>2, <1>3, FS_Subset
  <2>2. Cardinality(Usable) \in Nat BY <2>1, FS_CardinalityType
  <2>3. 1 .. Len(stream) \in SUBSET Nat BY <1>1
  <2> HIDE DEF Usable
  <2> QED BY <1>3, <2>1, <2>2, <2>3
<1>5. Counted = At(stream, Usable) BY DEF Counted, Usable
<1>6. Len(Counted) = Cardinality(Usable) BY <1>3, <1>5, AtThins
<1>7. Counted = [k \in 1 .. Cardinality(Usable) |-> stream[Nth(Usable, k)]] BY <1>5 DEF At
<1> HIDE DEF Usable
<1>8. ASSUME NEW i \in Usable
      PROVE  /\ Cardinality(UpTo(Usable, i)) \in 1 .. Cardinality(Usable)
             /\ Counted[Cardinality(UpTo(Usable, i))] = stream[i]
  <2>1. PICK k : k = Cardinality(UpTo(Usable, i)) OBVIOUS
  <2>2. k \in 1 .. Cardinality(Usable) BY <1>4, <2>1, UpToGrows
  <2>3. PICK j : j = Nth(Usable, k) OBVIOUS
  <2>4. j \in Usable /\ Cardinality(UpTo(Usable, j)) = k BY <1>4, <2>2, <2>3, NthIs
  <2>5. ~ (i < j) /\ ~ (j < i)
    <3>1. i < j => Cardinality(UpTo(Usable, i)) < Cardinality(UpTo(Usable, j)) BY <1>4, <2>4, UpToGrows
    <3>2. j < i => Cardinality(UpTo(Usable, j)) < Cardinality(UpTo(Usable, i)) BY <1>4, <2>4, UpToGrows
    <3> QED BY <2>1, <2>2, <2>4, <3>1, <3>2
  <2>6. i = j BY <1>4, <2>4, <2>5
  <2> QED BY <1>7, <2>1, <2>2, <2>3, <2>6
<1> QED BY <1>3, <1>4, <1>6, <1>8

\* The invariant implies that the last fixes are noticed.
LEMMA Noticed == ASSUME GInv PROVE CrossingNoticed
<1> DEFINE U == Usable
           n == Len(Counted)
           last == n - Streak + 1 .. n
           K(i) == Cardinality(UpTo(U, i))
<1> SUFFICES ASSUME Never({"fail", "edit", "handoff", "crash"}), stage = "idle", acked = Len(stream),
                    n >= Streak, \A i \in last : InOrder(i), NEW s \in Sides,
                    \A i \in last : Counted[i].side = s
             PROVE  RecordedInside = (s = "in")
  BY DEF CrossingNoticed
<1>1. stream \in Seq(FixType) /\ Len(stream) \in Nat /\ Streak \in Nat /\ Streak > 1
  BY Types, GeofenceAssumption DEF GInv
<1>2. /\ IsFiniteSet(U) /\ U \in SUBSET Nat /\ U \in SUBSET (1 .. Len(stream)) /\ n = Cardinality(U) /\ n \in Nat
      /\ \A i \in U : K(i) \in 1 .. n /\ Counted[K(i)] = stream[i]
  BY <1>1, CountedIs
<1>3. \A i, j \in U : i < j => K(i) < K(j) BY <1>2, UpToGrows
<1>4. PICK q : q = Nth(U, n - Streak + 1) OBVIOUS
<1>5. q \in U /\ K(q) = n - Streak + 1
  <2>1. n - Streak + 1 \in 1 .. Cardinality(U) BY <1>1, <1>2
  <2> HIDE DEF U, n
  <2> QED BY <1>2, <1>4, <2>1, NthIs
<1> HIDE DEF U, n
<1>6. ASSUME NEW i \in U, i >= q PROVE K(i) \in last
  <2>1. CASE i = q BY <1>1, <1>2, <1>5, <2>1
  <2>2. CASE i # q
    <3>1. q < i BY <1>2, <1>5, <1>6, <2>2
    <3>2. K(q) < K(i) /\ K(i) \in 1 .. n BY <1>2, <1>3, <1>5, <3>1
    <3> HIDE DEF K
    <3> QED BY <1>1, <1>2, <1>5, <3>2
  <2> QED BY <2>1, <2>2
<1> DEFINE P == 1 .. Len(stream)
           W == Since(q, P)
<1>7. W = {i \in U : i >= q} BY <1>2 DEF Since, U
<1>8. OneSide(q, s, Len(stream))
  <2> SUFFICES ASSUME NEW i \in U, i >= q
               PROVE  stream[i].side = s /\ \A j \in U : j < i => stream[j].at <= stream[i].at
    BY <1>7 DEF OneSide, U
  <2>1. K(i) \in last /\ Counted[K(i)] = stream[i] BY <1>2, <1>6
  <2>2. ASSUME NEW j \in U, j < i PROVE stream[j].at <= stream[i].at
    <3>1. K(j) < K(i) /\ K(j) \in 1 .. n /\ K(i) \in 1 .. n /\ Counted[K(j)] = stream[j]
      BY <1>2, <1>3, <2>2
    <3> HIDE DEF K
    <3>2. K(j) \in 1 .. K(i) - 1 BY <1>2, <3>1
    <3>3. Counted[K(j)].at <= Counted[K(i)].at BY <2>1, <3>2 DEF InOrder
    <3> QED BY <2>1, <3>1, <3>3
  <2> QED BY <2>1, <2>2
<1>9. Cardinality(W) = Streak /\ W # {}
  <2> DEFINE V == UpTo(U, q)
             B == V \ {q}
  <2>1. V \in SUBSET U /\ q \in V /\ IsFiniteSet(V) /\ Cardinality(V) = n - Streak + 1
    <3>1. V \in SUBSET U /\ q \in V
      <4>1. q \in U /\ q <= q BY <1>2, <1>5
      <4> QED BY <4>1 DEF UpTo
    <3> QED BY <1>2, <1>5, <3>1, FS_Subset
  <2> HIDE DEF V
  <2>2. IsFiniteSet(B) /\ Cardinality(B) = n - Streak
    <3>1. IsFiniteSet(B) /\ Cardinality(B) = Cardinality(V) - 1 BY <2>1, FS_RemoveElement
    <3> QED BY <1>1, <1>2, <2>1, <3>1
  <2>3. W = U \ B
    <3>1. \A i \in U : i >= q <=> i \notin B BY <1>2, <1>5 DEF B, V, UpTo
    <3> QED BY <1>7, <3>1
  <2>4. U \cap B = B BY <2>1
  <2> HIDE DEF B, W
  <2>5. IsFiniteSet(W) /\ Cardinality(W) = Cardinality(U) - Cardinality(B)
    <3>1. IsFiniteSet(U) BY <1>2
    <3>2. IsFiniteSet(U \ B) /\ Cardinality(U \ B) = Cardinality(U) - Cardinality(U \cap B)
      BY <3>1, FS_Difference
    <3> QED BY <2>3, <2>4, <3>2
  <2>6. Cardinality(W) = Streak BY <1>1, <1>2, <2>2, <2>5
  <2>7. W # {}
    <3>1. Cardinality(W) # 0 BY <1>1, <2>6
    <3> QED BY <3>1, FS_EmptySet
  <2> QED BY <2>6, <2>7
<1>10. Holds(engine[owner], q, s, P)
  <2>1. End = Len(stream) BY DEF End
  <2>2. q \in 1 .. Len(stream) BY <1>2, <1>5
  <2> QED BY <1>8, <2>1, <2>2 DEF GInv, TrailInv, Trailed
<1>11. engine[owner].pair # None /\ engine[owner].pair.inside = (s = "in")
  <2>1. /\ engine[owner].pair # None
        /\ \/ engine[owner].pair.inside = (s = "in")
           \/ engine[owner].pair.n >= Streak
    BY <1>9, <1>10 DEF Holds
  <2>2. engine[owner].pair.n < Streak /\ engine[owner].pair.n \in Nat BY <2>1, Types DEF GInv, Short, Mem, Pair
  <2> QED BY <1>1, <2>1, <2>2
<1>12. Before(engine[owner]).inside = RecordedInside
  <2>1. Steady BY DEF Steady, Never
  <2> QED BY <2>1 DEF GInv, SideInv, Sided
<1> QED BY <1>11, <1>12 DEF Before

\* The invariant implies that a duration runs to the next crossing.
LEMMA Timing == ASSUME GInv PROVE DurationIsToNext
<1> SUFFICES ASSUME Steady, NEW i \in 1 .. Len(events), NEW j \in 1 .. Len(events), events[i].ended # 0,
                    events[i].at < events[j].at, events[j].at < events[i].ended
             PROVE  FALSE
  BY DEF DurationIsToNext
<1>1. TInv /\ Len(events) \in Nat /\ \A k \in 1 .. Len(events) : events[k].at \in Nat BY Types, Ats DEF GInv
<1>2. i < Len(events) /\ events[i].ended = events[i + 1].at BY DEF GInv, LinkInv, Ended, Linked
<1>3. Quiet BY DEF Steady, Undisturbed, Quiet, Never
<1>4. Rising(events, 0, Reach + Lag) BY <1>3 DEF GInv, TimesInv, Timed
<1>5. \A k \in 1 .. Len(events) : \A m \in 1 .. k - 1 : events[m].at < events[k].at BY <1>4 DEF Rising
<1>6. i + 1 \in 1 .. Len(events) BY <1>1, <1>2
<1>7. CASE j \in 1 .. i - 1
  <2>1. events[j].at < events[i].at BY <1>5, <1>7
  <2> QED BY <1>1, <2>1
<1>8. CASE j = i BY <1>1, <1>8
<1>9. CASE j = i + 1 BY <1>1, <1>2, <1>9
<1>10. CASE i + 1 \in 1 .. j - 1
  <2>1. events[i + 1].at < events[j].at BY <1>5, <1>10
  <2> QED BY <1>1, <1>2, <1>6, <2>1
<1> QED BY <1>1, <1>6, <1>7, <1>8, <1>9, <1>10

\* Every variable of the engine, the persister and the tables keeps its type,
\* whatever the batches, the failures and the moves of the shard.
THEOREM GeofenceTypes == Spec => []TypeOK
<1>1. GInv => TypeOK BY DEF GInv, TInv
<1> QED BY <1>1, GeofenceInvariant, PTL

\* A crossing has one row, through crashes between any two steps of the persister,
\* as long as no call is lost (GeofenceEventPersister.persist).
THEOREM RowsOnce == Spec => []OneRowPerCrossing
<1>1. GInv => OneRowPerCrossing BY DEF GInv, RowsInv, OneRowPerCrossing, Key
<1> QED BY <1>1, GeofenceInvariant, PTL

\* Between batches the engine is on the side of the last row, also after a failed
\* insert (GeofenceEngine.rollback) and a first move of the shard.
THEOREM SideRecorded == Spec => []SideIsRecorded
<1>1. GInv => SideIsRecorded BY DEF GInv, SideInv, Sided, SideIsRecorded, Steady, Before
<1> QED BY <1>1, GeofenceInvariant, PTL

\* Enter and exit alternate in the table, through failed inserts, edits of the fence
\* and a move of the shard (GeofenceEngine.step, GeofenceEventPersister.persist).
THEOREM RowsAlternate == Spec => []EventsAlternate
<1>1. GInv => EventsAlternate BY DEF GInv, SideInv, Sided, EventsAlternate
<1> QED BY <1>1, GeofenceInvariant, PTL

\* The duration of a state that has ended runs to the crossing after it, and across
\* none (closeGeofenceStates).
THEOREM DurationToNext == Spec => []DurationIsToNext
<1>1. GInv => DurationIsToNext BY Timing
<1> QED BY <1>1, GeofenceInvariant, PTL

\* A streak of usable fixes at the end of the stream is recorded, however the fixes
\* fall into batches (GeofenceEngine.feed).
THEOREM StreakNoticed == Spec => []CrossingNoticed
<1>1. GInv => CrossingNoticed BY Noticed
<1> QED BY <1>1, GeofenceInvariant, PTL

-----------------------------------------------------------------------------
(* Trips.                                                                  *)

CONSTANTS MaxClock, Guard, Margin, Horizon, Width, MaxIdle, Hour, MaxLate, MaxDown
VARIABLES track, clock, pos, late, held, openId, rows, jobs, job, sweep, apart
Trips == INSTANCE TripLog

\* A row has its columns; of its times nothing needs to be known.
IsRow(r) == r = [start |-> r.start, end |-> r.end, status |-> r.status]
Table(t) == (\E S : t \in Seq(S)) /\ \A i \in DOMAIN t : IsRow(t[i])

\* The rows that are open in a table.
OpenIn(t) == {i \in DOMAIN t : t[i].status = "open"}

\* A rebuild has its fields, and the trips it found are spans of ticks.
IsJob(j) ==
  /\ j = [phase |-> j.phase, req |-> j.req, from |-> j.from, to |-> j.to,
           doomed |-> j.doomed, trips |-> j.trips, live |-> j.live]
  /\ j.trips \subseteq Trips!Ticks \X Trips!Ticks

\* The row that is open, if there is one, is the one the owner knows.
TripTypes ==
  /\ owner \in Workers /\ openId \in [Workers -> Nat]
  /\ Table(rows) /\ IsJob(job)
Known == Trips!With("open") \subseteq {openId[owner]}
TripInv == TripTypes /\ Known

-----------------------------------------------------------------------------
(* Facts about the table.                                                  *)

\* Finished keeps the table and the ids, closes its row and no other.
LEMMA FinishedFacts ==
  ASSUME Table(rows), NEW id, NEW end
  PROVE  /\ Table(Trips!Finished(id, end)) /\ Len(Trips!Finished(id, end)) = Len(rows)
         /\ OpenIn(Trips!Finished(id, end)) = Trips!With("open") \ {id}
<1> DEFINE t == Trips!Finished(id, end)
<1>1. CASE rows[id].status # "open" \/ id \notin DOMAIN rows
  <2>1. id \notin Trips!With("open") BY <1>1 DEF Trips!With
  <2>2. t = rows BY <1>1, SMTT(30) DEF Trips!Finished, Table
  <2> QED BY <2>1, <2>2 DEF OpenIn, Trips!With
<1>2. CASE rows[id].status = "open" /\ id \in DOMAIN rows
  <2> DEFINE r == [start |-> rows[id].start, end |-> end, status |-> "closed"]
  <2>1. PICK S : rows \in Seq(S) BY DEF Table
  <2>2. PICK u : u = [rows EXCEPT ![id].status = "closed"] OBVIOUS
  <2>3. u = [i \in DOMAIN rows |-> IF i = id THEN [rows[id] EXCEPT !.status = "closed"] ELSE rows[i]]
    BY <2>1, <2>2
  <2>4. IsRow(rows[id]) BY <1>2 DEF Table
  <2>5. u[id] = [start |-> rows[id].start, end |-> rows[id].end, status |-> "closed"]
    BY <1>2, <2>3, <2>4 DEF IsRow
  <2>6. t = [u EXCEPT ![id].end = end] BY <1>2, <2>2 DEF Trips!Finished
  <2>7. t = [i \in DOMAIN rows |-> IF i = id THEN [u[id] EXCEPT !.end = end] ELSE rows[i]]
    BY <2>3, <2>6
  <2>8. t = [i \in DOMAIN rows |-> IF i = id THEN r ELSE rows[i]] BY <2>5, <2>7
  <2>9. DOMAIN rows = 1 .. Len(rows) /\ Len(rows) \in Nat BY <2>1
  <2>10. t \in Seq(S \cup {r}) /\ Len(t) = Len(rows) BY <2>1, <2>8, <2>9
  <2>11. \A i \in DOMAIN t : IsRow(t[i]) BY <2>8 DEF IsRow, Table
  <2>12. OpenIn(t) = Trips!With("open") \ {id} BY <2>8 DEF OpenIn, Trips!With
  <2> QED BY <2>10, <2>11, <2>12 DEF Table
<1> QED BY <1>1, <1>2

\* A new row at the end of the table.
LEMMA AppendFacts ==
  ASSUME Table(rows), NEW r, IsRow(r)
  PROVE  LET t == Append(rows, r)
         IN  /\ Table(t) /\ Len(t) \in Nat
             /\ r.status = "open" => OpenIn(t) = Trips!With("open") \cup {Len(t)}
<1> DEFINE t == Append(rows, r)
<1>1. PICK S : rows \in Seq(S) BY DEF Table
<1>2. rows \in Seq(S \cup {r}) /\ t \in Seq(S \cup {r}) BY <1>1
<1>3. /\ Len(t) = Len(rows) + 1 /\ Len(rows) \in Nat /\ DOMAIN t = 1 .. Len(t)
      /\ DOMAIN rows = 1 .. Len(rows)
      /\ t[Len(t)] = r /\ \A i \in DOMAIN rows : t[i] = rows[i]
  BY <1>2, AppendProperties
<1>4. DOMAIN t = DOMAIN rows \cup {Len(t)} /\ Len(t) \notin DOMAIN rows BY <1>3
<1>5. \A i \in DOMAIN t : IsRow(t[i]) BY <1>3, <1>4 DEF Table
<1>6. r.status = "open" => OpenIn(t) = Trips!With("open") \cup {Len(t)} BY <1>3, <1>4 DEF OpenIn, Trips!With
<1> QED BY <1>2, <1>3, <1>5, <1>6 DEF Table

\* The rows of a rebuild are closed.
LEMMA RebuiltFacts ==
  ASSUME NumFixes \in Nat, job.trips \subseteq Trips!Ticks \X Trips!Ticks
  PROVE  Table(Trips!Rebuilt) /\ OpenIn(Trips!Rebuilt) = {}
<1> DEFINE found == SetToSeq(job.trips)
           n == Cardinality(job.trips)
<1>1. IsFiniteSet(Trips!Ticks)
  <2>1. 1 \in Int /\ NumFixes \in Int OBVIOUS
  <2> QED BY <2>1, FS_Interval DEF Trips!Ticks
<1>2. IsFiniteSet(job.trips) BY <1>1, FS_Product, FS_Subset
<1>3. n \in Nat /\ ExistsBijection(1 .. n, job.trips) BY <1>2, FS_CardinalityType
<1>4. PICK f \in [1 .. n -> job.trips] : IsInjective(f)
  BY <1>3 DEF ExistsBijection, Bijection, Injection
<1>5. found \in [1 .. n -> job.trips] BY <1>4 DEF SetToSeq
<1> DEFINE row(i) == [start |-> found[i][1], end |-> found[i][2], status |-> "closed"]
<1>51. Trips!SetToSeq(job.trips) = found BY DEF Trips!SetToSeq, SetToSeq, Trips!Cardinality, Cardinality, Trips!IsInjective, IsInjective
<1>6. Trips!Rebuilt = [i \in 1 .. n |-> row(i)] BY <1>5, <1>51 DEF Trips!Rebuilt
<1> DEFINE new == {row(i) : i \in 1 .. n}
<1>7. Trips!Rebuilt \in Seq(new)
  <2>1. Trips!Rebuilt \in [1 .. n -> new] BY <1>6
  <2>2. n \in Nat BY <1>3
  <2> HIDE DEF n, new
  <2> QED BY <2>1, <2>2
<1>8. \A i \in DOMAIN Trips!Rebuilt : IsRow(Trips!Rebuilt[i]) /\ Trips!Rebuilt[i].status = "closed"
  BY <1>6 DEF IsRow
<1> QED BY <1>7, <1>8 DEF Table, OpenIn

\* A transaction that takes rows away and adds closed ones opens nothing.
LEMMA CommitFacts ==
  ASSUME Table(rows), NEW gone, gone \subseteq DOMAIN rows, NEW more, Table(more), OpenIn(more) = {}
  PROVE  LET t == [i \in DOMAIN rows |-> IF i \in gone THEN [rows[i] EXCEPT !.status = "gone"] ELSE rows[i]] \o more
         IN  Table(t) /\ OpenIn(t) \subseteq Trips!With("open")
<1> DEFINE marked == [i \in DOMAIN rows |-> IF i \in gone THEN [rows[i] EXCEPT !.status = "gone"] ELSE rows[i]]
           t == marked \o more
<1>1. PICK S : rows \in Seq(S) BY DEF Table
<1>2. PICK T : more \in Seq(T) BY DEF Table
<1>3. DOMAIN rows = 1 .. Len(rows) /\ Len(rows) \in Nat BY <1>1
<1>4. \A i \in DOMAIN rows : /\ IsRow(marked[i]) /\ (marked[i].status = "open" => rows[i].status = "open")
  <2> TAKE i \in DOMAIN rows
  <2>1. IsRow(rows[i]) BY DEF Table
  <2>2. [rows[i] EXCEPT !.status = "gone"] = [start |-> rows[i].start, end |-> rows[i].end, status |-> "gone"]
    BY <2>1 DEF IsRow
  <2> QED BY <2>1, <2>2 DEF IsRow
<1> DEFINE U == {marked[i] : i \in DOMAIN rows} \cup T
<1>5. marked \in Seq(U) /\ more \in Seq(U) /\ Len(marked) = Len(rows)
  <2>1. T \subseteq U OBVIOUS
  <2>2. marked \in [1 .. Len(rows) -> U] BY <1>3
  <2>3. more \in Seq(U) BY <1>2, <2>1
  <2> HIDE DEF marked, U
  <2> QED BY <1>3, <2>2, <2>3
<1> HIDE DEF marked, U
<1>6. /\ t \in Seq(U) /\ Len(t) = Len(rows) + Len(more)
      /\ \A i \in 1 .. Len(t) : t[i] = IF i <= Len(rows) THEN marked[i] ELSE more[i - Len(rows)]
  <2>1. /\ t \in Seq(U) /\ Len(t) = Len(marked) + Len(more)
        /\ \A i \in 1 .. Len(marked) + Len(more) :
             t[i] = IF i <= Len(marked) THEN marked[i] ELSE more[i - Len(marked)]
    BY <1>5, ConcatProperties
  <2> QED BY <1>5, <2>1
<1>7. DOMAIN more = 1 .. Len(more) /\ Len(more) \in Nat BY <1>2
<1>8. DOMAIN t = 1 .. Len(t) BY <1>6
<1>9. \A i \in DOMAIN t : \/ i \in DOMAIN rows /\ t[i] = marked[i]
                          \/ \E k \in DOMAIN more : t[i] = more[k]
  <2> TAKE i \in DOMAIN t
  <2>1. CASE i <= Len(rows) BY <2>1, <1>3, <1>6, <1>8
  <2>2. CASE ~(i <= Len(rows))
    <3>1. i - Len(rows) \in DOMAIN more BY <2>2, <1>3, <1>6, <1>7, <1>8
    <3> QED BY <3>1, <2>2, <1>6, <1>8
  <2> QED BY <2>1, <2>2
<1>10. \A i \in DOMAIN t : IsRow(t[i]) BY <1>4, <1>9 DEF Table
<1>11. OpenIn(t) \subseteq Trips!With("open") BY <1>4, <1>9 DEF OpenIn, Trips!With
<1>12. Table(t) BY <1>6, <1>10 DEF Table
<1> QED BY <1>11, <1>12 DEF marked

-----------------------------------------------------------------------------
(* The invariant.                                                          *)

\* The invariant says what the run checks.
LEMMA InvOneOpenRow == TripInv => Trips!OneOpenRow
<1> SUFFICES ASSUME TripInv PROVE Cardinality(Trips!With("open")) <= 1 BY DEF Trips!OneOpenRow, Trips!Cardinality, Cardinality
<1>1. IsFiniteSet({openId[owner]}) /\ Cardinality({openId[owner]}) = 1 BY FS_Singleton
<1>2. Trips!With("open") \in SUBSET {openId[owner]} BY DEF TripInv, Known
<1> QED BY <1>1, <1>2, FS_Subset

\* The rows and the owner's id, and nothing else, decide.
Unaffected ==
  /\ UNCHANGED <<rows, owner, openId>>
  /\ job' = job \/ IsJob(job')

\* A step that leaves them alone keeps the invariant.
LEMMA UnaffectedKeeps ==
  ASSUME TripInv, Unaffected
  PROVE  TripInv'
<1>1. Table(rows)' BY DEF TripInv, TripTypes, Table, IsRow, Unaffected
<1>2. Trips!With("open")' = Trips!With("open") BY DEF Trips!With, Unaffected
<1>3. IsJob(job)' BY DEF TripInv, TripTypes, Unaffected, IsJob, Trips!Ticks
<1> QED BY <1>1, <1>2, <1>3 DEF TripInv, TripTypes, Known, Unaffected

-----------------------------------------------------------------------------
(* The statements that touch rows or the owner's id.                       *)

\* The owner ends the row it knows and forgets it, or has none to end.
Concludes ==
  /\ \E end : rows' = Trips!Finished(openId[owner], end)
  /\ openId' = [openId EXCEPT ![owner] = 0] /\ UNCHANGED <<owner, job>>

\* After that there is no open row, and the owner knows of none.
LEMMA ConcludesKeeps ==
  ASSUME TripInv, Concludes
  PROVE  TripInv'
<1> USE DEF TripInv, TripTypes, Known
<1>1. PICK end : rows' = Trips!Finished(openId[owner], end) BY DEF Concludes
<1> DEFINE t == Trips!Finished(openId[owner], end)
<1>2. Table(t) /\ OpenIn(t) = Trips!With("open") \ {openId[owner]} BY FinishedFacts
<1> HIDE DEF t
<1>3. Table(rows)' BY <1>1, <1>2 DEF Table, IsRow, t
<1>4. Trips!With("open")' = OpenIn(t) BY <1>1 DEF Trips!With, OpenIn, t
<1>5. Trips!With("open")' = {} BY <1>2, <1>4
<1>6. TripTypes' BY <1>3 DEF Concludes, IsJob, Trips!Ticks
<1> QED BY <1>5, <1>6

\* A trip is opened by an owner that knows of no open row.
LEMMA OpenTripKeeps ==
  ASSUME TripInv, Trips!OpenTrip
  PROVE  TripInv'
<1> USE DEF TripInv, TripTypes, Known
<1> DEFINE r == [start |-> Trips!Next1.start, end |-> 0, status |-> "open"]
           t == Append(rows, r)
<1>1. IsRow(r) BY DEF IsRow
<1>2. r.status = "open" OBVIOUS
<1> HIDE DEF r
<1>3. Table(t) /\ Len(t) \in Nat /\ OpenIn(t) = Trips!With("open") \cup {Len(t)}
  BY <1>1, <1>2, AppendFacts
<1>4. rows' = t /\ openId' = [openId EXCEPT ![owner] = Len(t)] /\ openId[owner] = 0
      /\ owner' = owner /\ job' = job
  BY DEF Trips!OpenTrip, t, r, Trips!world, Trips!memory
<1> HIDE DEF t
<1>5. 0 \notin DOMAIN rows
  <2>1. PICK S : rows \in Seq(S) BY DEF Table
  <2> QED BY <2>1
<1>6. Trips!With("open") = {} BY <1>4, <1>5 DEF Trips!With
<1>7. Table(rows)' BY <1>3, <1>4 DEF Table, IsRow
<1>8. Trips!With("open")' = {Len(t)} BY <1>3, <1>4, <1>6 DEF Trips!With, OpenIn
<1>9. TripTypes' BY <1>3, <1>4, <1>7 DEF IsJob, Trips!Ticks
<1>10. openId'[owner'] = Len(t) BY <1>4
<1> QED BY <1>8, <1>9, <1>10

\* The orphan sweep ends a row, and the owner forgets it if it is its own.
LEMMA SweepCloseKeeps ==
  ASSUME TripInv, Trips!SweepClose
  PROVE  TripInv'
<1> USE DEF TripInv, TripTypes, Known
<1>1. PICK o \in sweep.rows : /\ rows' = Trips!Finished(o.id, o.end)
                              /\ openId' = [openId EXCEPT ![owner] = IF @ = o.id THEN 0 ELSE @]
                              /\ owner' = owner /\ job' = job
  BY DEF Trips!SweepClose, Trips!world
<1> DEFINE t == Trips!Finished(o.id, o.end)
<1>2. Table(t) /\ OpenIn(t) = Trips!With("open") \ {o.id} BY FinishedFacts
<1>3. rows' = t BY <1>1
<1> HIDE DEF t
<1>4. Table(rows)' BY <1>2, <1>3 DEF Table, IsRow
<1>5. Trips!With("open")' = Trips!With("open") \ {o.id} BY <1>2, <1>3 DEF Trips!With, OpenIn
<1>6. openId'[owner] = IF openId[owner] = o.id THEN 0 ELSE openId[owner] BY <1>1
<1>7. openId' \in [Workers -> Nat] BY <1>1
<1>8. TripTypes' BY <1>1, <1>4, <1>7 DEF IsJob, Trips!Ticks
<1>9. Known' BY <1>1, <1>5, <1>6
<1> QED BY <1>8, <1>9

\* warmStart: whoever gets the shard takes the open row over, if there is one.
TakesOver ==
  /\ UNCHANGED rows /\ job' \in {job, Trips!NoJob}
  /\ \E w \in Workers, id \in Trips!Warm :
       owner' = w /\ openId' = [openId EXCEPT ![owner] = 0, ![w] = id]

\* The new owner knows the row that is open.
LEMMA TakesOverKeeps ==
  ASSUME TripInv, TakesOver
  PROVE  TripInv'
<1> USE DEF TripInv, TripTypes, Known
<1>1. PICK w \in Workers, id \in Trips!Warm :
        owner' = w /\ openId' = [openId EXCEPT ![owner] = 0, ![w] = id]
  BY DEF TakesOver
<1>2. Trips!With("open")' = Trips!With("open") BY DEF TakesOver, Trips!With
<1>3. id \in Nat /\ Trips!With("open") \subseteq {id}
  <2>1. CASE Trips!With("open") = {} BY <2>1, <1>1 DEF Trips!Warm
  <2>2. CASE Trips!With("open") # {}
    <3>1. id \in Trips!With("open") BY <2>2, <1>1 DEF Trips!Warm
    <3>2. id \in DOMAIN rows BY <3>1 DEF Trips!With
    <3>3. PICK S : rows \in Seq(S) BY DEF Table
    <3> QED BY <3>1, <3>2, <3>3
  <2> QED BY <2>1, <2>2
<1>4. openId' \in [Workers -> Nat] /\ openId'[w] = id BY <1>1, <1>3
<1>5. Table(rows)' BY DEF TakesOver, Table, IsRow
<1>6. IsJob(job)' BY DEF TakesOver, IsJob, Trips!NoJob, Trips!Ticks
<1> QED BY <1>1, <1>2, <1>3, <1>4, <1>5, <1>6

\* The queries of a rebuild leave it with spans of ticks.
LEMMA WindowIsJob ==
  ASSUME Trips!ReadWindow
  PROVE  IsJob(job')
<1>1. CASE job' = Trips!NoJob BY <1>1 DEF IsJob, Trips!NoJob
<1>2. CASE job' # Trips!NoJob
  <2>1. PICK j, hi, live, from :
          job' = [Trips!NoJob EXCEPT !.phase = "ids", !.req = {j}, !.to = hi, !.live = live, !.from = from]
    BY <1>2 DEF Trips!ReadWindow
  <2>2. PICK a : a = [Trips!NoJob EXCEPT !.phase = "ids"] OBVIOUS
  <2>3. PICK b : b = [a EXCEPT !.req = {j}] OBVIOUS
  <2>4. PICK c : c = [b EXCEPT !.to = hi] OBVIOUS
  <2>5. PICK d : d = [c EXCEPT !.live = live] OBVIOUS
  <2>6. job' = [d EXCEPT !.from = from] BY <2>1, <2>2, <2>3, <2>4, <2>5
  <2>7. a = [phase |-> "ids", req |-> {}, from |-> 0, to |-> 0, doomed |-> {}, trips |-> {}, live |-> {}]
    BY <2>2 DEF Trips!NoJob
  <2>8. b = [phase |-> "ids", req |-> {j}, from |-> 0, to |-> 0, doomed |-> {}, trips |-> {}, live |-> {}]
    BY <2>3, <2>7
  <2>9. c = [phase |-> "ids", req |-> {j}, from |-> 0, to |-> hi, doomed |-> {}, trips |-> {}, live |-> {}]
    BY <2>4, <2>8
  <2>10. d = [phase |-> "ids", req |-> {j}, from |-> 0, to |-> hi, doomed |-> {}, trips |-> {}, live |-> live]
    BY <2>5, <2>9
  <2>11. job' = [phase |-> "ids", req |-> {j}, from |-> from, to |-> hi, doomed |-> {}, trips |-> {}, live |-> live]
    BY <2>6, <2>10
  <2> QED BY <2>11 DEF IsJob
<1> QED BY <1>1, <1>2

\* The ids and the positions: what is found lies in the window.
LEMMA QueriesKeepJob ==
  ASSUME IsJob(job), Trips!ReadIds \/ Trips!ReadPositions
  PROVE  IsJob(job')
<1>1. job = [phase |-> job.phase, req |-> job.req, from |-> job.from, to |-> job.to,
             doomed |-> job.doomed, trips |-> job.trips, live |-> job.live]
  BY DEF IsJob
<1>2. CASE Trips!ReadIds
  <2>1. PICK x : job' = [job EXCEPT !.phase = "positions", !.doomed = x] BY <1>2 DEF Trips!ReadIds
  <2>2. PICK u : u = [job EXCEPT !.phase = "positions"] OBVIOUS
  <2>3. job' = [u EXCEPT !.doomed = x] BY <2>1, <2>2
  <2>4. u = [phase |-> "positions", req |-> job.req, from |-> job.from, to |-> job.to,
             doomed |-> job.doomed, trips |-> job.trips, live |-> job.live]
    BY <1>1, <2>2
  <2>5. job' = [phase |-> "positions", req |-> job.req, from |-> job.from, to |-> job.to,
                doomed |-> x, trips |-> job.trips, live |-> job.live]
    BY <2>3, <2>4
  <2> QED BY <2>5 DEF IsJob
<1>3. CASE Trips!ReadPositions
  <2>1. PICK x \in SUBSET (Trips!Ticks \X Trips!Ticks) : job' = [job EXCEPT !.phase = "commit", !.trips = x]
    BY <1>3 DEF Trips!ReadPositions
  <2>2. PICK u : u = [job EXCEPT !.phase = "commit"] OBVIOUS
  <2>3. job' = [u EXCEPT !.trips = x] BY <2>1, <2>2
  <2>4. u = [phase |-> "commit", req |-> job.req, from |-> job.from, to |-> job.to,
             doomed |-> job.doomed, trips |-> job.trips, live |-> job.live]
    BY <1>1, <2>2
  <2>5. job' = [phase |-> "commit", req |-> job.req, from |-> job.from, to |-> job.to,
                doomed |-> job.doomed, trips |-> x, live |-> job.live]
    BY <2>3, <2>4
  <2> QED BY <2>5 DEF IsJob
<1> QED BY <1>2, <1>3

\* The transaction of a rebuild opens no row.
LEMMA CommitKeeps ==
  ASSUME Trips!TripAssumption, TripInv, Trips!Commit
  PROVE  TripInv'
<1> USE DEF TripInv, TripTypes, Known
<1> DEFINE starts == {p[1] : p \in job.trips}
           gone == {i \in DOMAIN rows : \/ i \in job.doomed /\ rows[i].status = "closed"
                                        \/ rows[i].start \in starts}
           t == [i \in DOMAIN rows |-> IF i \in gone THEN [rows[i] EXCEPT !.status = "gone"] ELSE rows[i]]
                \o Trips!Rebuilt
<1>1. rows' = t /\ job' = Trips!NoJob /\ owner' = owner /\ openId' = openId
  BY DEF Trips!Commit, Trips!world, Trips!memory
<1>0. NumFixes \in Nat BY DEF Trips!TripAssumption
<1>2. Table(Trips!Rebuilt) /\ OpenIn(Trips!Rebuilt) = {} BY <1>0, RebuiltFacts DEF IsJob
<1>3. gone \subseteq DOMAIN rows OBVIOUS
<1> HIDE DEF gone
<1>4. Table(t) /\ OpenIn(t) \subseteq Trips!With("open") BY <1>2, <1>3, CommitFacts
<1> HIDE DEF t
<1>5. Table(rows)' BY <1>1, <1>4 DEF Table, IsRow
<1>6. Trips!With("open")' \subseteq Trips!With("open") BY <1>1, <1>4 DEF Trips!With, OpenIn
<1>7. IsJob(job)' BY <1>1 DEF IsJob, Trips!NoJob, Trips!Ticks
<1> QED BY <1>1, <1>5, <1>6, <1>7

\* For every number of workers, fixes, late batches, rebuilds, moves of the shard
\* and faults: at most one row of the device is open (TripPersister.apply,
\* closeOrphans, warmStart, recomputeTrips).
THEOREM OneTripAtATime ==
  ASSUME Trips!TripAssumption
  PROVE  Trips!Spec => []Trips!OneOpenRow
<1>1. Trips!Init => TripInv
  <2> SUFFICES ASSUME Trips!Init PROVE TripInv OBVIOUS
  <2>1. rows = <<>> /\ rows \in Seq({}) BY DEF Trips!Init
  <2>2. Table(rows) /\ Trips!With("open") = {} BY <2>1 DEF Table, Trips!With
  <2> QED BY <2>2 DEF Trips!Init, TripInv, TripTypes, Known, Trips!NoJob, IsJob
<1>2. TripInv /\ [Trips!Next]_(Trips!vars) => TripInv'
  <2> SUFFICES ASSUME TripInv, [Trips!Next]_(Trips!vars) PROVE TripInv' OBVIOUS
  <2> USE DEF Trips!world, Trips!memory
  <2>1. CASE \/ Trips!Tick \/ Trips!Deliver \/ Trips!PersistFails \/ Trips!Compensate \/ Trips!EndBatch \/ Trips!OtherShard
             \/ Trips!SweepRead \/ UNCHANGED Trips!vars
    <3>1. Unaffected
      BY <2>1 DEF Trips!Tick, Trips!Deliver, Trips!PersistFails, Trips!Compensate, Trips!EndBatch, Trips!OtherShard, Trips!SweepRead, Trips!vars, Unaffected
    <3> QED BY <3>1, UnaffectedKeeps
  <2>2. CASE Trips!ReadWindow \/ Trips!ReadIds \/ Trips!ReadPositions \/ Trips!RebuildFails
    <3>1. job' = job \/ IsJob(job')
      <4>1. CASE Trips!ReadWindow BY <4>1, WindowIsJob
      <4>2. CASE Trips!ReadIds \/ Trips!ReadPositions BY <4>2, QueriesKeepJob DEF TripInv, TripTypes
      <4>3. CASE Trips!RebuildFails BY <4>3 DEF Trips!RebuildFails, Trips!NoJob, IsJob
      <4> QED BY <2>2, <4>1, <4>2, <4>3
    <3>2. Unaffected
      BY <2>2, <3>1 DEF Trips!ReadWindow, Trips!ReadIds, Trips!ReadPositions, Trips!RebuildFails, Unaffected
    <3> QED BY <3>2, UnaffectedKeeps
  <2>3. CASE Trips!ForceClose BY <2>3, ConcludesKeeps DEF Trips!ForceClose, Concludes
  <2>4. CASE Trips!CloseTrip
    <3>1. rows' = Trips!Finished(openId[owner], Trips!Next1.end)
      <4>1. CASE openId[owner] # 0 BY <2>4, <4>1 DEF Trips!CloseTrip
      <4>2. CASE openId[owner] = 0
        <5>1. PICK S : rows \in Seq(S) BY DEF TripInv, TripTypes, Table
        <5>2. 0 \notin DOMAIN rows BY <5>1
        <5>3. Trips!Finished(0, Trips!Next1.end) = rows BY <5>1, <5>2 DEF Trips!Finished
        <5> QED BY <2>4, <4>2, <5>3 DEF Trips!CloseTrip
      <4> QED BY <4>1, <4>2
    <3> QED BY <2>4, <3>1, ConcludesKeeps DEF Trips!CloseTrip, Concludes
  <2>5. CASE Trips!OpenTrip BY <2>5, OpenTripKeeps
  <2>6. CASE Trips!SweepClose BY <2>6, SweepCloseKeeps
  <2>7. CASE Trips!Handoff
    <3>1. TakesOver BY <2>7 DEF Trips!Handoff, TakesOver
    <3> QED BY <3>1, TakesOverKeeps
  <2>8. CASE Trips!Crash
    <3>1. TakesOver BY <2>8 DEF Trips!Crash, TakesOver
    <3> QED BY <3>1, TakesOverKeeps
  <2>9. CASE Trips!Commit BY <2>9, CommitKeeps
  <2> QED BY <2>1, <2>2, <2>3, <2>4, <2>5, <2>6, <2>7, <2>8, <2>9 DEF Trips!Next
<1> QED BY <1>1, <1>2, InvOneOpenRow, PTL DEF Trips!Spec
=============================================================================

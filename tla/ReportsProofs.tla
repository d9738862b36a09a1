--------------------------- MODULE ReportsProofs ----------------------------
(***************************************************************************)
(* Proofs about the events list, the dashboard and the aggregations of the *)
(* portal, for any events, groups, windows and limits, from the facts of   *)
(* AuditProofs about the tables and their queries.  ReportInv of           *)
(* AuditReports is inductive and contains what its run checks.             *)
(***************************************************************************)
EXTENDS AuditReports, AuditProofs

-----------------------------------------------------------------------------
(* Counting.                                                               *)

\* Durations are ordered.
LEMMA ShorterIsOrder ==
  ASSUME NEW S, S \subseteq Ids
  PROVE  TotalOrder(S, shorter)
<1>1. \A x \in S : x \in Nat
  BY StoreAssumption
<1>2. \A x, y \in S : <<x, y>> \in shorter <=> x < y
  BY DEF shorter
<1> HIDE DEF shorter
<1>3. \A x, y \in S : x = y \/ x < y \/ y < x
  BY <1>1
<1>4. \A x, y, z \in S : x < y /\ y < z => x < z
  BY <1>1
<1>5. \A x \in S : ~(x < x)
  BY <1>1
<1> QED
  BY <1>2, <1>3, <1>4, <1>5, Zenon DEF TotalOrder

\* Division rounds down.
LEMMA DivFloor ==
  ASSUME NEW a \in Nat, NEW d \in Nat \ {0}
  PROVE  /\ a \div d \in Nat
         /\ \A b \in Nat : a \div d = b <=> b * d <= a /\ a < b * d + d
         /\ \A c \in Nat : a <= c => a \div d <= c \div d
<1>1. a \div d \in Nat /\ a = d * (a \div d) + (a % d) /\ a % d \in 0..(d - 1)
  OBVIOUS
<1>2. ASSUME NEW b \in Nat, b * d <= a, a < b * d + d
      PROVE  a \div d = b
  BY <1>2
<1>3. ASSUME NEW c \in Nat, a <= c
      PROVE  a \div d <= c \div d
  BY <1>3
<1> QED
  BY <1>1, <1>2, <1>3

\* c counts the members of T by the group that f gives them.
CountsGroups(c, T, f, D) ==
  /\ f \in [T -> D] /\ DOMAIN c = D
  /\ \A g \in D : c[g].count = Cardinality({i \in T : f[i] = g})

\* Together the groups have as many members as the set.
LEMMA GroupsAddUp ==
  ASSUME NEW T, IsFiniteSet(T), T \subseteq Ids, NEW D, NEW f, NEW c, CountsGroups(c, T, f, D)
  PROVE  Sum(c) = Cardinality(T)
<1> DEFINE G(g) == {i \in T : f[i] = g}
           U == UNION {{g} \X (1..c[g].count) : g \in D}
           h == [i \in T |-> <<f[i], Rank(i, G(f[i]), shorter) + 1>>]
<1>0. f \in [T -> D] /\ DOMAIN c = D /\ \A g \in D : c[g].count = Cardinality(G(g))
  BY DEF CountsGroups
<1>1. ASSUME NEW g \in D
      PROVE  /\ IsFiniteSet(G(g)) /\ TotalOrder(G(g), shorter)
             /\ Cardinality(G(g)) \in Nat /\ c[g].count = Cardinality(G(g))
  <2>1. G(g) \in SUBSET T
    OBVIOUS
  <2>2. IsFiniteSet(G(g))
    BY <2>1, FS_Subset
  <2>3. G(g) \subseteq Ids
    BY <2>1
  <2> QED
    BY <1>0, <2>2, <2>3, FS_CardinalityType, ShorterIsOrder
<1>2. /\ \A i \in T : f[i] \in D /\ i \in G(f[i])
      /\ \A g : \A i \in G(g) : i \in T /\ f[i] = g
  BY <1>0
<1> HIDE DEF G
<1>3. ASSUME NEW i \in T
      PROVE  /\ Rank(i, G(f[i]), shorter) + 1 \in 1..c[f[i]].count
             /\ Rank(i, G(f[i]), shorter) \in Nat
  <2>1. Rank(i, G(f[i]), shorter) \in 0..(Cardinality(G(f[i])) - 1)
    BY <1>1, <1>2, RankBound
  <2> QED
    BY <1>1, <1>2, <2>1
<1>4. ASSUME NEW g \in D
      PROVE  /\ \A x, y \in G(g) : Rank(x, G(g), shorter) = Rank(y, G(g), shorter) => x = y
             /\ \A k \in 0..(Cardinality(G(g)) - 1) : \E x \in G(g) : Rank(x, G(g), shorter) = k
  BY <1>1, RankOnto
<1>5. \A g, n : <<g, n>> \in U <=> g \in D /\ n \in 1..c[g].count
  OBVIOUS
<1>6. h \in [T -> U]
  BY <1>2, <1>3, <1>5
<1>7. ASSUME NEW x \in T, NEW y \in T, h[x] = h[y]
      PROVE  x = y
  <2>1. f[x] = f[y] /\ Rank(x, G(f[x]), shorter) + 1 = Rank(y, G(f[y]), shorter) + 1
    BY <1>7
  <2>2. Rank(x, G(f[x]), shorter) = Rank(y, G(f[x]), shorter)
    BY <1>3, <2>1
  <2> QED
    BY <1>2, <1>4, <2>1, <2>2
<1>8. ASSUME NEW u \in U
      PROVE  \E i \in T : h[i] = u
  <2>1. PICK g, n : g \in D /\ n \in 1..c[g].count /\ u = <<g, n>>
    OBVIOUS
  <2>2. n - 1 \in 0..(Cardinality(G(g)) - 1)
    BY <1>1, <2>1
  <2>3. PICK i \in G(g) : Rank(i, G(g), shorter) = n - 1
    BY <1>4, <2>1, <2>2
  <2>4. f[i] = g /\ i \in T /\ n \in Int
    BY <1>1, <1>2, <2>1, <2>3
  <2>5. h[i] = <<g, n>>
    BY <2>3, <2>4
  <2> QED
    BY <2>1, <2>4, <2>5
<1> HIDE DEF U, h
<1>9. h \in Injection(T, U)
  BY <1>6, <1>7 DEF Injection, IsInjective
<1>10. h \in Surjection(T, U)
  BY <1>6, <1>8 DEF Surjection
<1>11. Cardinality(U) = Cardinality(T)
  BY <1>9, <1>10, FS_Surjection
<1> QED
  BY <1>0, <1>11 DEF Sum, U

\* Rows that one query read.
IsRead(rows, M) ==
  /\ rows \in Seq(Ids) /\ IsInjective(rows) /\ Range(rows) \subseteq M
  /\ Range(rows) \subseteq Ids
  /\ IsFiniteSet(Range(rows)) /\ Cardinality(Range(rows)) = Len(rows)

\* A query with the largest limit reads such rows.
LEMMA QueryRead ==
  ASSUME StoreInv, NEW from, NEW to, NEW M, M = Matching(from, to),
         NEW rows, rows = Query(from, to, MaxQueryLimit, 0)
  PROVE  IsRead(rows, M)
<1>1. M \subseteq Ids /\ IsFiniteSet(M)
  BY MatchingRows
<1>2. IsPage(rows, M, 0, MaxQueryLimit)
  BY FullLimit, QueryPage, Zenon
<1>3. /\ rows \in Seq(M) /\ IsInjective(rows) /\ rows \in [1..Len(rows) -> M] /\ Len(rows) \in Nat
  BY <1>2 DEF IsPage
<1>4. /\ Range(rows) \in SUBSET M /\ Range(rows) \subseteq Ids
  BY <1>1, <1>3 DEF Range
<1>5. rows \in Seq(Ids)
  BY <1>1, <1>3, SeqWider
<1>6. rows \in Surjection(1..Len(rows), Range(rows)) /\ rows \in Injection(1..Len(rows), Range(rows))
  BY <1>3 DEF Surjection, Injection, Range, IsInjective
<1>7. IsFiniteSet(1..Len(rows)) /\ Cardinality(1..Len(rows)) = Len(rows)
  <2>1. ASSUME NEW n \in Nat
        PROVE  IsFiniteSet(1..n) /\ Cardinality(1..n) = n
    BY FS_Interval
  <2> QED
    BY <1>3, <2>1
<1>8. IsFiniteSet(Range(rows)) /\ Cardinality(Range(rows)) = Len(rows)
  BY <1>6, <1>7, FS_Surjection
<1> QED
  BY <1>3, <1>4, <1>5, <1>8 DEF IsRead

\* A window of the aggregations is the right way round and ends after time zero.
LEMMA WindowTurned ==
  ASSUME StoreInv, NEW from \in Nat, NEW to \in Nat, NEW w, w = timeWindow(from, to)
  PROVE  w \in Nat \X Nat /\ w[1] <= w[2] /\ w[2] # 0
<1>1. now \in Nat \ {0} /\ Hour \in Nat
  BY ReportAssumption DEF StoreInv
<1> DEFINE end == IF to = 0 THEN now ELSE to
           begin == CASE from # 0 -> from
                      [] from = 0 /\ end > Hour -> end - Hour
                      [] OTHER -> 0
<1>2. end \in Nat \ {0}
  BY <1>1
<1> HIDE DEF end
<1>3. begin \in Nat /\ (from = 0 => begin <= end)
  BY <1>1, <1>2
<1> HIDE DEF begin
<1>4. w = IF begin > end THEN <<end, begin>> ELSE <<begin, end>>
  BY DEF timeWindow, begin, end
<1> QED
  BY <1>2, <1>3, <1>4

\* A bucket has the rows of its stretch of time, and every row before the end of
\* the window is in one of the buckets.
LEMMA BucketRows ==
  ASSUME StoreInv, NEW w \in Nat \X Nat, w[1] <= w[2], w[2] # 0, NEW dur \in Nat \ {0},
         NEW rows, Range(rows) \subseteq Matching(w[1], w[2])
  PROVE  /\ totalBuckets(w, dur) \in Nat
         /\ \A i \in Range(rows) : ts[i] < w[2] =>
              bucketOf(w, dur, i) \in 0..(totalBuckets(w, dur) - 1)
         /\ \A b \in Nat : inBucket(rows, w, dur, b) =
              {i \in Range(rows) : /\ w[1] + b * dur <= ts[i] /\ ts[i] < w[1] + b * dur + dur
                                   /\ ts[i] < w[2]}
         /\ \A b \in Nat : inBucket(rows, w, dur, b) =
              {i \in {j \in Range(rows) : ts[j] < w[2]} : bucketOf(w, dur, i) = b}
<1>1. \A i \in Range(rows) : ts[i] \in Nat /\ w[1] <= ts[i]
  BY DEF Matching, StoreInv
<1>2. w[1] \in Nat /\ w[2] \in Nat /\ w[2] - w[1] \in Nat
  OBVIOUS
<1>3. totalBuckets(w, dur) \in Nat
  BY <1>2, DivFloor DEF totalBuckets
<1>4. ASSUME NEW i \in Range(rows), ts[i] < w[2]
      PROVE  bucketOf(w, dur, i) \in 0..(totalBuckets(w, dur) - 1)
  <2>1. ts[i] - w[1] \in Nat /\ ts[i] - w[1] <= w[2] - w[1]
    BY <1>1, <1>2, <1>4
  <2>2. /\ (ts[i] - w[1]) \div dur \in Nat /\ (w[2] - w[1]) \div dur \in Nat
        /\ (ts[i] - w[1]) \div dur <= (w[2] - w[1]) \div dur
    BY <1>2, <2>1, DivFloor
  <2> QED
    BY <2>2 DEF bucketOf, totalBuckets
<1>5. ASSUME NEW i \in Range(rows), NEW b \in Nat
      PROVE  bucketOf(w, dur, i) = b <=> w[1] + b * dur <= ts[i] /\ ts[i] < w[1] + b * dur + dur
  <2>1. ts[i] - w[1] \in Nat /\ b * dur \in Nat
    BY <1>1, <1>2
  <2>2. (ts[i] - w[1]) \div dur = b <=> b * dur <= ts[i] - w[1] /\ ts[i] - w[1] < b * dur + dur
    BY <2>1, DivFloor
  <2> QED
    BY <1>1, <1>2, <2>1, <2>2 DEF bucketOf
<1> QED
  BY <1>1, <1>3, <1>4, <1>5 DEF inBucket

\* A time series accounts for its rows.
LEMMA TimeseriesStep ==
  ASSUME StoreInv, NEW from \in Nat, NEW to \in Nat, NEW b \in Buckets, Timeseries(from, to, b)
  PROVE  /\ report' = "done" /\ filter' \in Nat \X Nat /\ UNCHANGED storeVars
         /\ answer'.kind \in {"badRequest", "timeseries"}
         /\ answer'.kind = "timeseries" => TimeseriesAddsUp'
<1> DEFINE w == timeWindow(from, to)
           dur == bucketSeconds(b)
           n == totalBuckets(w, dur)
           rows == Query(w[1], w[2], MaxQueryLimit, 0)
           T == {i \in Range(rows) : ts[i] < w[2]}
           buckets == [k \in 0..(n - 1) |->
                        [count |-> Cardinality(inBucket(rows, w, dur, k)),
                         errors |-> Cardinality(inBucket(rows, w, dur, k) \cap Failed)]]
<1>1. /\ report' = "done" /\ filter' = w /\ UNCHANGED storeVars
      /\ answer' = IF n > MaxBuckets THEN [kind |-> "badRequest"]
                   ELSE [kind |-> "timeseries", rows |-> rows, dur |-> dur, buckets |-> buckets]
  BY DEF Timeseries
<1>2. w \in Nat \X Nat /\ w[1] <= w[2] /\ w[2] # 0
  BY WindowTurned
<1>3. dur \in Nat \ {0}
  BY ReportAssumption DEF bucketSeconds
<1>4. IsRead(rows, Matching(w[1], w[2]))
  BY QueryRead, Zenon
<1> HIDE DEF w, dur, rows
<1>5. Range(rows) \subseteq Matching(w[1], w[2]) /\ Range(rows) \subseteq Ids /\ IsFiniteSet(Range(rows))
  BY <1>4 DEF IsRead
<1>6. /\ n \in Nat
      /\ \A i \in T : bucketOf(w, dur, i) \in 0..(n - 1)
      /\ \A k \in Nat : inBucket(rows, w, dur, k) =
           {i \in Range(rows) : /\ w[1] + k * dur <= ts[i] /\ ts[i] < w[1] + k * dur + dur
                                /\ ts[i] < w[2]}
      /\ \A k \in Nat : inBucket(rows, w, dur, k) = {i \in T : bucketOf(w, dur, i) = k}
  BY <1>2, <1>3, <1>5, BucketRows
<1> HIDE DEF n
<1>7. ASSUME answer'.kind = "timeseries"
      PROVE  answer'.rows = rows /\ answer'.dur = dur /\ answer'.buckets = buckets
  BY <1>1, <1>7
<1>8. Sum(buckets) = Cardinality(T)
  <2> DEFINE f == [i \in T |-> bucketOf(w, dur, i)]
  <2>1. T \in SUBSET Range(rows) /\ T \subseteq Ids
    BY <1>5
  <2>2. IsFiniteSet(T)
    BY <1>5, <2>1, FS_Subset
  <2>3. f \in [T -> 0..(n - 1)] /\ DOMAIN buckets = 0..(n - 1)
    BY <1>6
  <2>4. ASSUME NEW k \in 0..(n - 1)
        PROVE  buckets[k].count = Cardinality({i \in T : f[i] = k})
    <3>1. k \in Nat
      BY <1>6
    <3>2. {i \in T : f[i] = k} = {i \in T : bucketOf(w, dur, i) = k}
      OBVIOUS
    <3>3. buckets[k].count = Cardinality(inBucket(rows, w, dur, k))
      OBVIOUS
    <3> QED
      BY <1>6, <3>1, <3>2, <3>3
  <2>5. CountsGroups(buckets, T, f, 0..(n - 1))
    BY <2>3, <2>4, Zenon DEF CountsGroups
  <2> HIDE DEF T, f, buckets
  <2> QED
    BY <2>1, <2>2, <2>5, GroupsAddUp, Zenon
<1>9. ASSUME NEW k \in 0..(n - 1)
      PROVE  buckets[k].count =
               Cardinality({i \in Range(rows) : /\ w[1] + k * dur <= ts[i]
                                                /\ ts[i] < w[1] + k * dur + dur
                                                /\ ts[i] < w[2]})
  <2>1. k \in Nat
    BY <1>6
  <2> QED
    BY <1>6, <2>1
<1>10. DOMAIN buckets = 0..(n - 1) /\ ts' = ts
  BY <1>1 DEF storeVars
<1> HIDE DEF buckets
<1>11. ASSUME answer'.kind = "timeseries"
       PROVE  TimeseriesAddsUp'
  BY <1>1, <1>7, <1>8, <1>9, <1>10, <1>11 DEF TimeseriesAddsUp
<1> QED
  BY <1>1, <1>2, <1>11

\* The groups of a breakdown are ordered.
LEMMA LargerIsOrder ==
  ASSUME NEW rows, Range(rows) \subseteq Ids, IsFiniteSet(Range(rows))
  PROVE  TotalOrder(groupKeys(rows), larger(rows))
<1> DEFINE S == groupKeys(rows)
           size(k) == Cardinality(group(rows, k))
<1>1. \A k \in S : k \in Nat
  BY ReportAssumption DEF groupKeys, breakdownKeyFn
<1>2. \A k : size(k) \in Nat
  <2> TAKE k
  <2>1. group(rows, k) \in SUBSET Range(rows)
    BY DEF group
  <2> QED
    BY <2>1, FS_Subset, FS_CardinalityType
<1>3. \A x, y \in S : <<x, y>> \in larger(rows) <=> size(x) > size(y) \/ (size(x) = size(y) /\ x < y)
  BY DEF larger
<1> HIDE DEF size, S
<1>4. \A x \in S : <<x, x>> \notin larger(rows)
  BY <1>1, <1>2, <1>3
<1>5. ASSUME NEW x \in S, NEW y \in S
      PROVE  x = y \/ <<x, y>> \in larger(rows) \/ <<y, x>> \in larger(rows)
  <2>1. x = y \/ size(x) > size(y) \/ (size(x) = size(y) /\ x < y)
              \/ size(y) > size(x) \/ (size(y) = size(x) /\ y < x)
    BY <1>1, <1>2
  <2> QED
    BY <1>3, <2>1, Zenon
<1>6. ASSUME NEW x \in S, NEW y \in S, NEW z \in S,
             <<x, y>> \in larger(rows), <<y, z>> \in larger(rows)
      PROVE  <<x, z>> \in larger(rows)
  BY <1>1, <1>2, <1>3, <1>6
<1> QED
  BY <1>4, <1>5, <1>6, Zenon DEF TotalOrder, S

\* A breakdown shows the largest groups, and all rows if it shows all groups.
LEMMA BreakdownStep ==
  ASSUME StoreInv, NEW from \in Nat, NEW to \in Nat, NEW top \in Tops, Breakdown(from, to, top)
  PROVE  /\ report' = "done" /\ filter' \in Nat \X Nat /\ UNCHANGED storeVars
         /\ answer'.kind = "breakdown" /\ BreakdownAddsUp'
<1> DEFINE w == timeWindow(from, to)
           rows == Query(w[1], w[2], MaxQueryLimit, 0)
           K == groupKeys(rows)
           L == larger(rows)
           sorted == OrderBy(K, L)
           m == IF top < Len(sorted) THEN top ELSE Len(sorted)
           groups == [g \in 1..m |->
                       [key |-> sorted[g], count |-> Cardinality(group(rows, sorted[g])),
                        errors |-> Cardinality(group(rows, sorted[g]) \cap Failed)]]
<1>1. /\ report' = "done" /\ filter' = w /\ UNCHANGED storeVars
      /\ answer' = [kind |-> "breakdown", rows |-> rows, top |-> top, groups |-> groups]
  BY DEF Breakdown
<1>2. w \in Nat \X Nat
  BY WindowTurned
<1>3. IsRead(rows, Matching(w[1], w[2]))
  BY QueryRead, Zenon
<1> HIDE DEF w, rows
<1>4. Range(rows) \subseteq Ids /\ IsFiniteSet(Range(rows))
  BY <1>3 DEF IsRead
<1>5. TotalOrder(K, L)
  BY <1>4, LargerIsOrder
<1>6. IsFiniteSet(K)
  <2>1. [i \in Range(rows) |-> breakdownKeyFn(i)] \in Surjection(Range(rows), K)
    BY DEF groupKeys, Surjection
  <2> QED
    BY <1>4, <2>1, FS_Surjection
<1>7. \A i \in Range(rows) : Keys[i] \in K /\ group(rows, Keys[i]) = {j \in Range(rows) : Keys[j] = Keys[i]}
  BY DEF groupKeys, group, breakdownKeyFn
<1>8. \A x, y \in K : <<x, y>> \in L =>
        Cardinality(group(rows, y)) <= Cardinality(group(rows, x))
  <2>1. \A k : Cardinality(group(rows, k)) \in Nat
    <3> TAKE k
    <3>1. group(rows, k) \in SUBSET Range(rows)
      BY DEF group
    <3> QED
      BY <1>4, <3>1, FS_Subset, FS_CardinalityType
  <2> QED
    BY <2>1 DEF larger
<1> HIDE DEF K, L
<1>9. /\ Len(sorted) \in Nat /\ \A k \in K : \E c \in 1..Len(sorted) : sorted[c] = k
      /\ \A k \in 1..Len(sorted) : sorted[k] \in K /\ Rank(sorted[k], K, L) = k - 1
  <2>1. /\ sorted \in Seq(K) /\ Range(sorted) = K
        /\ \A k \in 1..Len(sorted) : sorted[k] \in K /\ Rank(sorted[k], K, L) = k - 1
    BY <1>5, <1>6, OrderByRank
  <2> HIDE DEF sorted
  <2>2. DOMAIN sorted = 1..Len(sorted) /\ Len(sorted) \in Nat
    BY <2>1
  <2> QED
    BY <2>1, <2>2 DEF Range
<1> HIDE DEF sorted
<1>10. m \in Nat /\ m <= Len(sorted) /\ (m < top => m = Len(sorted))
  <2>1. top \in Nat
    BY ReportAssumption
  <2> QED
    BY <1>9, <2>1
<1> HIDE DEF m
<1>11. /\ DOMAIN groups = 1..m /\ Len(groups) = m
       /\ \A g \in 1..m : groups[g].key = sorted[g] /\ groups[g].count = Cardinality(group(rows, sorted[g]))
  BY <1>10
<1> HIDE DEF groups
<1>12. \A x, y \in K : Rank(x, K, L) < Rank(y, K, L) => <<x, y>> \in L
  <2> SUFFICES ASSUME NEW x \in K, NEW y \in K, Rank(x, K, L) < Rank(y, K, L)
               PROVE  <<x, y>> \in L
    OBVIOUS
  <2>1. Rank(x, K, L) \in Nat /\ Rank(y, K, L) \in Nat
    BY <1>6, RankType
  <2>2. <<y, x>> \in L => Rank(y, K, L) < Rank(x, K, L)
    BY <1>5, <1>6, RankLess
  <2> QED
    BY <1>5, <2>1, <2>2 DEF TotalOrder
<1>13. ASSUME NEW i \in Range(rows), Keys[i] \notin {g.key : g \in Range(groups)},
              NEW g \in Range(groups)
       PROVE  Cardinality({j \in Range(rows) : Keys[j] = Keys[i]}) <= g.count
  <2>1. PICK a \in 1..m : g = groups[a]
    BY <1>11 DEF Range
  <2>2. PICK c \in 1..Len(sorted) : sorted[c] = Keys[i]
    BY <1>7, <1>9
  <2>3. ~(c <= m)
    <3>1. c \in 1..m => groups[c] \in Range(groups) /\ groups[c].key = Keys[i]
      BY <1>11, <2>2 DEF Range
    <3> QED
      BY <1>10, <1>13, <2>2, <3>1
  <2>4. a \in 1..Len(sorted) /\ a - 1 < c - 1
    BY <1>9, <1>10, <2>1, <2>2, <2>3
  <2>5. <<sorted[a], sorted[c]>> \in L /\ sorted[a] \in K /\ sorted[c] \in K
    BY <1>9, <1>12, <2>2, <2>4
  <2> QED
    BY <1>7, <1>8, <1>11, <2>1, <2>2, <2>5
<1>14. ASSUME Len(groups) < top
       PROVE  Sum(groups) = Cardinality(Range(rows))
  <2> DEFINE T == Range(rows)
             f == [i \in T |-> Rank(Keys[i], K, L) + 1]
             D == 1..m
  <2>1. m = Len(sorted)
    BY <1>10, <1>11, <1>14
  <2>2. ASSUME NEW i \in T
        PROVE  f[i] \in D /\ \A g \in D : f[i] = g <=> Keys[i] = sorted[g]
    <3>1. PICK c \in D : sorted[c] = Keys[i]
      BY <1>7, <1>9, <2>1
    <3>2. f[i] = c
      BY <1>9, <2>1, <3>1
    <3>3. \A g \in D : Keys[i] = sorted[g] => f[i] = g
      BY <1>9, <2>1
    <3> QED
      BY <3>1, <3>2, <3>3
  <2>3. f \in [T -> D]
    BY <2>2
  <2>4. ASSUME NEW g \in D
        PROVE  groups[g].count = Cardinality({i \in T : f[i] = g})
    <3>1. {i \in T : f[i] = g} = group(rows, sorted[g])
      BY <2>2 DEF group, breakdownKeyFn
    <3> QED
      BY <1>11, <3>1
  <2>5. DOMAIN groups = D
    BY <1>11
  <2>6. CountsGroups(groups, T, f, D)
    BY <2>3, <2>4, <2>5, Zenon DEF CountsGroups
  <2> HIDE DEF f, D
  <2> QED
    BY <1>4, <2>6, GroupsAddUp, Zenon
<1>15. answer'.rows = rows /\ answer'.top = top /\ answer'.groups = groups /\ answer'.kind = "breakdown"
  BY <1>1
<1>16. BreakdownAddsUp'
  BY <1>13, <1>14, <1>15, Zenon DEF BreakdownAddsUp
<1> QED
  BY <1>1, <1>2, <1>15, <1>16

\* The row at the index of a percentile has that index as its rank.
LEMMA PercentileRank ==
  ASSUME NEW S, S \subseteq Ids, IsFiniteSet(S), NEW n \in Nat \ {0}, n = Cardinality(S),
         NEW pct \in {50, 95, 99}, NEW v, v = percentile(OrderBy(S, shorter), pct)
  PROVE  IsPercentile(v, S, n, pct)
<1> DEFINE sorted == OrderBy(S, shorter)
           share == (n - 1) * pct
           index == share \div 100
<1>1. TotalOrder(S, shorter) /\ \A x \in S : x \in Nat
  BY ShorterIsOrder, StoreAssumption
<1>2. /\ sorted \in Seq(S) /\ Len(sorted) = n
      /\ \A k \in 1..Len(sorted) : sorted[k] \in S /\ Rank(sorted[k], S, shorter) = k - 1
  BY <1>1, OrderByRank
<1> HIDE DEF sorted
<1>3. index \in Nat /\ index * 100 <= share /\ share < index * 100 + 100
      /\ share <= (n - 1) * 100 /\ share \in Nat
  OBVIOUS
<1> HIDE DEF index, share
<1>4. index + 1 \in 1..n
  BY <1>3
<1>5. sorted # <<>>
  BY <1>2
<1>6. v = sorted[index + 1]
  BY <1>2, <1>5 DEF percentile, index, share, sorted
<1>7. v \in S /\ Rank(v, S, shorter) = index
  BY <1>2, <1>3, <1>4, <1>6
<1> DEFINE before == {i \in S : <<i, v>> \in shorter}
<1>8. {i \in S : i <= v} = before \cup {v} /\ v \notin before
  <2>1. \A i \in S : <<i, v>> \in shorter <=> i < v
    BY <1>7 DEF shorter
  <2> QED
    BY <1>1, <1>7, <2>1
<1>9. IsFiniteSet(before) /\ Cardinality(before) = index
  <2>1. before \in SUBSET S
    OBVIOUS
  <2> QED
    BY <1>7, <2>1, FS_Subset DEF Rank
<1> HIDE DEF before
<1>10. Cardinality({i \in S : i <= v}) = index + 1
  BY <1>8, <1>9, FS_AddElement
<1> QED
  BY <1>3, <1>10 DEF IsPercentile, share

\* The percentiles of the statistics are what they say.
LEMMA StatsStep ==
  ASSUME StoreInv, NEW from \in Nat, NEW to \in Nat, Stats(from, to)
  PROVE  /\ report' = "done" /\ filter' \in Nat \X Nat /\ UNCHANGED storeVars
         /\ answer'.kind = "stats" /\ StatsAddUp'
<1> DEFINE w == timeWindow(from, to)
           rows == Query(w[1], w[2], MaxQueryLimit, 0)
           durations == OrderBy(Range(rows), shorter)
<1>1. /\ report' = "done" /\ filter' = w /\ UNCHANGED storeVars
      /\ answer' = [kind |-> "stats", rows |-> rows, total |-> Len(rows),
                    errors |-> Cardinality(Range(rows) \cap Failed),
                    p50 |-> percentile(durations, 50),
                    p95 |-> percentile(durations, 95),
                    p99 |-> percentile(durations, 99)]
  BY DEF Stats
<1>2. w \in Nat \X Nat
  BY WindowTurned
<1>3. IsRead(rows, Matching(w[1], w[2]))
  BY QueryRead, Zenon
<1> HIDE DEF w, rows
<1>4. /\ Range(rows) \subseteq Ids /\ IsFiniteSet(Range(rows))
      /\ Cardinality(Range(rows)) = Len(rows) /\ rows \in Seq(Ids)
  BY <1>3 DEF IsRead
<1> HIDE DEF durations
<1>5. /\ answer'.rows = rows /\ answer'.total = Len(rows) /\ answer'.kind = "stats"
      /\ answer'.p50 = percentile(durations, 50)
      /\ answer'.p95 = percentile(durations, 95)
      /\ answer'.p99 = percentile(durations, 99)
  BY <1>1
<1>6. ASSUME rows # <<>>, NEW pct \in {50, 95, 99}
      PROVE  IsPercentile(percentile(durations, pct), Range(rows), Len(rows), pct)
  <2>1. Len(rows) \in Nat \ {0}
    BY <1>4, <1>6
  <2> QED
    BY <1>4, <1>6, <2>1, PercentileRank, Zenon DEF durations
<1>7. StatsAddUp'
  BY <1>5, <1>6 DEF StatsAddUp
<1> QED
  BY <1>1, <1>2, <1>5, <1>7

\* The page of the events list lies within the rows that match when it is read.
LEMMA EventsStep ==
  ASSUME ReportInv, NEW from \in Nat, NEW to \in Nat, NEW limit \in {0, 1}, NEW off \in {0, 1},
         Events(from, to, limit, off)
  PROVE  ReportInv'
<1> DEFINE asked == IF limit = 0 THEN 50 ELSE limit
           rows == Query(from, to, asked, off)
           M == Matching(from, to)
<1>1. /\ report' = "count" /\ filter' = <<from, to>> /\ UNCHANGED storeVars
      /\ answer' = [kind |-> "events", offset |-> off, total |-> 0, counted |-> FALSE, rows |-> rows]
  BY DEF Events
<1>2. StoreInv /\ StoreInv' /\ M' = M
  BY <1>1 DEF ReportInv, StoreInv, storeVars, Matching
<1>3. ClampLimit(asked) \in Nat /\ off \in Nat
  BY StoreAssumption DEF ClampLimit
<1>4. IsPage(rows, M, off, ClampLimit(asked))
  BY <1>2, <1>3, QueryPage, Zenon
<1>5. M \subseteq Ids
  BY <1>2, MatchingRows
<1> HIDE DEF rows, M
<1>6. /\ rows \in Seq(M)
      /\ Len(rows) = 0 \/ off + Len(rows) <= Cardinality(M)
  BY <1>4 DEF IsPage
<1>7. rows \in Seq(Ids)
  BY <1>4, <1>5, SeqWider DEF IsPage
<1>8. rows # <<>> => off + Len(rows) <= Count(from, to)'
  BY <1>2, <1>6, <1>7 DEF Count, M
<1>9. answer' \in EventsRead /\ answer'.rows = rows /\ answer'.offset = off /\ ~answer'.counted
  BY <1>1, <1>3, <1>7 DEF EventsRead
<1> QED
  BY <1>1, <1>2, <1>8, <1>9 DEF ReportInv, PageFitsTotal, DashboardOffByLateRows, ReportsAddUp

\* The count comes after the page.
LEMMA EventsTotalStep ==
  ASSUME ReportInv, EventsTotal
  PROVE  ReportInv'
<1>1. /\ report = "count" /\ report' = "done" /\ UNCHANGED <<filter, storeVars>>
      /\ answer \in EventsRead /\ ~answer.counted
      /\ answer.rows # <<>> => answer.offset + Len(answer.rows) <= Count(filter[1], filter[2])
  BY DEF ReportInv, EventsTotal
<1>2. StoreInv' /\ filter' \in Nat \X Nat
  BY <1>1 DEF ReportInv, StoreInv, storeVars
<1>3. /\ answer'.kind = "events" /\ answer'.rows = answer.rows /\ answer'.offset = answer.offset
      /\ answer'.counted => answer'.total = Count(filter[1], filter[2])
  BY <1>1 DEF EventsTotal, EventsRead
<1> QED
  BY <1>1, <1>2, <1>3 DEF ReportInv, PageFitsTotal, DashboardOffByLateRows, ReportsAddUp

\* The first count of the dashboard.
LEMMA DashboardTotalStep ==
  ASSUME ReportInv, DashboardTotal
  PROVE  ReportInv'
<1>1. /\ report' = "success" /\ UNCHANGED storeVars
      /\ filter' = <<IF now > Hour THEN now - Hour ELSE 0, now>>
  BY DEF DashboardTotal
<1>2. StoreInv /\ StoreInv' /\ filter' \in Nat \X Nat
  <2>1. StoreInv /\ StoreInv'
    BY <1>1 DEF ReportInv, StoreInv, storeVars
  <2>2. now \in Nat /\ Hour \in Nat
    BY <2>1, ReportAssumption DEF StoreInv
  <2> QED
    BY <1>1, <2>1, <2>2
<1> DEFINE M == Matching(filter'[1], filter'[2])
<1>3. PICK rows \in {M, {}} :
        answer' = [kind |-> "dashboard", total |-> Cardinality(rows), success |-> 0,
                   recent |-> <<>>, basis |-> rows]
  BY DEF DashboardTotal
<1>4. M \subseteq Ids /\ IsFiniteSet(M) /\ Cardinality(M) \in Nat /\ Cardinality({}) = 0
  BY <1>2, MatchingRows, FS_EmptySet
<1>5. M = Matching(filter[1], filter[2])'
  BY <1>1 DEF Matching, storeVars
<1> HIDE DEF M
<1>6. answer' \in DashboardRead /\ answer'.basis = rows /\ answer'.success = 0
      /\ answer'.total = Cardinality(rows) /\ rows \subseteq M
  <2>1. rows \subseteq M /\ rows \in SUBSET Ids /\ Cardinality(rows) \in Nat /\ <<>> \in Seq(Ids)
    BY <1>4
  <2> QED
    BY <1>3, <2>1 DEF DashboardRead
<1>7. Count(filter[1], filter[2])' = Cardinality(M)
  BY <1>5 DEF Count
<1>8. answer'.basis \subseteq Matching(filter[1], filter[2])' /\ 0 <= Cardinality(M)
  BY <1>4, <1>5, <1>6
<1> QED
  BY <1>1, <1>2, <1>6, <1>7, <1>8
     DEF ReportInv, PageFitsTotal, DashboardOffByLateRows, ReportsAddUp

\* The second count, over at least the rows of the first.
LEMMA DashboardSuccessStep ==
  ASSUME ReportInv, DashboardSuccess
  PROVE  ReportInv'
<1> DEFINE M == Matching(filter[1], filter[2])
<1>1. /\ report = "success" /\ report' = "recent" /\ UNCHANGED <<filter, storeVars>>
      /\ answer \in DashboardRead /\ answer.basis \subseteq M
      /\ answer.total = Cardinality(answer.basis) /\ filter \in Nat \X Nat /\ StoreInv
  BY DEF ReportInv, DashboardSuccess
<1>2. StoreInv' /\ M' = M /\ filter' \in Nat \X Nat
  BY <1>1 DEF StoreInv, storeVars, Matching
<1>3. PICK n \in {Cardinality(M \ Failed), 0} : answer' = [answer EXCEPT !.success = n]
  BY DEF DashboardSuccess
<1>4. IsFiniteSet(M) /\ Cardinality(M) \in Nat
  BY <1>1, MatchingRows
<1> HIDE DEF M
<1> DEFINE B == answer.basis
<1>5. IsFiniteSet(B) /\ IsFiniteSet(M \ Failed) /\ Cardinality(M \ Failed) <= Cardinality(M)
  <2>1. B \in SUBSET M /\ (M \ Failed) \in SUBSET M
    BY <1>1
  <2> QED
    BY <1>4, <2>1, FS_Subset
<1>6. /\ Cardinality(B \ Failed) = Cardinality(B) - Cardinality(B \cap Failed)
      /\ Cardinality(B \ Failed) <= Cardinality(M \ Failed)
  <2>1. (B \ Failed) \in SUBSET (M \ Failed)
    BY <1>1
  <2> QED
    BY <1>5, <2>1, FS_Subset, FS_Difference
<1>7. /\ Cardinality(M \ Failed) \in Nat /\ Cardinality(B) \in Nat
      /\ Cardinality(B \cap Failed) \in Nat
  <2>1. (B \cap Failed) \in SUBSET B
    OBVIOUS
  <2> QED
    BY <1>5, <2>1, FS_CardinalityType, FS_Subset
<1> HIDE DEF B
<1>8. n \in Nat /\ n <= Cardinality(M)
      /\ (n # 0 => Cardinality(B) <= n + Cardinality(B \cap Failed))
  BY <1>3, <1>4, <1>5, <1>6, <1>7
<1>9. answer' \in DashboardRead /\ answer'.basis = B /\ answer'.success = n
      /\ answer'.total = answer.total
  BY <1>1, <1>3, <1>8 DEF DashboardRead, B
<1>10. Count(filter[1], filter[2])' = Cardinality(M)
  BY <1>1, <1>2 DEF Count, M
<1>11. B \subseteq Matching(filter[1], filter[2])' /\ answer'.total = Cardinality(B)
  BY <1>1, <1>2, <1>9 DEF M, B
<1> QED
  BY <1>1, <1>2, <1>8, <1>9, <1>10, <1>11
     DEF ReportInv, PageFitsTotal, DashboardOffByLateRows, ReportsAddUp

\* The list comes last and touches no count.
LEMMA DashboardRecentStep ==
  ASSUME ReportInv, DashboardRecent
  PROVE  ReportInv'
<1> DEFINE M == Matching(filter[1], filter[2])
           B == answer.basis
<1>1. /\ report = "recent" /\ report' = "done" /\ UNCHANGED <<filter, storeVars>>
      /\ answer \in DashboardRead /\ B \subseteq M /\ answer.total = Cardinality(B)
      /\ answer.success <= Count(filter[1], filter[2]) /\ filter \in Nat \X Nat /\ StoreInv
      /\ answer.success # 0 => answer.total <= answer.success + Cardinality(B \cap Failed)
  BY DEF ReportInv, DashboardRecent
<1>2. StoreInv' /\ M' = M /\ filter' \in Nat \X Nat
  BY <1>1 DEF StoreInv, storeVars, Matching
<1>3. /\ answer'.kind = "dashboard" /\ answer'.basis = B
      /\ answer'.success = answer.success /\ answer'.total = answer.total
  BY <1>1 DEF DashboardRecent, DashboardRead
<1>4. IsFiniteSet(M) /\ Cardinality(M) \in Nat /\ Count(filter[1], filter[2]) = Cardinality(M)
  BY <1>1, MatchingRows DEF Count
<1>5. answer.success \in Nat /\ answer.total \in Nat
  BY <1>1 DEF DashboardRead
<1> HIDE DEF M, B
<1>6. Cardinality(M \ B) = Cardinality(M) - Cardinality(B) /\ Cardinality(M \ B) \in Nat
  <2>1. M \cap B = B
    BY <1>1
  <2>2. IsFiniteSet(M \ B) /\ Cardinality(M \ B) = Cardinality(M) - Cardinality(M \cap B)
    BY <1>4, FS_Difference
  <2> QED
    BY <2>1, <2>2, FS_CardinalityType
<1>7. answer.success <= answer.total + Cardinality(M \ B)
  BY <1>1, <1>4, <1>5, <1>6
<1>8. M = Matching(filter[1], filter[2])'
  BY <1>2 DEF M
<1>9. DashboardOffByLateRows'
  BY <1>1, <1>3, <1>7, <1>8 DEF DashboardOffByLateRows
<1> QED
  BY <1>1, <1>2, <1>3, <1>9 DEF ReportInv, PageFitsTotal, ReportsAddUp

\* A step of the store between two reads: rows are added to the window.
LEMMA StoreKeepsReport ==
  ASSUME ReportInv, report # "done", StoreNext, UNCHANGED reportVars
  PROVE  ReportInv'
<1> DEFINE M == Matching(filter[1], filter[2])
<1>1. /\ StoreInv /\ StoreInv' /\ events \subseteq events' /\ \A i \in events : ts'[i] = ts[i]
      /\ UNCHANGED <<report, filter, answer>>
  BY StoreStep DEF ReportInv, reportVars
<1>2. M \in SUBSET M'
  BY <1>1 DEF Matching
<1>3. IsFiniteSet(M) /\ Cardinality(M) \in Nat /\ IsFiniteSet(M') /\ Cardinality(M') \in Nat
  <2>1. IsFiniteSet(M) /\ Cardinality(M) \in Nat
    BY <1>1, MatchingRows
  <2>2. M' \in SUBSET events' /\ IsFiniteSet(events')
    BY <1>1 DEF StoreInv, Matching
  <2>3. IsFiniteSet(M')
    BY <2>2, FS_Subset
  <2> QED
    BY <2>1, <2>3, FS_CardinalityType
<1>4. Cardinality(M) <= Cardinality(M')
  BY <1>2, <1>3, FS_Subset
<1>5. Count(filter[1], filter[2]) = Cardinality(M) /\ Count(filter[1], filter[2])' = Cardinality(M')
  BY DEF Count
<1> HIDE DEF M
<1>6. ASSUME report = "count"
      PROVE  /\ answer' \in EventsRead /\ ~answer'.counted
             /\ answer'.rows # <<>> =>
                  answer'.offset + Len(answer'.rows) <= Count(filter[1], filter[2])'
  <2>1. /\ answer \in EventsRead /\ ~answer.counted
        /\ answer.rows # <<>> => answer.offset + Len(answer.rows) <= Cardinality(M)
    BY <1>5, <1>6 DEF ReportInv
  <2>2. answer.offset \in Nat /\ Len(answer.rows) \in Nat
    BY <2>1 DEF EventsRead
  <2> QED
    BY <1>1, <1>3, <1>4, <1>5, <2>1, <2>2
<1>7. ASSUME report \in {"success", "recent"}
      PROVE  /\ answer' \in DashboardRead /\ answer'.basis \subseteq M'
             /\ answer'.total = Cardinality(answer'.basis)
             /\ answer'.success <= Count(filter[1], filter[2])'
             /\ answer'.success # 0 =>
                  answer'.total <= answer'.success + Cardinality(answer'.basis \cap Failed)
  <2>1. /\ answer \in DashboardRead /\ answer.basis \subseteq M
        /\ answer.total = Cardinality(answer.basis) /\ answer.success <= Cardinality(M)
        /\ answer.success # 0 =>
             answer.total <= answer.success + Cardinality(answer.basis \cap Failed)
    BY <1>5, <1>7 DEF ReportInv, M
  <2>2. answer.success \in Nat
    BY <2>1 DEF DashboardRead
  <2>3. answer.success <= Cardinality(M')
    BY <1>3, <1>4, <2>1, <2>2
  <2> QED
    BY <1>1, <1>2, <1>5, <2>1, <2>3
<1>8. M' = Matching(filter[1], filter[2])'
  BY DEF M
<1>9. /\ report' # "done" /\ report' = report /\ filter' \in Nat \X Nat
      /\ report' \in {"idle", "count", "success", "recent", "done"}
  BY <1>1 DEF ReportInv
<1> QED
  BY <1>1, <1>6, <1>7, <1>8, <1>9
     DEF ReportInv, PageFitsTotal, DashboardOffByLateRows, ReportsAddUp

\* What a handler holds between its reads bounds what it answers.
THEOREM ReportsInvariant == ReportSpec => []ReportInv
<1>1. ReportInit => ReportInv
  BY InitStoreInv DEF ReportInit, ReportInv, PageFitsTotal, DashboardOffByLateRows, ReportsAddUp
<1>2. ReportInv /\ [ReportNext]_<<storeVars, reportVars>> => ReportInv'
  <2> SUFFICES ASSUME ReportInv, [ReportNext]_<<storeVars, reportVars>>
               PROVE  ReportInv'
    OBVIOUS
  <2>1. CASE UNCHANGED <<storeVars, reportVars>>
    <3>1. UNCHANGED <<report, filter, answer>> /\ UNCHANGED storeVars
      BY <2>1 DEF reportVars
    <3>2. StoreInv'
      BY <3>1 DEF ReportInv, StoreInv, storeVars
    <3>3. /\ Matching(filter[1], filter[2])' = Matching(filter[1], filter[2])
          /\ Count(filter[1], filter[2])' = Count(filter[1], filter[2])
      BY <3>1 DEF Matching, Count, storeVars
    <3>4. PageFitsTotal' /\ DashboardOffByLateRows'
      BY <3>1, <3>3 DEF ReportInv, PageFitsTotal, DashboardOffByLateRows
    <3>5. /\ TimeseriesAddsUp' = TimeseriesAddsUp /\ BreakdownAddsUp' = BreakdownAddsUp
          /\ StatsAddUp' = StatsAddUp
      <4>1. ts' = ts /\ filter' = filter /\ answer' = answer
        BY <3>1 DEF storeVars
      <4>2. TimeseriesAddsUp' = TimeseriesAddsUp
        BY <4>1, Zenon DEF TimeseriesAddsUp
      <4>3. BreakdownAddsUp' = BreakdownAddsUp
        BY <4>1, Zenon DEF BreakdownAddsUp
      <4>4. StatsAddUp' = StatsAddUp
        BY <4>1, Zenon DEF StatsAddUp
      <4> QED
        BY <4>2, <4>3, <4>4
    <3>6. ReportsAddUp'
      BY <3>1, <3>5 DEF ReportInv, ReportsAddUp
    <3> QED
      BY <3>1, <3>2, <3>3, <3>4, <3>6 DEF ReportInv
  <2>2. StoreInv /\ \A w \in ReportWindows : w[1] \in Nat /\ w[2] \in Nat
    BY ReportAssumption DEF ReportInv
  <2>3. ASSUME NEW w \in ReportWindows, NEW b \in Buckets, Timeseries(w[1], w[2], b)
        PROVE  ReportInv'
    <3>1. /\ report' = "done" /\ filter' \in Nat \X Nat /\ UNCHANGED storeVars
          /\ answer'.kind \in {"badRequest", "timeseries"}
          /\ answer'.kind = "timeseries" => TimeseriesAddsUp'
      BY <2>2, <2>3, TimeseriesStep
    <3> QED
      BY <2>2, <3>1
         DEF ReportInv, StoreInv, storeVars, PageFitsTotal, DashboardOffByLateRows, ReportsAddUp
  <2>4. ASSUME NEW w \in ReportWindows, NEW top \in Tops, Breakdown(w[1], w[2], top)
        PROVE  ReportInv'
    <3>1. /\ report' = "done" /\ filter' \in Nat \X Nat /\ UNCHANGED storeVars
          /\ answer'.kind = "breakdown" /\ BreakdownAddsUp'
      BY <2>2, <2>4, BreakdownStep
    <3> QED
      BY <2>2, <3>1
         DEF ReportInv, StoreInv, storeVars, PageFitsTotal, DashboardOffByLateRows, ReportsAddUp
  <2>5. ASSUME NEW w \in ReportWindows, Stats(w[1], w[2])
        PROVE  ReportInv'
    <3>1. /\ report' = "done" /\ filter' \in Nat \X Nat /\ UNCHANGED storeVars
          /\ answer'.kind = "stats" /\ StatsAddUp'
      BY <2>2, <2>5, StatsStep
    <3> QED
      BY <2>2, <3>1
         DEF ReportInv, StoreInv, storeVars, PageFitsTotal, DashboardOffByLateRows, ReportsAddUp
  <2>6. ASSUME ReportError
        PROVE  ReportInv'
    BY <2>6 DEF ReportError, ReportInv, StoreInv, storeVars, PageFitsTotal,
                DashboardOffByLateRows, ReportsAddUp
  <2>7. ASSUME NEW w \in ReportWindows, NEW limit \in {0, 1}, NEW off \in {0, 1},
               Events(w[1], w[2], limit, off)
        PROVE  ReportInv'
    BY <2>2, <2>7, EventsStep
  <2> QED
    BY <2>1, <2>3, <2>4, <2>5, <2>6, <2>7, EventsTotalStep, DashboardTotalStep,
       DashboardSuccessStep, DashboardRecentStep, StoreKeepsReport DEF ReportNext
<1> QED
  BY <1>1, <1>2, PTL DEF ReportSpec

\* The page of the events list fits into its total: auditEvents reads it first,
\* and rows are only added.
THEOREM PageFits == ReportSpec => []PageFitsTotal
<1>1. ReportInv => PageFitsTotal
  BY DEF ReportInv
<1> QED
  BY <1>1, ReportsInvariant, PTL

\* The errors of dashboard are off by no more than the rows committed between its
\* two counts.
THEOREM DashboardErrors == ReportSpec => []DashboardOffByLateRows
<1>1. ReportInv => DashboardOffByLateRows
  BY DEF ReportInv
<1> QED
  BY <1>1, ReportsInvariant, PTL

\* Time series, breakdown and statistics account for the rows they read, whatever
\* the window, the length of a bucket, the groups and the durations.
THEOREM ReportsAccount == ReportSpec => []ReportsAddUp
<1>1. ReportInv => ReportsAddUp
  BY DEF ReportInv
<1> QED
  BY <1>1, ReportsInvariant, PTL
=============================================================================

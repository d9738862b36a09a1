---------------------------- MODULE AuditProofs -----------------------------
(***************************************************************************)
(* Proofs about the export and the stream of audit events, for any events, *)
(* times, windows and limits.  ReadersInv of AuditReaders is inductive,    *)
(* and contains or implies the properties of the export and of the stream. *)
(***************************************************************************)
EXTENDS AuditReaders, FiniteSetTheorems, TLAPS

-----------------------------------------------------------------------------
(* Ranks.                                                                  *)

\* An order in which of any two members of S one comes before the other.
TotalOrder(S, R) ==
  /\ \A x \in S : <<x, x>> \notin R
  /\ \A x, y \in S : x = y \/ <<x, y>> \in R \/ <<y, x>> \in R
  /\ \A x, y, z \in S : <<x, y>> \in R /\ <<y, z>> \in R => <<x, z>> \in R

\* A rank counts members of the set.
LEMMA RankType ==
  ASSUME NEW S, IsFiniteSet(S), NEW R, NEW x
  PROVE  Rank(x, S, R) \in Nat
<1>1. {y \in S : <<y, x>> \in R} \in SUBSET S
  OBVIOUS
<1>2. IsFiniteSet({y \in S : <<y, x>> \in R})
  BY <1>1, FS_Subset
<1> QED
  BY <1>2, FS_CardinalityType DEF Rank

\* More rows before x means a higher rank.
LEMMA RankGrows ==
  ASSUME NEW S, IsFiniteSet(S), NEW T, IsFiniteSet(T), NEW R, NEW Q, NEW x,
         \A y \in S : <<y, x>> \in R => y \in T /\ <<y, x>> \in Q
  PROVE  Rank(x, S, R) <= Rank(x, T, Q)
<1>1. {y \in T : <<y, x>> \in Q} \in SUBSET T
  OBVIOUS
<1>2. IsFiniteSet({y \in T : <<y, x>> \in Q})
  BY <1>1, FS_Subset
<1>3. {y \in S : <<y, x>> \in R} \in SUBSET {y \in T : <<y, x>> \in Q}
  OBVIOUS
<1> QED
  BY <1>2, <1>3, FS_Subset DEF Rank

\* What comes first has the lower rank.
LEMMA RankLess ==
  ASSUME NEW S, IsFiniteSet(S), NEW R, TotalOrder(S, R),
         NEW x \in S, NEW y \in S, <<x, y>> \in R
  PROVE  Rank(x, S, R) < Rank(y, S, R)
<1> DEFINE A == {z \in S : <<z, x>> \in R}
           B == {z \in S : <<z, y>> \in R}
<1>1. A \in SUBSET B /\ x \in B /\ x \notin A /\ A # B
  BY DEF TotalOrder
<1>2. A \in SUBSET S /\ B \in SUBSET S
  OBVIOUS
<1>3. IsFiniteSet(A) /\ IsFiniteSet(B)
  BY <1>2, FS_Subset
<1> HIDE DEF A, B
<1>4. Cardinality(A) <= Cardinality(B) /\ Cardinality(A) # Cardinality(B)
  BY <1>1, <1>3, FS_Subset
<1>5. Cardinality(A) \in Nat /\ Cardinality(B) \in Nat
  BY <1>3, FS_CardinalityType
<1> QED
  BY <1>4, <1>5 DEF Rank, A, B

\* Every member but the one itself may be before it.
LEMMA RankBound ==
  ASSUME NEW S, IsFiniteSet(S), NEW R, TotalOrder(S, R), NEW x \in S
  PROVE  Rank(x, S, R) \in 0..(Cardinality(S) - 1)
<1> DEFINE A == {z \in S : <<z, x>> \in R}
<1>1. A \in SUBSET S /\ A # S
  BY DEF TotalOrder
<1>2. IsFiniteSet(A)
  BY <1>1, FS_Subset
<1> HIDE DEF A
<1>3. Cardinality(A) <= Cardinality(S) /\ Cardinality(A) # Cardinality(S)
  BY <1>1, FS_Subset
<1>4. Cardinality(A) \in Nat /\ Cardinality(S) \in Nat
  BY <1>2, FS_CardinalityType
<1> QED
  BY <1>3, <1>4 DEF Rank, A

\* Every rank below the number of members is that of exactly one.
LEMMA RankOnto ==
  ASSUME NEW S, IsFiniteSet(S), NEW R, TotalOrder(S, R)
  PROVE  /\ \A x, y \in S : Rank(x, S, R) = Rank(y, S, R) => x = y
         /\ \A k \in 0..(Cardinality(S) - 1) : \E x \in S : Rank(x, S, R) = k
<1> DEFINE T == 0..(Cardinality(S) - 1)
           f == [x \in S |-> Rank(x, S, R)]
<1>1. ASSUME NEW x \in S, NEW y \in S, Rank(x, S, R) = Rank(y, S, R)
      PROVE  x = y
  <2>1. CASE <<x, y>> \in R
    BY <1>1, <2>1, RankLess, RankType
  <2>2. CASE <<y, x>> \in R
    BY <1>1, <2>2, RankLess, RankType
  <2> QED
    BY <2>1, <2>2 DEF TotalOrder
<1>2. \A x \in S : Rank(x, S, R) \in T
  BY RankBound
<1>3. Cardinality(S) \in Nat
  BY FS_CardinalityType
<1>4. IsFiniteSet(T) /\ Cardinality(T) = Cardinality(S)
  BY <1>3, FS_Interval
<1> HIDE DEF T
<1>5. f \in [S -> T]
  BY <1>2
<1>6. f \in Injection(S, T)
  BY <1>1, <1>5 DEF Injection, IsInjective
<1>7. f \in Surjection(S, T)
  BY <1>4, <1>6, FS_Injection
<1>8. \A k \in T : \E x \in S : f[x] = k
  BY <1>7 DEF Surjection
<1> QED
  BY <1>1, <1>8 DEF T

\* ORDER BY lists the members by rank, each once.
LEMMA OrderByRank ==
  ASSUME NEW S, IsFiniteSet(S), NEW R, TotalOrder(S, R), NEW o, o = OrderBy(S, R)
  PROVE  /\ o \in Seq(S) /\ Len(o) = Cardinality(S)
         /\ \A k \in 1..Len(o) : o[k] \in S /\ Rank(o[k], S, R) = k - 1
         /\ Range(o) = S /\ IsInjective(o)
<1> DEFINE n == Cardinality(S)
<1>1. n \in Nat
  BY FS_CardinalityType
<1>2. \A k \in 1..n : k - 1 \in 0..(n - 1)
  BY <1>1
<1>3. \A k \in 1..n : \E x \in S : Rank(x, S, R) = k - 1
  BY <1>2, RankOnto
<1>4. o = [k \in 1..n |-> CHOOSE x \in S : Rank(x, S, R) = k - 1]
  BY DEF OrderBy
<1>5. \A k \in 1..n : o[k] \in S /\ Rank(o[k], S, R) = k - 1
  BY <1>3, <1>4
<1> HIDE DEF n
<1>6. o \in [1..n -> S]
  BY <1>4, <1>5
<1>7. o \in Seq(S) /\ Len(o) = n /\ DOMAIN o = 1..n
  BY <1>1, <1>6
<1>8. ASSUME NEW x \in S
      PROVE  x \in Range(o)
  <2>1. Rank(x, S, R) \in 0..(n - 1)
    BY RankBound DEF n
  <2> DEFINE k == Rank(x, S, R) + 1
  <2>2. k \in 1..n /\ k - 1 = Rank(x, S, R)
    BY <1>1, <2>1
  <2> HIDE DEF k
  <2>3. o[k] = x
    BY <1>5, <2>2, RankOnto
  <2> QED
    BY <1>7, <2>2, <2>3 DEF Range
<1>9. Range(o) \subseteq S
  BY <1>5, <1>7 DEF Range
<1>10. IsInjective(o)
  <2> SUFFICES ASSUME NEW a \in 1..n, NEW b \in 1..n, o[a] = o[b]
               PROVE  a = b
    BY <1>7 DEF IsInjective
  <2>1. a - 1 = b - 1
    BY <1>5
  <2> QED
    BY <1>1, <2>1
<1> QED
  BY <1>5, <1>7, <1>8, <1>9, <1>10 DEF n

-----------------------------------------------------------------------------
(* Query.                                                                  *)

\* ts DESC, id ASC is a total order on rows, because ids are distinct numbers.
LEMMA NewerIsOrder ==
  ASSUME ts \in [Ids -> Nat], NEW S, S \subseteq Ids
  PROVE  TotalOrder(S, Newer)
<1>1. Ids \subseteq Nat
  BY StoreAssumption
<1>2. \A x, y \in S : <<x, y>> \in Newer <=> ts[x] > ts[y] \/ (ts[x] = ts[y] /\ x < y)
  BY DEF Newer
<1>3. \A x \in S : x \in Nat /\ ts[x] \in Nat
  BY <1>1
<1>4. \A x \in S : <<x, x>> \notin Newer
  BY <1>2, <1>3
<1>5. ASSUME NEW x \in S, NEW y \in S, <<x, y>> \notin Newer, <<y, x>> \notin Newer
      PROVE  x = y
  <2>1. /\ ~(ts[x] > ts[y]) /\ ~(ts[x] = ts[y] /\ x < y)
        /\ ~(ts[y] > ts[x]) /\ ~(ts[y] = ts[x] /\ y < x)
    BY <1>2, <1>5, Zenon
  <2> QED
    BY <1>3, <2>1
<1>6. \A x, y, z \in S : <<x, y>> \in Newer /\ <<y, z>> \in Newer => <<x, z>> \in Newer
  BY <1>2, <1>3
<1> QED
  BY <1>4, <1>5, <1>6 DEF TotalOrder

\* The rows of a window are finitely many rows of the table.
LEMMA MatchingRows ==
  ASSUME StoreInv, NEW from, NEW to
  PROVE  /\ Matching(from, to) \subseteq events /\ Matching(from, to) \subseteq Ids
         /\ IsFiniteSet(Matching(from, to)) /\ Cardinality(Matching(from, to)) \in Nat
         /\ TotalOrder(Matching(from, to), Newer)
<1>1. Matching(from, to) \in SUBSET events
  BY DEF Matching
<1>2. IsFiniteSet(Matching(from, to))
  BY <1>1, FS_Subset DEF StoreInv
<1>3. Matching(from, to) \subseteq Ids /\ ts \in [Ids -> Nat]
  BY <1>1 DEF StoreInv
<1> QED
  BY <1>1, <1>2, <1>3, FS_CardinalityType, NewerIsOrder

\* The rows of M whose ranks follow the offset, as many as there are and the
\* limit allows.
IsPage(rows, M, off, max) ==
  /\ rows \in Seq(M) /\ Len(rows) <= max
  /\ Len(rows) = 0 \/ off + Len(rows) <= Cardinality(M)
  /\ Len(rows) < max => off + Len(rows) >= Cardinality(M)
  /\ \A k \in 1..Len(rows) : rows[k] \in M /\ Rank(rows[k], M, Newer) = off + k - 1
  /\ \A i \in M : off <= Rank(i, M, Newer) /\ Rank(i, M, Newer) < off + Len(rows) =>
                    i \in Range(rows)
  /\ IsInjective(rows)

\* Query returns a page of the rows that match.
LEMMA QueryPage ==
  ASSUME StoreInv, NEW from, NEW to, NEW limit, NEW off \in Nat,
         NEW max \in Nat, max = ClampLimit(limit),
         NEW M, M = Matching(from, to), NEW rows, rows = Query(from, to, limit, off)
  PROVE  IsPage(rows, M, off, max)
<1> DEFINE all == OrderBy(M, Newer)
           n == Cardinality(M)
           to2 == IF off + max < n THEN off + max ELSE n
<1>1. IsFiniteSet(M) /\ n \in Nat /\ TotalOrder(M, Newer)
  BY MatchingRows
<1>2. /\ all \in Seq(M) /\ Len(all) = n
      /\ \A k \in 1..n : all[k] \in M /\ Rank(all[k], M, Newer) = k - 1
      /\ Range(all) = M
  BY <1>1, OrderByRank
<1>3. rows = SubSeq(all, off + 1, to2)
  BY <1>2 DEF Query
<1> HIDE DEF all, n
<1>4. to2 \in Nat /\ to2 <= n /\ to2 <= off + max /\ (to2 < off + max => to2 = n)
  BY <1>1
<1> HIDE DEF to2
<1> DEFINE l == IF to2 < off THEN 0 ELSE to2 - off
<1>5. /\ rows \in Seq(M) /\ Len(rows) = l /\ DOMAIN rows = 1..l
      /\ \A k \in 1..l : rows[k] = all[off + k]
  BY <1>1, <1>2, <1>3, <1>4
<1>6. l \in Nat /\ l <= max /\ (l = 0 \/ off + l <= n) /\ (l < max => off + l >= n)
  BY <1>1, <1>4
<1>7. \A k \in 1..l : off + k \in 1..n
  BY <1>1, <1>4
<1> HIDE DEF l
<1>8. \A k \in 1..l : rows[k] \in M /\ Rank(rows[k], M, Newer) = off + k - 1
  BY <1>2, <1>5, <1>7
<1>9. ASSUME NEW i \in M, off <= Rank(i, M, Newer), Rank(i, M, Newer) < off + l
      PROVE  i \in Range(rows)
  <2> DEFINE k == Rank(i, M, Newer) - off + 1
  <2>1. Rank(i, M, Newer) \in Nat
    BY <1>1, RankType
  <2>2. k \in 1..l /\ off + k - 1 = Rank(i, M, Newer)
    BY <1>6, <1>9, <2>1
  <2> HIDE DEF k
  <2>3. rows[k] \in M /\ Rank(rows[k], M, Newer) = Rank(i, M, Newer)
    BY <1>8, <2>2
  <2>4. rows[k] = i
    BY <1>1, <2>3, RankOnto
  <2> QED
    BY <1>5, <2>2, <2>4 DEF Range
<1>10. IsInjective(rows)
  <2> SUFFICES ASSUME NEW a \in 1..l, NEW b \in 1..l, rows[a] = rows[b]
               PROVE  a = b
    BY <1>5 DEF IsInjective
  <2>1. off + a - 1 = off + b - 1
    BY <1>8
  <2> QED
    BY <1>6, <2>1
<1> QED
  BY <1>5, <1>6, <1>8, <1>9, <1>10 DEF n, IsPage

\* No limit of the code is cut.
LEMMA FullLimit == ClampLimit(MaxQueryLimit) = MaxQueryLimit /\ MaxQueryLimit \in Nat \ {0}
BY StoreAssumption DEF ClampLimit

-----------------------------------------------------------------------------
(* The tables.                                                             *)

\* A sequence over a set is one over a larger set.
LEMMA SeqWider ==
  ASSUME NEW S, NEW T, S \subseteq T, NEW s \in Seq(S)
  PROVE  s \in Seq(T)
<1>1. \A k \in 1..Len(s) : s[k] \in T
  OBVIOUS
<1> QED
  BY <1>1

\* The store starts empty.
LEMMA InitStoreInv == StoreInit => StoreInv
BY FS_EmptySet DEF StoreInit, StoreInv

\* The store only adds rows, a row keeps its time, and the step that adds a row
\* starts no request.
LEMMA StoreStep ==
  ASSUME StoreInv, StoreNext
  PROVE  /\ StoreInv'
         /\ events \subseteq events' /\ \A i \in events : ts'[i] = ts[i]
         /\ events' = events \/ ts' = ts
<1>1. CASE Tick
  BY <1>1 DEF Tick, StoreInv
<1>2. ASSUME NEW i \in Ids, NewEvent(i)
      PROVE  /\ StoreInv' /\ events' = events /\ \A j \in events : ts'[j] = ts[j]
  BY <1>2 DEF NewEvent, StoreInv
<1>3. ASSUME NEW i \in Ids, Log(i)
      PROVE  StoreInv' /\ events \subseteq events' /\ ts' = ts
  <2>1. IsFiniteSet(events \cup {i})
    BY FS_AddElement DEF StoreInv
  <2> QED
    BY <1>3, <2>1 DEF Log, StoreInv
<1> QED
  BY <1>1, <1>2, <1>3 DEF StoreNext, Tick, StoreInv

\* Rows keep their order.
LEMMA NewerStays ==
  ASSUME StoreInv, \A i \in events : ts'[i] = ts[i]
  PROVE  \A i, j \in events : <<i, j>> \in Newer' <=> <<i, j>> \in Newer
BY DEF Newer, StoreInv

\* A step of the store adds rows to a window, which raises the ranks of others; a
\* step that adds none leaves the ranks.
LEMMA ExportedStep ==
  ASSUME StoreInv, StoreNext, window' = window
  PROVE  /\ Exported \subseteq events /\ Exported' \subseteq events'
         /\ IsFiniteSet(Exported) /\ IsFiniteSet(Exported') /\ Exported \subseteq Exported'
         /\ \A i \in Exported : Rank(i, Exported, Newer) <= Rank(i, Exported', Newer')
         /\ (/\ window \in Nat \X Nat /\ window[2] # 0
             /\ \A i \in events' \ events : ts[i] \notin window[1]..window[2]) =>
              Exported' = Exported
         /\ Exported' = Exported =>
              \A i \in Exported : Rank(i, Exported', Newer') = Rank(i, Exported, Newer)
<1>1. /\ StoreInv' /\ events \subseteq events' /\ \A i \in events : ts'[i] = ts[i]
      /\ events' = events \/ ts' = ts
  BY StoreStep
<1>2. \A i, j \in events : <<i, j>> \in Newer' <=> <<i, j>> \in Newer
  BY <1>1, NewerStays
<1>3. /\ Exported \subseteq events /\ IsFiniteSet(Exported)
  BY MatchingRows DEF Exported
<1>4. Exported' \in SUBSET events'
  BY DEF Exported, Matching
<1>5. IsFiniteSet(Exported')
  BY <1>1, <1>4, FS_Subset DEF StoreInv
<1>6. Exported \subseteq Exported'
  BY <1>1 DEF Exported, Matching
<1>7. ASSUME NEW i \in Exported
      PROVE  Rank(i, Exported, Newer) <= Rank(i, Exported', Newer')
  BY <1>2, <1>3, <1>5, <1>6, RankGrows
<1>8. ASSUME window \in Nat \X Nat, window[2] # 0,
             \A i \in events' \ events : ts[i] \notin window[1]..window[2]
      PROVE  Exported' = Exported
  <2>1. \A i \in events' : i \in Ids /\ ts[i] \in Nat /\ ts'[i] \in Nat
    BY <1>1 DEF StoreInv
  <2>2. \A i \in events' : i \in events \/ (ts'[i] = ts[i] /\ ts[i] \notin window[1]..window[2])
    BY <1>1, <1>8
  <2>3. window[1] \in Nat /\ window[2] \in Nat
    BY <1>8
  <2> QED
    BY <1>1, <1>6, <1>8, <2>1, <2>2, <2>3 DEF Exported, Matching
<1>9. ASSUME Exported' = Exported, NEW i \in Exported
      PROVE  Rank(i, Exported', Newer') = Rank(i, Exported, Newer)
  <2>1. {j \in Exported' : <<j, i>> \in Newer'} = {j \in Exported : <<j, i>> \in Newer}
    BY <1>2, <1>3, <1>9
  <2> QED
    BY <2>1 DEF Rank
<1> QED
  BY <1>3, <1>4, <1>5, <1>6, <1>7, <1>8, <1>9

-----------------------------------------------------------------------------
(* The export.                                                             *)

\* The export has not begun.
LEMMA InitExportInv ==
  ASSUME StoreInv, ExportInit
  PROVE  ExportInv
<1>1. Cardinality(Exported) \in Nat
  BY MatchingRows DEF Exported
<1> QED
  BY <1>1 DEF ExportInit, ExportInv, ExportStates, ExportCoversWindow

\* A step of the store preserves ExportInv.
LEMMA StoreKeepsExport ==
  ASSUME StoreInv, ExportInv, export \in {"idle", "paging"}, StoreNext,
         UNCHANGED <<export, window, offset, out, atEntry>>,
         disturbed => disturbed',
         export = "paging" /\ ~disturbed' =>
           \A i \in events' \ events : ts[i] \notin window[1]..window[2]
  PROVE  ExportInv'
<1>1. /\ IsFiniteSet(Exported') /\ Exported \subseteq Exported'
      /\ \A i \in Exported : Rank(i, Exported, Newer) <= Rank(i, Exported', Newer')
      /\ Exported' = Exported =>
           \A i \in Exported : Rank(i, Exported', Newer') = Rank(i, Exported, Newer)
  BY ExportedStep
<1>2. out' \in Seq(Exported')
  BY <1>1, SeqWider DEF ExportInv
<1>3. Len(out') <= Cardinality(Exported')
  <2>1. Cardinality(Exported) <= Cardinality(Exported')
    BY <1>1, FS_Subset
  <2>2. Cardinality(Exported) \in Nat /\ Cardinality(Exported') \in Nat
    BY <1>1, MatchingRows, FS_CardinalityType DEF Exported
  <2> QED
    BY <2>1, <2>2 DEF ExportInv
<1>4. ASSUME export' = "paging", NEW i \in atEntry'
      PROVE  i \in Range(out') \/ Rank(i, Exported', Newer') >= offset'
  <2>1. i \in Exported /\ (i \in Range(out) \/ Rank(i, Exported, Newer) >= offset)
    BY <1>4 DEF ExportInv
  <2>2. Rank(i, Exported, Newer) \in Nat /\ Rank(i, Exported', Newer') \in Nat /\ offset \in Nat
    BY <1>1, MatchingRows, RankType DEF Exported, ExportInv
  <2> QED
    BY <1>1, <2>1, <2>2
<1>5. ASSUME ~disturbed', NEW k \in 1..Len(out')
      PROVE  Rank(out'[k], Exported', Newer') = k - 1
  <2>1. export = "paging" /\ out[k] \in Exported /\ Rank(out[k], Exported, Newer) = k - 1
    BY <1>5 DEF ExportInv
  <2>2. Exported' = Exported
    BY <1>5, <2>1, ExportedStep DEF ExportInv
  <2> QED
    BY <1>1, <2>1, <2>2
<1> QED
  BY <1>1, <1>2, <1>3, <1>4, <1>5 DEF ExportInv, ExportCoversWindow

\* The handler's entry: every row of the window has a rank.
LEMMA ExportBeginStep ==
  ASSUME StoreInv, ExportInv, NEW w \in ExportWindows, ExportBegin(w[1], w[2])
  PROVE  ExportInv'
<1> DEFINE pinned == IF w[2] = 0 \/ w[2] > now THEN now ELSE w[2]
<1>1. w[1] \in Nat /\ w[2] \in Nat /\ now \in Nat \ {0} /\ ExportLimit \in Nat \ {0}
  BY ExportAssumption DEF StoreInv
<1>2. pinned \in Nat \ {0}
  BY <1>1
<1>3. /\ export' = "paging" /\ window' = <<w[1], pinned>> /\ offset' = 0 /\ out' = <<>>
      /\ atEntry' = Matching(w[1], pinned) /\ ~disturbed' /\ UNCHANGED storeVars
  BY DEF ExportBegin
<1> HIDE DEF pinned
<1>4. Exported' = Matching(w[1], pinned) /\ Newer' = Newer
  BY <1>3 DEF Exported, Matching, Newer, storeVars
<1>5. IsFiniteSet(Exported') /\ Cardinality(Exported') \in Nat
  BY <1>4, MatchingRows
<1>6. \A i \in atEntry' : Rank(i, Exported', Newer') >= 0
  BY <1>5, RankType
<1> QED
  BY <1>1, <1>2, <1>3, <1>4, <1>5, <1>6 DEF ExportInv, ExportStates, ExportCoversWindow

\* The handler ends without a page.
LEMMA ExportStops ==
  ASSUME ExportInv, export' \in {export, "failed", "gone"},
         UNCHANGED <<window, offset, out, atEntry, disturbed, storeVars>>
  PROVE  ExportInv'
<1>1. Exported' = Exported /\ Newer' = Newer
  BY DEF Exported, Matching, Newer, storeVars
<1> QED
  BY <1>1 DEF ExportInv, ExportStates, ExportCoversWindow

\* One sequence after another, element by element.
IsJoin(c, a, b, S) ==
  /\ c \in Seq(S) /\ Len(c) = Len(a) + Len(b)
  /\ \A k \in 1..Len(a) : c[k] = a[k]
  /\ \A k \in (Len(a) + 1)..Len(c) : k - Len(a) \in 1..Len(b) /\ c[k] = b[k - Len(a)]
  /\ Range(c) = Range(a) \cup Range(b)

\* What \o computes.
LEMMA Joined ==
  ASSUME NEW S, NEW a \in Seq(S), NEW b \in Seq(S), NEW c, c = a \o b
  PROVE  IsJoin(c, a, b, S)
<1>1. /\ c \in Seq(S) /\ Len(c) = Len(a) + Len(b)
      /\ DOMAIN a = 1..Len(a) /\ DOMAIN b = 1..Len(b) /\ DOMAIN c = 1..Len(c)
  OBVIOUS
<1>2. \A k \in 1..Len(a) : c[k] = a[k] /\ k \in 1..Len(c)
  OBVIOUS
<1>3. \A k \in (Len(a) + 1)..Len(c) : k - Len(a) \in 1..Len(b) /\ c[k] = b[k - Len(a)]
  BY <1>1
<1>4. \A k \in 1..Len(b) : Len(a) + k \in 1..Len(c) /\ c[Len(a) + k] = b[k]
  BY <1>1
<1>5. \A k \in 1..Len(c) : k \in 1..Len(a) \/ k \in (Len(a) + 1)..Len(c)
  BY <1>1
<1>6. Range(c) \subseteq Range(a) \cup Range(b)
  BY <1>1, <1>2, <1>3, <1>5 DEF Range
<1>7. Range(a) \subseteq Range(c)
  BY <1>1, <1>2 DEF Range
<1>8. Range(b) \subseteq Range(c)
  BY <1>1, <1>4 DEF Range
<1> QED
  BY <1>1, <1>2, <1>3, <1>6, <1>7, <1>8 DEF IsJoin

\* A page preserves ExportInv: it has the rows by rank from the offset on.
LEMMA ExportPageStep ==
  ASSUME StoreInv, ExportInv, ExportPage
  PROVE  ExportInv'
<1> DEFINE rows == Query(window[1], window[2], MaxQueryLimit, offset)
           room == ExportLimit - Len(out)
           n == IF Len(rows) < room THEN Len(rows) ELSE room
           part == SubSeq(rows, 1, n)
<1>1. /\ export = "paging" /\ offset = Len(out) /\ offset \in Nat /\ Len(out) < ExportLimit
      /\ out \in Seq(Exported) /\ ExportLimit \in Nat /\ atEntry \subseteq Exported
  BY ExportAssumption DEF ExportPage, ExportInv
<1>2. /\ IsFiniteSet(Exported) /\ Cardinality(Exported) \in Nat /\ TotalOrder(Exported, Newer)
  BY MatchingRows DEF Exported
<1>3. /\ out' = out \o part
      /\ \/ Len(rows) >= room /\ export' = "truncated"
         \/ /\ Len(rows) < room /\ offset' = offset + Len(rows)
            /\ export' = IF Len(rows) < MaxQueryLimit THEN "complete" ELSE "paging"
      /\ offset' \in {offset, offset + Len(rows)}
      /\ UNCHANGED <<window, atEntry, disturbed>> /\ UNCHANGED storeVars
  BY DEF ExportPage
<1>4. /\ rows \in Seq(Exported) /\ Len(rows) \in Nat
      /\ Len(rows) = 0 \/ offset + Len(rows) <= Cardinality(Exported)
      /\ Len(rows) < MaxQueryLimit => offset + Len(rows) >= Cardinality(Exported)
      /\ \A k \in 1..Len(rows) : Rank(rows[k], Exported, Newer) = offset + k - 1
      /\ \A i \in Exported :
           offset <= Rank(i, Exported, Newer) /\ Rank(i, Exported, Newer) < offset + Len(rows) =>
             i \in Range(rows)
  <2>1. /\ Exported = Matching(window[1], window[2])
        /\ MaxQueryLimit \in Nat /\ MaxQueryLimit = ClampLimit(MaxQueryLimit)
    BY FullLimit DEF Exported
  <2>2. IsPage(rows, Exported, offset, MaxQueryLimit)
    BY <1>1, <2>1, QueryPage, Zenon
  <2> QED
    BY <2>2 DEF IsPage
<1> HIDE DEF rows
<1>5. /\ n \in Nat /\ n <= Len(rows) /\ n <= room
      /\ Len(rows) < room => n = Len(rows)
  BY <1>1, <1>4
<1> HIDE DEF n
<1>6. /\ part \in Seq(Exported) /\ Len(part) = n
      /\ \A k \in 1..n : part[k] = rows[k]
  BY <1>4, <1>5
<1>7. n = Len(rows) => Range(part) = Range(rows)
  BY <1>4, <1>6 DEF Range
<1> HIDE DEF part
<1>8. /\ out' \in Seq(Exported) /\ Len(out') = Len(out) + n
      /\ \A k \in 1..Len(out) : out'[k] = out[k]
      /\ \A k \in (Len(out) + 1)..Len(out') : k - Len(out) \in 1..n /\ out'[k] = part[k - Len(out)]
      /\ Range(out') = Range(out) \cup Range(part)
  <2>1. IsJoin(out', out, part, Exported)
    BY <1>1, <1>3, <1>6, Joined, Zenon
  <2> QED
    BY <1>6, <2>1 DEF IsJoin
<1>9. Exported' = Exported /\ Newer' = Newer
  BY <1>3 DEF Exported, Matching, Newer, storeVars
<1>10. Len(out') <= Cardinality(Exported)
  BY <1>1, <1>2, <1>4, <1>5, <1>8 DEF ExportInv
<1>11. ASSUME ~disturbed, NEW k \in 1..Len(out')
       PROVE  Rank(out'[k], Exported, Newer) = k - 1
  <2>1. CASE k \in 1..Len(out)
    BY <1>8, <1>11, <2>1 DEF ExportInv
  <2>2. CASE k \notin 1..Len(out)
    <3>1. k \in (Len(out) + 1)..Len(out') /\ k - Len(out) \in 1..n
      BY <1>1, <1>5, <1>8, <2>2
    <3>2. out'[k] = rows[k - Len(out)] /\ k - Len(out) \in 1..Len(rows)
      BY <1>4, <1>5, <1>6, <1>8, <3>1
    <3>3. Rank(out'[k], Exported, Newer) = offset + (k - Len(out)) - 1
      BY <1>4, <3>2
    <3> QED
      BY <1>1, <3>3
  <2> QED
    BY <2>1, <2>2
<1>12. ASSUME NEW i \in atEntry, Len(rows) < room
       PROVE  i \in Range(out') \/ Rank(i, Exported, Newer) >= offset + Len(rows)
  <2>1. i \in Range(out) \/ Rank(i, Exported, Newer) >= offset
    BY <1>1 DEF ExportInv
  <2>2. Rank(i, Exported, Newer) \in Nat
    BY <1>2, RankType
  <2>3. Range(out') = Range(out) \cup Range(rows)
    BY <1>5, <1>7, <1>8, <1>12
  <2>4. i \in Exported
    BY <1>1
  <2> QED
    BY <1>1, <1>4, <2>1, <2>2, <2>3, <2>4
<1>13. ASSUME export' = "complete"
       PROVE  atEntry \subseteq Range(out')
  <2>1. Len(rows) < room /\ Len(rows) < MaxQueryLimit
    BY <1>3, <1>13
  <2>2. \A i \in atEntry : Rank(i, Exported, Newer) \in 0..(Cardinality(Exported) - 1)
    BY <1>1, <1>2, RankBound
  <2> QED
    BY <1>1, <1>2, <1>4, <1>12, <2>1, <2>2
<1>14. ASSUME export' = "paging"
       PROVE  /\ window'[2] # 0 /\ offset' = Len(out') /\ Len(out') < ExportLimit
              /\ \A i \in atEntry' : i \in Range(out') \/ Rank(i, Exported, Newer) >= offset'
  <2>1. Len(rows) < room /\ offset' = offset + Len(rows)
    BY <1>3, <1>14
  <2>2. window'[2] # 0
    BY <1>1, <1>3 DEF ExportInv
  <2>3. offset' = Len(out') /\ Len(out') < ExportLimit
    BY <1>1, <1>4, <1>5, <1>8, <2>1, SMTT(30)
  <2>4. \A i \in atEntry' : i \in Range(out') \/ Rank(i, Exported, Newer) >= offset'
    BY <1>3, <1>12, <2>1
  <2> QED
    BY <2>2, <2>3, <2>4
<1>15. export' \in {"truncated", "complete", "paging"} /\ offset' \in Nat
  BY <1>1, <1>3, <1>4
<1> HIDE DEF room
<1> QED
  BY <1>3, <1>8, <1>9, <1>10, <1>11, <1>13, <1>14, <1>15
     DEF ExportInv, ExportStates, ExportCoversWindow

-----------------------------------------------------------------------------
(* The stream.                                                             *)

\* Nothing comes twice if nothing does in the parts and they share nothing.
LEMMA JoinInjective ==
  ASSUME NEW S, NEW a \in Seq(S), NEW b \in Seq(S), NEW c, IsJoin(c, a, b, S),
         IsInjective(a), IsInjective(b), Range(a) \cap Range(b) = {}
  PROVE  IsInjective(c)
<1>1. /\ DOMAIN a = 1..Len(a) /\ DOMAIN b = 1..Len(b) /\ DOMAIN c = 1..Len(c)
      /\ Len(c) = Len(a) + Len(b) /\ Len(a) \in Nat /\ Len(b) \in Nat
  BY DEF IsJoin
<1>2. ASSUME NEW k \in 1..Len(c)
      PROVE  \/ k \in 1..Len(a) /\ c[k] = a[k] /\ c[k] \in Range(a)
             \/ k - Len(a) \in 1..Len(b) /\ c[k] = b[k - Len(a)] /\ c[k] \in Range(b)
  <2>1. CASE k \in 1..Len(a)
    BY <1>1, <2>1 DEF IsJoin, Range
  <2>2. CASE k \notin 1..Len(a)
    <3>1. k \in (Len(a) + 1)..Len(c)
      BY <1>1, <2>2
    <3> QED
      BY <1>1, <3>1 DEF IsJoin, Range
  <2> QED
    BY <2>1, <2>2
<1>3. ASSUME NEW k \in 1..Len(c), NEW l \in 1..Len(c), c[k] = c[l]
      PROVE  k = l
  <2>1. \/ k \in 1..Len(a) /\ l \in 1..Len(a) /\ a[k] = a[l]
        \/ /\ k - Len(a) \in 1..Len(b) /\ l - Len(a) \in 1..Len(b)
           /\ b[k - Len(a)] = b[l - Len(a)]
    BY <1>2, <1>3
  <2>2. CASE k \in 1..Len(a) /\ l \in 1..Len(a) /\ a[k] = a[l]
    BY <1>1, <2>2 DEF IsInjective
  <2>3. CASE /\ k - Len(a) \in 1..Len(b) /\ l - Len(a) \in 1..Len(b)
             /\ b[k - Len(a)] = b[l - Len(a)]
    <3>1. k - Len(a) = l - Len(a)
      BY <1>1, <2>3 DEF IsInjective
    <3> QED
      BY <1>1, <3>1
  <2> QED
    BY <2>1, <2>2, <2>3
<1> QED
  BY <1>1, <1>3 DEF IsInjective

\* What is fresh of a page, each row once.
LEMMA FreshRows ==
  ASSUME StoreInv, NEW rows \in Seq(events), NEW fresh, fresh = Fresh(rows)
  PROVE  /\ fresh \in Seq(events) /\ IsInjective(fresh)
         /\ Range(fresh) = {i \in Range(rows) : ts[i] > lastSeen /\ i \notin seen}
<1> DEFINE S == {i \in Range(rows) : ts[i] > lastSeen /\ i \notin seen}
<1>1. S \in SUBSET events
  BY DEF Range
<1>2. IsFiniteSet(S) /\ S \subseteq Ids /\ ts \in [Ids -> Nat]
  BY <1>1, FS_Subset DEF StoreInv
<1>3. TotalOrder(S, Newer)
  BY <1>2, NewerIsOrder
<1>4. fresh = OrderBy(S, Newer)
  BY DEF Fresh
<1> HIDE DEF S
<1>5. fresh \in Seq(S) /\ IsInjective(fresh) /\ Range(fresh) = S
  BY <1>2, <1>3, <1>4, OrderByRank
<1> QED
  BY <1>1, <1>5, SeqWider DEF S

\* The stream has not begun.
LEMMA InitStreamInv == StreamInit => StreamInv
BY DEF StreamInit, StreamInv, StreamStates, StreamShowsNewOnce, StreamMissesOnlyLate,
       Range, IsInjective

\* A step of the store preserves StreamInv, if the rows that come too late are
\* noted.
LEMMA StoreKeepsStream ==
  ASSUME StoreInv, StreamInv, StoreNext,
         UNCHANGED <<stream, lastSeen, tickNow, cursor, page, seen, emitted, openedAt, cutShort>>,
         late \subseteq late',
         \A i \in events' \ events :
           (stream = "polling" /\ ts[i] <= tickNow) \/ (stream = "open" /\ ts[i] <= lastSeen) =>
             i \in late'
  PROVE  StreamInv'
<1>1. /\ StoreInv' /\ events \subseteq events' /\ \A i \in events : ts'[i] = ts[i]
      /\ events' = events \/ ts' = ts
  BY StoreStep
<1>2. emitted \in Seq(events) /\ emitted' \in Seq(events') /\ Range(emitted) \subseteq events
  BY <1>1, SeqWider DEF StreamInv, Range
<1>3. \A i \in Range(emitted) : ts'[i] = ts[i]
  BY <1>1, <1>2
<1>4. \A i \in events' : i \in events \/ ts'[i] = ts[i]
  BY <1>1
<1>5. StreamShowsNewOnce'
  BY <1>3 DEF StreamInv, StreamShowsNewOnce, Range, IsInjective
<1>6. \A i \in events' : i \in Ids /\ ts'[i] \in Nat
  BY <1>1 DEF StoreInv
<1>7. lastSeen \in Nat /\ tickNow \in Nat /\ openedAt \in Nat
  BY DEF StreamInv
<1>8. StreamMissesOnlyLate'
  <2> SUFFICES ASSUME stream \in {"open", "polling"}, NEW i \in events' \ Range(emitted),
                      openedAt < ts'[i], ts'[i] <= lastSeen
               PROVE  i \in late' \/ \E c \in cutShort : c[1] < ts'[i] /\ ts'[i] <= c[2]
    BY DEF StreamMissesOnlyLate, Range
  <2>1. CASE i \in events
    BY <1>1, <2>1 DEF StreamInv, StreamMissesOnlyLate
  <2>2. CASE i \notin events
    <3>1. ts[i] = ts'[i] /\ ts[i] \in Nat
      BY <1>4, <1>6, <2>2
    <3>2. stream = "polling" => ts[i] <= tickNow
      BY <1>7, <3>1 DEF StreamInv
    <3> QED
      BY <2>2, <3>1, <3>2
  <2> QED
    BY <2>1, <2>2
<1>9. ASSUME stream = "polling", NEW i \in events' \ Range(emitted),
             lastSeen < ts'[i], ts'[i] <= tickNow
      PROVE  i \in late' \/ ts'[i] <= cursor
  <2>1. CASE i \in events
    BY <1>1, <1>9, <2>1 DEF StreamInv
  <2>2. CASE i \notin events
    BY <1>4, <1>9, <2>2
  <2> QED
    BY <2>1, <2>2
<1>10. seen' \subseteq Range(emitted') /\ Range(emitted') = Range(emitted)
  BY DEF StreamInv, Range
<1> QED
  BY <1>2, <1>3, <1>5, <1>8, <1>9, <1>10 DEF StreamInv

\* The end of a tick preserves StreamInv, if what the tick emitted belongs to it
\* and a tick that ended as it should missed only what was late.
LEMMA EndTickStep ==
  ASSUME StoreInv, StreamInv, stream = "polling", NEW how, EndTick(how),
         UNCHANGED <<openedAt, late, storeVars>>,
         emitted' \in Seq(events), IsInjective(emitted'), Range(emitted) \subseteq Range(emitted'),
         \A i \in Range(emitted') : ts[i] <= tickNow /\ ts[i] > openedAt,
         how = "all" => \A i \in events \ Range(emitted') :
                          lastSeen < ts[i] /\ ts[i] <= tickNow => i \in late
  PROVE  StreamInv'
<1>1. /\ stream' = "open" /\ lastSeen' = tickNow /\ seen' = {}
      /\ tickNow' = 0 /\ cursor' = 0 /\ page' = 0
      /\ cutShort' = IF how = "all" THEN cutShort ELSE cutShort \cup {<<lastSeen, tickNow, how>>}
  BY DEF EndTick
<1>2. /\ now' = now /\ ts' = ts /\ events' = events
      /\ \A i \in events : i \in Ids /\ ts[i] \in Nat
  BY DEF storeVars, StoreInv
<1>3. /\ lastSeen \in Nat /\ tickNow \in Nat /\ openedAt \in Nat
      /\ lastSeen < tickNow /\ openedAt <= lastSeen
  BY DEF StreamInv
<1>4. StreamShowsNewOnce'
  BY <1>2 DEF StreamShowsNewOnce, Range, IsInjective
<1>5. StreamMissesOnlyLate'
  <2> SUFFICES ASSUME NEW i \in events \ Range(emitted'), openedAt < ts[i], ts[i] <= tickNow
               PROVE  i \in late \/ \E c \in cutShort' : c[1] < ts[i] /\ ts[i] <= c[2]
    BY <1>1, <1>2 DEF StreamMissesOnlyLate, Range
  <2>1. CASE ts[i] <= lastSeen
    <3>1. i \in events \ Range(emitted) /\ cutShort \subseteq cutShort'
      BY <1>1
    <3> QED
      BY <2>1, <3>1 DEF StreamInv, StreamMissesOnlyLate
  <2>2. CASE ~(ts[i] <= lastSeen)
    <3>1. lastSeen < ts[i]
      BY <1>2, <1>3, <2>2
    <3>2. CASE how = "all"
      BY <3>1, <3>2
    <3>3. CASE how # "all"
      <4>1. <<lastSeen, tickNow, how>> \in cutShort'
        BY <1>1, <3>3
      <4> QED
        BY <3>1, <4>1
    <3> QED
      BY <3>2, <3>3
  <2> QED
    BY <2>1, <2>2
<1>6. openedAt' <= lastSeen' /\ {lastSeen', tickNow', cursor', page', openedAt'} \subseteq Nat
  BY <1>1, <1>3
<1>7. \A i \in Range(emitted') : ts'[i] <= lastSeen'
  BY <1>1, <1>2
<1> QED
  BY <1>1, <1>2, <1>4, <1>5, <1>6, <1>7 DEF StreamInv, StreamStates

\* The connection is opened: it has shown nothing.
LEMMA OpenStep ==
  ASSUME StoreInv, StreamInv, Open
  PROVE  StreamInv'
<1>1. /\ stream' = "open" /\ lastSeen' = now /\ openedAt' = now /\ now \in Nat /\ emitted = <<>>
      /\ UNCHANGED <<tickNow, cursor, page, seen, emitted, cutShort, late, storeVars>>
  BY DEF Open, StoreInv, StreamInv
<1>2. Range(emitted') = {} /\ IsInjective(emitted') /\ emitted' \in Seq(events') /\ ts' = ts
  BY <1>1 DEF Range, IsInjective, storeVars
<1>3. StreamMissesOnlyLate'
  <2> SUFFICES ASSUME NEW i \in events, now < ts[i], ts[i] <= now
               PROVE  FALSE
    BY <1>1 DEF StreamMissesOnlyLate, storeVars
  <2> QED
    BY <1>1 DEF StoreInv
<1>4. StreamShowsNewOnce'
  BY <1>2 DEF StreamShowsNewOnce
<1> QED
  BY <1>1, <1>2, <1>3, <1>4 DEF StreamInv, StreamStates

\* A tick begins: everything emitted is from before the mark.
LEMMA PollStep ==
  ASSUME StoreInv, StreamInv, Poll
  PROVE  StreamInv'
<1>1. /\ stream = "open" /\ stream' = "polling" /\ now > lastSeen /\ now \in Nat /\ lastSeen \in Nat
      /\ tickNow' = now /\ cursor' = now /\ page' = 0 /\ seen' = {}
      /\ UNCHANGED <<lastSeen, emitted, openedAt, cutShort, late>> /\ UNCHANGED storeVars
  BY DEF Poll, StoreInv, StreamInv
<1>2. /\ ts' = ts /\ events' = events /\ \A i \in events : i \in Ids /\ ts[i] \in Nat
      /\ Range(emitted') = Range(emitted) /\ Range(emitted) \subseteq events
  BY <1>1 DEF storeVars, StoreInv, StreamInv, Range
<1>3. \A i \in Range(emitted) : ts[i] <= lastSeen /\ ts[i] <= now /\ ~(ts[i] > lastSeen)
  <2>1. \A i \in Range(emitted) : ts[i] <= lastSeen /\ ts[i] \in Nat
    BY <1>1, <1>2 DEF StreamInv
  <2> QED
    BY <1>1, <2>1
<1>4. StreamShowsNewOnce' /\ StreamMissesOnlyLate'
  <2>1. StreamShowsNewOnce'
    BY <1>1, <1>2 DEF StreamInv, StreamShowsNewOnce, IsInjective
  <2>2. StreamMissesOnlyLate'
    BY <1>1, <1>2 DEF StreamInv, StreamMissesOnlyLate
  <2> QED
    BY <2>1, <2>2
<1>5. cursor' \in 1..tickNow' /\ lastSeen' < tickNow'
  BY <1>1
<1>6. stream' \in StreamStates
  BY <1>1 DEF StreamStates
<1>7. \A i \in Range(emitted') : ts'[i] <= tickNow' /\ (ts'[i] > lastSeen' => i \in seen')
  BY <1>1, <1>2, <1>3
<1>8. \A i \in events' \ Range(emitted') :
        lastSeen' < ts'[i] /\ ts'[i] <= tickNow' => i \in late' \/ ts'[i] <= cursor'
  BY <1>1, <1>2
<1>9. /\ {lastSeen', tickNow', cursor', page', openedAt'} \subseteq Nat /\ openedAt' <= lastSeen'
      /\ emitted' \in Seq(events') /\ seen' \subseteq Range(emitted')
  BY <1>1, <1>2 DEF StreamInv
<1> QED
  BY <1>1, <1>4, <1>5, <1>6, <1>7, <1>8, <1>9, Zenon DEF StreamInv

\* The client leaves, or nothing happens to the stream.
LEMMA StreamStutters ==
  ASSUME StreamInv, stream' = stream \/ (stream = "open" /\ stream' = "closed"),
         UNCHANGED <<lastSeen, tickNow, cursor, page, seen, emitted, openedAt, cutShort, late>>,
         UNCHANGED storeVars
  PROVE  StreamInv'
<1>1. ts' = ts /\ events' = events /\ Range(emitted') = Range(emitted)
  BY DEF storeVars, Range
<1>2. StreamShowsNewOnce' /\ StreamMissesOnlyLate'
  BY <1>1 DEF StreamInv, StreamShowsNewOnce, StreamMissesOnlyLate, IsInjective
<1> QED
  BY <1>1, <1>2 DEF StreamInv, StreamStates

\* A page preserves StreamInv: it has the newest rows below the cursor.
LEMMA StreamPageStep ==
  ASSUME StoreInv, StreamInv, StreamPage
  PROVE  StreamInv'
<1> DEFINE rows == Query(lastSeen, cursor, MaxQueryLimit, 0)
           fresh == Fresh(rows)
           M == Matching(lastSeen, cursor)
           full == Len(rows) >= MaxQueryLimit
<1>0. \A i \in Range(emitted) : /\ ts[i] <= tickNow /\ ts[i] > openedAt
                                /\ ts[i] > lastSeen => i \in seen
  <2>1. stream = "polling"
    BY DEF StreamPage
  <2>2. \A i \in Range(emitted) : ts[i] <= tickNow /\ (ts[i] > lastSeen => i \in seen)
    BY <2>1, Zenon DEF StreamInv
  <2>3. \A i \in Range(emitted) : ts[i] > openedAt
    BY Zenon DEF StreamInv, StreamShowsNewOnce
  <2> QED
    BY <2>2, <2>3, Zenon
<1>1. /\ stream = "polling" /\ lastSeen \in Nat /\ tickNow \in Nat /\ openedAt \in Nat
      /\ cursor \in 1..tickNow /\ lastSeen < tickNow /\ openedAt <= lastSeen
      /\ emitted \in Seq(events) /\ IsInjective(emitted)
      /\ seen \subseteq Range(emitted) /\ Range(emitted) \subseteq events
  <2>1. stream = "polling"
    BY DEF StreamPage
  <2>2. /\ lastSeen \in Nat /\ tickNow \in Nat /\ openedAt \in Nat
        /\ emitted \in Seq(events) /\ seen \subseteq Range(emitted) /\ StreamShowsNewOnce
    BY DEF StreamInv
  <2>3. cursor \in 1..tickNow /\ lastSeen < tickNow /\ openedAt <= lastSeen
    BY <2>1 DEF StreamInv
  <2>4. Range(emitted) \subseteq events
    BY <2>2 DEF Range
  <2> QED
    BY <2>1, <2>2, <2>3, <2>4 DEF StreamShowsNewOnce
<1>2. /\ emitted' = emitted \o fresh
      /\ \/ ~full /\ EndTick("all")
         \/ EndTick("saturated")
         \/ EndTick("bound")
         \/ /\ full /\ page' = page + 1 /\ seen' = seen \cup Range(fresh)
            /\ cursor' = ts[rows[Len(rows)]]
            /\ UNCHANGED <<stream, lastSeen, tickNow, cutShort>>
      /\ UNCHANGED <<openedAt, late>> /\ UNCHANGED storeVars
  BY DEF StreamPage
<1>3. /\ M \subseteq events /\ IsFiniteSet(M) /\ Cardinality(M) \in Nat /\ TotalOrder(M, Newer)
  BY MatchingRows
<1>4. \A i \in events : i \in Ids /\ i \in Nat /\ ts[i] \in Nat /\ ts[i] # 0
  BY StoreAssumption DEF StoreInv
<1>5. \A i \in events : i \in M <=> ts[i] >= lastSeen /\ ts[i] <= cursor
  BY <1>1, <1>4 DEF Matching
<1>6. IsPage(rows, M, 0, MaxQueryLimit)
  <2>1. MaxQueryLimit \in Nat /\ MaxQueryLimit = ClampLimit(MaxQueryLimit) /\ 0 \in Nat
    BY FullLimit
  <2> QED
    BY <2>1, QueryPage, Zenon
<1> HIDE DEF rows, M, fresh
<1>7. /\ rows \in Seq(M) /\ rows \in Seq(events) /\ Len(rows) \in Nat
      /\ \A k \in 1..Len(rows) : rows[k] \in M
      /\ Range(rows) \subseteq M
  <2>1. rows \in Seq(M)
    BY <1>6 DEF IsPage
  <2>2. rows \in Seq(events)
    BY <1>3, <2>1, SeqWider
  <2>3. Len(rows) \in Nat /\ \A k \in 1..Len(rows) : rows[k] \in M
    BY <2>1
  <2>4. Range(rows) \subseteq M
    BY <2>1 DEF Range
  <2> QED
    BY <2>1, <2>2, <2>3, <2>4
<1>8. /\ fresh \in Seq(events) /\ IsInjective(fresh)
      /\ Range(fresh) = {i \in Range(rows) : ts[i] > lastSeen /\ i \notin seen}
  BY <1>7, FreshRows DEF fresh
<1>9. Range(emitted) \cap Range(fresh) = {}
  BY <1>0, <1>8
<1>10. IsJoin(emitted', emitted, fresh, events)
  BY <1>1, <1>2, <1>8, Joined, Zenon
<1>11. IsInjective(emitted')
  BY <1>1, <1>8, <1>9, <1>10, JoinInjective, Zenon
<1>12. /\ emitted' \in Seq(events) /\ Range(emitted) \subseteq Range(emitted')
       /\ Range(emitted') = Range(emitted) \cup Range(fresh)
  BY <1>10 DEF IsJoin
<1>13. \A i \in Range(fresh) : ts[i] <= tickNow /\ ts[i] > openedAt
  <2> SUFFICES ASSUME NEW i \in Range(fresh)
               PROVE  ts[i] <= tickNow /\ ts[i] > openedAt
    OBVIOUS
  <2>1. i \in M /\ i \in events /\ ts[i] > lastSeen
    BY <1>3, <1>7, <1>8
  <2>2. ts[i] \in Nat /\ ts[i] <= cursor
    BY <1>4, <1>5, <2>1
  <2> QED
    BY <1>1, <2>1, <2>2
<1>14. \A i \in Range(emitted') : ts[i] <= tickNow /\ ts[i] > openedAt
  BY <1>0, <1>12, <1>13
\* What the tick has still to emit is late or below the cursor.
<1>15. ASSUME NEW i \in events \ Range(emitted'), lastSeen < ts[i], ts[i] <= tickNow, i \notin late
       PROVE  i \in M /\ i \notin Range(rows)
  <2>1. ts[i] <= cursor
    BY <1>1, <1>12, <1>15 DEF StreamInv
  <2>2. i \notin seen /\ i \notin Range(fresh)
    BY <1>1, <1>12, <1>15
  <2> QED
    BY <1>1, <1>4, <1>5, <1>8, <1>15, <2>1, <2>2
<1>16. ASSUME ~full, NEW i \in M
       PROVE  i \in Range(rows)
  <2>1. Rank(i, M, Newer) \in 0..(Cardinality(M) - 1)
    BY <1>3, RankBound
  <2>2. MaxQueryLimit \in Nat /\ Len(rows) < MaxQueryLimit
    BY <1>7, <1>16, FullLimit
  <2>3. 0 + Len(rows) >= Cardinality(M)
    BY <1>6, <2>2 DEF IsPage
  <2>4. 0 <= Rank(i, M, Newer) /\ Rank(i, M, Newer) < 0 + Len(rows)
    BY <1>3, <1>7, <2>1, <2>3
  <2> QED
    BY <1>6, <1>16, <2>4, Zenon DEF IsPage
<1>17. CASE ~full /\ EndTick("all")
  BY <1>1, <1>2, <1>11, <1>12, <1>14, <1>15, <1>16, <1>17, EndTickStep
<1>18. CASE EndTick("saturated")
  BY <1>1, <1>2, <1>11, <1>12, <1>14, <1>18, EndTickStep
<1>19. CASE EndTick("bound")
  BY <1>1, <1>2, <1>11, <1>12, <1>14, <1>19, EndTickStep
<1> DEFINE last == rows[Len(rows)]
<1>20. CASE /\ full /\ page' = page + 1 /\ seen' = seen \cup Range(fresh)
            /\ cursor' = ts[last]
            /\ UNCHANGED <<stream, lastSeen, tickNow, cutShort>>
  <2>1. Len(rows) \in 1..Len(rows)
    BY <1>7, <1>20, FullLimit
  <2>2. last \in M /\ last \in events /\ Rank(last, M, Newer) = Len(rows) - 1
    <3>1. \A k \in 1..Len(rows) : rows[k] \in M /\ Rank(rows[k], M, Newer) = 0 + k - 1
      BY <1>6 DEF IsPage
    <3>2. Rank(last, M, Newer) = 0 + Len(rows) - 1 /\ last \in M
      BY <2>1, <3>1
    <3> QED
      BY <1>3, <1>7, <3>2
  <2> HIDE DEF last
  <2>3. ts[last] \in Nat \ {0} /\ ts[last] <= cursor
    BY <1>4, <1>5, <2>2
  <2>4. cursor' \in 1..tickNow
    BY <1>1, <1>20, <2>3
  <2>5. ASSUME NEW i \in M, i \notin Range(rows)
        PROVE  ts[i] <= ts[last]
    <3>1. CASE ts[i] > ts[last]
      <4>1. i \in Ids /\ last \in Ids
        BY <1>3, <1>4, <2>2
      <4>2. <<i, last>> \in Newer
        BY <3>1, <4>1 DEF Newer
      <4>3. Rank(i, M, Newer) < Rank(last, M, Newer)
        BY <1>3, <2>2, <4>2, RankLess
      <4>4. Rank(i, M, Newer) \in Nat
        BY <1>3, RankType
      <4>5. 0 <= Rank(i, M, Newer) /\ Rank(i, M, Newer) < 0 + Len(rows)
        BY <1>7, <2>2, <4>3, <4>4
      <4> QED
        BY <1>6, <2>5, <4>5 DEF IsPage
    <3> QED
      BY <1>3, <1>4, <2>2, <3>1
  <2>6. /\ ts' = ts /\ events' = events
    BY <1>2 DEF storeVars
  <2>7. \A i \in events' \ Range(emitted') :
          lastSeen' < ts'[i] /\ ts'[i] <= tickNow' => i \in late' \/ ts'[i] <= cursor'
    BY <1>2, <1>15, <1>20, <2>5, <2>6
  <2>8. \A i \in Range(emitted') : ts'[i] > lastSeen' => i \in seen'
    BY <1>0, <1>8, <1>12, <1>20, <2>6
  <2>9. seen' \subseteq Range(emitted')
    BY <1>1, <1>12, <1>20
  <2>10. StreamShowsNewOnce'
    BY <1>2, <1>11, <1>14, <2>6 DEF StreamShowsNewOnce
  <2>11. StreamMissesOnlyLate'
    BY <1>2, <1>12, <1>20, <2>6 DEF StreamInv, StreamMissesOnlyLate
  <2>12. /\ page' \in Nat /\ cursor' \in Nat /\ stream' = "polling" /\ emitted' \in Seq(events')
         /\ \A i \in Range(emitted') : ts'[i] <= tickNow'
    BY <1>1, <1>12, <1>14, <1>20, <2>3, <2>6 DEF StreamInv
  <2> QED
    BY <1>1, <1>2, <1>20, <2>4, <2>7, <2>8, <2>9, <2>10, <2>11, <2>12 DEF StreamInv, StreamStates
<1> QED
  BY <1>2, <1>17, <1>18, <1>19, <1>20

-----------------------------------------------------------------------------
(* The readers.                                                            *)

\* A step of the stream, of the export, or of the store beside one of them.
LEMMA StreamReaderStep ==
  ASSUME ReadersInv, reader = "stream", reader' = "stream",
         StreamNext \/ StoreDuringStream, UNCHANGED exportVars
  PROVE  ReadersInv'
<1>1. export = "idle" /\ export' = "idle" /\ StoreInv /\ StreamInv /\ ExportInv
  BY DEF ReadersInv, exportVars
<1>2. CASE StoreDuringStream
  <2>1. /\ StoreNext /\ late \subseteq late'
        /\ UNCHANGED <<stream, lastSeen, tickNow, cursor, page, seen, emitted, openedAt, cutShort>>
        /\ \A i \in events' \ events :
             (stream = "polling" /\ ts[i] <= tickNow) \/ (stream = "open" /\ ts[i] <= lastSeen) =>
               i \in late'
    BY <1>2 DEF StoreDuringStream
  <2>2. StreamInv'
    BY <1>1, <2>1, StoreKeepsStream
  <2>3. ExportInv'
    BY <1>1, <2>1, StoreKeepsExport DEF exportVars
  <2>4. StoreInv'
    BY <1>1, <2>1, StoreStep
  <2> QED
    BY <1>1, <2>2, <2>3, <2>4 DEF ReadersInv
<1>3. CASE StreamNext
  <2>1. UNCHANGED storeVars
    BY <1>3 DEF StreamNext, Open, Poll, StreamPage, StreamError, Disconnect
  <2>2. StoreInv'
    BY <1>1, <2>1 DEF StoreInv, storeVars
  <2>3. ExportInv'
    BY <1>1, <2>1, ExportStops DEF exportVars
  <2>4. ASSUME StreamError
        PROVE  StreamInv'
    <3>1. /\ stream = "polling" /\ EndTick("error") /\ UNCHANGED <<emitted, openedAt, late>>
      BY <2>4 DEF StreamError
    <3>2. /\ emitted' \in Seq(events) /\ IsInjective(emitted')
          /\ Range(emitted) \subseteq Range(emitted')
          /\ \A i \in Range(emitted') : ts[i] <= tickNow /\ ts[i] > openedAt
      BY <1>1, <3>1 DEF StreamInv, StreamShowsNewOnce, Range, IsInjective
    <3> QED
      BY <1>1, <2>1, <3>1, <3>2, EndTickStep
  <2>5. ASSUME Disconnect
        PROVE  StreamInv'
    BY <1>1, <2>1, <2>5, StreamStutters DEF Disconnect
  <2>6. StreamInv'
    BY <1>1, <1>3, <2>4, <2>5, OpenStep, PollStep, StreamPageStep DEF StreamNext
  <2> QED
    BY <1>1, <2>2, <2>3, <2>6 DEF ReadersInv
<1> QED
  BY <1>2, <1>3

\* The same beside an export.
LEMMA ExportReaderStep ==
  ASSUME ReadersInv, reader = "export", reader' = "export",
         ExportNext \/ (export \in {"idle", "paging"} /\ StoreDuringExport), UNCHANGED streamVars
  PROVE  ReadersInv'
<1>1. stream = "idle" /\ stream' = "idle" /\ StoreInv /\ StreamInv /\ ExportInv
  BY DEF ReadersInv, streamVars
<1>2. CASE export \in {"idle", "paging"} /\ StoreDuringExport
  <2>1. /\ StoreNext
        /\ disturbed => disturbed'
        /\ UNCHANGED <<export, window, offset, out, atEntry>>
        /\ export = "paging" /\ ~disturbed' =>
             \A i \in events' \ events : ts[i] \notin window[1]..window[2]
    BY <1>2 DEF StoreDuringExport
  <2>2. ExportInv'
    BY <1>1, <1>2, <2>1, StoreKeepsExport
  <2>3. StreamInv'
    BY <1>1, <2>1, StoreKeepsStream DEF streamVars
  <2>4. StoreInv'
    BY <1>1, <2>1, StoreStep
  <2> QED
    BY <1>1, <2>2, <2>3, <2>4 DEF ReadersInv
<1>3. CASE ExportNext
  <2>1. UNCHANGED storeVars
    BY <1>3 DEF ExportNext, ExportBegin, ExportPage, ExportError, ExportCancelled
  <2>2. StoreInv'
    BY <1>1, <2>1 DEF StoreInv, storeVars
  <2>3. StreamInv'
    BY <1>1, <2>1, StreamStutters DEF streamVars
  <2>4. ASSUME ExportError \/ ExportCancelled
        PROVE  ExportInv'
    BY <1>1, <2>4, ExportStops DEF ExportError, ExportCancelled
  <2>5. ExportInv'
    BY <1>1, <1>3, <2>4, ExportBeginStep, ExportPageStep DEF ExportNext
  <2> QED
    BY <1>1, <2>2, <2>3, <2>5 DEF ReadersInv
<1> QED
  BY <1>2, <1>3

\* Behind what the two readers promise: the export's offset and its lines go by
\* the ranks of rows, the stream's cursor and mark bound what it can still miss.
THEOREM ReadersInvariant == ReadersSpec => []ReadersInv
<1>1. ReadersInit => ReadersInv
  BY InitStoreInv, InitExportInv, InitStreamInv
     DEF ReadersInit, ReadersInv, ExportInit, StreamInit
<1>2. ReadersInv /\ [ReadersNext]_rvars => ReadersInv'
  <2> SUFFICES ASSUME ReadersInv, [ReadersNext]_rvars
               PROVE  ReadersInv'
    OBVIOUS
  <2>1. CASE UNCHANGED rvars
    <3>1. /\ UNCHANGED storeVars /\ UNCHANGED exportVars /\ UNCHANGED streamVars /\ reader' = reader
          /\ StoreInv /\ ExportInv /\ StreamInv
      BY <2>1 DEF rvars, ReadersInv
    <3>2. StoreInv'
      BY <3>1 DEF StoreInv, storeVars
    <3>3. ExportInv'
      BY <3>1, ExportStops DEF exportVars
    <3>4. StreamInv'
      BY <3>1, StreamStutters DEF streamVars
    <3> QED
      BY <3>1, <3>2, <3>3, <3>4 DEF ReadersInv, exportVars, streamVars
  <2> QED
    BY <2>1, StreamReaderStep, ExportReaderStep DEF ReadersNext
<1> QED
  BY <1>1, <1>2, PTL DEF ReadersSpec

\* A complete export has every row of its window that was visible when it began,
\* whatever is committed meanwhile (auditExportNDJSON).
THEOREM ExportCovers == ReadersSpec => []ExportCoversWindow
<1>1. ReadersInv => ExportCoversWindow
  BY DEF ReadersInv, ExportInv
<1> QED
  BY <1>1, ReadersInvariant, PTL

\* An export repeats a row only if a row of its window was committed while it ran,
\* and never has more lines than the window has rows (auditExportNDJSON).
THEOREM ExportRepeats == ReadersSpec => []ExportRepeatsOnlyIfDisturbed
<1>1. ReadersInv => ExportRepeatsOnlyIfDisturbed
  <2> SUFFICES ASSUME ReadersInv
               PROVE  ExportRepeatsOnlyIfDisturbed
    OBVIOUS
  <2>1. /\ Len(out) <= Cardinality(Exported) /\ out \in Seq(Exported)
        /\ ~disturbed => \A k \in 1..Len(out) : Rank(out[k], Exported, Newer) = k - 1
    BY DEF ReadersInv, ExportInv
  <2>2. ASSUME ~disturbed, NEW a \in 1..Len(out), NEW b \in 1..Len(out), out[a] = out[b]
        PROVE  a = b
    <3>1. a - 1 = b - 1
      BY <2>1, <2>2
    <3> QED
      BY <3>1
  <2>3. DOMAIN out = 1..Len(out)
    BY <2>1
  <2> QED
    BY <2>1, <2>2, <2>3 DEF ExportRepeatsOnlyIfDisturbed, IsInjective, Exported
<1> QED
  BY <1>1, ReadersInvariant, PTL

\* A stream shows each event once and none that began before it was opened
\* (auditStream).
THEOREM StreamShows == ReadersSpec => []StreamShowsNewOnce
<1>1. ReadersInv => StreamShowsNewOnce
  BY DEF ReadersInv, StreamInv
<1> QED
  BY <1>1, ReadersInvariant, PTL

\* A stream misses only events that were committed after the tick of their time
\* had begun, or that a tick which ended early left out (auditStream).
THEOREM StreamMisses == ReadersSpec => []StreamMissesOnlyLate
<1>1. ReadersInv => StreamMissesOnlyLate
  BY DEF ReadersInv, StreamInv
<1> QED
  BY <1>1, ReadersInvariant, PTL
=============================================================================

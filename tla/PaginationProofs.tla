-------------------------- MODULE PaginationProofs --------------------------
(***************************************************************************)
(* Proofs about the pagination walk for every request and all bounds.      *)
(* PInv of Pagination is inductive and implies the two properties.         *)
(***************************************************************************)
EXTENDS Pagination, TLAPS

-----------------------------------------------------------------------------
(* Integers and pages.                                                     *)

\* Integers that an int can hold do not wrap around.
LEMMA NoWrap ==
  ASSUME NEW x \in 0..MaxInt
  PROVE  Wrap(x) = x
<1>1. MaxInt \in Nat
  BY PaginationAssumption
<1>2. (x + MaxInt + 1) % (2 * (MaxInt + 1)) = x + MaxInt + 1
  BY <1>1
<1> QED
  BY <1>1, <1>2 DEF Wrap

\* The ids of a walk are a sequence.
LEMMA CountFromSeq ==
  ASSUME NEW f \in Int, NEW m \in Nat
  PROVE  CountFrom(f, m) \in Seq(Int) /\ Len(CountFrom(f, m)) = m
BY DEF CountFrom

\* A page that begins where the walk has ended continues it.
LEMMA CountFromOn ==
  ASSUME NEW f \in Int, NEW m \in Nat, NEW l \in Nat
  PROVE  CountFrom(f, m) \o CountFrom(f + m, l) = CountFrom(f, m + l)
<1>1. /\ CountFrom(f, m) \in Seq(Int) /\ Len(CountFrom(f, m)) = m
      /\ CountFrom(f + m, l) \in Seq(Int) /\ Len(CountFrom(f + m, l)) = l
  BY CountFromSeq
<1>2. /\ DOMAIN CountFrom(f, m + l) = 1..(m + l)
      /\ DOMAIN CountFrom(f, m) = 1..m /\ DOMAIN CountFrom(f + m, l) = 1..l
  BY DEF CountFrom
<1>3. \A k \in 1..(m + l) :
        (CountFrom(f, m) \o CountFrom(f + m, l))[k] = CountFrom(f, m + l)[k]
  BY <1>1, <1>2 DEF CountFrom
<1> QED
  BY <1>1, <1>2, <1>3 DEF CountFrom

\* sliceItems is the page that begins at an id of the dataset.
LEMMA SliceIsPage ==
  ASSUME NEW s \in 1..maxPageSize, NEW t \in 1..maxTotal, NEW f \in 0..(t - 1)
  PROVE  /\ sliceItems(f, s, t) = CountFrom(f, PageLen(f, s, t))
         /\ PageLen(f, s, t) \in 1..s
         /\ f + PageLen(f, s, t) <= t
         /\ Wrap(f + s) = f + s
<1>1. MaxInt \in Nat /\ maxTotal \in Nat /\ maxPageSize \in Nat /\ maxTotal + maxPageSize <= MaxInt
  BY PaginationAssumption
<1>2. f + s \in 0..MaxInt
  BY <1>1
<1>3. Wrap(f + s) = f + s
  BY <1>2, NoWrap
<1>4. PageLen(f, s, t) \in 1..s /\ f + PageLen(f, s, t) <= t
  BY <1>1 DEF PageLen
<1> QED
  BY <1>1, <1>3, <1>4 DEF sliceItems, PageLen, CountFrom

\* The last page is the one that holds the last id.
LEMMA LastPage ==
  ASSUME NEW s \in Nat \ {0}, NEW t \in Nat \ {0}
  PROVE  /\ lastPageFor(t, s) \in Nat \ {0}
         /\ (lastPageFor(t, s) - 1) * s < t
         /\ t <= lastPageFor(t, s) * s
<1> DEFINE p == (t + s - 1) \div s
<1>1. lastPageFor(t, s) = p
  BY DEF lastPageFor
<1>2. t + s - 1 \in Nat
  OBVIOUS
<1>3. p \in Nat /\ s * p <= t + s - 1 /\ t + s - 1 < s * p + s
  BY <1>2
<1> HIDE DEF p
<1>4. (p - 1) * s = s * p - s /\ p * s = s * p
  BY <1>3
<1>5. p # 0
  BY <1>3
<1> QED
  BY <1>1, <1>3, <1>4, <1>5

\* A page number is in range exactly when its first id is in the dataset.
LEMMA PageInRange ==
  ASSUME NEW s \in Nat \ {0}, NEW t \in Nat \ {0}, NEW p \in Int
  PROVE  /\ (p - 1) * s \in Int
         /\ p \in 1..lastPageFor(t, s) <=> (p - 1) * s \in 0..(t - 1)
         /\ p * s = (p - 1) * s + s
         /\ p < lastPageFor(t, s) <=> (p - 1) * s + s < t
<1> DEFINE last == lastPageFor(t, s)
<1>1. last \in Nat \ {0} /\ (last - 1) * s < t /\ t <= last * s
  BY LastPage
<1> HIDE DEF last
<1>2. (p - 1) * s \in Int /\ p * s = (p - 1) * s + s
  OBVIOUS
<1>3. last * s = (last - 1) * s + s
  BY <1>1
<1>4. p < 1 => (p - 1) * s < 0
  OBVIOUS
<1>5. p >= 1 => (p - 1) * s >= 0
  OBVIOUS
<1>6. p <= last => (p - 1) * s <= (last - 1) * s
  BY <1>1
<1>7. p > last => (p - 1) * s >= last * s
  BY <1>1
<1>8. p < last => p * s <= (last - 1) * s
  BY <1>1
<1>9. p >= last => p * s >= last * s
  BY <1>1
<1> QED
  BY <1>1, <1>2, <1>3, <1>4, <1>5, <1>6, <1>7, <1>8, <1>9 DEF last

\* boundedDefault gives the parameter, or its default, when that is in bounds.
LEMMA BoundedDefault ==
  ASSUME NEW x \in Int \cup {Absent} \cup NotInt, NEW up \in Nat, NEW def \in 1..up
  PROVE  LET v == boundedDefault(x, def, up)
             asked == IF x = Absent THEN def ELSE x
         IN  /\ v \in 1..up \/ v = Err
             /\ v # Err <=> x \notin NotInt /\ asked \in 1..up
             /\ v # Err => v = asked
<1>1. CASE x = Absent
  BY <1>1, ParamAssumption DEF boundedDefault, Err, NotInt
<1>2. CASE x \in NotInt
  BY <1>2, ParamAssumption DEF boundedDefault, Err, NotInt
<1>3. CASE x \in Int
  BY <1>3, ParamAssumption DEF boundedDefault, Err, NotInt
<1> QED
  BY <1>1, <1>2, <1>3

-----------------------------------------------------------------------------
(* The answer to a request.                                                *)

\* A position that is no integer is refused in every style.
LEMMA NoPosition ==
  ASSUME NEW p \in NotInt, NEW s, NEW t
  PROVE  link(p, s, t) = BadRequest /\ odata(p, s, t) = BadRequest /\ cursor(p, s, t) = BadRequest
<1>1. positiveDefault(p, 1) = Err /\ nonNegativeDefault(p, 0) = Err /\ decodeCursor(p) = Err
  BY ParamAssumption DEF positiveDefault, nonNegativeDefault, decodeCursor, NotInt
<1> QED
  BY <1>1 DEF link, odata, cursor

\* The link style: a page in range is served, with links to the pages around it.
LEMMA LinkAnswer ==
  ASSUME NEW s \in 1..maxPageSize, NEW t \in 1..maxTotal,
         NEW p, NEW page \in Int, positiveDefault(p, 1) = IF page < 1 THEN Err ELSE page,
         NEW f, f = (page - 1) * s
  PROVE  IF f \in 0..(t - 1)
         THEN link(p, s, t) = [status |-> 200, items |-> CountFrom(f, PageLen(f, s, t)),
                               links |-> LinkTo(page, lastPageFor(t, s))]
         ELSE link(p, s, t) = BadRequest
<1>1. /\ MaxInt \in Nat /\ maxTotal \in Nat /\ maxPageSize \in Nat
      /\ maxTotal + maxPageSize <= MaxInt
  BY PaginationAssumption
<1>2. s # Err /\ t # Err /\ s \in Nat \ {0} /\ t \in Nat \ {0}
  BY <1>1 DEF Err
<1>3. positiveDefault(p, 1) = IF page < 1 THEN Err ELSE page
  OBVIOUS
<1>4. page \in 1..lastPageFor(t, s) <=> f \in 0..(t - 1)
  BY <1>2, PageInRange
<1>5. lastPageFor(t, s) \in Nat
  BY <1>2, LastPage
<1>6. CASE page < 1
  BY <1>3, <1>4, <1>6 DEF link
<1>7. CASE page >= 1 /\ page > lastPageFor(t, s)
  BY <1>2, <1>3, <1>4, <1>5, <1>7 DEF link
<1>8. CASE page \in 1..lastPageFor(t, s)
  <2>1. page # Err /\ positiveDefault(p, 1) = page
    BY <1>3, <1>5, <1>8 DEF Err
  <2>2. f \in 0..(t - 1)
    BY <1>4, <1>8
  <2>3. page - 1 <= f
    BY <1>2, <1>5, <1>8
  <2>4. page - 1 \in 0..MaxInt /\ f \in 0..MaxInt
    BY <1>1, <1>5, <1>8, <2>2, <2>3
  <2>5. Wrap(Wrap(page - 1) * s) = f
    BY <2>4, NoWrap
  <2>6. sliceItems(f, s, t) = CountFrom(f, PageLen(f, s, t))
    BY <2>2, SliceIsPage
  <2>7. ~(page > lastPageFor(t, s))
    BY <1>5, <1>8
  <2> QED
    BY <1>2, <2>1, <2>2, <2>5, <2>6, <2>7 DEF link
<1> QED
  BY <1>5, <1>6, <1>7, <1>8

\* The OData style: a skip in the dataset is served.
LEMMA OdataAnswer ==
  ASSUME NEW s \in 1..maxPageSize, NEW t \in 1..maxTotal,
         NEW p, NEW f \in Int, nonNegativeDefault(p, 0) = IF f < 0 THEN Err ELSE f
  PROVE  IF f \in 0..(t - 1)
         THEN odata(p, s, t) = [status |-> 200, items |-> CountFrom(f, PageLen(f, s, t)),
                                links |-> NextTo(f + s, f + s, t)]
         ELSE odata(p, s, t) = BadRequest
<1>1. maxTotal \in Nat /\ maxPageSize \in Nat
  BY PaginationAssumption
<1>2. s # Err /\ t # Err /\ s \in Nat \ {0} /\ t \in Nat \ {0}
  BY <1>1 DEF Err
<1>3. nonNegativeDefault(p, 0) = IF f < 0 THEN Err ELSE f
  OBVIOUS
<1>4. CASE f < 0
  BY <1>2, <1>3, <1>4 DEF odata
<1>5. CASE f >= t
  BY <1>2, <1>3, <1>5 DEF odata
<1>6. CASE f \in 0..(t - 1)
  <2>1. f # Err /\ nonNegativeDefault(p, 0) = f /\ ~(f >= t)
    BY <1>2, <1>3, <1>6 DEF Err
  <2>2. sliceItems(f, s, t) = CountFrom(f, PageLen(f, s, t)) /\ Wrap(f + s) = f + s
    BY <1>6, SliceIsPage
  <2> QED
    BY <1>2, <1>6, <2>1, <2>2 DEF odata
<1> QED
  BY <1>2, <1>4, <1>5, <1>6

\* The cursor style: a cursor into the dataset is served.
LEMMA CursorAnswer ==
  ASSUME NEW s \in 1..maxPageSize, NEW t \in 1..maxTotal,
         NEW c, NEW f \in Int, decodeCursor(c) = IF f < 0 THEN Err ELSE f
  PROVE  IF f \in 0..(t - 1)
         THEN cursor(c, s, t) = [status |-> 200, items |-> CountFrom(f, PageLen(f, s, t)),
                                 links |-> NextTo(encodeCursor(f + s), f + s, t)]
         ELSE cursor(c, s, t) = BadRequest
<1>1. maxTotal \in Nat /\ maxPageSize \in Nat
  BY PaginationAssumption
<1>2. s # Err /\ t # Err /\ s \in Nat \ {0} /\ t \in Nat \ {0}
  BY <1>1 DEF Err
<1>3. decodeCursor(c) = IF f < 0 THEN Err ELSE f
  OBVIOUS
<1>4. CASE f < 0
  BY <1>2, <1>3, <1>4 DEF cursor
<1>5. CASE f >= t
  BY <1>2, <1>3, <1>5 DEF cursor
<1>6. CASE f \in 0..(t - 1)
  <2>1. f # Err /\ decodeCursor(c) = f /\ ~(f >= t)
    BY <1>2, <1>3, <1>6 DEF Err
  <2>2. sliceItems(f, s, t) = CountFrom(f, PageLen(f, s, t)) /\ Wrap(f + s) = f + s
    BY <1>6, SliceIsPage
  <2> QED
    BY <1>2, <1>6, <2>1, <2>2 DEF cursor
<1> QED
  BY <1>2, <1>4, <1>5, <1>6

-----------------------------------------------------------------------------
(* The meaning of a request, and its answer.                               *)

SizeOf(q) == IF q.size = Absent THEN defaultPageSize ELSE q.size
TotalOf(q) == IF q.total = Absent THEN defaultTotal ELSE q.total
PosOf(q) == IF q.style = "cursor" /\ q.pos # Absent THEN q.pos[2] ELSE q.pos
StartOf(q) ==
  CASE PosOf(q) = Absent -> 0
    [] PosOf(q) \in Int -> IF q.style = "link" THEN (PosOf(q) - 1) * SizeOf(q) ELSE PosOf(q)

LinksOf(q) ==
  IF q.style = "link"
  THEN LinkTo(IF q.pos = Absent THEN 1 ELSE q.pos, lastPageFor(TotalOf(q), SizeOf(q)))
  ELSE NextTo(IF q.style = "cursor" THEN encodeCursor(StartOf(q) + SizeOf(q))
              ELSE StartOf(q) + SizeOf(q), StartOf(q) + SizeOf(q), TotalOf(q))

Good(q) ==
  /\ NotInt \cap {q.size, q.total, q.pos} = {}
  /\ SizeOf(q) \in 1..maxPageSize /\ TotalOf(q) \in 1..maxTotal
  /\ StartOf(q) \in 0..(TotalOf(q) - 1)

\* A request is served exactly when it is in bounds, with its page and its links.
LEMMA AnswerPage ==
  ASSUME NEW q \in PageRequests
  PROVE  IF Good(q)
         THEN Answer(q) = [status |-> 200,
                           items |-> CountFrom(StartOf(q), PageLen(StartOf(q), SizeOf(q), TotalOf(q))),
                           links |-> LinksOf(q)]
         ELSE Answer(q) = BadRequest
<1> DEFINE s == boundedDefault(q.size, defaultPageSize, maxPageSize)
           t == boundedDefault(q.total, defaultTotal, maxTotal)
<1>1. /\ q.size \in Params /\ q.total \in Params /\ q.style \in Styles
      /\ q.style # "cursor" => q.pos \in Params
      /\ q.style = "cursor" => q.pos \in ({"cursor"} \X Int) \cup {Absent} \cup NotInt
  BY DEF PageRequests, Styles
<1>2. /\ maxTotal \in Nat /\ maxPageSize \in Nat
      /\ defaultTotal \in 1..maxTotal /\ defaultPageSize \in 1..maxPageSize
  BY PaginationAssumption
<1>3. /\ s \in 1..maxPageSize \/ s = Err
      /\ s # Err <=> q.size \notin NotInt /\ SizeOf(q) \in 1..maxPageSize
      /\ s # Err => s = SizeOf(q)
  BY <1>1, <1>2, BoundedDefault DEF Params, SizeOf
<1>4. /\ t \in 1..maxTotal \/ t = Err
      /\ t # Err <=> q.total \notin NotInt /\ TotalOf(q) \in 1..maxTotal
      /\ t # Err => t = TotalOf(q)
  BY <1>1, <1>2, BoundedDefault DEF Params, TotalOf
<1>5. /\ q.style = "link" => Answer(q) = link(q.pos, s, t)
      /\ q.style = "odata" => Answer(q) = odata(q.pos, s, t)
      /\ q.style = "cursor" => Answer(q) = cursor(q.pos, s, t)
  BY DEF Answer
<1> HIDE DEF s, t
<1>6. CASE s = Err \/ t = Err
  <2>1. Answer(q) = BadRequest
    BY <1>1, <1>5, <1>6 DEF link, odata, cursor, Styles
  <2>2. ~Good(q)
    BY <1>3, <1>4, <1>6 DEF Good
  <2> QED
    BY <2>1, <2>2
<1>7. CASE s # Err /\ t # Err
  <2>1. s = SizeOf(q) /\ t = TotalOf(q) /\ s \in 1..maxPageSize /\ t \in 1..maxTotal
    BY <1>3, <1>4, <1>7
  <2>2. Good(q) <=> q.pos \notin NotInt /\ StartOf(q) \in 0..(t - 1)
    BY <1>3, <1>4, <1>7, <2>1 DEF Good
  <2>3. CASE q.pos \in NotInt
    BY <1>1, <1>5, <2>2, <2>3, NoPosition DEF Styles
  <2>4. CASE q.style = "link" /\ q.pos \notin NotInt
    <3> DEFINE page == IF q.pos = Absent THEN 1 ELSE q.pos
    <3>1. q.pos \in Int \cup {Absent} /\ page \in Int /\ PosOf(q) = q.pos
      BY <1>1, <2>4 DEF Params, PosOf
    <3>2. StartOf(q) = (page - 1) * s
      BY <2>1, <2>4, <3>1, ParamAssumption DEF StartOf
    <3>3. LinksOf(q) = LinkTo(page, lastPageFor(t, s))
      BY <2>1, <2>4 DEF LinksOf
    <3>4. positiveDefault(q.pos, 1) = IF page < 1 THEN Err ELSE page
      BY <2>4, <3>1, ParamAssumption DEF positiveDefault
    <3> HIDE DEF page
    <3>5. IF StartOf(q) \in 0..(t - 1)
          THEN link(q.pos, s, t) =
                 [status |-> 200, items |-> CountFrom(StartOf(q), PageLen(StartOf(q), s, t)),
                  links |-> LinkTo(page, lastPageFor(t, s))]
          ELSE link(q.pos, s, t) = BadRequest
      BY <2>1, <3>1, <3>2, <3>4, LinkAnswer
    <3>6. Answer(q) = link(q.pos, s, t) /\ (Good(q) <=> StartOf(q) \in 0..(t - 1))
      BY <1>5, <2>2, <2>4
    <3>7. CASE Good(q)
      BY <2>1, <3>3, <3>5, <3>6, <3>7
    <3>8. CASE ~Good(q)
      BY <3>5, <3>6, <3>8
    <3> QED
      BY <3>7, <3>8
  <2>5. CASE q.style = "odata" /\ q.pos \notin NotInt
    <3>1. q.pos \in Int \cup {Absent} /\ PosOf(q) = q.pos
      BY <1>1, <2>5 DEF Params, PosOf
    <3>2. StartOf(q) \in Int /\ StartOf(q) = IF q.pos = Absent THEN 0 ELSE q.pos
      BY <2>5, <3>1, ParamAssumption DEF StartOf
    <3>3. nonNegativeDefault(q.pos, 0) = IF StartOf(q) < 0 THEN Err ELSE StartOf(q)
      BY <2>5, <3>1, <3>2, ParamAssumption DEF nonNegativeDefault
    <3>4. LinksOf(q) = NextTo(StartOf(q) + s, StartOf(q) + s, t)
      BY <2>1, <2>5 DEF LinksOf
    <3>5. IF StartOf(q) \in 0..(t - 1)
          THEN odata(q.pos, s, t) =
                 [status |-> 200, items |-> CountFrom(StartOf(q), PageLen(StartOf(q), s, t)),
                  links |-> NextTo(StartOf(q) + s, StartOf(q) + s, t)]
          ELSE odata(q.pos, s, t) = BadRequest
      BY <2>1, <3>2, <3>3, OdataAnswer
    <3>6. Answer(q) = odata(q.pos, s, t) /\ (Good(q) <=> StartOf(q) \in 0..(t - 1))
      BY <1>5, <2>2, <2>5
    <3>7. CASE Good(q)
      BY <2>1, <3>4, <3>5, <3>6, <3>7
    <3>8. CASE ~Good(q)
      BY <3>5, <3>6, <3>8
    <3> QED
      BY <3>7, <3>8
  <2>6. CASE q.style = "cursor" /\ q.pos \notin NotInt
    <3>1. q.pos \in ({"cursor"} \X Int) \cup {Absent}
      BY <1>1, <2>6
    <3>2. PosOf(q) \in Int \cup {Absent} /\ PosOf(q) = IF q.pos = Absent THEN Absent ELSE q.pos[2]
      BY <2>6, <3>1 DEF PosOf
    <3>3. StartOf(q) \in Int /\ StartOf(q) = IF q.pos = Absent THEN 0 ELSE q.pos[2]
      BY <2>6, <3>1, <3>2, ParamAssumption DEF StartOf
    <3>4. decodeCursor(q.pos) = IF StartOf(q) < 0 THEN Err ELSE StartOf(q)
      BY <2>6, <3>1, <3>3 DEF decodeCursor
    <3>5. LinksOf(q) = NextTo(encodeCursor(StartOf(q) + s), StartOf(q) + s, t)
      BY <2>1, <2>6 DEF LinksOf
    <3>6. IF StartOf(q) \in 0..(t - 1)
          THEN cursor(q.pos, s, t) =
                 [status |-> 200, items |-> CountFrom(StartOf(q), PageLen(StartOf(q), s, t)),
                  links |-> NextTo(encodeCursor(StartOf(q) + s), StartOf(q) + s, t)]
          ELSE cursor(q.pos, s, t) = BadRequest
      BY <2>1, <3>3, <3>4, CursorAnswer
    <3>7. Answer(q) = cursor(q.pos, s, t) /\ (Good(q) <=> StartOf(q) \in 0..(t - 1))
      BY <1>5, <2>2, <2>6
    <3>8. CASE Good(q)
      BY <2>1, <3>5, <3>6, <3>7, <3>8
    <3>9. CASE ~Good(q)
      BY <3>6, <3>7, <3>9
    <3> QED
      BY <3>8, <3>9
  <2> QED
    BY <1>1, <2>3, <2>4, <2>5, <2>6 DEF Styles
<1> QED
  BY <1>6, <1>7

-----------------------------------------------------------------------------
(* The walk.                                                               *)

\* A request in the state has the size, the total and the first id it means.
LEMMA Meaning == Size = SizeOf(req) /\ Total = TotalOf(req) /\ Start = StartOf(req)
BY DEF Size, Total, Start, FirstId, SizeOf, TotalOf, StartOf, PosOf

\* The first id of a page of the link style.
LEMMA StartOfLink ==
  ASSUME req \in PageRequests, req.style = "link", req.pos \notin NotInt, Size \in Nat
  PROVE  Start = ((IF req.pos = Absent THEN 1 ELSE req.pos) - 1) * Size
<1>1. req.pos \in Int \cup {Absent}
  BY DEF PageRequests, Params
<1>2. Start = FirstId(req.pos)
  BY DEF Start
<1>3. CASE req.pos = Absent
  BY <1>2, <1>3, ParamAssumption DEF FirstId
<1>4. CASE req.pos \in Int
  BY <1>2, <1>4, ParamAssumption DEF FirstId
<1> QED
  BY <1>1, <1>3, <1>4

\* A page has a next link when the dataset goes on behind it.
LEMMA NextLink ==
  ASSUME NEW q \in PageRequests, Good(q)
  PROVE  "next" \in DOMAIN LinksOf(q) <=> StartOf(q) + SizeOf(q) < TotalOf(q)
<1> DEFINE s == SizeOf(q)
           t == TotalOf(q)
<1>1. /\ maxTotal \in Nat /\ maxPageSize \in Nat
      /\ s \in 1..maxPageSize /\ t \in 1..maxTotal
  BY PaginationAssumption DEF Good
<1>2. s \in Nat \ {0} /\ t \in Nat \ {0} /\ s = SizeOf(q)
  BY <1>1
<1> HIDE DEF s, t
<1>3. CASE q.style = "link"
  <2> DEFINE page == IF q.pos = Absent THEN 1 ELSE q.pos
  <2>1. q.pos \in Int \cup {Absent} /\ page \in Int /\ PosOf(q) = q.pos
    BY <1>3 DEF Good, PageRequests, Params, PosOf
  <2>2. StartOf(q) = (page - 1) * s
    BY <1>2, <1>3, <2>1, ParamAssumption DEF StartOf
  <2>3. LinksOf(q) = LinkTo(page, lastPageFor(t, s))
    BY <1>3 DEF LinksOf, s, t
  <2> HIDE DEF page
  <2>4. StartOf(q) \in 0..(t - 1) /\ StartOf(q) >= 0
    BY <1>2 DEF Good, t
  <2>5. page >= 1
    BY <1>2, <2>1, <2>2, <2>4, PageInRange, LastPage
  <2>6. StartOf(q) + s = (page + 1 - 1) * s
    BY <1>2, <2>1, <2>2
  <2>7. page + 1 \in 1..lastPageFor(t, s) <=> StartOf(q) + s \in 0..(t - 1)
    BY <1>2, <2>1, <2>6, PageInRange
  <2>8. page < lastPageFor(t, s) <=> StartOf(q) + s < t
    <3>1. lastPageFor(t, s) \in Nat
      BY <1>2, LastPage
    <3>2. page + 1 \in 1..lastPageFor(t, s) <=> page < lastPageFor(t, s)
      BY <2>1, <2>5, <3>1
    <3>3. StartOf(q) + s \in 0..(t - 1) <=> StartOf(q) + s < t
      BY <1>2, <2>4
    <3> QED
      BY <2>7, <3>2, <3>3
  <2>9. "next" \in DOMAIN LinkTo(page, lastPageFor(t, s)) <=> page < lastPageFor(t, s)
    BY DEF LinkTo
  <2> QED
    BY <2>3, <2>8, <2>9 DEF s, t
<1>4. CASE q.style # "link"
  BY <1>4 DEF LinksOf, NextTo
<1> QED
  BY <1>3, <1>4

\* The same in the next state.
LEMMA MeaningNext == Size' = SizeOf(req') /\ Total' = TotalOf(req') /\ Start' = StartOf(req')
BY DEF Size, Total, Start, FirstId, SizeOf, TotalOf, StartOf, PosOf

\* What an answer says about its request.
LEMMA PageOfAnswer ==
  ASSUME req' \in PageRequests, resp' = Answer(req')
  PROVE  /\ resp'.status = 200 <=> Good(req')
         /\ resp'.status # 200 => resp' = BadRequest
         /\ resp'.status = 200 /\ origin' \notin NotInt => Page'
         /\ resp'.status = 200 => resp'.items = CountFrom(Start', PageLen(Start', Size', Total'))
<1>1. CASE ~Good(req')
  BY <1>1, AnswerPage DEF BadRequest
<1>2. CASE Good(req')
  <2>1. resp' = [status |-> 200,
                 items |-> CountFrom(StartOf(req'), PageLen(StartOf(req'), SizeOf(req'), TotalOf(req'))),
                 links |-> LinksOf(req')]
    BY <1>2, AnswerPage
  <2>2. "next" \in DOMAIN resp'.links <=> Start' + Size' < Total'
    BY <1>2, <2>1, NextLink, MeaningNext
  <2>3. ASSUME origin' \notin NotInt
        PROVE  Page'
    <3>1. NotInt \cap {req'.size, req'.total, req'.pos, origin'} = {}
      BY <1>2, <2>3 DEF Good
    <3>2. /\ Size' \in 1..maxPageSize /\ Total' \in 1..maxTotal
          /\ Start' \in 0..(Total' - 1)
      BY <1>2, MeaningNext DEF Good
    <3>3. /\ req'.style = "link" =>
               resp'.links = LinkTo(IF req'.pos = Absent THEN 1 ELSE req'.pos, lastPageFor(Total', Size'))
          /\ req'.style = "odata" => resp'.links = NextTo(Start' + Size', Start' + Size', Total')
          /\ req'.style = "cursor" =>
               resp'.links = NextTo(encodeCursor(Start' + Size'), Start' + Size', Total')
      BY <2>1, MeaningNext DEF LinksOf
    <3> QED
      BY <2>2, <3>1, <3>2, <3>3 DEF Page
  <2> QED
    BY <1>2, <2>1, <2>3, MeaningNext
<1> QED
  BY <1>1, <1>2

\* A walk that begins shows the ids of its page.
LEMMA WalkBegins ==
  ASSUME Page', FirstId(origin)' = Start',
         shown' = CountFrom(Start', PageLen(Start', Size', Total'))
  PROVE  /\ FirstId(origin)' \in 0..Start'
         /\ shown' = CountFrom(FirstId(origin)',
                               Start' - FirstId(origin)' + PageLen(Start', Size', Total'))
<1>1. /\ Size' \in 1..maxPageSize /\ Total' \in 1..maxTotal /\ Start' \in 0..(Total' - 1)
      /\ maxPageSize \in Nat /\ maxTotal \in Nat
  BY PaginationAssumption DEF Page
<1>2. Start' \in Nat /\ PageLen(Start', Size', Total') \in Int
  <2>1. \A s \in 1..maxPageSize, t \in 1..maxTotal : \A f \in 0..(t - 1) :
          f \in Nat /\ PageLen(f, s, t) \in Int
    BY <1>1 DEF PageLen
  <2> QED
    BY <1>1, <2>1
<1>3. Start' - FirstId(origin)' + PageLen(Start', Size', Total') = PageLen(Start', Size', Total')
  BY <1>2
<1> QED
  BY <1>2, <1>3

\* A first request begins a walk.
LEMMA AskStep ==
  ASSUME NEW style \in Styles, NEW p \in Positions, NEW size \in Sizes, NEW total \in Totals,
         Ask(style, p, size, total)
  PROVE  PInv'
<1>1. p \in Params /\ size \in Params /\ total \in Params
  BY PaginationAssumption DEF Params
<1>2. /\ req' = [style |-> style, pos |-> Presented(style, p), size |-> size, total |-> total]
      /\ resp' = Answer(req') /\ origin' = p /\ shown' = resp'.items /\ via' = "asked"
  BY DEF Ask
<1>3. Presented(style, p) = IF style = "cursor" /\ p \in Int THEN <<"cursor", p>> ELSE p
  BY DEF Presented, encodeCursor
<1>4. req' \in PageRequests
  BY <1>1, <1>2, <1>3 DEF PageRequests, Params, Styles
<1>5. req'.style = style /\ req'.pos = Presented(style, p) /\ req'.size = size /\ req'.total = total
  BY <1>2
<1>6. Presented(style, p) \in NotInt <=> p \in NotInt
  BY <1>1, <1>3, PaginationAssumption, ParamAssumption DEF Params, NotInt
<1>7. ASSUME p \notin NotInt
      PROVE  PosOf(req') = p /\ FirstId(origin)' = StartOf(req')
  <2>1. PosOf(req') = p
    BY <1>1, <1>3, <1>5, <1>7, ParamAssumption, PaginationAssumption DEF PosOf, Params
  <2> QED
    BY <1>2, <2>1 DEF FirstId, StartOf, Size, SizeOf
<1>8. /\ resp'.status = 200 <=> Good(req')
      /\ resp'.status # 200 => resp' = BadRequest
      /\ resp'.status = 200 /\ origin' \notin NotInt => Page'
      /\ resp'.status = 200 => resp'.items = CountFrom(Start', PageLen(Start', Size', Total'))
  BY <1>2, <1>4, PageOfAnswer
<1>9. p \in NotInt => ~Good(req')
  BY <1>5, <1>6 DEF Good
<1>10. maxTotal \in Nat
  BY PaginationAssumption
<1>11. ASSUME p = Absent, Total' \in 1..maxTotal
       PROVE  StartOf(req') \in 0..(Total' - 1)
  <2>1. p \notin NotInt
    BY <1>11, ParamAssumption
  <2>2. StartOf(req') = 0
    BY <1>7, <1>11, <2>1, ParamAssumption DEF StartOf
  <2>3. \A x \in 1..maxTotal : 0 \in 0..(x - 1)
    BY <1>10
  <2> QED
    BY <1>11, <2>2, <2>3
<1>12. ServedIffInDataset'
  <2>1. CASE p \in NotInt
    BY <1>2, <1>8, <1>9, <2>1 DEF ServedIffInDataset
  <2>2. CASE p \notin NotInt
    <3>1. Good(req') <=> /\ NotInt \cap {size, total, p} = {}
                         /\ Size' \in 1..maxPageSize /\ Total' \in 1..maxTotal
                         /\ StartOf(req') \in 0..(Total' - 1)
      BY <1>5, <1>6, MeaningNext DEF Good
    <3>2. Good(req') <=> /\ NotInt \cap {size, total, p} = {}
                         /\ Size' \in 1..maxPageSize /\ Total' \in 1..maxTotal
                         /\ p = Absent \/ StartOf(req') \in 0..(Total' - 1)
      BY <3>1, <1>11
    <3> QED
      BY <1>2, <1>5, <1>7, <1>8, <2>2, <3>2 DEF ServedIffInDataset
  <2> QED
    BY <2>1, <2>2
<1>13. ASSUME resp'.status = 200
       PROVE  /\ Page' /\ FirstId(origin)' = Start'
              /\ shown' = CountFrom(Start', PageLen(Start', Size', Total'))
  <2>1. p \notin NotInt /\ Good(req')
    BY <1>8, <1>9, <1>13
  <2> QED
    BY <1>2, <1>7, <1>8, <1>13, <2>1, MeaningNext
<1> QED
  BY <1>1, <1>2, <1>4, <1>8, <1>12, <1>13, WalkBegins DEF PInv

\* A link of an answer is served: next continues the walk, the others begin one.
LEMMA FollowStep ==
  ASSUME PInv, NEW rel \in {"first", "last", "prev", "next"}, Follow(rel)
  PROVE  PInv'
<1> DEFINE pos == resp.links[rel]
<1>1. resp.status = 200
  BY DEF PInv, Follow, BadRequest
<1>2. /\ Page /\ req \in PageRequests /\ origin \in Params
      /\ FirstId(origin) \in 0..Start
      /\ shown = CountFrom(FirstId(origin), Start - FirstId(origin) + PageLen(Start, Size, Total))
  BY <1>1 DEF PInv
<1>3. /\ maxTotal \in Nat /\ maxPageSize \in Nat
      /\ defaultTotal \in 1..maxTotal /\ defaultPageSize \in 1..maxPageSize
  BY PaginationAssumption
<1>4. /\ Size \in Nat \ {0} /\ Total \in Nat \ {0}
      /\ Size \in 1..maxPageSize /\ Total \in 1..maxTotal /\ Start \in 0..(Total - 1)
      /\ NotInt \cap {req.size, req.total, req.pos, origin} = {}
  BY <1>2, <1>3 DEF Page
<1>5. /\ boundedDefault(req.size, defaultPageSize, maxPageSize) = Size
      /\ boundedDefault(req.total, defaultTotal, maxTotal) = Total
  <2>1. req.size \in Int \cup {Absent} \cup NotInt /\ req.total \in Int \cup {Absent} \cup NotInt
    BY <1>2 DEF PageRequests, Params
  <2>2. boundedDefault(req.size, defaultPageSize, maxPageSize) = Size
    BY <1>3, <1>4, <2>1, BoundedDefault DEF Size
  <2>3. boundedDefault(req.total, defaultTotal, maxTotal) = Total
    BY <1>3, <1>4, <2>1, BoundedDefault DEF Total
  <2> QED
    BY <2>2, <2>3
<1>6. /\ req' = IF req.style = "cursor" THEN [req EXCEPT !.pos = pos]
                ELSE [style |-> req.style, pos |-> pos, size |-> Size, total |-> Total]
      /\ resp' = Answer(req') /\ via' = rel /\ rel \in DOMAIN resp.links
      /\ IF rel = "next" THEN shown' = shown \o resp'.items /\ origin' = origin
         ELSE shown' = resp'.items /\ origin' = pos
  BY <1>5 DEF Follow
<1>7. Size \in Params /\ Total \in Params /\ Size # Absent /\ Total # Absent
      /\ Size \notin NotInt /\ Total \notin NotInt
  BY <1>4, ParamAssumption DEF Params, NotInt
<1> HIDE DEF pos
<1>8. req.style \in Styles
  BY <1>2 DEF PageRequests, Styles
<1>9. ASSUME req.style # "cursor", pos \in Int
      PROVE  /\ req' \in PageRequests /\ req'.style = req.style /\ req'.pos = pos
             /\ SizeOf(req') = Size /\ TotalOf(req') = Total
             /\ NotInt \cap {req'.size, req'.total, req'.pos} = {}
             /\ StartOf(req') = IF req.style = "link" THEN (pos - 1) * Size ELSE pos
  <2>1. req' = [style |-> req.style, pos |-> pos, size |-> Size, total |-> Total]
    BY <1>6, <1>9
  <2>2. pos # Absent /\ pos \notin NotInt
    BY <1>9, ParamAssumption DEF NotInt
  <2>3. req' \in PageRequests
    BY <1>7, <1>8, <1>9, <2>1 DEF PageRequests, Styles, Params
  <2>4. SizeOf(req') = Size /\ TotalOf(req') = Total
    BY <1>7, <2>1 DEF SizeOf, TotalOf
  <2>5. PosOf(req') = pos /\ req'.style = req.style
    BY <1>9, <2>1 DEF PosOf
  <2>6. StartOf(req') = IF req.style = "link" THEN (pos - 1) * Size ELSE pos
    BY <1>9, <2>2, <2>4, <2>5 DEF StartOf
  <2> QED
    BY <1>7, <2>1, <2>2, <2>3, <2>4, <2>6
<1>10. ASSUME req' \in PageRequests, req'.style = req.style, SizeOf(req') = Size, TotalOf(req') = Total,
              NotInt \cap {req'.size, req'.total, req'.pos} = {},
              StartOf(req') \in 0..(Total - 1), origin' \in Params, origin' \notin NotInt
       PROVE  /\ req' \in PageRequests /\ origin' \in Params
              /\ via' # "none" /\ ServedIffInDataset'
              /\ resp'.status = 200 /\ Page'
              /\ Size' = Size /\ Total' = Total
              /\ resp'.items = CountFrom(Start', PageLen(Start', Size', Total'))
  <2>1. Good(req')
    BY <1>4, <1>10 DEF Good
  <2>2. resp'.status = 200 /\ Page' /\ resp'.items = CountFrom(Start', PageLen(Start', Size', Total'))
    BY <1>6, <1>10, <2>1, PageOfAnswer
  <2>3. via' \notin {"none", "asked"}
    BY <1>6
  <2>4. ServedIffInDataset'
    BY <2>2, <2>3 DEF ServedIffInDataset
  <2> QED
    BY <1>10, <2>2, <2>3, <2>4, MeaningNext
<1>11. CASE rel = "next"
  <2>1. Start + Size < Total /\ Start \in Nat
    BY <1>2, <1>4, <1>6, <1>11 DEF Page
  <2>2. /\ req' \in PageRequests /\ req'.style = req.style
        /\ SizeOf(req') = Size /\ TotalOf(req') = Total
        /\ NotInt \cap {req'.size, req'.total, req'.pos} = {}
        /\ StartOf(req') = Start + Size
    <3>1. CASE req.style = "link"
      <4> DEFINE page == IF req.pos = Absent THEN 1 ELSE req.pos
      <4>1. resp.links = LinkTo(page, lastPageFor(Total, Size))
        BY <1>2, <3>1 DEF Page
      <4>2. req.pos \in Int \cup {Absent} /\ page \in Int
        BY <1>2, <1>4, <3>1 DEF PageRequests, Params
      <4>3. Start = (page - 1) * Size
        BY <1>2, <1>4, <3>1, StartOfLink
      <4> HIDE DEF page
      <4>4. "next" \in DOMAIN LinkTo(page, lastPageFor(Total, Size))
        BY <1>6, <1>11, <4>1
      <4>5. LinkTo(page, lastPageFor(Total, Size))["next"] = page + 1
        BY <4>4 DEF LinkTo
      <4>6. pos = page + 1
        BY <1>11, <4>1, <4>5 DEF pos
      <4>7. (pos - 1) * Size = Start + Size
        BY <1>4, <4>2, <4>3, <4>6
      <4> QED
        BY <1>9, <3>1, <4>2, <4>6, <4>7
    <3>2. CASE req.style = "odata"
      <4>1. resp.links = NextTo(Start + Size, Start + Size, Total)
        BY <1>2, <3>2 DEF Page
      <4>2. pos = Start + Size
        BY <1>6, <1>11, <4>1 DEF pos, NextTo
      <4> QED
        BY <1>4, <1>9, <2>1, <3>2, <4>2
    <3>3. CASE req.style = "cursor"
      <4>1. resp.links = NextTo(encodeCursor(Start + Size), Start + Size, Total)
        BY <1>2, <3>3 DEF Page
      <4>2. pos = <<"cursor", Start + Size>>
        BY <1>6, <1>11, <4>1 DEF pos, NextTo, encodeCursor
      <4>3. /\ req' = [req EXCEPT !.pos = pos]
            /\ req \in [style : {"cursor"}, pos : ({"cursor"} \X Int) \cup {Absent} \cup NotInt,
                        size : Params, total : Params]
        BY <1>2, <1>6, <3>3 DEF PageRequests
      <4>4. pos \in {"cursor"} \X Int /\ pos[2] = Start + Size /\ Start + Size \in Int
        BY <1>4, <2>1, <4>2
      <4>5. pos # Absent /\ pos \notin NotInt
        BY <4>4, PaginationAssumption
      <4>6. /\ req' \in PageRequests /\ req'.style = "cursor" /\ req'.pos = pos
            /\ req'.size = req.size /\ req'.total = req.total
        BY <4>3, <4>4 DEF PageRequests
      <4>7. SizeOf(req') = Size /\ TotalOf(req') = Total
        BY <4>6 DEF SizeOf, TotalOf, Size, Total
      <4>8. PosOf(req') = Start + Size
        BY <4>4, <4>5, <4>6 DEF PosOf
      <4>9. StartOf(req') = Start + Size
        BY <4>4, <4>6, <4>8, ParamAssumption DEF StartOf
      <4> QED
        BY <1>4, <3>3, <4>5, <4>6, <4>7, <4>9
    <3> QED
      BY <1>8, <3>1, <3>2, <3>3 DEF Styles
  <2>3. Start + Size \in 0..(Total - 1)
    BY <1>4, <2>1
  <2>4. origin' = origin /\ shown' = shown \o resp'.items /\ origin \notin NotInt
    BY <1>4, <1>6, <1>11
  <2>5. /\ req' \in PageRequests /\ origin' \in Params
        /\ via' # "none" /\ ServedIffInDataset'
        /\ resp'.status = 200 /\ Page'
        /\ Size' = Size /\ Total' = Total
        /\ resp'.items = CountFrom(Start', PageLen(Start', Size', Total'))
    BY <1>2, <1>10, <2>2, <2>3, <2>4
  <2>6. Start' = Start + Size
    BY <2>2, MeaningNext
  <2>7. FirstId(origin)' = FirstId(origin)
    BY <2>2, <2>4, <2>5 DEF FirstId
  <2> DEFINE F == FirstId(origin)
  <2>8. F \in Nat /\ F <= Start
    BY <1>2, <2>1
  <2>9. PageLen(Start, Size, Total) = Size
    BY <1>4, <2>1 DEF PageLen
  <2>10. PageLen(Start + Size, Size, Total) \in Nat
    BY <1>4, <2>1 DEF PageLen
  <2> HIDE DEF F
  <2>11. shown' = CountFrom(F, Start - F + Size) \o CountFrom(Start + Size, PageLen(Start + Size, Size, Total))
    BY <1>2, <2>4, <2>5, <2>6, <2>9 DEF F
  <2>12. Start - F + Size \in Nat /\ F + (Start - F + Size) = Start + Size
    BY <1>4, <2>1, <2>8
  <2>13. shown' = CountFrom(F, (Start - F + Size) + PageLen(Start + Size, Size, Total))
    <3> DEFINE m == Start - F + Size
               g == Start + Size
               l == PageLen(Start + Size, Size, Total)
    <3>1. F \in Int /\ m \in Nat /\ l \in Nat /\ g = F + m
      BY <2>8, <2>10, <2>12
    <3> HIDE DEF m, g, l
    <3>2. CountFrom(F, m) \o CountFrom(g, l) = CountFrom(F, m + l)
      BY <3>1, CountFromOn
    <3> QED
      BY <2>11, <3>2 DEF m, g, l
  <2>14. (Start - F + Size) + PageLen(Start + Size, Size, Total)
           = (Start + Size) - F + PageLen(Start + Size, Size, Total)
    BY <1>4, <2>1, <2>8, <2>10
  <2>15. F \in 0..(Start + Size)
    BY <1>4, <2>1, <2>8
  <2> QED
    BY <2>5, <2>6, <2>7, <2>13, <2>14, <2>15 DEF PInv, F
<1>12. CASE rel # "next"
  <2> DEFINE page == IF req.pos = Absent THEN 1 ELSE req.pos
             lastPage == lastPageFor(Total, Size)
  <2>1. req.style = "link"
    BY <1>2, <1>6, <1>8, <1>12 DEF Page, NextTo, Styles
  <2>2. resp.links = LinkTo(page, lastPage)
    BY <1>2, <2>1 DEF Page
  <2>3. req.pos \in Int \cup {Absent} /\ page \in Int
    BY <1>2, <1>4, <2>1 DEF PageRequests, Params
  <2>4. Start = (page - 1) * Size
    BY <1>2, <1>4, <2>1, StartOfLink
  <2>5. lastPage \in Nat \ {0} /\ page \in 1..lastPage
    BY <1>4, <2>3, <2>4, LastPage, PageInRange
  <2> HIDE DEF page, lastPage
  <2>6. pos \in 1..lastPage
    <3>1. rel \in DOMAIN LinkTo(page, lastPage)
      BY <1>6, <2>2
    <3>2. /\ rel = "first" => pos = 1
          /\ rel = "last" => pos = lastPage
          /\ rel = "prev" => pos = page - 1 /\ page > 1
      BY <2>2, <3>1 DEF LinkTo, pos
    <3> QED
      BY <1>12, <2>3, <2>5, <3>2
  <2>7. pos \in Int /\ pos \in Params /\ pos \notin NotInt /\ pos # Absent
    BY <2>5, <2>6, ParamAssumption DEF Params, NotInt
  <2>8. /\ req' \in PageRequests /\ req'.style = req.style
        /\ SizeOf(req') = Size /\ TotalOf(req') = Total
        /\ NotInt \cap {req'.size, req'.total, req'.pos} = {}
        /\ StartOf(req') = (pos - 1) * Size
    BY <1>9, <2>1, <2>7
  <2>9. (pos - 1) * Size \in 0..(Total - 1)
    BY <1>4, <2>6, <2>7, PageInRange DEF lastPage
  <2>10. origin' = pos /\ shown' = resp'.items
    BY <1>6, <1>12
  <2>11. /\ req' \in PageRequests /\ origin' \in Params
         /\ via' # "none" /\ ServedIffInDataset'
         /\ resp'.status = 200 /\ Page'
         /\ Size' = Size /\ Total' = Total
         /\ resp'.items = CountFrom(Start', PageLen(Start', Size', Total'))
    BY <1>10, <2>7, <2>8, <2>9, <2>10
  <2>12. FirstId(origin)' = (pos - 1) * Size
    BY <2>1, <2>7, <2>8, <2>10, <2>11 DEF FirstId
  <2>13. FirstId(origin)' = Start'
    BY <2>8, <2>12, MeaningNext
  <2> QED
    BY <2>10, <2>11, <2>13, WalkBegins DEF PInv
<1> QED
  BY <1>11, <1>12

\* The invariant is inductive.
LEMMA InitPInv == Init => PInv
BY ParamAssumption DEF Init, PInv, PageRequests, Params, NotInt, ServedIffInDataset, BadRequest

\* Every step of the client keeps PInv.
LEMMA StepPInv == PInv /\ [Next]_vars => PInv'
<1> SUFFICES ASSUME PInv, [Next]_vars
             PROVE  PInv'
  OBVIOUS
<1>1. CASE \E style \in Styles, p \in Positions, size \in Sizes, total \in Totals :
             Ask(style, p, size, total)
  BY <1>1, AskStep
<1>2. CASE \E rel \in {"first", "last", "prev", "next"} : Follow(rel)
  BY <1>2, FollowStep
<1>3. CASE UNCHANGED vars
  <2>1. req' = req /\ resp' = resp /\ via' = via /\ origin' = origin /\ shown' = shown
    BY <1>3 DEF vars
  <2>2. /\ Size' = Size /\ Total' = Total /\ Start' = Start
        /\ FirstId(origin)' = FirstId(origin)
    BY <2>1 DEF Size, Total, Start, FirstId
  <2>3. Page => Page'
    BY <2>1, <2>2 DEF Page
  <2>4. ServedIffInDataset'
    BY <2>1, <2>2 DEF PInv, ServedIffInDataset
  <2> QED
    BY <2>1, <2>2, <2>3, <2>4 DEF PInv
<1> QED
  BY <1>1, <1>2, <1>3 DEF Next

\* It says that the walk so far shows every id.
LEMMA PInvWalk == PInv => WalkShowsEveryItem
<1> SUFFICES ASSUME PInv, resp.status = 200
             PROVE  /\ shown = [k \in 1..Len(shown) |-> FirstId(origin) + k - 1]
                    /\ shown # <<>> /\ shown[1] >= 0 /\ shown[Len(shown)] < Total
                    /\ "next" \notin DOMAIN resp.links <=> shown[Len(shown)] = Total - 1
  BY DEF WalkShowsEveryItem
<1> DEFINE F == FirstId(origin)
           l == PageLen(Start, Size, Total)
           m == Start - F + l
<1>1. /\ Page /\ F \in 0..Start /\ shown = CountFrom(F, m)
  BY DEF PInv
<1>2. /\ Size \in Nat \ {0} /\ Total \in Nat \ {0} /\ Start \in Nat /\ Start < Total
      /\ F \in Nat /\ F <= Start
      /\ "next" \notin DOMAIN resp.links <=> Start + Size >= Total
  BY <1>1, PaginationAssumption DEF Page
<1>3. l \in Nat \ {0} /\ Start + l <= Total /\ (Start + Size >= Total <=> Start + l = Total)
  BY <1>2 DEF PageLen
<1> HIDE DEF F, l
<1>4. m \in Nat \ {0} /\ F + m - 1 = Start + l - 1
  BY <1>2, <1>3
<1> HIDE DEF m
<1>5. Len(shown) = m /\ shown \in Seq(Int)
  BY <1>1, <1>2, <1>4, CountFromSeq
<1>6. shown = [k \in 1..m |-> F + k - 1]
  BY <1>1 DEF CountFrom
<1>7. shown[1] = F /\ shown[m] = Start + l - 1
  <2>1. 1 \in 1..m /\ m \in 1..m
    BY <1>4
  <2>2. shown[1] = F + 1 - 1 /\ shown[m] = F + m - 1
    BY <1>6, <2>1
  <2> QED
    BY <1>2, <1>4, <2>2
<1>8. shown = [k \in 1..Len(shown) |-> F + k - 1]
  BY <1>5, <1>6
<1>9. shown # <<>> /\ shown[1] >= 0 /\ shown[Len(shown)] < Total
  BY <1>2, <1>3, <1>4, <1>5, <1>7
<1>10. "next" \notin DOMAIN resp.links <=> shown[Len(shown)] = Total - 1
  <2>1. shown[Len(shown)] = Start + l - 1
    BY <1>5, <1>7
  <2>2. Start + l - 1 = Total - 1 <=> Start + l = Total
    BY <1>2, <1>3
  <2> QED
    BY <1>2, <1>3, <2>1, <2>2, Zenon
<1> QED
  BY <1>8, <1>9, <1>10, Zenon DEF F

\* What the client holds is always the answer to its request, and what its walk has
\* seen are the items from where it began (the handlers link, offset, page, cursor and
\* odata, and a client that follows their links).
THEOREM WalkIsInvariant == Spec => []PInv
<1> QED
  BY InitPInv, StepPInv, PTL DEF Spec

\* Whatever the first request and whichever links are followed, a walk shows the
\* ids of the dataset from its first one on, each once and in order, and ends
\* with the last one (the pagination handlers, for every width of int).
THEOREM WalkShowsEveryItemHolds == Spec => []WalkShowsEveryItem
BY WalkIsInvariant, PInvWalk, PTL

\* A request is served exactly when its parameters are in bounds and its first id
\* is in the dataset, and a link of an answer always is (no offset wraps around).
THEOREM ServedIffInDatasetHolds == Spec => []ServedIffInDataset
<1>1. PInv => ServedIffInDataset
  BY DEF PInv
<1> QED
  BY <1>1, WalkIsInvariant, PTL
=============================================================================

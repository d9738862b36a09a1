----------------------------- MODULE Pagination -----------------------------
(***************************************************************************)
(* The three pagination endpoints (pkg/endpoints/pagination/pagination.go) *)
(* and a client that asks one of them for a page and then follows the      *)
(* links of each answer.  The dataset is the integers 0..total-1, an item  *)
(* is its id.                                                              *)
(*                                                                         *)
(* Integers are -MaxInt-1..MaxInt and wrap around, as the 64-bit int of    *)
(* the code does.  An opaque cursor is <<"cursor", n>>, n the integer in   *)
(* its base64 text.                                                        *)
(***************************************************************************)
EXTENDS Integers, Sequences, QueryParams

CONSTANTS MaxInt,                        \* the largest int
          maxTotal, maxPageSize,         \* bounds of total and of a page
          defaultTotal, defaultPageSize,
          Positions, Sizes, Totals       \* parameters of the first request

ASSUME PaginationAssumption ==
  /\ {MaxInt, maxTotal, maxPageSize} \subseteq Nat
  /\ defaultTotal \in 1..maxTotal
  /\ defaultPageSize \in 1..maxPageSize
  /\ maxTotal + maxPageSize <= MaxInt
  /\ \A x \in (Positions \cup Sizes \cup Totals) \ ({Absent} \cup NotInt) :
       x \in (-MaxInt - 1)..MaxInt
  /\ ({Absent} \cup NotInt) \cap ({"cursor"} \X Int) = {}

VARIABLES
  req,    \* the request last sent
  resp,   \* its answer
  via,    \* how the client came to it: "none", "asked" or the link followed
  \* History: where the walk by next links began, and the ids it has shown.
  origin, shown

vars == <<req, resp, via, origin, shown>>

Wrap(n) == ((n + MaxInt + 1) % (2 * (MaxInt + 1))) - MaxInt - 1

-----------------------------------------------------------------------------
(* Cursors.                                                                *)

encodeCursor(offset) == <<"cursor", offset>>

\* No cursor is offset zero; an integer of the client's own is no cursor.
decodeCursor(c) ==
  CASE c = Absent -> 0
    [] c \in NotInt -> Err
    [] OTHER -> IF c[2] < 0 THEN Err ELSE c[2]

-----------------------------------------------------------------------------
(* The handlers.                                                           *)

sliceItems(start, pageSize, total) ==
  LET sum == Wrap(start + pageSize)
      end == IF sum > total THEN total ELSE sum
  IN  IF start >= total THEN <<>>
      ELSE [i \in 1..(end - start) |-> start + i - 1]

lastPageFor(total, perPage) ==
  IF total <= 0 THEN 1 ELSE (total + perPage - 1) \div perPage

BadRequest == [status |-> 400, items |-> <<>>, links |-> << >>]

\* The links of an answer: a function from relations to positions.
LinkTo(page, lastPage) ==
  LET rels == {"first", "last"} \cup {r \in {"prev"} : page > 1}
                                \cup {r \in {"next"} : page < lastPage}
  IN  [r \in rels |-> CASE r = "first" -> 1
                        [] r = "last" -> lastPage
                        [] r = "prev" -> page - 1
                        [] r = "next" -> page + 1]

linkUnguarded(pos, perPage, total) ==
  LET page == positiveDefault(pos, 1)
      start == Wrap(Wrap(page - 1) * perPage)
  IN  IF Err \in {page, perPage, total} \/ start >= total THEN BadRequest
      ELSE [status |-> 200, items |-> sliceItems(start, perPage, total),
            links |-> LinkTo(page, lastPageFor(total, perPage))]

\* The page is compared with the last one before it is multiplied.
link(pos, perPage, total) ==
  LET page == positiveDefault(pos, 1)
      lastPage == lastPageFor(total, perPage)
  IN  IF Err \in {page, perPage, total} THEN BadRequest
      ELSE IF page > lastPage THEN BadRequest
      ELSE [status |-> 200,
            items |-> sliceItems(Wrap(Wrap(page - 1) * perPage), perPage, total),
            links |-> LinkTo(page, lastPage)]

\* A next link to pos, unless the page reaches the end of the dataset.
NextTo(pos, end, total) == [r \in {x \in {"next"} : end < total} |-> pos]

odata(pos, top, total) ==
  LET skip == nonNegativeDefault(pos, 0)
  IN  IF Err \in {skip, top, total} \/ skip >= total THEN BadRequest
      ELSE [status |-> 200, items |-> sliceItems(skip, top, total),
            links |-> NextTo(Wrap(skip + top), Wrap(skip + top), total)]

cursorOfLastItem(pos, limit, total) ==
  LET offset == decodeCursor(pos)
  IN  IF Err \in {offset, limit, total} \/ offset >= total THEN BadRequest
      ELSE [status |-> 200, items |-> sliceItems(offset, limit, total),
            links |-> NextTo(encodeCursor(Wrap(offset + limit - 1)), Wrap(offset + limit), total)]

cursor(pos, limit, total) ==
  LET offset == decodeCursor(pos)
  IN  IF Err \in {offset, limit, total} \/ offset >= total THEN BadRequest
      ELSE [status |-> 200, items |-> sliceItems(offset, limit, total),
            links |-> NextTo(encodeCursor(Wrap(offset + limit)), Wrap(offset + limit), total)]

\* per_page, $top and limit share their bounds, and so do the three totals.
Answer(q) ==
  LET size == boundedDefault(q.size, defaultPageSize, maxPageSize)
      total == boundedDefault(q.total, defaultTotal, maxTotal)
  IN  CASE q.style = "link" -> link(q.pos, size, total)
        [] q.style = "odata" -> odata(q.pos, size, total)
        [] q.style = "cursor" -> cursor(q.pos, size, total)

-----------------------------------------------------------------------------
(* The client.                                                             *)

Styles == {"link", "odata", "cursor"}

\* What a client may write into the position parameter of a style.
Presented(style, p) ==
  IF style = "cursor" /\ p \in Int THEN encodeCursor(p) ELSE p

Ask(style, p, size, total) ==
  /\ via = "none"
  /\ via' = "asked"
  /\ req' = [style |-> style, pos |-> Presented(style, p), size |-> size, total |-> total]
  /\ resp' = Answer(req')
  /\ origin' = p
  /\ shown' = resp'.items

\* A next link continues the walk, any other one begins a new walk.  A link
\* repeats the resolved size and total; for a cursor the client repeats its own.
Follow(rel) ==
  /\ rel \in DOMAIN resp.links
  /\ via' = rel
  /\ req' = IF req.style = "cursor" THEN [req EXCEPT !.pos = resp.links[rel]]
            ELSE [style |-> req.style, pos |-> resp.links[rel],
                  size |-> boundedDefault(req.size, defaultPageSize, maxPageSize),
                  total |-> boundedDefault(req.total, defaultTotal, maxTotal)]
  /\ resp' = Answer(req')
  /\ IF rel = "next" THEN shown' = shown \o resp'.items /\ UNCHANGED origin
     ELSE shown' = resp'.items /\ origin' = resp.links[rel]

Init ==
  /\ req = [style |-> "link", pos |-> Absent, size |-> Absent, total |-> Absent]
  /\ resp = BadRequest
  /\ via = "none"
  /\ origin = Absent
  /\ shown = <<>>

Next ==
  \/ \E style \in Styles, p \in Positions, size \in Sizes, total \in Totals :
       Ask(style, p, size, total)
  \/ \E rel \in {"first", "last", "prev", "next"} : Follow(rel)

Spec == Init /\ [][Next]_vars

-----------------------------------------------------------------------------
(* What a request means, in the integers of mathematics.                   *)

Size == IF req.size = Absent THEN defaultPageSize ELSE req.size
Total == IF req.total = Absent THEN defaultTotal ELSE req.total

\* The first id that position p of the current style stands for.
FirstId(p) ==
  CASE p = Absent -> 0
    [] p \in Int -> IF req.style = "link" THEN (p - 1) * Size ELSE p

\* A walk by next links shows every id from its first one on, each once and in
\* order, and the answer without a next link is the one that shows the last id
\* of the dataset: for all three styles, however pages fall on the dataset and
\* whatever integers the first request carried (no answer comes from an offset
\* that wrapped around).
WalkShowsEveryItem ==
  resp.status = 200 =>
    /\ shown = [i \in 1..Len(shown) |-> FirstId(origin) + i - 1]
    /\ shown # <<>> /\ shown[1] >= 0 /\ shown[Len(shown)] < Total
    /\ "next" \notin DOMAIN resp.links <=> shown[Len(shown)] = Total - 1

\* A first request is served exactly when its parameters are in their bounds
\* and its first id is in the dataset, computed without a limit on integers; a
\* link of an answer is never refused: first, last, prev and next of a page
\* exist when the header or the body offers them.
ServedIffInDataset ==
  /\ via = "asked" =>
       (resp.status = 200 <=>
          /\ NotInt \cap {req.size, req.total, origin} = {}
          /\ Size \in 1..maxPageSize /\ Total \in 1..maxTotal
          /\ origin = Absent \/ FirstId(origin) \in 0..(Total - 1))
  /\ via \notin {"none", "asked"} => resp.status = 200

-----------------------------------------------------------------------------
(* The inductive invariant of the walk.                                    *)

\* What a client may send.
Params == Int \cup {Absent} \cup NotInt
PageRequests ==
  [style : {"link", "odata"}, pos : Params, size : Params, total : Params]
    \cup [style : {"cursor"}, pos : ({"cursor"} \X Int) \cup {Absent} \cup NotInt,
          size : Params, total : Params]

\* The first id of the page that the last request asked for.
Start ==
  FirstId(IF req.style = "cursor" /\ req.pos # Absent THEN req.pos[2] ELSE req.pos)

\* How many ids a page holds.
PageLen(first, size, total) == IF first + size > total THEN total - first ELSE size

\* The ids from first on.
CountFrom(first, len) == [k \in 1..len |-> first + k - 1]

\* A served request has a size and a total in their bounds and a first id in the
\* dataset; its answer shows the ids of its page, and the links lead on.
Page ==
  /\ NotInt \cap {req.size, req.total, req.pos, origin} = {}
  /\ Size \in 1..maxPageSize /\ Total \in 1..maxTotal
  /\ Start \in 0..(Total - 1)
  /\ "next" \in DOMAIN resp.links <=> Start + Size < Total
  /\ req.style = "link" =>
       resp.links = LinkTo(IF req.pos = Absent THEN 1 ELSE req.pos, lastPageFor(Total, Size))
  /\ req.style = "odata" => resp.links = NextTo(Start + Size, Start + Size, Total)
  /\ req.style = "cursor" => resp.links = NextTo(encodeCursor(Start + Size), Start + Size, Total)

\* What has been shown are the ids from the walk's first one to the page's last.
PInv ==
  /\ req \in PageRequests /\ origin \in Params
  /\ via = "none" => resp = BadRequest
  /\ ServedIffInDataset
  /\ resp.status # 200 => resp = BadRequest
  /\ resp.status = 200 =>
       /\ Page
       /\ FirstId(origin) \in 0..Start
       /\ shown = CountFrom(FirstId(origin),
                            Start - FirstId(origin) + PageLen(Start, Size, Total))
=============================================================================

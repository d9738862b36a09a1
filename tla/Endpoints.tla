----------------------------- MODULE Endpoints ------------------------------
(***************************************************************************)
(* The endpoints as clients reach them: a request is routed (module        *)
(* Routing), and when a pattern of a group gets it the handler of that     *)
(* group runs (modules Handlers and Pagination).  The handlers share no    *)
(* state, so one request is followed for each configuration; a client of   *)
(* the pagination group goes on with the links of its answer.              *)
(***************************************************************************)
EXTENDS Routing, Handlers, Pagination

evars == <<rvars, hvars, vars>>

\* A GET request for path, of a client that is no browser.
GetRequest(path) ==
  [NoRequest EXCEPT !.method = "GET", !.segs = [k \in 1..Len(path) |-> <<path[k]>>]]

Get(path) == GetRequest(path) \in Requests /\ Wire(GetRequest(path)) /\ answer'.to = "endpoint"

GetV1(group, name) == Get(<<"v1", group, name>>)

CallHandler ==
  /\ Idle
  /\ \/ \E h \in Streams : GetV1("streaming", h) /\ \E c, d \in Raw : Stream(h, c, d)
     \/ GetV1("export", "big-body") /\ \E r \in Raw : BigBody(r)
     \/ GetV1("export", "csv") /\ \E r \in Raw : Csv(r)
     \/ GetV1("export", "long-running") /\ \E r \in Raw : LongRunning(r)
     \/ Get(<<"v1", "slow">>) /\ \E r \in Raw : Slow(r)
     \/ GetV1("status", "code") /\ \E c \in Codes : Status(c)
     \/ Get(<<"v1", "sized">>) /\ \E r \in Raw : Sized(r)
     \/ Get(<<"v1", "lorem">>) /\ \E r \in Raw : Lorem(r)

AskForPage ==
  /\ Idle
  /\ \E style \in Styles :
       /\ GetV1("pagination", style)
       /\ \E p \in Positions, size \in Sizes, total \in Totals : Ask(style, p, size, total)

EInit == RInit /\ HInit /\ Init

ENext ==
  \/ RNext /\ UNCHANGED <<hvars, vars>>
  \/ CallHandler /\ UNCHANGED vars
  \/ HandlerStep /\ UNCHANGED <<rvars, vars>>
  \/ AskForPage /\ UNCHANGED hvars
  \/ /\ \E rel \in {"first", "last", "prev", "next"} : Follow(rel)
     /\ UNCHANGED <<rvars, hvars>>

ESpec == EInit /\ [][ENext]_evars
=============================================================================

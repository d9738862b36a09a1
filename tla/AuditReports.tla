---------------------------- MODULE AuditReports ----------------------------
(***************************************************************************)
(* The portal's short readers over the audit tables: the events list and   *)
(* the dashboard (pkg/httpsrv/portal_api.go), which combine several reads, *)
(* and the time series, breakdown and statistics, which compute from one   *)
(* (pkg/httpsrv/portal_audit_aggregations.go).  Rows are committed between *)
(* the reads of a handler.  The duration of an event is its id.            *)
(***************************************************************************)
EXTENDS AuditStore, Integers

CONSTANTS Failed,          \* ids of the requests that fail
          Keys,            \* [Ids -> Nat]: each event's group in a breakdown
          ReportWindows,   \* from and to of a request, 0 when unset
          Buckets, Tops,   \* bucket_seconds and top of a request
          Hour, DefaultBucket, MaxBucket, MaxBuckets

ASSUME ReportAssumption ==
  /\ Failed \subseteq Ids
  /\ Keys \in [Ids -> Nat]
  /\ ReportWindows \subseteq Nat \X Nat
  /\ Buckets \subseteq Int
  /\ Tops \subseteq Nat \ {0}
  /\ {Hour, DefaultBucket, MaxBucket, MaxBuckets} \subseteq Nat \ {0}

VARIABLES
  report,    \* where the handler is: "idle", the read it comes to, or "done"
  filter,    \* the window of its reads
  answer     \* what it has so far, and in the end its answer

reportVars == <<report, filter, answer>>

Count(from, to) == Cardinality(Matching(from, to))

-----------------------------------------------------------------------------
(* The events list: a page, then the number of all matching rows.          *)

Events(from, to, limit, offset) ==
  /\ report = "idle"
  /\ report' = "count"
  /\ filter' = <<from, to>>
  /\ answer' = [kind |-> "events", offset |-> offset,
                total |-> 0, counted |-> FALSE,
                rows |-> Query(from, to, IF limit = 0 THEN 50 ELSE limit, offset)]
  /\ UNCHANGED storeVars

EventsTotalOfPage ==
  /\ report = "count"
  /\ report' = "done"
  /\ answer' = [answer EXCEPT !.total = Len(answer.rows), !.counted = TRUE]
  /\ UNCHANGED <<filter, storeVars>>

\* An error of Count is ignored, and its result is then zero.
EventsTotal ==
  /\ report = "count"
  /\ report' = "done"
  /\ \/ answer' = [answer EXCEPT !.total = Count(filter[1], filter[2]), !.counted = TRUE]
     \/ answer' = [answer EXCEPT !.total = 0]
  /\ UNCHANGED <<filter, storeVars>>

-----------------------------------------------------------------------------
(* The dashboard: two counts and a list over the last hour.  Their errors  *)
(* are ignored, and leave zero or an empty list.  History: basis, the rows *)
(* behind the total.                                                       *)

DashboardTotal ==
  /\ report = "idle"
  /\ report' = "success"
  /\ filter' = <<IF now > Hour THEN now - Hour ELSE 0, now>>
  /\ \E rows \in {Matching(filter'[1], filter'[2]), {}} :
       answer' = [kind |-> "dashboard", total |-> Cardinality(rows), success |-> 0,
                  recent |-> <<>>, basis |-> rows]
  /\ UNCHANGED storeVars

DashboardSuccessNow ==
  /\ report = "success"
  /\ report' = "recent"
  /\ \E n \in {Cardinality(Matching(filter[1], now) \ Failed), 0} :
       answer' = [answer EXCEPT !.success = n]
  /\ UNCHANGED <<filter, storeVars>>

DashboardSuccess ==
  /\ report = "success"
  /\ report' = "recent"
  /\ \E n \in {Cardinality(Matching(filter[1], filter[2]) \ Failed), 0} :
       answer' = [answer EXCEPT !.success = n]
  /\ UNCHANGED <<filter, storeVars>>

DashboardRecent ==
  /\ report = "recent"
  /\ report' = "done"
  /\ \E rows \in {Query(filter[1], filter[2], 20, 0), <<>>} :
       answer' = [answer EXCEPT !.recent = rows]
  /\ UNCHANGED <<filter, storeVars>>

-----------------------------------------------------------------------------
(* The aggregations.                                                       *)

\* An unset To is the present, an unset From an hour before To, and a window
\* the wrong way round is turned.
timeWindow(from, to) ==
  LET end == IF to = 0 THEN now ELSE to
      begin == CASE from # 0 -> from
                 [] from = 0 /\ end > Hour -> end - Hour
                 [] OTHER -> 0
  IN  IF begin > end THEN <<end, begin>> ELSE <<begin, end>>

bucketSeconds(v) ==
  CASE v <= 0 -> DefaultBucket
    [] v > MaxBucket -> MaxBucket
    [] OTHER -> v

totalBucketsFloor(w, dur) == IF w[2] - w[1] < dur THEN 1 ELSE (w[2] - w[1]) \div dur

totalBuckets(w, dur) == ((w[2] - w[1]) \div dur) + 1

\* Query is inclusive at both ends, the buckets leave out To itself.
bucketOf(w, dur, i) == (ts[i] - w[1]) \div dur

inBucket(rows, w, dur, b) ==
  {i \in Range(rows) : w[1] <= ts[i] /\ ts[i] < w[2] /\ bucketOf(w, dur, i) = b}

Timeseries(from, to, bucket) ==
  LET w == timeWindow(from, to)
      dur == bucketSeconds(bucket)
      n == totalBuckets(w, dur)
      rows == Query(w[1], w[2], MaxQueryLimit, 0)
  IN  /\ report = "idle"
      /\ report' = "done"
      /\ filter' = w
      /\ answer' = IF n > MaxBuckets THEN [kind |-> "badRequest"]
                   ELSE [kind |-> "timeseries", rows |-> rows, dur |-> dur,
                         buckets |-> [b \in 0..(n - 1) |->
                           [count |-> Cardinality(inBucket(rows, w, dur, b)),
                            errors |-> Cardinality(inBucket(rows, w, dur, b) \cap Failed)]]]
      /\ UNCHANGED storeVars

\* The group of an event in the dimension of the request; an empty value has a
\* group of its own.
breakdownKeyFn(i) == Keys[i]

group(rows, k) == {i \in Range(rows) : breakdownKeyFn(i) = k}

groupKeys(rows) == {breakdownKeyFn(i) : i \in Range(rows)}

\* By falling count, ties by rising key.
larger(rows) ==
  {p \in groupKeys(rows) \X groupKeys(rows) :
     \/ Cardinality(group(rows, p[1])) > Cardinality(group(rows, p[2]))
     \/ Cardinality(group(rows, p[1])) = Cardinality(group(rows, p[2])) /\ p[1] < p[2]}

\* The groups in that order, cut at top.
Breakdown(from, to, top) ==
  LET w == timeWindow(from, to)
      rows == Query(w[1], w[2], MaxQueryLimit, 0)
      sorted == OrderBy(groupKeys(rows), larger(rows))
  IN  /\ report = "idle"
      /\ report' = "done"
      /\ filter' = w
      /\ answer' = [kind |-> "breakdown", rows |-> rows, top |-> top,
                    groups |-> [g \in 1..(IF top < Len(sorted) THEN top ELSE Len(sorted)) |->
                      [key |-> sorted[g], count |-> Cardinality(group(rows, sorted[g])),
                       errors |-> Cardinality(group(rows, sorted[g]) \cap Failed)]]]
      /\ UNCHANGED storeVars

\* The index is (n - 1) * p, cut to an integer; 0 for no values.
percentile(sorted, pct) ==
  IF sorted = <<>> THEN 0
  ELSE sorted[(((Len(sorted) - 1) * pct) \div 100) + 1]

shorter == {p \in Ids \X Ids : p[1] < p[2]}

Stats(from, to) ==
  LET w == timeWindow(from, to)
      rows == Query(w[1], w[2], MaxQueryLimit, 0)
      durations == OrderBy(Range(rows), shorter)
  IN  /\ report = "idle"
      /\ report' = "done"
      /\ filter' = w
      /\ answer' = [kind |-> "stats", rows |-> rows, total |-> Len(rows),
                    errors |-> Cardinality(Range(rows) \cap Failed),
                    p50 |-> percentile(durations, 50),
                    p95 |-> percentile(durations, 95),
                    p99 |-> percentile(durations, 99)]
      /\ UNCHANGED storeVars

\* A failed query ends an aggregation or the events list with a 500.
ReportError ==
  /\ report = "idle"
  /\ report' = "done"
  /\ answer' = [kind |-> "error"]
  /\ UNCHANGED <<filter, storeVars>>

ReportInit ==
  /\ StoreInit
  /\ report = "idle" /\ filter = <<0, 0>> /\ answer = [kind |-> "none"]

ReportNext ==
  \/ \E w \in ReportWindows :
       \/ \E limit, offset \in {0, 1} : Events(w[1], w[2], limit, offset)
       \/ \E b \in Buckets : Timeseries(w[1], w[2], b)
       \/ \E top \in Tops : Breakdown(w[1], w[2], top)
       \/ Stats(w[1], w[2])
  \/ EventsTotal
  \/ DashboardTotal \/ DashboardSuccess \/ DashboardRecent
  \/ ReportError
  \/ report # "done" /\ StoreNext /\ UNCHANGED reportVars

ReportSpec == ReportInit /\ [][ReportNext]_<<storeVars, reportVars>>

-----------------------------------------------------------------------------
\* A page of the events list fits into its total, although the two are read
\* one after the other while rows are committed: the page is read first.  (A
\* count that failed is zero.)
PageFitsTotal ==
  report = "done" /\ answer.kind = "events" /\ answer.counted /\ answer.rows # <<>> =>
    answer.offset + Len(answer.rows) <= answer.total

\* The errors of the dashboard, which the page computes as total minus success,
\* are wrong by no more than the rows of the window that were committed between
\* its two counts: they are at least minus their number and at most the failures
\* behind the total.  (A total that failed is of no rows, a success that failed
\* is zero.)
DashboardOffByLateRows ==
  report = "done" /\ answer.kind = "dashboard" =>
    LET late == Matching(filter[1], filter[2]) \ answer.basis
    IN  /\ answer.success <= answer.total + Cardinality(late)
        /\ answer.success # 0 =>
             answer.total <= answer.success + Cardinality(answer.basis \cap Failed)

Sum(f) == Cardinality(UNION {{g} \X (1..f[g].count) : g \in DOMAIN f})

\* Every row before To is counted once, in the bucket of its time, wherever the
\* window ends.
TimeseriesAddsUp ==
  LET rows == Range(answer.rows)
  IN  /\ Sum(answer.buckets) = Cardinality({i \in rows : ts[i] < filter[2]})
      /\ \A b \in DOMAIN answer.buckets :
           LET start == filter[1] + b * answer.dur
           IN  answer.buckets[b].count =
                 Cardinality({i \in rows : /\ start <= ts[i] /\ ts[i] < start + answer.dur
                                           /\ ts[i] < filter[2]})

\* No group that is left out is larger than one that is shown, and without a cut
\* the groups add up.
BreakdownAddsUp ==
  LET rows == Range(answer.rows)
      shown == {g.key : g \in Range(answer.groups)}
  IN  /\ \A i \in rows : Keys[i] \notin shown =>
           \A g \in Range(answer.groups) :
             Cardinality({j \in rows : Keys[j] = Keys[i]}) <= g.count
      /\ Len(answer.groups) < answer.top => Sum(answer.groups) = Cardinality(rows)

\* At least the stated share of the other rows (all but one) took as long as the
\* percentile or less, and no more rows than that asks for.
IsPercentile(value, rows, total, pct) ==
  LET upTo == Cardinality({i \in rows : i <= value})
  IN  /\ (upTo - 1) * 100 <= (total - 1) * pct
      /\ upTo * 100 > (total - 1) * pct

StatsAddUp ==
  answer.rows # <<>> =>
    /\ IsPercentile(answer.p50, Range(answer.rows), answer.total, 50)
    /\ IsPercentile(answer.p95, Range(answer.rows), answer.total, 95)
    /\ IsPercentile(answer.p99, Range(answer.rows), answer.total, 99)

\* Each report accounts for the rows it read: the buckets of a time series, the
\* groups of a breakdown and the percentiles of the statistics.
ReportsAddUp ==
  report = "done" => /\ answer.kind = "timeseries" => TimeseriesAddsUp
                     /\ answer.kind = "breakdown" => BreakdownAddsUp
                     /\ answer.kind = "stats" => StatsAddUp

-----------------------------------------------------------------------------
(* The inductive invariant.                                                *)

EventsRead == [kind : {"events"}, offset : Nat, total : Nat, counted : BOOLEAN,
               rows : Seq(Ids)]

DashboardRead == [kind : {"dashboard"}, total : Nat, success : Nat, recent : Seq(Ids),
                  basis : SUBSET Ids]

\* Between its reads, what a handler has is bounded by the rows of its window,
\* and their number only grows.
ReportInv ==
  /\ StoreInv
  /\ report \in {"idle", "count", "success", "recent", "done"}
  /\ filter \in Nat \X Nat
  /\ report = "count" =>
       /\ answer \in EventsRead /\ ~answer.counted
       /\ answer.rows # <<>> =>
            answer.offset + Len(answer.rows) <= Count(filter[1], filter[2])
  /\ report \in {"success", "recent"} =>
       /\ answer \in DashboardRead
       /\ answer.basis \subseteq Matching(filter[1], filter[2])
       /\ answer.total = Cardinality(answer.basis)
       /\ answer.success <= Count(filter[1], filter[2])
       /\ answer.success # 0 =>
            answer.total <= answer.success + Cardinality(answer.basis \cap Failed)
  /\ PageFitsTotal /\ DashboardOffByLateRows /\ ReportsAddUp
=============================================================================

----------------------------- MODULE TelemetryApi -----------------------------
(***************************************************************************)
(* The query API (telemetry-api/pkg/api/handler.go, pkg/repository/        *)
(* repository.go) and a client that lists the GPUs and reads the telemetry *)
(* of one page by page while the collector goes on writing rows.  The      *)
(* server keeps no state: each page is a query of its own.                 *)
(*                                                                         *)
(* A row of the GPU is its time and its series (the values of the other    *)
(* tags): hosts number their GPUs alike and report several metrics at one  *)
(* time.  The query sorts by time alone, so rows of one time come in any   *)
(* order, in another one each time.  Rows may be written late.  A date or  *)
(* a number of the request is 0 when it is missing; a number that cannot   *)
(* be parsed counts as missing.                                            *)
(***************************************************************************)
EXTENDS Naturals, FiniteSets

CONSTANTS
  DefaultLimit,  \* rows of a page if the request does not say, 100 in the code
  MaxLimit,      \* the most rows of a page, 1000 in the code
  Limits,        \* limits clients ask for
  Dates,         \* dates clients ask for
  Series,        \* series of the GPU
  MaxTime        \* bound: times of rows

ASSUME ApiAssumption ==
  /\ DefaultLimit \in 1 .. MaxLimit /\ MaxLimit \in Nat
  /\ Limits \subseteq Nat /\ Dates \subseteq Nat /\ MaxTime \in Nat
  /\ IsFiniteSet(Series)

Times == 1 .. MaxTime
Rows  == [time : Times, series : Series]

VARIABLES
  stored,   \* rows of the GPU in the database
  asked,    \* the client's request: limit, start_date, end_date
  offset,   \* the offset it asks for next
  got,      \* the rows it got
  first,    \* ghost: rows in its range when the GPU was listed
  client    \* "lists", "asks", "finished" or "rejected"

apiVars == <<stored, asked, offset, got, first, client>>

Requests == [limit : Limits, start : {0} \union Dates, end : {0} \union Dates,
             valid : BOOLEAN]

Least(a, b) == IF a < b THEN a ELSE b

-----------------------------------------------------------------------------
\* The limit that GetGPUTelemetry passes on and reports in its answer.
Limit(request) ==
  IF request.limit = 0 THEN DefaultLimit ELSE Least(request.limit, MaxLimit)

\* Fault: the end date is ignored.
InRangeToNow(rows, request) == {r \in rows : r.time >= request.start}

\* range(start, stop) of the query: the stop is exclusive, and now when missing.
InRange(rows, request) ==
  {r \in rows : r.time >= request.start /\ (request.end # 0 => r.time < request.end)}

\* Fault: the offset counts pages.
PagesByNumber(rows, request, skip) ==
  LET inRange  == InRange(rows, request)
      skipped  == skip * Limit(request)
      Newer(t) == Cardinality({r \in inRange : r.time > t})
      At(t, S) == Cardinality({r \in S : r.time = t})
      shown(t) == (Newer(t) + 1) .. (Newer(t) + At(t, inRange))
                    \intersect (skipped + 1) .. (skipped + Limit(request))
  IN {S \in SUBSET inRange : \A t \in Times : At(t, S) = Cardinality(shown(t))}

\* What GetGPUTelemetryByDateRange may answer: newest rows first, skip rows left out.
\* Of the rows of one time as many are shown as there are places for them.
Pages(rows, request, skip) ==
  LET inRange  == InRange(rows, request)
      Newer(t) == Cardinality({r \in inRange : r.time > t})
      At(t, S) == Cardinality({r \in S : r.time = t})
      shown(t) == (Newer(t) + 1) .. (Newer(t) + At(t, inRange))
                    \intersect (skip + 1) .. (skip + Limit(request))
  IN {S \in SUBSET inRange : \A t \in Times : At(t, S) = Cardinality(shown(t))}

\* The collector writes a row, possibly one that is older than others.
WriteRow ==
  /\ client = "asks"
  /\ \E r \in Rows \ stored : stored' = stored \union {r}
  /\ UNCHANGED <<asked, offset, got, first, client>>

\* The GPU is in the list that GetGPUs of the repository reads: it has a row, of any age.
Listed(rows) == rows # {}

\* GetGPUs answers, and the client goes on to the telemetry of a GPU in the list.
GetGPUs ==
  /\ client = "lists"
  /\ client' = IF Listed(stored) THEN "asks" ELSE "finished"
  /\ first' = InRange(stored, asked)
  /\ UNCHANGED <<stored, asked, offset, got>>

\* Fault: a date that cannot be parsed counts as missing.
AskUnchecked ==
  /\ client = "asks"
  /\ \E page \in Pages(stored, asked, offset) :
       /\ got' = got \union page /\ offset' = offset + Cardinality(page)
       /\ client' = IF Cardinality(page) < Limit(asked) THEN "finished" ELSE client
  /\ UNCHANGED <<stored, asked, first>>

\* GetGPUTelemetry answers; the client goes on after the rows it got until a
\* page is shorter than the limit the answer reports.  (After status 500 the
\* client asks again.)
Ask ==
  /\ client = "asks"
  /\ IF asked.valid
     THEN \E page \in Pages(stored, asked, offset) :
            /\ got' = got \union page /\ offset' = offset + Cardinality(page)
            /\ client' = IF Cardinality(page) < Limit(asked) THEN "finished" ELSE client
     ELSE client' = "rejected" /\ UNCHANGED <<got, offset>>
  /\ UNCHANGED <<stored, asked, first>>

ApiInit ==
  /\ stored \in SUBSET Rows /\ asked \in Requests
  /\ offset = 0 /\ got = {} /\ first = {} /\ client = "lists"

ApiNext == WriteRow \/ GetGPUs \/ Ask

-----------------------------------------------------------------------------
(* Properties.                                                             *)

\* Every variable has its type, the client got no more rows than the offset counts,
\* and only a request with valid dates is answered (GetGPUTelemetry).
ApiTypeOK ==
  /\ stored \subseteq Rows /\ asked \in Requests /\ first \subseteq stored
  /\ got \subseteq stored /\ offset \in Nat /\ Cardinality(got) <= offset
  /\ client \in {"lists", "asks", "finished", "rejected"}
  /\ got # {} => asked.valid

\* Rows that share their time with another one.
Tied == {r \in stored : \E s \in stored : s # r /\ s.time = r.time}

\* A client that reads page by page sees every row that was there when it listed the
\* GPU, although rows are written between its queries, also late ones that land in the
\* middle of what it reads; but of rows that share their time it may miss one (the
\* offset of GetGPUTelemetryByDateRange, and a sort by _time alone).
PagesMissNothing == client = "finished" => first \subseteq got \union Tied

\* The rows a client asked for.
Wanted == {r \in Rows : r.time >= asked.start /\ (asked.end = 0 \/ r.time < asked.end)}

\* It sees only what it asked for, and rows twice only as often as rows arrived
\* meanwhile in that range, or as it missed rows of a shared time.
RepeatsAreArrivals ==
  /\ got \subseteq Wanted
  /\ client = "finished" =>
       offset - Cardinality(got) <= Cardinality((stored \intersect Wanted) \ first)
                                    + Cardinality(first \ got)

\* Pages neither miss nor make up rows, but for those of a shared time.
PagesSound == PagesMissNothing /\ RepeatsAreArrivals
=============================================================================

------------------------------ MODULE TsdbPoints ------------------------------
(***************************************************************************)
(* What the collector's records become in InfluxDB: the conversion to line *)
(* protocol of telemetry-collector/pkg/tsdb/writer.go, and the database,   *)
(* where a point is named by its tags and its time and a second write to   *)
(* it replaces the first.  A record may be written again (module Delivery: *)
(* a restarted consumer reads messages a second time).                     *)
(*                                                                         *)
(* One tag, the device, stands for the ten; its value is looked up under   *)
(* several names, and so is the time.  The constants of the unit test are  *)
(* parameters, since TLC's integers end where 10^9 is squared.             *)
(*                                                                         *)
(* Left out: escaping, the field's value, failing writes (module           *)
(* Collector).                                                             *)
(***************************************************************************)
EXTENDS Integers, Sequences, FiniteSets, Widths

CONSTANTS
  Devices,    \* values of the device tag
  Measured,   \* the records to write: names of the device, times, in order
  Kilo,       \* 1000 in the code
  Base,       \* 10^9: the time in seconds from which units can be told apart
  MaxClock,   \* bound: time.Now, in nanoseconds
  MaxPoints   \* bound: writes

\* A time is a number of some unit; only this specification knows the unit.
Times64 == IntRange(MaxInt64)
Factor  == [s |-> Kilo * Kilo * Kilo, ms |-> Kilo * Kilo, ns |-> 1]
TimeField ==
  [type : {"int", "float", "digits", "date", "text", "missing"}, n : Times64,
   unit : DOMAIN Factor]

ASSUME PointsAssumption ==
  /\ Kilo \in Nat \ {0} /\ Base \in Nat
  /\ MaxClock \in 0 .. MaxInt64 /\ MaxPoints \in Nat
  /\ MaxInt64 <= Base * Kilo * Kilo * Kilo * Kilo  \* seconds in int64 are not too many
  /\ \A r \in Measured : /\ r.times \in Seq(TimeField)
                         /\ r.names \in Seq(Devices \union {"missing", "empty"})

VARIABLES
  points,   \* the database: [device, time] of each point
  clock,    \* time.Now().UnixNano()
  written,  \* ghost: the records written, each with the time it got
  guessed   \* ghost: writes that took the time from the clock

pointsVars == <<points, clock, written, guessed>>

-----------------------------------------------------------------------------
\* Multiplication of int64s.
Times64Product(a, b) == Wrap(a * b, MaxInt64)

First(indices) == CHOOSE i \in indices : \A j \in indices : i <= j

\* Fault: an empty value counts as a value.
TagOfFirst(names) ==
  LET there == {i \in DOMAIN names : names[i] # "missing"}
  IN IF there = {} THEN "unknown" ELSE names[First(there)]

\* getStringFieldVariants: the first value that is not empty.
Tag(names) ==
  LET there == {i \in DOMAIN names : names[i] \notin {"missing", "empty"}}
  IN IF there = {} THEN "unknown" ELSE names[First(there)]

\* Fault: milliseconds are not recognised.
NanosecondsOfSeconds(field) ==
  CASE field.type = "int" /\ field.n > Base * Kilo * Kilo -> field.n
    [] field.type \in {"date", "float"} -> field.n
    [] OTHER -> Times64Product(field.n, Kilo * Kilo * Kilo)

\* The number of one time field in nanoseconds.  Numbers above a bound are taken
\* for milliseconds, and integers above another for nanoseconds; a float is taken
\* as it is.
Nanoseconds(field) ==
  CASE field.type = "int" /\ field.n > Base * Kilo * Kilo -> field.n
    [] field.type \in {"date", "float"} -> field.n
    [] OTHER -> Times64Product(field.n,
                  IF field.n > Base * Kilo THEN Kilo * Kilo ELSE Kilo * Kilo * Kilo)

\* Fields that are there and can be read.
ReadableTimes(record) ==
  {i \in DOMAIN record.times : record.times[i].type \notin {"missing", "text"}}

\* Fault: the time of the write.
ExtractTimestampNow(record) == clock

\* extractTimestamp: the first field that can be read; one that cannot is passed
\* over.  Without any it is the time of the write.
ExtractTimestamp(record) ==
  LET there == ReadableTimes(record)
  IN IF there = {} THEN clock ELSE Nanoseconds(record.times[First(there)])

\* WriteMetric of a record, for the first time or again.
WriteRecord(record) ==
  /\ Cardinality(written) < MaxPoints /\ guessed < MaxPoints
  /\ LET time == ExtractTimestamp(record) IN
       /\ points'  = points \union {[device |-> Tag(record.names), time |-> time]}
       /\ written' = written \union {[record |-> record, time |-> time]}
  /\ guessed' = guessed + (IF ReadableTimes(record) = {} THEN 1 ELSE 0)
  /\ UNCHANGED clock

Pass ==
  /\ clock < MaxClock /\ clock' = clock + 1
  /\ UNCHANGED <<points, written, guessed>>

PointsInit == points = {} /\ clock = 0 /\ written = {} /\ guessed = 0

PointsNext == Pass \/ \E record \in Measured : WriteRecord(record)

-----------------------------------------------------------------------------
(* Properties.                                                             *)

\* Every variable has its type; no point has an empty tag, which InfluxDB would
\* reject (convertToLineProtocol), and every time fits its int64.
PointsTypeOK ==
  /\ points \subseteq [device : Devices \union {"unknown"}, time : Times64]
  /\ clock \in 0 .. MaxClock /\ guessed \in 0 .. MaxPoints
  /\ written \subseteq [record : Measured, time : Times64]
  /\ Cardinality(written) <= MaxPoints

\* A field whose unit extractTimestamp can tell: an instant between 2001 and the
\* end of int64 as a date, a number of seconds or milliseconds, or an integer of
\* nanoseconds.
Clear(field) ==
  LET nanos == field.n * Factor[field.unit] IN
  /\ nanos > Base * Factor["s"] /\ nanos <= MaxInt64
  /\ \/ field.type = "int"
     \/ field.type = "digits" /\ field.unit # "ns"
     \/ field.type \in {"date", "float"} /\ field.unit = "ns"

\* A record whose first readable time field is clear is stored at the instant it
\* means, whatever unit and type it came in and however many unreadable fields
\* precede it (extractTimestamp).
StoredAtItsInstant ==
  \A w \in written :
    LET there == ReadableTimes(w.record)
        field == w.record.times[First(there)]
    IN there # {} /\ Clear(field) => w.time = field.n * Factor[field.unit]

\* A record that carries a time is one point, however often and however late it is
\* written again: what a restarted consumer repeats replaces itself.
RewritesAreOnePoint ==
  Cardinality(points) <=
    Cardinality({w.record : w \in {x \in written : ReadableTimes(x.record) # {}}}) + guessed

\* A record lands at its own instant, and on itself when it is written again.
PointsSound == StoredAtItsInstant /\ RewritesAreOnePoint
=============================================================================

------------------------------ MODULE MCServices ------------------------------
(* Model values and bounds for checking TelemetryServices with TLC.        *)
EXTENDS TelemetryServices

CONSTANTS k1, k2, k3, call1, call2, s1, s2

\* A batch of rows and one that cannot be parsed.
MCFiles   == {<<TRUE, TRUE, FALSE>>}
MCCallers == {k1, k2, k3}
MCCalls   == {call1, call2}
\* Odd and even numbers of partitions, and one.
MCPartitionNumbers == 1 .. 4
\* Numbers at the bounds of what the programs accept, one that is -1 as an int32, one
\* whose milliseconds wrap around, and one beyond a second's nanoseconds.
MCNumbers == {-1, 0, 255, 1025, 9001}
\* A limit that is missing and one above the maximum; a date between the rows; rows
\* that share their time.
MCLimits  == {0, 4}
MCDates   == {2}
MCSeries  == {s1, s2}

\* Times around the bounds of the units (2 and 9 seconds are past Base and in the
\* range of int64, 20 seconds are not), one that cannot be
\* read, and no time at all.
MCTimes ==
  {[type |-> "int", n |-> 2, unit |-> "s"], [type |-> "int", n |-> 20, unit |-> "s"],
   [type |-> "int", n |-> 90, unit |-> "ms"], [type |-> "int", n |-> 2000, unit |-> "ns"],
   [type |-> "digits", n |-> 9, unit |-> "s"], [type |-> "digits", n |-> 11, unit |-> "ms"],
   [type |-> "digits", n |-> 2000, unit |-> "ns"], [type |-> "float", n |-> 2, unit |-> "s"],
   [type |-> "date", n |-> 9001, unit |-> "ns"], [type |-> "text", n |-> 0, unit |-> "s"],
   [type |-> "missing", n |-> 0, unit |-> "s"]}
MCDevices == {"d1", "d2"}
\* Every time after a missing, an unreadable and a readable one, under one device;
\* and one time under devices that have two names.
MCMeasured ==
  {[names |-> <<"d1">>, times |-> <<f, t>>] :
     f \in {x \in MCTimes : x.type \in {"missing", "text", "date"}}, t \in MCTimes}
  \union
  {[names |-> <<d, e>>, times |-> <<[type |-> "int", n |-> 2, unit |-> "s"]>>] :
     d, e \in MCDevices \union {"missing", "empty"}}
=============================================================================

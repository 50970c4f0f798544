---------------------------- MODULE PartitionLog ----------------------------
(***************************************************************************)
(* What partitions promise: each is an ordered, append-only sequence of    *)
(* messages, and the offset of a message is its position, fixed for good   *)
(* when the message is appended (messagebroker/architecture.md: "ordered,  *)
(* append-only partitions").                                               *)
(***************************************************************************)
EXTENDS Naturals, Sequences

CONSTANTS
  Log,      \* the names of the logs
  Value     \* what a message may carry

VARIABLE history    \* per log, every message ever appended, in offset order

Init == history = [l \in Log |-> <<>>]

\* Append one message to one log; it gets the next offset, Len(history[l]).
AppendTo(l, v) == history' = [history EXCEPT ![l] = Append(@, v)]

Next == \E l \in Log, v \in Value : AppendTo(l, v)

Spec == Init /\ [][Next]_history
=============================================================================

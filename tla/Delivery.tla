------------------------------ MODULE Delivery ------------------------------
(***************************************************************************)
(* What becomes of a message between a partition and the time-series       *)
(* database: the collector's consumer (telemetry-collector/pkg/consumer/   *)
(* consumer.go) with its positions and commits, the collection loop that   *)
(* writes each message (pkg/collector/collector.go, pkg/tsdb/writer.go),   *)
(* and the committed offsets in etcd.                                      *)
(*                                                                         *)
(* A partition is the log that module Broker implements, here its first    *)
(* and next offset.  The group manager's answers are any of Shares: module *)
(* ConsumerGroup shows that two consumers may hold one partition.          *)
(*                                                                         *)
(* Left out: the batch for the (mocked) send to the broker, the other      *)
(* sources, the circuit breaker, which only delays the loop.               *)
(***************************************************************************)
EXTENDS Integers, Sequences, FiniteSets

CONSTANTS
  Consumers,     \* collector processes; a restarted one takes its place
  Partitions,    \* partition numbers
  Shares,        \* sets of partitions the group manager may assign
  FetchMax,      \* messages per ConsumeMessages, 100 in the code
  MaxMessages,   \* messages a partition retains
  MaxLog,        \* bound: messages per partition and broker incarnation
  MaxFaults,     \* bound: failed calls
  MaxCrashes,    \* bound: collector crashes
  MaxRestarts    \* bound: broker restarts

ASSUME DeliveryAssumption ==
  /\ Partitions \subseteq Nat /\ IsFiniteSet(Partitions)
  /\ Shares \subseteq SUBSET Partitions
  /\ FetchMax \in Nat \ {0} /\ MaxMessages \in Nat \ {0}
  /\ MaxLog \in Nat /\ MaxFaults \in Nat /\ MaxCrashes \in Nat /\ MaxRestarts \in Nat

VARIABLES
  epoch,      \* broker incarnation; its log is in memory
  base, next, \* per partition: oldest retained offset, next offset
  committed,  \* etcd: committed offset, 0 if there is none
  owned,      \* c.assignments
  offset,     \* c.offsets
  last,       \* c.lastReadIndex
  pc,         \* the consumer's place in the collection loop
  hand,       \* messages read and not yet written
  stored,     \* messages in the database
  dropped,    \* ghost: messages whose write failed or that a crash took
  stale,      \* ghost: positions held when the broker restarted last
  faults, crashes

logVars      == <<epoch, base, next, stale>>
consumerVars == <<owned, offset, last, pc, hand>>
vars == <<epoch, base, next, committed, owned, offset, last, pc, hand,
          stored, dropped, stale, faults, crashes>>

Idle == [at |-> "idle", todo |-> {}, tried |-> 0, p |-> 0, lastOffset |-> 0]

Msg(p, off) == <<epoch, p, off>>

\* c.assignments is in ascending order; the k-th partition, from 0.
Nth(S, k) == CHOOSE p \in S : Cardinality({q \in S : q < p}) = k

Largest(S) == CHOOSE x \in S : \A y \in S : y <= x

Fail  == faults < MaxFaults /\ faults' = faults + 1
Works == UNCHANGED faults

-----------------------------------------------------------------------------
(* The partitions.                                                         *)

Produce(p) ==
  /\ next[p] < MaxLog
  /\ next' = [next EXCEPT ![p] = @ + 1]
  /\ base' = [base EXCEPT ![p] = IF next[p] - @ = MaxMessages THEN @ + 1 ELSE @]
  /\ UNCHANGED <<epoch, stale, committed, consumerVars, stored, dropped, faults, crashes>>

Positions(p) == {committed[p]} \union {offset[c][p] : c \in Consumers}

\* The log is empty after a restart; etcd and the consumers keep their
\* positions.
BrokerRestart ==
  /\ epoch < MaxRestarts
  /\ epoch' = epoch + 1
  /\ base'  = [p \in Partitions |-> 0]
  /\ next'  = [p \in Partitions |-> 0]
  /\ stale' = [p \in Partitions |-> Largest(Positions(p))]
  /\ UNCHANGED <<committed, consumerVars, stored, dropped, faults, crashes>>

-----------------------------------------------------------------------------
(* The consumer.                                                           *)

\* A consumer without partitions joins the group and takes what it is given.
JoinGroup(c, S) ==
  /\ pc[c] = Idle /\ owned[c] = {}
  /\ owned' = [owned EXCEPT ![c] = S]
  /\ pc'    = [pc EXCEPT ![c].at = IF S = {} THEN "idle" ELSE "offsets", ![c].todo = S]
  /\ UNCHANGED <<logVars, committed, offset, last, hand, stored, dropped, faults, crashes>>

\* What FetchOffset may come to: the offset committed last, or 0 when there is none,
\* and also when the coordinator or the call to the broker fails.
OffsetAnswers(p) ==
  {[offset |-> committed[p], fails |-> FALSE], [offset |-> 0, fails |-> TRUE]}

\* One FetchOffset per partition.
FetchOffset(c) ==
  LET p == Nth(pc[c].todo, 0)
      rest == pc[c].todo \ {p} IN
  /\ pc[c].at = "offsets"
  /\ \E answer \in OffsetAnswers(p) :
       /\ offset' = [offset EXCEPT ![c][p] = answer.offset]
       /\ IF answer.fails THEN Fail ELSE Works
  /\ pc' = [pc EXCEPT ![c].todo = rest, ![c].at = IF rest = {} THEN "idle" ELSE "offsets"]
  /\ UNCHANGED <<logVars, committed, owned, last, hand, stored, dropped, crashes>>

\* The offsets ConsumeMessages gets from partition p.
Available(c, p) ==
  LET from == IF offset[c][p] < base[p] THEN base[p] ELSE offset[c][p] IN
  {off \in from .. (from + FetchMax - 1) : off < next[p]}

\* The partition ConsumeMessages asks next: its partitions in turn, from
\* lastReadIndex on.
Asked(c)  == (last[c] + pc[c].tried) % Cardinality(owned[c])
Answer(c) == Available(c, Nth(owned[c], Asked(c)))

\* Messages move the position of their partition.
Take(c) ==
  LET p   == Nth(owned[c], Asked(c))
      end == Largest(Answer(c))
      n   == Cardinality(Answer(c)) IN
  /\ hand'   = [hand EXCEPT ![c] = [i \in 1 .. n |-> Msg(p, end - n + i)]]
  /\ offset' = [offset EXCEPT ![c][p] = end + 1]
  /\ last'   = [last EXCEPT ![c] = (Asked(c) + 1) % Cardinality(owned[c])]
  /\ pc'     = [pc EXCEPT ![c] = [Idle EXCEPT !.at = "commit", !.p = p,
                                              !.lastOffset = end]]

\* Fault: an answer without messages is processed like any other.
ReadPartitionUnchecked(c) ==
  /\ pc[c].at = "idle" /\ owned[c] # {}
  /\ IF Answer(c) # {}
     THEN Take(c)
     ELSE /\ pc' = [pc EXCEPT ![c] = [Idle EXCEPT !.at = "commit",
                                                  !.p = Nth(owned[c], Asked(c))]]
          /\ UNCHANGED <<hand, offset, last>>
  /\ UNCHANGED <<logVars, committed, owned, stored, dropped, faults, crashes>>

\* Fault: an empty partition ends the call, the next one asks it again.
ReadPartitionOnce(c) ==
  /\ pc[c].at = "idle" /\ owned[c] # {} /\ Answer(c) # {}
  /\ Take(c)
  /\ UNCHANGED <<logVars, committed, owned, stored, dropped, faults, crashes>>

\* ConsumeMessages asks until one partition answers with messages.
ReadPartition(c) ==
  /\ pc[c].at = "idle" /\ owned[c] # {}
  /\ \/ Answer(c) # {} /\ Take(c) /\ Works
     \/ /\ IF Answer(c) = {} THEN Works ELSE Fail
        /\ pc' = [pc EXCEPT ![c].tried = (@ + 1) % Cardinality(owned[c])]
        /\ UNCHANGED <<hand, offset, last>>
  /\ UNCHANGED <<logVars, committed, owned, stored, dropped, crashes>>

\* Fault: the offset committed is that of the first message read.
CommitFirst(c) ==
  /\ pc[c].at = "commit"
  /\ committed' = [committed EXCEPT ![pc[c].p] = hand[c][1][3]]
  /\ pc' = [pc EXCEPT ![c] = [Idle EXCEPT !.at = "write"]]
  /\ UNCHANGED <<logVars, owned, offset, last, hand, stored, dropped, faults, crashes>>

\* The offset of the last message read is put into etcd; an error is logged,
\* also when the put was applied.
CommitOffset(c) ==
  LET Put == committed' = [committed EXCEPT ![pc[c].p] = pc[c].lastOffset] IN
  /\ pc[c].at = "commit"
  /\ \/ Put /\ Works
     \/ (Put \/ UNCHANGED committed) /\ Fail
  /\ pc' = [pc EXCEPT ![c] = [Idle EXCEPT !.at = "write"]]
  /\ UNCHANGED <<logVars, owned, offset, last, hand, stored, dropped, crashes>>

\* Fault: a failed write ends the round, the rest of the batch is forgotten.
WriteMetricAbandoning(c) ==
  /\ pc[c].at = "write"
  /\ \/ stored' = stored \union {Head(hand[c])} /\ Works /\ UNCHANGED dropped
        /\ hand' = [hand EXCEPT ![c] = Tail(@)]
     \/ dropped' = dropped \union {Head(hand[c])} /\ Fail /\ UNCHANGED stored
        /\ hand' = [hand EXCEPT ![c] = <<>>]
  /\ pc' = [pc EXCEPT ![c].at = IF hand'[c] = <<>> THEN "idle" ELSE "write"]
  /\ UNCHANGED <<logVars, committed, owned, offset, last, crashes>>

\* collectAndSend writes the messages one by one; one whose retries are used
\* up is logged and given up.
WriteMetric(c) ==
  LET m == Head(hand[c]) IN
  /\ pc[c].at = "write"
  /\ \/ stored' = stored \union {m} /\ Works /\ UNCHANGED dropped
     \/ dropped' = dropped \union {m} /\ Fail /\ UNCHANGED stored
  /\ hand' = [hand EXCEPT ![c] = Tail(@)]
  /\ pc'   = [pc EXCEPT ![c].at = IF Len(hand[c]) = 1 THEN "idle" ELSE "write"]
  /\ UNCHANGED <<logVars, committed, owned, offset, last, crashes>>

\* The process dies; its successor is a new member without positions.
Crash(c) ==
  /\ crashes < MaxCrashes
  /\ crashes' = crashes + 1
  /\ dropped' = dropped \union {hand[c][i] : i \in 1 .. Len(hand[c])}
  /\ hand'    = [hand EXCEPT ![c] = <<>>]
  /\ owned'   = [owned EXCEPT ![c] = {}]
  /\ offset'  = [offset EXCEPT ![c] = [p \in Partitions |-> 0]]
  /\ last'    = [last EXCEPT ![c] = 0]
  /\ pc'      = [pc EXCEPT ![c] = Idle]
  /\ UNCHANGED <<logVars, committed, stored, faults>>

-----------------------------------------------------------------------------
Init ==
  /\ epoch = 0
  /\ base = [p \in Partitions |-> 0] /\ next = [p \in Partitions |-> 0]
  /\ committed = [p \in Partitions |-> 0]
  /\ owned  = [c \in Consumers |-> {}]
  /\ offset = [c \in Consumers |-> [p \in Partitions |-> 0]]
  /\ last   = [c \in Consumers |-> 0]
  /\ pc     = [c \in Consumers |-> Idle]
  /\ hand   = [c \in Consumers |-> <<>>]
  /\ stored = {} /\ dropped = {}
  /\ stale  = [p \in Partitions |-> 0]
  /\ faults = 0 /\ crashes = 0

Loop(c) == FetchOffset(c) \/ ReadPartition(c) \/ CommitOffset(c) \/ WriteMetric(c)

Next ==
  \/ \E p \in Partitions : Produce(p)
  \/ BrokerRestart
  \/ \E c \in Consumers :
       Loop(c) \/ Crash(c) \/ (\E S \in Shares : JoinGroup(c, S))

Spec == Init /\ [][Next]_vars

\* The loop goes on while the process lives: its ticker fires, calls return or
\* fail.  A consumer that keeps joining is given partitions in the end
\* (UnassignedGetsPartitions of module ConsumerGroup).
FairSpec ==
  /\ Spec
  /\ \A c \in Consumers :
       /\ WF_vars(Loop(c))
       /\ SF_vars(\E S \in Shares \ {{}} : JoinGroup(c, S))
-----------------------------------------------------------------------------
(* Properties.                                                             *)

Stages == {"idle", "offsets", "commit", "write"}

Messages == (0 .. MaxRestarts) \X Partitions \X (0 .. MaxLog)

\* Every variable has its type; a consumer that is to commit or to write holds
\* messages (the fields of MessageBrokerConsumer).
TypeOK ==
  /\ epoch \in 0 .. MaxRestarts
  /\ base \in [Partitions -> Nat] /\ next \in [Partitions -> 0 .. MaxLog]
  /\ committed \in [Partitions -> Nat]
  /\ owned  \in [Consumers -> SUBSET Partitions]
  /\ offset \in [Consumers -> [Partitions -> Nat]]
  /\ last   \in [Consumers -> Nat]
  /\ pc     \in [Consumers -> [at : Stages, todo : SUBSET Partitions, tried : Nat,
                               p : Nat, lastOffset : Nat]]
  /\ hand   \in [Consumers -> Seq(Messages)]
  /\ stored \subseteq Messages /\ dropped \subseteq Messages
  /\ stale  \in [Partitions -> Nat]
  /\ faults \in 0 .. MaxFaults /\ crashes \in 0 .. MaxCrashes
  /\ \A c \in Consumers : pc[c].at \in {"commit", "write"} <=> hand[c] # <<>>

InHand(m) == \E c \in Consumers : \E i \in 1 .. Len(hand[c]) : hand[c][i] = m

Settled(p, off) == off < base[p] \/ Msg(p, off) \in stored \union dropped

\* No message of a partition is passed over: below every position, of a
\* consumer or in etcd, each message is in the database, in the hands of a
\* consumer, or known to be lost (trimmed, write failed, consumer crashed),
\* although consumers share partitions, restart from older commits and overtake
\* each other's commits.  Of the messages after a broker restart this holds from
\* the positions held at the restart on (ConsumeMessages, CommitOffset).
NothingSkipped ==
  \A p \in Partitions : \A off \in stale[p] .. (next[p] - 1) :
    (\E pos \in Positions(p) : off < pos) => Settled(p, off) \/ InHand(Msg(p, off))

\* A consumer that starts again reads at most one message again per partition
\* that already reached the database, as long as one consumer holds the
\* partition and no call failed: the commit names the last message read
\* (CommitOffset of the last offset, not the next).
ReplayAtMostOne ==
  faults = 0 => \A p \in Partitions :
    Cardinality({off \in committed[p] .. MaxLog : Msg(p, off) \in stored}) <= 1

\* Every message produced reaches the database in the end or is known to be
\* lost, with collectors that crash and reads that fail; no partition is starved
\* by the others (lastReadIndex).
EveryMessageSettles ==
  \A p \in Partitions, off \in 0 .. (MaxLog - 1) : (next[p] > off) ~> Settled(p, off)
=============================================================================

----------------------------- MODULE LibConsumer -----------------------------
(***************************************************************************)
(* The consumer of the client library (pkg/client/consumer.go) on one      *)
(* topic: cmd/consumer polls it; Seek, Assign and Close may come from      *)
(* other goroutines at any time.  assignmentMu is held for moments and is  *)
(* part of the actions; offsetMu is held for a whole Poll.                 *)
(*                                                                         *)
(* A message is its offset.  The broker may restart, and then has no       *)
(* message of the partition.  A topic that is being created is removed     *)
(* again when it cannot be registered in etcd; the handler of a metadata   *)
(* request (cmd/broker) reads the topic and then one partition after the   *)
(* other, under a lock of its own each.                                    *)
(*                                                                         *)
(* Left out: the heartbeat and commit goroutines, which change nothing     *)
(* that is read (CommitSync sends nothing), GetPosition, GetMetrics.       *)
(* Assign writes c.offsets without offsetMu, which Go may answer with a    *)
(* fatal error; here the write just happens.                               *)
(***************************************************************************)
EXTENDS Integers, FiniteSets

CONSTANTS
  TopicPartitions,  \* the partitions of the topic
  MaxPollRecords,   \* config.MaxPollRecords
  MaxFetches,       \* attempts at the topic's metadata, 30 in the code
  AutoCommit,       \* config.EnableAutoCommit
  SeekOffsets,      \* offsets given to Seek and Assign
  MaxStored,        \* bound: messages of a partition
  MaxErrors         \* bound: failed calls and restarts of the broker

ASSUME LibConsumerAssumption ==
  /\ TopicPartitions \subseteq Nat
  /\ MaxPollRecords \in Nat \ {0} /\ MaxFetches \in Nat \ {0}
  /\ AutoCommit \in BOOLEAN /\ SeekOffsets \subseteq Nat
  /\ MaxStored \in Nat /\ MaxErrors \in Nat

VARIABLES
  topicIs,     \* "absent", "creating" at the broker, "elsewhere" (only in etcd) or "known"
  stored,      \* messages the broker has of each partition
  consumer,    \* "new", "open", "failed" or "closed"
  fetches,     \* attempts at the metadata
  fetch,       \* the metadata request in progress, or NoFetch
  assigned,    \* c.assignments
  position,    \* c.offsets
  poll,        \* the Poll in progress, or NoPoll
  errors,
  expected,    \* ghost: what a partition's next message is to be
  raced        \* ghost: partitions that Assign moved while Poll asked for them

lcVars == <<topicIs, stored, consumer, fetches, fetch, assigned, position, poll,
            errors, expected, raced>>

\* left and got: the partitions to be looked up and those found; gone: the topic was
\* removed since the request found it.
NoFetch == [at |-> "none", left |-> {}, got |-> {}, gone |-> FALSE]

NoPoll == [at |-> "none", left |-> {}, p |-> {}, from |-> 0, taken |-> 0]

Err   == errors < MaxErrors /\ errors' = errors + 1
NoErr == UNCHANGED errors

OffsetsFree == poll.at \in {"none", "lock"}

Least(a, b) == IF a <= b THEN a ELSE b

ghosts == <<expected, raced>>

-----------------------------------------------------------------------------
(* The broker.                                                             *)

AtBroker == topicIs \in {"creating", "known"}

\* What happens to the topic when the broker forgets it.
Forgotten == IF topicIs \in {"known", "elsewhere"} THEN "elsewhere" ELSE "absent"

\* The topic is created, here or at another broker.
TopicAppears ==
  /\ topicIs = "absent" /\ topicIs' \in {"creating", "elsewhere"}
  /\ UNCHANGED <<stored, consumer, fetches, fetch, assigned, position, poll, errors>>
  /\ UNCHANGED ghosts

\* Its creation ends well, or another request synchronises it.
TopicKnown ==
  /\ topicIs \in {"creating", "elsewhere"} /\ topicIs' = "known"
  /\ UNCHANGED <<stored, consumer, fetches, fetch, assigned, position, poll, errors>>
  /\ UNCHANGED ghosts

\* The creation fails; in etcd may be another broker's, or what it wrote itself before
\* an answer got lost.
TopicRemoved ==
  /\ topicIs = "creating" /\ topicIs' \in {"absent", "elsewhere"} /\ Err
  /\ stored' = [p \in TopicPartitions |-> 0]
  /\ fetch' = [fetch EXCEPT !.gone = fetch.at = "asked"]
  /\ UNCHANGED <<consumer, fetches, assigned, position, poll>> /\ UNCHANGED ghosts

MessageArrives(p) ==
  /\ AtBroker /\ stored[p] < MaxStored
  /\ stored' = [stored EXCEPT ![p] = @ + 1]
  /\ UNCHANGED <<topicIs, consumer, fetches, fetch, assigned, position, poll, errors>>
  /\ UNCHANGED ghosts

\* A request under way fails, and a topic that is not in etcd is gone.
BrokerRestarts ==
  /\ Err /\ stored' = [p \in TopicPartitions |-> 0]
  /\ topicIs' = Forgotten
  /\ consumer' = IF fetch.at = "asked" THEN "failed" ELSE consumer
  /\ fetch' = NoFetch
  /\ UNCHANGED <<fetches, assigned, position, poll>> /\ UNCHANGED ghosts

-----------------------------------------------------------------------------
(* The consumer.                                                           *)

\* Fault: after the last attempt the consumer starts without partitions.
RetriedGivingUp == IF fetches + 1 < MaxFetches THEN "new" ELSE "open"

\* The consumer after an attempt that did not find the topic: another one follows
\* after a second, but the last one makes NewConsumer fail.
Retried == IF fetches + 1 < MaxFetches THEN "new" ELSE "failed"

\* NewConsumer: fetchAndAssignPartitions asks for the topic's metadata.  The broker
\* knows the topic or finds it in etcd, if it can read there; any error but "topic not
\* found" makes NewConsumer fail.
FetchMetadata ==
  /\ consumer = "new" /\ fetch.at = "none" /\ fetches' = fetches + 1
  /\ \/ /\ topicIs # "absent" /\ NoErr /\ UNCHANGED consumer
        /\ topicIs' = IF topicIs = "elsewhere" THEN "known" ELSE topicIs
        /\ fetch' = [NoFetch EXCEPT !.at = "asked", !.left = TopicPartitions]
     \/ /\ \/ topicIs = "absent" /\ NoErr
           \/ topicIs = "elsewhere" /\ Err
        /\ consumer' = Retried /\ UNCHANGED <<topicIs, fetch>>
     \/ Err /\ consumer' = "failed" /\ UNCHANGED <<topicIs, fetch>>
  /\ UNCHANGED <<stored, assigned, position, poll>> /\ UNCHANGED ghosts

\* The handler looks up the next partition, and leaves out one that is not there.
LookUpPartition(p) ==
  /\ p \in fetch.left /\ \A q \in fetch.left : p <= q
  /\ fetch' = [fetch EXCEPT !.left = @ \ {p},
                            !.got = IF AtBroker THEN @ \union {p} ELSE @]
  /\ UNCHANGED <<topicIs, stored, consumer, fetches, assigned, position, poll, errors>>
  /\ UNCHANGED ghosts

\* Fault: the last partition is left out.
AssignAllButLast ==
  /\ fetch.at = "asked" /\ Cardinality(fetch.left) <= 1 /\ fetch' = NoFetch
  /\ NoErr /\ consumer' = "open" /\ assigned' = fetch.got
  /\ position' = [p \in TopicPartitions |-> IF p \in fetch.got THEN 0 ELSE position[p]]
  /\ UNCHANGED <<topicIs, stored, fetches, poll>> /\ UNCHANGED ghosts

\* The consumer takes every partition of the answer, from offset 0.
FetchAndAssign ==
  /\ fetch.at = "asked" /\ fetch.left = {} /\ fetch' = NoFetch
  /\ \/ /\ NoErr /\ consumer' = "open" /\ assigned' = fetch.got
        /\ position' = [p \in TopicPartitions |->
                          IF p \in fetch.got THEN 0 ELSE position[p]]
     \/ Err /\ consumer' = "failed" /\ UNCHANGED <<assigned, position>>
  /\ UNCHANGED <<topicIs, stored, fetches, poll>> /\ UNCHANGED ghosts

\* Poll looks at the assignments, ...
Poll ==
  /\ consumer = "open" /\ poll = NoPoll
  /\ poll' = [NoPoll EXCEPT !.at = "lock", !.left = assigned]
  /\ UNCHANGED <<topicIs, stored, consumer, fetches, fetch, assigned, position, errors>>
  /\ UNCHANGED ghosts

\* ... locks the offsets ...
LockOffsets ==
  /\ poll.at = "lock"
  /\ poll' = [poll EXCEPT !.at = "next"]
  /\ UNCHANGED <<topicIs, stored, consumer, fetches, fetch, assigned, position, errors>>
  /\ UNCHANGED ghosts

\* ... and asks for one partition after the other, in any order, until it has
\* MaxPollRecords.
ConsumeMessages(p) ==
  /\ poll.at = "next" /\ p \in poll.left /\ poll.taken < MaxPollRecords
  /\ poll' = [poll EXCEPT !.at = "asked", !.p = {p}, !.left = @ \ {p},
                          !.from = IF position[p] = -1 THEN 0 ELSE position[p]]
  /\ UNCHANGED <<topicIs, stored, consumer, fetches, fetch, assigned, position, errors>>
  /\ UNCHANGED ghosts

\* Fault: every request may bring MaxPollRecords messages.
RecordsArriveUnlimited(p) ==
  LET n == Least(MaxPollRecords, stored[p] - poll.from) IN
  /\ poll.at = "asked" /\ poll.p = {p}
  /\ IF consumer = "open" /\ n > 0
     THEN /\ poll' = [poll EXCEPT !.at = "next", !.taken = @ + n]
          /\ position' = [position EXCEPT ![p] = poll.from + n]
          /\ expected' = [expected EXCEPT ![p] = poll.from + n]
     ELSE /\ poll' = [poll EXCEPT !.at = "next"]
          /\ UNCHANGED <<position, expected>>
  /\ raced' = raced \ {p}
  /\ UNCHANGED <<topicIs, stored, consumer, fetches, fetch, assigned, errors>>

\* The messages from the offset asked for, at most as many as are still wanted,
\* move the position behind the last one.  A failed call is passed over; after
\* Close every call fails.
RecordsArrive(p) ==
  LET n == Least(MaxPollRecords - poll.taken, stored[p] - poll.from) IN
  /\ poll.at = "asked" /\ poll.p = {p}
  /\ \/ /\ consumer = "open" /\ n > 0 /\ NoErr
        /\ poll' = [poll EXCEPT !.at = "next", !.taken = @ + n]
        /\ position' = [position EXCEPT ![p] = poll.from + n]
        /\ expected' = [expected EXCEPT ![p] = poll.from + n]
     \/ /\ IF consumer = "open" /\ n > 0 THEN Err ELSE NoErr
        /\ poll' = [poll EXCEPT !.at = "next"]
        /\ UNCHANGED <<position, expected>>
  /\ raced' = raced \ {p}
  /\ UNCHANGED <<topicIs, stored, consumer, fetches, fetch, assigned>>

PollReturns ==
  /\ poll.at = "next" /\ (poll.left = {} \/ poll.taken >= MaxPollRecords)
  /\ poll' = NoPoll
  /\ UNCHANGED <<topicIs, stored, consumer, fetches, fetch, assigned, position, errors>>
  /\ UNCHANGED ghosts

\* Fault: Seek does not wait for a Poll.
SeekAtOnce(p, o) ==
  /\ consumer \in {"open", "closed"}
  /\ position' = [position EXCEPT ![p] = o]
  /\ expected' = [expected EXCEPT ![p] = o]
  /\ raced' = raced \ {p}
  /\ UNCHANGED <<topicIs, stored, consumer, fetches, fetch, assigned, poll, errors>>

Seek(p, o) ==
  /\ consumer \in {"open", "closed"} /\ OffsetsFree
  /\ position' = [position EXCEPT ![p] = o]
  /\ expected' = [expected EXCEPT ![p] = o]
  /\ raced' = raced \ {p}
  /\ UNCHANGED <<topicIs, stored, consumer, fetches, fetch, assigned, poll, errors>>

\* Assign replaces the assignments and sets their offsets, also during a Poll,
\* which goes on with the ones it has.
Assign(S, o) ==
  /\ consumer \in {"open", "closed"} /\ S # {}
  /\ assigned' = S
  /\ position' = [p \in TopicPartitions |-> IF p \in S THEN o ELSE position[p]]
  /\ expected' = [p \in TopicPartitions |-> IF p \in S THEN o ELSE expected[p]]
  /\ raced' = (raced \ S) \union (IF poll.at = "asked" THEN S \intersect poll.p ELSE {})
  /\ UNCHANGED <<topicIs, stored, consumer, fetches, fetch, poll, errors>>

\* Close commits first if it is to, and so waits for a Poll.
CloseConsumer ==
  /\ consumer = "open" /\ (AutoCommit => OffsetsFree)
  /\ consumer' = "closed"
  /\ UNCHANGED <<topicIs, stored, fetches, fetch, assigned, position, poll, errors>>
  /\ UNCHANGED ghosts

LibConsumerInit ==
  /\ topicIs = "absent" /\ stored = [p \in TopicPartitions |-> 0]
  /\ consumer = "new" /\ fetches = 0 /\ fetch = NoFetch /\ assigned = {}
  /\ position = [p \in TopicPartitions |-> -1] /\ poll = NoPoll /\ errors = 0
  /\ expected = [p \in TopicPartitions |-> 0] /\ raced = {}

LibConsumerNext ==
  \/ TopicAppears \/ TopicKnown \/ TopicRemoved \/ BrokerRestarts
  \/ FetchMetadata \/ FetchAndAssign
  \/ Poll \/ LockOffsets \/ PollReturns \/ CloseConsumer
  \/ \E p \in TopicPartitions :
       \/ MessageArrives(p) \/ LookUpPartition(p)
       \/ ConsumeMessages(p) \/ RecordsArrive(p)
       \/ \E o \in SeekOffsets : Seek(p, o)
  \/ \E S \in SUBSET TopicPartitions, o \in SeekOffsets : Assign(S, o)

LibConsumerSpec == LibConsumerInit /\ [][LibConsumerNext]_lcVars

-----------------------------------------------------------------------------
(* Properties.                                                             *)

\* Every variable has its type, and a Poll never takes more than MaxPollRecords.
LibConsumerTypeOK ==
  /\ topicIs \in {"absent", "creating", "elsewhere", "known"}
  /\ stored \in [TopicPartitions -> 0 .. MaxStored]
  /\ consumer \in {"new", "open", "failed", "closed"} /\ fetches \in 0 .. MaxFetches
  /\ fetch \in [at : {"none", "asked"}, left : SUBSET TopicPartitions,
                got : SUBSET TopicPartitions, gone : BOOLEAN]
  /\ assigned \subseteq TopicPartitions /\ raced \subseteq TopicPartitions
  /\ position \in [TopicPartitions -> Int] /\ expected \in [TopicPartitions -> Nat]
  /\ poll \in [at : {"none", "lock", "next", "asked"}, left : SUBSET TopicPartitions,
               p : SUBSET TopicPartitions, from : Nat, taken : 0 .. MaxPollRecords]
  /\ errors \in 0 .. MaxErrors

\* NewConsumer returns.
Opens == consumer = "new" /\ consumer' = "open"

\* A consumer that NewConsumer returns has every partition of the topic, however late
\* the topic appeared, whatever attempt found it and whatever was created and removed
\* before (fetchAndAssignPartitions), unless the topic was removed while the broker
\* put the answer together.
OpensWithAll == Opens => assigned' = TopicPartitions \/ fetch.gone

\* A partition is read on from where the last message, Seek or Assign left it:
\* no answer to an earlier request moves the position back, and none is skipped.
\* Assign alone may be undone, by a Poll in progress (it does not take offsetMu).
ReadsOn ==
  \A p \in TopicPartitions :
    poll.at = "asked" /\ poll.p = {p} /\ poll'.taken > poll.taken
      => poll.from = expected[p] \/ p \in raced

\* A consumer starts with every partition, and reads each on where it should.
ReadsSound == [][OpensWithAll /\ ReadsOn]_lcVars
=============================================================================

---------------------------- MODULE PartitionChoice ----------------------------
(***************************************************************************)
(* The partition of each message in sendBatch of the streaming producer    *)
(* (telemetry-streaming/pkg/producer/producer.go), which module Producer   *)
(* leaves out: the counter sentMessages plus the index in the batch,       *)
(* modulo the number of partitions.  The counter advances inside the loop, *)
(* so a successful call goes on by two partitions and a failed one by one. *)
(* Only the holder of batchMu sends.  What the counter counts matters      *)
(* modulo the number of partitions only.                                   *)
(*                                                                         *)
(* Before that, ensureTopicExists creates the topic or finds that it       *)
(* exists, which counts as created whatever its number of partitions, and  *)
(* although another client's creation may still be rolled back (module     *)
(* Broker; a creation that is answered with success is not).               *)
(***************************************************************************)
EXTENDS Naturals, FiniteSets

CONSTANTS
  PartitionNumbers,  \* values of config.NumPartitions
  BatchLimit         \* bound: messages in a batch

ASSUME PartitionChoiceAssumption ==
  PartitionNumbers \subseteq Nat \ {0} /\ BatchLimit \in Nat \ {0}

VARIABLES
  numPartitions,  \* config.NumPartitions
  sentMessages,   \* p.sentMessages modulo numPartitions
  size,           \* messages of the batch
  index,          \* i of the loop
  failCount,      \* failed calls of this attempt
  there,          \* partitions of the topic at the broker, 0 if there is none
  topic,          \* "unknown", or why topicCreated is set: "made" or "found"
  tried,          \* ghost: the partitions this attempt has sent to
  turnedAway      \* ghost: a call failed for want of its partition

topicVars  == <<there, topic>>
choiceVars == <<numPartitions, sentMessages, size, index, failCount, there, topic, tried,
                turnedAway>>

Chosen == (sentMessages + index) % numPartitions

-----------------------------------------------------------------------------
\* Another client creates the topic, with any number of partitions, or its creation
\* fails and is rolled back.
OtherCreates ==
  /\ there = 0 /\ there' \in PartitionNumbers
  /\ UNCHANGED <<numPartitions, sentMessages, size, index, failCount, topic, tried, turnedAway>>

OtherRollsBack ==
  /\ there > 0 /\ topic # "made" /\ there' = 0
  /\ UNCHANGED <<numPartitions, sentMessages, size, index, failCount, topic, tried, turnedAway>>

\* Fault: a creation that failed counts as done.
EnsureTopicOnAnyError ==
  /\ topic = "unknown" /\ topic' = "made"
  /\ there' \in IF there = 0 THEN {0, numPartitions} ELSE {there}
  /\ UNCHANGED <<numPartitions, sentMessages, size, index, failCount, tried, turnedAway>>

\* ensureTopicExists, by Start or by sendBatch: the topic is created, or "already
\* exists".  (After another error nothing has changed, and the attempt has failed.)
ensureTopicExists ==
  /\ topic = "unknown"
  /\ \/ there = 0 /\ there' = numPartitions /\ topic' = "made"
     \/ there > 0 /\ topic' = "found" /\ UNCHANGED there
  /\ UNCHANGED <<numPartitions, sentMessages, size, index, failCount, tried, turnedAway>>

\* A batch, or another attempt with the one before.
StartBatch ==
  /\ topic # "unknown" /\ index = size
  /\ IF failCount > 0 THEN UNCHANGED size ELSE size' \in 1 .. BatchLimit
  /\ index' = 0 /\ failCount' = 0 /\ tried' = {}
  /\ UNCHANGED <<numPartitions, sentMessages, topicVars, turnedAway>>

\* Fault: the message counts twice.
ProduceToCountingTwice ==
  /\ index < size
  /\ tried' = tried \union {Chosen} /\ index' = index + 1
  /\ turnedAway' = (turnedAway \/ Chosen >= there)
  /\ \/ Chosen < there /\ sentMessages' = (sentMessages + 2) % numPartitions
        /\ UNCHANGED failCount
     \/ failCount' = failCount + 1 /\ UNCHANGED sentMessages
  /\ UNCHANGED <<numPartitions, size, topicVars>>

\* One ProduceMessage call to the chosen partition.
ProduceTo ==
  /\ index < size
  /\ tried' = tried \union {Chosen} /\ index' = index + 1
  /\ turnedAway' = (turnedAway \/ Chosen >= there)
  /\ \/ Chosen < there /\ sentMessages' = (sentMessages + 1) % numPartitions
        /\ UNCHANGED failCount
     \/ failCount' = failCount + 1 /\ UNCHANGED sentMessages
  /\ UNCHANGED <<numPartitions, size, topicVars>>

ChoiceInit ==
  /\ numPartitions \in PartitionNumbers
  /\ sentMessages = 0 /\ size = 0 /\ index = 0 /\ failCount = 0 /\ tried = {}
  /\ there = 0 /\ topic = "unknown" /\ turnedAway = FALSE

ChoiceNext ==
  \/ OtherCreates \/ OtherRollsBack \/ ensureTopicExists
  \/ StartBatch \/ ProduceTo

-----------------------------------------------------------------------------
(* Properties.                                                             *)

\* A batch with at least as many messages as there are partitions reaches at least
\* half of them, whatever calls fail, and all of them if their number is odd and no
\* call fails (sendBatch).  With an even number, batches of even size, such as the
\* default 50 messages on 10 partitions, never reach the other half as long as no
\* call fails.
BatchReachesHalf ==
  (index = size /\ size >= numPartitions) =>
    /\ 2 * Cardinality(tried) >= numPartitions
    /\ (failCount = 0 /\ numPartitions % 2 = 1) => tried = 0 .. numPartitions - 1

\* A producer that made the topic itself never sends to a partition that is not there;
\* one that found it, or a creation still under way, may do so for ever
\* (ensureTopicExists, whose answer is never looked at again).
OwnTopicTakesAll == turnedAway => topic = "found"
=============================================================================

----------------------------- MODULE LibProducer -----------------------------
(***************************************************************************)
(* The producer of the client library (pkg/client/producer.go), called by  *)
(* any number of goroutines; cmd/producer is one that calls SendSync.      *)
(* AutoCreateTopics is on, as in cmd/producer.                             *)
(*                                                                         *)
(* A record is its number; all are for one topic and one partition: Send   *)
(* asks the partitioner for one of 1 partition, which is always 0.  A call *)
(* to the broker fails before or after it takes effect, and a request can  *)
(* be on its way when its caller has given up.                             *)
(*                                                                         *)
(* The broker is the first of the addresses; its handlers (cmd/broker,     *)
(* module Broker) are here as far as the producer meets them: a topic is   *)
(* in the broker's memory, in etcd, or both, and a creation that cannot    *)
(* register it in etcd removes it from memory again.                       *)
(*                                                                         *)
(* Left out: restarts of the broker (module Broker has them), sequence     *)
(* numbers, Retries, Acks and the rest of the configuration that nothing   *)
(* reads, GetMetrics, which counts nothing.                                *)
(***************************************************************************)
EXTENDS Integers, Sequences, FiniteSets, SequencesExt

CONSTANTS
  Senders,       \* goroutines that send
  Waiting,       \* those of them that use SendSync
  LibBatchSize,  \* config.BatchSize
  MaxSends,      \* bound: records sent
  MaxLost        \* bound: failed calls, exceeded timeouts, creations by other clients

ASSUME LibProducerAssumption ==
  /\ Waiting \subseteq Senders
  /\ LibBatchSize \in Nat \ {0} /\ MaxSends \in Nat /\ MaxLost \in Nat

VARIABLES
  created,      \* p.createdTopics has the topic
  local,        \* the broker has the topic in memory
  registered,   \* etcd has it
  creating,     \* whose call is between the two: a record's, or 0 of nobody here
  topicLog,     \* what the broker appended
  dropped,      \* ghost: the records in topics that a failed creation removed
  undone,       \* ghost: a creation was undone and left the topic nowhere
  pending,      \* p.batch
  closing,      \* how far Close is
  record,       \* what has become of each record sent
  sends,        \* records so far
  lost

lpVars == <<created, local, registered, creating, topicLog, dropped, undone, pending,
            closing, record, sends, lost>>
brokerTopic == <<local, registered, creating, topicLog, dropped, undone>>

Unsent == [by |-> {}, sync |-> FALSE, at |-> "none", wire |-> "none",
           callback |-> "none", result |-> "none"]

Connected == closing \in {"open", "flushed"}
Closed    == closing = "closed"

Lose  == lost < MaxLost /\ lost' = lost + 1
Keep  == UNCHANGED lost

At(r, stage) == [record EXCEPT ![r].at = stage]

\* Send has done its part: SendSync waits for the callback.
Sent(r) == IF record[r].sync THEN "wait" ELSE "returned"

-----------------------------------------------------------------------------
\* Send, or SendSync up to its call of Send.
SendRecord(s) ==
  /\ sends < MaxSends /\ ~Closed
  /\ \A r \in 1 .. sends : record[r].by = {s} => record[r].at = "returned"
  /\ sends' = sends + 1
  /\ record' = [record EXCEPT ![sends + 1] =
                  [Unsent EXCEPT !.by = {s}, !.sync = s \in Waiting,
                                 !.at = IF s \in Waiting THEN "enter" ELSE "ensure"]]
  /\ UNCHANGED brokerTopic /\ UNCHANGED <<created, pending, closing, lost>>

\* Send finds the producer closed meanwhile; SendSync ignores the error and
\* waits for a callback that will not come.
EnterSend(r) ==
  /\ record[r].at = "enter"
  /\ record' = At(r, IF Closed THEN "wait" ELSE "ensure")
  /\ UNCHANGED brokerTopic /\ UNCHANGED <<created, pending, closing, sends, lost>>

\* Fault: the topic counts as created before it is.
EnsureTopicEarly(r) ==
  /\ record[r].at = "ensure"
  /\ record' = At(r, IF created THEN "append" ELSE "create")
  /\ created' = TRUE
  /\ UNCHANGED brokerTopic /\ UNCHANGED <<pending, closing, sends, lost>>

\* ensureTopicExists looks at createdTopics and releases topicMu, ...
EnsureTopic(r) ==
  /\ record[r].at = "ensure"
  /\ record' = At(r, IF created THEN "append" ELSE "create")
  /\ UNCHANGED brokerTopic /\ UNCHANGED <<created, pending, closing, sends, lost>>

\* What the caller of CreateTopic does in the end: "already exists" counts as success,
\* and the topic is noted.  Another error goes to the callback, and Send returns none.
TopicFound(c) ==
  IF c = 0 THEN UNCHANGED <<created, record>>
           ELSE created' = TRUE /\ record' = At(c, "append")

\* Fault: any error is taken for "already exists".
TopicErrorIgnored(c) ==
  IF c = 0 THEN UNCHANGED <<created, record>>
           ELSE created' = TRUE /\ record' = At(c, "append")

\* An error of CreateTopic: nothing is noted, and the record goes to its callback.
TopicError(c) ==
  /\ record' = IF c = 0 THEN record
               ELSE [record EXCEPT ![c].at = Sent(c), ![c].callback = "error"]
  /\ UNCHANGED created

\* ... calls CreateTopic, where the handler creates a topic that is not in memory.
CreateLibTopic(r) ==
  /\ record[r].at = "create"
  /\ \/ /\ Connected /\ local /\ Keep
        /\ TopicFound(r) /\ UNCHANGED <<local, creating>>
     \/ /\ Connected /\ ~local /\ Keep
        /\ local' = TRUE /\ creating' = {r}
        /\ record' = At(r, "creating") /\ UNCHANGED created
     \/ /\ IF Connected THEN Lose ELSE Keep
        /\ TopicError(r) /\ UNCHANGED <<local, creating>>
  /\ UNCHANGED <<registered, topicLog, dropped, undone, pending, closing, sends>>

\* The call of r fails while its handler goes on.
CreationAbandoned(r) ==
  /\ record[r].at = "creating"
  /\ IF Connected THEN Lose ELSE Keep
  /\ creating' = {0} /\ TopicError(r)
  /\ UNCHANGED <<local, registered, topicLog, dropped, undone, pending, closing, sends>>

\* The handler removes the topic it created, with whatever was appended to it.
DeleteTopic ==
  /\ local' = FALSE /\ topicLog' = <<>>
  /\ dropped' = dropped \union ToSet(topicLog)
  /\ undone' = (undone \/ ~registered')

\* The handler registers its topic.  When another broker has, or etcd fails or its
\* answer is lost, it removes its own again.  Failures of others' calls cost nothing.
RegisterLibTopic(c) ==
  /\ c \in creating /\ creating' = {}
  /\ \/ /\ ~registered /\ registered' = TRUE /\ Keep
        /\ TopicFound(c) /\ UNCHANGED <<local, topicLog, dropped, undone>>
     \/ /\ registered /\ UNCHANGED registered /\ Keep
        /\ TopicFound(c) /\ DeleteTopic
     \/ /\ registered' \in {registered, TRUE} /\ (IF c = 0 THEN Keep ELSE Lose)
        /\ TopicError(c) /\ DeleteTopic
  /\ UNCHANGED <<pending, closing, sends>>

\* Fault: a batch is full when it has more than BatchSize records.
AppendPastFull(r) ==
  /\ record[r].at = "append"
  /\ pending' = Append(pending, r)
  /\ record' = [record EXCEPT ![r].at = IF Len(pending) + 1 > LibBatchSize
                                        THEN "flush" ELSE Sent(r),
                              ![r].wire = "start"]
  /\ UNCHANGED brokerTopic /\ UNCHANGED <<created, closing, sends, lost>>

\* The record joins the batch and a goroutine starts that sends it.
AppendRecord(r) ==
  /\ record[r].at = "append"
  /\ pending' = Append(pending, r)
  /\ record' = [record EXCEPT ![r].at = IF Len(pending) + 1 >= LibBatchSize
                                        THEN "flush" ELSE Sent(r),
                              ![r].wire = "start"]
  /\ UNCHANGED brokerTopic /\ UNCHANGED <<created, closing, sends, lost>>

\* Flush discards the batch.
FlushBatch(r) ==
  /\ record[r].at = "flush"
  /\ pending' = <<>> /\ record' = At(r, Sent(r))
  /\ UNCHANGED brokerTopic /\ UNCHANGED <<created, closing, sends, lost>>

\* Fault: SendSync returns when Send does.
SendSyncAtOnce(r) ==
  /\ record[r].at = "wait"
  /\ record' = [record EXCEPT ![r].at = "returned", ![r].result = "ok"]
  /\ UNCHANGED brokerTopic /\ UNCHANGED <<created, pending, closing, sends, lost>>

\* SendSync returns what the callback was told, or gives up waiting.
SendSyncReturns(r) ==
  /\ record[r].at = "wait"
  /\ \/ /\ record[r].callback # "none" /\ Keep
        /\ record' = [record EXCEPT ![r].at = "returned",
                                 ![r].result = record[r].callback]
     \/ /\ record[r].callback = "none"
        /\ IF record[r].wire = "none" THEN Keep ELSE Lose
        /\ record' = [record EXCEPT ![r].at = "returned", ![r].result = "timeout"]
  /\ UNCHANGED brokerTopic /\ UNCHANGED <<created, pending, closing, sends>>

-----------------------------------------------------------------------------
(* The record's goroutine, and the broker.                                 *)

\* The goroutine calls ProduceMessage; on a closed connection it fails.
StartProduce(r) ==
  /\ record[r].wire = "start"
  /\ record' = IF Connected THEN [record EXCEPT ![r].wire = "sent"]
               ELSE [record EXCEPT ![r].wire = "lost", ![r].callback = "error"]
  /\ UNCHANGED brokerTopic /\ UNCHANGED <<created, pending, closing, sends, lost>>

\* The broker appends the record.  An append to a topic that is removed between its
\* lookup and its lock is one just before.
StoreRecord(r) ==
  /\ record[r].wire = "sent" /\ local
  /\ topicLog' = Append(topicLog, r)
  /\ record' = [record EXCEPT ![r].wire = "stored"]
  /\ UNCHANGED <<local, registered, creating, dropped, undone>>
  /\ UNCHANGED <<created, pending, closing, sends, lost>>

\* The broker has no such topic, and has found none in etcd: because there is none,
\* or its read failed or came before the registration.
TurnAway(r) ==
  /\ record[r].wire = "sent" /\ ~local
  /\ IF registered THEN Lose ELSE Keep
  /\ record' = [record EXCEPT ![r].wire = "lost",
                              ![r].callback = IF @ = "none" THEN "error" ELSE @]
  /\ UNCHANGED brokerTopic /\ UNCHANGED <<created, pending, closing, sends>>

\* Fault: after an error the goroutine sends the record again.
ProduceRetried(r) ==
  /\ record[r].callback = "none"
  /\ \/ /\ record[r].wire = "stored" /\ Connected /\ Keep
        /\ record' = [record EXCEPT ![r].callback = "ok"]
     \/ /\ record[r].wire \in {"sent", "stored"} /\ Lose
        /\ record' = [record EXCEPT ![r].wire = "sent"]
  /\ UNCHANGED brokerTopic /\ UNCHANGED <<created, pending, closing, sends>>

\* The callback is told the offset, or an error: the call failed, its context
\* expired or the connection was closed, whatever the broker does with it.
ProduceAnswered(r) ==
  /\ record[r].callback = "none"
  /\ \/ /\ record[r].wire = "stored" /\ Connected /\ Keep
        /\ record' = [record EXCEPT ![r].callback = "ok"]
     \/ /\ record[r].wire \in {"sent", "stored"}
        /\ IF Connected THEN Lose ELSE Keep
        /\ record' = [record EXCEPT ![r].callback = "error"]
  /\ UNCHANGED brokerTopic /\ UNCHANGED <<created, pending, closing, sends>>

\* Close flushes, closes the connection and notes that it has.
CloseProducer ==
  /\ ~Closed
  /\ closing' = CASE closing = "open"    -> "flushed"
                  [] closing = "flushed" -> "disconnected"
                  [] OTHER               -> "closed"
  /\ pending' = IF closing = "open" THEN <<>> ELSE pending
  /\ UNCHANGED brokerTopic /\ UNCHANGED <<created, record, sends, lost>>

\* Another client's call creates the topic at this broker, ...
OtherCreates ==
  /\ ~local /\ Lose /\ local' = TRUE /\ creating' = {0}
  /\ UNCHANGED <<registered, topicLog, dropped, undone>>
  /\ UNCHANGED <<created, pending, closing, record, sends>>

\* ... or another broker registers it.
OtherRegisters ==
  /\ ~registered /\ registered' = TRUE
  /\ UNCHANGED <<local, creating, topicLog, dropped, undone>>
  /\ UNCHANGED <<created, pending, closing, record, sends, lost>>

\* syncTopicLocally, in the handlers of any client's requests.
SyncTopic ==
  /\ ~local /\ registered /\ local' = TRUE
  /\ UNCHANGED <<registered, creating, topicLog, dropped, undone>>
  /\ UNCHANGED <<created, pending, closing, record, sends, lost>>

LibProducerInit ==
  /\ created = FALSE /\ local = FALSE /\ registered = FALSE /\ creating = {}
  /\ topicLog = <<>> /\ dropped = {} /\ undone = FALSE
  /\ pending = <<>> /\ closing = "open"
  /\ record = [r \in 1 .. MaxSends |-> Unsent] /\ sends = 0 /\ lost = 0

LibProducerNext ==
  \/ \E s \in Senders : SendRecord(s)
  \/ \E r \in 1 .. sends :
       \/ EnterSend(r) \/ EnsureTopic(r) \/ CreateLibTopic(r) \/ CreationAbandoned(r)
       \/ AppendRecord(r) \/ FlushBatch(r) \/ SendSyncReturns(r)
       \/ StartProduce(r) \/ StoreRecord(r) \/ TurnAway(r) \/ ProduceAnswered(r)
  \/ \E c \in 0 .. MaxSends : RegisterLibTopic(c)
  \/ CloseProducer \/ OtherCreates \/ OtherRegisters \/ SyncTopic

LibProducerSpec == LibProducerInit /\ [][LibProducerNext]_lpVars

-----------------------------------------------------------------------------
(* Properties.                                                             *)

LibRecords == 1 .. MaxSends

\* Every variable has its type, and SendSync returns what the callback was told,
\* or gives up.
LibProducerTypeOK ==
  /\ created \in BOOLEAN /\ local \in BOOLEAN /\ registered \in BOOLEAN
  /\ creating \subseteq 0 .. MaxSends /\ undone \in BOOLEAN
  /\ topicLog \in Seq(LibRecords) /\ dropped \subseteq LibRecords
  /\ pending \in Seq(LibRecords)
  /\ closing \in {"open", "flushed", "disconnected", "closed"}
  /\ record \in [LibRecords ->
       [by : SUBSET Senders, sync : BOOLEAN,
        at : {"none", "enter", "ensure", "create", "creating", "append", "flush",
              "wait", "returned"},
        wire : {"none", "start", "sent", "stored", "lost"},
        callback : {"none", "ok", "error"},
        result : {"none", "ok", "error", "timeout"}]]
  /\ \A r \in LibRecords :
       record[r].result \in {"none", "timeout", record[r].callback}
  /\ sends \in 0 .. MaxSends /\ lost \in 0 .. MaxLost

InLog(r) == \E i \in DOMAIN topicLog : topicLog[i] = r

Position(r) == CHOOSE i \in DOMAIN topicLog : topicLog[i] = r

\* No record is appended twice, although answers get lost and SendSync gives up
\* before the answer (Send sends a record once, whatever Retries says), nor once more
\* after a topic with it was removed.
StoredOnce ==
  /\ \A i, j \in DOMAIN topicLog : i # j => topicLog[i] # topicLog[j]
  /\ \A i \in DOMAIN topicLog : topicLog[i] \notin dropped

\* The records of a goroutine that SendSync returned an offset for are in the
\* log, in the order they were sent, also when one that timed out between them
\* is appended late (SendSync waits for each).  A removed topic takes the earlier ones
\* along: what is left has no gap before it.
AcknowledgedInOrder ==
  \A r, q \in LibRecords :
    record[r].result = "ok" /\ record[q].result = "ok" /\ record[r].by = record[q].by
      => /\ InLog(r) \/ r \in dropped
         /\ r < q => \/ r \in dropped
                     \/ InLog(r) /\ InLog(q) /\ Position(r) < Position(q)

\* A record is sent to a topic that the broker has or finds in etcd, whichever
\* goroutine creates it (ensureTopicExists looks and creates without a lock
\* over both), unless a creation was undone and left the topic nowhere.
TopicBeforeRecords ==
  \A r \in LibRecords : record[r].wire = "sent" => local \/ registered \/ undone

\* The batch does not grow: when no goroutine is on its way to Flush, it has
\* fewer than BatchSize records (Send's check outside batchMu).
BatchDrains ==
  (\A r \in LibRecords : record[r].at # "flush") => Len(pending) < LibBatchSize

\* The four promises of the client library's producer.
SendsSound == StoredOnce /\ AcknowledgedInOrder /\ TopicBeforeRecords /\ BatchDrains
=============================================================================

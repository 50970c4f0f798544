------------------------------- MODULE Broker -------------------------------
(***************************************************************************)
(* The message broker: the gRPC handlers of cmd/broker/main.go (Server)    *)
(* over the in-memory state of pkg/broker/broker.go (BrokerImpl), for      *)
(* several brokers that share the topic metadata kept in etcd.             *)
(*                                                                         *)
(* A handler runs in a goroutine (Threads).  One action is one critical    *)
(* section of the handler: what it does between taking and releasing b.mu  *)
(* or partition.mu, or one call to the coordinator.  Between two actions   *)
(* other handlers run.                                                     *)
(*                                                                         *)
(* Covered: topic creation with its rollback, topic synchronisation,       *)
(* produce with the message cap, fetch, lost coordinator replies, broker   *)
(* crash and restart (all of BrokerImpl's state is in memory).             *)
(* Not covered: message payloads, storage.WriteMessage (its log map is     *)
(* never filled, so it returns an error the handler ignores), int64 and    *)
(* int32 widths of offsets and partition numbers.                          *)
(***************************************************************************)
EXTENDS Integers, Sequences

CONSTANTS
  Brokers,      \* broker processes
  Topics,       \* topic names
  Threads,      \* handler goroutines; each serves one request at a time
  Sizes,        \* NumPartitions a CreateTopic request may carry
  MaxMessages,  \* partition.maxMessages, 1000000 in the code
  FetchFrom,    \* offsets a ConsumeRequest may carry
  FetchMax,     \* MaxMessages of a ConsumeRequest
  MaxEpochs,    \* bound: how often a broker creates one topic in memory
  MaxSent,      \* bound: produce requests
  MaxCrashes,   \* bound: broker crashes
  None          \* stands for "no broker", "no topic"

ASSUME ConstantsAssumption ==
  /\ Sizes \subseteq Nat
  /\ MaxMessages \in Nat \ {0}
  /\ FetchFrom \subseteq Int
  /\ FetchMax \in Int
  /\ MaxEpochs \in Nat /\ MaxSent \in Nat /\ MaxCrashes \in Nat
  /\ None \notin Brokers /\ None \notin Topics

VARIABLES
  meta,     \* coordinator: NumPartitions of each registered topic, or Absent
  placed,   \* coordinator: partitions whose broker assignment was stored
  size,     \* b.topics: NumPartitions of each local topic, or Absent
  epoch,    \* how often this broker created the topic; names the objects below
  part,     \* the Partition objects, reachable or not
  pc,       \* what each handler goroutine is doing
  sent,     \* produce requests so far; also the identity of a message
  crashes,  \* crashes so far
  acks      \* ghost: every offset the brokers handed out

coordVars  == <<meta, placed>>
memoryVars == <<size, epoch, part>>
boundVars  == <<sent, crashes>>
vars       == <<meta, placed, size, epoch, part, pc, sent, crashes, acks>>

Absent == -1

\* Partition numbers of a topic with n partitions.
PartitionsOf(n) == 0 .. (n - 1)

\* Every partition number that can exist at all.
Partitions == UNION {PartitionsOf(n) : n \in Sizes}

(***************************************************************************)
(* A Partition object is allocated when a broker creates a topic in its    *)
(* memory.  <<b, t, e, p>> is partition p of the e-th creation of t at b;  *)
(* b.partitions maps "t-p" to the object of the current epoch.             *)
(***************************************************************************)
Objects == Brokers \X Topics \X (1 .. MaxEpochs) \X Partitions

Message == [Offset : Nat, id : Nat]

PartitionState == [Offset : Nat, messages : Seq(Message)]

NewPartition == [Offset |-> 0, messages |-> <<>>]

Idle == [at |-> "idle", op |-> "none", b |-> None, t |-> None, p |-> 0,
         n |-> 0, e |-> 0, arg |-> 0, reply |-> <<>>]

Stages == {"fetchMeta", "syncCreate", "lookup", "access", "reply",
           "register", "rollback", "assign"}

Requests == [at : Stages, op : {"produce", "consume", "metadata", "create"},
             b : Brokers, t : Topics, p : Int, n : Nat, e : Nat, arg : Int,
             reply : Seq(Message)]

-----------------------------------------------------------------------------
(* Data operations of BrokerImpl.                                          *)

\* Faults, each swapped in for the operator that follows it to show that a
\* property notices: trimming one message too late, ...
AppendTrimmingLate(q, id) ==
  LET ms == Append(q.messages, [Offset |-> q.Offset, id |-> id])
  IN  [Offset   |-> q.Offset + 1,
       messages |-> IF Len(ms) > MaxMessages + 1 THEN Tail(ms) ELSE ms]

\* ... trimming the newest message instead of the oldest, ...
AppendDroppingNewest(q, id) ==
  [Offset   |-> q.Offset + 1,
   messages |-> IF Len(q.messages) = MaxMessages THEN q.messages
                ELSE Append(q.messages, [Offset |-> q.Offset, id |-> id])]

\* ... and an end offset taken from the slice before the append.
AppendWithLengthAsEnd(q, id) ==
  LET ms == Append(q.messages, [Offset |-> q.Offset, id |-> id])
  IN  [Offset   |-> Len(q.messages),
       messages |-> IF Len(ms) > MaxMessages THEN Tail(ms) ELSE ms]

\* ProduceMessage under partition.mu: number the message, append it, keep
\* only the newest maxMessages.
AppendMessage(q, id) ==
  LET ms == Append(q.messages, [Offset |-> q.Offset, id |-> id])
  IN  [Offset   |-> q.Offset + 1,
       messages |-> IF Len(ms) > MaxMessages THEN Tail(ms) ELSE ms]

\* Fault: > where the scan has >=.
FetchAfter(q, from, max) ==
  LET ms   == q.messages
      hits == {i \in 1 .. Len(ms) : ms[i].Offset > from}
  IN  IF hits = {} THEN <<>>
      ELSE LET first == CHOOSE i \in hits : \A j \in hits : i <= j
               last  == first + max - 1
           IN  SubSeq(ms, first, IF last < Len(ms) THEN last ELSE Len(ms))

\* ConsumeMessages under partition.mu: the first max retained messages whose
\* offset is at least from.  Offsets increase along the log (LogContiguous),
\* so the messages the scan keeps are consecutive.
FetchMessages(q, from, max) ==
  LET ms   == q.messages
      hits == {i \in 1 .. Len(ms) : ms[i].Offset >= from}
  IN  IF hits = {} THEN <<>>
      ELSE LET first == CHOOSE i \in hits : \A j \in hits : i <= j
               last  == first + max - 1
           IN  SubSeq(ms, first, IF last < Len(ms) THEN last ELSE Len(ms))

\* Fault: the partitions of an earlier creation are emptied and reused.
CreateLocalInPlace(b, t, n) ==
  LET e == IF epoch[b][t] = 0 THEN 1 ELSE epoch[b][t] IN
  /\ size'  = [size EXCEPT ![b][t] = n]
  /\ epoch' = [epoch EXCEPT ![b][t] = e]
  /\ part'  = [o \in Objects |->
                 IF o[1] = b /\ o[2] = t /\ o[3] = e THEN NewPartition ELSE part[o]]

\* BrokerImpl.CreateTopic for a topic that is not in b.topics.
CreateLocal(b, t, n) ==
  /\ size'  = [size EXCEPT ![b][t] = n]
  /\ epoch' = [epoch EXCEPT ![b][t] = @ + 1]
  /\ part'  = [o \in Objects |->
                 IF /\ o[1] = b /\ o[2] = t
                    /\ o[3] = epoch[b][t] + 1 /\ o[4] \in PartitionsOf(n)
                 THEN NewPartition ELSE part[o]]

\* BrokerImpl.DeleteTopic: the map entries go, a handler that holds a pointer
\* to one of the partitions keeps it.
DeleteLocal(b, t) ==
  /\ size' = [size EXCEPT ![b][t] = Absent]
  /\ UNCHANGED <<epoch, part>>

\* b.partitions[t-p]
InMap(b, t, p) == size[b][t] # Absent /\ p \in PartitionsOf(size[b][t])

-----------------------------------------------------------------------------
(* Request handlers.                                                       *)

GoTo(th, stage) == pc' = [pc EXCEPT ![th].at = stage]
Done(th)        == pc' = [pc EXCEPT ![th] = Idle]

\* Server.syncTopicLocally, first step: GetTopic under b.mu decides whether
\* the coordinator has to be asked.
AfterGetTopic(b, t) == IF size[b][t] # Absent THEN "lookup" ELSE "fetchMeta"

NewRequest(stage, op, b, t, p, n, arg) ==
  [at |-> stage, op |-> op, b |-> b, t |-> t, p |-> p, n |-> n, e |-> 0,
   arg |-> arg, reply |-> <<>>]

Arrive(th, op, b, t, p, arg) ==
  /\ pc[th] = Idle
  /\ pc' = [pc EXCEPT ![th] =
              NewRequest(AfterGetTopic(b, t), op, b, t, p, 0, arg)]

\* ProduceMessage: a negative partition is routed to partition 0.
ProduceMessage(th, b, t, p) ==
  /\ sent < MaxSent
  /\ sent' = sent + 1
  /\ Arrive(th, "produce", b, t, IF p < 0 THEN 0 ELSE p, sent + 1)
  /\ UNCHANGED <<coordVars, memoryVars, crashes, acks>>

ConsumeMessages(th, b, t, p, from) ==
  /\ Arrive(th, "consume", b, t, p, from)
  /\ UNCHANGED <<coordVars, memoryVars, boundVars, acks>>

GetTopicMetadata(th, b, t) ==
  /\ Arrive(th, "metadata", b, t, 0, 0)
  /\ UNCHANGED <<coordVars, memoryVars, boundVars, acks>>

\* Fault: the coordinator's "not found" is taken for an answer.
FetchMetaUnchecked(th) ==
  /\ pc[th].at = "fetchMeta"
  /\ pc' = [pc EXCEPT ![th].at = "syncCreate", ![th].n = meta[pc[th].t]]
  /\ UNCHANGED <<coordVars, memoryVars, boundVars, acks>>

\* syncTopicLocally, second step: the coordinator's metadata, if it has any
\* and answers.
FetchMeta(th) ==
  /\ pc[th].at = "fetchMeta"
  /\ \/ GoTo(th, "lookup")
     \/ /\ meta[pc[th].t] # Absent
        /\ pc' = [pc EXCEPT ![th].at = "syncCreate", ![th].n = meta[pc[th].t]]
  /\ UNCHANGED <<coordVars, memoryVars, boundVars, acks>>

\* syncTopicLocally, third step: CreateTopic, ignoring ErrTopicExists.
SyncCreate(th) ==
  LET r == pc[th] IN
  /\ r.at = "syncCreate"
  /\ IF size[r.b][r.t] = Absent
     THEN /\ epoch[r.b][r.t] < MaxEpochs
          /\ CreateLocal(r.b, r.t, r.n)
     ELSE UNCHANGED memoryVars
  /\ GoTo(th, "lookup")
  /\ UNCHANGED <<coordVars, boundVars, acks>>

\* The partition pointer is read under b.mu and used after it is released.
\* GetTopicMetadata only reads, so its handler ends here; what it answers when a
\* rollback comes between its reads is for LibConsumer, whose client takes it.
Lookup(th) ==
  LET r == pc[th] IN
  /\ r.at = "lookup"
  /\ IF r.op # "metadata" /\ InMap(r.b, r.t, r.p)
     THEN pc' = [pc EXCEPT ![th].at = "access", ![th].e = epoch[r.b][r.t]]
     ELSE Done(th)
  /\ UNCHANGED <<coordVars, memoryVars, boundVars, acks>>

Target(r) == <<r.b, r.t, r.e, r.p>>

\* BrokerImpl.ProduceMessage under partition.mu; the offset is the answer.
AppendToPartition(th) ==
  LET r == pc[th]
      o == Target(r) IN
  /\ r.at = "access" /\ r.op = "produce"
  /\ part' = [part EXCEPT ![o] = AppendMessage(@, r.arg)]
  /\ acks' = acks \union {[obj |-> o, Offset |-> part[o].Offset, id |-> r.arg]}
  /\ Done(th)
  /\ UNCHANGED <<coordVars, size, epoch, boundVars>>

\* BrokerImpl.ConsumeMessages under partition.mu
ReadPartition(th) ==
  LET r == pc[th] IN
  /\ r.at = "access" /\ r.op = "consume"
  /\ pc' = [pc EXCEPT ![th].at = "reply",
                      ![th].reply = FetchMessages(part[Target(r)], r.arg, FetchMax)]
  /\ UNCHANGED <<coordVars, memoryVars, boundVars, acks>>

\* The answer goes out after the lock is released.
SendReply(th) ==
  /\ pc[th].at = "reply"
  /\ Done(th)
  /\ UNCHANGED <<coordVars, memoryVars, boundVars, acks>>

-----------------------------------------------------------------------------
(* Topic creation.                                                         *)

\* Fault: what undoes the creation is set up before ErrTopicExists is checked.
CreateTopicUndoingAnyway(th, b, t, n) ==
  /\ pc[th] = Idle
  /\ epoch[b][t] + 1 < MaxEpochs
  /\ IF size[b][t] = Absent
     THEN /\ CreateLocal(b, t, n)
          /\ pc' = [pc EXCEPT ![th] =
                      NewRequest("register", "create", b, t, 0, n, epoch[b][t] + 1)]
     ELSE /\ pc' = [pc EXCEPT ![th] = NewRequest("rollback", "create", b, t, 0, n, 0)]
          /\ UNCHANGED memoryVars
  /\ UNCHANGED <<coordVars, boundVars, acks>>

\* Server.CreateTopic up to the local creation.  An empty broker list and
\* ErrTopicExists end the handler with nothing done.  The bound on epochs leaves
\* room for the synchronisations that follow.  arg is a ghost here: which creation
\* of the topic the handler made.
CreateTopic(th, b, t, n) ==
  /\ pc[th] = Idle
  /\ size[b][t] = Absent
  /\ epoch[b][t] + 1 < MaxEpochs
  /\ CreateLocal(b, t, n)
  /\ pc' = [pc EXCEPT ![th] =
              NewRequest("register", "create", b, t, 0, n, epoch[b][t] + 1)]
  /\ UNCHANGED <<coordVars, boundVars, acks>>

\* Fault: a lost compare-and-swap is taken for success.
RegisterTopicUnchecked(th) ==
  LET r == pc[th] IN
  /\ r.at = "register"
  /\ meta' = [meta EXCEPT ![r.t] = IF @ = Absent THEN r.n ELSE @]
  /\ GoTo(th, "assign")
  /\ UNCHANGED <<placed, memoryVars, boundVars, acks>>

\* EtcdCoordinator.CreateTopicMetadata: a compare-and-swap on version 0.  The
\* handler sees an error when the topic exists, when the call fails, and when
\* the transaction was applied but its answer was lost.
RegisterTopic(th) ==
  LET r == pc[th]
      Applied == meta[r.t] = Absent /\ meta' = [meta EXCEPT ![r.t] = r.n]
  IN
  /\ r.at = "register"
  /\ \/ Applied /\ GoTo(th, "assign")
     \/ (Applied \/ UNCHANGED meta) /\ GoTo(th, "rollback")
  /\ UNCHANGED <<placed, memoryVars, boundVars, acks>>

\* Fault: the local creation is not undone.
RollbackNothing(th) ==
  /\ pc[th].at = "rollback"
  /\ Done(th)
  /\ UNCHANGED <<coordVars, memoryVars, boundVars, acks>>

\* The error path of Server.CreateTopic: DeleteTopic undoes the local creation.
RollbackTopic(th) ==
  LET r == pc[th] IN
  /\ r.at = "rollback"
  /\ IF size[r.b][r.t] # Absent THEN DeleteLocal(r.b, r.t)
                                ELSE UNCHANGED memoryVars
  /\ Done(th)
  /\ UNCHANGED <<coordVars, boundVars, acks>>

\* One Put per partition, in map order, each of which may fail with a warning:
\* any subset is stored.
StoreAssignments(th) ==
  LET r == pc[th] IN
  /\ r.at = "assign"
  /\ \E S \in SUBSET PartitionsOf(r.n) :
        placed' = [placed EXCEPT ![r.t] = @ \union S]
  /\ Done(th)
  /\ UNCHANGED <<meta, memoryVars, boundVars, acks>>

\* The process dies and is restarted: NewBroker starts with empty maps, the
\* handlers are gone, etcd keeps its keys.
Crash(b) ==
  /\ crashes < MaxCrashes
  /\ \A t \in Topics : epoch[b][t] < MaxEpochs
  /\ crashes' = crashes + 1
  /\ size' = [size EXCEPT ![b] = [t \in Topics |-> Absent]]
  /\ pc' = [th \in Threads |-> IF pc[th].b = b THEN Idle ELSE pc[th]]
  /\ UNCHANGED <<coordVars, epoch, part, sent, acks>>

-----------------------------------------------------------------------------
Init ==
  /\ meta    = [t \in Topics |-> Absent]
  /\ placed  = [t \in Topics |-> {}]
  /\ size    = [b \in Brokers |-> [t \in Topics |-> Absent]]
  /\ epoch   = [b \in Brokers |-> [t \in Topics |-> 0]]
  /\ part    = [o \in Objects |-> NewPartition]
  /\ pc      = [th \in Threads |-> Idle]
  /\ sent    = 0
  /\ crashes = 0
  /\ acks    = {}

Handler(th) ==
  \/ FetchMeta(th)         \/ SyncCreate(th)    \/ Lookup(th)
  \/ AppendToPartition(th) \/ ReadPartition(th) \/ SendReply(th)
  \/ RegisterTopic(th)     \/ RollbackTopic(th) \/ StoreAssignments(th)

Request(th) ==
  \E b \in Brokers, t \in Topics :
    \/ \E p \in Partitions \union {-1} :
         \/ ProduceMessage(th, b, t, p)
         \/ \E from \in FetchFrom : ConsumeMessages(th, b, t, p, from)
    \/ GetTopicMetadata(th, b, t)
    \/ \E n \in Sizes : CreateTopic(th, b, t, n)

Next ==
  \/ \E th \in Threads : Handler(th) \/ Request(th)
  \/ \E b \in Brokers : Crash(b)

Spec == Init /\ [][Next]_vars
-----------------------------------------------------------------------------
(* Properties.                                                             *)

Ack == [obj : Objects, Offset : Nat, id : 1 .. MaxSent]

\* A handler past the lookup or the metadata read holds values that can index
\* the broker's maps.
WellFormed(r) ==
  /\ r.at \in {"syncCreate", "register", "rollback", "assign"} => r.n \in Sizes
  /\ r.at \in {"access", "reply"} => Target(r) \in Objects
  /\ r.op = "produce" => r.arg \in 1 .. MaxSent

\* Every variable has its type (the maps of BrokerImpl, the keys in etcd, the
\* handlers' local variables).
TypeOK ==
  /\ meta    \in [Topics -> Sizes \union {Absent}]
  /\ placed  \in [Topics -> SUBSET Partitions]
  /\ size    \in [Brokers -> [Topics -> Sizes \union {Absent}]]
  /\ epoch   \in [Brokers -> [Topics -> 0 .. MaxEpochs]]
  /\ part    \in [Objects -> PartitionState]
  /\ pc      \in [Threads -> Requests \union {Idle}]
  /\ sent    \in Nat
  /\ crashes \in Nat
  /\ acks    \subseteq Ack
  /\ \A th \in Threads : WellFormed(pc[th])

\* Offset of the oldest message a partition still holds.
BaseOffset(o) == part[o].Offset - Len(part[o].messages)

\* The retained messages of a partition are consecutively numbered up to
\* Offset - 1 and never more than maxMessages: trimming drops the oldest one
\* and no offset is skipped or repeated (broker.ProduceMessage).
LogContiguous ==
  \A o \in Objects :
    LET ms == part[o].messages IN
    /\ Len(ms) <= MaxMessages
    /\ Len(ms) <= part[o].Offset
    /\ \A i \in 1 .. Len(ms) : ms[i].Offset = BaseOffset(o) + i - 1

\* An offset handed to a producer stays the address of that very message: it
\* is below the partition's Offset and, until trimmed, the message found there
\* is the one acknowledged (broker.ProduceMessage, ConsumeMessages).
AckedReadable ==
  \A a \in acks :
    /\ a.Offset < part[a.obj].Offset
    /\ a.Offset >= BaseOffset(a.obj) =>
         part[a.obj].messages[a.Offset - BaseOffset(a.obj) + 1].id = a.id

\* One partition object never hands out an offset twice.
AckedOnce ==
  \A a, c \in acks : a.obj = c.obj /\ a.Offset = c.Offset => a = c

\* A fetch answered after the lock was released is still sound: it holds
\* acknowledged messages at consecutive offsets, none below the one asked for,
\* at most FetchMax of them, and skips only offsets trimmed before the read
\* (broker.ConsumeMessages, against concurrent appends and trims).
FetchSound ==
  \A th \in Threads : pc[th].at = "reply" /\ pc[th].reply # <<>> =>
    LET o  == Target(pc[th])
        ms == pc[th].reply IN
    /\ Len(ms) <= FetchMax
    /\ \A i \in 1 .. Len(ms) :
         /\ ms[i].Offset = ms[1].Offset + i - 1
         /\ ms[i].Offset >= pc[th].arg
         /\ [obj |-> o, Offset |-> ms[i].Offset, id |-> ms[i].id] \in acks
    /\ \A off \in pc[th].arg .. (ms[1].Offset - 1) :
         off < BaseOffset(o)

\* Some handler has created t at b and not yet learned its registration.
Creating(b, t) ==
  \E th \in Threads : /\ pc[th].at \in {"register", "rollback"}
                      /\ pc[th].b = b /\ pc[th].t = t

Settled(b, t) == size[b][t] # Absent /\ ~Creating(b, t)

\* Outside the window of an unfinished creation, a broker's own idea of a
\* topic is the registered one: same partition count, and registered at all,
\* whatever creations raced on other brokers and whatever replies were lost
\* (Server.CreateTopic's rollback, syncTopicLocally).
LocalAgreesWithMeta ==
  \A b \in Brokers, t \in Topics : Settled(b, t) => size[b][t] = meta[t]

\* Stored assignments belong to registered partitions: the loser of a creation
\* race never stores assignments for its own partition count.
PlacedWithinMeta ==
  \A t \in Topics : placed[t] \subseteq PartitionsOf(meta[t])

\* A rollback removes the creation of its own request and no other.  Once it
\* exists, a broker's copy of a topic, with its partitions and their logs, goes or
\* is replaced in two ways only: the broker crashes, or the very request that made
\* this copy undoes it.  No second creation, synchronisation or rollback that runs
\* into it does (Server.CreateTopic's error path against every other handler).
RollbacksRemoveOwn ==
  [][\A b \in Brokers, t \in Topics :
       /\ size[b][t] # Absent
       /\ size'[b][t] # size[b][t] \/ epoch'[b][t] # epoch[b][t]
       => \/ Crash(b)
          \/ \E th \in Threads :
               /\ pc[th].at = "rollback" /\ pc'[th] = Idle
               /\ pc[th].b = b /\ pc[th].t = t /\ pc[th].arg = epoch[b][t]]_vars

\* The messages acknowledged from partition object o, in offset order.
AckedHistory(o) ==
  [i \in 1 .. part[o].Offset |->
     (CHOOSE a \in acks : a.obj = o /\ a.Offset = i - 1).id]

ObjectLogs ==
  INSTANCE PartitionLog
    WITH Log <- Objects, Value <- 1 .. MaxSent,
         history <- [o \in Objects |-> AckedHistory(o)]

\* Every partition object implements the abstract append-only log.
ObjectsAreLogs == ObjectLogs!Spec

\* The messages acknowledged from partition p of topic t at broker b: of the
\* log b serves now or served last.
NamedHistory(b, t, p) ==
  IF epoch[b][t] = 0 THEN <<>> ELSE AckedHistory(<<b, t, epoch[b][t], p>>)

NamedLogs ==
  INSTANCE PartitionLog
    WITH Log <- Brokers \X Topics \X Partitions, Value <- 1 .. MaxSent,
         history <- [l \in Brokers \X Topics \X Partitions |->
                       NamedHistory(l[1], l[2], l[3])]

\* messagebroker/architecture.md:40: messages are distributed across "ordered,
\* append-only partitions".  Read of the partitions a client names, at brokers
\* that do not crash.
PartitionsAppendOnly == NamedLogs!Spec

\* What a broker and etcd say of a topic fits together, however creations race.
TopicsAgree == LocalAgreesWithMeta /\ PlacedWithinMeta
=============================================================================

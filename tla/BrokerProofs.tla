---------------------------- MODULE BrokerProofs ----------------------------
(***************************************************************************)
(* Proofs about Broker, for every set of brokers, topics and handlers and  *)
(* every bound.                                                            *)
(*                                                                         *)
(*   TypeCorrect                the type invariant                         *)
(*   LogsStayContiguous         retained messages are numbered in a row    *)
(*   AcknowledgedStaysReadable  an offset stays the address of its message *)
(*   OffsetsHandedOutOnce       no log hands out an offset twice           *)
(*   FetchesAreSound            fetch replies are right when they go out   *)
(*   ObjectsImplementLogs       partition objects implement PartitionLog   *)
(*   TopicsStayAgreed           brokers and etcd agree on topics           *)
(*   RollbacksStayOwn           a rollback removes its own creation alone  *)
(*                                                                         *)
(* TypeInv, LogInv and (with TypeInv) TopicInv, the invariants they follow *)
(* from, are inductive.                                                    *)
(***************************************************************************)
EXTENDS Broker, SequenceTheorems, OrderedSets

-----------------------------------------------------------------------------
(* Operators of the model.                                                 *)

\* AppendMessage maps partition states to partition states.
LEMMA AppendMessageType ==
  ASSUME NEW q \in PartitionState, NEW id \in Nat
  PROVE  AppendMessage(q, id) \in PartitionState
<1> DEFINE ms == Append(q.messages, [Offset |-> q.Offset, id |-> id])
<1>1. q.messages \in Seq(Message) /\ q.Offset \in Nat
  BY DEF PartitionState
<1>2. [Offset |-> q.Offset, id |-> id] \in Message
  BY <1>1 DEF Message
<1>3. ms \in Seq(Message) /\ ms # <<>>
  BY <1>1, <1>2, AppendProperties
<1>4. Tail(ms) \in Seq(Message)
  BY <1>3, HeadTailProperties
<1>5. QED
  BY <1>1, <1>3, <1>4 DEF AppendMessage, PartitionState

\* The first of the messages a fetch may return, and the rest of the fetch.
LEMMA FetchMessagesProperties ==
  ASSUME NEW q \in PartitionState, NEW from \in Int, NEW max \in Int
  PROVE  /\ FetchMessages(q, from, max) \in Seq(Message)
         /\ FetchMessages(q, from, max) # <<>> =>
              \E first \in 1 .. Len(q.messages) :
                /\ q.messages[first].Offset >= from
                /\ \A j \in 1 .. (first - 1) : q.messages[j].Offset < from
                /\ Len(FetchMessages(q, from, max)) <= max
                /\ Len(FetchMessages(q, from, max)) + first - 1 <= Len(q.messages)
                /\ \A i \in 1 .. Len(FetchMessages(q, from, max)) :
                     FetchMessages(q, from, max)[i] = q.messages[first + i - 1]
<1> DEFINE ms    == q.messages
           hits  == {i \in 1 .. Len(ms) : ms[i].Offset >= from}
           first == CHOOSE i \in hits : \A j \in hits : i <= j
           last  == first + max - 1
           end   == IF last < Len(ms) THEN last ELSE Len(ms)
<1>1. ms \in Seq(Message) /\ Len(ms) \in Nat
  BY DEF PartitionState
<1>2. \A i \in 1 .. Len(ms) : ms[i] \in Message /\ ms[i].Offset \in Nat
  <2>1. ASSUME NEW i \in 1 .. Len(ms) PROVE ms[i] \in Message
    BY <1>1, ElementOfSeq
  <2>2. QED
    BY <2>1 DEF Message
<1>3. CASE hits = {}
  <2>1. FetchMessages(q, from, max) = <<>>
    BY <1>3 DEF FetchMessages
  <2>2. QED
    BY <2>1
<1>4. CASE hits # {}
  <2>1. \E i \in hits : \A j \in hits : i <= j
    <3>1. hits \subseteq Nat
      OBVIOUS
    <3> HIDE DEF hits
    <3>2. QED
      BY <3>1, <1>4, LeastNatural
  <2>2. first \in hits /\ \A j \in hits : first <= j
    BY <2>1
  <2>3. first \in 1 .. Len(ms) /\ ms[first].Offset >= from
    BY <2>2
  <2>4. \A j \in 1 .. (first - 1) : ms[j].Offset < from
    <3> TAKE j \in 1 .. (first - 1)
    <3>1. j \in 1 .. Len(ms) /\ j < first
      BY <2>3, <1>1
    <3>2. j \notin hits
      <4> SUFFICES ASSUME j \in hits PROVE first <= j
        BY <3>1, <2>3
      <4>1. QED
        BY <2>2
    <3>3. QED
      BY <3>1, <3>2, <1>2
  <2>5. end \in Int /\ end <= Len(ms) /\ end <= last
    BY <1>1, <2>3
  <2>6. FetchMessages(q, from, max) = SubSeq(ms, first, end)
    BY <1>4 DEF FetchMessages
  <2> HIDE DEF first, hits
  <2>7. \A i \in first .. end : ms[i] \in Message
    BY <1>2, <2>3, <2>5
  <2>8. /\ SubSeq(ms, first, end) \in Seq(Message)
        /\ Len(SubSeq(ms, first, end)) = IF first <= end THEN end - first + 1 ELSE 0
        /\ \A i \in 1 .. (end - first + 1) :
             SubSeq(ms, first, end)[i] = ms[first + i - 1]
    BY <2>3, <2>5, <2>7, SubSeqProperties
  <2>9. first > end => SubSeq(ms, first, end) = <<>>
    BY <2>3, <2>5, SubSeqEmpty
  <2>10. SubSeq(ms, first, end) # <<>> => first <= end
    BY <2>3, <2>5, <2>9
  <2> DEFINE sub == SubSeq(ms, first, end)
  <2>11. sub # <<>> => /\ Len(sub) = end - first + 1
                      /\ Len(sub) <= max
                      /\ Len(sub) + first - 1 <= Len(ms)
    <3> SUFFICES ASSUME first <= end
                 PROVE  /\ Len(sub) = end - first + 1
                        /\ Len(sub) <= max
                        /\ Len(sub) + first - 1 <= Len(ms)
      BY <2>10
    <3>1. Len(sub) = end - first + 1
      BY <2>8
    <3> HIDE DEF sub, end, ms
    <3>2. QED
      BY <3>1, <2>3, <2>5, <1>1
  <2>12. sub # <<>> => \A i \in 1 .. Len(sub) : sub[i] = ms[first + i - 1]
    BY <2>8, <2>11
  <2> HIDE DEF end
  <2>13. sub # <<>> =>
           /\ first \in 1 .. Len(ms) /\ ms[first].Offset >= from
           /\ \A j \in 1 .. (first - 1) : ms[j].Offset < from
           /\ Len(sub) <= max
           /\ Len(sub) + first - 1 <= Len(ms)
           /\ \A i \in 1 .. Len(sub) : sub[i] = ms[first + i - 1]
    BY <2>3, <2>4, <2>11, <2>12
  <2> HIDE DEF sub
  <2>14. FetchMessages(q, from, max) = sub /\ sub \in Seq(Message)
    BY <2>6, <2>8 DEF sub
  <2>15. QED
    BY <2>13, <2>14
<1>5. QED
  BY <1>3, <1>4

-----------------------------------------------------------------------------
(* Type correctness.                                                       *)

\* A topic in memory has been created at least once.
EpochOK == \A b \in Brokers, t \in Topics : size[b][t] # Absent => epoch[b][t] >= 1

TypeInv == TypeOK /\ EpochOK

Slot == Requests \union {Idle}

\* A handler is idle exactly when its stage says so.
LEMMA IdleStage ==
  /\ Idle.at = "idle" /\ Idle.op = "none" /\ Idle.b = None /\ WellFormed(Idle)
  /\ \A r \in Slot : r.at \in Stages => r \in Requests
  /\ \A r \in Requests : r # Idle /\ r.at # "idle"
BY DEF Idle, WellFormed, Stages, Requests, Slot

\* What a change of stage keeps.
LEMMA StageChange ==
  ASSUME NEW r \in Requests, NEW s \in Stages
  PROVE  LET q == [r EXCEPT !.at = s]
         IN  /\ q \in Requests /\ q.at = s
             /\ q.op = r.op /\ q.b = r.b /\ q.t = r.t /\ q.p = r.p /\ q.n = r.n
             /\ q.e = r.e /\ q.arg = r.arg /\ q.reply = r.reply
             /\ Target(q) = Target(r)
BY DEF Requests, Target

\* Partition numbers of a registrable topic are partition numbers.
LEMMA PartitionNumbers ==
  ASSUME NEW n \in Sizes PROVE PartitionsOf(n) \subseteq Partitions
BY DEF Partitions

\* So does deleting one.
LEMMA DeleteLocalType ==
  ASSUME TypeInv, NEW b \in Brokers, NEW t \in Topics, DeleteLocal(b, t)
  PROVE  /\ size' \in [Brokers -> [Topics -> Sizes \union {Absent}]]
         /\ epoch' = epoch /\ part' = part
         /\ EpochOK'
<1> USE DEF TypeInv, TypeOK, DeleteLocal
<1>1. size' \in [Brokers -> [Topics -> Sizes \union {Absent}]]
  OBVIOUS
<1>2. \A c \in Brokers, u \in Topics : size'[c][u] \in {Absent, size[c][u]}
  OBVIOUS
<1>3. EpochOK'
  BY <1>2 DEF EpochOK
<1>4. QED
  BY <1>1, <1>3

\* A request record is well typed.
LEMMA NewRequestType ==
  ASSUME NEW stage \in Stages,
         NEW op \in {"produce", "consume", "metadata", "create"},
         NEW b \in Brokers, NEW t \in Topics, NEW p \in Int, NEW n \in Nat,
         NEW arg \in Int
  PROVE  NewRequest(stage, op, b, t, p, n, arg) \in Requests
<1>1. <<>> \in Seq(Message)
  BY EmptySeq
<1>2. QED
  BY <1>1 DEF NewRequest, Requests

\* Partitions are numbered by naturals.
LEMMA PartitionsAreIntegers == Partitions \subseteq Nat
BY ConstantsAssumption DEF Partitions, PartitionsOf

\* Creating a topic in memory keeps the types of the broker's maps.
LEMMA CreateLocalType ==
  ASSUME TypeInv, NEW b \in Brokers, NEW t \in Topics, NEW n \in Sizes,
         epoch[b][t] < MaxEpochs, CreateLocal(b, t, n)
  PROVE  /\ size'  \in [Brokers -> [Topics -> Sizes \union {Absent}]]
         /\ epoch' \in [Brokers -> [Topics -> 0 .. MaxEpochs]]
         /\ part'  \in [Objects -> PartitionState]
         /\ EpochOK'
<1> USE ConstantsAssumption DEF TypeInv, TypeOK
<1>1. size' \in [Brokers -> [Topics -> Sizes \union {Absent}]]
  BY DEF CreateLocal
<1>2. epoch' \in [Brokers -> [Topics -> 0 .. MaxEpochs]]
  BY DEF CreateLocal
<1>3. part' \in [Objects -> PartitionState]
  <2>1. NewPartition \in PartitionState
    BY DEF NewPartition, PartitionState
  <2>2. QED
    BY <2>1 DEF CreateLocal
<1>4. EpochOK'
  BY DEF EpochOK, CreateLocal
<1>5. QED
  BY <1>1, <1>2, <1>3, <1>4

\* What a handler's arrival, stage changes and end do to the handlers' types.
LEMMA HandlerUpdate ==
  ASSUME TypeInv, NEW th \in Threads, NEW q \in Slot, WellFormed(q),
         pc' = [pc EXCEPT ![th] = q]
  PROVE  /\ pc' \in [Threads -> Slot]
         /\ \A h \in Threads : WellFormed(pc[h])'
<1>1. pc \in [Threads -> Slot] /\ \A h \in Threads : WellFormed(pc[h])
  BY DEF TypeInv, TypeOK, Slot
<1>2. \A h \in Threads : pc'[h] = IF h = th THEN q ELSE pc[h]
  BY <1>1
<1>3. \A h \in Threads : WellFormed(pc'[h])
  BY <1>1, <1>2
<1>4. QED
  BY <1>1, <1>3 DEF WellFormed, Target

\* The type invariant with the epochs holds at the start.
LEMMA InitTypeInv == Init => TypeInv
<1> SUFFICES ASSUME Init PROVE TypeInv
  OBVIOUS
<1> USE ConstantsAssumption DEF Init
<1>1. part \in [Objects -> PartitionState]
  BY DEF NewPartition, PartitionState
<1>2. \A th \in Threads : WellFormed(pc[th])
  BY IdleStage
<1>3. QED
  BY <1>1, <1>2 DEF TypeInv, TypeOK, EpochOK

\* One step keeps TypeInv.
LEMMA NextTypeInv == TypeInv /\ [Next]_vars => TypeInv'
<1> SUFFICES ASSUME TypeInv, [Next]_vars PROVE TypeInv'
  OBVIOUS
<1> USE ConstantsAssumption
<1>1. ASSUME NEW th \in Threads, NEW b \in Brokers, NEW t \in Topics,
             NEW p \in Partitions \union {-1}, ProduceMessage(th, b, t, p)
      PROVE  TypeInv'
  <2> DEFINE stage == AfterGetTopic(b, t)
           q == NewRequest(stage, "produce", b, t, IF p < 0 THEN 0 ELSE p, 0, sent + 1)
  <2>1. q \in Slot /\ WellFormed(q) /\ pc' = [pc EXCEPT ![th] = q]
    <3>1. stage \in Stages \ {"syncCreate", "register", "rollback", "assign", "access", "reply"}
      BY DEF AfterGetTopic, Stages
    <3>2. q \in Requests
      BY <3>1, PartitionsAreIntegers, NewRequestType DEF TypeInv, TypeOK
    <3>3. sent + 1 \in 1 .. MaxSent
      BY <1>1 DEF ProduceMessage, TypeInv, TypeOK
    <3>4. WellFormed(q)
      BY <3>1, <3>3 DEF WellFormed, NewRequest, Stages
    <3>5. QED
      BY <3>2, <3>4, <1>1 DEF Slot, ProduceMessage, Arrive
  <2> HIDE DEF q
  <2>2. pc' \in [Threads -> Slot] /\ \A h \in Threads : WellFormed(pc[h])'
    BY <2>1, HandlerUpdate
  <2>3. QED
    BY <2>2, <1>1 DEF TypeInv, TypeOK, EpochOK, Slot, ProduceMessage, coordVars, memoryVars, boundVars
<1>2. ASSUME NEW th \in Threads, NEW b \in Brokers, NEW t \in Topics,
             NEW p \in Partitions \union {-1}, NEW from \in FetchFrom,
             ConsumeMessages(th, b, t, p, from)
      PROVE  TypeInv'
  <2> DEFINE stage == AfterGetTopic(b, t)
           q == NewRequest(stage, "consume", b, t, p, 0, from)
  <2>1. q \in Slot /\ WellFormed(q) /\ pc' = [pc EXCEPT ![th] = q]
    <3>1. stage \in Stages \ {"syncCreate", "register", "rollback", "assign", "access", "reply"}
      BY DEF AfterGetTopic, Stages
    <3>2. q \in Requests
      BY <3>1, PartitionsAreIntegers, NewRequestType DEF TypeInv, TypeOK
    <3>3. WellFormed(q)
      BY <3>1 DEF WellFormed, NewRequest, Stages, TypeInv, TypeOK
    <3>4. QED
      BY <3>2, <3>3, <1>2 DEF Slot, ConsumeMessages, Arrive
  <2> HIDE DEF q
  <2>2. pc' \in [Threads -> Slot] /\ \A h \in Threads : WellFormed(pc[h])'
    BY <2>1, HandlerUpdate
  <2>3. QED
    BY <2>2, <1>2 DEF TypeInv, TypeOK, EpochOK, Slot, ConsumeMessages, coordVars, memoryVars, boundVars
<1>3. ASSUME NEW th \in Threads, NEW b \in Brokers, NEW t \in Topics,
             GetTopicMetadata(th, b, t)
      PROVE  TypeInv'
  <2> DEFINE stage == AfterGetTopic(b, t)
           q == NewRequest(stage, "metadata", b, t, 0, 0, 0)
  <2>1. q \in Slot /\ WellFormed(q) /\ pc' = [pc EXCEPT ![th] = q]
    <3>1. stage \in Stages \ {"syncCreate", "register", "rollback", "assign", "access", "reply"}
      BY DEF AfterGetTopic, Stages
    <3>2. q \in Requests
      BY <3>1, PartitionsAreIntegers, NewRequestType DEF TypeInv, TypeOK
    <3>3. WellFormed(q)
      BY <3>1 DEF WellFormed, NewRequest, Stages, TypeInv, TypeOK
    <3>4. QED
      BY <3>2, <3>3, <1>3 DEF Slot, GetTopicMetadata, Arrive
  <2> HIDE DEF q
  <2>2. pc' \in [Threads -> Slot] /\ \A h \in Threads : WellFormed(pc[h])'
    BY <2>1, HandlerUpdate
  <2>3. QED
    BY <2>2, <1>3 DEF TypeInv, TypeOK, EpochOK, Slot, GetTopicMetadata, coordVars, memoryVars, boundVars
<1>4. ASSUME NEW th \in Threads, NEW b \in Brokers, NEW t \in Topics,
             NEW n \in Sizes, CreateTopic(th, b, t, n)
      PROVE  TypeInv'
  <2> DEFINE q == NewRequest("register", "create", b, t, 0, n, epoch[b][t] + 1)
  <2>1. q \in Slot /\ WellFormed(q) /\ pc' = [pc EXCEPT ![th] = q]
    <3>e. epoch[b][t] + 1 \in Int
      BY DEF TypeInv, TypeOK
    <3>1. q \in Requests
      BY <3>e, NewRequestType DEF Stages
    <3>2. WellFormed(q)
      BY DEF WellFormed, NewRequest
    <3>3. QED
      BY <3>1, <3>2, <1>4 DEF Slot, CreateTopic
  <2> HIDE DEF q
  <2>2. pc' \in [Threads -> Slot] /\ \A h \in Threads : WellFormed(pc[h])'
    BY <2>1, HandlerUpdate
  <2>3. epoch[b][t] < MaxEpochs
    BY <1>4 DEF CreateTopic, TypeInv, TypeOK
  <2>4. CreateLocal(b, t, n)
    BY <1>4 DEF CreateTopic
  <2>5. QED
    BY <2>2, <2>3, <2>4, <1>4, CreateLocalType
    DEF TypeInv, TypeOK, Slot, CreateTopic, coordVars, boundVars
<1>5. ASSUME NEW th \in Threads, FetchMeta(th)
      PROVE  TypeInv'
  <2>1. pc[th] \in Requests /\ WellFormed(pc[th])
    BY <1>5, IdleStage DEF FetchMeta, Slot, Stages, TypeInv, TypeOK
  <2>2. \E q \in Slot : WellFormed(q) /\ pc' = [pc EXCEPT ![th] = q]
    <3>1. CASE GoTo(th, "lookup")
      <4> DEFINE q == [pc[th] EXCEPT !.at = "lookup"]
      <4>1. q \in Requests /\ q.at = "lookup" /\ q.op = pc[th].op /\ q.arg = pc[th].arg
        BY <2>1, StageChange DEF Stages
      <4>2. WellFormed(q)
        BY <2>1, <4>1 DEF WellFormed
      <4>3. QED
        BY <3>1, <4>1, <4>2 DEF GoTo, Slot
    <3>2. CASE /\ meta[pc[th].t] # Absent
               /\ pc' = [pc EXCEPT ![th].at = "syncCreate", ![th].n = meta[pc[th].t]]
      <4> DEFINE m == meta[pc[th].t]
                 q == [pc[th] EXCEPT !.at = "syncCreate", !.n = m]
      <4>1. m \in Sizes
        BY <2>1, <3>2 DEF TypeInv, TypeOK, Requests
      <4> HIDE DEF m
      <4>2. q \in Requests /\ q.at = "syncCreate" /\ q.n = m /\ q.op = pc[th].op
            /\ q.arg = pc[th].arg
        BY <2>1, <4>1 DEF Requests, Stages
      <4>3. WellFormed(q)
        BY <2>1, <4>1, <4>2 DEF WellFormed
      <4>4. pc' = [pc EXCEPT ![th] = q]
        BY <3>2, <2>1 DEF m, TypeInv, TypeOK
      <4>5. QED
        BY <4>2, <4>3, <4>4 DEF Slot
    <3>3. QED
      BY <1>5, <3>1, <3>2 DEF FetchMeta
  <2>3. pc' \in [Threads -> Slot] /\ \A h \in Threads : WellFormed(pc[h])'
    BY <2>2, HandlerUpdate
  <2>4. QED
    BY <2>3, <1>5 DEF TypeInv, TypeOK, EpochOK, Slot, FetchMeta, coordVars, memoryVars, boundVars
<1>6. ASSUME NEW th \in Threads, SyncCreate(th)
      PROVE  TypeInv'
  <2> DEFINE r == pc[th]
             q == [r EXCEPT !.at = "lookup"]
  <2>1. r \in Requests /\ WellFormed(r) /\ r.at = "syncCreate"
    BY <1>6, IdleStage DEF SyncCreate, Slot, Stages, TypeInv, TypeOK
  <2>2. q \in Slot /\ WellFormed(q) /\ pc' = [pc EXCEPT ![th] = q]
    <3>1. q \in Requests /\ q.at = "lookup" /\ q.op = r.op /\ q.arg = r.arg
      BY <2>1, StageChange DEF Stages
    <3>2. WellFormed(q)
      BY <2>1, <3>1 DEF WellFormed
    <3>3. QED
      BY <3>1, <3>2, <1>6 DEF SyncCreate, GoTo, Slot
  <2> HIDE DEF q
  <2>3. pc' \in [Threads -> Slot] /\ \A h \in Threads : WellFormed(pc[h])'
    BY <2>2, HandlerUpdate
  <2>4. r.b \in Brokers /\ r.t \in Topics /\ r.n \in Sizes
    BY <2>1 DEF Requests, WellFormed
  <2>5. CASE size[r.b][r.t] = Absent
    <3>1. epoch[r.b][r.t] < MaxEpochs /\ CreateLocal(r.b, r.t, r.n)
      BY <2>5, <1>6 DEF SyncCreate
    <3> HIDE DEF r
    <3>2. /\ size'  \in [Brokers -> [Topics -> Sizes \union {Absent}]]
          /\ epoch' \in [Brokers -> [Topics -> 0 .. MaxEpochs]]
          /\ part'  \in [Objects -> PartitionState]
          /\ EpochOK'
      BY <3>1, <2>4, CreateLocalType
    <3>3. QED
      BY <2>3, <3>2, <1>6 DEF SyncCreate, TypeInv, TypeOK, Slot, coordVars, boundVars
  <2>6. CASE size[r.b][r.t] # Absent
    BY <2>3, <2>6, <1>6 DEF SyncCreate, TypeInv, TypeOK, EpochOK, Slot,
       coordVars, memoryVars, boundVars
  <2>7. QED
    BY <2>5, <2>6
<1>7. ASSUME NEW th \in Threads, Lookup(th)
      PROVE  TypeInv'
  <2> DEFINE r == pc[th]
  <2>1. r \in Requests /\ WellFormed(r) /\ r.at = "lookup"
    BY <1>7, IdleStage DEF Lookup, Slot, Stages, TypeInv, TypeOK
  <2>2. \E q \in Slot : WellFormed(q) /\ pc' = [pc EXCEPT ![th] = q]
    <3>1. CASE r.op # "metadata" /\ InMap(r.b, r.t, r.p)
      <4> DEFINE e == epoch[r.b][r.t]
                 q == [r EXCEPT !.at = "access", !.e = e]
      <4>1. r.b \in Brokers /\ r.t \in Topics
        BY <2>1 DEF Requests
      <4>2. size[r.b][r.t] \in Sizes /\ e \in 1 .. MaxEpochs
        BY <3>1, <4>1 DEF InMap, TypeInv, TypeOK, EpochOK
      <4>3. r.p \in Partitions
        BY <3>1, <4>2, PartitionNumbers DEF InMap
      <4>4. pc' = [pc EXCEPT ![th] = q]
        BY <3>1, <1>7, <2>1 DEF Lookup, TypeInv, TypeOK
      <4> HIDE DEF e
      <4>5. /\ q \in Requests /\ q.at = "access" /\ q.op = r.op /\ q.arg = r.arg
            /\ q.b = r.b /\ q.t = r.t /\ q.e = e /\ q.p = r.p
        <5> HIDE DEF r
        <5>1. e \in Nat
          BY <4>2
        <5>2. QED
          BY <2>1, <5>1 DEF Requests, Stages
      <4>6. Target(q) \in Objects
        BY <4>1, <4>2, <4>3, <4>5 DEF Objects, Target
      <4>7. WellFormed(q)
        BY <2>1, <4>5, <4>6 DEF WellFormed
      <4>8. QED
        BY <4>4, <4>5, <4>7 DEF Slot
    <3>2. CASE ~ (r.op # "metadata" /\ InMap(r.b, r.t, r.p))
      BY <3>2, <1>7, IdleStage DEF Lookup, Done, Slot
    <3>3. QED
      BY <3>1, <3>2
  <2>3. pc' \in [Threads -> Slot] /\ \A h \in Threads : WellFormed(pc[h])'
    BY <2>2, HandlerUpdate
  <2>4. QED
    BY <2>3, <1>7 DEF TypeInv, TypeOK, EpochOK, Slot, Lookup, coordVars, memoryVars, boundVars
<1>8. ASSUME NEW th \in Threads, AppendToPartition(th)
      PROVE  TypeInv'
  <2> DEFINE r == pc[th]
             o == Target(r)
  <2>1. r \in Requests /\ r.arg \in 1 .. MaxSent /\ o \in Objects
    BY <1>8, IdleStage DEF AppendToPartition, Slot, Stages, TypeInv, TypeOK, WellFormed
  <2>2. part[o] \in PartitionState /\ part[o].Offset \in Nat
    BY <2>1 DEF TypeInv, TypeOK, PartitionState
  <2>3. part' = [part EXCEPT ![o] = AppendMessage(part[o], r.arg)]
        /\ acks' = acks \union {[obj |-> o, Offset |-> part[o].Offset, id |-> r.arg]}
        /\ pc' = [pc EXCEPT ![th] = Idle]
    BY <1>8, <2>1 DEF AppendToPartition, Done, TypeInv, TypeOK
  <2> HIDE DEF r, o
  <2>4. AppendMessage(part[o], r.arg) \in PartitionState
    BY <2>1, <2>2, AppendMessageType
  <2>5. part' \in [Objects -> PartitionState]
    BY <2>3, <2>4 DEF TypeInv, TypeOK
  <2>6. acks' \subseteq Ack
    BY <2>1, <2>2, <2>3 DEF TypeInv, TypeOK, Ack
  <2>7. pc' \in [Threads -> Slot] /\ \A h \in Threads : WellFormed(pc[h])'
    BY <2>3, HandlerUpdate, IdleStage DEF Slot
  <2>8. QED
    BY <2>5, <2>6, <2>7, <1>8
    DEF AppendToPartition, TypeInv, TypeOK, EpochOK, Slot, coordVars, boundVars
<1>9. ASSUME NEW th \in Threads, ReadPartition(th)
      PROVE  TypeInv'
  <2> DEFINE r  == pc[th]
             ms == FetchMessages(part[Target(r)], r.arg, FetchMax)
             q  == [r EXCEPT !.at = "reply", !.reply = ms]
  <2>1. r \in Requests /\ WellFormed(r) /\ r.at = "access" /\ Target(r) \in Objects
    BY <1>9, IdleStage DEF ReadPartition, Slot, Stages, TypeInv, TypeOK, WellFormed
  <2>2. r.arg \in Int /\ part[Target(r)] \in PartitionState
    BY <2>1 DEF TypeInv, TypeOK, Requests
  <2>3. ms \in Seq(Message)
    BY <2>2, FetchMessagesProperties
  <2>4. pc' = [pc EXCEPT ![th] = q]
    BY <1>9, <2>1 DEF ReadPartition, TypeInv, TypeOK
  <2> HIDE DEF ms
  <2>5. /\ q \in Requests /\ q.at = "reply" /\ q.op = r.op /\ q.arg = r.arg
        /\ Target(q) = Target(r)
    BY <2>1, <2>3 DEF Requests, Stages, Target
  <2>6. WellFormed(q)
    BY <2>1, <2>5 DEF WellFormed
  <2> HIDE DEF q
  <2>7. pc' \in [Threads -> Slot] /\ \A h \in Threads : WellFormed(pc[h])'
    BY <2>4, <2>5, <2>6, HandlerUpdate DEF Slot
  <2>8. QED
    BY <2>7, <1>9 DEF ReadPartition, TypeInv, TypeOK, EpochOK, Slot,
       coordVars, memoryVars, boundVars
<1>10. ASSUME NEW th \in Threads, SendReply(th)
       PROVE  TypeInv'
  <2>1. pc' \in [Threads -> Slot] /\ \A h \in Threads : WellFormed(pc[h])'
    BY <1>10, HandlerUpdate, IdleStage DEF SendReply, Done, Slot
  <2>2. QED
    BY <2>1, <1>10 DEF SendReply, TypeInv, TypeOK, EpochOK, Slot,
       coordVars, memoryVars, boundVars
<1>11. ASSUME NEW th \in Threads, RegisterTopic(th)
       PROVE  TypeInv'
  <2> DEFINE r == pc[th]
  <2>1. r \in Requests /\ WellFormed(r) /\ r.at = "register"
    BY <1>11, IdleStage DEF RegisterTopic, Slot, Stages, TypeInv, TypeOK
  <2>2. r.t \in Topics /\ r.n \in Sizes
    BY <2>1 DEF WellFormed, Requests
  <2>3. meta' \in [Topics -> Sizes \union {Absent}]
    BY <1>11, <2>2 DEF RegisterTopic, TypeInv, TypeOK
  <2>4. PICK s \in {"assign", "rollback"} : pc' = [pc EXCEPT ![th] = [r EXCEPT !.at = s]]
    BY <1>11 DEF RegisterTopic, GoTo
  <2> DEFINE q == [r EXCEPT !.at = s]
  <2>5. q \in Requests /\ q.at = s /\ q.op = r.op /\ q.arg = r.arg /\ q.n = r.n
    <3>1. s \in Stages
      BY DEF Stages
    <3> HIDE DEF r
    <3>2. QED
      BY <2>1, <3>1, StageChange
  <2>6. WellFormed(q)
    BY <2>1, <2>2, <2>5 DEF WellFormed
  <2> HIDE DEF q
  <2>7. pc' \in [Threads -> Slot] /\ \A h \in Threads : WellFormed(pc[h])'
    BY <2>4, <2>5, <2>6, HandlerUpdate DEF Slot, q
  <2>8. QED
    BY <2>3, <2>7, <1>11 DEF RegisterTopic, TypeInv, TypeOK, EpochOK, Slot,
       memoryVars, boundVars
<1>12. ASSUME NEW th \in Threads, RollbackTopic(th)
       PROVE  TypeInv'
  <2>1. pc' \in [Threads -> Slot] /\ \A h \in Threads : WellFormed(pc[h])'
    BY <1>12, HandlerUpdate, IdleStage DEF RollbackTopic, Done, Slot
  <2> DEFINE r == pc[th]
  <2>2. r.b \in Brokers /\ r.t \in Topics
    BY <1>12, IdleStage DEF RollbackTopic, Slot, Stages, TypeInv, TypeOK, Requests
  <2>3. \/ DeleteLocal(r.b, r.t)
        \/ UNCHANGED memoryVars
    BY <1>12 DEF RollbackTopic
  <2> HIDE DEF r
  <2>4. /\ size' \in [Brokers -> [Topics -> Sizes \union {Absent}]]
        /\ epoch' = epoch /\ part' = part /\ EpochOK'
    BY <2>2, <2>3, DeleteLocalType DEF TypeInv, TypeOK, EpochOK, memoryVars
  <2>5. QED
    BY <2>1, <2>4, <1>12 DEF RollbackTopic, TypeInv, TypeOK, Slot, coordVars, boundVars
<1>13. ASSUME NEW th \in Threads, StoreAssignments(th)
       PROVE  TypeInv'
  <2> DEFINE r == pc[th]
  <2>1. r \in Requests /\ WellFormed(r) /\ r.at = "assign"
    BY <1>13, IdleStage DEF StoreAssignments, Slot, Stages, TypeInv, TypeOK
  <2>2. r.t \in Topics /\ PartitionsOf(r.n) \subseteq Partitions
    BY <2>1, PartitionNumbers DEF WellFormed, Requests
  <2>3. placed' \in [Topics -> SUBSET Partitions]
    BY <1>13, <2>2 DEF StoreAssignments, TypeInv, TypeOK
  <2>4. pc' \in [Threads -> Slot] /\ \A h \in Threads : WellFormed(pc[h])'
    BY <1>13, HandlerUpdate, IdleStage DEF StoreAssignments, Done, Slot
  <2>5. QED
    BY <2>3, <2>4, <1>13 DEF StoreAssignments, TypeInv, TypeOK, EpochOK, Slot,
       memoryVars, boundVars
<1>14. ASSUME NEW b \in Brokers, Crash(b)
       PROVE  TypeInv'
  <2>1. pc' \in [Threads -> Slot] /\ \A h \in Threads : pc'[h] \in {Idle, pc[h]}
    BY <1>14 DEF Crash, TypeInv, TypeOK, Slot
  <2>2. \A h \in Threads : WellFormed(pc'[h])
    BY <2>1, IdleStage DEF TypeInv, TypeOK
  <2>3. \A h \in Threads : WellFormed(pc[h])'
    BY <2>2 DEF WellFormed, Target
  <2>4. /\ size' \in [Brokers -> [Topics -> Sizes \union {Absent}]]
        /\ \A c \in Brokers, t \in Topics : size'[c][t] # Absent => size'[c][t] = size[c][t]
    BY <1>14 DEF Crash, TypeInv, TypeOK
  <2>5. QED
    BY <2>1, <2>3, <2>4, <1>14 DEF Crash, TypeInv, TypeOK, EpochOK, Slot, coordVars
<1>15. CASE UNCHANGED vars
  BY <1>15 DEF vars, TypeInv, TypeOK, EpochOK, WellFormed, Target
<1>16. QED
  BY <1>1, <1>2, <1>3, <1>4, <1>5, <1>6, <1>7, <1>8, <1>9, <1>10, <1>11, <1>12,
     <1>13, <1>14, <1>15 DEF Next, Handler, Request

\* Every variable keeps its type in every behaviour of the broker.
THEOREM TypeCorrect == Spec => []TypeOK
<1>1. Spec => []TypeInv
  BY InitTypeInv, NextTypeInv, PTL DEF Spec
<1>2. TypeInv => TypeOK
  BY DEF TypeInv
<1>3. QED
  BY <1>1, <1>2, PTL

-----------------------------------------------------------------------------
(* The log of a partition object.                                          *)

Base(q) == q.Offset - Len(q.messages)

Contiguous(q) ==
  /\ Len(q.messages) <= MaxMessages
  /\ Len(q.messages) <= q.Offset
  /\ \A i \in 1 .. Len(q.messages) : q.messages[i].Offset = Base(q) + i - 1

\* Appending keeps the log contiguous: the new message gets the next offset,
\* the base moves up by one exactly when the log was full, and every message
\* still retained keeps its offset.
LEMMA AppendMessageProperties ==
  ASSUME NEW q \in PartitionState, NEW id \in Nat, Contiguous(q)
  PROVE  LET w == AppendMessage(q, id)
         IN  /\ w \in PartitionState
             /\ Contiguous(w)
             /\ w.Offset = q.Offset + 1
             /\ Len(w.messages) >= 1
             /\ w.messages[Len(w.messages)] = [Offset |-> q.Offset, id |-> id]
             /\ Base(w) \in {Base(q), Base(q) + 1}
             /\ \A i \in 1 .. (Len(w.messages) - 1) :
                  /\ i + Base(w) - Base(q) \in 1 .. Len(q.messages)
                  /\ w.messages[i] = q.messages[i + Base(w) - Base(q)]
<1> DEFINE w  == AppendMessage(q, id)
           m  == [Offset |-> q.Offset, id |-> id]
           ms == Append(q.messages, m)
<1> USE ConstantsAssumption
<1>1. /\ q.messages \in Seq(Message) /\ q.Offset \in Nat
      /\ Len(q.messages) \in Nat
  BY DEF PartitionState
<1>2. m \in Message /\ m.Offset = q.Offset
  BY <1>1 DEF Message
<1>3. /\ ms \in Seq(Message) /\ ms # <<>>
      /\ Len(ms) = Len(q.messages) + 1
      /\ \A i \in 1 .. Len(q.messages) : ms[i] = q.messages[i]
      /\ ms[Len(q.messages) + 1] = m
  <2> HIDE DEF m
  <2>1. QED
    BY <1>1, <1>2, AppendProperties
<1>4. w \in PartitionState
  BY AppendMessageType
<1> HIDE DEF m, ms
<1>5. w.Offset = q.Offset + 1
  BY DEF AppendMessage, m, ms
<1>6. \A i \in 1 .. Len(ms) : ms[i].Offset = Base(q) + i - 1
  <2> TAKE i \in 1 .. Len(ms)
  <2>1. CASE i \in 1 .. Len(q.messages)
    BY <2>1, <1>3 DEF Contiguous
  <2>2. CASE i = Len(q.messages) + 1
    BY <2>2, <1>1, <1>2, <1>3 DEF Base
  <2>3. QED
    BY <2>1, <2>2, <1>1, <1>3
<1>7. /\ Len(q.messages) <= MaxMessages /\ Len(q.messages) <= q.Offset
  BY DEF Contiguous
<1>8. SUFFICES /\ Contiguous(w)
               /\ Len(w.messages) >= 1
               /\ w.messages[Len(w.messages)] = m
               /\ Base(w) \in {Base(q), Base(q) + 1}
               /\ \A i \in 1 .. (Len(w.messages) - 1) :
                    /\ i + Base(w) - Base(q) \in 1 .. Len(q.messages)
                    /\ w.messages[i] = q.messages[i + Base(w) - Base(q)]
  <2>1. QED
    BY <1>4, <1>5, <1>8 DEF m
<1>9. CASE Len(ms) <= MaxMessages
  <2>1. w.messages = ms
    BY <1>9, <1>3 DEF AppendMessage, m, ms
  <2> HIDE DEF w
  <2>2. Base(w) = Base(q)
    BY <2>1, <1>1, <1>3, <1>5 DEF Base
  <2>3. Contiguous(w)
    BY <2>1, <2>2, <1>1, <1>3, <1>5, <1>6, <1>7, <1>9 DEF Contiguous
  <2>4. Base(q) \in Int
    BY <1>1 DEF Base
  <2>5. \A i \in 1 .. (Len(w.messages) - 1) :
          /\ i + Base(w) - Base(q) \in 1 .. Len(q.messages)
          /\ w.messages[i] = q.messages[i + Base(w) - Base(q)]
    <3> TAKE i \in 1 .. (Len(w.messages) - 1)
    <3>1. i \in 1 .. Len(q.messages) /\ i + Base(w) - Base(q) = i
      BY <2>1, <2>2, <2>4, <1>1, <1>3
    <3>2. QED
      BY <3>1, <2>1, <1>3
  <2>6. Len(w.messages) >= 1 /\ w.messages[Len(w.messages)] = m
    BY <2>1, <1>1, <1>3
  <2>7. QED
    BY <2>2, <2>3, <2>5, <2>6
<1>10. CASE Len(ms) > MaxMessages
  <2>1. w.messages = Tail(ms)
    BY <1>10, <1>3 DEF AppendMessage, m, ms
  <2> HIDE DEF w
  <2>2. /\ Len(Tail(ms)) = Len(q.messages)
        /\ \A i \in 1 .. Len(q.messages) : Tail(ms)[i] = ms[i + 1]
    BY <1>1, <1>3, HeadTailProperties
  <2>3. Len(q.messages) = MaxMessages /\ Len(q.messages) >= 1
    BY <1>1, <1>3, <1>7, <1>10
  <2>4. Base(w) = Base(q) + 1 /\ Base(q) \in Int
    BY <2>1, <2>2, <1>1, <1>5, SMTT(20) DEF Base
  <2>5. \A i \in 1 .. Len(q.messages) : w.messages[i].Offset = Base(w) + i - 1
    <3> TAKE i \in 1 .. Len(q.messages)
    <3>1. w.messages[i] = ms[i + 1] /\ i + 1 \in 1 .. Len(ms)
      BY <2>1, <2>2, <1>1, <1>3
    <3>2. ms[i + 1].Offset = Base(q) + (i + 1) - 1
      BY <3>1, <1>6
    <3>3. QED
      BY <3>1, <3>2, <2>4
  <2>6. Contiguous(w)
    <3>1. Len(w.messages) = Len(q.messages)
      BY <2>1, <2>2
    <3>2. Len(w.messages) <= MaxMessages /\ Len(w.messages) <= w.Offset
      BY <3>1, <1>1, <1>5, <1>7
    <3>3. QED
      BY <2>5, <3>1, <3>2 DEF Contiguous
  <2>7. \A i \in 1 .. (Len(w.messages) - 1) :
          /\ i + Base(w) - Base(q) \in 1 .. Len(q.messages)
          /\ w.messages[i] = q.messages[i + Base(w) - Base(q)]
    <3> TAKE i \in 1 .. (Len(w.messages) - 1)
    <3>1. i + Base(w) - Base(q) = i + 1 /\ i + 1 \in 1 .. Len(q.messages)
          /\ i \in 1 .. Len(q.messages)
      BY <2>1, <2>2, <2>4, <1>1
    <3>2. QED
      BY <3>1, <2>1, <2>2, <1>3
  <2>8. Len(w.messages) >= 1 /\ w.messages[Len(w.messages)] = m
    <3>1. Len(w.messages) = Len(q.messages)
          /\ Len(q.messages) \in 1 .. Len(q.messages)
      BY <2>1, <2>2, <2>3, <1>1
    <3>2. QED
      BY <3>1, <2>1, <2>2, <2>3, <1>3
  <2>9. QED
    BY <2>4, <2>6, <2>7, <2>8
<1>11. QED
  BY <1>1, <1>3, <1>9, <1>10

-----------------------------------------------------------------------------
(***************************************************************************)
(* The inductive invariant of the logs.  LogContiguous, AckedReadable,     *)
(* AckedOnce and FetchSound are not inductive by themselves:               *)
(*   Reached   a handler's partition pointer names an object that exists,  *)
(*   Fresh     an object that was never created is empty, so creating a    *)
(*             topic changes no log,                                       *)
(*   Retained  what a log still holds was acknowledged: a fetch read under *)
(*             the lock is sound when it is sent,                          *)
(*   Complete  every offset below the log's end was acknowledged.          *)
(***************************************************************************)
Reached ==
  \A th \in Threads : pc[th].at \in {"access", "reply"} =>
    pc[th].e <= epoch[pc[th].b][pc[th].t]

Fresh == \A o \in Objects : o[3] > epoch[o[1]][o[2]] => part[o] = NewPartition

Contiguity == \A o \in Objects : Contiguous(part[o])

Retained ==
  \A o \in Objects : \A i \in 1 .. Len(part[o].messages) :
    [obj |-> o, Offset |-> part[o].messages[i].Offset,
     id |-> part[o].messages[i].id] \in acks

Complete ==
  \A o \in Objects : \A k \in 1 .. part[o].Offset :
    \E a \in acks : a.obj = o /\ a.Offset = k - 1

LogInv == /\ TypeInv /\ Reached /\ Fresh /\ Contiguity /\ AckedReadable
          /\ AckedOnce /\ Retained /\ Complete /\ FetchSound

\* The log invariant holds at the start.
LEMMA InitLogInv == Init => LogInv
<1> SUFFICES ASSUME Init PROVE LogInv
  OBVIOUS
<1>1. \A o \in Objects : part[o] = NewPartition
  BY DEF Init
<1>2. NewPartition.Offset = 0 /\ NewPartition.messages = <<>> /\ Len(NewPartition.messages) = 0
  BY DEF NewPartition
<1>3. Contiguous(NewPartition)
  BY <1>2, ConstantsAssumption DEF Contiguous
<1>4. \A th \in Threads : pc[th].at = "idle"
  BY IdleStage DEF Init
<1>5. acks = {}
  BY DEF Init
<1>6. Contiguity /\ Fresh
  BY <1>1, <1>3 DEF Contiguity, Fresh
<1>7. Retained /\ Complete
  BY <1>1, <1>2 DEF Retained, Complete
<1>8. Reached /\ FetchSound
  BY <1>4 DEF Reached, FetchSound
<1>9. AckedReadable /\ AckedOnce
  BY <1>5 DEF AckedReadable, AckedOnce
<1>10. QED
  BY InitTypeInv, <1>6, <1>7, <1>8, <1>9 DEF LogInv

\* Only an append changes a log, and only an append acknowledges.
LEMMA LogsUnchanged ==
  ASSUME LogInv, [Next]_vars, ~ \E th \in Threads : AppendToPartition(th)
  PROVE  /\ part' = part /\ acks' = acks
         /\ \A b \in Brokers, t \in Topics : epoch'[b][t] >= epoch[b][t]
<1> USE DEF TypeInv, TypeOK
<1>1. TypeInv
  BY DEF LogInv
<1>2. ASSUME NEW b \in Brokers, NEW t \in Topics, NEW n \in Sizes, CreateLocal(b, t, n)
      PROVE  /\ part' = part
             /\ \A c \in Brokers, u \in Topics : epoch'[c][u] >= epoch[c][u]
  <2>1. ASSUME NEW o \in Objects PROVE part'[o] = part[o]
    <3>1. CASE o[1] = b /\ o[2] = t /\ o[3] = epoch[b][t] + 1 /\ o[4] \in PartitionsOf(n)
      <4>1. part'[o] = NewPartition
        BY <1>2, <3>1 DEF CreateLocal
      <4>2. o[3] > epoch[o[1]][o[2]]
        BY <3>1, <1>1
      <4>3. part[o] = NewPartition
        BY <4>2 DEF LogInv, Fresh
      <4>4. QED
        BY <4>1, <4>3
    <3>2. CASE ~ (o[1] = b /\ o[2] = t /\ o[3] = epoch[b][t] + 1 /\ o[4] \in PartitionsOf(n))
      BY <1>2, <3>2 DEF CreateLocal
    <3>3. QED
      BY <3>1, <3>2
  <2>2. part \in [Objects -> PartitionState] /\ part' = [o \in Objects |-> part'[o]]
    BY <1>1, <1>2 DEF CreateLocal
  <2>3. part' = part
    BY <2>1, <2>2
  <2>4. \A c \in Brokers, u \in Topics : epoch'[c][u] >= epoch[c][u]
    BY <1>1, <1>2, ConstantsAssumption DEF CreateLocal
  <2>5. QED
    BY <2>3, <2>4
<1>3. \A b \in Brokers, t \in Topics : epoch[b][t] >= epoch[b][t]
  BY <1>1, ConstantsAssumption
<1>4. ASSUME NEW th \in Threads, Handler(th)
      PROVE  /\ part' = part /\ acks' = acks
             /\ \A b \in Brokers, t \in Topics : epoch'[b][t] >= epoch[b][t]
  <2>1. CASE SyncCreate(th)
    <3> DEFINE r == pc[th]
    <3>1. r \in Requests /\ WellFormed(r) /\ r.at = "syncCreate"
      BY <1>1, <2>1, IdleStage DEF SyncCreate, Slot, Stages
    <3>2. r.b \in Brokers /\ r.t \in Topics /\ r.n \in Sizes
      BY <3>1 DEF Requests, WellFormed
    <3>3. acks' = acks /\ (CreateLocal(r.b, r.t, r.n) \/ UNCHANGED memoryVars)
      BY <2>1 DEF SyncCreate
    <3> HIDE DEF r
    <3>4. QED
      BY <3>2, <3>3, <1>2, <1>3 DEF memoryVars
  <2>2. CASE ~ SyncCreate(th)
    BY <1>3, <1>4, <2>2 DEF Handler, FetchMeta, Lookup, ReadPartition, SendReply,
       RegisterTopic, RollbackTopic, StoreAssignments, DeleteLocal, memoryVars
  <2>3. QED
    BY <2>1, <2>2
<1>5. ASSUME NEW th \in Threads, Request(th)
      PROVE  /\ part' = part /\ acks' = acks
             /\ \A b \in Brokers, t \in Topics : epoch'[b][t] >= epoch[b][t]
  <2>1. ASSUME NEW b \in Brokers, NEW t \in Topics, NEW n \in Sizes, CreateTopic(th, b, t, n)
        PROVE  /\ part' = part /\ acks' = acks
               /\ \A c \in Brokers, u \in Topics : epoch'[c][u] >= epoch[c][u]
    BY <2>1, <1>2 DEF CreateTopic
  <2>2. QED
    BY <1>3, <1>5, <2>1
    DEF Request, ProduceMessage, ConsumeMessages, GetTopicMetadata, memoryVars
<1>6. ASSUME NEW b \in Brokers, Crash(b)
      PROVE  part' = part /\ acks' = acks /\ epoch' = epoch
  BY <1>6 DEF Crash
<1>7. CASE UNCHANGED vars
  BY <1>3, <1>7 DEF vars
<1>8. QED
  BY <1>3, <1>4, <1>5, <1>6, <1>7 DEF Next

\* The part of LogInv that does not look at the handlers.
Logs == Fresh /\ Contiguity /\ AckedReadable /\ AckedOnce /\ Retained /\ Complete

\* Steps that leave the objects and their acknowledgements alone keep Logs.
LEMMA LogsKept ==
  ASSUME LogInv, TypeInv', part' = part, acks' = acks,
         \A b \in Brokers, t \in Topics : epoch'[b][t] >= epoch[b][t]
  PROVE  Logs'
<1>1. Contiguity' /\ AckedReadable' /\ AckedOnce' /\ Retained' /\ Complete'
  BY DEF LogInv, Contiguity, AckedReadable, AckedOnce, Retained, Complete, BaseOffset
<1>2. Fresh'
  <2> SUFFICES ASSUME NEW o \in Objects, o[3] > epoch'[o[1]][o[2]]
               PROVE  part[o] = NewPartition
    BY DEF Fresh
  <2>1. o[1] \in Brokers /\ o[2] \in Topics /\ o[3] \in Int
    BY DEF Objects
  <2>2. /\ epoch'[o[1]][o[2]] \in Int /\ epoch[o[1]][o[2]] \in Int
        /\ epoch'[o[1]][o[2]] >= epoch[o[1]][o[2]]
    BY <2>1, ConstantsAssumption DEF LogInv, TypeInv, TypeOK
  <2>3. o[3] > epoch[o[1]][o[2]]
    BY <2>1, <2>2
  <2>4. QED
    BY <2>3 DEF LogInv, Fresh
<1>3. QED
  BY <1>1, <1>2 DEF Logs

\* What an append does to the log it goes to, and to nothing else.
LEMMA AppendEffect ==
  ASSUME LogInv, NEW th \in Threads, AppendToPartition(th)
  PROVE  LET o == Target(pc[th])
             a == [obj |-> o, Offset |-> part[o].Offset, id |-> pc[th].arg]
         IN  /\ o \in Objects /\ a \in Ack /\ pc[th].arg \in 1 .. MaxSent
             /\ pc[th].e <= epoch[pc[th].b][pc[th].t]
             /\ pc[th] \in Requests
             /\ acks' = acks \union {a}
             /\ part'[o] = AppendMessage(part[o], pc[th].arg)
             /\ \A q \in Objects : q # o => part'[q] = part[q]
             /\ epoch' = epoch
<1> DEFINE r == pc[th]
           o == Target(r)
<1>1. TypeInv
  BY DEF LogInv
<1>2. r \in Requests /\ r.arg \in 1 .. MaxSent /\ o \in Objects /\ r.at = "access"
  BY <1>1, IdleStage DEF AppendToPartition, Slot, Stages, TypeInv, TypeOK, WellFormed
<1>3. r.e <= epoch[r.b][r.t]
  BY <1>2 DEF LogInv, Reached
<1>4. /\ part' = [part EXCEPT ![o] = AppendMessage(part[o], r.arg)]
      /\ acks' = acks \union {[obj |-> o, Offset |-> part[o].Offset, id |-> r.arg]}
      /\ epoch' = epoch
  BY <1>1, <1>2 DEF AppendToPartition, TypeInv, TypeOK
<1>5. part \in [Objects -> PartitionState] /\ part[o].Offset \in Nat
  BY <1>1, <1>2 DEF TypeInv, TypeOK, PartitionState
<1> HIDE DEF r, o
<1>6. [obj |-> o, Offset |-> part[o].Offset, id |-> r.arg] \in Ack
  BY <1>2, <1>5 DEF Ack
<1>7. /\ part'[o] = AppendMessage(part[o], r.arg)
      /\ \A q \in Objects : q # o => part'[q] = part[q]
  BY <1>2, <1>4, <1>5
<1>8. QED
  BY <1>2, <1>3, <1>4, <1>6, <1>7 DEF o, r

\* An append keeps the logs: the new message gets the offset the log ended at,
\* which no producer was given before, and it is what that offset reads.
LEMMA LogsAppended ==
  ASSUME LogInv, TypeInv', NEW th \in Threads, AppendToPartition(th)
  PROVE  /\ Logs'
         /\ acks \subseteq acks'
         /\ \A o \in Objects : Base(part'[o]) >= Base(part[o])
<1> DEFINE o  == Target(pc[th])
           a  == [obj |-> o, Offset |-> part[o].Offset, id |-> pc[th].arg]
           id == pc[th].arg
<1>1. /\ o \in Objects /\ a \in Ack /\ id \in 1 .. MaxSent
      /\ pc[th].e <= epoch[pc[th].b][pc[th].t] /\ pc[th] \in Requests
      /\ acks' = acks \union {a}
      /\ part'[o] = AppendMessage(part[o], id)
      /\ \A q \in Objects : q # o => part'[q] = part[q]
      /\ epoch' = epoch
  BY AppendEffect
<1>2. /\ o[1] = pc[th].b /\ o[2] = pc[th].t /\ o[3] = pc[th].e
  BY DEF Target
<1>3. a.obj = o /\ a.Offset = part[o].Offset /\ a.id = id
  OBVIOUS
<1> HIDE DEF o, a, id
<1>4. /\ part \in [Objects -> PartitionState] /\ acks \subseteq Ack
      /\ part' \in [Objects -> PartitionState]
      /\ epoch \in [Brokers -> [Topics -> 0 .. MaxEpochs]]
  BY DEF LogInv, TypeInv, TypeOK
<1>5. \A q \in Objects : part[q] \in PartitionState /\ Contiguous(part[q])
                         /\ part[q].Offset \in Nat /\ Len(part[q].messages) \in Nat
                         /\ Base(part[q]) \in Int
  BY <1>4 DEF LogInv, Contiguity, PartitionState, Base
<1>6. id \in Nat
  BY <1>1
<1>7. /\ part'[o] \in PartitionState
      /\ Contiguous(part'[o])
      /\ part'[o].Offset = part[o].Offset + 1
      /\ Len(part'[o].messages) >= 1 /\ Len(part'[o].messages) \in Nat
      /\ part'[o].messages[Len(part'[o].messages)] = [Offset |-> part[o].Offset, id |-> id]
      /\ Base(part'[o]) \in {Base(part[o]), Base(part[o]) + 1}
      /\ \A i \in 1 .. (Len(part'[o].messages) - 1) :
           /\ i + Base(part'[o]) - Base(part[o]) \in 1 .. Len(part[o].messages)
           /\ part'[o].messages[i] = part[o].messages[i + Base(part'[o]) - Base(part[o])]
  <2>1. Len(part'[o].messages) \in Nat
    BY <1>1, <1>4 DEF PartitionState
  <2>2. QED
    BY <2>1, <1>1, <1>5, <1>6, AppendMessageProperties, SMTT(20)
<1>8. \A q \in Objects : Base(part'[q]) >= Base(part[q])
  BY <1>1, <1>5, <1>7
<1>9. acks \subseteq acks'
  BY <1>1
<1>10. Fresh'
  <2>1. ~ (o[3] > epoch'[o[1]][o[2]])
    <3>1. pc[th].e \in Int /\ epoch[pc[th].b][pc[th].t] \in Int
      BY <1>1, <1>4, ConstantsAssumption DEF Requests
    <3>2. QED
      BY <3>1, <1>1, <1>2
  <2>2. QED
    BY <2>1, <1>1 DEF Fresh, LogInv
<1>11. Contiguity'
  <2>1. \A q \in Objects : Contiguous(part'[q])
    BY <1>1, <1>5, <1>7
  <2>2. QED
    BY <2>1 DEF Contiguity, Contiguous, Base
<1>12. \A c \in acks : c \in Ack /\ c.Offset < part[c.obj].Offset /\ c.Offset \in Nat
                       /\ c.obj \in Objects
  BY <1>4 DEF LogInv, AckedReadable, Ack
<1>13. AckedOnce'
  <2>1. \A c \in acks : ~ (c.obj = a.obj /\ c.Offset = a.Offset)
    <3> TAKE c \in acks
    <3>1. c.obj = o => c.Offset < part[o].Offset /\ c.Offset \in Nat
      BY <1>12
    <3>2. QED
      BY <3>1, <1>1, <1>3, <1>5
  <2>2. \A c, d \in acks : c.obj = d.obj /\ c.Offset = d.Offset => c = d
    BY DEF LogInv, AckedOnce
  <2>3. \A c, d \in acks' : c.obj = d.obj /\ c.Offset = d.Offset => c = d
    BY <1>1, <2>1, <2>2
  <2>4. QED
    BY <2>3 DEF AckedOnce
<1>14. Retained'
  <2> SUFFICES ASSUME NEW q \in Objects, NEW i \in 1 .. Len(part'[q].messages)
               PROVE  [obj |-> q, Offset |-> part'[q].messages[i].Offset,
                       id |-> part'[q].messages[i].id] \in acks'
    BY DEF Retained
  <2>1. CASE q # o
    BY <2>1, <1>1 DEF LogInv, Retained
  <2>2. CASE q = o /\ i = Len(part'[o].messages)
    <3>1. part'[q].messages[i].Offset = part[o].Offset /\ part'[q].messages[i].id = id
      BY <2>2, <1>7
    <3>2. QED
      BY <3>1, <2>2, <1>1 DEF a, id
  <2>3. CASE q = o /\ i # Len(part'[o].messages)
    <3>1. i \in 1 .. (Len(part'[o].messages) - 1)
      BY <2>3, <1>7
    <3>2. PICK j \in 1 .. Len(part[o].messages) : part'[o].messages[i] = part[o].messages[j]
      BY <3>1, <1>7
    <3>3. [obj |-> o, Offset |-> part[o].messages[j].Offset,
           id |-> part[o].messages[j].id] \in acks
      BY <1>1 DEF LogInv, Retained
    <3>4. QED
      BY <3>2, <3>3, <2>3, <1>9
  <2>4. QED
    BY <2>1, <2>2, <2>3
<1>15. Complete'
  <2> SUFFICES ASSUME NEW q \in Objects, NEW k \in 1 .. part'[q].Offset
               PROVE  \E c \in acks' : c.obj = q /\ c.Offset = k - 1
    BY DEF Complete
  <2>1. CASE q # o
    BY <2>1, <1>1 DEF LogInv, Complete
  <2>2. CASE q = o /\ k = part[o].Offset + 1
    BY <2>2, <1>1, <1>3, <1>5
  <2>3. CASE q = o /\ k # part[o].Offset + 1
    <3>1. k \in 1 .. part[o].Offset
      BY <2>3, <1>1, <1>5, <1>7
    <3>2. QED
      BY <3>1, <2>3, <1>1, <1>9 DEF LogInv, Complete
  <2>4. QED
    BY <2>1, <2>2, <2>3
<1>16. AckedReadable'
  <2> SUFFICES ASSUME NEW c \in acks'
               PROVE  /\ c.Offset < part'[c.obj].Offset
                      /\ c.Offset >= Base(part'[c.obj]) =>
                           part'[c.obj].messages[c.Offset - Base(part'[c.obj]) + 1].id = c.id
    BY DEF AckedReadable, BaseOffset, Base
  <2>1. CASE c \in acks /\ c.obj # o
    BY <2>1, <1>1, <1>12 DEF LogInv, AckedReadable, BaseOffset, Base
  <2>2. CASE c \in acks /\ c.obj = o
    <3>1. c.Offset < part[o].Offset /\ c.Offset \in Nat
      BY <2>2, <1>12
    <3> DEFINE i == c.Offset - Base(part'[o]) + 1
    <3>2. Base(part'[o]) \in Int /\ Base(part[o]) \in Int
          /\ Base(part'[o]) = part[o].Offset + 1 - Len(part'[o].messages)
      BY <1>1, <1>5, <1>7 DEF Base
    <3>3. c.Offset < part'[o].Offset
      BY <3>1, <1>1, <1>5, <1>7
    <3>4. ASSUME c.Offset >= Base(part'[o])
          PROVE  part'[o].messages[i].id = c.id
      <4>1. i \in 1 .. (Len(part'[o].messages) - 1)
        BY <3>1, <3>2, <3>4, <1>1, <1>5, <1>7, SMTT(20)
      <4>2. i + Base(part'[o]) - Base(part[o]) = c.Offset - Base(part[o]) + 1
        BY <3>1, <3>2
      <4>3. part'[o].messages[i] = part[o].messages[c.Offset - Base(part[o]) + 1]
        BY <4>1, <4>2, <1>7, SMTT(20)
      <4>4. c.Offset >= Base(part[o])
        BY <3>1, <3>2, <3>4, <1>1, <1>8
      <4>5. part[o].messages[c.Offset - Base(part[o]) + 1].id = c.id
        BY <4>4, <2>2 DEF LogInv, AckedReadable, BaseOffset, Base
      <4>6. QED
        BY <4>3, <4>5
    <3>5. QED
      BY <3>3, <3>4, <2>2
  <2>3. CASE c = a
    <3>1. c.obj = o /\ c.Offset = part[o].Offset /\ c.id = id
      BY <2>3, <1>3
    <3>2. Base(part'[o]) = part[o].Offset + 1 - Len(part'[o].messages)
      BY <1>1, <1>5, <1>7 DEF Base
    <3>3. c.Offset - Base(part'[o]) + 1 = Len(part'[o].messages)
      BY <3>1, <3>2, <1>1, <1>5, <1>7
    <3>4. QED
      BY <3>1, <3>3, <1>1, <1>5, <1>7
  <2>4. QED
    BY <2>1, <2>2, <2>3, <1>1
<1>17. QED
  BY <1>8, <1>9, <1>10, <1>11, <1>13, <1>14, <1>15, <1>16 DEF Logs

\* A handler that holds a partition pointer or an answer got it in this step by
\* its own lookup or read, or holds it unchanged.
LEMMA HandlersKept ==
  ASSUME TypeInv, TypeInv', [Next]_vars
  PROVE  \A h \in Threads : pc'[h].at \in {"access", "reply"} =>
           \/ pc'[h] = pc[h]
           \/ pc'[h].at = "access" /\ pc'[h].e = epoch'[pc'[h].b][pc'[h].t]
           \/ ReadPartition(h)
<1> DEFINE Kept(h) == pc'[h].at \in {"access", "reply"} =>
                        \/ pc'[h] = pc[h]
                        \/ pc'[h].at = "access" /\ pc'[h].e = epoch'[pc'[h].b][pc'[h].t]
                        \/ ReadPartition(h)
<1>1. pc \in [Threads -> Slot]
  BY DEF TypeInv, TypeOK, Slot
<1>2. ASSUME NEW th \in Threads, NEW q, pc' = [pc EXCEPT ![th] = q],
             q.at \notin {"access", "reply"}
      PROVE  \A h \in Threads : Kept(h)
  BY <1>1, <1>2
<1>3. Idle.at \notin {"access", "reply"}
  BY IdleStage
<1>4. \A b, t : AfterGetTopic(b, t) \notin {"access", "reply"}
  BY DEF AfterGetTopic
<1>5. ASSUME NEW th \in Threads, Done(th)
      PROVE  \A h \in Threads : Kept(h)
  BY <1>2, <1>3, <1>5 DEF Done
<1>6. ASSUME NEW th \in Threads, NEW s \in Stages \ {"access", "reply"}, GoTo(th, s),
             pc[th].at \in Stages
      PROVE  \A h \in Threads : Kept(h)
  <2> DEFINE q == [pc[th] EXCEPT !.at = s]
  <2>1. q.at = s
    BY <1>1, <1>6, IdleStage, StageChange
  <2>2. pc' = [pc EXCEPT ![th] = q]
    BY <1>6 DEF GoTo
  <2> HIDE DEF q
  <2>3. QED
    BY <2>1, <2>2, <1>2
<1>7. ASSUME NEW th \in Threads, Request(th)
      PROVE  \A h \in Threads : Kept(h)
  <2>1. PICK s, op, b, t, p, n, arg :
          /\ s \notin {"access", "reply"}
          /\ pc' = [pc EXCEPT ![th] = NewRequest(s, op, b, t, p, n, arg)]
    BY <1>4, <1>7 DEF Request, ProduceMessage, ConsumeMessages, GetTopicMetadata,
       CreateTopic, Arrive
  <2>2. NewRequest(s, op, b, t, p, n, arg).at = s
    BY DEF NewRequest
  <2>3. QED
    BY <2>1, <2>2, <1>2
<1>8. ASSUME NEW th \in Threads, FetchMeta(th)
      PROVE  \A h \in Threads : Kept(h)
  <2>1. pc[th].at \in Stages
    BY <1>8 DEF FetchMeta, Stages
  <2>2. CASE GoTo(th, "lookup")
    BY <2>1, <2>2, <1>6 DEF Stages
  <2>3. CASE pc' = [pc EXCEPT ![th].at = "syncCreate", ![th].n = meta[pc[th].t]]
    <3> DEFINE q == [pc[th] EXCEPT !.at = "syncCreate", !.n = meta[pc[th].t]]
    <3>1. pc[th] \in Requests
      BY <1>1, <2>1, IdleStage
    <3>2. q.at = "syncCreate"
      BY <3>1 DEF Requests
    <3>3. pc' = [pc EXCEPT ![th] = q]
      BY <2>3, <1>1
    <3> HIDE DEF q
    <3>4. QED
      BY <3>2, <3>3, <1>2
  <2>4. QED
    BY <1>8, <2>2, <2>3 DEF FetchMeta
<1>9. ASSUME NEW th \in Threads, SyncCreate(th) \/ RegisterTopic(th)
      PROVE  \A h \in Threads : Kept(h)
  BY <1>6, <1>9 DEF SyncCreate, RegisterTopic, Stages
<1>10. ASSUME NEW th \in Threads, Lookup(th)
       PROVE  \A h \in Threads : Kept(h)
  <2>1. CASE Done(th)
    BY <2>1, <1>5
  <2>2. CASE pc' = [pc EXCEPT ![th].at = "access", ![th].e = epoch[pc[th].b][pc[th].t]]
    <3> DEFINE e == epoch[pc[th].b][pc[th].t]
    <3>1. pc[th] \in Requests
      BY <1>1, <1>10, IdleStage DEF Lookup, Stages
    <3>2. pc'[th] = [pc[th] EXCEPT !.at = "access", !.e = e]
          /\ \A h \in Threads : h # th => pc'[h] = pc[h]
      BY <2>2, <1>1
    <3> HIDE DEF e
    <3>3. pc'[th].at = "access" /\ pc'[th].e = e /\ pc'[th].b = pc[th].b /\ pc'[th].t = pc[th].t
      BY <3>1, <3>2 DEF Requests
    <3>4. epoch' = epoch
      BY <1>10 DEF Lookup, memoryVars
    <3>5. QED
      BY <3>2, <3>3, <3>4 DEF e
  <2>3. QED
    BY <1>10, <2>1, <2>2 DEF Lookup
<1>11. ASSUME NEW th \in Threads, ReadPartition(th)
       PROVE  \A h \in Threads : Kept(h)
  <2>1. \A h \in Threads : h # th => pc'[h] = pc[h]
    BY <1>1, <1>11 DEF ReadPartition
  <2>2. QED
    BY <2>1, <1>11
<1>12. ASSUME NEW b \in Brokers, Crash(b)
       PROVE  \A h \in Threads : Kept(h)
  <2>1. \A h \in Threads : pc'[h] \in {Idle, pc[h]}
    BY <1>12 DEF Crash
  <2>2. QED
    BY <2>1, <1>3
<1>13. CASE UNCHANGED vars
  BY <1>13 DEF vars
<1>14. ASSUME NEW th \in Threads, Handler(th)
       PROVE  \A h \in Threads : Kept(h)
  BY <1>5, <1>8, <1>9, <1>10, <1>11, <1>14
  DEF Handler, AppendToPartition, SendReply, RollbackTopic, StoreAssignments
<1>15. CASE \E th \in Threads : Handler(th)
  BY <1>14, <1>15
<1>16. CASE \E th \in Threads : Request(th)
  BY <1>7, <1>16
<1>17. CASE \E b \in Brokers : Crash(b)
  BY <1>12, <1>17
<1>18. \A h \in Threads : Kept(h)
  BY <1>13, <1>15, <1>16, <1>17 DEF Next
<1>19. QED
  BY <1>18

\* A pointer read by a lookup is the current one, and epochs only grow.
LEMMA ReachedKept ==
  ASSUME LogInv, TypeInv', [Next]_vars,
         \A b \in Brokers, t \in Topics : epoch'[b][t] >= epoch[b][t]
  PROVE  Reached'
<1>1. TypeInv
  BY DEF LogInv
<1>2. \A h \in Threads : pc[h] \in Slot /\ pc'[h] \in Slot
  BY <1>1 DEF TypeInv, TypeOK, Slot
<1>3. SUFFICES ASSUME NEW h \in Threads, pc'[h].at \in {"access", "reply"}
               PROVE  pc'[h].e <= epoch'[pc'[h].b][pc'[h].t]
  BY DEF Reached
<1>4. pc'[h] \in Requests
  BY <1>2, <1>3, IdleStage DEF Stages
<1>5. /\ pc'[h].e \in Int /\ pc'[h].b \in Brokers /\ pc'[h].t \in Topics
      /\ epoch'[pc'[h].b][pc'[h].t] \in Int /\ epoch[pc'[h].b][pc'[h].t] \in Int
  BY <1>1, <1>4, ConstantsAssumption DEF Requests, TypeInv, TypeOK
<1>6. CASE pc'[h] = pc[h]
  <2>1. pc[h].e <= epoch[pc[h].b][pc[h].t]
    BY <1>3, <1>6 DEF LogInv, Reached
  <2>2. QED
    BY <2>1, <1>5, <1>6
<1>7. CASE pc'[h].e = epoch'[pc'[h].b][pc'[h].t]
  BY <1>5, <1>7
<1>8. CASE ReadPartition(h)
  <2>1. pc[h] \in Requests /\ pc[h].at = "access"
    BY <1>2, <1>8, IdleStage DEF ReadPartition, Stages
  <2>2. /\ pc'[h].e = pc[h].e /\ pc'[h].b = pc[h].b /\ pc'[h].t = pc[h].t
        /\ epoch' = epoch
    <3> DEFINE ms == FetchMessages(part[Target(pc[h])], pc[h].arg, FetchMax)
    <3>1. pc'[h] = [pc[h] EXCEPT !.at = "reply", !.reply = ms] /\ epoch' = epoch
      BY <1>1, <1>8 DEF ReadPartition, memoryVars, TypeInv, TypeOK
    <3> HIDE DEF ms
    <3>2. QED
      BY <2>1, <3>1 DEF Requests
  <2>3. pc[h].e <= epoch[pc[h].b][pc[h].t]
    BY <2>1 DEF LogInv, Reached
  <2>4. QED
    BY <2>2, <2>3
<1>9. QED
  BY <1>1, <1>3, <1>6, <1>7, <1>8, HandlersKept

\* What FetchSound asks of one answer.
SoundReply(r) ==
  LET o  == Target(r)
      ms == r.reply IN
  /\ Len(ms) <= FetchMax
  /\ \A i \in 1 .. Len(ms) :
       /\ ms[i].Offset = ms[1].Offset + i - 1
       /\ ms[i].Offset >= r.arg
       /\ [obj |-> o, Offset |-> ms[i].Offset, id |-> ms[i].id] \in acks
  /\ \A off \in r.arg .. (ms[1].Offset - 1) : off < BaseOffset(o)

\* A read under the lock gives a sound answer.
LEMMA ReadIsSound ==
  ASSUME LogInv, NEW r \in Requests, Target(r) \in Objects,
         NEW ms, ms = FetchMessages(part[Target(r)], r.arg, FetchMax), ms # <<>>
  PROVE  /\ Len(ms) <= FetchMax
         /\ \A i \in 1 .. Len(ms) :
              /\ ms[i].Offset = ms[1].Offset + i - 1
              /\ ms[i].Offset >= r.arg
              /\ [obj |-> Target(r), Offset |-> ms[i].Offset, id |-> ms[i].id] \in acks
         /\ \A off \in r.arg .. (ms[1].Offset - 1) : off < BaseOffset(Target(r))
<1> DEFINE o == Target(r)
           q == part[o]
<1>1. /\ q \in PartitionState /\ Contiguous(q) /\ r.arg \in Int
      /\ Base(q) \in Int /\ Len(q.messages) \in Nat
  BY DEF LogInv, TypeInv, TypeOK, Contiguity, Requests, PartitionState, Base
<1>2. ms \in Seq(Message) /\ Len(ms) \in Nat /\ Len(ms) >= 1
  <2>1. ms \in Seq(Message)
    BY <1>1, FetchMessagesProperties, ConstantsAssumption
  <2>2. QED
    BY <2>1, EmptySeq, LenProperties
<1>3. PICK first \in 1 .. Len(q.messages) :
        /\ q.messages[first].Offset >= r.arg
        /\ \A j \in 1 .. (first - 1) : q.messages[j].Offset < r.arg
        /\ Len(ms) <= FetchMax
        /\ Len(ms) + first - 1 <= Len(q.messages)
        /\ \A i \in 1 .. Len(ms) : ms[i] = q.messages[first + i - 1]
  <2> HIDE DEF q
  <2>1. FetchMax \in Int /\ ms = FetchMessages(q, r.arg, FetchMax)
    BY ConstantsAssumption DEF q
  <2>2. FetchMessages(q, r.arg, FetchMax) # <<>> =>
          \E first \in 1 .. Len(q.messages) :
            /\ q.messages[first].Offset >= r.arg
            /\ \A j \in 1 .. (first - 1) : q.messages[j].Offset < r.arg
            /\ Len(FetchMessages(q, r.arg, FetchMax)) <= FetchMax
            /\ Len(FetchMessages(q, r.arg, FetchMax)) + first - 1 <= Len(q.messages)
            /\ \A i \in 1 .. Len(FetchMessages(q, r.arg, FetchMax)) :
                 FetchMessages(q, r.arg, FetchMax)[i] = q.messages[first + i - 1]
    BY <1>1, <2>1, FetchMessagesProperties
  <2>3. QED
    BY <2>1, <2>2
<1>4. \A i \in 1 .. Len(q.messages) :
        /\ q.messages[i].Offset = Base(q) + i - 1
        /\ [obj |-> o, Offset |-> q.messages[i].Offset, id |-> q.messages[i].id] \in acks
  BY <1>1 DEF Contiguous, LogInv, Retained
<1> HIDE DEF o, q
<1>5. \A i \in 1 .. Len(ms) :
        /\ first + i - 1 \in 1 .. Len(q.messages)
        /\ ms[i].Offset = Base(q) + first + i - 2
  <2> TAKE i \in 1 .. Len(ms)
  <2>1. first + i - 1 \in 1 .. Len(q.messages)
    BY <1>1, <1>2, <1>3
  <2>2. ms[i] = q.messages[first + i - 1]
    BY <1>3
  <2>3. q.messages[first + i - 1].Offset = Base(q) + (first + i - 1) - 1
    BY <2>1, <1>4
  <2>4. QED
    BY <2>1, <2>2, <2>3, <1>1
<1>6. 1 \in 1 .. Len(ms) /\ ms[1].Offset = Base(q) + first - 1
  <2>1. 1 \in 1 .. Len(ms)
    BY <1>2
  <2>2. ms[1].Offset = Base(q) + first + 1 - 2
    BY <2>1, <1>5
  <2>3. QED
    BY <2>1, <2>2, <1>1
<1>7. Base(q) + first - 1 >= r.arg
  BY <1>3, <1>4
<1>8. ASSUME NEW i \in 1 .. Len(ms)
      PROVE  /\ ms[i].Offset = ms[1].Offset + i - 1
             /\ ms[i].Offset >= r.arg
             /\ [obj |-> o, Offset |-> ms[i].Offset, id |-> ms[i].id] \in acks
  <2>1. ms[i].Offset = ms[1].Offset + i - 1 /\ ms[i].Offset >= r.arg
    <3>1. ms[i].Offset = Base(q) + first + i - 2
      BY <1>5
    <3>2. QED
      BY <3>1, <1>1, <1>2, <1>6, <1>7, SMTT(20)
  <2>2. ms[i] = q.messages[first + i - 1]
    BY <1>3
  <2>3. QED
    BY <2>1, <2>2, <1>4, <1>5
<1>9. ASSUME NEW off \in r.arg .. (ms[1].Offset - 1)
      PROVE  off < Base(q)
  <2> SUFFICES ASSUME off >= Base(q) PROVE FALSE
    BY <1>1, <1>6
  <2> DEFINE j == off - Base(q) + 1
  <2>1. j \in 1 .. (first - 1)
    BY <1>1, <1>6
  <2>2. j \in 1 .. Len(q.messages) /\ Base(q) + j - 1 = off
    BY <2>1, <1>1, <1>3
  <2> HIDE DEF j
  <2>3. q.messages[j].Offset < r.arg /\ q.messages[j].Offset = off
    BY <2>1, <2>2, <1>3, <1>4
  <2>4. QED
    BY <2>3, <1>1, <1>6
<1>10. QED
  BY <1>3, <1>8, <1>9 DEF o, q, BaseOffset, Base

\* A sound answer stays sound while other handlers append and trim.
LEMMA FetchSoundKept ==
  ASSUME LogInv, TypeInv', [Next]_vars, acks \subseteq acks',
         \A o \in Objects : Base(part'[o]) >= Base(part[o])
  PROVE  FetchSound'
<1>1. TypeInv
  BY DEF LogInv
<1>2. \A h \in Threads : pc[h] \in Slot /\ pc'[h] \in Slot /\ WellFormed(pc[h])
  BY <1>1 DEF TypeInv, TypeOK, Slot
<1>3. \A o \in Objects : Base(part'[o]) \in Int /\ Base(part[o]) \in Int
  BY <1>1 DEF TypeInv, TypeOK, PartitionState, Base
<1>4. SUFFICES ASSUME NEW h \in Threads, pc'[h].at = "reply", pc'[h].reply # <<>>
               PROVE  LET o  == Target(pc'[h])
                          ms == pc'[h].reply
                      IN  /\ Len(ms) <= FetchMax
                          /\ \A i \in 1 .. Len(ms) :
                               /\ ms[i].Offset = ms[1].Offset + i - 1
                               /\ ms[i].Offset >= pc'[h].arg
                               /\ [obj |-> o, Offset |-> ms[i].Offset, id |-> ms[i].id] \in acks'
                          /\ \A off \in pc'[h].arg .. (ms[1].Offset - 1) : off < Base(part'[o])
  BY DEF FetchSound, BaseOffset, Base, Target
<1>5. ASSUME NEW r \in Requests, Target(r) \in Objects, NEW ms \in Seq(Message),
             \/ SoundReply(r) /\ ms = r.reply
             \/ ms = FetchMessages(part[Target(r)], r.arg, FetchMax),
             ms # <<>>
      PROVE  /\ Len(ms) <= FetchMax
             /\ \A i \in 1 .. Len(ms) :
                  /\ ms[i].Offset = ms[1].Offset + i - 1
                  /\ ms[i].Offset >= r.arg
                  /\ [obj |-> Target(r), Offset |-> ms[i].Offset, id |-> ms[i].id] \in acks'
             /\ \A off \in r.arg .. (ms[1].Offset - 1) : off < Base(part'[Target(r)])
  <2>1. /\ Len(ms) <= FetchMax
        /\ \A i \in 1 .. Len(ms) :
             /\ ms[i].Offset = ms[1].Offset + i - 1
             /\ ms[i].Offset >= r.arg
             /\ [obj |-> Target(r), Offset |-> ms[i].Offset, id |-> ms[i].id] \in acks
        /\ \A off \in r.arg .. (ms[1].Offset - 1) : off < Base(part[Target(r)])
    BY <1>5, ReadIsSound DEF SoundReply, BaseOffset, Base
  <2>2. r.arg \in Int
    BY DEF Requests
  <2>3. \A off \in r.arg .. (ms[1].Offset - 1) : off < Base(part'[Target(r)])
    <3> TAKE off \in r.arg .. (ms[1].Offset - 1)
    <3>1. off < Base(part[Target(r)])
      BY <2>1
    <3>2. off \in Int
      OBVIOUS
    <3>3. QED
      BY <3>1, <3>2, <1>3, <1>5
  <2>4. QED
    BY <2>1, <2>3
<1>6. pc'[h] \in Requests
  BY <1>2, <1>4, IdleStage DEF Stages
<1>7. CASE pc'[h] = pc[h]
  <2>1. /\ pc[h] \in Requests /\ Target(pc[h]) \in Objects
        /\ pc[h].reply \in Seq(Message) /\ SoundReply(pc[h])
    BY <1>2, <1>4, <1>6, <1>7 DEF WellFormed, Requests, LogInv, FetchSound, SoundReply
  <2>2. QED
    BY <2>1, <1>4, <1>5, <1>7
<1>8. CASE ReadPartition(h)
  <2> DEFINE r  == pc[h]
             ms == FetchMessages(part[Target(r)], r.arg, FetchMax)
  <2>1. r \in Requests /\ Target(r) \in Objects
    BY <1>2, <1>8, IdleStage DEF ReadPartition, Stages, WellFormed
  <2>2. pc'[h] = [r EXCEPT !.at = "reply", !.reply = ms]
    BY <1>1, <1>8 DEF ReadPartition, TypeInv, TypeOK
  <2>3. ms \in Seq(Message)
    BY <2>1, FetchMessagesProperties, ConstantsAssumption
    DEF TypeInv, TypeOK, Requests, LogInv
  <2>4. ms = FetchMessages(part[Target(r)], r.arg, FetchMax)
    OBVIOUS
  <2> HIDE DEF ms, r
  <2>5. pc'[h].reply = ms /\ pc'[h].arg = r.arg /\ Target(pc'[h]) = Target(r)
    BY <2>1, <2>2 DEF Requests, Target
  <2>6. QED
    BY <2>1, <2>3, <2>4, <2>5, <1>4, <1>5
<1>9. QED
  BY <1>1, <1>4, <1>7, <1>8, HandlersKept

\* One step keeps LogInv.
LEMMA NextLogInv == LogInv /\ [Next]_vars => LogInv'
<1> SUFFICES ASSUME LogInv, [Next]_vars PROVE LogInv'
  OBVIOUS
<1>1. TypeInv /\ TypeInv'
  BY NextTypeInv DEF LogInv
<1>2. \A o \in Objects : Base(part[o]) \in Int
  BY <1>1 DEF TypeInv, TypeOK, PartitionState, Base
<1>3. \A b \in Brokers, t \in Topics : epoch[b][t] \in Int
  BY <1>1, ConstantsAssumption DEF TypeInv, TypeOK
<1>4. /\ Logs' /\ acks \subseteq acks'
      /\ \A o \in Objects : Base(part'[o]) >= Base(part[o])
      /\ \A b \in Brokers, t \in Topics : epoch'[b][t] >= epoch[b][t]
  <2>1. CASE \E th \in Threads : AppendToPartition(th)
    <3>1. PICK th \in Threads : AppendToPartition(th)
      BY <2>1
    <3>2. Logs' /\ acks \subseteq acks' /\ \A o \in Objects : Base(part'[o]) >= Base(part[o])
      BY <3>1, <1>1, LogsAppended
    <3>3. epoch' = epoch
      BY <3>1 DEF AppendToPartition
    <3>4. QED
      BY <3>2, <3>3, <1>3
  <2>2. CASE ~ \E th \in Threads : AppendToPartition(th)
    <3>1. /\ part' = part /\ acks' = acks
          /\ \A b \in Brokers, t \in Topics : epoch'[b][t] >= epoch[b][t]
      BY <2>2, LogsUnchanged
    <3>2. Logs'
      BY <3>1, <1>1, LogsKept
    <3>3. QED
      BY <3>1, <3>2, <1>2
  <2>3. QED
    BY <2>1, <2>2
<1>5. Reached'
  BY <1>1, <1>4, ReachedKept
<1>6. FetchSound'
  BY <1>1, <1>4, FetchSoundKept
<1>7. QED
  BY <1>1, <1>4, <1>5, <1>6 DEF LogInv, Logs

\* The log invariant is an invariant of the broker.
LEMMA LogInvHolds == Spec => []LogInv
BY InitLogInv, NextLogInv, PTL DEF Spec

\* The retained messages of every partition object are consecutively numbered
\* up to its Offset and never more than maxMessages (ProduceMessage).
THEOREM LogsStayContiguous == Spec => []LogContiguous
<1>1. LogInv => LogContiguous
  BY DEF LogInv, Contiguity, Contiguous, LogContiguous, BaseOffset, Base
<1>2. QED
  BY <1>1, LogInvHolds, PTL

\* An acknowledged offset reads the acknowledged message until it is trimmed,
\* whatever creations, rollbacks, fetches and crashes come between
\* (ProduceMessage, ConsumeMessages).
THEOREM AcknowledgedStaysReadable == Spec => []AckedReadable
<1>1. LogInv => AckedReadable
  BY DEF LogInv
<1>2. QED
  BY <1>1, LogInvHolds, PTL

\* No partition object hands out an offset twice, with any number of producers
\* in flight (ProduceMessage).
THEOREM OffsetsHandedOutOnce == Spec => []AckedOnce
<1>1. LogInv => AckedOnce
  BY DEF LogInv
<1>2. QED
  BY <1>1, LogInvHolds, PTL

\* Every answer to a fetch is a gap-free run of acknowledged messages from the
\* first offset still retained, although it is sent after the partition's lock
\* was released (ConsumeMessages).
THEOREM FetchesAreSound == Spec => []FetchSound
<1>1. LogInv => FetchSound
  BY DEF LogInv
<1>2. QED
  BY <1>1, LogInvHolds, PTL

-----------------------------------------------------------------------------
(* Partition objects implement the abstract append-only log.               *)

\* One offset of one object, one acknowledgement: CHOOSE finds that one.
LEMMA ChosenAck ==
  ASSUME NEW A, \A a, c \in A : a.obj = c.obj /\ a.Offset = c.Offset => a = c,
         NEW a \in A
  PROVE  (CHOOSE c \in A : c.obj = a.obj /\ c.Offset = a.Offset) = a
OBVIOUS

\* The ids of a set of acknowledgements that has one for each offset below n.
LEMMA IdsInOrder ==
  ASSUME NEW A, \A a, c \in A : a.obj = c.obj /\ a.Offset = c.Offset => a = c,
         NEW S, \A a \in A : a.id \in S,
         NEW o, NEW n \in Nat,
         \A k \in 1 .. n : \E a \in A : a.obj = o /\ a.Offset = k - 1
  PROVE  LET h == [i \in 1 .. n |-> (CHOOSE a \in A : a.obj = o /\ a.Offset = i - 1).id]
         IN  /\ h \in Seq(S) /\ Len(h) = n
             /\ \A i \in 1 .. n : \A a \in A :
                  a.obj = o /\ a.Offset = i - 1 => h[i] = a.id
<1> DEFINE f(i) == (CHOOSE a \in A : a.obj = o /\ a.Offset = i - 1).id
           h    == [i \in 1 .. n |-> f(i)]
<1>1. \A i \in 1 .. n : \A a \in A : a.obj = o /\ a.Offset = i - 1 => f(i) = a.id
  <2> TAKE i \in 1 .. n
  <2> TAKE a \in A
  <2>1. HAVE a.obj = o /\ a.Offset = i - 1
  <2>2. (CHOOSE c \in A : c.obj = o /\ c.Offset = i - 1) = a
    BY <2>1
  <2>3. QED
    BY <2>2
<1>2. \A i \in 1 .. n : f(i) \in S
  <2> TAKE i \in 1 .. n
  <2>1. PICK a \in A : a.obj = o /\ a.Offset = i - 1
    OBVIOUS
  <2>2. QED
    BY <2>1, <1>1
<1> HIDE DEF f
<1>3. h \in [1 .. n -> S] /\ \A i \in 1 .. n : h[i] = f(i)
  BY <1>2
<1> HIDE DEF h
<1>4. h \in Seq(S)
  BY <1>3
<1>5. Len(h) = n
  BY <1>3, <1>4
<1>6. QED
  BY <1>1, <1>3, <1>4, <1>5 DEF h, f

History == [o \in Objects |-> AckedHistory(o)]

HistoryOK ==
  \A o \in Objects :
    /\ History[o] \in Seq(1 .. MaxSent)
    /\ Len(History[o]) = part[o].Offset /\ part[o].Offset \in Nat
    /\ \A i \in 1 .. part[o].Offset : \A a \in acks :
         a.obj = o /\ a.Offset = i - 1 => History[o][i] = a.id

\* The history of an object is a sequence of message identities, one per offset.
LEMMA HistoryType ==
  LogInv => HistoryOK
<1> SUFFICES ASSUME LogInv, NEW o \in Objects
             PROVE  /\ History[o] \in Seq(1 .. MaxSent)
                    /\ Len(History[o]) = part[o].Offset /\ part[o].Offset \in Nat
                    /\ \A i \in 1 .. part[o].Offset : \A a \in acks :
                         a.obj = o /\ a.Offset = i - 1 => History[o][i] = a.id
  BY DEF HistoryOK
<1> DEFINE n == part[o].Offset
           h == [i \in 1 .. n |-> (CHOOSE a \in acks : a.obj = o /\ a.Offset = i - 1).id]
<1>1. n \in Nat
  BY DEF LogInv, TypeInv, TypeOK, PartitionState
<1>2. \A a, c \in acks : a.obj = c.obj /\ a.Offset = c.Offset => a = c
  BY DEF LogInv, AckedOnce
<1>3. \A a \in acks : a.id \in 1 .. MaxSent
  BY DEF LogInv, TypeInv, TypeOK, Ack
<1>4. \A k \in 1 .. n : \E a \in acks : a.obj = o /\ a.Offset = k - 1
  BY DEF LogInv, Complete
<1>5. History[o] = h
  BY DEF History, AckedHistory
<1> HIDE DEF n
<1>6. /\ h \in Seq(1 .. MaxSent) /\ Len(h) = n
      /\ \A i \in 1 .. n : \A a \in acks : a.obj = o /\ a.Offset = i - 1 => h[i] = a.id
  BY <1>1, <1>2, <1>3, <1>4, IdsInOrder
<1> HIDE DEF h
<1>7. QED
  BY <1>1, <1>5, <1>6 DEF n

\* A step of the broker appends one message to one object's history or leaves
\* all histories alone.
LEMMA HistoryStep ==
  ASSUME LogInv, LogInv', [Next]_vars
  PROVE  \/ \E o \in Objects, v \in 1 .. MaxSent :
              History' = [History EXCEPT ![o] = Append(@, v)]
         \/ History' = History
<1>1. \A o \in Objects :
         /\ History[o] \in Seq(1 .. MaxSent)
         /\ Len(History[o]) = part[o].Offset /\ part[o].Offset \in Nat
         /\ \A i \in 1 .. part[o].Offset : \A a \in acks :
              a.obj = o /\ a.Offset = i - 1 => History[o][i] = a.id
  BY HistoryType DEF HistoryOK
<1>2. \A o \in Objects :
         /\ History'[o] \in Seq(1 .. MaxSent)
         /\ Len(History'[o]) = part'[o].Offset /\ part'[o].Offset \in Nat
         /\ \A i \in 1 .. part'[o].Offset : \A a \in acks' :
              a.obj = o /\ a.Offset = i - 1 => History'[o][i] = a.id
  <2>1. HistoryOK'
    BY HistoryType, PTL
  <2>2. QED
    BY <2>1 DEF HistoryOK
<1>3. /\ DOMAIN History = Objects /\ DOMAIN History' = Objects
      /\ History = [q \in Objects |-> History[q]]
      /\ History' = [q \in Objects |-> History'[q]]
  BY DEF History
<1>4. CASE \E th \in Threads : AppendToPartition(th)
  <2>1. PICK th \in Threads : AppendToPartition(th)
    BY <1>4
  <2>2. PICK o \in Objects, id \in 1 .. MaxSent, a \in Ack :
          /\ a.obj = o /\ a.Offset = part[o].Offset /\ a.id = id
          /\ acks' = acks \union {a}
          /\ part'[o] = AppendMessage(part[o], id)
          /\ \A q \in Objects : q # o => part'[q] = part[q]
    <3> DEFINE a == [obj |-> Target(pc[th]), Offset |-> part[Target(pc[th])].Offset,
                     id |-> pc[th].arg]
    <3>1. a.obj = Target(pc[th]) /\ a.Offset = part[Target(pc[th])].Offset /\ a.id = pc[th].arg
      OBVIOUS
    <3>2. /\ Target(pc[th]) \in Objects /\ pc[th].arg \in 1 .. MaxSent /\ a \in Ack
          /\ acks' = acks \union {a}
          /\ part'[Target(pc[th])] = AppendMessage(part[Target(pc[th])], pc[th].arg)
          /\ \A q \in Objects : q # Target(pc[th]) => part'[q] = part[q]
      BY <2>1, AppendEffect
    <3> HIDE DEF a
    <3>3. QED
      BY <3>1, <3>2
  <2>3. a \in acks' /\ acks \subseteq acks'
    BY <2>2
  <2>4. part'[o].Offset = part[o].Offset + 1
    BY <2>2 DEF AppendMessage
  <2>5. ASSUME NEW q \in Objects, NEW i \in 1 .. part[q].Offset
        PROVE  i \in 1 .. part'[q].Offset /\ History'[q][i] = History[q][i]
    <3>1. PICK c \in acks : c.obj = q /\ c.Offset = i - 1
      BY DEF LogInv, Complete
    <3>2. History[q][i] = c.id
      BY <3>1, <1>1
    <3>3. i \in 1 .. part'[q].Offset
      BY <1>1, <2>2, <2>4
    <3>4. History'[q][i] = c.id
      BY <3>1, <3>3, <1>2, <2>3
    <3>5. QED
      BY <3>2, <3>3, <3>4
  <2>6. ASSUME NEW q \in Objects, q # o
        PROVE  History'[q] = History[q]
    <3>1. Len(History[q]) = Len(History'[q])
          /\ Len(History[q]) = part[q].Offset
      BY <2>2, <2>6, <1>1, <1>2
    <3>2. \A i \in 1 .. Len(History[q]) : History'[q][i] = History[q][i]
      BY <3>1, <2>5
    <3>3. History[q] \in Seq(1 .. MaxSent) /\ History'[q] \in Seq(1 .. MaxSent)
      BY <1>1, <1>2
    <3>4. QED
      BY <3>1, <3>2, <3>3, SeqEqual
  <2>7. History'[o] = Append(History[o], id)
    <3> DEFINE s == History[o]
               n == part[o].Offset
    <3>1. s \in Seq(1 .. MaxSent) /\ Len(s) = n /\ n \in Nat
      BY <1>1
    <3>2. /\ Append(s, id) \in Seq(1 .. MaxSent)
          /\ Len(Append(s, id)) = n + 1
          /\ \A i \in 1 .. n : Append(s, id)[i] = s[i]
          /\ Append(s, id)[n + 1] = id
      BY <3>1, AppendProperties
    <3>3. History'[o] \in Seq(1 .. MaxSent) /\ Len(History'[o]) = n + 1
      BY <1>2, <2>4
    <3>4. History'[o][n + 1] = id
      <4>1. n + 1 \in 1 .. part'[o].Offset /\ (n + 1) - 1 = n
        BY <3>1, <2>4
      <4>2. QED
        BY <4>1, <1>2, <2>2, <2>3
    <3>5. \A i \in 1 .. n : History'[o][i] = s[i]
      BY <2>5
    <3>6. \A i \in 1 .. (n + 1) : History'[o][i] = Append(s, id)[i]
      <4> TAKE i \in 1 .. (n + 1)
      <4>1. i \in 1 .. n \/ i = n + 1
        BY <3>1
      <4>2. QED
        BY <4>1, <3>2, <3>4, <3>5
    <3> HIDE DEF s, n
    <3>7. QED
      BY <3>2, <3>3, <3>6, SeqEqual DEF s
  <2>8. \A q \in Objects : History'[q] = [History EXCEPT ![o] = Append(@, id)][q]
    BY <1>3, <2>6, <2>7
  <2>9. History' = [History EXCEPT ![o] = Append(@, id)]
    BY <1>3, <2>8
  <2>10. QED
    BY <2>2, <2>9
<1>5. CASE ~ \E th \in Threads : AppendToPartition(th)
  <2>1. part' = part /\ acks' = acks
    BY <1>5, LogsUnchanged
  <2>2. QED
    BY <2>1 DEF History, AckedHistory
<1>6. QED
  BY <1>4, <1>5

\* Every partition object implements the abstract append-only log: each step of
\* the brokers appends one message at the end of one log or leaves all logs as
\* they are (ProduceMessage against everything else a broker does).
THEOREM ObjectsImplementLogs == Spec => ObjectsAreLogs
<1>1. Init => ObjectLogs!Init
  <2> SUFFICES ASSUME Init PROVE ObjectLogs!Init
    OBVIOUS
  <2>1. \A o \in Objects : part[o].Offset = 0
    BY DEF Init, NewPartition
  <2>2. \A o \in Objects : AckedHistory(o) = <<>>
    BY <2>1 DEF AckedHistory
  <2>3. QED
    BY <2>2 DEF ObjectLogs!Init
<1>2. LogInv /\ LogInv' /\ [Next]_vars
        => [ObjectLogs!Next]_([o \in Objects |-> AckedHistory(o)])
  BY HistoryStep DEF History, ObjectLogs!Next, ObjectLogs!AppendTo
<1>3. QED
  BY <1>1, <1>2, LogInvHolds, PTL DEF Spec, ObjectsAreLogs, ObjectLogs!Spec
-----------------------------------------------------------------------------
(* Topics and their registration.                                          *)

Creates(r) == r.at \in {"register", "rollback"}

\* Until a creation is registered or rolled back, the broker's own copy of the
\* topic is the one the creation made: nothing else replaces or removes it.
CreatorOwns ==
  \A th \in Threads :
    Creates(pc[th]) => size[pc[th].b][pc[th].t] = pc[th].n

\* A broker runs one creation of a topic at a time.
OneCreator ==
  \A th, h \in Threads :
    /\ Creates(pc[th]) /\ Creates(pc[h])
    /\ pc[th].b = pc[h].b /\ pc[th].t = pc[h].t
    => th = h

\* A partition count held across a lock release is the registered one.
HeldIsRegistered ==
  \A th \in Threads :
    pc[th].at \in {"syncCreate", "assign"} => meta[pc[th].t] = pc[th].n

TopicInv ==
  /\ CreatorOwns /\ OneCreator /\ HeldIsRegistered
  /\ LocalAgreesWithMeta /\ PlacedWithinMeta

\* Which broker creates which topic, as a fact about the handlers alone.
LEMMA CreatingKept ==
  ASSUME NEW th \in Threads, pc \in [Threads -> Slot], NEW q \in Slot,
         pc' = [pc EXCEPT ![th] = q], ~ Creates(pc[th]), ~ Creates(q),
         NEW b \in Brokers, NEW t \in Topics
  PROVE  Creating(b, t)' <=> Creating(b, t)
<1>1. \A h \in Threads : pc'[h] = IF h = th THEN q ELSE pc[h]
  OBVIOUS
<1>2. QED
  BY <1>1 DEF Creating, Creates

\* A handler that neither creates a topic nor starts to keeps the topics, if
\* what it takes along is what etcd says.
LEMMA TopicsKept ==
  ASSUME TopicInv, TypeInv, NEW th \in Threads, NEW q \in Slot,
         pc' = [pc EXCEPT ![th] = q], ~ Creates(pc[th]), ~ Creates(q),
         q.at \in {"syncCreate", "assign"} => meta[q.t] = q.n,
         UNCHANGED <<size, meta, placed>>
  PROVE  TopicInv'
<1>1. pc \in [Threads -> Slot]
  BY DEF TypeInv, TypeOK, Slot
<1>2. \A h \in Threads : pc'[h] = IF h = th THEN q ELSE pc[h]
  BY <1>1
<1>3. \A b \in Brokers, t \in Topics : Creating(b, t)' <=> Creating(b, t)
  BY <1>1, CreatingKept
<1>4. CreatorOwns' /\ OneCreator' /\ HeldIsRegistered'
  BY <1>2 DEF TopicInv, CreatorOwns, OneCreator, HeldIsRegistered, Creates
<1>5. LocalAgreesWithMeta'
  BY <1>3 DEF TopicInv, LocalAgreesWithMeta, Settled
<1>6. QED
  BY <1>4, <1>5 DEF TopicInv, PlacedWithinMeta

\* The topic invariant holds at the start: no topic, no handler.
LEMMA InitTopicInv == Init => TopicInv
BY IdleStage, ConstantsAssumption
DEF Init, TopicInv, CreatorOwns, OneCreator, HeldIsRegistered, Creates,
    LocalAgreesWithMeta, Settled, PlacedWithinMeta

\* One step keeps TopicInv.
LEMMA NextTopicInv == TopicInv /\ TypeInv /\ [Next]_vars => TopicInv'
<1> SUFFICES ASSUME TopicInv, TypeInv, [Next]_vars PROVE TopicInv'
  OBVIOUS
<1> USE IdleStage
<1>t. /\ pc \in [Threads -> Slot]
      /\ size \in [Brokers -> [Topics -> Sizes \union {Absent}]]
      /\ meta \in [Topics -> Sizes \union {Absent}]
      /\ placed \in [Topics -> SUBSET Partitions]
      /\ \A th \in Threads : WellFormed(pc[th])
      /\ Absent \notin Sizes
  BY ConstantsAssumption DEF TypeInv, TypeOK, Slot, Absent
<1>i. Idle \in Slot /\ ~ Creates(Idle) /\ Idle.at \notin {"syncCreate", "assign"}
  BY DEF Slot, Creates

<1>1. ASSUME NEW th \in Threads, NEW b \in Brokers, NEW t \in Topics,
             \/ \E p \in Partitions \union {-1} :
                  \/ ProduceMessage(th, b, t, p)
                  \/ \E from \in FetchFrom : ConsumeMessages(th, b, t, p, from)
             \/ GetTopicMetadata(th, b, t)
      PROVE  TopicInv'
  <2>1. \E op, p, arg :
          /\ Arrive(th, op, b, t, p, arg)
          /\ UNCHANGED <<size, meta, placed>>
    <3>1. CASE GetTopicMetadata(th, b, t)
      BY <3>1 DEF GetTopicMetadata, coordVars, memoryVars
    <3>2. ASSUME NEW p \in Partitions \union {-1}, ProduceMessage(th, b, t, p)
          PROVE  \E op, k, arg :
                   Arrive(th, op, b, t, k, arg) /\ UNCHANGED <<size, meta, placed>>
      BY <3>2 DEF ProduceMessage, coordVars, memoryVars
    <3>3. ASSUME NEW p \in Partitions \union {-1}, NEW from \in FetchFrom,
                 ConsumeMessages(th, b, t, p, from)
          PROVE  \E op, k, arg :
                   Arrive(th, op, b, t, k, arg) /\ UNCHANGED <<size, meta, placed>>
      BY <3>3 DEF ConsumeMessages, coordVars, memoryVars
    <3>4. QED
      BY <1>1, <3>1, <3>2, <3>3
  <2>a. PICK op, p, arg :
          /\ Arrive(th, op, b, t, p, arg)
          /\ UNCHANGED <<size, meta, placed>>
    BY <2>1
  <2> DEFINE q == NewRequest(AfterGetTopic(b, t), op, b, t, p, 0, arg)
  <2>2. q.at \in {"lookup", "fetchMeta"} /\ pc' = [pc EXCEPT ![th] = q]
    BY <2>a DEF Arrive, NewRequest, AfterGetTopic
  <2>3. pc' \in [Threads -> Slot]
    BY NextTypeInv DEF TypeInv, TypeOK, Slot
  <2> HIDE DEF q
  <2>4. q \in Slot
    BY <2>2, <2>3, <1>t
  <2>5. pc[th] = Idle
    BY <2>a DEF Arrive
  <2>6. QED
    BY <2>a, <2>2, <2>4, <2>5, <1>i, TopicsKept DEF Creates
<1>2. ASSUME NEW th \in Threads, NEW b \in Brokers, NEW t \in Topics,
             NEW n \in Sizes, CreateTopic(th, b, t, n)
      PROVE  TopicInv'
  <2> DEFINE q == NewRequest("register", "create", b, t, 0, n, epoch[b][t] + 1)
  <2>1. /\ q.at = "register" /\ q.b = b /\ q.t = t /\ q.n = n
        /\ \A h \in Threads : pc'[h] = IF h = th THEN q ELSE pc[h]
    BY <1>2, <1>t DEF CreateTopic, NewRequest
  <2>2. /\ pc[th] = Idle /\ size[b][t] = Absent
        /\ size' = [size EXCEPT ![b][t] = n]
        /\ UNCHANGED <<meta, placed>>
    BY <1>2 DEF CreateTopic, CreateLocal, coordVars
  <2> HIDE DEF q
  <2>3. \A h \in Threads : Creates(pc[h]) => ~ (pc[h].b = b /\ pc[h].t = t)
    <3> SUFFICES ASSUME NEW h \in Threads, Creates(pc[h]), pc[h].b = b, pc[h].t = t
                 PROVE  FALSE
      OBVIOUS
    <3>1. pc[h].n \in Sizes
      BY <1>t DEF WellFormed, Creates
    <3>2. QED
      BY <3>1, <2>2, <1>t DEF TopicInv, CreatorOwns
  <2>4. \A c \in Brokers, u \in Topics :
          size'[c][u] = IF c = b /\ u = t THEN n ELSE size[c][u]
    BY <2>2, <1>t
  <2>5. CreatorOwns'
    <3> SUFFICES ASSUME NEW h \in Threads, Creates(pc'[h])
                 PROVE  size'[pc'[h].b][pc'[h].t] = pc'[h].n
      BY DEF CreatorOwns, Creates
    <3>1. CASE h = th
      BY <3>1, <2>1, <2>4
    <3>2. CASE h # th
      <4>1. pc[h] \in Requests /\ pc'[h] = pc[h]
        BY <3>2, <2>1, <1>t DEF Creates, Stages
      <4>2. QED
        BY <4>1, <2>3, <2>4 DEF TopicInv, CreatorOwns, Requests
    <3>3. QED
      BY <3>1, <3>2
  <2>6. OneCreator'
    BY <2>1, <2>3 DEF TopicInv, OneCreator, Creates
  <2>7. HeldIsRegistered'
    BY <2>1, <2>2 DEF TopicInv, HeldIsRegistered
  <2>8. LocalAgreesWithMeta'
    <3> SUFFICES ASSUME NEW c \in Brokers, NEW u \in Topics,
                        size'[c][u] # Absent, ~ Creating(c, u)'
                 PROVE  size'[c][u] = meta'[u]
      BY DEF LocalAgreesWithMeta, Settled
    <3>1. ~ (c = b /\ u = t)
      BY <2>1 DEF Creating
    <3>2. ~ Creating(c, u)
      BY <2>1, <2>2, <1>i DEF Creating, Creates
    <3>3. QED
      BY <3>1, <3>2, <2>2, <2>4 DEF TopicInv, LocalAgreesWithMeta, Settled
  <2>9. QED
    BY <2>2, <2>5, <2>6, <2>7, <2>8 DEF TopicInv, PlacedWithinMeta
<1>3. ASSUME NEW th \in Threads, FetchMeta(th)
      PROVE  TopicInv'
  <2>1. pc[th] \in Requests /\ ~ Creates(pc[th])
    BY <1>3, <1>t DEF FetchMeta, Stages, Creates
  <2>2. UNCHANGED <<size, meta, placed>>
    BY <1>3 DEF FetchMeta, coordVars, memoryVars
  <2>3. \E q \in Slot : /\ pc' = [pc EXCEPT ![th] = q]
                        /\ \/ q.at = "lookup"
                           \/ q.at = "syncCreate" /\ q.n = meta[q.t]
    <3>1. CASE GoTo(th, "lookup")
      <4> DEFINE q == [pc[th] EXCEPT !.at = "lookup"]
      <4>1. q \in Slot /\ q.at = "lookup"
        BY <2>1, StageChange DEF Stages, Slot
      <4>2. QED
        BY <3>1, <4>1 DEF GoTo
    <3>2. CASE /\ meta[pc[th].t] # Absent
               /\ pc' = [pc EXCEPT ![th].at = "syncCreate", ![th].n = meta[pc[th].t]]
      <4> DEFINE m == meta[pc[th].t]
                 q == [pc[th] EXCEPT !.at = "syncCreate", !.n = m]
      <4>1. m \in Nat
        BY <2>1, <3>2, <1>t, ConstantsAssumption DEF Requests
      <4>2. pc' = [pc EXCEPT ![th] = q]
        BY <3>2, <2>1, <1>t
      <4>3. q.t = pc[th].t /\ q.at = "syncCreate"
        BY <2>1 DEF Requests
      <4>4. q.n = m
        <5> HIDE DEF m
        <5>1. QED
          BY <2>1 DEF Requests
      <4> HIDE DEF m
      <4>5. q \in Slot
        BY <2>1, <4>1 DEF Requests, Stages, Slot
      <4> HIDE DEF q
      <4>6. q.n = meta[q.t]
        BY <4>3, <4>4 DEF m
      <4>7. QED
        BY <4>2, <4>3, <4>5, <4>6
    <3>3. QED
      BY <1>3, <3>1, <3>2 DEF FetchMeta
  <2>4. QED
    BY <2>1, <2>2, <2>3, TopicsKept DEF Creates
<1>4. ASSUME NEW th \in Threads, SyncCreate(th)
      PROVE  TopicInv'
  <2> DEFINE r == pc[th]
             q == [r EXCEPT !.at = "lookup"]
  <2>1. r \in Requests /\ r.at = "syncCreate" /\ WellFormed(r)
    BY <1>4, <1>t DEF SyncCreate, Stages
  <2>2. q \in Slot /\ q.at = "lookup" /\ pc' = [pc EXCEPT ![th] = q]
    BY <2>1, <1>4, StageChange DEF SyncCreate, GoTo, Stages, Slot
  <2>3. r.b \in Brokers /\ r.t \in Topics /\ r.n \in Sizes /\ meta[r.t] = r.n
    BY <2>1 DEF Requests, WellFormed, TopicInv, HeldIsRegistered
  <2>4. ~ Creates(r) /\ ~ Creates(q)
    BY <2>1, <2>2 DEF Creates
  <2>5. UNCHANGED <<meta, placed>>
    BY <1>4 DEF SyncCreate, coordVars
  <2>6. CASE size[r.b][r.t] # Absent
    <3>1. UNCHANGED size
      BY <2>6, <1>4 DEF SyncCreate, memoryVars
    <3> HIDE DEF q, r
    <3>2. QED
      BY <3>1, <2>2, <2>4, <2>5, TopicsKept DEF r
  <2>7. CASE size[r.b][r.t] = Absent
    <3>1. size' = [size EXCEPT ![r.b][r.t] = r.n]
      BY <2>7, <1>4 DEF SyncCreate, CreateLocal
    <3>2. \A h \in Threads : pc'[h] = IF h = th THEN q ELSE pc[h]
      BY <2>2, <1>t
    <3> HIDE DEF q, r
    <3>3. \A c \in Brokers, u \in Topics :
            size'[c][u] = IF c = r.b /\ u = r.t THEN r.n ELSE size[c][u]
      BY <3>1, <2>3, <1>t
    <3>4. \A h \in Threads : Creates(pc[h]) => ~ (pc[h].b = r.b /\ pc[h].t = r.t)
      <4> SUFFICES ASSUME NEW h \in Threads, Creates(pc[h]),
                          pc[h].b = r.b, pc[h].t = r.t
                   PROVE  FALSE
        OBVIOUS
      <4>1. pc[h].n \in Sizes
        BY <1>t DEF WellFormed, Creates
      <4>2. QED
        BY <4>1, <2>7, <1>t DEF TopicInv, CreatorOwns
    <3>5. CreatorOwns'
      <4> SUFFICES ASSUME NEW h \in Threads, Creates(pc'[h])
                   PROVE  size'[pc'[h].b][pc'[h].t] = pc'[h].n
        BY DEF CreatorOwns, Creates
      <4>1. pc'[h] = pc[h]
        BY <3>2, <2>4
      <4>2. pc[h] \in Requests
        BY <4>1, <1>t DEF Creates, Stages
      <4>3. QED
        BY <4>1, <4>2, <3>3, <3>4 DEF TopicInv, CreatorOwns, Requests
    <3>6. OneCreator' /\ HeldIsRegistered'
      BY <3>2, <2>2, <2>4, <2>5 DEF TopicInv, OneCreator, HeldIsRegistered, Creates
    <3>7. LocalAgreesWithMeta'
      <4> SUFFICES ASSUME NEW c \in Brokers, NEW u \in Topics,
                          size'[c][u] # Absent, ~ Creating(c, u)'
                   PROVE  size'[c][u] = meta'[u]
        BY DEF LocalAgreesWithMeta, Settled
      <4>1. ~ Creating(c, u)
        BY <3>2, <2>4 DEF Creating, Creates, r
      <4>2. QED
        BY <4>1, <3>3, <2>3, <2>5 DEF TopicInv, LocalAgreesWithMeta, Settled
    <3>8. QED
      BY <3>5, <3>6, <3>7, <2>5 DEF TopicInv, PlacedWithinMeta
  <2>8. QED
    BY <2>6, <2>7

<1>5. ASSUME NEW th \in Threads,
             Lookup(th) \/ AppendToPartition(th) \/ ReadPartition(th) \/ SendReply(th)
      PROVE  TopicInv'
  <2>1. ~ Creates(pc[th]) /\ UNCHANGED <<size, meta, placed>>
    BY <1>5 DEF Lookup, AppendToPartition, ReadPartition, SendReply, Creates,
       coordVars, memoryVars
  <2>2. pc[th] \in Requests
    BY <1>5, <1>t DEF Lookup, AppendToPartition, ReadPartition, SendReply, Stages
  <2>3. PICK q : /\ pc' = [pc EXCEPT ![th] = q]
                 /\ q = Idle \/ q.at \in {"access", "reply"}
    <3>1. CASE pc' = [pc EXCEPT ![th] = Idle]
      BY <3>1
    <3>2. CASE Lookup(th) /\ ~ Done(th)
      <4> DEFINE e == epoch[pc[th].b][pc[th].t]
                 q == [pc[th] EXCEPT !.at = "access", !.e = e]
      <4>1. pc' = [pc EXCEPT ![th] = q]
        BY <3>2, <2>2, <1>t DEF Lookup
      <4>2. q.at = "access"
        BY <2>2 DEF Requests
      <4>3. QED
        BY <4>1, <4>2
    <3>3. CASE ReadPartition(th)
      <4> DEFINE ms == FetchMessages(part[Target(pc[th])], pc[th].arg, FetchMax)
                 q == [pc[th] EXCEPT !.at = "reply", !.reply = ms]
      <4>1. pc' = [pc EXCEPT ![th] = q]
        BY <3>3, <2>2, <1>t DEF ReadPartition
      <4>2. q.at = "reply"
        BY <2>2 DEF Requests
      <4>3. QED
        BY <4>1, <4>2
    <3>4. QED
      BY <1>5, <3>1, <3>2, <3>3 DEF AppendToPartition, SendReply, Done
  <2>4. pc' \in [Threads -> Slot]
    BY NextTypeInv DEF TypeInv, TypeOK, Slot
  <2>5. q \in Slot
    BY <2>3, <2>4, <1>t
  <2>6. QED
    BY <2>1, <2>3, <2>5, TopicsKept DEF Creates
<1>6. ASSUME NEW th \in Threads, RegisterTopic(th)
      PROVE  TopicInv'
  <2> DEFINE r == pc[th]
  <2>1. r \in Requests /\ r.at = "register" /\ WellFormed(r)
    BY <1>6, <1>t DEF RegisterTopic, Stages
  <2>2. r.b \in Brokers /\ r.t \in Topics /\ r.n \in Sizes
    BY <2>1 DEF Requests, WellFormed
  <2>3. UNCHANGED <<placed, size>>
    BY <1>6 DEF RegisterTopic, memoryVars
  <2>4. PICK s \in {"assign", "rollback"} :
          /\ pc' = [pc EXCEPT ![th] = [r EXCEPT !.at = s]]
          /\ \/ meta[r.t] = Absent /\ meta' = [meta EXCEPT ![r.t] = r.n]
             \/ s = "rollback" /\ meta' = meta
    BY <1>6 DEF RegisterTopic, GoTo
  <2> DEFINE q == [r EXCEPT !.at = s]
  <2>5. q.at = s /\ q.b = r.b /\ q.t = r.t /\ q.n = r.n
    BY <2>1 DEF Requests
  <2>6. \A h \in Threads : pc'[h] = IF h = th THEN q ELSE pc[h]
    BY <2>4, <1>t
  <2> HIDE DEF q
  <2>7. meta[r.t] = Absent =>
          /\ \A h \in Threads :
               pc[h].at \in {"syncCreate", "assign"} => pc[h].t # r.t
          /\ \A c \in Brokers : ~ Settled(c, r.t)
          /\ placed[r.t] = {}
    <3> SUFFICES ASSUME meta[r.t] = Absent
                 PROVE  /\ \A h \in Threads :
                             pc[h].at \in {"syncCreate", "assign"} => pc[h].t # r.t
                        /\ \A c \in Brokers : ~ Settled(c, r.t)
                        /\ placed[r.t] = {}
      OBVIOUS
    <3>1. \A h \in Threads :
            pc[h].at \in {"syncCreate", "assign"} => pc[h].t # r.t
      BY <1>t DEF TopicInv, HeldIsRegistered, WellFormed
    <3>2. \A c \in Brokers : ~ Settled(c, r.t)
      BY <2>2, <1>t DEF TopicInv, LocalAgreesWithMeta, Settled
    <3>3. placed[r.t] \subseteq PartitionsOf(Absent)
      BY <2>2 DEF TopicInv, PlacedWithinMeta
    <3>4. PartitionsOf(Absent) = {}
      BY DEF PartitionsOf, Absent
    <3>5. QED
      BY <3>1, <3>2, <3>3, <3>4
  <2>8. \A u \in Topics : meta'[u] = meta[u] \/ (u = r.t /\ meta[u] = Absent /\ meta'[u] = r.n)
    BY <2>2, <2>4, <1>t
  <2>9. s = "assign" => meta'[r.t] = r.n
    BY <2>2, <2>4, <1>t
  <2>o. size[r.b][r.t] = r.n
    BY <2>1 DEF TopicInv, CreatorOwns, Creates
  <2>10. CreatorOwns'
    <3> SUFFICES ASSUME NEW h \in Threads, Creates(pc'[h])
                 PROVE  size'[pc'[h].b][pc'[h].t] = pc'[h].n
      BY DEF CreatorOwns, Creates
    <3>1. CASE h = th
      BY <3>1, <2>3, <2>5, <2>6, <2>o
    <3>2. CASE h # th
      BY <3>2, <2>3, <2>6 DEF TopicInv, CreatorOwns
    <3>3. QED
      BY <3>1, <3>2
  <2>11. OneCreator'
    <3> SUFFICES ASSUME NEW g \in Threads, NEW h \in Threads,
                        Creates(pc'[g]), Creates(pc'[h]),
                        pc'[g].b = pc'[h].b, pc'[g].t = pc'[h].t
                 PROVE  g = h
      BY DEF OneCreator, Creates
    <3>1. \A k \in Threads : Creates(pc'[k]) =>
            Creates(pc[k]) /\ pc[k].b = pc'[k].b /\ pc[k].t = pc'[k].t
      BY <2>1, <2>5, <2>6 DEF Creates
    <3>2. QED
      BY <3>1 DEF TopicInv, OneCreator
  <2>12. HeldIsRegistered'
    <3> SUFFICES ASSUME NEW h \in Threads, pc'[h].at \in {"syncCreate", "assign"}
                 PROVE  meta'[pc'[h].t] = pc'[h].n
      BY DEF HeldIsRegistered
    <3>1. CASE h = th
      BY <3>1, <2>4, <2>5, <2>6, <2>9
    <3>2. CASE h # th
      <4>1. pc'[h] = pc[h] /\ pc[h] \in Requests
        BY <3>2, <2>6, <1>t DEF Stages
      <4>2. pc[h].t \in Topics /\ meta[pc[h].t] = pc[h].n
        BY <4>1 DEF Requests, TopicInv, HeldIsRegistered
      <4>3. QED
        BY <4>1, <4>2, <2>7, <2>8
    <3>3. QED
      BY <3>1, <3>2
  <2>13. LocalAgreesWithMeta'
    <3> SUFFICES ASSUME NEW c \in Brokers, NEW u \in Topics,
                        size'[c][u] # Absent, ~ Creating(c, u)'
                 PROVE  size'[c][u] = meta'[u]
      BY DEF LocalAgreesWithMeta, Settled
    <3>1. CASE c = r.b /\ u = r.t
      <4>1. ~ Creates(pc'[th])
        BY <3>1, <2>5, <2>6 DEF Creating, Creates
      <4>2. s = "assign"
        BY <4>1, <2>4, <2>5, <2>6 DEF Creates
      <4>3. QED
        BY <4>2, <3>1, <2>3, <2>9, <2>o
    <3>2. CASE ~ (c = r.b /\ u = r.t)
      <4>1. ~ Creating(c, u)
        BY <3>2, <2>6 DEF Creating
      <4>2. Settled(c, u)
        BY <4>1, <2>3 DEF Settled
      <4>3. size[c][u] = meta[u]
        BY <4>2 DEF TopicInv, LocalAgreesWithMeta
      <4>4. meta'[u] = meta[u]
        BY <4>2, <2>7, <2>8
      <4>5. QED
        BY <4>3, <4>4, <2>3
    <3>3. QED
      BY <3>1, <3>2
  <2>14. PlacedWithinMeta'
    <3> SUFFICES ASSUME NEW u \in Topics
                 PROVE  placed'[u] \subseteq PartitionsOf(meta'[u])
      BY DEF PlacedWithinMeta, PartitionsOf
    <3>1. placed'[u] = placed[u]
      BY <2>3
    <3>2. CASE meta'[u] = meta[u]
      BY <3>1, <3>2 DEF TopicInv, PlacedWithinMeta
    <3>3. CASE meta'[u] # meta[u]
      BY <3>1, <3>3, <2>7, <2>8
    <3>4. QED
      BY <3>2, <3>3
  <2>15. QED
    BY <2>10, <2>11, <2>12, <2>13, <2>14 DEF TopicInv
<1>7. ASSUME NEW th \in Threads, RollbackTopic(th)
      PROVE  TopicInv'
  <2> DEFINE r == pc[th]
  <2>1. r \in Requests /\ r.at = "rollback" /\ Creates(r) /\ WellFormed(r)
    BY <1>7, <1>t DEF RollbackTopic, Stages, Creates
  <2>2. r.b \in Brokers /\ r.t \in Topics /\ r.n \in Sizes
    BY <2>1 DEF Requests, WellFormed
  <2>3. \A h \in Threads : pc'[h] = IF h = th THEN Idle ELSE pc[h]
    BY <1>7, <1>t DEF RollbackTopic, Done
  <2>4. UNCHANGED <<meta, placed>>
    BY <1>7 DEF RollbackTopic, coordVars
  <2>5. size[r.b][r.t] # Absent
    BY <2>1, <2>2, <1>t DEF TopicInv, CreatorOwns
  <2>6. \A c \in Brokers, u \in Topics :
          size'[c][u] = IF c = r.b /\ u = r.t THEN Absent ELSE size[c][u]
    BY <2>2, <2>5, <1>7, <1>t DEF RollbackTopic, DeleteLocal
  <2>7. \A h \in Threads : h # th /\ Creates(pc[h]) =>
          ~ (pc[h].b = r.b /\ pc[h].t = r.t)
    BY <2>1 DEF TopicInv, OneCreator
  <2>8. CreatorOwns'
    <3> SUFFICES ASSUME NEW h \in Threads, Creates(pc'[h])
                 PROVE  size'[pc'[h].b][pc'[h].t] = pc'[h].n
      BY DEF CreatorOwns, Creates
    <3>1. h # th /\ pc'[h] = pc[h]
      BY <2>3, <1>i
    <3>2. pc[h] \in Requests
      BY <3>1, <1>t DEF Creates, Stages
    <3>3. QED
      BY <3>1, <3>2, <2>6, <2>7 DEF TopicInv, CreatorOwns, Requests
  <2>9. OneCreator'
    <3>1. \A k \in Threads : Creates(pc'[k]) => pc'[k] = pc[k]
      BY <2>3, <1>i
    <3>2. QED
      BY <3>1 DEF TopicInv, OneCreator, Creates
  <2>10. HeldIsRegistered'
    BY <2>3, <2>4, <1>i DEF TopicInv, HeldIsRegistered
  <2>11. LocalAgreesWithMeta'
    <3> SUFFICES ASSUME NEW c \in Brokers, NEW u \in Topics,
                        size'[c][u] # Absent, ~ Creating(c, u)'
                 PROVE  size'[c][u] = meta'[u]
      BY DEF LocalAgreesWithMeta, Settled
    <3>1. ~ (c = r.b /\ u = r.t)
      BY <2>6
    <3>2. ~ Creating(c, u)
      BY <3>1, <2>3 DEF Creating
    <3>3. QED
      BY <3>1, <3>2, <2>4, <2>6 DEF TopicInv, LocalAgreesWithMeta, Settled
  <2>12. QED
    BY <2>4, <2>8, <2>9, <2>10, <2>11 DEF TopicInv, PlacedWithinMeta
<1>8. ASSUME NEW th \in Threads, StoreAssignments(th)
      PROVE  TopicInv'
  <2> DEFINE r == pc[th]
  <2>1. r \in Requests /\ r.at = "assign" /\ ~ Creates(r)
    BY <1>8, <1>t DEF StoreAssignments, Stages, Creates
  <2>2. r.t \in Topics /\ meta[r.t] = r.n
    BY <2>1 DEF Requests, TopicInv, HeldIsRegistered
  <2>3. /\ \A h \in Threads : pc'[h] = IF h = th THEN Idle ELSE pc[h]
        /\ UNCHANGED <<meta, size>>
    BY <1>8, <1>t DEF StoreAssignments, Done, memoryVars
  <2>4. PICK S \in SUBSET PartitionsOf(r.n) :
          placed' = [placed EXCEPT ![r.t] = @ \union S]
    BY <1>8 DEF StoreAssignments
  <2>5. PlacedWithinMeta'
    <3> SUFFICES ASSUME NEW u \in Topics
                 PROVE  placed'[u] \subseteq PartitionsOf(meta[u])
      BY <2>3 DEF PlacedWithinMeta
    <3>1. placed[u] \subseteq PartitionsOf(meta[u])
      BY DEF TopicInv, PlacedWithinMeta
    <3>2. CASE u = r.t
      BY <3>1, <3>2, <2>2, <2>4, <1>t
    <3>3. CASE u # r.t
      BY <3>1, <3>3, <2>2, <2>4, <1>t
    <3>4. QED
      BY <3>2, <3>3
  <2> HIDE DEF r
  <2>6. \A b \in Brokers, t \in Topics : Creating(b, t)' <=> Creating(b, t)
    BY <2>1, <2>3, <1>i DEF Creating, Creates, r
  <2>7. LocalAgreesWithMeta'
    BY <2>3, <2>6 DEF TopicInv, LocalAgreesWithMeta, Settled
  <2>8. \A k \in Threads :
          Creates(pc'[k]) \/ pc'[k].at \in {"syncCreate", "assign"} => pc'[k] = pc[k]
    BY <2>3, <1>i
  <2>9. CreatorOwns' /\ OneCreator'
    BY <2>3, <2>8 DEF TopicInv, CreatorOwns, OneCreator, Creates
  <2>10. HeldIsRegistered'
    BY <2>3, <2>8 DEF TopicInv, HeldIsRegistered
  <2>11. QED
    BY <2>5, <2>7, <2>9, <2>10 DEF TopicInv
<1>9. ASSUME NEW b \in Brokers, Crash(b)
      PROVE  TopicInv'
  <2>1. /\ \A h \in Threads : pc'[h] = IF pc[h].b = b THEN Idle ELSE pc[h]
        /\ \A c \in Brokers, u \in Topics :
             size'[c][u] = IF c = b THEN Absent ELSE size[c][u]
        /\ UNCHANGED <<meta, placed>>
    BY <1>9, <1>t DEF Crash, coordVars
  <2>2. \A k \in Threads :
          Creates(pc'[k]) \/ pc'[k].at \in {"syncCreate", "assign"}
            => pc'[k] = pc[k] /\ pc[k].b # b
    BY <2>1, <1>i
  <2>3. CreatorOwns'
    <3> SUFFICES ASSUME NEW h \in Threads, Creates(pc'[h])
                 PROVE  size'[pc'[h].b][pc'[h].t] = pc'[h].n
      BY DEF CreatorOwns, Creates
    <3>1. pc'[h] = pc[h] /\ pc[h].b # b
      BY <2>2
    <3>2. pc[h] \in Requests
      BY <3>1, <1>t DEF Creates, Stages
    <3>3. QED
      BY <3>1, <3>2, <2>1 DEF TopicInv, CreatorOwns, Requests
  <2>4. OneCreator'
    BY <2>2 DEF TopicInv, OneCreator, Creates
  <2>5. HeldIsRegistered'
    BY <2>1, <2>2 DEF TopicInv, HeldIsRegistered
  <2>6. LocalAgreesWithMeta'
    <3> SUFFICES ASSUME NEW c \in Brokers, NEW u \in Topics,
                        size'[c][u] # Absent, ~ Creating(c, u)'
                 PROVE  size'[c][u] = meta'[u]
      BY DEF LocalAgreesWithMeta, Settled
    <3>1. c # b
      BY <2>1
    <3>2. ~ Creating(c, u)
      BY <3>1, <2>1 DEF Creating
    <3>3. QED
      BY <3>1, <3>2, <2>1 DEF TopicInv, LocalAgreesWithMeta, Settled
  <2>7. QED
    BY <2>1, <2>3, <2>4, <2>5, <2>6 DEF TopicInv, PlacedWithinMeta
<1>10. CASE UNCHANGED vars
  BY <1>10 DEF vars, TopicInv, CreatorOwns, OneCreator, HeldIsRegistered, Creates,
     LocalAgreesWithMeta, Settled, Creating, PlacedWithinMeta
<1>11. QED
  BY <1>1, <1>2, <1>3, <1>4, <1>5, <1>6, <1>7, <1>8, <1>9, <1>10
  DEF Next, Handler, Request

\* What brokers and etcd say of a topic agrees in every behaviour.
LEMMA TopicInvHolds == Spec => [](TypeInv /\ TopicInv)
<1>1. Init => TypeInv /\ TopicInv
  BY InitTypeInv, InitTopicInv
<1>2. TypeInv /\ TopicInv /\ [Next]_vars => (TypeInv /\ TopicInv)'
  BY NextTypeInv, NextTopicInv
<1>3. QED
  BY <1>1, <1>2, PTL DEF Spec

\* Outside an unfinished creation a broker's idea of a topic is the registered
\* one, and assignments are stored for registered partitions alone, whatever
\* creations race and whatever replies are lost (Server.CreateTopic,
\* syncTopicLocally, CreateTopicMetadata).
THEOREM TopicsStayAgreed == Spec => []TopicsAgree
<1>1. TopicInv => TopicsAgree
  BY DEF TopicInv, TopicsAgree
<1>2. QED
  BY <1>1, TopicInvHolds, PTL

\* An unfinished creation is the broker's latest of its topic.
CreatesLatest ==
  \A th \in Threads :
    Creates(pc[th]) => pc[th].arg = epoch[pc[th].b][pc[th].t]

\* One step keeps CreatesLatest: a topic under creation is not created again.
LEMMA NextCreatesLatest ==
  TypeInv /\ TopicInv /\ CreatesLatest /\ [Next]_vars => CreatesLatest'
<1> SUFFICES ASSUME TypeInv, TopicInv, CreatesLatest, [Next]_vars,
                    NEW h \in Threads, Creates(pc'[h])
             PROVE  pc'[h].arg = epoch'[pc'[h].b][pc'[h].t]
  BY DEF CreatesLatest, Creates
<1> USE IdleStage
<1>t. /\ pc \in [Threads -> Slot]
      /\ size \in [Brokers -> [Topics -> Sizes \union {Absent}]]
      /\ epoch \in [Brokers -> [Topics -> 0 .. MaxEpochs]]
      /\ \A th \in Threads : WellFormed(pc[th])
      /\ Absent \notin Sizes
  BY ConstantsAssumption DEF TypeInv, TypeOK, Slot, Absent
<1>i. ~ Creates(Idle)
  BY DEF Creates
<1>h. Creates(pc[h]) =>
        /\ pc[h] \in Requests
        /\ size[pc[h].b][pc[h].t] # Absent
        /\ pc[h].arg = epoch[pc[h].b][pc[h].t]
  <2>1. Creates(pc[h]) => pc[h] \in Requests
    BY <1>t DEF Creates, Stages
  <2>2. Creates(pc[h]) => pc[h].n \in Sizes
    BY <1>t DEF WellFormed, Creates
  <2>3. QED
    BY <2>1, <2>2, <1>t DEF TopicInv, CreatorOwns, CreatesLatest
<1>k. ASSUME UNCHANGED epoch, Creates(pc[h]), pc'[h].b = pc[h].b,
             pc'[h].t = pc[h].t, pc'[h].arg = pc[h].arg
      PROVE  pc'[h].arg = epoch'[pc'[h].b][pc'[h].t]
  BY <1>k, <1>h
<1>1. ASSUME NEW th \in Threads, NEW b \in Brokers, NEW t \in Topics,
             NEW n \in Sizes, CreateTopic(th, b, t, n)
      PROVE  pc'[h].arg = epoch'[pc'[h].b][pc'[h].t]
  <2> DEFINE q == NewRequest("register", "create", b, t, 0, n, epoch[b][t] + 1)
  <2>1. q.b = b /\ q.t = t /\ q.arg = epoch[b][t] + 1
    BY DEF NewRequest
  <2>2. pc' = [pc EXCEPT ![th] = q] /\ size[b][t] = Absent
    BY <1>1 DEF CreateTopic
  <2> HIDE DEF q
  <2>3. \A c \in Brokers, u \in Topics :
          epoch'[c][u] = IF c = b /\ u = t THEN epoch[b][t] + 1 ELSE epoch[c][u]
    BY <1>1, <1>t DEF CreateTopic, CreateLocal
  <2>4. CASE h = th
    BY <2>1, <2>2, <2>3, <2>4, <1>t
  <2>5. CASE h # th
    <3>1. pc'[h] = pc[h]
      BY <2>2, <2>5, <1>t
    <3>2. pc[h].b \in Brokers /\ pc[h].t \in Topics
      BY <3>1, <1>h DEF Requests
    <3>3. QED
      BY <3>1, <3>2, <2>2, <2>3, <1>h
  <2>6. QED
    BY <2>4, <2>5
<1>2. ASSUME NEW th \in Threads, SyncCreate(th)
      PROVE  pc'[h].arg = epoch'[pc'[h].b][pc'[h].t]
  <2> DEFINE r == pc[th]
  <2>1. r \in Requests /\ r.at = "syncCreate"
    BY <1>2, <1>t DEF SyncCreate, Stages
  <2>2. h # th /\ pc'[h] = pc[h]
    <3>1. pc' = [pc EXCEPT ![th] = [r EXCEPT !.at = "lookup"]]
      BY <1>2 DEF SyncCreate, GoTo
    <3>2. [r EXCEPT !.at = "lookup"].at = "lookup"
      BY <2>1 DEF Requests
    <3>3. QED
      BY <3>1, <3>2, <1>t DEF Creates
  <2>3. r.b \in Brokers /\ r.t \in Topics /\ pc[h].b \in Brokers /\ pc[h].t \in Topics
    BY <2>1, <2>2, <1>h DEF Requests
  <2>4. CASE size[r.b][r.t] # Absent
    BY <2>2, <2>4, <1>2, <1>k DEF SyncCreate, memoryVars
  <2>5. CASE size[r.b][r.t] = Absent
    <3>1. epoch' = [epoch EXCEPT ![r.b][r.t] = @ + 1]
      BY <2>5, <1>2 DEF SyncCreate, CreateLocal
    <3> HIDE DEF r
    <3>2. QED
      BY <3>1, <2>2, <2>3, <2>5, <1>h, <1>t
  <2>6. QED
    BY <2>4, <2>5
<1>3. ASSUME NEW th \in Threads, RegisterTopic(th)
      PROVE  pc'[h].arg = epoch'[pc'[h].b][pc'[h].t]
  <2>1. UNCHANGED epoch /\ pc[th] \in Requests /\ Creates(pc[th])
    BY <1>3, <1>t DEF RegisterTopic, memoryVars, Stages, Creates
  <2>2. PICK s \in Stages : pc' = [pc EXCEPT ![th] = [pc[th] EXCEPT !.at = s]]
    BY <1>3 DEF RegisterTopic, GoTo, Stages
  <2>3. CASE h = th
    <3>1. pc'[h] = [pc[h] EXCEPT !.at = s]
      BY <2>2, <2>3, <1>t
    <3>2. pc'[h].b = pc[h].b /\ pc'[h].t = pc[h].t /\ pc'[h].arg = pc[h].arg
      BY <3>1, <2>1, <2>3, StageChange
    <3>3. QED
      BY <3>2, <2>1, <2>3, <1>k
  <2>4. CASE h # th
    <3>1. pc'[h] = pc[h]
      BY <2>2, <2>4, <1>t
    <3>2. QED
      BY <3>1, <2>1, <1>k
  <2>5. QED
    BY <2>3, <2>4
<1>4. ASSUME NEW th \in Threads, UNCHANGED epoch,
             \/ /\ ~ Creates(pc'[th])
                /\ \A k \in Threads : k # th => pc'[k] = pc[k]
             \/ Done(th) \/ FetchMeta(th) \/ Lookup(th) \/ ReadPartition(th)
      PROVE  pc'[h].arg = epoch'[pc'[h].b][pc'[h].t]
  <2>1. CASE h = th
    <3>1. CASE ~ Creates(pc'[th])
      BY <3>1, <2>1
    <3>2. CASE Done(th)
      BY <3>2, <2>1, <1>i, <1>t DEF Done
    <3>3. CASE FetchMeta(th)
      <4>1. pc[th] \in Requests
        BY <3>3, <1>t DEF FetchMeta, Stages
      <4>2. CASE GoTo(th, "lookup")
        <5>1. pc'[th] = [pc[th] EXCEPT !.at = "lookup"]
          BY <4>2, <1>t DEF GoTo
        <5>2. QED
          BY <5>1, <4>1, <2>1 DEF Requests, Creates
      <4>3. CASE pc' = [pc EXCEPT ![th].at = "syncCreate", ![th].n = meta[pc[th].t]]
        <5> DEFINE m == meta[pc[th].t]
        <5>1. pc'[th] = [pc[th] EXCEPT !.at = "syncCreate", !.n = m]
          BY <4>3, <4>1, <1>t
        <5> HIDE DEF m
        <5>2. pc'[th].at = "syncCreate"
          BY <5>1, <4>1 DEF Requests
        <5>3. QED
          BY <5>2, <2>1 DEF Creates
      <4>4. QED
        BY <3>3, <4>2, <4>3 DEF FetchMeta
    <3>4. CASE Lookup(th)
      <4>1. pc[th] \in Requests
        BY <3>4, <1>t DEF Lookup, Stages
      <4>2. pc'[th].at \in {"access", "idle"}
        BY <4>1, <3>4, <1>t DEF Lookup, Done, Requests
      <4>3. QED
        BY <4>2, <2>1 DEF Creates
    <3>5. CASE ReadPartition(th)
      <4>1. pc[th] \in Requests
        BY <3>5, <1>t DEF ReadPartition, Stages
      <4>2. pc'[th].at = "reply"
        BY <4>1, <3>5, <1>t DEF ReadPartition, Requests
      <4>3. QED
        BY <4>2, <2>1 DEF Creates
    <3>6. QED
      BY <1>4, <3>1, <3>2, <3>3, <3>4, <3>5
  <2>2. CASE h # th
    <3>1. pc'[h] = pc[h]
      BY <1>4, <2>2, <1>t DEF Done, FetchMeta, GoTo, Lookup, ReadPartition
    <3>2. QED
      BY <3>1, <1>4, <1>k
  <2>3. QED
    BY <2>1, <2>2
<1>5. ASSUME NEW b \in Brokers, Crash(b)
      PROVE  pc'[h].arg = epoch'[pc'[h].b][pc'[h].t]
  <2>1. pc'[h] = IF pc[h].b = b THEN Idle ELSE pc[h]
    BY <1>5 DEF Crash
  <2>2. pc'[h] = pc[h] /\ UNCHANGED epoch
    BY <2>1, <1>5, <1>i DEF Crash
  <2>3. QED
    BY <2>2, <1>k
<1>6. CASE UNCHANGED vars
  BY <1>6, <1>k DEF vars
<1>7. ASSUME NEW th \in Threads, NEW b \in Brokers, NEW t \in Topics,
             \/ \E p \in Partitions \union {-1} :
                  \/ ProduceMessage(th, b, t, p)
                  \/ \E from \in FetchFrom : ConsumeMessages(th, b, t, p, from)
             \/ GetTopicMetadata(th, b, t)
      PROVE  pc'[h].arg = epoch'[pc'[h].b][pc'[h].t]
  <2>1. ASSUME NEW op, NEW k, NEW arg, Arrive(th, op, b, t, k, arg), UNCHANGED epoch
        PROVE  pc'[h].arg = epoch'[pc'[h].b][pc'[h].t]
    <3> DEFINE q == NewRequest(AfterGetTopic(b, t), op, b, t, k, 0, arg)
    <3>1. q.at \in {"lookup", "fetchMeta"} /\ pc' = [pc EXCEPT ![th] = q]
      BY <2>1 DEF Arrive, NewRequest, AfterGetTopic
    <3> HIDE DEF q
    <3>2. \A x \in Threads : pc'[x] = IF x = th THEN q ELSE pc[x]
      BY <3>1, <1>t
    <3>3. ~ Creates(pc'[th])
      BY <3>1, <3>2 DEF Creates
    <3>4. QED
      BY <2>1, <3>2, <3>3, <1>4
  <2>2. CASE GetTopicMetadata(th, b, t)
    BY <2>1, <2>2 DEF GetTopicMetadata, memoryVars
  <2>3. ASSUME NEW p \in Partitions \union {-1}, ProduceMessage(th, b, t, p)
        PROVE  pc'[h].arg = epoch'[pc'[h].b][pc'[h].t]
    BY <2>1, <2>3 DEF ProduceMessage, memoryVars
  <2>4. ASSUME NEW p \in Partitions \union {-1}, NEW from \in FetchFrom,
               ConsumeMessages(th, b, t, p, from)
        PROVE  pc'[h].arg = epoch'[pc'[h].b][pc'[h].t]
    BY <2>1, <2>4 DEF ConsumeMessages, memoryVars
  <2>5. QED
    BY <1>7, <2>2, <2>3, <2>4
<1>8. ASSUME NEW th \in Threads,
             \/ FetchMeta(th) \/ Lookup(th) \/ AppendToPartition(th)
             \/ ReadPartition(th) \/ SendReply(th)
             \/ RollbackTopic(th) \/ StoreAssignments(th)
      PROVE  pc'[h].arg = epoch'[pc'[h].b][pc'[h].t]
  <2>1. UNCHANGED epoch
    BY <1>8 DEF FetchMeta, Lookup, AppendToPartition, ReadPartition, SendReply,
       RollbackTopic, DeleteLocal, StoreAssignments, memoryVars
  <2>2. Done(th) \/ FetchMeta(th) \/ Lookup(th) \/ ReadPartition(th)
    BY <1>8 DEF AppendToPartition, SendReply, RollbackTopic, StoreAssignments
  <2>3. QED
    BY <2>1, <2>2, <1>4
<1>9. QED
  BY <1>1, <1>2, <1>3, <1>5, <1>6, <1>7, <1>8 DEF Next, Handler, Request

\* How a step may take away or replace a broker's copy of a topic.
LEMMA TopicGoes ==
  ASSUME TypeInv, CreatesLatest, [Next]_vars, NEW b \in Brokers, NEW t \in Topics,
         size[b][t] # Absent, ~ Crash(b),
         size'[b][t] # size[b][t] \/ epoch'[b][t] # epoch[b][t]
  PROVE  \E th \in Threads :
           /\ pc[th].at = "rollback" /\ pc'[th] = Idle
           /\ pc[th].b = b /\ pc[th].t = t /\ pc[th].arg = epoch[b][t]
<1>1. /\ size \in [Brokers -> [Topics -> Sizes \union {Absent}]]
      /\ epoch \in [Brokers -> [Topics -> 0 .. MaxEpochs]]
      /\ pc \in [Threads -> Slot]
  BY DEF TypeInv, TypeOK, Slot
<1>2. ASSUME NEW th \in Threads, NEW c \in Brokers, NEW u \in Topics, NEW n \in Sizes,
             CreateTopic(th, c, u, n)
      PROVE  FALSE
  BY <1>2, <1>1 DEF CreateTopic, CreateLocal
<1>3. ASSUME NEW th \in Threads, SyncCreate(th)
      PROVE  FALSE
  BY <1>3, <1>1 DEF SyncCreate, CreateLocal, memoryVars
<1>4. ASSUME NEW th \in Threads, RollbackTopic(th)
      PROVE  /\ pc[th].at = "rollback" /\ pc'[th] = Idle
             /\ pc[th].b = b /\ pc[th].t = t /\ pc[th].arg = epoch[b][t]
  <2>1. pc[th].at = "rollback" /\ pc'[th] = Idle
    BY <1>4, <1>1 DEF RollbackTopic, Done
  <2>2. pc[th].b = b /\ pc[th].t = t
    BY <1>4, <1>1 DEF RollbackTopic, DeleteLocal, memoryVars
  <2>3. QED
    BY <2>1, <2>2 DEF CreatesLatest, Creates
<1>5. ASSUME NEW c \in Brokers, Crash(c)
      PROVE  FALSE
  BY <1>5, <1>1 DEF Crash
<1>6. CASE UNCHANGED <<size, epoch>>
  BY <1>6
<1>7. QED
  BY <1>2, <1>3, <1>4, <1>5, <1>6, ZenonT(20)
  DEF Next, Handler, Request, ProduceMessage, ConsumeMessages, GetTopicMetadata,
      FetchMeta, Lookup, AppendToPartition, ReadPartition, SendReply, RegisterTopic,
      StoreAssignments, coordVars, memoryVars, vars

\* A rollback removes the creation of its own request alone: a topic leaves a
\* broker's memory, with its logs, by a crash of that broker or by the error path
\* of the very Server.CreateTopic that made it.
THEOREM RollbacksStayOwn == Spec => RollbacksRemoveOwn
<1>1. Init => CreatesLatest
  BY IdleStage DEF Init, CreatesLatest, Creates
<1>2. TypeInv /\ TopicInv /\ CreatesLatest /\ [Next]_vars => CreatesLatest'
  BY NextCreatesLatest
<1>3. TypeInv /\ CreatesLatest /\ [Next]_vars =>
        \A b \in Brokers, t \in Topics :
          /\ size[b][t] # Absent
          /\ size'[b][t] # size[b][t] \/ epoch'[b][t] # epoch[b][t]
          => \/ Crash(b)
             \/ \E th \in Threads :
                  /\ pc[th].at = "rollback" /\ pc'[th] = Idle
                  /\ pc[th].b = b /\ pc[th].t = t /\ pc[th].arg = epoch[b][t]
  BY TopicGoes
<1>4. QED
  BY <1>1, <1>2, <1>3, TopicInvHolds, PTL DEF Spec, RollbacksRemoveOwn
=============================================================================

--------------------------- MODULE MockCoordinator ---------------------------
(***************************************************************************)
(* The in-memory coordinator of pkg/coordinator/coordinator.go, which      *)
(* cmd/broker/main.go uses with -coordinator-type mock.  Every method runs *)
(* under mc.mu, so a method is one action.                                 *)
(*                                                                         *)
(* Time is abstract: OutOfSession says that a broker's last heartbeat is   *)
(* older than sessionTimeout.  One topic and one consumer group stand for  *)
(* all of them; the maps' random iteration order is a choice.              *)
(*                                                                         *)
(* Covered: every method that changes state; the readers return a variable.*)
(* Not covered: broker host and port, timestamps, the String dump.         *)
(***************************************************************************)
EXTENDS Coordinator

CONSTANTS
  MaxPartitions, \* the largest NumPartitions of a topic
  Factors,       \* replication factors CreateTopicMetadata is called with
  Consumers,     \* consumer ids
  Offsets,       \* offsets committed
  MaxWatchers,   \* bound: health watchers
  MaxMembers     \* bound: length of the group's member list

ASSUME MockAssumption ==
  /\ Factors \subseteq Int /\ Offsets \subseteq Nat
  /\ MaxPartitions \in Nat
  /\ MaxWatchers \in Nat /\ MaxMembers \in Nat

VARIABLES
  running,     \* mc.running: "new", "running" or "stopped"
  brokers,     \* mc.brokers
  heartbeats,  \* mc.brokerHeartbeats: "fresh" or "stale", "none" if no entry
  leaders,     \* mc.leaders, NoBroker if no entry
  isrMap,      \* mc.isrMap, <<>> if no entry
  topic,       \* mc.topics: NumPartitions of the topic, Absent if no entry
  watchers,    \* mc.healthWatchers: the events in each open channel
  members,     \* consumerGroups: the member list, <<>> if there is no group
  offsets      \* consumerOffsets, 0 if no entry, as GetCommittedOffset reads

brokerVars == <<brokers, heartbeats>>
leaderVars == <<leaders, isrMap>>
groupVars  == <<members, offsets>>
mockVars   == <<running, brokers, heartbeats, leaders, isrMap, topic, watchers,
                members, offsets>>

Absent == -1

Partitions == 0 .. (MaxPartitions - 1)

NoOffsets == [p \in Partitions |-> 0]

Up == running = "running"

-----------------------------------------------------------------------------
(* Operators of the coordinator.                                           *)

\* Fault: the failed broker is a candidate too.
FirstWithFailed(list, excluded) ==
  LET ok == {i \in DOMAIN list : list[i] \in brokers \union {excluded}}
  IN  IF ok = {} THEN 0 ELSE list[Min(ok)]

\* The first broker of a list that is registered and not the excluded one, 0 if
\* there is none: the callers cannot tell that from a first broker with the id 0.
FirstRegistered(list, excluded) ==
  LET ok == {i \in DOMAIN list : list[i] \in brokers \ {excluded}}
  IN  IF ok = {} THEN 0 ELSE list[Min(ok)]

\* triggerFailover: what the leader entries become when b has failed.  An
\* entry stays when the ISR has nobody else, or has broker 0 before anybody else.
Failover(ls, b) ==
  [p \in Partitions |->
     IF ls[p] = b /\ FirstRegistered(isrMap[p], b) # 0
     THEN FirstRegistered(isrMap[p], b) ELSE ls[p]]

\* assignReplicas: the first replicationFactor brokers in the order the map
\* was iterated in.
AssignReplicas(order, factor) ==
  SubSeq(order, 1, IF factor < Len(order) THEN factor ELSE Len(order))

\* A send that gives up when the channel is full.
Offer(channel, b) ==
  IF Len(channel) < ChannelSize THEN Append(channel, b) ELSE channel

-----------------------------------------------------------------------------
(* Start, Stop and the broker registry.                                    *)

StartMock ==
  /\ running # "running"
  /\ running' = "running"
  /\ UNCHANGED <<topic, watchers>>
  /\ UNCHANGED brokerVars /\ UNCHANGED leaderVars /\ UNCHANGED groupVars

\* Every watcher's channel is closed and forgotten.
StopMock ==
  /\ Up
  /\ running' = "stopped"
  /\ watchers' = <<>>
  /\ UNCHANGED topic
  /\ UNCHANGED brokerVars /\ UNCHANGED leaderVars /\ UNCHANGED groupVars

Register(b) ==
  /\ Up
  /\ brokers' = brokers \union {b}
  /\ heartbeats' = [heartbeats EXCEPT ![b] = "fresh"]
  /\ UNCHANGED <<running, topic, watchers>>
  /\ UNCHANGED leaderVars /\ UNCHANGED groupVars

\* Fault: the heartbeat entry stays behind.
DeregisterLeavingHeartbeat(b) ==
  /\ Up
  /\ brokers' = brokers \ {b}
  /\ leaders' = Failover(leaders, b)
  /\ UNCHANGED <<running, topic, watchers, isrMap, heartbeats>>
  /\ UNCHANGED groupVars

\* The broker is taken out before its partitions fail over.
Deregister(b) ==
  /\ Up
  /\ brokers' = brokers \ {b}
  /\ heartbeats' = [heartbeats EXCEPT ![b] = "none"]
  /\ leaders' = Failover(leaders, b)
  /\ UNCHANGED <<running, topic, watchers, isrMap>>
  /\ UNCHANGED groupVars

\* A broker without a registration gets an error.  One that was found dead
\* is still registered and comes back to life.
Heartbeat(b) ==
  /\ Up /\ b \in brokers
  /\ heartbeats' = [heartbeats EXCEPT ![b] = "fresh"]
  /\ UNCHANGED <<running, topic, watchers, brokers>>
  /\ UNCHANGED leaderVars /\ UNCHANGED groupVars

\* sessionTimeout passes without a heartbeat of b.
OutOfSession(b) ==
  /\ heartbeats[b] = "fresh"
  /\ heartbeats' = [heartbeats EXCEPT ![b] = "stale"]
  /\ UNCHANGED <<running, topic, watchers, brokers>>
  /\ UNCHANGED leaderVars /\ UNCHANGED groupVars

\* checkBrokerHealth, at a tick of healthCheckLoop: the dead brokers, in any
\* order, lose their heartbeat entries, are reported to every watcher and
\* fail over one after the other.  They stay in mc.brokers.  A tick that waits for
\* mc.mu, or that select prefers to the end of the context, runs after Stop.
CheckBrokerHealth(order) ==
  /\ running # "new"
  /\ ToSet(order) = {b \in Brokers : heartbeats[b] = "stale"}
  /\ order # <<>>
  /\ heartbeats' = [b \in Brokers |->
                      IF b \in ToSet(order) THEN "none" ELSE heartbeats[b]]
  /\ watchers' = [w \in DOMAIN watchers |-> FoldLeft(Offer, watchers[w], order)]
  /\ leaders' = FoldLeft(Failover, leaders, order)
  /\ UNCHANGED <<running, topic, brokers, isrMap>> /\ UNCHANGED groupVars

WatchHealth ==
  /\ Up /\ Len(watchers) < MaxWatchers
  /\ watchers' = Append(watchers, <<>>)
  /\ UNCHANGED <<running, topic>>
  /\ UNCHANGED brokerVars /\ UNCHANGED leaderVars /\ UNCHANGED groupVars

TakeEvent(w) ==
  /\ w \in DOMAIN watchers /\ watchers[w] # <<>>
  /\ watchers' = [watchers EXCEPT ![w] = Tail(@)]
  /\ UNCHANGED <<running, topic>>
  /\ UNCHANGED brokerVars /\ UNCHANGED leaderVars /\ UNCHANGED groupVars

-----------------------------------------------------------------------------
(* Leaders, ISRs and topics.                                               *)

\* A leader that is registered stays; else the first registered one of the
\* ISR, else of the replicas; else an error.  Broker 0 counts as nobody.
Elect(p, replicas) ==
  LET fromISR == FirstRegistered(isrMap[p], NoBroker)
      next == IF fromISR # 0 THEN fromISR ELSE FirstRegistered(replicas, NoBroker)
  IN  /\ Up
      /\ leaders[p] \notin brokers
      /\ next # 0
      /\ leaders' = [leaders EXCEPT ![p] = next]
      /\ UNCHANGED <<running, topic, watchers, isrMap>>
      /\ UNCHANGED brokerVars /\ UNCHANGED groupVars

SetISR(p, list) ==
  /\ Up
  /\ isrMap' = [isrMap EXCEPT ![p] = list]
  /\ UNCHANGED <<running, topic, watchers, leaders>>
  /\ UNCHANGED brokerVars /\ UNCHANGED groupVars

\* CreateTopicMetadata: a topic that has partitions is left alone; without
\* brokers, or with a factor that gives no replica, nothing is stored.
CreateTopic(n, factor, order) ==
  LET replicas == AssignReplicas(order, factor) IN
  /\ Up
  /\ topic \in {Absent, 0}
  /\ ToSet(order) = brokers
  /\ n = 0 \/ replicas # <<>>
  /\ topic' = n
  /\ leaders' = [p \in Partitions |-> IF p < n THEN replicas[1] ELSE leaders[p]]
  /\ isrMap' = [p \in Partitions |-> IF p < n THEN replicas ELSE isrMap[p]]
  /\ UNCHANGED <<running, watchers>>
  /\ UNCHANGED brokerVars /\ UNCHANGED groupVars

-----------------------------------------------------------------------------
(* Consumer groups.                                                        *)

\* Fault: every join clears the offsets.
JoinClearing(c) ==
  /\ Up /\ Len(members) < MaxMembers
  /\ members' = Append(members, c)
  /\ offsets' = NoOffsets
  /\ UNCHANGED <<running, topic, watchers>>
  /\ UNCHANGED brokerVars /\ UNCHANGED leaderVars

\* The list takes a member again that it has.  A new group starts without
\* committed offsets.
JoinGroup(c) ==
  /\ Up /\ Len(members) < MaxMembers
  /\ members' = Append(members, c)
  /\ offsets' = IF members = <<>> THEN NoOffsets ELSE offsets
  /\ UNCHANGED <<running, topic, watchers>>
  /\ UNCHANGED brokerVars /\ UNCHANGED leaderVars

\* The first entry of the member goes; with the last entry the group goes
\* and its offsets with it.
LeaveGroup(c) ==
  /\ Up /\ members # <<>>
  /\ members' = RemoveFirst(members, c)
  /\ offsets' = IF members' = <<>> THEN NoOffsets ELSE offsets
  /\ UNCHANGED <<running, topic, watchers>>
  /\ UNCHANGED brokerVars /\ UNCHANGED leaderVars

\* Without a group the offset is stored all the same.
Commit(p, o) ==
  /\ Up
  /\ offsets' = [offsets EXCEPT ![p] = o]
  /\ UNCHANGED <<running, topic, watchers, members>>
  /\ UNCHANGED brokerVars /\ UNCHANGED leaderVars

-----------------------------------------------------------------------------
MockInit ==
  /\ running = "new"
  /\ brokers = {} /\ heartbeats = [b \in Brokers |-> "none"]
  /\ leaders = [p \in Partitions |-> NoBroker]
  /\ isrMap = [p \in Partitions |-> <<>>]
  /\ topic = Absent
  /\ watchers = <<>>
  /\ members = <<>> /\ offsets = NoOffsets

MockNext ==
  \/ StartMock \/ StopMock \/ WatchHealth
  \/ \E b \in Brokers : \/ Register(b) \/ Deregister(b) \/ Heartbeat(b)
                        \/ OutOfSession(b)
  \/ \E order \in SetToSeqs({b \in Brokers : heartbeats[b] = "stale"}) :
       CheckBrokerHealth(order)
  \/ \E w \in 1 .. MaxWatchers : TakeEvent(w)
  \/ \E p \in Partitions : \/ \E list \in ISRs : Elect(p, list) \/ SetISR(p, list)
                           \/ \E o \in Offsets : Commit(p, o)
  \/ \E n \in 0 .. MaxPartitions, factor \in Factors, order \in SetToSeqs(brokers) :
       CreateTopic(n, factor, order)
  \/ \E c \in Consumers : JoinGroup(c) \/ LeaveGroup(c)

-----------------------------------------------------------------------------
(* Properties.                                                             *)

\* The values the variables may have.
MockTypeOK ==
  /\ running \in {"new", "running", "stopped"}
  /\ brokers \subseteq Brokers
  /\ heartbeats \in [Brokers -> {"none", "fresh", "stale"}]
  /\ {b \in Brokers : heartbeats[b] # "none"} \subseteq brokers
  /\ leaders \in [Partitions -> LeaderEntry] /\ isrMap \in [Partitions -> ISREntry]
  /\ topic \in Absent .. MaxPartitions
  /\ watchers \in Seq(Seq(Brokers)) /\ Len(watchers) <= MaxWatchers
  /\ members \in Seq(Consumers) /\ offsets \in [Partitions -> Offsets \union {0}]

\* b deregisters, or is the only broker that a health check finds dead, and goes on
\* leading p.
LeadsOn(b, p) ==
  /\ heartbeats[b] # "none" /\ heartbeats'[b] = "none"
  /\ \A x \in Brokers \ {b} : heartbeats'[x] = heartbeats[x]
  /\ leaders'[p] = b

\* The registered brokers that could lead p in the place of b.
Successors(b, p) == (ToSet(isrMap[p]) \cap brokers) \ {b}

\* A broker that deregisters or that a health check finds dead does not go on leading
\* a partition whose ISR has another registered broker, unless one of these is broker 0.
FailedBrokerStepsDown ==
  \A b \in Brokers, p \in Partitions :
    LeadsOn(b, p) => Successors(b, p) = {} \/ 0 \in Successors(b, p)

\* Offsets committed for a group outlive every join and every leave but the
\* last.
OffsetsSurviveChanges ==
  members # <<>> /\ members' # <<>> /\ members' # members => offsets' = offsets
=============================================================================

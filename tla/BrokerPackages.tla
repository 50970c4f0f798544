---------------------------- MODULE BrokerPackages ---------------------------
(***************************************************************************)
(* The packages of the message broker beside its server.  cmd/broker's     *)
(* main creates a coordinator, a replication manager and a storage, and    *)
(* connects none of them to another; cmd/producer and cmd/consumer use the *)
(* client library.  So a behaviour is of one kind:                         *)
(*   elect    etcd's registry and elections of a partition's leader,       *)
(*   watch    etcd's registry and the health events a broker watches,      *)
(*            which its replication manager takes (architecture.md 5.4;    *)
(*            main leaves them unconnected, TakeHealthEvent is the         *)
(*            composition's own),                                          *)
(*   mock     the mock coordinator,                                        *)
(*   storage  the storage and the goroutines that call it,                 *)
(*   assign   the assignment strategies of pkg/consumer,                   *)
(*   produce  the producer of the client library,                          *)
(*   consume  its consumer,                                                *)
(*   admin    the administration command.                                  *)
(* Elections and watching only read the registry, and neither sees the     *)
(* other.                                                                  *)
(***************************************************************************)
EXTENDS EtcdCoordinator, MockCoordinator, Replication, Storage, Rebalancer,
        LibProducer, LibConsumer, Admin

VARIABLE kind

allVars == <<etcdVars, mockVars, replVars, storageVars, rebalancerVars,
             lpVars, lcVars, adminVars, kind>>

\* The watcher takes an event; a failure goes to its replication manager.
TakeHealthEvent ==
  /\ Receive
  /\ IF Head(channel).healthy THEN UNCHANGED replVars
                              ELSE DetectFailure(Head(channel).id)

ReplicationNext ==
  \/ \E list \in ReplicaLists : \E first \in ToSet(list) :
       InitiateReplication(list, first)
  \/ \E b \in Brokers, offset \in SyncOffsets : RecordReplication(b, offset)

PackagesInit ==
  /\ EtcdInit /\ MockInit /\ ReplInit /\ StorageInit /\ RebalancerInit
  /\ LibProducerInit /\ LibConsumerInit /\ AdminInit
  /\ kind \in {"elect", "watch", "mock", "storage", "assign", "produce", "consume",
               "admin"}
  /\ kind # "elect" => isr = <<>>
  /\ kind # "admin" => command = "lag"

\* The packages that a behaviour is not about do nothing.
Only(k) ==
  /\ k \notin {"elect", "watch"} => UNCHANGED etcdVars
  /\ k # "watch"   => UNCHANGED replVars
  /\ k # "mock"    => UNCHANGED mockVars
  /\ k # "storage" => UNCHANGED storageVars
  /\ k # "assign"  => UNCHANGED rebalancerVars
  /\ k # "produce" => UNCHANGED lpVars
  /\ k # "consume" => UNCHANGED lcVars
  /\ k # "admin"   => UNCHANGED adminVars
  /\ UNCHANGED kind

PackagesNext ==
  \/ kind = "elect" /\ RegistryNext /\ Only("elect")
  \/ kind = "watch" /\ RegistryNext /\ UNCHANGED replVars /\ Only("watch")
  \/ kind = "elect" /\ ElectionNext /\ Only("elect")
  \/ kind = "watch" /\ WatchNext /\ UNCHANGED replVars /\ Only("watch")
  \/ kind = "watch" /\ TakeHealthEvent /\ Only("watch")
  \/ kind = "watch" /\ ReplicationNext /\ UNCHANGED etcdVars /\ Only("watch")
  \/ kind = "mock" /\ MockNext /\ Only("mock")
  \/ kind = "storage" /\ StorageNext /\ Only("storage")
  \/ kind = "assign" /\ RebalancerNext /\ Only("assign")
  \/ kind = "produce" /\ LibProducerNext /\ Only("produce")
  \/ kind = "consume" /\ LibConsumerNext /\ Only("consume")
  \/ kind = "admin" /\ AdminNext /\ Only("admin")

Spec == PackagesInit /\ [][PackagesNext]_allVars

\* Every variable of every package has its type.
PackagesTypeOK ==
  /\ EtcdTypeOK /\ MockTypeOK /\ ReplTypeOK /\ StorageTypeOK /\ RebalancerTypeOK
  /\ LibProducerTypeOK /\ LibConsumerTypeOK /\ AdminTypeOK

\* Every step keeps the promises of the coordinators: registrations, elections and
\* events of etcd's (EtcdCoordinator), the failover and the group offsets of the mock
\* one (CoordinatorImpl).
CoordinatorsSound ==
  [][/\ (ServingIsRegistered /\ OneSwapWins /\ PendingEventsEndRight)'
     /\ AnswerWasRegistered
     /\ FailedBrokerStepsDown /\ OffsetsSurviveChanges]_<<etcdVars, mockVars>>

\* The broker that watches takes the event that b is gone.
HearsOfFailure(b) ==
  /\ channel # <<>> /\ Head(channel) = [id |-> b, healthy |-> FALSE]
  /\ channel' = Tail(channel) /\ watcher' = watcher

\* A partition keeps its leader among the in-sync replicas, none of them twice; a
\* failure that is heard of removes the broker, but not below minISR (DetectFailure,
\* RecordReplication).
ReplicasSound ==
  [][/\ (LeaderInSync /\ ISRHasNoDuplicates)'
     /\ \A b \in Brokers : HearsOfFailure(b) /\ replicating
          => FailureKeepsMinimum /\ FailedBrokerGoes(b)]_<<replVars, channel>>
=============================================================================

----------------------------- MODULE Coordinator -----------------------------
(***************************************************************************)
(* What the two implementations of the Coordinator interface               *)
(* (pkg/coordinator/coordinator.go) share: EtcdCoordinator and             *)
(* MockCoordinator.                                                        *)
(***************************************************************************)
EXTENDS Integers, Sequences, FiniteSets, FiniteSetsExt, SequencesExt

CONSTANTS
  Brokers,      \* broker ids: any int32, 0 of the first pod of a StatefulSet among them
  NoBroker,     \* where a map or a key has no broker
  ISRs,         \* the lists UpdateISR is called with
  ChannelSize   \* capacity of a health watcher's channel, 10 in the code

ASSUME CoordinatorAssumption ==
  /\ IsFiniteSet(Brokers) /\ Brokers \subseteq Int /\ NoBroker \notin Brokers
  /\ ISRs \subseteq Seq(Brokers)
  /\ ChannelSize \in Nat \ {0}

\* A health event; the time stamp is left out.
BrokerHealthEvent == [id : Brokers, healthy : BOOLEAN]

\* A leader entry, or the lack of one.
LeaderEntry == Brokers \union {NoBroker}

\* An ISR entry, <<>> where there is none: any list of brokers that a caller stores.
ISREntry == Seq(Brokers)
=============================================================================

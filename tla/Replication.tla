----------------------------- MODULE Replication -----------------------------
(***************************************************************************)
(* The replication manager of a broker (pkg/replication/replication.go)    *)
(* for one partition: who leads it and who is in sync, as this broker has  *)
(* it in memory.  Every method runs under rm.mu and is one action.         *)
(*                                                                         *)
(* Not covered: followerOffsets and leaderElections, which are stored and  *)
(* never read (every election has Epoch 1); replication itself: nothing in *)
(* the repository copies messages between brokers.                         *)
(***************************************************************************)
EXTENDS Coordinator

CONSTANTS
  ReplicaLists,     \* replica lists InitiateReplication is called with
  SyncOffsets,      \* offsets reported by RecordReplication
  ReplicationTime,  \* rs.LastReplicationTime.Unix(), set once
  MinISR            \* rm.minISR, 1 by default

ASSUME ReplicationAssumption ==
  /\ ReplicaLists \subseteq Seq(Brokers)
  /\ SyncOffsets \subseteq Int /\ ReplicationTime \in Int
  /\ MinISR \in Nat

VARIABLES
  replicating,     \* the partition has a ReplicaSync
  rsLeader,        \* rs.Leader
  inSyncReplicas   \* rm.inSyncReplicas

replVars == <<replicating, rsLeader, inSyncReplicas>>

\* RecordReplication's offsetThreshold.
OffsetThreshold == 10

\* What is left of an ISR without b: the others, one after the other.
Without(list, b) ==
  LET First[n \in 0 .. Len(list)] ==
        IF n = 0 THEN <<>>
        ELSE IF list[n] = b THEN First[n - 1] ELSE Append(First[n - 1], list[n])
  IN First[Len(list)]

\* The leader is one of the replicas.
InitiateReplication(replicas, first) ==
  /\ first \in ToSet(replicas)
  /\ replicating' = TRUE
  /\ rsLeader' = first
  /\ inSyncReplicas' = replicas

\* The comparison is one of an offset with a time in seconds.
CaughtUp(offset) == offset >= ReplicationTime - OffsetThreshold

\* Fault: a replica that is in the ISR already is appended again.
RecordAgain(b, offset) ==
  /\ replicating
  /\ IF rsLeader # b /\ CaughtUp(offset)
     THEN inSyncReplicas' = Append(inSyncReplicas, b)
     ELSE UNCHANGED inSyncReplicas
  /\ UNCHANGED <<replicating, rsLeader>>

\* A follower that has caught up joins the ISR at its end, also a failed one.
RecordReplication(b, offset) ==
  /\ replicating
  /\ IF rsLeader # b /\ CaughtUp(offset) /\ b \notin ToSet(inSyncReplicas)
     THEN inSyncReplicas' = Append(inSyncReplicas, b)
     ELSE UNCHANGED inSyncReplicas
  /\ UNCHANGED <<replicating, rsLeader>>

\* triggerLeaderElection: the first of the ISR leads, whoever it is.
NewLeader(isr) == IF isr = <<>> THEN rsLeader ELSE isr[1]

\* Fault: the ISR shrinks below the minimum.
KeptISRAlways(b) == Without(inSyncReplicas, b)

\* An ISR that would fall below minISR is kept with the failed broker in it.
KeptISR(b) ==
  IF Len(Without(inSyncReplicas, b)) < MinISR THEN inSyncReplicas
  ELSE Without(inSyncReplicas, b)

\* Fault: the leader is elected before the ISR is changed.
DetectFailureElectingFirst(b) ==
  /\ IF replicating
     THEN /\ inSyncReplicas' = KeptISR(b)
          /\ rsLeader' = IF rsLeader = b THEN NewLeader(inSyncReplicas) ELSE rsLeader
     ELSE UNCHANGED <<inSyncReplicas, rsLeader>>
  /\ UNCHANGED replicating

DetectFailure(b) ==
  /\ IF replicating
     THEN /\ inSyncReplicas' = KeptISR(b)
          /\ rsLeader' = IF rsLeader = b THEN NewLeader(KeptISR(b)) ELSE rsLeader
     ELSE UNCHANGED <<inSyncReplicas, rsLeader>>
  /\ UNCHANGED replicating

ReplInit ==
  /\ replicating = FALSE /\ rsLeader = NoBroker /\ inSyncReplicas = <<>>

-----------------------------------------------------------------------------
(* Properties.                                                             *)

\* The values the variables may have.
ReplTypeOK ==
  /\ replicating \in BOOLEAN /\ rsLeader \in LeaderEntry
  /\ inSyncReplicas \in ISREntry

\* Once replication of a partition is set up, its leader is one of the in-sync
\* replicas, through any order of failures and late reports, if minISR is
\* not 0: a failed broker itself where DetectFailure keeps it among them.
LeaderInSync ==
  replicating /\ MinISR > 0 => rsLeader \in ToSet(inSyncReplicas)

\* No broker is in the ISR twice, whatever it reports after its failure: an
\* entry that DetectFailure does not remove would count as a live replica.
ISRHasNoDuplicates == IsInjective(inSyncReplicas)

\* A failure does not shrink the ISR below minISR.
FailureKeepsMinimum == Len(inSyncReplicas) >= MinISR => Len(inSyncReplicas') >= MinISR

\* What is left without a failed broker is fewer than minISR.
TooFewWithout(b) == Cardinality(ToSet(inSyncReplicas) \ {b}) < MinISR

\* A failed broker is neither in sync nor leader any more, unless that leaves too few.
FailedBrokerGoes(b) ==
  TooFewWithout(b) \/ (b \notin ToSet(inSyncReplicas') /\ (MinISR > 0 => rsLeader' # b))
=============================================================================

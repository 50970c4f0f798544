----------------------------- MODULE GroupProofs -----------------------------
(***************************************************************************)
(* Proofs about ConsumerGroup, for every finite set of consumers, every    *)
(* set of brokers, every partition count and every bound.                  *)
(*                                                                         *)
(*   GroupTypeCorrect             the type invariant                       *)
(*   NoPartitionAssignedTwice     a broker's assignments are disjoint      *)
(*   QuietGroupsStayWhole         no partition is left without a member    *)
(*   GenerationsNameAssignments   one generation, one assignment           *)
(*                                                                         *)
(* Their inductive invariant is GroupInv.  The arithmetic of the first     *)
(* part, that the ranks of the members of a group are 0 .. Cardinality - 1,*)
(* each once, is in OrderedSets.                                           *)
(***************************************************************************)
EXTENDS ConsumerGroup, OrderedSets

-----------------------------------------------------------------------------
(* assignPartitionsRoundRobin.                                             *)

\* Any group of consumers is finite.
LEMMA GroupsAreFinite ==
  ASSUME NEW S \in SUBSET Members
  PROVE  IsFiniteSet(S) /\ Cardinality(S) \in Nat /\ S \subseteq Nat
<1>1. IsFiniteSet(S)
  BY GroupAssumption, FS_Subset
<1>2. QED
  BY <1>1, GroupAssumption, FS_CardinalityType

\* No two members have one rank.
LEMMA RanksDiffer ==
  ASSUME NEW S \in SUBSET Members, NEW m \in S, NEW k \in S, m # k
  PROVE  Rank(m, S) # Rank(k, S)
BY GroupsAreFinite, PlacesDiffer DEF Rank, Place

\* Every position in the sorted list of a group is some member's rank.
LEMMA EveryPositionTaken ==
  ASSUME NEW S \in SUBSET Members, NEW i \in 0 .. (Cardinality(S) - 1)
  PROVE  \E m \in S : Rank(m, S) = i
BY GroupsAreFinite, EveryPlaceTaken DEF Rank, Place

\* Round robin gives every member partitions, no partition to two members, and,
\* when there is a member at all, every partition to somebody.
LEMMA RoundRobinProperties ==
  ASSUME NEW S \in SUBSET Members
  PROVE  /\ RoundRobin(S, NumPartitions) \in [Members -> SUBSET Partitions]
         /\ \A m, k \in Members : m # k =>
              RoundRobin(S, NumPartitions)[m] \intersect RoundRobin(S, NumPartitions)[k] = {}
         /\ UNION {RoundRobin(S, NumPartitions)[m] : m \in Members}
              = IF S = {} THEN {} ELSE Partitions
<1> DEFINE R == RoundRobin(S, NumPartitions)
<1>1. R \in [Members -> SUBSET Partitions]
  BY DEF RoundRobin, Partitions
<1>2. \A m \in Members : R[m] =
        IF m \in S THEN {p \in Partitions : p % Cardinality(S) = Rank(m, S)} ELSE {}
  BY DEF RoundRobin, Partitions
<1> HIDE DEF R
<1>3. \A m, k \in Members : m # k => R[m] \intersect R[k] = {}
  <2> SUFFICES ASSUME NEW m \in Members, NEW k \in Members, m # k,
                      NEW p \in R[m], p \in R[k]
               PROVE  FALSE
    OBVIOUS
  <2>1. m \in S /\ Rank(m, S) = p % Cardinality(S)
    BY <1>2
  <2>2. k \in S /\ Rank(k, S) = p % Cardinality(S)
    BY <1>2
  <2>3. QED
    BY <2>1, <2>2, RanksDiffer
<1>4. CASE S = {}
  <2>1. \A m \in Members : R[m] = {}
    BY <1>2, <1>4
  <2>2. UNION {R[m] : m \in Members} = {}
    BY <2>1
  <2>3. QED
    BY <1>1, <1>3, <1>4, <2>2 DEF R
<1>5. CASE S # {}
  <2>1. Cardinality(S) \in Nat \ {0}
    BY <1>5, GroupsAreFinite, FS_EmptySet
  <2>2. ASSUME NEW p \in Partitions PROVE \E m \in Members : p \in R[m]
    <3>1. p \in Int
      BY DEF Partitions
    <3>2. p % Cardinality(S) \in 0 .. (Cardinality(S) - 1)
      BY <2>1, <3>1
    <3>3. PICK m \in S : Rank(m, S) = p % Cardinality(S)
      BY <3>2, EveryPositionTaken
    <3>4. QED
      BY <1>2, <3>3
  <2>3. \A m \in Members : R[m] \subseteq Partitions
    BY <1>1
  <2>4. UNION {R[m] : m \in Members} = Partitions
    BY <2>2, <2>3
  <2>5. QED
    BY <1>1, <1>3, <1>5, <2>4 DEF R
<1>6. QED
  BY <1>4, <1>5

-----------------------------------------------------------------------------
(* Types.                                                                  *)

\* Generations stay within the bound.
LEMMA NextGenerationType ==
  ASSUME TypeOK, NEW b \in Brokers
  PROVE  /\ NextGeneration(b) \in 0 .. MaxGeneration
         /\ gen[b] \in Nat /\ NextGeneration(b) >= gen[b]
         /\ NextGeneration(b) = gen[b] => gen[b] = MaxGeneration
<1>1. gen[b] \in 0 .. MaxGeneration /\ MaxGeneration \in Nat
  BY GroupAssumption DEF TypeOK
<1>2. QED
  BY <1>1 DEF NextGeneration

\* The end of an operation: the lock is free, a waiting consumer goes on.
LEMMA EndType ==
  ASSUME TypeOK, NEW b \in Brokers, NEW answer \in {"out", "fetching"}, End(b, answer)
  PROVE  /\ op' \in [Brokers -> [at : Stages, m : Members \union {-1}] \union {NoOp}]
         /\ pc' \in [Members -> {"out", "joining", "fetching", "polling", "closed"}]
BY DEF TypeOK, End

\* So does its beginning.
LEMMA BeginType ==
  ASSUME TypeOK, NEW b \in Brokers, NEW stage \in Stages,
         NEW m \in Members \union {-1}, Begin(b, stage, m)
  PROVE  op' \in [Brokers -> [at : Stages, m : Members \union {-1}] \union {NoOp}]
BY DEF TypeOK, Begin

\* The member an operation works for.
LEMMA OperationType ==
  ASSUME TypeOK, NEW b \in Brokers
  PROVE  /\ op[b].at \in Stages \union {"none"}
         /\ op[b].m \in Members \union {-1}
         /\ op[b].at = "none" <=> op[b] = NoOp
BY DEF TypeOK, NoOp, Stages

\* Every variable has its type at the start.
LEMMA InitTypeOK == Init => TypeOK
BY GroupAssumption DEF Init, TypeOK, NoAssignment, Leases

\* One step keeps the types.
LEMMA NextTypeOK == TypeOK /\ [Next]_vars => TypeOK'
<1> SUFFICES ASSUME TypeOK, [Next]_vars PROVE TypeOK'
  OBVIOUS
<1> USE GroupAssumption
<1>1. ASSUME NEW b \in Brokers, NEW m \in Members, JoinConsumerGroup(b, m)
      PROVE  TypeOK'
  <2>1. op' \in [Brokers -> [at : Stages, m : Members \union {-1}] \union {NoOp}]
    BY <1>1, BeginType DEF JoinConsumerGroup, Stages
  <2>2. QED
    BY <1>1, <2>1 DEF JoinConsumerGroup, TypeOK, etcdVars, ghostVars
<1>2. ASSUME NEW b \in Brokers, RegisterMember(b)
      PROVE  TypeOK'
  <2>1. op[b].m \in Members \union {-1} /\ Lease(b) \in Leases
    BY OperationType DEF TypeOK, Lease, Leases
  <2>2. key' \in [Members -> Leases \union {NoLease}]
    BY <1>2, <2>1 DEF RegisterMember, TypeOK
  <2>3. faults' \in Nat
    BY <1>2 DEF RegisterMember, TypeOK, Works, Fail
  <2>4. gen' \in [Brokers -> 0 .. MaxGeneration]
    BY <1>2, NextGenerationType DEF RegisterMember, TypeOK
  <2>5. state' \in [Brokers -> {"Empty", "Rebalancing", "Stable"}]
    BY <1>2 DEF RegisterMember, TypeOK
  <2>6. members' \in [Brokers -> SUBSET Members]
    BY <1>2 DEF RegisterMember, TypeOK
  <2>7. /\ op' \in [Brokers -> [at : Stages, m : Members \union {-1}] \union {NoOp}]
        /\ pc' \in [Members -> {"out", "joining", "fetching", "polling", "closed"}]
    <3>1. CASE Begin(b, "metadata", op[b].m) /\ UNCHANGED <<members, pc>>
      BY <3>1, <2>1, BeginType DEF TypeOK, Stages
    <3>2. CASE End(b, "out")
      BY <3>2, EndType
    <3>3. QED
      BY <1>2, <3>1, <3>2 DEF RegisterMember
  <2>8. QED
    BY <1>2, <2>2, <2>3, <2>4, <2>5, <2>6, <2>7 DEF RegisterMember, TypeOK
<1>3. ASSUME NEW b \in Brokers, NEW m \in Members, LeaveConsumerGroup(b, m)
      PROVE  TypeOK'
  <2>1. op' \in [Brokers -> [at : Stages, m : Members \union {-1}] \union {NoOp}]
    <3>1. CASE Begin(b, "deregister", m)
      BY <3>1, BeginType DEF Stages
    <3>2. CASE UNCHANGED op
      BY <3>2 DEF TypeOK
    <3>3. QED
      BY <1>3, <3>1, <3>2 DEF LeaveConsumerGroup
  <2>2. members' \in [Brokers -> SUBSET Members]
    BY <1>3 DEF LeaveConsumerGroup, TypeOK
  <2>3. assign' \in [Brokers -> [Members -> SUBSET Partitions]]
    <3>1. assign \in [Brokers -> [Members -> SUBSET Partitions]]
      BY DEF TypeOK
    <3>2. assign' = assign \/ assign' = [assign EXCEPT ![b][m] = {}]
      BY <1>3 DEF LeaveConsumerGroup
    <3>3. QED
      BY <3>1, <3>2
  <2>4. owned' \in [Members -> SUBSET Partitions]
    BY <1>3 DEF LeaveConsumerGroup, TypeOK
  <2>5. QED
    BY <1>3, <2>1, <2>2, <2>3, <2>4 DEF LeaveConsumerGroup, TypeOK, etcdVars, ghostVars
<1>4. ASSUME NEW b \in Brokers, DeregisterMember(b)
      PROVE  TypeOK'
  <2>1. op[b].m \in Members \union {-1}
    BY OperationType
  <2>2. op' \in [Brokers -> [at : Stages, m : Members \union {-1}] \union {NoOp}]
    <3>1. CASE Begin(b, "metadata", op[b].m)
      BY <3>1, <2>1, BeginType DEF Stages
    <3>2. CASE op' = [op EXCEPT ![b] = NoOp]
      BY <3>2 DEF TypeOK
    <3>3. QED
      BY <1>4, <3>1, <3>2 DEF DeregisterMember
  <2>3. key' \in [Members -> Leases \union {NoLease}] /\ faults' \in Nat
    BY <1>4 DEF DeregisterMember, TypeOK, Works, Fail
  <2>4. gen' \in [Brokers -> 0 .. MaxGeneration]
    BY <1>4, NextGenerationType DEF DeregisterMember, TypeOK
  <2>5. state' \in [Brokers -> {"Empty", "Rebalancing", "Stable"}]
    BY <1>4 DEF DeregisterMember, TypeOK
  <2>6. QED
    BY <1>4, <2>2, <2>3, <2>4, <2>5 DEF DeregisterMember, TypeOK, clientVars
<1>5. ASSUME NEW b \in Brokers, NEW D \in SUBSET members[b], Evict(b, D)
      PROVE  TypeOK'
  <2>1. op' \in [Brokers -> [at : Stages, m : Members \union {-1}] \union {NoOp}]
    <3>1. CASE Begin(b, "metadata", -1)
      BY <3>1, BeginType DEF Stages
    <3>2. CASE UNCHANGED op
      BY <3>2 DEF TypeOK
    <3>3. QED
      BY <1>5, <3>1, <3>2 DEF Evict
  <2>2. members' \in [Brokers -> SUBSET Members]
    BY <1>5 DEF Evict, TypeOK
  <2>3. assign' \in [Brokers -> [Members -> SUBSET Partitions]]
    <3>1. [m \in Members |-> IF m \in D THEN {} ELSE assign[b][m]] \in [Members -> SUBSET Partitions]
      BY DEF TypeOK
    <3>2. QED
      BY <1>5, <3>1 DEF Evict, TypeOK
  <2>4. faults' \in Nat
    BY <1>5 DEF Evict, TypeOK, Works, Fail
  <2>5. gen' \in [Brokers -> 0 .. MaxGeneration]
    BY <1>5, NextGenerationType DEF Evict, TypeOK
  <2>6. state' \in [Brokers -> {"Empty", "Rebalancing", "Stable"}]
    BY <1>5 DEF Evict, TypeOK
  <2>7. QED
    BY <1>5, <2>1, <2>2, <2>3, <2>4, <2>5, <2>6
    DEF Evict, TypeOK, etcdVars, clientVars
<1>6. ASSUME NEW b \in Brokers, ReadMetadata(b)
      PROVE  TypeOK'
  <2>1. /\ op' \in [Brokers -> [at : Stages, m : Members \union {-1}] \union {NoOp}]
        /\ pc' \in [Members -> {"out", "joining", "fetching", "polling", "closed"}]
    <3>1. CASE op' = [op EXCEPT ![b].at = "members"] /\ UNCHANGED pc
      <4>1. op[b] \in [at : Stages, m : Members \union {-1}]
        BY <1>6 DEF ReadMetadata, TypeOK, NoOp
      <4>2. [op[b] EXCEPT !.at = "members"] \in [at : Stages, m : Members \union {-1}]
        BY <4>1 DEF Stages
      <4>3. QED
        BY <3>1, <4>2 DEF TypeOK
    <3>2. CASE End(b, "fetching")
      BY <3>2, EndType
    <3>3. QED
      BY <1>6, <3>1, <3>2 DEF ReadMetadata
  <2>2. faults' \in Nat
    BY <1>6 DEF ReadMetadata, TypeOK, Works, Fail
  <2>3. NoAssignment \in [Members -> SUBSET Partitions]
    BY DEF NoAssignment
  <2>4. assign' \in [Brokers -> [Members -> SUBSET Partitions]]
        /\ state' \in [Brokers -> {"Empty", "Rebalancing", "Stable"}]
    <3>1. CASE UNCHANGED <<assign, state>>
      BY <3>1 DEF TypeOK
    <3>2. CASE /\ assign' = [assign EXCEPT ![b] = NoAssignment]
               /\ state'  = [state EXCEPT ![b] = "Stable"]
      BY <3>2, <2>3 DEF TypeOK
    <3>3. QED
      BY <1>6, <3>1, <3>2 DEF ReadMetadata
  <2>5. QED
    BY <1>6, <2>1, <2>2, <2>4 DEF ReadMetadata, TypeOK, etcdVars
<1>7. ASSUME NEW b \in Brokers, AssignPartitions(b)
      PROVE  TypeOK'
  <2>1. /\ op' \in [Brokers -> [at : Stages, m : Members \union {-1}] \union {NoOp}]
        /\ pc' \in [Members -> {"out", "joining", "fetching", "polling", "closed"}]
    BY <1>7, EndType DEF AssignPartitions
  <2>2. faults' \in Nat
    BY <1>7 DEF AssignPartitions, TypeOK, Works, Fail
  <2>3. Registry \in SUBSET Members /\ members[b] \in SUBSET Members
    BY DEF Registry, TypeOK
  <2>4. PICK S \in SUBSET Members :
          assign' = [assign EXCEPT ![b] = RoundRobin(S, NumPartitions)]
    BY <1>7, <2>3 DEF AssignPartitions
  <2>5. assign' \in [Brokers -> [Members -> SUBSET Partitions]]
    <3>1. RoundRobin(S, NumPartitions) \in [Members -> SUBSET Partitions]
      BY RoundRobinProperties
    <3>2. QED
      BY <2>4, <3>1 DEF TypeOK
  <2>6. state' \in [Brokers -> {"Empty", "Rebalancing", "Stable"}]
    BY <1>7 DEF AssignPartitions, TypeOK
  <2>7. QED
    BY <1>7, <2>1, <2>2, <2>5, <2>6 DEF AssignPartitions, TypeOK, etcdVars
<1>8. ASSUME NEW b \in Brokers, Crash(b)
      PROVE  TypeOK'
  <2>1. inc' \in [Brokers -> Nat] /\ live' \subseteq Leases /\ faults' \in Nat
    BY <1>8 DEF Crash, TypeOK, Leases, Fail
  <2>2. NoAssignment \in [Members -> SUBSET Partitions]
    BY DEF NoAssignment
  <2>3. /\ members' \in [Brokers -> SUBSET Members]
        /\ assign' \in [Brokers -> [Members -> SUBSET Partitions]]
        /\ gen' \in [Brokers -> 0 .. MaxGeneration]
        /\ state' \in [Brokers -> {"Empty", "Rebalancing", "Stable"}]
        /\ op' \in [Brokers -> [at : Stages, m : Members \union {-1}] \union {NoOp}]
    BY <1>8, <2>2 DEF Crash, TypeOK
  <2>4. QED
    BY <1>8, <2>1, <2>3 DEF Crash, TypeOK
<1>9. ASSUME NEW m \in Members, FetchAssignments(m)
      PROVE  TypeOK'
  <2>1. conn[m] \in Brokers /\ assign[conn[m]][m] \in SUBSET Partitions /\ gen[conn[m]] \in Nat
    BY DEF TypeOK
  <2>2. AssignmentAnswer(conn[m], m).parts \in SUBSET Partitions
        /\ AssignmentAnswer(conn[m], m).gen \in Nat
    BY <2>1 DEF AssignmentAnswer
  <2>3. answers' \subseteq Answer
    BY <1>9, <2>1, <2>2 DEF FetchAssignments, TypeOK, Answer
  <2>4. owned' \in [Members -> SUBSET Partitions]
        /\ pc' \in [Members -> {"out", "joining", "fetching", "polling", "closed"}]
    BY <1>9, <2>2 DEF FetchAssignments, TypeOK
  <2>5. QED
    BY <1>9, <2>3, <2>4 DEF FetchAssignments, TypeOK, etcdVars, groupVars
<1>10. ASSUME NEW m \in Members, ConsumerCrash(m)
       PROVE  TypeOK'
  BY <1>10 DEF ConsumerCrash, TypeOK, etcdVars, groupVars, ghostVars
<1>11. ASSUME NEW l \in live, Expire(l)
       PROVE  TypeOK'
  BY <1>11 DEF Expire, TypeOK, groupVars, clientVars
<1>12. CASE RegisterTopic
  BY <1>12 DEF RegisterTopic, TypeOK, groupVars, clientVars, ghostVars
<1>13. CASE UNCHANGED vars
  BY <1>13 DEF vars, TypeOK
<1>14. QED
  BY <1>1, <1>2, <1>3, <1>4, <1>5, <1>6, <1>7, <1>8, <1>9, <1>10, <1>11, <1>12,
     <1>13 DEF Next, Manager

\* Every variable of the managers, of etcd and of the consumers keeps its type.
THEOREM GroupTypeCorrect == Spec => []TypeOK
BY InitTypeOK, NextTypeOK, PTL DEF Spec

-----------------------------------------------------------------------------
(* What one step does to the group as one broker has it.                   *)

Untouched(c) ==
  /\ members'[c] = members[c] /\ assign'[c] = assign[c] /\ gen'[c] = gen[c]
  /\ state'[c] = state[c] /\ op'[c] = op[c]

\* Members lose their partitions or keep them.
Shrinking(c) ==
  \A m \in Members : assign'[c][m] = {} \/ assign'[c][m] = assign[c][m]

Joining(c) ==
  /\ op[c].at = "none" /\ op'[c].at = "register"
  /\ members'[c] = members[c] \union {op'[c].m}
  /\ assign'[c] = assign[c] /\ gen'[c] = gen[c] /\ state'[c] = state[c]

Refused(c) ==
  /\ op[c].at = "register" /\ op'[c] = NoOp
  /\ members'[c] = members[c] \ {op[c].m}
  /\ assign'[c] = assign[c] /\ gen'[c] = gen[c] /\ state'[c] = state[c]

Leaving(c) ==
  /\ op[c].at = "none" /\ op'[c].at = "deregister"
  /\ Shrinking(c)
  /\ gen'[c] = gen[c]

\* The member was registered, deregistered or evicted: a rebalance begins.
Rebalancing(c) ==
  /\ op[c].at \in {"none", "register", "deregister"} /\ op'[c].at = "metadata"
  /\ Shrinking(c)
  /\ gen'[c] = NextGeneration(c)

Emptied(c) ==
  /\ op[c].at \in {"none", "deregister"} /\ op'[c] = NoOp
  /\ Shrinking(c)
  /\ members'[c] = {} /\ state'[c] = "Empty" /\ gen'[c] = gen[c]

Reading(c) ==
  /\ op[c].at = "metadata" /\ op'[c].at = "members"
  /\ assign'[c] = assign[c] /\ gen'[c] = gen[c]

Assigning(c) ==
  /\ op[c].at \in {"metadata", "members"} /\ op'[c] = NoOp
  /\ \/ assign'[c] = NoAssignment
     \/ \E S \in SUBSET Members : assign'[c] = RoundRobin(S, NumPartitions)
  /\ state'[c] = "Stable" /\ gen'[c] = gen[c]

Restarting(c) ==
  /\ op'[c] = NoOp /\ members'[c] = {} /\ state'[c] = "Empty"
  /\ assign'[c] = NoAssignment
  /\ \A a \in answers' : a.b # c

GroupStep(c) ==
  \/ Untouched(c) \/ Joining(c) \/ Refused(c) \/ Leaving(c) \/ Rebalancing(c)
  \/ Emptied(c) \/ Reading(c) \/ Assigning(c) \/ Restarting(c)

\* A step that keeps every other broker and moves one in a known way.
LEMMA OneBrokerMoves ==
  ASSUME TypeOK, NEW b \in Brokers, GroupStep(b),
         \A c \in Brokers : c # b => Untouched(c)
  PROVE  \A c \in Brokers : GroupStep(c)
BY DEF GroupStep

\* Every step is one of these at every broker.
LEMMA StepsOfGroups ==
  ASSUME TypeOK, [Next]_vars
  PROVE  \A c \in Brokers : GroupStep(c)
<1> USE GroupAssumption
<1>t. /\ members \in [Brokers -> SUBSET Members]
      /\ assign  \in [Brokers -> [Members -> SUBSET Partitions]]
      /\ gen     \in [Brokers -> 0 .. MaxGeneration]
      /\ state   \in [Brokers -> {"Empty", "Rebalancing", "Stable"}]
      /\ op      \in [Brokers -> [at : Stages, m : Members \union {-1}] \union {NoOp}]
  BY DEF TypeOK
<1>1. ASSUME NEW b \in Brokers, NEW m \in Members, JoinConsumerGroup(b, m)
      PROVE  \A c \in Brokers : GroupStep(c)
  <2>1. Joining(b)
    BY <1>1, <1>t DEF JoinConsumerGroup, Joining, Begin, NoOp
  <2>2. \A c \in Brokers : c # b => Untouched(c)
    BY <1>1, <1>t DEF JoinConsumerGroup, Begin, Untouched
  <2>3. QED
    BY <2>1, <2>2, OneBrokerMoves DEF GroupStep
<1>2. ASSUME NEW b \in Brokers, RegisterMember(b)
      PROVE  \A c \in Brokers : GroupStep(c)
  <2>1. \A c \in Brokers : c # b => Untouched(c)
    BY <1>2, <1>t DEF RegisterMember, Begin, End, Untouched
  <2>2. op[b].at = "register" /\ assign'[b] = assign[b]
    BY <1>2 DEF RegisterMember
  <2>3. Rebalancing(b) \/ Refused(b)
    <3>1. CASE /\ gen'   = [gen EXCEPT ![b] = NextGeneration(b)]
               /\ Begin(b, "metadata", op[b].m)
      <4>1. op'[b].at = "metadata" /\ gen'[b] = NextGeneration(b)
        BY <3>1, <1>t DEF Begin
      <4>2. QED
        BY <4>1, <2>2 DEF Rebalancing, Shrinking
    <3>2. CASE /\ members' = [members EXCEPT ![b] = @ \ {op[b].m}]
               /\ End(b, "out")
               /\ UNCHANGED <<gen, state>>
      BY <3>2, <2>2, <1>t DEF End, Refused
    <3>3. QED
      BY <1>2, <3>1, <3>2 DEF RegisterMember
  <2>4. QED
    BY <2>1, <2>3, OneBrokerMoves DEF GroupStep
<1>3. ASSUME NEW b \in Brokers, NEW m \in Members, LeaveConsumerGroup(b, m)
      PROVE  \A c \in Brokers : GroupStep(c)
  <2>1. \A c \in Brokers : c # b => Untouched(c)
    BY <1>3, <1>t DEF LeaveConsumerGroup, Begin, Untouched
  <2>2. Leaving(b) \/ Untouched(b)
    <3>1. CASE m \in members[b]
      BY <3>1, <1>3, <1>t DEF LeaveConsumerGroup, Begin, Leaving, Shrinking, NoOp
    <3>2. CASE m \notin members[b]
      BY <3>2, <1>3 DEF LeaveConsumerGroup, Untouched
    <3>3. QED
      BY <3>1, <3>2
  <2>3. QED
    BY <2>1, <2>2, OneBrokerMoves DEF GroupStep
<1>4. ASSUME NEW b \in Brokers, DeregisterMember(b)
      PROVE  \A c \in Brokers : GroupStep(c)
  <2>1. \A c \in Brokers : c # b => Untouched(c)
    BY <1>4, <1>t DEF DeregisterMember, Begin, Untouched
  <2>2. op[b].at = "deregister" /\ assign'[b] = assign[b] /\ members'[b] = members[b]
    BY <1>4 DEF DeregisterMember
  <2>3. CASE members[b] = {}
    <3>1. op'[b] = NoOp /\ state'[b] = "Empty" /\ gen'[b] = gen[b]
      BY <2>3, <1>4, <1>t DEF DeregisterMember
    <3>2. QED
      BY <2>1, <2>2, <2>3, <3>1, OneBrokerMoves DEF GroupStep, Emptied, Shrinking
  <2>4. CASE members[b] # {}
    <3>1. op'[b].at = "metadata" /\ gen'[b] = NextGeneration(b)
      BY <2>4, <1>4, <1>t DEF DeregisterMember, Begin
    <3>2. QED
      BY <2>1, <2>2, <3>1, OneBrokerMoves DEF GroupStep, Rebalancing, Shrinking
  <2>5. QED
    BY <2>3, <2>4
<1>5. ASSUME NEW b \in Brokers, NEW D \in SUBSET members[b], Evict(b, D)
      PROVE  \A c \in Brokers : GroupStep(c)
  <2>1. \A c \in Brokers : c # b => Untouched(c)
    BY <1>5, <1>t DEF Evict, Begin, Untouched
  <2>2. /\ op[b] = NoOp /\ D \in SUBSET Members
        /\ assign'[b] = [m \in Members |-> IF m \in D THEN {} ELSE assign[b][m]]
        /\ members'[b] = members[b] \ D
    BY <1>5, <1>t DEF Evict
  <2>s. Shrinking(b)
    BY <2>2 DEF Shrinking
  <2>3. CASE members[b] = D
    <3>1. op'[b] = NoOp /\ state'[b] = "Empty" /\ gen'[b] = gen[b] /\ members'[b] = {}
      BY <2>2, <2>3, <1>5, <1>t DEF Evict
    <3>2. QED
      BY <2>1, <2>2, <2>s, <3>1, OneBrokerMoves DEF GroupStep, Emptied, NoOp
  <2>4. CASE members[b] # D
    <3>1. op'[b].at = "metadata" /\ gen'[b] = NextGeneration(b)
      BY <2>4, <1>5, <1>t DEF Evict, Begin
    <3>2. QED
      BY <2>1, <2>2, <2>s, <3>1, OneBrokerMoves DEF GroupStep, Rebalancing, NoOp
  <2>5. QED
    BY <2>3, <2>4
<1>6. ASSUME NEW b \in Brokers, ReadMetadata(b)
      PROVE  \A c \in Brokers : GroupStep(c)
  <2>1. \A c \in Brokers : c # b => Untouched(c)
    BY <1>6, <1>t DEF ReadMetadata, End, Untouched
  <2>2. op[b].at = "metadata" /\ gen'[b] = gen[b]
    BY <1>6 DEF ReadMetadata
  <2>3. CASE op' = [op EXCEPT ![b].at = "members"] /\ UNCHANGED assign
    <3>1. op[b] \in [at : Stages, m : Members \union {-1}]
      BY <2>2, <1>t DEF NoOp
    <3>2. op'[b].at = "members"
      BY <2>3, <3>1, <1>t
    <3>3. QED
      BY <2>1, <2>2, <2>3, <3>2, OneBrokerMoves DEF GroupStep, Reading
  <2>4. CASE /\ assign' = [assign EXCEPT ![b] = NoAssignment]
             /\ state'  = [state EXCEPT ![b] = "Stable"]
             /\ End(b, "fetching")
    <3>1. assign'[b] = NoAssignment /\ state'[b] = "Stable" /\ op'[b] = NoOp
      BY <2>4, <1>t DEF End
    <3>2. QED
      BY <2>1, <2>2, <3>1, OneBrokerMoves DEF GroupStep, Assigning
  <2>5. QED
    BY <1>6, <2>3, <2>4 DEF ReadMetadata
<1>7. ASSUME NEW b \in Brokers, AssignPartitions(b)
      PROVE  \A c \in Brokers : GroupStep(c)
  <2>1. \A c \in Brokers : c # b => Untouched(c)
    BY <1>7, <1>t DEF AssignPartitions, End, Untouched
  <2>2. Registry \in SUBSET Members /\ members[b] \in SUBSET Members
    BY <1>t DEF Registry
  <2>3. PICK S \in SUBSET Members :
          assign' = [assign EXCEPT ![b] = RoundRobin(S, NumPartitions)]
    BY <1>7, <2>2 DEF AssignPartitions
  <2>4. /\ assign'[b] = RoundRobin(S, NumPartitions) /\ state'[b] = "Stable"
        /\ op[b].at = "members" /\ op'[b] = NoOp /\ gen'[b] = gen[b]
    BY <1>7, <2>3, <1>t DEF AssignPartitions, End
  <2>5. QED
    BY <2>1, <2>4, OneBrokerMoves DEF GroupStep, Assigning
<1>8. ASSUME NEW b \in Brokers, Crash(b)
      PROVE  \A c \in Brokers : GroupStep(c)
  <2>1. \A c \in Brokers : c # b => Untouched(c)
    BY <1>8, <1>t DEF Crash, Untouched
  <2>2. Restarting(b)
    BY <1>8, <1>t DEF Crash, Restarting
  <2>3. QED
    BY <2>1, <2>2, OneBrokerMoves DEF GroupStep
<1>9. CASE UNCHANGED <<members, assign, gen, state, op>>
  BY <1>9 DEF GroupStep, Untouched
<1>10. QED
  BY <1>1, <1>2, <1>3, <1>4, <1>5, <1>6, <1>7, <1>8, <1>9
  DEF Next, Manager, FetchAssignments, ConsumerCrash, Expire, RegisterTopic,
      groupVars, vars

-----------------------------------------------------------------------------
(* The invariant of the managers.                                          *)

\* No partition has two members.
DisjointAt(b) ==
  \A m, k \in Members : m # k => assign[b][m] \intersect assign[b][k] = {}

\* Covered not only when nothing runs, but also while a join waits for etcd.
CoveredAt(b) ==
  state[b] = "Stable" /\ op[b].at \in {"none", "register"} =>
    UNION {assign[b][m] : m \in Members} \in {{}, Partitions}

\* What the state of the group says before an operation and while a join waits.
SettledAt(b) ==
  /\ op[b].at = "none" =>
       state[b] = "Stable" \/ (state[b] = "Empty" /\ members[b] = {})
  /\ op[b].at = "register" =>
       state[b] = "Stable" \/ (state[b] = "Empty" /\ members[b] \subseteq {op[b].m})

\* An answer of the current generation is what the group still assigns, unless
\* the group is being left or is empty: the next assignment has another number.
CurrentAnswer(a) ==
  /\ a.gen < MaxGeneration /\ a.gen <= gen[a.b]
  /\ a.gen = gen[a.b] =>
       \/ op[a.b].at = "deregister"
       \/ op[a.b].at \in {"none", "register"} /\ state[a.b] = "Empty"
       \/ /\ op[a.b].at \in {"none", "register"} /\ state[a.b] = "Stable"
          /\ assign[a.b][a.m] = a.parts

GroupInv ==
  /\ TypeOK
  /\ \A b \in Brokers : DisjointAt(b) /\ CoveredAt(b) /\ SettledAt(b)
  /\ \A a \in answers : CurrentAnswer(a)
  /\ GenerationNamesAssignments

\* The invariant holds at the start.
LEMMA InitGroupInv == Init => GroupInv
<1> SUFFICES ASSUME Init PROVE GroupInv
  OBVIOUS
<1>1. TypeOK
  BY InitTypeOK
<1>2. \A b \in Brokers : DisjointAt(b) /\ CoveredAt(b) /\ SettledAt(b)
  BY DEF Init, DisjointAt, CoveredAt, SettledAt, NoAssignment, NoOp
<1>3. QED
  BY <1>1, <1>2 DEF Init, GroupInv, GenerationNamesAssignments

\* Losing partitions keeps the rest disjoint, and so does a fresh round robin.
LEMMA DisjointKept ==
  ASSUME TypeOK, NEW b \in Brokers, DisjointAt(b), GroupStep(b)
  PROVE  DisjointAt(b)'
<1>1. CASE Shrinking(b) \/ assign'[b] = assign[b]
  BY <1>1 DEF Shrinking, DisjointAt
<1>2. CASE assign'[b] = NoAssignment
  BY <1>2 DEF DisjointAt, NoAssignment
<1>3. CASE \E S \in SUBSET Members : assign'[b] = RoundRobin(S, NumPartitions)
  BY <1>3, RoundRobinProperties DEF DisjointAt
<1>4. QED
  BY <1>1, <1>2, <1>3 DEF GroupStep, Untouched, Joining, Refused, Leaving, Rebalancing,
     Emptied, Reading, Assigning, Restarting

\* No step leaves a stable group with a partition without a member.
LEMMA CoveredKept ==
  ASSUME TypeOK, NEW b \in Brokers, CoveredAt(b), GroupStep(b)
  PROVE  CoveredAt(b)'
<1>1. CASE Untouched(b) \/ Joining(b) \/ Refused(b)
  BY <1>1 DEF Untouched, Joining, Refused, CoveredAt
<1>2. CASE Leaving(b) \/ Rebalancing(b) \/ Emptied(b) \/ Reading(b) \/ Restarting(b)
  BY <1>2 DEF Leaving, Rebalancing, Emptied, Reading, Restarting, CoveredAt, NoOp
<1>3. CASE Assigning(b)
  <2>1. CASE assign'[b] = NoAssignment
    <3>1. UNION {assign'[b][m] : m \in Members} = {}
      BY <2>1 DEF NoAssignment
    <3>2. QED
      BY <3>1 DEF CoveredAt
  <2>2. CASE \E S \in SUBSET Members : assign'[b] = RoundRobin(S, NumPartitions)
    <3>1. PICK S \in SUBSET Members : assign'[b] = RoundRobin(S, NumPartitions)
      BY <2>2
    <3>2. UNION {assign'[b][m] : m \in Members} \in {{}, Partitions}
      BY <3>1, RoundRobinProperties
    <3>3. QED
      BY <3>2 DEF CoveredAt, Partitions
  <2>3. QED
    BY <1>3, <2>1, <2>2 DEF Assigning
<1>4. QED
  BY <1>1, <1>2, <1>3 DEF GroupStep

\* No operation ends with the group half described.
LEMMA SettledKept ==
  ASSUME TypeOK, NEW b \in Brokers, SettledAt(b), GroupStep(b)
  PROVE  SettledAt(b)'
<1>1. CASE Untouched(b)
  BY <1>1 DEF Untouched, SettledAt
<1>2. CASE Joining(b)
  BY <1>2 DEF Joining, SettledAt
<1>3. CASE Refused(b)
  BY <1>3 DEF Refused, SettledAt, NoOp
<1>4. CASE Leaving(b) \/ Rebalancing(b) \/ Reading(b)
  BY <1>4 DEF Leaving, Rebalancing, Reading, SettledAt
<1>5. CASE Emptied(b)
  BY <1>5 DEF Emptied, SettledAt, NoOp
<1>6. CASE Restarting(b)
  BY <1>6 DEF Restarting, SettledAt, NoOp
<1>7. CASE Assigning(b)
  BY <1>7 DEF Assigning, SettledAt, NoOp
<1>8. QED
  BY <1>1, <1>2, <1>3, <1>4, <1>5, <1>6, <1>7 DEF GroupStep

\* An answer given earlier keeps its meaning: what changes the assignment
\* changes the generation too.
LEMMA AnswerKept ==
  ASSUME TypeOK, NEW a \in answers, a \in answers', CurrentAnswer(a),
         SettledAt(a.b), GroupStep(a.b)
  PROVE  CurrentAnswer(a)'
<1> DEFINE b == a.b
<1>1. /\ b \in Brokers /\ a.m \in Members /\ a.gen \in Nat
      /\ gen[b] \in Nat /\ MaxGeneration \in Nat
  BY GroupAssumption DEF TypeOK, Answer
<1>2. a.gen < MaxGeneration /\ a.gen <= gen[b]
  BY DEF CurrentAnswer
<1>3. CASE Untouched(b)
  BY <1>3 DEF Untouched, CurrentAnswer
<1>4. CASE Joining(b) \/ Refused(b)
  BY <1>4 DEF Joining, Refused, CurrentAnswer, NoOp
<1>5. CASE Leaving(b)
  BY <1>2, <1>5 DEF Leaving, CurrentAnswer
<1>6. CASE Rebalancing(b)
  <2>1. /\ NextGeneration(b) \in 0 .. MaxGeneration /\ NextGeneration(b) >= gen[b]
        /\ NextGeneration(b) = gen[b] => gen[b] = MaxGeneration
    BY <1>1, NextGenerationType
  <2>2. a.gen < NextGeneration(b)
    BY <1>1, <1>2, <2>1
  <2>3. gen'[b] = NextGeneration(b)
    BY <1>6 DEF Rebalancing
  <2>4. QED
    BY <1>1, <1>2, <2>1, <2>2, <2>3 DEF CurrentAnswer
<1>7. CASE Emptied(b)
  BY <1>2, <1>7 DEF Emptied, CurrentAnswer, NoOp
<1>8. CASE Reading(b) \/ Assigning(b)
  <2>1. gen'[b] = gen[b] /\ a.gen # gen[b]
    BY <1>8 DEF Reading, Assigning, CurrentAnswer
  <2>2. QED
    BY <1>2, <2>1 DEF CurrentAnswer
<1>9. CASE Restarting(b)
  BY <1>9 DEF Restarting
<1>10. QED
  BY <1>3, <1>4, <1>5, <1>6, <1>7, <1>8, <1>9 DEF GroupStep

\* A fetch answers what the group assigns: it fits the earlier answers of the
\* generation.
LEMMA AnswersKept ==
  ASSUME GroupInv, [Next]_vars
  PROVE  (\A a \in answers : CurrentAnswer(a))' /\ GenerationNamesAssignments'
<1>1. /\ TypeOK /\ \A a \in answers : CurrentAnswer(a) /\ a.b \in Brokers /\ a.m \in Members
      /\ \A b \in Brokers : DisjointAt(b) /\ SettledAt(b)
      /\ GenerationNamesAssignments
  BY DEF GroupInv, TypeOK, Answer
<1>2. \A b \in Brokers : GroupStep(b)
  BY <1>1, StepsOfGroups
<1>3. \A a \in answers : a \in answers' => CurrentAnswer(a)'
  BY <1>1, <1>2, AnswerKept
<1>4. CASE answers' \subseteq answers
  <2>1. \A a \in answers' : CurrentAnswer(a)'
    BY <1>3, <1>4
  <2>2. QED
    BY <1>1, <1>4, <2>1 DEF GenerationNamesAssignments
<1>5. CASE ~ (answers' \subseteq answers)
  <2>1. PICK m \in Members : FetchAssignments(m)
    BY <1>5 DEF Next, Manager, JoinConsumerGroup, LeaveConsumerGroup, RegisterMember,
       DeregisterMember, Evict, ReadMetadata, AssignPartitions, Crash, ConsumerCrash, Expire,
       RegisterTopic, ghostVars, vars
  <2>b. PICK b : b = conn[m]
    OBVIOUS
  <2>z. PICK z : z = [b |-> b, gen |-> gen[b], m |-> m, parts |-> assign[b][m]]
    OBVIOUS
  <2>2. /\ b \in Brokers /\ op[b] = NoOp /\ m \in members[b]
        /\ answers' = answers \union {z} /\ gen[b] < MaxGeneration
        /\ UNCHANGED <<members, assign, gen, state, op>>
    <3>1. m \in members[b]
      BY <1>5, <2>1, <2>b DEF FetchAssignments, AssignmentAnswer
    <3>2. AssignmentAnswer(b, m) = [found |-> TRUE, parts |-> assign[b][m], gen |-> gen[b]]
      BY <3>1 DEF AssignmentAnswer
    <3>3. QED
      BY <1>1, <1>5, <2>1, <2>b, <2>z, <3>1, <3>2 DEF FetchAssignments, TypeOK, groupVars
  <2>3. state[b] = "Stable"
    BY <1>1, <2>2 DEF SettledAt, NoOp
  <2>4. CurrentAnswer(z)'
    <3>1. gen[b] \in Nat
      BY <1>1, <2>2 DEF TypeOK
    <3>2. QED
      BY <2>2, <2>3, <2>z, <3>1 DEF CurrentAnswer, NoOp
  <2>5. \A a \in answers : a.b = z.b /\ a.gen = z.gen => assign[b][a.m] = a.parts
    BY <1>1, <2>2, <2>3, <2>z DEF CurrentAnswer, NoOp
  <2>6. \A a \in answers : a.b = z.b /\ a.gen = z.gen =>
          IF a.m = z.m THEN a.parts = z.parts ELSE a.parts \intersect z.parts = {}
    BY <1>1, <2>2, <2>5, <2>z DEF DisjointAt
  <2>7. GenerationNamesAssignments'
    <3> SUFFICES ASSUME NEW x \in answers', NEW y \in answers', x.b = y.b, x.gen = y.gen
                 PROVE  IF x.m = y.m THEN x.parts = y.parts
                                     ELSE x.parts \intersect y.parts = {}
      BY DEF GenerationNamesAssignments
    <3>1. CASE x \in answers /\ y \in answers
      BY <1>1, <3>1 DEF GenerationNamesAssignments
    <3>2. CASE x \in answers /\ y = z
      BY <2>6, <3>2
    <3>3. CASE x = z /\ y \in answers
      BY <2>6, <3>3
    <3>4. CASE x = z /\ y = z
      BY <3>4
    <3>5. QED
      BY <2>2, <3>1, <3>2, <3>3, <3>4
  <2>8. \A a \in answers' : CurrentAnswer(a)'
    BY <1>3, <2>2, <2>4
  <2>9. QED
    BY <2>7, <2>8
<1>6. QED
  BY <1>4, <1>5

\* One step keeps GroupInv.
LEMMA NextGroupInv == GroupInv /\ [Next]_vars => GroupInv'
<1> SUFFICES ASSUME GroupInv, [Next]_vars PROVE GroupInv'
  OBVIOUS
<1>1. TypeOK /\ TypeOK'
  BY NextTypeOK DEF GroupInv
<1>2. \A b \in Brokers : GroupStep(b)
  BY <1>1, StepsOfGroups
<1>3. \A b \in Brokers : DisjointAt(b)' /\ CoveredAt(b)' /\ SettledAt(b)'
  BY <1>1, <1>2, DisjointKept, CoveredKept, SettledKept DEF GroupInv
<1>4. QED
  BY <1>1, <1>3, AnswersKept DEF GroupInv

\* GroupInv is an invariant of the group.
LEMMA GroupInvHolds == Spec => []GroupInv
BY InitGroupInv, NextGroupInv, PTL DEF Spec

\* A broker never assigns one partition to two members (rebalanceGroup, and the
\* deletions of LeaveConsumerGroup and checkMembersHealth before it).
THEOREM NoPartitionAssignedTwice == Spec => []AssignmentsDisjoint
<1>1. GroupInv => AssignmentsDisjoint
  BY DEF GroupInv, DisjointAt, AssignmentsDisjoint
<1>2. QED
  BY <1>1, GroupInvHolds, PTL

\* A group no operation is changing leaves no partition without a member and
\* describes itself as stable or empty, whatever call failed before
\* (JoinConsumerGroup, LeaveConsumerGroup, checkMembersHealth, rebalanceGroup).
THEOREM QuietGroupsStayWhole == Spec => []QuietGroupsWhole
<1>1. GroupInv => QuietGroupsWhole
  <2> SUFFICES ASSUME GroupInv, NEW b \in Brokers, op[b] = NoOp
               PROVE  /\ state[b] = "Stable" =>
                           UNION {assign[b][m] : m \in Members} \in {{}, Partitions}
                      /\ LET d == DescribeConsumerGroup(b) IN
                           \/ d.state = "Stable"
                           \/ d.state = "Empty" /\ DOMAIN d.members = {}
    BY DEF QuietGroupsWhole, StableCovers, DescriptionSettled
  <2>1. CoveredAt(b) /\ SettledAt(b) /\ op[b].at = "none"
    BY DEF GroupInv, NoOp
  <2>2. QED
    BY <2>1 DEF CoveredAt, SettledAt, DescribeConsumerGroup, GroupMembers
<1>2. QED
  BY <1>1, GroupInvHolds, PTL

\* Answers to FetchAssignments that carry one generation of one broker process
\* fit together, whatever operations run between them (GenerationID).
THEOREM GenerationsNameAssignments == Spec => []GenerationNamesAssignments
<1>1. GroupInv => GenerationNamesAssignments
  BY DEF GroupInv
<1>2. QED
  BY <1>1, GroupInvHolds, PTL
=============================================================================

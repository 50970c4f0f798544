---------------------------- MODULE ConsumerGroup ----------------------------
(***************************************************************************)
(* One consumer group over one topic: the ConsumerGroupManager of every    *)
(* broker (pkg/consumer/group_manager.go), the membership keys in etcd     *)
(* (pkg/coordinator/etcd.go) and the group client of the collector         *)
(* (telemetry-collector/pkg/consumer/consumer.go).                         *)
(*                                                                         *)
(* A manager runs Join, Leave and the health check under cgm.mu, which it  *)
(* keeps while it calls etcd: each call is one action, and between two of  *)
(* them other brokers, etcd and the clients move, but no other operation   *)
(* of this broker.                                                         *)
(*                                                                         *)
(* Left out: LeaderID, PreviousAssignments and the member's State, which   *)
(* are written and never read; HeartbeatMember, which no RPC calls; the    *)
(* clock: a member can be found dead at any time (see Evict).              *)
(***************************************************************************)
EXTENDS Integers, FiniteSets

CONSTANTS
  Brokers,         \* broker processes
  Members,         \* consumers, numbered in the order sort.Strings gives them
  NumPartitions,   \* partitions of the topic once it is registered
  MaxGeneration,   \* bound: GenerationID is counted up to here
  MaxFaults,       \* bound: failed calls, crashes, early evictions
  MaxExpiries,     \* bound: leases that expire under a running broker
  MayLeave         \* whether consumers close and crash

ASSUME GroupAssumption ==
  /\ IsFiniteSet(Members) /\ Members \subseteq Nat
  /\ NumPartitions \in Nat \ {0}
  /\ MaxGeneration \in Nat /\ MaxFaults \in Nat /\ MaxExpiries \in Nat
  /\ MayLeave \in BOOLEAN

VARIABLES
  registered,  \* etcd: the topic's metadata exists
  key,         \* etcd: the lease each member's key hangs on, or NoLease
  live,        \* etcd: the leases that have not expired
  inc,         \* per broker, its incarnation; <<b, inc[b]>> is its lease
  members,     \* groupState.Members
  assign,      \* groupState.CurrentAssignments; no entry reads as no partition
  gen,         \* groupState.GenerationID
  state,       \* groupState.State
  op,          \* the operation that holds cgm.mu
  pc,          \* what each consumer is doing
  conn,        \* the broker each consumer is connected to
  owned,       \* c.assignments of each consumer
  faults, expiries,
  answers      \* ghost: what FetchAssignments answered since each broker started

etcdVars   == <<registered, key, live>>
groupVars  == <<members, assign, gen, state>>
clientVars == <<pc, conn, owned>>
ghostVars  == <<faults, expiries, answers>>
vars == <<registered, key, live, inc, members, assign, gen, state, op,
          pc, conn, owned, faults, expiries, answers>>

Partitions == 0 .. (NumPartitions - 1)

NoLease   == <<>>
Lease(b)  == <<b, inc[b]>>
Leases    == Brokers \X Nat

NoOp      == [at |-> "none", m |-> -1]
Stages    == {"register", "deregister", "metadata", "members"}

\* The coordinator's member list (GetGroupMembers).
Registry  == {m \in Members : key[m] # NoLease}

-----------------------------------------------------------------------------
(* Assignment.                                                             *)

\* Position of m in the sorted list of S.
Rank(m, S) == Cardinality({x \in S : x < m})

\* Fault: one partition too many.
RoundRobinPastEnd(S, n) ==
  [m \in Members |->
     IF m \in S THEN {p \in 0 .. n : p % Cardinality(S) = Rank(m, S)} ELSE {}]

\* Fault: the partition number is not reduced modulo the member count.
RoundRobinUnwrapped(S, n) ==
  [m \in Members |-> IF m \in S THEN {p \in 0 .. (n - 1) : p = Rank(m, S)} ELSE {}]

\* assignPartitionsRoundRobin over the sorted members.
RoundRobin(S, n) ==
  [m \in Members |->
     IF m \in S THEN {p \in 0 .. (n - 1) : p % Cardinality(S) = Rank(m, S)} ELSE {}]

NoAssignment == [m \in Members |-> {}]

-----------------------------------------------------------------------------
(* The managers.                                                           *)

Fail  == faults < MaxFaults /\ faults' = faults + 1
Works == UNCHANGED faults

\* GenerationID++, counted up to the bound.
NextGeneration(b) == IF gen[b] < MaxGeneration THEN gen[b] + 1 ELSE gen[b]

Begin(b, stage, m) == op' = [op EXCEPT ![b] = [at |-> stage, m |-> m]]

\* The operation releases cgm.mu; a consumer that waits for it gets its answer.
End(b, answer) ==
  /\ op' = [op EXCEPT ![b] = NoOp]
  /\ pc' = [m \in Members |->
              IF m = op[b].m /\ pc[m] = "joining" /\ conn[m] = b THEN answer ELSE pc[m]]

\* JoinConsumerGroup up to the coordinator call.
JoinConsumerGroup(b, m) ==
  /\ op[b] = NoOp
  /\ pc[m] = "out" /\ conn[m] = b
  /\ members' = [members EXCEPT ![b] = @ \union {m}]
  /\ pc' = [pc EXCEPT ![m] = "joining"]
  /\ Begin(b, "register", m)
  /\ UNCHANGED <<etcdVars, inc, assign, gen, state, conn, owned, ghostVars>>

\* The member's key is put under the broker's lease.  On an error, which the
\* handler sees also when the put was applied and its answer lost, the member
\* is taken out again.
RegisterMember(b) ==
  LET m      == op[b].m
      Stored == Lease(b) \in live /\ key' = [key EXCEPT ![m] = Lease(b)]
  IN
  /\ op[b].at = "register"
  /\ \/ /\ Stored /\ Works
        /\ gen'   = [gen EXCEPT ![b] = NextGeneration(b)]
        /\ state' = [state EXCEPT ![b] = "Rebalancing"]
        /\ Begin(b, "metadata", m)
        /\ UNCHANGED <<members, pc>>
     \/ /\ \/ Lease(b) \notin live /\ Works /\ UNCHANGED key
           \/ (Stored \/ UNCHANGED key) /\ Fail
        /\ members' = [members EXCEPT ![b] = @ \ {m}]
        /\ End(b, "out")
        /\ UNCHANGED <<gen, state>>
  /\ UNCHANGED <<registered, live, inc, assign, conn, owned, expiries, answers>>

\* LeaveConsumerGroup up to the coordinator call.
LeaveConsumerGroup(b, m) ==
  /\ MayLeave
  /\ op[b] = NoOp
  /\ pc[m] \in {"out", "polling"} /\ conn[m] = b
  /\ pc'    = [pc EXCEPT ![m] = "closed"]
  /\ owned' = [owned EXCEPT ![m] = {}]
  /\ IF m \in members[b]
     THEN /\ members' = [members EXCEPT ![b] = @ \ {m}]
          /\ assign'  = [assign EXCEPT ![b][m] = {}]
          /\ Begin(b, "deregister", m)
     ELSE UNCHANGED <<members, assign, op>>
  /\ UNCHANGED <<etcdVars, inc, gen, state, conn, ghostVars>>

\* Fault: the generation is not counted up for a leaving member.
DeregisterQuietly(b) ==
  LET m == op[b].m IN
  /\ op[b].at = "deregister"
  /\ key' = [key EXCEPT ![m] = NoLease]
  /\ IF members[b] = {}
     THEN /\ state' = [state EXCEPT ![b] = "Empty"]
          /\ op' = [op EXCEPT ![b] = NoOp]
     ELSE /\ state' = [state EXCEPT ![b] = "Rebalancing"]
          /\ Begin(b, "metadata", m)
  /\ UNCHANGED <<registered, live, inc, members, assign, gen, clientVars, ghostVars>>

\* The coordinator's answer is ignored; an empty group keeps its generation.
DeregisterMember(b) ==
  LET m == op[b].m IN
  /\ op[b].at = "deregister"
  /\ \/ key' = [key EXCEPT ![m] = NoLease] /\ Works
     \/ UNCHANGED key /\ Fail
  /\ IF members[b] = {}
     THEN /\ state' = [state EXCEPT ![b] = "Empty"]
          /\ op' = [op EXCEPT ![b] = NoOp]
          /\ UNCHANGED gen
     ELSE /\ state' = [state EXCEPT ![b] = "Rebalancing"]
          /\ gen'   = [gen EXCEPT ![b] = NextGeneration(b)]
          /\ Begin(b, "metadata", m)
  /\ UNCHANGED <<registered, live, inc, members, assign, clientVars, expiries, answers>>

\* checkMembersHealth: LastHeartbeat is the time of the last join, since no
\* RPC refreshes it, so every member is found dead 30 seconds after it joined.
\* A consumer still between its join and its fetch is found dead only if those
\* 30 seconds pass there, which counts as a fault.  The key in etcd stays.
Evict(b, D) ==
  /\ op[b] = NoOp
  /\ D # {} /\ D \subseteq members[b]
  /\ IF \E m \in D : pc[m] = "fetching" /\ conn[m] = b THEN Fail ELSE Works
  /\ members' = [members EXCEPT ![b] = @ \ D]
  /\ assign'  = [assign EXCEPT ![b] = [m \in Members |-> IF m \in D THEN {} ELSE @[m]]]
  /\ IF members[b] = D
     THEN state' = [state EXCEPT ![b] = "Empty"] /\ UNCHANGED <<gen, op>>
     ELSE /\ state' = [state EXCEPT ![b] = "Rebalancing"]
          /\ gen'   = [gen EXCEPT ![b] = NextGeneration(b)]
          /\ Begin(b, "metadata", -1)
  /\ UNCHANGED <<etcdVars, inc, clientVars, expiries, answers>>

\* Fault: without the topic's metadata the group stays as it is.
ReadMetadataUnsettled(b) ==
  /\ op[b].at = "metadata"
  /\ \/ /\ registered /\ Works
        /\ op' = [op EXCEPT ![b].at = "members"]
        /\ UNCHANGED <<assign, pc>>
     \/ /\ IF registered THEN Fail ELSE Works
        /\ assign' = [assign EXCEPT ![b] = NoAssignment]
        /\ End(b, "fetching")
  /\ UNCHANGED <<etcdVars, inc, members, gen, state, conn, owned, expiries, answers>>

\* rebalanceGroup, first call: without the topic's metadata every local member
\* is assigned nothing and the rebalance counts as done.
ReadMetadata(b) ==
  /\ op[b].at = "metadata"
  /\ \/ /\ registered /\ Works
        /\ op' = [op EXCEPT ![b].at = "members"]
        /\ UNCHANGED <<assign, state, pc>>
     \/ /\ IF registered THEN Fail ELSE Works
        /\ assign' = [assign EXCEPT ![b] = NoAssignment]
        /\ state'  = [state EXCEPT ![b] = "Stable"]
        /\ End(b, "fetching")
  /\ UNCHANGED <<etcdVars, inc, members, gen, conn, owned, expiries, answers>>

\* Fault: the local members that the registry lacks are appended after the
\* sorted list, with ranks of their own.
AssignMixed(b) ==
  /\ op[b].at = "members"
  /\ assign' = [assign EXCEPT ![b] =
                  [m \in Members |-> IF m \in Registry
                                     THEN RoundRobin(Registry, NumPartitions)[m]
                                     ELSE RoundRobin(members[b], NumPartitions)[m]]]
  /\ state' = [state EXCEPT ![b] = "Stable"]
  /\ End(b, "fetching")
  /\ UNCHANGED <<etcdVars, inc, members, gen, conn, owned, ghostVars>>

\* rebalanceGroup, second call: the coordinator's members, or the local ones
\* when it has none or fails, share the partitions.
AssignPartitions(b) ==
  /\ op[b].at = "members"
  /\ \/ /\ Registry # {} /\ Works
        /\ assign' = [assign EXCEPT ![b] = RoundRobin(Registry, NumPartitions)]
     \/ /\ IF Registry = {} THEN Works ELSE Fail
        /\ assign' = [assign EXCEPT ![b] = RoundRobin(members[b], NumPartitions)]
  /\ state' = [state EXCEPT ![b] = "Stable"]
  /\ End(b, "fetching")
  /\ UNCHANGED <<etcdVars, inc, members, gen, conn, owned, expiries, answers>>

\* DescribeConsumerGroup of the manager: the broker's own members with their
\* partitions.  The call waits for the group's lock, that is until op[b] = NoOp.
GroupMembers(b) == [m \in members[b] |-> assign[b][m]]

\* What the server answers administrators.
DescribeConsumerGroup(b) == [state |-> state[b], members |-> GroupMembers(b)]

\* The process dies and restarts with empty maps and a new lease; consumers
\* whose connection it held connect to some broker, and their calls fail.
Crash(b) ==
  /\ Fail
  /\ inc'     = [inc EXCEPT ![b] = @ + 1]
  /\ live'    = live \union {<<b, inc[b] + 1>>}
  /\ members' = [members EXCEPT ![b] = {}]
  /\ assign'  = [assign EXCEPT ![b] = NoAssignment]
  /\ gen'     = [gen EXCEPT ![b] = 0]
  /\ state'   = [state EXCEPT ![b] = "Empty"]
  /\ op'      = [op EXCEPT ![b] = NoOp]
  /\ conn' \in {f \in [Members -> Brokers] : \A m \in Members : conn[m] # b => f[m] = conn[m]}
  /\ pc' = [m \in Members |->
              IF conn[m] = b /\ pc[m] \in {"joining", "fetching"} THEN "out" ELSE pc[m]]
  /\ answers' = {a \in answers : a.b # b}
  /\ UNCHANGED <<registered, key, owned, expiries>>

-----------------------------------------------------------------------------
(* etcd.                                                                   *)

\* CreateTopicMetadata, by some broker.
RegisterTopic ==
  /\ ~registered
  /\ registered' = TRUE
  /\ UNCHANGED <<key, live, inc, groupVars, op, clientVars, ghostVars>>

\* A lease that is not kept alive expires with the keys that hang on it.  A
\* running broker keeps its lease alive unless etcd is out of reach for the
\* whole TTL, and never asks for another (heartbeatLoop).
Expire(l) ==
  /\ l \in live
  /\ IF l = Lease(l[1]) THEN expiries < MaxExpiries /\ expiries' = expiries + 1
                        ELSE UNCHANGED expiries
  /\ live' = live \ {l}
  /\ key'  = [m \in Members |-> IF key[m] = l THEN NoLease ELSE key[m]]
  /\ UNCHANGED <<registered, inc, groupVars, op, clientVars, faults, answers>>

-----------------------------------------------------------------------------
(* The collector's consumer.                                               *)

\* What b answers FetchAssignments of m: nothing but an error for a member it has not.
AssignmentAnswer(b, m) ==
  IF m \in members[b] THEN [found |-> TRUE, parts |-> assign[b][m], gen |-> gen[b]]
                      ELSE [found |-> FALSE, parts |-> {}, gen |-> 0]

\* Fault: a consumer that was assigned nothing waits instead of joining again.
FetchAssignmentsOnce(m) ==
  LET b == conn[m] IN
  /\ pc[m] = "fetching" /\ op[b] = NoOp
  /\ pc' = [pc EXCEPT ![m] = "polling"]
  /\ owned' = [owned EXCEPT ![m] = IF m \in members[b] THEN assign[b][m] ELSE {}]
  /\ UNCHANGED <<etcdVars, inc, groupVars, op, conn, ghostVars>>

\* FetchAssignments after a join.  A consumer with no partition joins again
\* (ConsumeMessages' retry loop); one that has some never asks again.
FetchAssignments(m) ==
  LET b == conn[m]
      a == AssignmentAnswer(b, m)
  IN
  /\ pc[m] = "fetching"
  /\ op[b] = NoOp
  /\ IF a.found
     THEN /\ owned' = [owned EXCEPT ![m] = a.parts]
          /\ pc' = [pc EXCEPT ![m] = IF a.parts = {} THEN "out" ELSE "polling"]
          /\ answers' = IF a.gen < MaxGeneration
                        THEN answers \union {[b |-> b, gen |-> a.gen, m |-> m,
                                              parts |-> a.parts]}
                        ELSE answers
     ELSE /\ pc' = [pc EXCEPT ![m] = "out"]
          /\ UNCHANGED <<owned, answers>>
  /\ UNCHANGED <<etcdVars, inc, groupVars, op, conn, faults, expiries>>

\* A consumer dies without leaving the group.
ConsumerCrash(m) ==
  /\ MayLeave
  /\ pc[m] # "closed"
  /\ pc'    = [pc EXCEPT ![m] = "closed"]
  /\ owned' = [owned EXCEPT ![m] = {}]
  /\ UNCHANGED <<etcdVars, inc, groupVars, op, conn, ghostVars>>

-----------------------------------------------------------------------------
Init ==
  /\ registered \in BOOLEAN
  /\ key     = [m \in Members |-> NoLease]
  /\ live    = {<<b, 0>> : b \in Brokers}
  /\ inc     = [b \in Brokers |-> 0]
  /\ members = [b \in Brokers |-> {}]
  /\ assign  = [b \in Brokers |-> NoAssignment]
  /\ gen     = [b \in Brokers |-> 0]
  /\ state   = [b \in Brokers |-> "Empty"]
  /\ op      = [b \in Brokers |-> NoOp]
  /\ pc      = [m \in Members |-> "out"]
  /\ conn \in [Members -> Brokers]
  /\ owned   = NoAssignment
  /\ faults  = 0 /\ expiries = 0
  /\ answers = {}

Manager(b) ==
  \/ RegisterMember(b) \/ DeregisterMember(b) \/ ReadMetadata(b) \/ AssignPartitions(b)

Next ==
  \/ \E b \in Brokers :
       \/ Manager(b) \/ Crash(b)
       \/ \E m \in Members : JoinConsumerGroup(b, m) \/ LeaveConsumerGroup(b, m)
       \/ \E D \in SUBSET members[b] : Evict(b, D)
  \/ \E m \in Members : FetchAssignments(m) \/ ConsumerCrash(m)
  \/ \E l \in live : Expire(l)
  \/ RegisterTopic

Spec == Init /\ [][Next]_vars

\* A manager goes on once etcd answers or fails; the Go mutexes are not unfair
\* to a waiting call, so a consumer that keeps calling gets its turn.
Fairness ==
  /\ \A b \in Brokers : WF_vars(Manager(b))
  /\ \A m \in Members : /\ SF_vars(\E b \in Brokers : JoinConsumerGroup(b, m))
                        /\ SF_vars(FetchAssignments(m))

FairSpec == Spec /\ Fairness
-----------------------------------------------------------------------------
(* Properties.                                                             *)

Answer == [b : Brokers, gen : Nat, m : Members, parts : SUBSET Partitions]

\* Every variable has its type (GroupState, the keys in etcd, the consumer's
\* fields).
TypeOK ==
  /\ registered \in BOOLEAN
  /\ key     \in [Members -> Leases \union {NoLease}]
  /\ live    \subseteq Leases
  /\ inc     \in [Brokers -> Nat]
  /\ members \in [Brokers -> SUBSET Members]
  /\ assign  \in [Brokers -> [Members -> SUBSET Partitions]]
  /\ gen     \in [Brokers -> 0 .. MaxGeneration]
  /\ state   \in [Brokers -> {"Empty", "Rebalancing", "Stable"}]
  /\ op      \in [Brokers -> [at : Stages, m : Members \union {-1}] \union {NoOp}]
  /\ pc      \in [Members -> {"out", "joining", "fetching", "polling", "closed"}]
  /\ conn    \in [Members -> Brokers]
  /\ owned   \in [Members -> SUBSET Partitions]
  /\ faults  \in Nat /\ expiries \in Nat
  /\ answers \subseteq Answer

\* A broker never assigns one partition to two members, at no moment of a
\* join, leave or eviction and whatever the coordinator answers
\* (rebalanceGroup, and the deletions before it).
AssignmentsDisjoint ==
  \A b \in Brokers, m, k \in Members : m # k => assign[b][m] \intersect assign[b][k] = {}

\* When a broker's group is stable and the topic was known, every partition has
\* a member: no error path leaves a partition behind (JoinConsumerGroup,
\* LeaveConsumerGroup, checkMembersHealth).
StableCovers ==
  \A b \in Brokers : op[b] = NoOp /\ state[b] = "Stable" =>
    UNION {assign[b][m] : m \in Members} \in {{}, Partitions}

\* A description of a group never shows an operation half done, whatever call of the
\* operation failed: the group is stable, or empty and without members
\* (DescribeConsumerGroup against the early returns of join, leave, eviction and
\* rebalanceGroup).  A stable group may have no member: the error path of a join that
\* removes the last one leaves the state alone.
DescriptionSettled ==
  \A b \in Brokers : op[b] = NoOp =>
    LET d == DescribeConsumerGroup(b) IN
      \/ d.state = "Stable"
      \/ d.state = "Empty" /\ DOMAIN d.members = {}

\* Within one generation of one broker process the answers to FetchAssignments
\* fit together: a member is told the same every time and no two members are
\* told the same partition, however joins, leaves, evictions and failures
\* interleave with the fetches (GenerationID).
GenerationNamesAssignments ==
  \A x, y \in answers : x.b = y.b /\ x.gen = y.gen =>
    IF x.m = y.m THEN x.parts = y.parts ELSE x.parts \intersect y.parts = {}

\* A consumer without a partition gets one in the end, once the topic is
\* registered, although joins fail, members come and go and brokers restart
\* (the retry loop of the collector's ConsumeMessages).  There are enough
\* partitions for all, and no lease expires under a running broker.
UnassignedGetsPartitions ==
  \A m \in Members :
    (pc[m] = "out" /\ registered) ~> (owned[m] # {} \/ pc[m] = "closed")

\* messagebroker/architecture.md:214: "all brokers compute identical assignments
\* from the same sorted member list".
AllBrokersAgree ==
  \A b, c \in Brokers :
    op[b] = NoOp /\ op[c] = NoOp /\ state[b] = "Stable" /\ state[c] = "Stable"
      => assign[b] = assign[c]

\* A group that no operation is changing is whole: every partition has a member and
\* a description shows no operation half done, whatever call failed before.
QuietGroupsWhole == StableCovers /\ DescriptionSettled
=============================================================================

------------------------------ MODULE Rebalancer ------------------------------
(***************************************************************************)
(* The assignment strategies of pkg/consumer/rebalancer.go and its two     *)
(* measures of an assignment.  The group manager assigns partitions itself *)
(* and calls none of them; here a caller assigns again and again, to any   *)
(* members, by any strategy, and hands the sticky one what it was last     *)
(* given (RebalancerFactory.Create).                                       *)
(*                                                                         *)
(* An assignment maps members to sequences of partitions.  Go's maps have  *)
(* no order and sort.Slice keeps none among equals: where the code walks   *)
(* over one, any order is taken.                                           *)
(***************************************************************************)
EXTENDS Integers, Sequences, FiniteSets, FiniteSetsExt, SequencesExt

CONSTANTS
  GroupMembers,     \* member ids
  PartitionCounts,  \* numbers of partitions an assignment is asked for
  MaxAssigns        \* bound: assignments in a row

ASSUME RebalancerAssumption ==
  /\ IsFiniteSet(GroupMembers)
  /\ IsFiniteSet(PartitionCounts) /\ PartitionCounts \subseteq Nat
  /\ PartitionCounts # {} /\ MaxAssigns \in Nat

VARIABLES
  plan,      \* the assignments last computed
  strategy,  \* the strategy that computed them, or "panic"
  count,     \* the number of partitions asked for
  assigns,   \* assignments so far
  departed   \* ghost: since the last strategy that starts afresh, a member left

rebalancerVars == <<plan, strategy, count, assigns, departed>>

\* How many of n partitions the i-th of k members gets: the first n % k members
\* one more than the rest.
Share(i, k, n) == n \div k + (IF i <= n % k THEN 1 ELSE 0)

\* The index of a member in a list.
IndexOf(list, m) == CHOOSE i \in DOMAIN list : list[i] = m

\* RoundRobinRebalancer.Assign: partition p goes to the member of index
\* p % Len(list), so that every Len(list)-th one goes to the same.
RoundRobinAssign(list, n) ==
  [m \in ToSet(list) |->
     LET i == IndexOf(list, m)
     IN [j \in 1 .. Share(i, Len(list), n) |-> (j - 1) * Len(list) + i - 1]]

\* Fault: one member too many gets an extra partition.
RangeAssignPastEnd(list, n) ==
  LET First(i) == (i - 1) * (n \div Len(list)) + Min({i - 1, n % Len(list)})
  IN [m \in ToSet(list) |->
        LET i == IndexOf(list, m)
        IN [j \in 1 .. Share(i - 1, Len(list), n) |-> First(i) + j - 1]]

\* RangeRebalancer.Assign: consecutive partitions.
RangeAssign(list, n) ==
  LET First(i) == (i - 1) * (n \div Len(list)) + Min({i - 1, n % Len(list)})
  IN [m \in ToSet(list) |->
        LET i == IndexOf(list, m)
        IN [j \in 1 .. Share(i, Len(list), n) |-> First(i) + j - 1]]

Held(a) == UNION {ToSet(a[m]) : m \in DOMAIN a}

\* Fault: the surviving members start from nothing.
KeptForgotten(S) == [m \in S |-> <<>>]

\* Members that remain keep what they had.
Kept(S) == [m \in S |-> IF m \in DOMAIN plan THEN plan[m] ELSE <<>>]

\* The lists of the members that left, one after the other.
Reclaimed(S) ==
  {FlattenSeq([i \in DOMAIN gone |-> plan[gone[i]]]) : gone \in SetToSeqs(DOMAIN plan \ S)}

\* Fault: only what departed members had is handed out.
UnassignedForgotten(S, n) == <<>>

AllPartitions(n) == [p \in 1 .. n |-> p - 1]

\* What no remaining member has: the partitions of the departed among them.
Unassigned(S, n) ==
  FoldLeft(LAMBDA found, p : IF p \in Held(Kept(S)) THEN found ELSE Append(found, p),
           <<>>, AllPartitions(n))

\* The members in some order of their load.
Loads(a) ==
  {list \in SetToSeqs(DOMAIN a) : \A i, j \in DOMAIN list :
     i < j => Len(a[list[i]]) <= Len(a[list[j]])}

\* The first of the least loaded members gets the partition.
GiveToLeast(list, a, p) ==
  LET least == CHOOSE i \in DOMAIN list : \A j \in DOMAIN list :
                 \/ Len(a[list[i]]) < Len(a[list[j]])
                 \/ Len(a[list[i]]) = Len(a[list[j]]) /\ i <= j
  IN [a EXCEPT ![list[least]] = Append(@, p)]

\* What the members have when the partitions of q are given out, one by one.
GivenOut(list, kept, q) == FoldLeft(LAMBDA a, p : GiveToLeast(list, a, p), kept, q)

\* StickyRebalancer.Assign
StickyAssigns(S, n) ==
  {GivenOut(list, Kept(S), lost \o Unassigned(S, n)) :
     list \in Loads(Kept(S)), lost \in Reclaimed(S)}

\* With no member the first two return at once; the sticky one, if there is a
\* partition to give, indexes an empty list.
Panics(s, S, n) == s = "Sticky" /\ S = {} /\ (n # 0 \/ Held(plan) # {})

\* The assignments that a strategy can answer with.
Assignments(s, S, n) ==
  CASE s = "RoundRobin" -> {RoundRobinAssign(list, n) : list \in SetToSeqs(S)}
    [] s = "Range"      -> {RangeAssign(list, n) : list \in SetToSeqs(S)}
    [] s = "Sticky"     -> StickyAssigns(S, n)

\* RebalancerFactory.Create, and Assign of what it made.
Rebalance(s, S, n) ==
  /\ strategy # "panic" /\ assigns < MaxAssigns
  /\ assigns' = assigns + 1 /\ count' = n
  /\ \/ Panics(s, S, n) /\ strategy' = "panic" /\ UNCHANGED plan
     \/ ~Panics(s, S, n) /\ strategy' = s /\ plan' \in Assignments(s, S, n)
  /\ departed' = (s = "Sticky" /\ (departed \/ ~(DOMAIN plan \subseteq S)))

RebalancerInit ==
  plan = <<>> /\ strategy = "none" /\ count = 0 /\ assigns = 0 /\ departed = FALSE

RebalancerNext ==
  \E s \in {"RoundRobin", "Range", "Sticky"}, S \in SUBSET GroupMembers,
     n \in PartitionCounts : Rebalance(s, S, n)

RebalancerSpec == RebalancerInit /\ [][RebalancerNext]_rebalancerVars

-----------------------------------------------------------------------------
(* The measures.                                                           *)

\* Fault: the mean is not subtracted.
SkewOfSquares(a) ==
  MapThenSumSet(LAMBDA m : Cardinality(DOMAIN a) * Len(a[m]) * Len(a[m]), DOMAIN a)

\* CalculateAssignmentSkew: the variance of the members' counts, times the
\* square of the number of members.
CalculateAssignmentSkew(a) ==
  LET k   == Cardinality(DOMAIN a)
      sum == MapThenSumSet(LAMBDA m : Len(a[m]), DOMAIN a)
  IN MapThenSumSet(LAMBDA m : (k * Len(a[m]) - sum) * (k * Len(a[m]) - sum), DOMAIN a)
       \div (IF k = 0 THEN 1 ELSE k)

Owners(a, p) == {m \in DOMAIN a : p \in ToSet(a[m])}

\* CountPartitionMoves: each map keeps one owner of a partition, whichever is
\* written last, so the answer may depend on the order.
CountPartitionMoves(previous, current) ==
  LET both  == Held(previous) \intersect Held(current)
      Moved(p)    == Owners(previous, p) \intersect Owners(current, p) = {}
      MayMove(p)  == ~\E m \in DOMAIN previous : {m} = Owners(previous, p)
                                                  /\ {m} = Owners(current, p)
  IN Cardinality({p \in both : Moved(p)}) .. Cardinality({p \in both : MayMove(p)})

-----------------------------------------------------------------------------
(* Properties.                                                             *)

\* Every variable has its type.
RebalancerTypeOK ==
  /\ DOMAIN plan \subseteq GroupMembers
  /\ \A m \in DOMAIN plan : ToSet(plan[m]) \subseteq 0 .. (Max(PartitionCounts) - 1)
  /\ strategy \in {"none", "RoundRobin", "Range", "Sticky", "panic"}
  /\ count \in PartitionCounts \union {0} /\ assigns \in 0 .. MaxAssigns
  /\ departed \in BOOLEAN

\* Whatever the strategy and whatever was assigned before, no partition of the
\* topic is left without a member when there is one (the three Assign methods).
EveryPartitionOwned ==
  strategy \notin {"none", "panic"} /\ DOMAIN plan # {} =>
    0 .. (count - 1) \subseteq Held(plan)

\* No partition is assigned twice, to one member or to two, as long as no
\* member left under the sticky strategy; when one leaves, its partitions are
\* handed out twice (they are reclaimed and they are unassigned).
OwnedOnceUntilDeparture ==
  ~departed =>
    /\ \A m \in DOMAIN plan : Cardinality(ToSet(plan[m])) = Len(plan[m])
    /\ \A m, k \in DOMAIN plan :
         m # k => ToSet(plan[m]) \intersect ToSet(plan[k]) = {}

\* Round robin and range leave the least skew there is: n % k members have one
\* partition more than the rest, which CalculateAssignmentSkew measures.
FreshIsEven ==
  strategy \in {"RoundRobin", "Range"} /\ DOMAIN plan # {} =>
    LET k == Cardinality(DOMAIN plan)
        r == count % k
    IN CalculateAssignmentSkew(plan) = r * (k - r)

\* The sticky strategy moves nothing that it need not: when every member stays
\* and no partition has two owners, CountPartitionMoves of the step is zero.
StickyMovesNothing ==
  strategy' = "Sticky" /\ ~departed' => CountPartitionMoves(plan, plan') = {0}

\* The strategies assign every partition, once, evenly, and sticky ones stay: with
\* the exceptions above, over any sequence of assignments.
StrategiesSound ==
  [][/\ (EveryPartitionOwned /\ OwnedOnceUntilDeparture /\ FreshIsEven)'
     /\ StickyMovesNothing]_rebalancerVars
=============================================================================

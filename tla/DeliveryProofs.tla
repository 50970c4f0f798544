--------------------------- MODULE DeliveryProofs ---------------------------
(***************************************************************************)
(* Proofs about Delivery, for every set of collectors, every finite set of *)
(* partitions, every way to share them and every bound.                    *)
(*                                                                         *)
(*   DeliveryTypeCorrect      the type invariant                           *)
(*   NoMessagePassedOver      nothing is skipped below any position        *)
(*   CommitsReplayAtMostOne   with one consumer and no failed call, at     *)
(*                            most one stored message is read again        *)
(*                                                                         *)
(* PosInv is what the first two need besides: no position is beyond what   *)
(* the log holds or held when the broker restarted, and a commit is never  *)
(* ahead of the position it comes from.                                    *)
(***************************************************************************)
EXTENDS Delivery, OrderedSets, SequenceTheorems

-----------------------------------------------------------------------------
(* A fetch.                                                                *)

\* Largest finds what is there.
LEMMA LargestIsLargest ==
  ASSUME NEW n \in Nat, NEW S, S \subseteq 0 .. n, S # {}
  PROVE  Largest(S) \in S /\ \A y \in S : y <= Largest(S)
<1>1. \E x \in S : \A y \in S : y <= x
  BY LargestNatural
<1>2. QED
  BY <1>1 DEF Largest

\* Nth finds the partition in that place.
LEMMA NthIsElement ==
  ASSUME NEW S \in SUBSET Partitions, NEW k \in Nat, k < Cardinality(S)
  PROVE  Nth(S, k) \in S
<1>1. S \in SUBSET Nat /\ IsFiniteSet(S)
  BY DeliveryAssumption, FS_Subset
<1>2. Cardinality(S) \in Nat
  BY <1>1, FS_CardinalityType
<1>3. k \in 0 .. (Cardinality(S) - 1)
  BY <1>2
<1>4. \E x \in S : Place(x, S) = k
  BY <1>1, <1>3, EveryPlaceTaken
<1>5. QED
  BY <1>4 DEF Nth, Place

\* A set of partitions that is not empty has a size to count up to.
LEMMA SizeOfShare ==
  ASSUME NEW S \in SUBSET Partitions, S # {}
  PROVE  Cardinality(S) \in Nat \ {0}
<1>1. IsFiniteSet(S)
  BY DeliveryAssumption, FS_Subset
<1>2. QED
  BY <1>1, FS_CardinalityType, FS_EmptySet

\* No position is beyond the log, unless it is from before a restart.
Reachable(p, pos) == pos <= MaxLog /\ (pos <= next[p] \/ pos <= stale[p])

PosInv ==
  /\ \A p \in Partitions : base[p] <= next[p] /\ stale[p] <= MaxLog
  /\ \A p \in Partitions :
       Reachable(p, committed[p]) /\ \A c \in Consumers : Reachable(p, offset[c][p])
  /\ \A c \in Consumers :
       /\ pc[c].at = "offsets" => pc[c].todo # {}
       /\ pc[c].at = "commit" => /\ pc[c].p \in Partitions
                                 /\ pc[c].lastOffset + 1 = offset[c][pc[c].p]

\* The partition a consumer asks is one of its own.
LEMMA AskedIsOwned ==
  ASSUME TypeOK, NEW c \in Consumers, owned[c] # {}
  PROVE  Nth(owned[c], Asked(c)) \in owned[c]
<1>1. owned[c] \in SUBSET Partitions /\ last[c] \in Nat /\ pc[c].tried \in Nat
  BY DEF TypeOK
<1>2. Cardinality(owned[c]) \in Nat \ {0}
  BY <1>1, SizeOfShare
<1>3. Asked(c) \in Nat /\ Asked(c) < Cardinality(owned[c])
  <2> DEFINE s == last[c] + pc[c].tried
  <2>1. s \in Nat
    BY <1>1
  <2> HIDE DEF s
  <2>2. s % Cardinality(owned[c]) \in 0 .. (Cardinality(owned[c]) - 1)
    BY <2>1, <1>2
  <2>3. QED
    BY <2>2, <1>2 DEF Asked, s
<1>4. QED
  BY <1>1, <1>3, NthIsElement

\* What a consumer is answered: the offsets from the first retained one it has
\* not read, in a row.
LEMMA AnswerIsInterval ==
  ASSUME TypeOK, PosInv, NEW c \in Consumers, owned[c] # {}, Answer(c) # {}
  PROVE  \E p \in owned[c], from \in Nat, end \in Nat :
           /\ p = Nth(owned[c], Asked(c))
           /\ from = IF offset[c][p] < base[p] THEN base[p] ELSE offset[c][p]
           /\ from <= end /\ end < next[p]
           /\ Answer(c) = from .. end
           /\ Largest(Answer(c)) = end
           /\ Cardinality(Answer(c)) = end - from + 1
<1> DEFINE p == Nth(owned[c], Asked(c))
           from == IF offset[c][p] < base[p] THEN base[p] ELSE offset[c][p]
           end == Largest(Answer(c))
<1>1. p \in owned[c] /\ p \in Partitions
  BY AskedIsOwned DEF TypeOK
<1>2. from \in Nat /\ next[p] \in 0 .. MaxLog /\ MaxLog \in Nat /\ FetchMax \in Nat
  <2> HIDE DEF p
  <2>1. offset[c][p] \in Nat /\ base[p] \in Nat /\ next[p] \in 0 .. MaxLog
    BY <1>1 DEF TypeOK
  <2>2. QED
    BY <2>1, DeliveryAssumption
<1>3. Answer(c) = {off \in from .. (from + FetchMax - 1) : off < next[p]}
  BY DEF Answer, Available
<1> HIDE DEF p, from
<1>4. Answer(c) \subseteq 0 .. MaxLog
  BY <1>2, <1>3
<1>5. end \in Answer(c) /\ \A y \in Answer(c) : y <= end
  BY <1>2, <1>4, LargestIsLargest
<1> HIDE DEF end
<1>6. /\ end \in Nat /\ from <= end /\ end < next[p] /\ end <= from + FetchMax - 1
  BY <1>2, <1>3, <1>5
<1>7. Answer(c) = from .. end
  <2>1. ASSUME NEW x \in Answer(c) PROVE x \in from .. end
    BY <1>2, <1>3, <1>5, <1>6
  <2>2. ASSUME NEW x \in from .. end PROVE x \in Answer(c)
    BY <1>2, <1>3, <1>6
  <2>3. QED
    BY <2>1, <2>2
<1>8. Cardinality(Answer(c)) = end - from + 1
  BY <1>2, <1>6, <1>7, FS_Interval
<1>9. QED
  BY <1>1, <1>2, <1>6, <1>7, <1>8 DEF p, from, end

\* What Take does: the messages from .. end go into the consumer's hand.
LEMMA TakeEffect ==
  ASSUME TypeOK, PosInv, NEW c \in Consumers, owned[c] # {}, Answer(c) # {}, Take(c)
  PROVE  \E p \in owned[c], from \in Nat, end \in Nat :
           /\ from = IF offset[c][p] < base[p] THEN base[p] ELSE offset[c][p]
           /\ from <= end /\ end < next[p]
           /\ hand' = [hand EXCEPT ![c] = [i \in 1 .. (end - from + 1) |-> Msg(p, from - 1 + i)]]
           /\ offset' = [offset EXCEPT ![c][p] = end + 1]
           /\ last' = [last EXCEPT ![c] = (Asked(c) + 1) % Cardinality(owned[c])]
           /\ pc' = [pc EXCEPT ![c] = [Idle EXCEPT !.at = "commit", !.p = p,
                                                   !.lastOffset = end]]
<1>1. PICK p \in owned[c], from \in Nat, end \in Nat :
           /\ p = Nth(owned[c], Asked(c))
           /\ from = IF offset[c][p] < base[p] THEN base[p] ELSE offset[c][p]
           /\ from <= end /\ end < next[p]
           /\ Answer(c) = from .. end
           /\ Largest(Answer(c)) = end
           /\ Cardinality(Answer(c)) = end - from + 1
  BY AnswerIsInterval
<1>2. end - (end - from + 1) = from - 1
  BY <1>1
<1>3. \A i \in 1 .. (end - from + 1) : end - (end - from + 1) + i = from - 1 + i
  BY <1>2
<1>4. hand' = [hand EXCEPT ![c] = [i \in 1 .. (end - from + 1) |-> Msg(p, end - (end - from + 1) + i)]]
  BY <1>1 DEF Take
<1>5. [i \in 1 .. (end - from + 1) |-> Msg(p, end - (end - from + 1) + i)]
        = [i \in 1 .. (end - from + 1) |-> Msg(p, from - 1 + i)]
  BY <1>3
<1>6. hand' = [hand EXCEPT ![c] = [i \in 1 .. (end - from + 1) |-> Msg(p, from - 1 + i)]]
  BY <1>4, <1>5
<1>7. /\ offset' = [offset EXCEPT ![c][p] = end + 1]
      /\ last' = [last EXCEPT ![c] = (Asked(c) + 1) % Cardinality(owned[c])]
      /\ pc' = [pc EXCEPT ![c] = [Idle EXCEPT !.at = "commit", !.p = p,
                                              !.lastOffset = end]]
  BY <1>1 DEF Take
<1>8. QED
  BY <1>1, <1>6, <1>7

-----------------------------------------------------------------------------
(* Types and positions.                                                    *)

Slots == [at : Stages, todo : SUBSET Partitions, tried : Nat, p : Nat, lastOffset : Nat]

\* The positions of a partition are numbers up to MaxLog, and one is largest.
LEMMA PositionsBounded ==
  ASSUME TypeOK, PosInv, NEW p \in Partitions
  PROVE  /\ Positions(p) \subseteq 0 .. MaxLog /\ committed[p] \in Positions(p)
         /\ Largest(Positions(p)) \in 0 .. MaxLog
         /\ \A pos \in Positions(p) : pos <= Largest(Positions(p))
<1>1. Positions(p) \subseteq 0 .. MaxLog
  BY DEF TypeOK, PosInv, Reachable, Positions
<1>2. committed[p] \in Positions(p)
  BY DEF Positions
<1>3. MaxLog \in Nat
  BY DeliveryAssumption
<1>4. QED
  BY <1>1, <1>2, <1>3, LargestIsLargest

\* Failed calls are counted up to the bound.
LEMMA FaultsCounted == TypeOK /\ (Fail \/ Works) => faults' \in 0 .. MaxFaults
BY DeliveryAssumption DEF TypeOK, Fail, Works

\* What the type invariant says of each function.
LEMMA TypesOf ==
  ASSUME TypeOK
  PROVE  /\ base \in [Partitions -> Nat] /\ next \in [Partitions -> Nat]
         /\ committed \in [Partitions -> Nat]
         /\ offset \in [Consumers -> [Partitions -> Nat]]
         /\ owned \in [Consumers -> SUBSET Partitions]
         /\ hand \in [Consumers -> Seq(Messages)] /\ stored \subseteq Messages
BY DeliveryAssumption DEF TypeOK

\* Types and positions are right at the start.
LEMMA InitPosInv == Init => TypeOK /\ PosInv
<1> SUFFICES ASSUME Init PROVE TypeOK /\ PosInv
  OBVIOUS
<1> USE DeliveryAssumption DEF Init
<1>1. Idle \in Slots
  BY DEF Idle, Slots, Stages
<1>2. \A c \in Consumers : pc[c] = Idle /\ hand[c] = <<>>
  OBVIOUS
<1>3. TypeOK
  BY <1>1, <1>2 DEF TypeOK, Slots, Idle
<1>4. PosInv
  BY DEF PosInv, Reachable, Idle
<1>5. QED
  BY <1>3, <1>4

\* One step keeps types and positions.
LEMMA NextPosInv == TypeOK /\ PosInv /\ [Next]_vars => TypeOK' /\ PosInv'
<1> SUFFICES ASSUME TypeOK, PosInv, [Next]_vars PROVE TypeOK' /\ PosInv'
  OBVIOUS
<1> USE DeliveryAssumption
<1>s. /\ pc \in [Consumers -> Slots]
      /\ Idle \in Slots /\ Idle.at = "idle" /\ Partitions \subseteq Nat
      /\ \A c \in Consumers : hand[c] \in Seq(Messages)
  BY DEF TypeOK, Slots, Idle, Stages
<1>1. ASSUME NEW p \in Partitions, Produce(p)
      PROVE  TypeOK' /\ PosInv'
  <2>1. /\ base[p] \in Nat /\ next[p] \in 0 .. MaxLog /\ next[p] < MaxLog
        /\ base[p] <= next[p] /\ MaxLog \in Nat /\ MaxMessages \in Nat \ {0}
    BY <1>1 DEF TypeOK, PosInv, Produce
  <2>2. /\ next' = [next EXCEPT ![p] = next[p] + 1]
        /\ base' = [base EXCEPT ![p] = IF next[p] - base[p] = MaxMessages
                                       THEN base[p] + 1 ELSE base[p]]
        /\ UNCHANGED <<epoch, stale, committed, owned, offset, last, pc, hand, stored,
                       dropped, faults, crashes>>
    BY <1>1 DEF Produce, consumerVars
  <2>3. /\ next' \in [Partitions -> 0 .. MaxLog] /\ base' \in [Partitions -> Nat]
        /\ \A q \in Partitions : base'[q] <= next'[q] /\ next[q] <= next'[q]
    <3>1. next[p] + 1 \in 0 .. MaxLog
      BY <2>1
    <3>2. \A q \in Partitions : next[q] \in Nat /\ base[q] <= next[q]
      BY DEF TypeOK, PosInv
    <3>3. \A q \in Partitions : next'[q] = IF q = p THEN next[p] + 1 ELSE next[q]
      BY <2>2 DEF TypeOK
    <3>4. \A q \in Partitions :
            base'[q] = IF q = p THEN IF next[p] - base[p] = MaxMessages
                                     THEN base[p] + 1 ELSE base[p]
                                ELSE base[q]
      BY <2>2 DEF TypeOK
    <3>5. \A q \in Partitions : base'[q] <= next'[q] /\ next[q] <= next'[q]
      BY <2>1, <3>2, <3>3, <3>4
    <3>6. QED
      BY <2>1, <2>2, <3>1, <3>5 DEF TypeOK
  <2>4. TypeOK'
    BY <2>2, <2>3 DEF TypeOK
  <2>5. PosInv'
    <3>1. \A q \in Partitions, pos \in Nat : Reachable(q, pos) => Reachable(q, pos)'
      <4>1. \A q \in Partitions : next[q] \in Nat /\ next'[q] \in Nat
        BY <2>3 DEF TypeOK
      <4>2. QED
        BY <2>2, <2>3, <4>1 DEF Reachable
    <3>2. \A q \in Partitions : Reachable(q, committed[q])'
      BY <2>2, <3>1 DEF PosInv, TypeOK, Reachable
    <3>3. \A q \in Partitions, c \in Consumers : Reachable(q, offset[c][q])'
      <4> SUFFICES ASSUME NEW q \in Partitions, NEW c \in Consumers
                   PROVE  Reachable(q, offset[c][q])'
        OBVIOUS
      <4>1. offset[c][q] \in Nat /\ Reachable(q, offset[c][q])
        BY DEF PosInv, TypeOK
      <4>2. QED
        BY <2>2, <3>1, <4>1 DEF Reachable
    <3>4. QED
      BY <2>2, <2>3, <3>2, <3>3 DEF PosInv
  <2>6. QED
    BY <2>4, <2>5
<1>2. CASE BrokerRestart
  <2>1. /\ epoch' = epoch + 1 /\ epoch < MaxRestarts
        /\ base' = [p \in Partitions |-> 0] /\ next' = [p \in Partitions |-> 0]
        /\ stale' = [p \in Partitions |-> Largest(Positions(p))]
        /\ UNCHANGED <<committed, owned, offset, last, pc, hand, stored, dropped,
                       faults, crashes>>
    BY <1>2 DEF BrokerRestart, consumerVars
  <2>2. \A p \in Partitions : stale'[p] \in 0 .. MaxLog
    BY <2>1, PositionsBounded
  <2>3. TypeOK'
    <3>1. stale' \in [Partitions -> Nat]
      BY <2>1, <2>2
    <3>2. QED
      BY <2>1, <3>1 DEF TypeOK
  <2>4. \A p \in Partitions : \A pos \in Positions(p) : Reachable(p, pos)'
    BY <2>1, <2>2, PositionsBounded DEF Reachable
  <2>5. PosInv'
    <3>1. \A p \in Partitions : Reachable(p, committed[p])'
      BY <2>1, <2>4 DEF Positions, Reachable
    <3>2. \A p \in Partitions, c \in Consumers : Reachable(p, offset[c][p])'
      BY <2>1, <2>4 DEF Positions, Reachable
    <3>3. QED
      BY <2>1, <2>2, <3>1, <3>2 DEF PosInv
  <2>6. QED
    BY <2>3, <2>5
<1>3. ASSUME NEW c \in Consumers, NEW S \in Shares, JoinGroup(c, S)
      PROVE  TypeOK' /\ PosInv'
  <2> DEFINE q == [pc[c] EXCEPT !.at = IF S = {} THEN "idle" ELSE "offsets", !.todo = S]
  <2>1. /\ S \in SUBSET Partitions /\ pc[c] = Idle
        /\ owned' = [owned EXCEPT ![c] = S]
        /\ pc' = [pc EXCEPT ![c] = q]
        /\ UNCHANGED <<epoch, base, next, stale, committed, offset, last, hand, stored,
                       dropped, faults, crashes>>
    BY <1>3, <1>s DEF JoinGroup, logVars
  <2>2. q \in Slots /\ q.todo = S /\ q.at = IF S = {} THEN "idle" ELSE "offsets"
    BY <1>s, <2>1 DEF Slots, Stages
  <2> HIDE DEF q
  <2>3. \A d \in Consumers : pc'[d] = IF d = c THEN q ELSE pc[d]
    BY <1>s, <2>1
  <2>4. hand[c] = <<>>
    BY <2>1, <1>s DEF TypeOK
  <2>5. pc' \in [Consumers -> Slots] /\ owned' \in [Consumers -> SUBSET Partitions]
    BY <2>1, <2>2, <1>s DEF TypeOK
  <2>6. \A d \in Consumers : pc'[d].at \in {"commit", "write"} <=> hand'[d] # <<>>
    BY <2>1, <2>2, <2>3, <2>4 DEF TypeOK
  <2>7. TypeOK'
    BY <2>1, <2>5, <2>6 DEF TypeOK, Slots
  <2>8. PosInv'
    BY <2>1, <2>2, <2>3 DEF PosInv, Reachable
  <2>9. QED
    BY <2>7, <2>8
<1>4. ASSUME NEW c \in Consumers, FetchOffset(c)
      PROVE  TypeOK' /\ PosInv'
  <2>1. pc[c] \in Slots /\ pc[c].at = "offsets" /\ pc[c].todo # {}
    BY <1>4, <1>s DEF FetchOffset, PosInv
  <2>2. PICK p : p = Nth(pc[c].todo, 0)
    OBVIOUS
  <2>3. p \in pc[c].todo /\ p \in Partitions
    <3>1. pc[c].todo \in SUBSET Partitions
      BY <2>1 DEF Slots
    <3>2. 0 < Cardinality(pc[c].todo)
      BY <2>1, <3>1, SizeOfShare
    <3>3. QED
      BY <2>2, <3>1, <3>2, NthIsElement
  <2> DEFINE rest == pc[c].todo \ {p}
             q == [pc[c] EXCEPT !.todo = rest, !.at = IF rest = {} THEN "idle" ELSE "offsets"]
  <2>4. PICK pos \in {committed[p], 0} : offset' = [offset EXCEPT ![c][p] = pos]
    <3>1. PICK answer \in OffsetAnswers(Nth(pc[c].todo, 0)) :
            /\ offset' = [offset EXCEPT ![c][Nth(pc[c].todo, 0)] = answer.offset]
            /\ IF answer.fails THEN Fail ELSE Works
      BY <1>4, Zenon DEF FetchOffset
    <3>2. answer.offset \in {committed[p], 0}
      BY <2>2 DEF OffsetAnswers
    <3>3. offset' = [offset EXCEPT ![c][p] = answer.offset]
      BY <3>1, <2>2
    <3>4. QED
      BY <3>2, <3>3
  <2>b. faults' \in 0 .. MaxFaults
    BY <1>4, FaultsCounted DEF FetchOffset
  <2>5. /\ pc' = [pc EXCEPT ![c] = q]
        /\ UNCHANGED <<epoch, base, next, stale, committed, owned, last, hand, stored,
                       dropped, crashes>>
    BY <1>4, <2>2, <1>s DEF FetchOffset, logVars
  <2>6. q \in Slots /\ q.todo = rest /\ q.at = IF rest = {} THEN "idle" ELSE "offsets"
    BY <2>1 DEF Slots, Stages
  <2> HIDE DEF q
  <2>7. \A d \in Consumers : pc'[d] = IF d = c THEN q ELSE pc[d]
    BY <1>s, <2>5
  <2>8. hand[c] = <<>>
    BY <2>1 DEF TypeOK
  <2>9. pos \in Nat /\ Reachable(p, pos)
    <3>1. next[p] \in Nat /\ committed[p] \in Nat
      BY <2>3 DEF TypeOK
    <3>2. QED
      BY <2>3, <2>4, <3>1 DEF PosInv, Reachable
  <2>10. \A d \in Consumers, u \in Partitions :
           offset'[d][u] = IF d = c /\ u = p THEN pos ELSE offset[d][u]
    BY <2>3, <2>4 DEF TypeOK
  <2>11. pc' \in [Consumers -> Slots] /\ offset' \in [Consumers -> [Partitions -> Nat]]
    BY <2>3, <2>4, <2>5, <2>6, <2>9, <1>s DEF TypeOK
  <2>12. \A d \in Consumers : pc'[d].at \in {"commit", "write"} <=> hand'[d] # <<>>
    BY <2>5, <2>6, <2>7, <2>8 DEF TypeOK
  <2>13. TypeOK'
    BY <2>5, <2>b, <2>11, <2>12 DEF TypeOK, Slots
  <2>14. PosInv'
    <3>1. \A d \in Consumers :
            /\ pc'[d].at = "offsets" => pc'[d].todo # {}
            /\ pc'[d].at = "commit" => /\ pc'[d].p \in Partitions
                                       /\ pc'[d].lastOffset + 1 = offset'[d][pc'[d].p]
      BY <2>6, <2>7, <2>10 DEF PosInv
    <3>2. \A u \in Partitions, d \in Consumers : Reachable(u, offset[d][u])'
      BY <2>5, <2>9, <2>10 DEF PosInv, Reachable
    <3>3. QED
      BY <2>5, <3>1, <3>2 DEF PosInv, Reachable
  <2>15. QED
    BY <2>13, <2>14
<1>5. ASSUME NEW c \in Consumers, ReadPartition(c)
      PROVE  TypeOK' /\ PosInv'
  <2>1. /\ pc[c] \in Slots /\ pc[c].at = "idle" /\ owned[c] # {}
        /\ owned[c] \in SUBSET Partitions
        /\ UNCHANGED <<epoch, base, next, stale, committed, owned, stored, dropped, crashes>>
    BY <1>5, <1>s DEF ReadPartition, logVars, TypeOK
  <2>b. faults' \in 0 .. MaxFaults
    BY <1>5, FaultsCounted DEF ReadPartition
  <2>2. Cardinality(owned[c]) \in Nat \ {0}
    BY <2>1, SizeOfShare
  <2>3. CASE Answer(c) # {} /\ Take(c)
    <3>1. PICK p \in owned[c], from \in Nat, end \in Nat :
           /\ from = IF offset[c][p] < base[p] THEN base[p] ELSE offset[c][p]
           /\ from <= end /\ end < next[p]
           /\ hand' = [hand EXCEPT ![c] = [i \in 1 .. (end - from + 1) |-> Msg(p, from - 1 + i)]]
           /\ offset' = [offset EXCEPT ![c][p] = end + 1]
           /\ last' = [last EXCEPT ![c] = (Asked(c) + 1) % Cardinality(owned[c])]
           /\ pc' = [pc EXCEPT ![c] = [Idle EXCEPT !.at = "commit", !.p = p,
                                                   !.lastOffset = end]]
      BY <2>1, <2>3, TakeEffect
    <3> DEFINE q == [Idle EXCEPT !.at = "commit", !.p = p, !.lastOffset = end]
               h == [i \in 1 .. (end - from + 1) |-> Msg(p, from - 1 + i)]
    <3>2. p \in Partitions /\ p \in Nat /\ next[p] \in 0 .. MaxLog
      BY <2>1, DeliveryAssumption DEF TypeOK
    <3>3. q \in Slots /\ q.at = "commit" /\ q.p = p /\ q.lastOffset = end
      BY <3>1, <3>2 DEF Idle, Slots, Stages
    <3>4. h \in Seq(Messages) /\ h # <<>>
      <4>1. \A i \in 1 .. (end - from + 1) : from - 1 + i \in 0 .. MaxLog
        <5>1. from <= end /\ end < next[p]
          BY <3>1
        <5>2. QED
          BY <3>2, <5>1
      <4>2. \A i \in 1 .. (end - from + 1) : Msg(p, from - 1 + i) \in Messages
        BY <3>2, <4>1 DEF Msg, Messages, TypeOK
      <4>3. end - from + 1 \in Nat /\ 1 \in 1 .. (end - from + 1)
        <5>1. from <= end
          BY <3>1
        <5>2. QED
          BY <5>1
      <4>4. h \in [1 .. (end - from + 1) -> Messages]
        BY <4>2
      <4>5. h \in Seq(Messages) /\ Len(h) = end - from + 1
        <5> HIDE DEF h
        <5>1. QED
          BY <4>3, <4>4
      <4> HIDE DEF h
      <4>6. h # <<>>
        BY <4>3, <4>5
      <4>7. QED
        BY <4>5, <4>6
    <3>5. hand' = [hand EXCEPT ![c] = h] /\ pc' = [pc EXCEPT ![c] = q]
      BY <3>1
    <3> HIDE DEF q, h
    <3>6. \A d \in Consumers : /\ pc'[d] = IF d = c THEN q ELSE pc[d]
                               /\ hand'[d] = IF d = c THEN h ELSE hand[d]
      <4>1. hand \in [Consumers -> Seq(Messages)]
        BY TypesOf
      <4>2. QED
        BY <3>5, <4>1, <1>s
    <3>7. \A d \in Consumers, u \in Partitions :
             offset'[d][u] = IF d = c /\ u = p THEN end + 1 ELSE offset[d][u]
      <4>1. offset \in [Consumers -> [Partitions -> Nat]] /\ p \in Partitions
        BY TypesOf, <3>2
      <4>2. offset' = [offset EXCEPT ![c][p] = end + 1]
        BY <3>1
      <4>3. QED
        BY <4>1, <4>2
    <3>8. last' \in [Consumers -> Nat]
      <4>1. Asked(c) + 1 \in Nat
        <5> DEFINE place == last[c] + pc[c].tried
                   n     == Cardinality(owned[c])
        <5>1. last[c] \in Nat
          BY DEF TypeOK
        <5>2. pc[c].tried \in Nat
          BY <2>1 DEF Slots
        <5>3. place \in Nat /\ n \in Nat \ {0}
          BY <2>2, <5>1, <5>2
        <5> HIDE DEF place, n
        <5>4. (place % n) + 1 \in Nat
          BY <5>3
        <5>5. QED
          BY <5>4 DEF Asked, place, n
      <4>2. (Asked(c) + 1) % Cardinality(owned[c]) \in Nat
        BY <4>1, <2>2
      <4>3. QED
        BY <4>2, <3>1 DEF TypeOK
    <3>9. /\ pc' \in [Consumers -> Slots] /\ hand' \in [Consumers -> Seq(Messages)]
          /\ offset' \in [Consumers -> [Partitions -> Nat]]
      <4>1. pc' \in [Consumers -> Slots] /\ hand' \in [Consumers -> Seq(Messages)]
        BY <3>3, <3>4, <3>5, <1>s DEF TypeOK
      <4>2. offset' = [offset EXCEPT ![c][p] = end + 1] /\ end + 1 \in Nat
        BY <3>1
      <4>3. offset' \in [Consumers -> [Partitions -> Nat]]
        BY <4>2 DEF TypeOK
      <4>4. QED
        BY <4>1, <4>3
    <3>10. \A d \in Consumers : pc'[d].at \in {"commit", "write"} <=> hand'[d] # <<>>
      BY <3>3, <3>4, <3>6 DEF TypeOK
    <3>11. TypeOK'
      BY <2>1, <2>b, <3>8, <3>9, <3>10 DEF TypeOK, Slots
    <3>12. PosInv'
      <4>1. \A d \in Consumers :
              /\ pc'[d].at = "offsets" => pc'[d].todo # {}
              /\ pc'[d].at = "commit" => /\ pc'[d].p \in Partitions
                                         /\ pc'[d].lastOffset + 1 = offset'[d][pc'[d].p]
        <5> SUFFICES ASSUME NEW d \in Consumers
                     PROVE  /\ pc'[d].at = "offsets" => pc'[d].todo # {}
                            /\ pc'[d].at = "commit" =>
                                 /\ pc'[d].p \in Partitions
                                 /\ pc'[d].lastOffset + 1 = offset'[d][pc'[d].p]
          OBVIOUS
        <5>1. CASE d = c
          BY <5>1, <3>2, <3>3, <3>6, <3>7
        <5>2. CASE d # c
          <6>1. pc'[d] = pc[d] /\ \A u \in Partitions : offset'[d][u] = offset[d][u]
            BY <5>2, <3>6, <3>7
          <6>2. QED
            BY <6>1 DEF PosInv
        <5>3. QED
          BY <5>1, <5>2
      <4>2. Reachable(p, end + 1)
        BY <3>1, <3>2 DEF Reachable
      <4>3. \A u \in Partitions, d \in Consumers : Reachable(u, offset[d][u])'
        BY <2>1, <3>7, <4>2 DEF PosInv, Reachable
      <4>4. QED
        BY <2>1, <4>1, <4>3 DEF PosInv, Reachable
    <3>13. QED
      BY <3>11, <3>12
  <2>4. CASE /\ pc' = [pc EXCEPT ![c].tried = (@ + 1) % Cardinality(owned[c])]
             /\ UNCHANGED <<hand, offset, last>>
    <3> DEFINE n == (pc[c].tried + 1) % Cardinality(owned[c])
               q == [pc[c] EXCEPT !.tried = n]
    <3>1. n \in Nat
      <4>1. pc[c].tried + 1 \in Nat
        BY <2>1 DEF Slots
      <4>2. QED
        BY <2>2, <4>1
    <3>2. pc' = [pc EXCEPT ![c] = q]
      BY <2>4, <1>s
    <3> HIDE DEF n
    <3>3. q \in Slots /\ q.at = "idle"
      BY <2>1, <3>1 DEF Slots
    <3> HIDE DEF q
    <3>4. \A d \in Consumers : pc'[d] = IF d = c THEN q ELSE pc[d]
      BY <3>2, <1>s
    <3>5. \A d \in Consumers : pc'[d].at \in {"commit", "write"} <=> hand'[d] # <<>>
      BY <2>1, <2>4, <3>3, <3>4 DEF TypeOK
    <3>6. pc' \in [Consumers -> Slots]
      BY <3>2, <3>3, <1>s
    <3>7. TypeOK'
      BY <2>1, <2>4, <2>b, <3>5, <3>6 DEF TypeOK, Slots
    <3>8. PosInv'
      BY <2>1, <2>4, <3>3, <3>4 DEF PosInv, Reachable
    <3>9. QED
      BY <3>7, <3>8
  <2>5. QED
    BY <1>5, <2>3, <2>4 DEF ReadPartition
<1>6. ASSUME NEW c \in Consumers, CommitOffset(c)
      PROVE  TypeOK' /\ PosInv'
  <2>1. /\ pc[c] \in Slots /\ pc[c].at = "commit"
        /\ UNCHANGED <<epoch, base, next, stale, owned, offset, last, hand, stored,
                       dropped, crashes>>
        /\ faults' \in 0 .. MaxFaults
    <3>1. faults' \in 0 .. MaxFaults
      BY <1>6, FaultsCounted DEF CommitOffset
    <3>2. /\ pc[c].at = "commit"
          /\ UNCHANGED <<epoch, base, next, stale, owned, offset, last, hand, stored,
                         dropped, crashes>>
      BY <1>6 DEF CommitOffset, logVars
    <3>3. QED
      BY <3>1, <3>2, <1>s
  <2>2. pc[c].p \in Partitions /\ pc[c].lastOffset + 1 = offset[c][pc[c].p]
        /\ pc[c].lastOffset \in Nat
    BY <2>1 DEF PosInv, Slots
  <2> DEFINE q == [Idle EXCEPT !.at = "write"]
  <2>3. q \in Slots /\ q.at = "write" /\ pc' = [pc EXCEPT ![c] = q]
    BY <1>6, <1>s DEF CommitOffset, Slots, Stages
  <2> HIDE DEF q
  <2>4. \A d \in Consumers : pc'[d] = IF d = c THEN q ELSE pc[d]
    BY <2>3, <1>s
  <2>5. Reachable(pc[c].p, pc[c].lastOffset)
    <3>1. Reachable(pc[c].p, pc[c].lastOffset + 1)
      BY <2>2 DEF PosInv
    <3>2. next[pc[c].p] \in Nat /\ stale[pc[c].p] \in Nat
      BY <2>2 DEF TypeOK
    <3>3. QED
      BY <2>2, <3>1, <3>2 DEF Reachable
  <2>6. /\ committed' \in [Partitions -> Nat]
        /\ \A u \in Partitions : committed'[u] = committed[u]
                                 \/ (u = pc[c].p /\ committed'[u] = pc[c].lastOffset)
    BY <1>6, <2>2 DEF CommitOffset, TypeOK
  <2>7. \A d \in Consumers : pc'[d].at \in {"commit", "write"} <=> hand'[d] # <<>>
    BY <2>1, <2>3, <2>4 DEF TypeOK
  <2>8. pc' \in [Consumers -> Slots]
    BY <2>3, <1>s
  <2>9. TypeOK'
    BY <2>1, <2>6, <2>7, <2>8 DEF TypeOK, Slots
  <2>10. PosInv'
    <3>1. \A u \in Partitions : Reachable(u, committed[u])'
      BY <2>1, <2>5, <2>6 DEF PosInv, Reachable
    <3>2. QED
      BY <2>1, <2>3, <2>4, <3>1 DEF PosInv, Reachable
  <2>11. QED
    BY <2>9, <2>10
<1>7. ASSUME NEW c \in Consumers, WriteMetric(c)
      PROVE  TypeOK' /\ PosInv'
  <2>1. /\ pc[c] \in Slots /\ pc[c].at = "write"
        /\ UNCHANGED <<epoch, base, next, stale, committed, owned, offset, last, crashes>>
        /\ faults' \in 0 .. MaxFaults
    <3>1. faults' \in 0 .. MaxFaults
      BY <1>7, FaultsCounted DEF WriteMetric
    <3>2. /\ pc[c].at = "write"
          /\ UNCHANGED <<epoch, base, next, stale, committed, owned, offset, last, crashes>>
      BY <1>7 DEF WriteMetric, logVars
    <3>3. QED
      BY <3>1, <3>2, <1>s
  <2>2. hand[c] \in Seq(Messages) /\ hand[c] # <<>>
    BY <2>1, <1>s DEF TypeOK
  <2>3. /\ Head(hand[c]) \in Messages /\ Tail(hand[c]) \in Seq(Messages)
        /\ Len(hand[c]) \in Nat /\ Len(Tail(hand[c])) = Len(hand[c]) - 1
    BY <2>2, HeadTailProperties
  <2>4. Tail(hand[c]) = <<>> <=> Len(hand[c]) = 1
    <3>1. Tail(hand[c]) = <<>> <=> Len(Tail(hand[c])) = 0
      BY <2>3, EmptySeq
    <3>2. QED
      BY <2>3, <3>1
  <2>5. stored' \subseteq Messages /\ dropped' \subseteq Messages
    BY <1>7, <2>3 DEF WriteMetric, TypeOK
  <2> DEFINE q == [pc[c] EXCEPT !.at = IF Len(hand[c]) = 1 THEN "idle" ELSE "write"]
  <2>6. /\ q \in Slots /\ q.at = IF Len(hand[c]) = 1 THEN "idle" ELSE "write"
        /\ pc' = [pc EXCEPT ![c] = q] /\ hand' = [hand EXCEPT ![c] = Tail(hand[c])]
    BY <1>7, <2>1, <1>s DEF WriteMetric, Slots, Stages
  <2> HIDE DEF q
  <2>7. \A d \in Consumers : /\ pc'[d] = IF d = c THEN q ELSE pc[d]
                             /\ hand'[d] = IF d = c THEN Tail(hand[c]) ELSE hand[d]
    BY <2>6, <1>s DEF TypeOK
  <2>8. \A d \in Consumers : pc'[d].at \in {"commit", "write"} <=> hand'[d] # <<>>
    BY <2>4, <2>6, <2>7 DEF TypeOK
  <2>9. pc' \in [Consumers -> Slots] /\ hand' \in [Consumers -> Seq(Messages)]
    BY <2>3, <2>6, <1>s DEF TypeOK
  <2>10. TypeOK'
    BY <2>1, <2>5, <2>8, <2>9 DEF TypeOK, Slots
  <2>11. PosInv'
    BY <2>1, <2>6, <2>7 DEF PosInv, Reachable
  <2>12. QED
    BY <2>10, <2>11
<1>8. ASSUME NEW c \in Consumers, Crash(c)
      PROVE  TypeOK' /\ PosInv'
  <2>1. /\ crashes' = crashes + 1 /\ crashes < MaxCrashes
        /\ dropped' = dropped \union {hand[c][i] : i \in 1 .. Len(hand[c])}
        /\ hand' = [hand EXCEPT ![c] = <<>>]
        /\ owned' = [owned EXCEPT ![c] = {}]
        /\ offset' = [offset EXCEPT ![c] = [p \in Partitions |-> 0]]
        /\ last' = [last EXCEPT ![c] = 0]
        /\ pc' = [pc EXCEPT ![c] = Idle]
        /\ UNCHANGED <<epoch, base, next, stale, committed, stored, faults>>
    BY <1>8 DEF Crash, logVars
  <2>2. dropped' \subseteq Messages
    <3>1. \A i \in 1 .. Len(hand[c]) : hand[c][i] \in Messages
      BY <1>s, ElementOfSeq
    <3>2. QED
      BY <2>1, <3>1 DEF TypeOK
  <2>3. <<>> \in Seq(Messages)
    BY EmptySeq
  <2>4. \A d \in Consumers : /\ pc'[d] = IF d = c THEN Idle ELSE pc[d]
                             /\ hand'[d] = IF d = c THEN <<>> ELSE hand[d]
    BY <2>1, <1>s DEF TypeOK
  <2>5. \A d \in Consumers : pc'[d].at \in {"commit", "write"} <=> hand'[d] # <<>>
    BY <2>4, <1>s DEF TypeOK
  <2>6. /\ pc' \in [Consumers -> Slots] /\ hand' \in [Consumers -> Seq(Messages)]
        /\ owned' \in [Consumers -> SUBSET Partitions]
        /\ offset' \in [Consumers -> [Partitions -> Nat]]
        /\ last' \in [Consumers -> Nat]
    BY <2>1, <2>3, <1>s DEF TypeOK
  <2>c. crashes' \in 0 .. MaxCrashes
    BY <2>1 DEF TypeOK
  <2>7. TypeOK'
    BY <2>1, <2>2, <2>5, <2>6, <2>c DEF TypeOK, Slots
  <2>8. \A d \in Consumers, u \in Partitions :
          offset'[d][u] = IF d = c THEN 0 ELSE offset[d][u]
    BY <2>1 DEF TypeOK
  <2>9. PosInv'
    <3>1. \A u \in Partitions : Reachable(u, 0)
      BY DEF Reachable, TypeOK
    <3>2. \A d \in Consumers, u \in Partitions : Reachable(u, offset[d][u])'
      <4> SUFFICES ASSUME NEW d \in Consumers, NEW u \in Partitions
                   PROVE  Reachable(u, offset[d][u])'
        OBVIOUS
      <4>1. Reachable(u, offset[d][u]) /\ Reachable(u, 0)
        BY <3>1 DEF PosInv
      <4>2. QED
        BY <2>1, <2>8, <4>1 DEF Reachable
    <3>3. QED
      BY <2>1, <2>4, <2>8, <3>2, <1>s DEF PosInv, Reachable
  <2>10. QED
    BY <2>7, <2>9
<1>9. CASE UNCHANGED vars
  BY <1>9 DEF vars, TypeOK, PosInv, Reachable
<1>10. QED
  BY <1>1, <1>2, <1>3, <1>4, <1>5, <1>6, <1>7, <1>8, <1>9 DEF Next, Loop

\* Every variable keeps its type.
THEOREM DeliveryTypeCorrect == Spec => []TypeOK
<1>1. Spec => [](TypeOK /\ PosInv)
  BY InitPosInv, NextPosInv, PTL DEF Spec
<1>2. QED
  BY <1>1, PTL

-----------------------------------------------------------------------------
(* Nothing is passed over.                                                 *)

Kept(p, off) == Settled(p, off) \/ InHand(Msg(p, off))

\* Every message some consumer holds is still in a hand, written or lost.
HandsKept ==
  \A c \in Consumers : \A i \in 1 .. Len(hand[c]) :
    \/ hand[c][i] \in stored' \union dropped'
    \/ \E j \in 1 .. Len(hand'[c]) : hand'[c][j] = hand[c][i]

\* What is kept stays kept while the broker lives and no hand is forgotten.
LEMMA KeptStays ==
  ASSUME TypeOK, TypeOK', NEW p \in Partitions, NEW off \in Nat,
         epoch' = epoch, base[p] <= base'[p],
         stored \subseteq stored', dropped \subseteq dropped', HandsKept,
         Kept(p, off)
  PROVE  Kept(p, off)'
<1>1. Msg(p, off)' = Msg(p, off)
  BY DEF Msg
<1>2. CASE off < base[p]
  <2>1. base[p] \in Nat /\ base'[p] \in Nat
    BY DEF TypeOK
  <2>2. QED
    BY <1>2, <2>1 DEF Kept, Settled
<1>3. CASE Msg(p, off) \in stored \union dropped
  BY <1>1, <1>3 DEF Kept, Settled
<1>4. CASE InHand(Msg(p, off))
  <2>0. PICK c \in Consumers : \E i \in 1 .. Len(hand[c]) : hand[c][i] = Msg(p, off)
    BY <1>4 DEF InHand
  <2>1. PICK i \in 1 .. Len(hand[c]) : hand[c][i] = Msg(p, off)
    BY <2>0
  <2>2. CASE hand[c][i] \in stored' \union dropped'
    BY <1>1, <2>1, <2>2 DEF Kept, Settled
  <2>3. CASE \E j \in 1 .. Len(hand'[c]) : hand'[c][j] = hand[c][i]
    <3>1. InHand(Msg(p, off))'
      BY <1>1, <2>1, <2>3 DEF InHand
    <3>2. QED
      BY <3>1 DEF Kept
  <2>4. QED
    BY <2>1, <2>2, <2>3 DEF HandsKept
<1>5. QED
  BY <1>2, <1>3, <1>4 DEF Kept, Settled

\* Hands that do not change are kept.
LEMMA SameHandsKept == UNCHANGED hand => HandsKept
BY DEF HandsKept

\* What NothingSkipped says of one offset.
LEMMA KeptBelow ==
  ASSUME TypeOK, NothingSkipped, NEW p \in Partitions,
         NEW off \in stale[p] .. (next[p] - 1), NEW pos \in Positions(p), off < pos
  PROVE  Kept(p, off)
BY DEF NothingSkipped, Kept

\* What PosInv says of one position.
LEMMA PositionReachable ==
  ASSUME TypeOK, PosInv, NEW p \in Partitions, NEW pos \in Positions(p)
  PROVE  pos \in Nat /\ Reachable(p, pos)
<1>1. CASE pos = committed[p]
  BY <1>1 DEF PosInv, TypeOK
<1>2. CASE \E c \in Consumers : pos = offset[c][p]
  BY <1>2 DEF PosInv, TypeOK
<1>3. QED
  BY <1>1, <1>2 DEF Positions

\* At the start there are no messages.
LEMMA InitSkipsNothing == Init => NothingSkipped
BY DEF Init, NothingSkipped

\* One step passes nothing over.
LEMMA NextSkipsNothing ==
  ASSUME TypeOK, PosInv, NothingSkipped, TypeOK', PosInv', [Next]_vars
  PROVE  NothingSkipped'
<1> USE DeliveryAssumption
<1> SUFFICES ASSUME NEW p \in Partitions, NEW off \in stale'[p] .. (next'[p] - 1),
                    NEW pos \in Positions(p)', off < pos
             PROVE  Kept(p, off)'
  BY DEF NothingSkipped, Kept
<1>n. /\ next[p] \in Nat /\ stale[p] \in Nat /\ base[p] \in Nat /\ committed[p] \in Nat
      /\ next'[p] \in Nat /\ stale'[p] \in Nat /\ base'[p] \in Nat /\ committed'[p] \in Nat
      /\ off \in Nat /\ off < next'[p] /\ stale'[p] <= off
      /\ \A c \in Consumers : offset[c][p] \in Nat /\ offset'[c][p] \in Nat
  BY DEF TypeOK
<1>o. committed[p] \in Positions(p) /\ \A c \in Consumers : offset[c][p] \in Positions(p)
  BY DEF Positions
<1>m. pos \in Nat /\ \A x \in Positions(p) : x \in Nat
  <2>1. Positions(p)' = {committed'[p]} \union {offset'[c][p] : c \in Consumers}
    BY DEF Positions
  <2>2. QED
    BY <1>n, <2>1 DEF Positions
<1>1. ASSUME NEW q \in Partitions, Produce(q)
      PROVE  Kept(p, off)'
  <2>1. /\ next' = [next EXCEPT ![q] = next[q] + 1]
        /\ base' = [base EXCEPT ![q] = IF next[q] - base[q] = MaxMessages
                                       THEN base[q] + 1 ELSE base[q]]
        /\ UNCHANGED <<epoch, stale, committed, offset, hand, stored, dropped>>
    BY <1>1 DEF Produce, consumerVars
  <2>2. base[p] <= base'[p]
    <3>1. base \in [Partitions -> Nat]
      BY TypesOf
    <3>2. base'[p] = base[p] \/ base'[p] = base[p] + 1
      BY <2>1, <3>1
    <3>3. QED
      BY <1>n, <3>2
  <2>3. Positions(p)' = Positions(p)
    BY <2>1 DEF Positions
  <2>4. Reachable(p, pos) /\ pos \in Nat
    BY <2>3, PositionReachable
  <2>5. off \in stale[p] .. (next[p] - 1)
    BY <2>1, <2>4, <1>n DEF Reachable
  <2>6. Kept(p, off)
    BY <2>3, <2>5, KeptBelow
  <2>7. QED
    BY <2>1, <2>2, <2>6, <1>n, KeptStays, SameHandsKept
<1>2. CASE BrokerRestart
  <2>1. next'[p] = 0
    BY <1>2 DEF BrokerRestart
  <2>2. QED
    BY <2>1, <1>n
<1>3. ASSUME epoch' = epoch, base' = base, next' = next, stale' = stale,
             stored \subseteq stored', dropped \subseteq dropped', HandsKept,
             \/ pos \in Positions(p)
             \/ \E older \in Positions(p) : pos <= older
             \/ pos = 0
      PROVE  Kept(p, off)'
  <2>1. PICK older \in Positions(p) : pos <= older
    <3>1. CASE pos \in Positions(p)
      <4>1. pos <= pos
        BY <1>m
      <4>2. QED
        BY <3>1, <4>1
    <3>2. CASE pos = 0
      <4>1. pos <= committed[p]
        BY <1>n, <3>2
      <4>2. QED
        BY <1>o, <4>1
    <3>3. QED
      BY <1>3, <3>1, <3>2
  <2>2. older \in Nat /\ pos \in Nat
    BY <1>m
  <2>3. off \in stale[p] .. (next[p] - 1) /\ off < older
    BY <1>3, <1>n, <2>1, <2>2
  <2>4. Kept(p, off)
    BY <2>3, KeptBelow
  <2>5. QED
    BY <1>3, <1>n, <2>4, KeptStays
<1>4. ASSUME NEW c \in Consumers, NEW S \in Shares, JoinGroup(c, S)
      PROVE  Kept(p, off)'
  BY <1>3, <1>4, SameHandsKept DEF JoinGroup, logVars, Positions
<1>5. ASSUME NEW c \in Consumers, FetchOffset(c)
      PROVE  Kept(p, off)'
  <2>1. UNCHANGED <<epoch, base, next, stale, committed, hand, stored, dropped>>
    BY <1>5 DEF FetchOffset, logVars
  <2>2. \A u \in Partitions, d \in Consumers :
          offset'[d][u] \in {offset[d][u], committed[u], 0}
    <3>1. PICK u : u = Nth(pc[c].todo, 0)
      OBVIOUS
    <3>2. PICK answer \in OffsetAnswers(Nth(pc[c].todo, 0)) :
            /\ offset' = [offset EXCEPT ![c][Nth(pc[c].todo, 0)] = answer.offset]
            /\ IF answer.fails THEN Fail ELSE Works
      BY <1>5, Zenon DEF FetchOffset
    <3>3. answer.offset \in {committed[u], 0}
      BY <3>1 DEF OffsetAnswers
    <3>4. offset' = [offset EXCEPT ![c][u] = answer.offset]
      BY <3>1, <3>2
    <3>5. QED
      BY <3>3, <3>4 DEF TypeOK
  <2>3. pos \in Positions(p) \/ pos = 0
    BY <2>1, <2>2, <1>o DEF Positions
  <2>4. QED
    BY <1>3, <2>1, <2>3, SameHandsKept
<1>6. ASSUME NEW c \in Consumers, ReadPartition(c)
      PROVE  Kept(p, off)'
  <2>1. /\ pc[c].at = "idle" /\ owned[c] # {}
        /\ UNCHANGED <<epoch, base, next, stale, committed, stored, dropped>>
    BY <1>6 DEF ReadPartition, logVars
  <2>2. CASE Answer(c) # {} /\ Take(c)
    <3>1. PICK u \in owned[c], from \in Nat, end \in Nat :
           /\ from = IF offset[c][u] < base[u] THEN base[u] ELSE offset[c][u]
           /\ from <= end /\ end < next[u]
           /\ hand' = [hand EXCEPT ![c] = [i \in 1 .. (end - from + 1) |-> Msg(u, from - 1 + i)]]
           /\ offset' = [offset EXCEPT ![c][u] = end + 1]
           /\ last' = [last EXCEPT ![c] = (Asked(c) + 1) % Cardinality(owned[c])]
           /\ pc' = [pc EXCEPT ![c] = [Idle EXCEPT !.at = "commit", !.p = u,
                                                   !.lastOffset = end]]
      BY <2>1, <2>2, TakeEffect
    <3>2. HandsKept
      <4>1. hand[c] = <<>>
        BY <2>1 DEF TypeOK
      <4>2. \A d \in Consumers : d # c => hand'[d] = hand[d]
        BY <3>1 DEF TypeOK
      <4>3. QED
        BY <4>1, <4>2 DEF HandsKept
    <3>u. u \in Partitions
      BY DEF TypeOK
    <3>3. \A d \in Consumers, v \in Partitions :
             offset'[d][v] = IF d = c /\ v = u THEN end + 1 ELSE offset[d][v]
      <4>1. offset \in [Consumers -> [Partitions -> Nat]]
        BY DEF TypeOK
      <4>2. offset' = [offset EXCEPT ![c][u] = end + 1]
        BY <3>1
      <4>3. QED
        BY <4>1, <4>2, <3>u
    <3>4. pos \in Positions(p) \/ (p = u /\ pos = end + 1)
      <4>1. pos = committed[p] \/ \E d \in Consumers : pos = offset'[d][p]
        BY <2>1 DEF Positions
      <4>2. QED
        BY <3>3, <4>1, <1>o
    <3>5. CASE pos \in Positions(p)
      BY <1>3, <2>1, <3>2, <3>5
    <3>6. CASE p = u /\ pos = end + 1 /\ from <= off
      <4>a. off \in Nat
        BY <1>n
      <4>0. off \in Nat /\ off < end + 1 /\ from <= off
        BY <3>6, <4>a
      <4>1. off - from + 1 \in 1 .. (end - from + 1) /\ from - 1 + (off - from + 1) = off
        BY <4>0
      <4>2. hand'[c] = [i \in 1 .. (end - from + 1) |-> Msg(p, from - 1 + i)]
        <5> DEFINE h == [i \in 1 .. (end - from + 1) |-> Msg(p, from - 1 + i)]
        <5>1. hand' = [hand EXCEPT ![c] = h]
          BY <3>1, <3>6
        <5>2. hand \in [Consumers -> Seq(Messages)]
          BY TypesOf
        <5> HIDE DEF h
        <5>3. hand'[c] = h
          BY <5>1, <5>2
        <5>4. QED
          BY <5>3 DEF h
      <4>3. Len(hand'[c]) = end - from + 1
        <5>1. from <= end
          BY <3>1
        <5>2. end - from + 1 \in Nat
          BY <5>1
        <5>3. QED
          BY <4>2, <5>2
      <4>4. hand'[c][off - from + 1] = Msg(p, off)
        BY <4>1, <4>2
      <4>5. Msg(p, off)' = Msg(p, off)
        BY <2>1 DEF Msg
      <4>6. InHand(Msg(p, off))'
        BY <4>1, <4>3, <4>4, <4>5 DEF InHand
      <4>7. QED
        BY <4>6 DEF Kept
    <3>7. CASE p = u /\ off < from /\ from = base[p]
      BY <3>7, <2>1 DEF Kept, Settled
    <3>8. CASE p = u /\ off < from /\ from = offset[c][p]
      <4>1. Kept(p, off)
        BY <2>1, <3>8, <1>o, KeptBelow
      <4>2. QED
        BY <2>1, <3>2, <4>1, <1>n, KeptStays
    <3>9. from = base[u] \/ from = offset[c][u]
      BY <3>1
    <3>10. from <= off \/ off < from
      BY <1>n
    <3>11. QED
      BY <3>4, <3>5, <3>6, <3>7, <3>8, <3>9, <3>10
  <2>3. CASE UNCHANGED <<hand, offset, last>>
    BY <1>3, <2>1, <2>3, SameHandsKept DEF Positions
  <2>4. QED
    BY <1>6, <2>2, <2>3 DEF ReadPartition
<1>7. ASSUME NEW c \in Consumers, CommitOffset(c)
      PROVE  Kept(p, off)'
  <2>1. /\ pc[c].at = "commit"
        /\ UNCHANGED <<epoch, base, next, stale, offset, hand, stored, dropped>>
    BY <1>7 DEF CommitOffset, logVars
  <2>2. /\ pc[c].p \in Partitions /\ pc[c].lastOffset \in Nat
        /\ pc[c].lastOffset + 1 = offset[c][pc[c].p]
    BY <2>1 DEF PosInv, TypeOK
  <2>3. committed'[p] = committed[p] \/ (p = pc[c].p /\ committed'[p] = pc[c].lastOffset)
    BY <1>7, <2>2 DEF CommitOffset, TypeOK
  <2>4. pos \in Positions(p) \/ \E older \in Positions(p) : pos <= older
    <3>1. CASE p = pc[c].p /\ pos = pc[c].lastOffset
      <4>1. offset[c][p] \in Positions(p) /\ pos <= offset[c][p]
        BY <3>1, <2>2, <1>o
      <4>2. QED
        BY <4>1
    <3>2. QED
      BY <2>1, <2>3, <3>1 DEF Positions
  <2>5. QED
    BY <1>3, <2>1, <2>4, SameHandsKept
<1>8. ASSUME NEW c \in Consumers, WriteMetric(c)
      PROVE  Kept(p, off)'
  <2>1. /\ pc[c].at = "write"
        /\ UNCHANGED <<epoch, base, next, stale, committed, offset>>
        /\ hand' = [hand EXCEPT ![c] = Tail(hand[c])]
        /\ stored \subseteq stored' /\ dropped \subseteq dropped'
        /\ Head(hand[c]) \in stored' \union dropped'
    BY <1>8 DEF WriteMetric, logVars, TypeOK
  <2>2. hand[c] \in Seq(Messages) /\ hand[c] # <<>>
    BY <2>1 DEF TypeOK
  <2>3. /\ Head(hand[c]) = hand[c][1] /\ Len(hand[c]) \in Nat
        /\ Tail(hand[c]) \in Seq(Messages) /\ Len(Tail(hand[c])) = Len(hand[c]) - 1
        /\ \A i \in 1 .. Len(Tail(hand[c])) : Tail(hand[c])[i] = hand[c][i + 1]
    BY <2>2, HeadTailProperties
  <2>4. hand'[c] = Tail(hand[c]) /\ \A d \in Consumers : d # c => hand'[d] = hand[d]
    BY <2>1 DEF TypeOK
  <2>5. HandsKept
    <3> SUFFICES ASSUME NEW d \in Consumers, NEW i \in 1 .. Len(hand[d])
                 PROVE  \/ hand[d][i] \in stored' \union dropped'
                        \/ \E j \in 1 .. Len(hand'[d]) : hand'[d][j] = hand[d][i]
      BY DEF HandsKept
    <3>1. CASE d # c
      BY <3>1, <2>4
    <3>2. CASE d = c /\ i = 1
      BY <3>2, <2>1, <2>3
    <3>3. CASE d = c /\ i # 1
      <4>1. i - 1 \in 1 .. Len(Tail(hand[c])) /\ i - 1 + 1 = i
        BY <3>3, <2>3
      <4>2. Tail(hand[c])[i - 1] = hand[c][i]
        BY <4>1, <2>3
      <4>3. QED
        BY <3>3, <4>1, <4>2, <2>4
    <3>4. QED
      BY <3>1, <3>2, <3>3
  <2>6. QED
    BY <1>3, <2>1, <2>5 DEF Positions
<1>9. ASSUME NEW c \in Consumers, Crash(c)
      PROVE  Kept(p, off)'
  <2>1. /\ dropped' = dropped \union {hand[c][i] : i \in 1 .. Len(hand[c])}
        /\ hand' = [hand EXCEPT ![c] = <<>>]
        /\ offset' = [offset EXCEPT ![c] = [u \in Partitions |-> 0]]
        /\ UNCHANGED <<epoch, base, next, stale, committed, stored>>
    BY <1>9 DEF Crash, logVars
  <2>2. HandsKept
    <3>1. \A d \in Consumers : d # c => hand'[d] = hand[d]
      BY <2>1 DEF TypeOK
    <3>2. QED
      BY <2>1, <3>1 DEF HandsKept
  <2>3. \A d \in Consumers : offset'[d][p] = IF d = c THEN 0 ELSE offset[d][p]
    BY <2>1 DEF TypeOK
  <2>4. pos \in Positions(p) \/ pos = 0
    BY <2>1, <2>3 DEF Positions
  <2>5. QED
    BY <1>3, <2>1, <2>2, <2>4
<1>10. CASE UNCHANGED vars
  BY <1>3, <1>10, SameHandsKept DEF vars, Positions
<1>11. QED
  BY <1>1, <1>2, <1>4, <1>5, <1>6, <1>7, <1>8, <1>9, <1>10 DEF Next, Loop

\* No message of a partition is passed over, whoever reads it and however the
\* readers crash, share partitions and commit (ConsumeMessages, CommitOffset).
THEOREM NoMessagePassedOver == Spec => []NothingSkipped
<1>1. Init => TypeOK /\ PosInv /\ NothingSkipped
  BY InitPosInv, InitSkipsNothing
<1>2. TypeOK /\ PosInv /\ NothingSkipped /\ [Next]_vars
        => (TypeOK /\ PosInv /\ NothingSkipped)'
  BY NextPosInv, NextSkipsNothing
<1>3. QED
  BY <1>1, <1>2, PTL DEF Spec

-----------------------------------------------------------------------------
(* What is read again.                                                     *)

\* One consumer holds every partition it is given alone.
OneConsumer == \E c : Consumers = {c}

\* Nothing is stored, or about to be, that lies beyond the commit of its
\* partition, and no position lies before it, once it is fetched.
HandInv(c) ==
  /\ pc[c].at = "write" =>
       \A i \in 1 .. Len(hand[c]) : hand[c][i][3] <= committed[hand[c][i][2]]
  /\ pc[c].at = "commit" =>
       /\ committed[pc[c].p] <= pc[c].lastOffset
       /\ \A i \in 1 .. Len(hand[c]) :
            hand[c][i][2] = pc[c].p /\ hand[c][i][3] <= pc[c].lastOffset

FetchedInv(c) ==
  \A p \in owned[c] : \/ pc[c].at = "offsets" /\ p \in pc[c].todo
                      \/ committed[p] <= offset[c][p]

StoredInv == \A m \in stored : m[3] <= committed[m[2]]

ReplayInv ==
  faults = 0 => StoredInv /\ \A c \in Consumers : HandInv(c) /\ FetchedInv(c)

\* At most the message named by the commit is stored and read again.
LEMMA ReplayBound == TypeOK /\ ReplayInv => ReplayAtMostOne
<1> SUFFICES ASSUME TypeOK, ReplayInv, faults = 0, NEW p \in Partitions
             PROVE  Cardinality({off \in committed[p] .. MaxLog : Msg(p, off) \in stored}) <= 1
  BY DEF ReplayAtMostOne
<1> DEFINE S == {off \in committed[p] .. MaxLog : Msg(p, off) \in stored}
<1>1. S \subseteq {committed[p]}
  <2> SUFFICES ASSUME NEW off \in committed[p] .. MaxLog, Msg(p, off) \in stored
               PROVE  off = committed[p]
    OBVIOUS
  <2>1. Msg(p, off)[3] <= committed[Msg(p, off)[2]]
    BY DEF ReplayInv, StoredInv
  <2>2. Msg(p, off)[3] = off /\ Msg(p, off)[2] = p
    BY DEF Msg
  <2>3. committed[p] \in Nat /\ off \in Int /\ committed[p] <= off
    BY DEF TypeOK
  <2>4. QED
    BY <2>1, <2>2, <2>3
<1> HIDE DEF S
<1>2. IsFiniteSet({committed[p]}) /\ Cardinality({committed[p]}) = 1
  BY FS_Singleton
<1>3. Cardinality(S) <= Cardinality({committed[p]})
  BY <1>1, <1>2, FS_Subset
<1>4. QED
  BY <1>2, <1>3 DEF S

\* Nothing is stored, held or owned at the start.
LEMMA InitReplayInv == Init => ReplayInv
<1> SUFFICES ASSUME Init PROVE ReplayInv
  OBVIOUS
<1>1. \A c \in Consumers : pc[c].at = "idle" /\ owned[c] = {}
  BY DEF Init, Idle
<1>2. stored = {}
  BY DEF Init
<1>3. QED
  BY <1>1, <1>2 DEF ReplayInv, StoredInv, HandInv, FetchedInv

\* One step keeps it.
LEMMA NextReplayInv ==
  ASSUME OneConsumer, TypeOK, PosInv, ReplayInv, TypeOK', PosInv', [Next]_vars
  PROVE  ReplayInv'
<1> USE DeliveryAssumption
<1> SUFFICES ASSUME faults' = 0
             PROVE  StoredInv' /\ \A d \in Consumers : HandInv(d)' /\ FetchedInv(d)'
  BY DEF ReplayInv
<1>f. faults \in Nat /\ \A d \in Consumers : \A e \in Consumers : d = e
  BY DEF TypeOK, OneConsumer
<1>i. faults = 0 => StoredInv /\ \A d \in Consumers : HandInv(d) /\ FetchedInv(d)
  BY DEF ReplayInv
<1>s. /\ pc \in [Consumers -> Slots]
      /\ \A d \in Consumers : hand[d] \in Seq(Messages) /\ owned[d] \in SUBSET Partitions
      /\ \A d \in Consumers, u \in Partitions : offset[d][u] \in Nat
      /\ \A u \in Partitions : committed[u] \in Nat
  BY DEF TypeOK, Slots
<1>1. ASSUME UNCHANGED <<committed, owned, offset, pc, hand, stored, faults>>
      PROVE  StoredInv' /\ \A d \in Consumers : HandInv(d)' /\ FetchedInv(d)'
  BY <1>1, <1>i DEF StoredInv, HandInv, FetchedInv
<1>2. ASSUME NEW p \in Partitions, Produce(p)
      PROVE  StoredInv' /\ \A d \in Consumers : HandInv(d)' /\ FetchedInv(d)'
  BY <1>1, <1>2 DEF Produce, consumerVars
<1>3. CASE BrokerRestart
  BY <1>1, <1>3 DEF BrokerRestart, consumerVars
<1>4. ASSUME NEW c \in Consumers, NEW S \in Shares, JoinGroup(c, S)
      PROVE  StoredInv' /\ \A d \in Consumers : HandInv(d)' /\ FetchedInv(d)'
  <2>1. /\ pc[c] = Idle
        /\ owned' = [owned EXCEPT ![c] = S]
        /\ pc' = [pc EXCEPT ![c].at = IF S = {} THEN "idle" ELSE "offsets", ![c].todo = S]
        /\ UNCHANGED <<committed, offset, hand, stored, faults>>
    BY <1>4 DEF JoinGroup
  <2>2. owned'[c] = S /\ pc'[c].at = (IF S = {} THEN "idle" ELSE "offsets") /\ pc'[c].todo = S
    BY <2>1, <1>s DEF TypeOK, Slots
  <2>3. HandInv(c)' /\ FetchedInv(c)'
    BY <2>2 DEF HandInv, FetchedInv
  <2>4. StoredInv'
    BY <2>1, <1>i DEF StoredInv
  <2>5. QED
    BY <2>3, <2>4, <1>f
<1>5. ASSUME NEW c \in Consumers, FetchOffset(c)
      PROVE  StoredInv' /\ \A d \in Consumers : HandInv(d)' /\ FetchedInv(d)'
  <2>1. PICK p : p = Nth(pc[c].todo, 0)
    OBVIOUS
  <2>2. PICK answer \in OffsetAnswers(Nth(pc[c].todo, 0)) :
          /\ offset' = [offset EXCEPT ![c][Nth(pc[c].todo, 0)] = answer.offset]
          /\ IF answer.fails THEN Fail ELSE Works
    BY <1>5, Zenon DEF FetchOffset
  <2>3. faults = 0 /\ ~answer.fails
    BY <2>2, <1>f DEF Fail, Works, OffsetAnswers
  <2>4. answer.offset = committed[p]
    BY <2>1, <2>3 DEF OffsetAnswers
  <2>5. /\ offset' = [offset EXCEPT ![c][p] = committed[p]]
        /\ pc[c].at = "offsets"
        /\ pc' = [pc EXCEPT ![c].todo = pc[c].todo \ {p},
                            ![c].at = IF pc[c].todo \ {p} = {} THEN "idle" ELSE "offsets"]
        /\ UNCHANGED <<committed, owned, hand, stored>>
    <3>1. offset' = [offset EXCEPT ![c][p] = committed[p]]
      BY <2>1, <2>2, <2>4
    <3>2. QED
      BY <1>5, <2>1, <3>1 DEF FetchOffset
  <2>6. /\ pc'[c].todo = pc[c].todo \ {p}
        /\ pc'[c].at = IF pc[c].todo \ {p} = {} THEN "idle" ELSE "offsets"
    BY <2>5, <1>s DEF Slots
  <2>7. \A u \in Partitions : offset'[c][u] = IF u = p THEN committed[p] ELSE offset[c][u]
    <3>1. offset \in [Consumers -> [Partitions -> Nat]]
      BY DEF TypeOK
    <3>2. QED
      BY <2>5, <3>1
  <2>8. FetchedInv(c)'
    <3> SUFFICES ASSUME NEW u \in owned[c]
                 PROVE  \/ pc'[c].at = "offsets" /\ u \in pc'[c].todo
                        \/ committed[u] <= offset'[c][u]
      BY <2>5 DEF FetchedInv
    <3>1. u \in Partitions /\ committed[u] \in Nat
      BY <1>s
    <3>2. (pc[c].at = "offsets" /\ u \in pc[c].todo) \/ committed[u] <= offset[c][u]
      BY <1>i, <2>3 DEF FetchedInv
    <3>3. QED
      BY <3>1, <3>2, <2>6, <2>7
  <2>9. HandInv(c)' /\ StoredInv'
    BY <1>i, <2>3, <2>5, <2>6 DEF HandInv, StoredInv
  <2>10. QED
    BY <2>8, <2>9, <1>f
<1>6. ASSUME NEW c \in Consumers, ReadPartition(c)
      PROVE  StoredInv' /\ \A d \in Consumers : HandInv(d)' /\ FetchedInv(d)'
  <2>1. /\ pc[c].at = "idle" /\ owned[c] # {} /\ owned[c] \in SUBSET Partitions
        /\ UNCHANGED <<committed, owned, stored>>
    BY <1>6, <1>s DEF ReadPartition
  <2>2. faults = 0
    BY <1>6, <1>f DEF ReadPartition, Fail, Works
  <2>3. \A u \in owned[c] : committed[u] <= offset[c][u]
    BY <1>i, <2>1, <2>2 DEF FetchedInv
  <2>4. StoredInv'
    BY <1>i, <2>1, <2>2 DEF StoredInv
  <2>5. CASE Answer(c) # {} /\ Take(c)
    <3>1. PICK u \in owned[c], from \in Nat, end \in Nat :
           /\ from = IF offset[c][u] < base[u] THEN base[u] ELSE offset[c][u]
           /\ from <= end /\ end < next[u]
           /\ hand' = [hand EXCEPT ![c] = [i \in 1 .. (end - from + 1) |-> Msg(u, from - 1 + i)]]
           /\ offset' = [offset EXCEPT ![c][u] = end + 1]
           /\ last' = [last EXCEPT ![c] = (Asked(c) + 1) % Cardinality(owned[c])]
           /\ pc' = [pc EXCEPT ![c] = [Idle EXCEPT !.at = "commit", !.p = u,
                                                   !.lastOffset = end]]
      BY <2>1, <2>5, TakeEffect
    <3>2. u \in Partitions /\ committed[u] \in Nat /\ offset[c][u] \in Nat /\ base[u] \in Nat
      BY <2>1, <1>s DEF TypeOK
    <3>3. committed[u] <= end
      <4>a. offset[c][u] <= from
        <5>1. from = offset[c][u] \/ (from = base[u] /\ offset[c][u] < base[u])
          BY <3>1
        <5>2. QED
          BY <3>2, <5>1
      <4>1. committed[u] <= offset[c][u] /\ offset[c][u] <= from /\ from <= end
        BY <2>3, <3>1, <4>a
      <4>2. QED
        BY <3>2, <4>1
    <3>4. pc'[c].at = "commit" /\ pc'[c].p = u /\ pc'[c].lastOffset = end
      BY <3>1, <1>s DEF Idle
    <3>5. HandInv(c)'
      <4>1. hand'[c] = [i \in 1 .. (end - from + 1) |-> Msg(u, from - 1 + i)]
        <5> DEFINE h == [i \in 1 .. (end - from + 1) |-> Msg(u, from - 1 + i)]
        <5>1. hand' = [hand EXCEPT ![c] = h]
          BY <3>1
        <5>2. hand \in [Consumers -> Seq(Messages)]
          BY TypesOf
        <5> HIDE DEF h
        <5>3. hand'[c] = h
          BY <5>1, <5>2
        <5>4. QED
          BY <5>3 DEF h
      <4>2. end - from + 1 \in Nat
        <5>1. from <= end
          BY <3>1
        <5>2. QED
          BY <5>1
      <4>3. Len(hand'[c]) = end - from + 1
        BY <4>1, <4>2
      <4>4. \A i \in 1 .. (end - from + 1) : hand'[c][i][2] = u /\ hand'[c][i][3] = from - 1 + i
        BY <4>1 DEF Msg
      <4>5. \A i \in 1 .. (end - from + 1) : from - 1 + i <= end
        OBVIOUS
      <4>6. QED
        BY <2>1, <3>3, <3>4, <4>3, <4>4, <4>5 DEF HandInv
    <3>6. FetchedInv(c)'
      <4>1. offset \in [Consumers -> [Partitions -> Nat]]
        BY DEF TypeOK
      <4>2. \A v \in Partitions : offset'[c][v] = IF v = u THEN end + 1 ELSE offset[c][v]
        BY <3>1, <3>2, <4>1
      <4>3. committed[u] <= end + 1
        BY <3>2, <3>3
      <4>4. \A v \in owned[c] : v \in Partitions /\ committed[v] <= offset'[c][v]
        BY <2>1, <2>3, <4>2, <4>3
      <4>5. QED
        BY <2>1, <4>4 DEF FetchedInv
    <3>7. QED
      BY <2>4, <3>5, <3>6, <1>f
  <2>6. CASE /\ pc' = [pc EXCEPT ![c].tried = (@ + 1) % Cardinality(owned[c])]
             /\ UNCHANGED <<hand, offset, last>>
    <3>1. pc'[c].at = "idle"
      BY <2>1, <2>6, <1>s DEF Slots
    <3>2. HandInv(c)'
      BY <3>1 DEF HandInv
    <3>3. FetchedInv(c)'
      BY <2>1, <2>3, <2>6 DEF FetchedInv
    <3>4. QED
      BY <2>4, <3>2, <3>3, <1>f
  <2>7. QED
    BY <1>6, <2>5, <2>6 DEF ReadPartition
<1>7. ASSUME NEW c \in Consumers, CommitOffset(c)
      PROVE  StoredInv' /\ \A d \in Consumers : HandInv(d)' /\ FetchedInv(d)'
  <2>1. /\ pc[c].at = "commit" /\ faults = 0
        /\ pc' = [pc EXCEPT ![c] = [Idle EXCEPT !.at = "write"]]
        /\ UNCHANGED <<owned, offset, hand, stored>>
    BY <1>7, <1>f DEF CommitOffset, Fail, Works
  <2>2. /\ pc[c].p \in Partitions /\ pc[c].lastOffset \in Nat
        /\ pc[c].lastOffset + 1 = offset[c][pc[c].p]
    BY <2>1, <1>s DEF PosInv, Slots
  <2>3. committed' = [committed EXCEPT ![pc[c].p] = pc[c].lastOffset]
    BY <1>7, <1>f, <2>1 DEF CommitOffset, Fail
  <2>4. \A u \in Partitions :
          committed'[u] = IF u = pc[c].p THEN pc[c].lastOffset ELSE committed[u]
    BY <2>2, <2>3 DEF TypeOK
  <2>5. /\ committed[pc[c].p] <= pc[c].lastOffset
        /\ \A i \in 1 .. Len(hand[c]) :
             hand[c][i][2] = pc[c].p /\ hand[c][i][3] <= pc[c].lastOffset
    BY <1>i, <2>1 DEF HandInv
  <2>6. \A u \in Partitions : committed'[u] \in Nat /\ committed[u] <= committed'[u]
    <3> SUFFICES ASSUME NEW u \in Partitions
                 PROVE  committed'[u] \in Nat /\ committed[u] <= committed'[u]
      OBVIOUS
    <3>1. CASE u = pc[c].p
      BY <3>1, <2>2, <2>4, <2>5
    <3>2. CASE u # pc[c].p
      <4>1. committed'[u] = committed[u] /\ committed[u] \in Nat
        BY <3>2, <1>s, <2>4
      <4>2. QED
        BY <4>1
    <3>3. QED
      BY <3>1, <3>2
  <2>7. StoredInv'
    <3> SUFFICES ASSUME NEW m \in stored PROVE m[3] <= committed'[m[2]]
      BY <2>1 DEF StoredInv
    <3>1. m[2] \in Partitions /\ m[3] \in Nat
      <4>1. m \in Messages
        BY TypesOf
      <4>2. QED
        BY <4>1, DeliveryAssumption DEF Messages
    <3>2. m[3] <= committed[m[2]]
      BY <1>i, <2>1 DEF StoredInv
    <3>3. committed[m[2]] \in Nat /\ committed'[m[2]] \in Nat
          /\ committed[m[2]] <= committed'[m[2]]
      BY <1>s, <2>6, <3>1
    <3>4. QED
      BY <3>1, <3>2, <3>3
  <2>8. pc'[c].at = "write"
    BY <2>1, <1>s DEF Idle
  <2>9. HandInv(c)'
    BY <2>1, <2>2, <2>4, <2>5, <2>8 DEF HandInv
  <2>10. FetchedInv(c)'
    <3> SUFFICES ASSUME NEW u \in owned[c] PROVE committed'[u] <= offset[c][u]
      BY <2>1 DEF FetchedInv
    <3>1. u \in Partitions
      BY <1>s
    <3>2. committed[u] <= offset[c][u]
      BY <1>i, <2>1 DEF FetchedInv
    <3>3. CASE u = pc[c].p
      <4>1. committed'[u] = pc[c].lastOffset
        BY <3>1, <3>3, <2>4
      <4>2. offset[c][u] = pc[c].lastOffset + 1 /\ pc[c].lastOffset \in Nat
        BY <3>3, <2>2
      <4>3. QED
        BY <4>1, <4>2
    <3>4. CASE u # pc[c].p
      BY <3>1, <3>2, <3>4, <2>4
    <3>5. QED
      BY <3>3, <3>4
  <2>11. QED
    BY <2>7, <2>9, <2>10, <1>f
<1>8. ASSUME NEW c \in Consumers, WriteMetric(c)
      PROVE  StoredInv' /\ \A d \in Consumers : HandInv(d)' /\ FetchedInv(d)'
  <2>1. /\ pc[c].at = "write" /\ faults = 0
        /\ stored' = stored \union {Head(hand[c])}
        /\ hand' = [hand EXCEPT ![c] = Tail(hand[c])]
        /\ pc' = [pc EXCEPT ![c].at = IF Len(hand[c]) = 1 THEN "idle" ELSE "write"]
        /\ UNCHANGED <<committed, owned, offset>>
    BY <1>8, <1>f DEF WriteMetric, Fail, Works
  <2>2. hand[c] \in Seq(Messages) /\ hand[c] # <<>>
    BY <2>1, <1>s DEF TypeOK
  <2>3. /\ Head(hand[c]) = hand[c][1] /\ Len(hand[c]) \in Nat \ {0}
        /\ Len(Tail(hand[c])) = Len(hand[c]) - 1
        /\ \A i \in 1 .. Len(Tail(hand[c])) : Tail(hand[c])[i] = hand[c][i + 1]
    BY <2>2, HeadTailProperties, EmptySeq
  <2>4. \A i \in 1 .. Len(hand[c]) : hand[c][i][3] <= committed[hand[c][i][2]]
    BY <1>i, <2>1 DEF HandInv
  <2>5. hand'[c] = Tail(hand[c]) /\ pc'[c].at = IF Len(hand[c]) = 1 THEN "idle" ELSE "write"
    BY <2>1, <1>s DEF TypeOK, Slots
  <2>6. StoredInv'
    <3>1. 1 \in 1 .. Len(hand[c])
      BY <2>3
    <3>2. Head(hand[c])[3] <= committed[Head(hand[c])[2]]
      BY <2>3, <2>4, <3>1
    <3>3. \A m \in stored : m[3] <= committed[m[2]]
      BY <1>i, <2>1 DEF StoredInv
    <3>4. QED
      BY <2>1, <3>2, <3>3 DEF StoredInv
  <2>7. HandInv(c)'
    <3>1. \A i \in 1 .. Len(Tail(hand[c])) :
            Tail(hand[c])[i][3] <= committed[Tail(hand[c])[i][2]]
      <4> SUFFICES ASSUME NEW i \in 1 .. Len(Tail(hand[c]))
                   PROVE  Tail(hand[c])[i][3] <= committed[Tail(hand[c])[i][2]]
        OBVIOUS
      <4>1. i + 1 \in 1 .. Len(hand[c])
        BY <2>3
      <4>2. QED
        BY <4>1, <2>3, <2>4
    <3>2. pc'[c].at # "commit" /\ committed' = committed
      BY <2>1, <2>5
    <3>3. \A i \in 1 .. Len(hand'[c]) : hand'[c][i][3] <= committed'[hand'[c][i][2]]
      BY <2>5, <3>1, <3>2
    <3>4. QED
      BY <3>2, <3>3 DEF HandInv
  <2>8. FetchedInv(c)'
    BY <1>i, <2>1 DEF FetchedInv
  <2>9. QED
    BY <2>6, <2>7, <2>8, <1>f
<1>9. ASSUME NEW c \in Consumers, Crash(c)
      PROVE  StoredInv' /\ \A d \in Consumers : HandInv(d)' /\ FetchedInv(d)'
  <2>1. /\ owned' = [owned EXCEPT ![c] = {}] /\ pc' = [pc EXCEPT ![c] = Idle]
        /\ UNCHANGED <<committed, stored, faults>>
    BY <1>9 DEF Crash
  <2>2. owned'[c] = {} /\ pc'[c].at = "idle"
    BY <2>1, <1>s DEF TypeOK, Idle
  <2>3. HandInv(c)' /\ FetchedInv(c)'
    BY <2>2 DEF HandInv, FetchedInv
  <2>4. StoredInv'
    BY <1>i, <2>1 DEF StoredInv
  <2>5. QED
    BY <2>3, <2>4, <1>f
<1>10. CASE UNCHANGED vars
  BY <1>1, <1>10 DEF vars
<1>11. QED
  BY <1>2, <1>3, <1>4, <1>5, <1>6, <1>7, <1>8, <1>9, <1>10 DEF Next, Loop

\* A consumer that starts again reads at most one message per partition again
\* that is already stored, as long as no other consumer shares the partition and
\* no call failed (CommitOffset commits the last offset read, not the next).
THEOREM CommitsReplayAtMostOne ==
  ASSUME OneConsumer
  PROVE  Spec => []ReplayAtMostOne
<1>1. Init => TypeOK /\ PosInv /\ ReplayInv
  BY InitPosInv, InitReplayInv
<1>2. TypeOK /\ PosInv /\ ReplayInv /\ [Next]_vars => (TypeOK /\ PosInv /\ ReplayInv)'
  BY OneConsumer, NextPosInv, NextReplayInv
<1>3. TypeOK /\ ReplayInv => ReplayAtMostOne
  BY ReplayBound
<1>4. QED
  BY <1>1, <1>2, <1>3, PTL DEF Spec
=============================================================================

-------------------------- MODULE CollectorProofs --------------------------
(***************************************************************************)
(* Proofs about Collector, for any set of sources, batch size, numbers of  *)
(* retries and thresholds.                                                 *)
(*                                                                         *)
(*   CollectorTypeCorrect    the type invariant                            *)
(*   CollectedAccountedFor   each record is in exactly one place           *)
(*   BatchStaysBounded       the batch never outgrows its size             *)
(*   DropsOnlyWhileOpen      records are given up only behind an open      *)
(*                           breaker                                       *)
(*                                                                         *)
(* All follow from CollectorInv, which adds to them where in a round the   *)
(* batch may be full and a batch be under way (StageInv), that the records *)
(* still to come fit under the bound (PendingInv), and what the breaker    *)
(* has counted or refused when the round depends on it (TrialInv).         *)
(***************************************************************************)
EXTENDS Collector, FiniteSetTheorems, TLAPS

\* Where the batch may be full, and where a batch can be under way.
StageInv ==
  /\ Len(batch) <= BatchSize
  /\ loop.at \in {"wait", "source", "append", "end", "stopped"} => Len(batch) < BatchSize
  /\ loop.at \in {"send", "sent", "giveUp"} => batch = <<>>
  /\ loop.at \notin {"send", "sent", "giveUp"} => loop.flight = <<>>
  /\ Len(loop.flight) = Cardinality(Elements(loop.flight))

\* The records a source returned and the round has not yet collected.
Pending == IF loop.at = "write" THEN loop.records - 1 ELSE loop.records

PendingInv ==
  /\ loop.at \in {"append", "write"} => loop.records > 0
  /\ collected + Pending <= MaxRecords

\* A trial ends at its threshold; a refused send has seen an open breaker.
TrialInv ==
  /\ breaker.state = "half-open" => breaker.successes < SuccessThreshold
  /\ loop.at = "giveUp" => breaker.state = "open"

\* The inductive invariant.
CollectorInv == TypeOK /\ Accounted /\ StageInv /\ PendingInv /\ TrialInv

-----------------------------------------------------------------------------
(* The breaker.                                                            *)

\* Each operation of the breaker keeps its counters within their thresholds.
LEMMA BreakerStep ==
  ASSUME TypeOK, TrialInv, Refused \/ Allowed \/ RecordFailure \/ RecordSuccess
  PROVE  /\ breaker' \in Breakers
         /\ breaker'.state = "half-open" => breaker'.successes < SuccessThreshold
<1> USE CollectorAssumption
<1>1. /\ breaker \in Breakers /\ breaker.state \in {"closed", "open", "half-open"}
      /\ breaker.failures \in 0 .. FailureThreshold
      /\ breaker.successes \in 0 .. SuccessThreshold
      /\ breaker.state = "half-open" => breaker.successes < SuccessThreshold
  BY DEF TypeOK, Breakers, TrialInv
<1>2. CASE UNCHANGED breaker
  BY <1>1, <1>2
<1>3. CASE Allowed /\ breaker.state = "open"
  <2>1. breaker' = [state |-> "half-open", failures |-> breaker.failures, successes |-> 0]
    BY <1>1, <1>3 DEF Allowed, Breakers
  <2>2. QED
    BY <1>1, <2>1 DEF Breakers
<1>4. CASE RecordFailure
  <2> DEFINE n == IF breaker.failures < FailureThreshold
                  THEN breaker.failures + 1 ELSE breaker.failures
             s == IF n >= FailureThreshold /\ breaker.state = "closed"
                  THEN "open" ELSE breaker.state
  <2>1. n \in 0 .. FailureThreshold /\ s \in {"open", breaker.state}
    BY <1>1
  <2>2. breaker' = [breaker EXCEPT !.failures = n, !.state = s]
    BY <1>4 DEF RecordFailure
  <2> HIDE DEF n, s
  <2>3. breaker' = [state |-> s, failures |-> n, successes |-> breaker.successes]
    BY <1>1, <2>2 DEF Breakers
  <2>4. QED
    BY <1>1, <2>1, <2>3 DEF Breakers
<1>5. CASE RecordSuccess /\ breaker.state = "half-open"
  <2>1. CASE breaker.successes + 1 >= SuccessThreshold
    <3>1. breaker' = [state |-> "closed", failures |-> 0,
                      successes |-> breaker.successes + 1]
      BY <1>5, <2>1 DEF RecordSuccess
    <3>2. QED
      BY <1>1, <1>5, <3>1 DEF Breakers
  <2>2. CASE ~(breaker.successes + 1 >= SuccessThreshold)
    <3>1. breaker' = [state |-> "half-open", failures |-> breaker.failures,
                      successes |-> breaker.successes + 1]
      BY <1>1, <1>5, <2>2 DEF RecordSuccess, Breakers
    <3>2. QED
      BY <1>1, <2>2, <3>1 DEF Breakers
  <2>3. QED
    BY <2>1, <2>2
<1>6. QED
  BY <1>2, <1>3, <1>4, <1>5 DEF Refused, Allowed, RecordSuccess

-----------------------------------------------------------------------------
(* What each step of a round does to the round.                            *)

\* The fields of a round.
LEMMA RoundFields ==
  ASSUME NEW r \in Rounds
  PROVE  /\ r.at \in Stages /\ r.todo \subseteq Sources /\ r.records \in 0 .. MaxList
         /\ r.tries \in Nat /\ r.flight \in Seq(Records)
BY DEF Rounds

\* A round from its parts.
RoundOf(a, d, n, k, q) ==
  [at |-> a, todo |-> d, records |-> n, tries |-> k, flight |-> q]

\* A round put together from typed parts has its type and those parts.
LEMMA RoundOfFields ==
  ASSUME NEW a \in Stages, NEW d \in SUBSET Sources, NEW n \in 0 .. MaxList,
         NEW k \in Nat, NEW q \in Seq(Records)
  PROVE  LET r == RoundOf(a, d, n, k, q) IN
         r \in Rounds /\ r.at = a /\ r.records = n /\ r.flight = q
BY DEF RoundOf, Rounds

\* The ticker leaves the round waiting or starts it with its sources.
LEMMA TickEffect ==
  ASSUME loop \in Rounds, Tick
  PROVE  /\ Refused \/ Allowed
         /\ loop.at = "wait"
         /\ loop' \in Rounds /\ loop'.at \in {"wait", "source"}
         /\ loop'.records = loop.records /\ loop'.flight = loop.flight
<1>1. CASE UNCHANGED loop
  BY <1>1 DEF Tick
<1>2. CASE /\ Allowed
           /\ loop' = [loop EXCEPT !.at = AfterSource(Sources), !.todo = Sources]
  <2>1. AfterSource(Sources) \in {"wait", "source"}
    BY DEF AfterSource
  <2>2. loop' = RoundOf(AfterSource(Sources), Sources, loop.records, loop.tries, loop.flight)
    BY <1>2 DEF RoundOf, Rounds
  <2>3. QED
    BY <1>2, <2>1, <2>2, RoundFields, RoundOfFields DEF Tick, Stages
<1>3. QED
  BY <1>1, <1>2 DEF Tick

\* A source fails and the round goes on, or it returns records to collect.
LEMMA CallEffect ==
  ASSUME loop \in Rounds, NEW s \in Sources, CallSource(s)
  PROVE  /\ loop.at = "source" /\ loop' \in Rounds /\ loop'.flight = loop.flight
         /\ \/ /\ RecordFailure /\ loop'.records = loop.records
               /\ loop'.at \in {"wait", "source"}
            \/ /\ UNCHANGED breaker /\ collected + loop'.records <= MaxRecords
               /\ loop'.at \in {"append", "end"}
               /\ loop'.at = "append" => loop'.records > 0
<1> DEFINE rest == loop.todo \ {s}
<1>0. loop.at = "source" /\ rest \subseteq Sources
  BY RoundFields DEF CallSource
<1>1. CASE RecordFailure /\ loop' = [loop EXCEPT !.at = AfterSource(rest), !.todo = rest]
  <2>1. AfterSource(rest) \in {"wait", "source"}
    BY DEF AfterSource
  <2> HIDE DEF rest
  <2>2. loop' = RoundOf(AfterSource(rest), rest, loop.records, loop.tries, loop.flight)
    BY <1>1 DEF RoundOf, Rounds
  <2>3. QED
    BY <1>0, <1>1, <2>1, <2>2, RoundFields, RoundOfFields DEF Stages
<1>2. ASSUME NEW n \in 0 .. MaxList, collected + n <= MaxRecords, UNCHANGED breaker,
             loop' = [loop EXCEPT !.at = AfterRecord(n), !.todo = rest, !.records = n]
      PROVE  /\ loop' \in Rounds /\ loop'.flight = loop.flight
             /\ collected + loop'.records <= MaxRecords
             /\ loop'.at \in {"append", "end"}
             /\ loop'.at = "append" => loop'.records > 0
  <2>1. AfterRecord(n) \in {"append", "end"} /\ (AfterRecord(n) = "append" => n > 0)
    BY CollectorAssumption DEF AfterRecord
  <2> HIDE DEF rest
  <2>2. loop' = RoundOf(AfterRecord(n), rest, n, loop.tries, loop.flight)
    BY <1>2 DEF RoundOf, Rounds
  <2>3. loop' \in Rounds /\ loop'.at = AfterRecord(n) /\ loop'.records = n
        /\ loop'.flight = loop.flight
    BY <1>0, <2>1, <2>2, RoundFields, RoundOfFields DEF Stages
  <2>4. QED
    BY <1>2, <2>1, <2>3
<1>3. QED
  BY <1>0, <1>1, <1>2 DEF CallSource

\* Only the stage of the round changes.
LEMMA GoToEffect ==
  ASSUME loop \in Rounds, NEW stage \in Stages, GoTo(stage)
  PROVE  /\ loop' \in Rounds /\ loop'.at = stage
         /\ loop'.records = loop.records /\ loop'.flight = loop.flight
<1>1. loop' = RoundOf(stage, loop.todo, loop.records, loop.tries, loop.flight)
  BY DEF GoTo, RoundOf, Rounds
<1>2. QED
  BY <1>1, RoundFields, RoundOfFields

\* A record that joined the batch is written next.
LEMMA AppendEffect ==
  ASSUME loop \in Rounds, AppendRecord
  PROVE  /\ loop.at = "append" /\ loop' \in Rounds /\ loop'.at = "write"
         /\ loop'.records = loop.records /\ loop'.flight = loop.flight
<1>1. loop' = RoundOf("write", loop.todo, loop.records, 0, loop.flight)
  BY DEF AppendRecord, RoundOf, Rounds
<1>2. loop.at = "append" /\ "write" \in Stages
  BY DEF AppendRecord, Stages
<1>3. QED
  BY <1>1, <1>2, RoundFields, RoundOfFields

\* A write is tried again, or it ends: then a full batch is taken, and a batch that
\* is not full lets the round go on.
LEMMA WriteEffect ==
  ASSUME loop \in Rounds, loop.records > 0, WriteMetric
  PROVE  /\ loop.at = "write" /\ loop' \in Rounds /\ loop'.flight = loop.flight
         /\ \/ /\ loop'.at = "write" /\ loop'.records = loop.records
               /\ UNCHANGED <<batchMu, totalWritten, totalFailed>>
            \/ /\ batchMu' = "free" /\ loop'.records = loop.records - 1
               /\ loop'.at \in {"take", "append", "end"}
               /\ loop'.at # "take" => ~(Len(batch) >= BatchSize)
               /\ loop'.at = "append" => loop'.records > 0
               /\ \/ totalWritten' = totalWritten + 1 /\ UNCHANGED totalFailed
                  \/ totalFailed' = totalFailed + 1 /\ UNCHANGED totalWritten
<1>0. /\ loop.at = "write" /\ "write" \in Stages
      /\ loop.records \in 0 .. MaxList /\ loop.records \in Nat
      /\ loop.tries \in Nat /\ loop.tries + 1 \in Nat
  BY RoundFields, CollectorAssumption DEF WriteMetric, Stages
<1>1. CASE loop' = [loop EXCEPT !.tries = @ + 1] /\ UNCHANGED <<batchMu, writes>>
  <2>1. loop' = RoundOf("write", loop.todo, loop.records, loop.tries + 1, loop.flight)
    BY <1>0, <1>1 DEF RoundOf, Rounds
  <2>2. loop' \in Rounds /\ loop'.at = "write" /\ loop'.records = loop.records
        /\ loop'.flight = loop.flight
    BY <1>0, <2>1, RoundFields, RoundOfFields
  <2>3. QED
    BY <1>0, <1>1, <2>2 DEF writes
<1> DEFINE next == IF Len(batch) >= BatchSize THEN "take" ELSE AfterRecord(loop.records - 1)
<1>2. CASE /\ \/ totalWritten' = totalWritten + 1 /\ UNCHANGED totalFailed
              \/ totalFailed' = totalFailed + 1 /\ UNCHANGED totalWritten
           /\ batchMu' = "free"
           /\ loop' = [loop EXCEPT !.records = @ - 1, !.tries = 0, !.at = next]
  <2>1. loop.records - 1 \in 0 .. MaxList
    BY <1>0, CollectorAssumption
  <2>2. /\ next \in {"take", "append", "end"} /\ next \in Stages
        /\ next # "take" => ~(Len(batch) >= BatchSize)
        /\ next = "append" => loop.records - 1 > 0
    BY <1>0 DEF AfterRecord, Stages
  <2> HIDE DEF next
  <2>3. loop' = RoundOf(next, loop.todo, loop.records - 1, 0, loop.flight)
    BY <1>2 DEF RoundOf, Rounds
  <2>4. loop' \in Rounds /\ loop'.at = next /\ loop'.records = loop.records - 1
        /\ loop'.flight = loop.flight
    BY <2>1, <2>2, <2>3, RoundFields, RoundOfFields
  <2>5. QED
    BY <1>0, <1>2, <2>2, <2>4
<1>3. QED
  BY <1>1, <1>2 DEF WriteMetric

\* The batch taken is the batch under way.
LEMMA TakeEffect ==
  ASSUME loop \in Rounds, batch \in Seq(Records), TakeBatch
  PROVE  /\ loop.at = "take" /\ loop' \in Rounds /\ loop'.at = "send"
         /\ loop'.records = loop.records /\ loop'.flight = batch
<1>1. loop' = RoundOf("send", loop.todo, loop.records, loop.tries, batch)
  BY DEF TakeBatch, RoundOf, Rounds
<1>2. loop.at = "take" /\ "send" \in Stages
  BY DEF TakeBatch, Stages
<1>3. QED
  BY <1>1, <1>2, RoundFields, RoundOfFields

\* A send is refused by the breaker or it sends the batch under way.
LEMMA SendEffect ==
  ASSUME loop \in Rounds, SendBatch
  PROVE  /\ loop.at = "send" /\ loop' \in Rounds
         /\ loop'.records = loop.records /\ loop'.flight = loop.flight
         /\ \/ Refused /\ loop'.at \in {"send", "giveUp"} /\ UNCHANGED results
            \/ /\ Allowed /\ loop'.at = "sent"
               /\ sent' = sent \union Elements(loop.flight)
               /\ sentCount' = sentCount + Len(loop.flight) /\ UNCHANGED dropped
<1>0. loop.at = "send"
  BY DEF SendBatch
<1> DEFINE next == IF loop.tries < MaxRetries THEN "send" ELSE "giveUp"
<1>1. CASE /\ Refused /\ UNCHANGED results
           /\ loop' = [loop EXCEPT !.tries = @ + 1, !.at = next]
  <2>1. next \in {"send", "giveUp"} /\ next \in Stages /\ loop.tries + 1 \in Nat
    BY RoundFields DEF Stages
  <2> HIDE DEF next
  <2>2. loop' = RoundOf(next, loop.todo, loop.records, loop.tries + 1, loop.flight)
    BY <1>1 DEF RoundOf, Rounds
  <2>3. loop' \in Rounds /\ loop'.at = next /\ loop'.records = loop.records
        /\ loop'.flight = loop.flight
    BY <2>1, <2>2, RoundFields, RoundOfFields
  <2>4. QED
    BY <1>0, <1>1, <2>1, <2>3
<1>2. CASE /\ Allowed /\ GoTo("sent") /\ UNCHANGED dropped
           /\ sent' = sent \union Elements(loop.flight)
           /\ sentCount' = sentCount + Len(loop.flight)
  <2>1. "sent" \in Stages
    BY DEF Stages
  <2>2. QED
    BY <1>0, <1>2, <2>1, GoToEffect
<1>3. QED
  BY <1>1, <1>2 DEF SendBatch

\* After a flush nothing is under way and the round goes on with its records.
LEMMA FlushEffect ==
  ASSUME loop \in Rounds, AfterFlush
  PROVE  /\ loop' \in Rounds /\ loop'.records = loop.records /\ loop'.flight = <<>>
         /\ loop'.at \in {"append", "end"}
         /\ loop'.at = "append" => loop'.records > 0
<1>1. loop' = RoundOf(AfterRecord(loop.records), loop.todo, loop.records, 0, <<>>)
  BY DEF AfterFlush, RoundOf, Rounds
<1>2. /\ AfterRecord(loop.records) \in {"append", "end"}
      /\ AfterRecord(loop.records) = "append" => loop.records > 0
      /\ AfterRecord(loop.records) \in Stages
  BY RoundFields, CollectorAssumption DEF AfterRecord, Stages
<1> DEFINE next == AfterRecord(loop.records)
           none == <<>>
<1>3. /\ loop.todo \in SUBSET Sources /\ loop.records \in 0 .. MaxList
      /\ none \in Seq(Records) /\ 0 \in Nat
  BY RoundFields
<1> HIDE DEF next, none
<1>4. loop' = RoundOf(next, loop.todo, loop.records, 0, none)
  BY <1>1 DEF next, none
<1>5. /\ next \in {"append", "end"} /\ next \in Stages
      /\ next = "append" => loop.records > 0
  BY <1>2 DEF next
<1>6. loop' \in Rounds /\ loop'.at = next /\ loop'.records = loop.records
      /\ loop'.flight = none
  BY <1>3, <1>4, <1>5, RoundOfFields
<1>7. QED
  BY <1>5, <1>6 DEF none

-----------------------------------------------------------------------------
(* Each part of the invariant is kept by every step.                       *)

\* Variables keep their types; batchMu is the loop's while it writes.
LEMMA TypeStep == CollectorInv /\ [Next]_vars => TypeOK'
<1> SUFFICES ASSUME CollectorInv, [Next]_vars
             PROVE  TypeOK'
  OBVIOUS
<1> USE DEF TypeOK, results, writes
<1>0. TypeOK /\ StageInv /\ PendingInv /\ TrialInv /\ Accounted
  BY DEF CollectorInv
<1>1. CASE Tick
  BY <1>0, <1>1, BreakerStep, TickEffect DEF Tick
<1>2. ASSUME NEW s \in Sources, CallSource(s)
      PROVE  TypeOK'
  <2>1. breaker' \in Breakers
    BY <1>0, <1>2, BreakerStep, CallEffect
  <2>2. QED
    BY <1>0, <1>2, <2>1, CallEffect DEF CallSource
<1>3. CASE AppendRecord
  <2>1. collected + 1 \in Records /\ collected + 1 \in 0 .. MaxRecords
    BY <1>0, <1>3, AppendEffect, RoundFields, CollectorAssumption
       DEF PendingInv, Pending, Records
  <2>2. batch' \in Seq(Records)
    BY <1>0, <1>3, <2>1 DEF AppendRecord
  <2>3. QED
    BY <1>0, <1>3, <2>1, <2>2, AppendEffect DEF AppendRecord
<1>4. CASE WriteMetric
  <2>1. loop.records > 0
    BY <1>0, <1>4 DEF PendingInv, WriteMetric
  <2>2. UNCHANGED <<batch, done, breaker, closer, collected, results>>
    BY <1>4 DEF WriteMetric
  <2>3. QED
    BY <1>0, <1>4, <2>1, <2>2, WriteEffect
<1>5. CASE TakeBatch
  <2>1. <<>> \in Seq(Records)
    OBVIOUS
  <2>2. QED
    BY <1>0, <1>5, <2>1, TakeEffect DEF TakeBatch
<1>6. CASE SendBatch
  <2>1. /\ UNCHANGED <<batch, batchMu, done, closer, collected, writes>>
        /\ breaker' \in Breakers
    BY <1>0, <1>6, BreakerStep DEF SendBatch
  <2>2. Elements(loop.flight) \subseteq Records /\ Len(loop.flight) \in Nat
    BY <1>0, RoundFields DEF Elements
  <2>3. QED
    BY <1>0, <1>6, <2>1, <2>2, SendEffect
<1>7. CASE BatchSent
  <2>1. breaker' \in Breakers
    BY <1>0, <1>7, BreakerStep DEF BatchSent
  <2>2. QED
    BY <1>0, <1>7, <2>1, FlushEffect DEF BatchSent
<1>8. CASE GiveUp
  <2>1. breaker' \in Breakers
    BY <1>0, <1>8, BreakerStep DEF GiveUp
  <2>2. Elements(loop.flight) \subseteq Records
    BY <1>0, RoundFields DEF Elements
  <2>3. QED
    BY <1>0, <1>8, <2>1, <2>2, FlushEffect DEF GiveUp
<1>9. CASE EndSource
  <2>1. breaker' \in Breakers
    BY <1>0, <1>9, BreakerStep DEF EndSource
  <2>2. AfterSource(loop.todo) \in Stages /\ AfterSource(loop.todo) # "write"
    BY DEF AfterSource, Stages
  <2>3. QED
    BY <1>0, <1>9, <2>1, <2>2, GoToEffect DEF EndSource
<1>10. CASE Stop
  <2>1. "stopped" \in Stages
    BY DEF Stages
  <2>2. QED
    BY <1>0, <1>10, <2>1, GoToEffect DEF Stop
<1>11. CASE Close \/ FinalFlush \/ Closed
  BY <1>0, <1>11 DEF Close, FinalFlush, Closed
<1>12. CASE UNCHANGED vars
  BY <1>0, <1>12 DEF vars
<1>13. QED
  BY <1>1, <1>2, <1>3, <1>4, <1>5, <1>6, <1>7, <1>8, <1>9, <1>10, <1>11, <1>12
     DEF Next, Round, Main

\* A full batch is taken before the round goes on, and the batch stays empty while
\* one is under way.
LEMMA StageStep == CollectorInv /\ [Next]_vars => StageInv'
<1> SUFFICES ASSUME CollectorInv, [Next]_vars
             PROVE  StageInv'
  OBVIOUS
<1> USE CollectorAssumption DEF StageInv
<1>0. /\ StageInv /\ PendingInv /\ loop \in Rounds
      /\ batch \in Seq(Records) /\ Len(batch) \in Nat
      /\ Len(batch) = Cardinality(Elements(batch))
  BY DEF CollectorInv, TypeOK, Accounted
<1>1. Len(<<>>) = 0 /\ Cardinality(Elements(<<>>)) = 0
  BY FS_EmptySet DEF Elements
<1>2. CASE Tick
  BY <1>0, <1>2, TickEffect DEF Tick
<1>3. ASSUME NEW s \in Sources, CallSource(s)
      PROVE  StageInv'
  BY <1>0, <1>3, CallEffect DEF CallSource
<1>4. CASE AppendRecord
  <2>1. loop.at = "append" /\ Len(batch) < BatchSize /\ collected + 1 \in Nat
    BY <1>0, <1>4, AppendEffect DEF CollectorInv, TypeOK
  <2>2. Len(batch') = Len(batch) + 1
    BY <1>0, <1>4 DEF AppendRecord
  <2>3. QED
    BY <1>0, <1>4, <2>1, <2>2, AppendEffect
<1>5. CASE WriteMetric
  <2>1. loop.records > 0 /\ UNCHANGED batch
    BY <1>0, <1>5 DEF PendingInv, WriteMetric
  <2>2. QED
    BY <1>0, <1>5, <2>1, WriteEffect
<1>6. CASE TakeBatch
  BY <1>0, <1>1, <1>6, TakeEffect DEF TakeBatch
<1>7. CASE SendBatch
  BY <1>0, <1>7, SendEffect DEF SendBatch
<1>8. CASE BatchSent \/ GiveUp
  BY <1>0, <1>1, <1>8, FlushEffect DEF BatchSent, GiveUp
<1>9. CASE EndSource
  <2>1. AfterSource(loop.todo) \in {"wait", "source"} /\ AfterSource(loop.todo) \in Stages
    BY DEF AfterSource, Stages
  <2>2. QED
    BY <1>0, <1>9, <2>1, GoToEffect DEF EndSource
<1>10. CASE Stop
  <2>1. "stopped" \in Stages
    BY DEF Stages
  <2>2. QED
    BY <1>0, <1>10, <2>1, GoToEffect DEF Stop
<1>11. CASE Close \/ FinalFlush \/ Closed
  BY <1>0, <1>11 DEF Close, FinalFlush, Closed
<1>12. CASE UNCHANGED vars
  BY <1>0, <1>12 DEF vars
<1>13. QED
  BY <1>2, <1>3, <1>4, <1>5, <1>6, <1>7, <1>8, <1>9, <1>10, <1>11, <1>12
     DEF Next, Round, Main

\* The records a source returned are collected one by one, and the breaker is open
\* from a refused send until the batch is given up.
LEMMA ProgressStep == CollectorInv /\ [Next]_vars => PendingInv' /\ TrialInv'
<1> SUFFICES ASSUME CollectorInv, [Next]_vars
             PROVE  PendingInv' /\ TrialInv'
  OBVIOUS
<1> USE CollectorAssumption DEF PendingInv, TrialInv, Pending
<1>0. /\ TypeOK /\ PendingInv /\ TrialInv /\ loop \in Rounds
      /\ collected \in Nat /\ loop.records \in Nat
  BY RoundFields DEF CollectorInv, TypeOK
<1>1. CASE Tick
  BY <1>0, <1>1, BreakerStep, TickEffect DEF Tick
<1>2. ASSUME NEW s \in Sources, CallSource(s)
      PROVE  PendingInv' /\ TrialInv'
  <2>1. breaker'.state = "half-open" => breaker'.successes < SuccessThreshold
    BY <1>0, <1>2, BreakerStep, CallEffect
  <2>2. collected' = collected
    BY <1>2 DEF CallSource
  <2>3. QED
    BY <1>0, <1>2, <2>1, <2>2, CallEffect
<1>3. CASE AppendRecord
  BY <1>0, <1>3, AppendEffect, SMTT(20) DEF AppendRecord
<1>4. CASE WriteMetric
  <2>1. loop.records > 0 /\ UNCHANGED <<breaker, collected>>
    BY <1>0, <1>4 DEF WriteMetric
  <2>2. QED
    BY <1>0, <1>4, <2>1, WriteEffect
<1>5. CASE TakeBatch
  <2>1. batch \in Seq(Records)
    BY <1>0 DEF TypeOK
  <2>2. QED
    BY <1>0, <1>5, <2>1, TakeEffect DEF TakeBatch
<1>6. CASE SendBatch
  <2>1. /\ collected' = collected
        /\ breaker'.state = "half-open" => breaker'.successes < SuccessThreshold
    BY <1>0, <1>6, BreakerStep DEF SendBatch
  <2>2. QED
    BY <1>0, <1>6, <2>1, SendEffect DEF Refused
<1>7. CASE BatchSent \/ GiveUp
  <2>1. /\ collected' = collected
        /\ breaker'.state = "half-open" => breaker'.successes < SuccessThreshold
    BY <1>0, <1>7, BreakerStep DEF BatchSent, GiveUp
  <2>2. loop.at \in {"sent", "giveUp"} /\ AfterFlush
    BY <1>7 DEF BatchSent, GiveUp
  <2>3. QED
    BY <1>0, <2>1, <2>2, FlushEffect
<1>8. CASE EndSource
  <2>1. /\ collected' = collected
        /\ breaker'.state = "half-open" => breaker'.successes < SuccessThreshold
    BY <1>0, <1>8, BreakerStep DEF EndSource
  <2>2. AfterSource(loop.todo) \in {"wait", "source"} /\ AfterSource(loop.todo) \in Stages
    BY DEF AfterSource, Stages
  <2>3. QED
    BY <1>0, <1>8, <2>1, <2>2, GoToEffect DEF EndSource
<1>9. CASE Stop
  <2>1. "stopped" \in Stages
    BY DEF Stages
  <2>2. QED
    BY <1>0, <1>9, <2>1, GoToEffect DEF Stop
<1>10. CASE Close \/ FinalFlush \/ Closed
  BY <1>0, <1>10 DEF Close, FinalFlush, Closed
<1>11. CASE UNCHANGED vars
  BY <1>0, <1>11 DEF vars
<1>12. QED
  BY <1>1, <1>2, <1>3, <1>4, <1>5, <1>6, <1>7, <1>8, <1>9, <1>10, <1>11
     DEF Next, Round, Main

\* A record joins a batch: it is a new element, counted once.
LEMMA ElementsAppend ==
  ASSUME NEW q \in Seq(Records), NEW x \in Records, x \notin Elements(q)
  PROVE  /\ Elements(Append(q, x)) = Elements(q) \union {x}
         /\ Cardinality(Elements(Append(q, x))) = Cardinality(Elements(q)) + 1
<1>1. \A i \in 1 .. Len(q) : Append(q, x)[i] = q[i]
  OBVIOUS
<1>2. Append(q, x)[Len(q) + 1] = x /\ Len(Append(q, x)) = Len(q) + 1
  OBVIOUS
<1>3. 1 .. Len(q) + 1 = (1 .. Len(q)) \union {Len(q) + 1}
  OBVIOUS
<1>4. Elements(Append(q, x)) = Elements(q) \union {x}
  BY <1>1, <1>2, <1>3 DEF Elements
<1>5. IsFiniteSet(Elements(q))
  <2>1. IsFiniteSet(1 .. MaxRecords)
    BY FS_Interval, CollectorAssumption
  <2>2. \A i \in 1 .. Len(q) : q[i] \in Records
    OBVIOUS
  <2>3. Elements(q) \subseteq Records
    BY <2>2 DEF Elements
  <2>4. QED
    BY <2>1, <2>3, FS_Subset DEF Records
<1>6. QED
  BY <1>4, <1>5, FS_AddElement

\* What leaves every record where it is keeps the account.
LEMMA SameAccount ==
  ASSUME Accounted, UNCHANGED <<batch, collected, sent, dropped, sentCount>>,
         InFlight' = InFlight
  PROVE  Accounted'
BY DEF Accounted

\* Each record collected stays in exactly one place.
LEMMA AccountedStep == CollectorInv /\ [Next]_vars => Accounted'
<1> SUFFICES ASSUME CollectorInv, [Next]_vars
             PROVE  Accounted'
  OBVIOUS
<1>0. /\ Accounted /\ StageInv /\ TypeOK /\ PendingInv /\ loop \in Rounds
      /\ batch \in Seq(Records) /\ collected \in Nat
  BY DEF CollectorInv, TypeOK
<1>1. Elements(<<>>) = {} /\ Len(<<>>) = 0 /\ Cardinality({}) = 0
  BY FS_EmptySet DEF Elements
<1>2. CASE Tick
  BY <1>0, <1>2, SameAccount, TickEffect DEF Tick, InFlight, results
<1>3. ASSUME NEW s \in Sources, CallSource(s)
      PROVE  Accounted'
  BY <1>0, <1>3, SameAccount, CallEffect DEF CallSource, InFlight, results
<1>4. CASE AppendRecord
  <2>1. /\ collected' = collected + 1 /\ batch' = Append(batch, collected + 1)
        /\ UNCHANGED <<sent, dropped, sentCount>>
    BY <1>4 DEF AppendRecord, results
  <2>2. collected + 1 \in Records
    BY <1>0, <1>4, AppendEffect, RoundFields, CollectorAssumption
       DEF PendingInv, Pending, Records
  <2>3. 1 .. collected + 1 = (1 .. collected) \union {collected + 1}
        /\ collected + 1 \notin 1 .. collected
    BY <1>0
  <2>4. collected + 1 \notin Elements(batch) \union InFlight \union sent \union dropped
    BY <1>0, <2>3 DEF Accounted
  <2>5. /\ Elements(batch') = Elements(batch) \union {collected + 1}
        /\ Cardinality(Elements(batch')) = Cardinality(Elements(batch)) + 1
    BY <1>0, <2>1, <2>2, <2>4, ElementsAppend
  <2>6. Len(batch') = Len(batch) + 1
    BY <1>0, <2>1
  <2>7. InFlight' = InFlight
    BY <1>0, <1>4, AppendEffect DEF InFlight
  <2>8. QED
    BY <1>0, <2>1, <2>3, <2>4, <2>5, <2>6, <2>7 DEF Accounted
<1>5. CASE WriteMetric
  <2>1. loop.records > 0 /\ UNCHANGED <<batch, collected, sent, dropped, sentCount>>
    BY <1>0, <1>5 DEF PendingInv, WriteMetric, results
  <2>2. QED
    BY <1>0, <1>5, <2>1, SameAccount, WriteEffect DEF InFlight
<1>6. CASE TakeBatch
  <2>1. batch' = <<>> /\ UNCHANGED <<collected, sent, dropped, sentCount>>
    BY <1>6 DEF TakeBatch, results
  <2>2. InFlight = {} /\ InFlight' = Elements(batch)
    BY <1>0, <1>1, <1>6, TakeEffect DEF InFlight, StageInv
  <2>3. QED
    BY <1>0, <1>1, <2>1, <2>2 DEF Accounted
<1>7. CASE SendBatch
  <2>1. UNCHANGED <<batch, collected>>
    BY <1>7 DEF SendBatch
  <2>2. CASE loop'.at \in {"send", "giveUp"} /\ UNCHANGED results
    BY <1>0, <1>7, <2>1, <2>2, SameAccount, SendEffect DEF InFlight, results
  <2>3. CASE /\ loop'.at = "sent" /\ UNCHANGED dropped
             /\ sent' = sent \union Elements(loop.flight)
             /\ sentCount' = sentCount + Len(loop.flight)
    <3>1. InFlight = Elements(loop.flight) /\ InFlight' = {}
      BY <1>0, <1>7, <2>3, SendEffect DEF InFlight
    <3>2. IsFiniteSet(sent) /\ IsFiniteSet(InFlight)
      <4>1. sent \subseteq 1 .. collected /\ InFlight \subseteq 1 .. collected
        BY <1>0 DEF Accounted
      <4>2. IsFiniteSet(1 .. collected)
        BY <1>0, FS_Interval
      <4>3. QED
        BY <4>1, <4>2, FS_Subset
    <3>3. Cardinality(sent \union InFlight) = Cardinality(sent) + Cardinality(InFlight)
      <4>1. sent \intersect InFlight = {}
        BY <1>0 DEF Accounted
      <4>2. /\ Cardinality(sent \union InFlight) = Cardinality(sent)
               + Cardinality(InFlight) - Cardinality(sent \intersect InFlight)
        BY <3>2, FS_Union
      <4>3. Cardinality(sent) \in Nat /\ Cardinality(InFlight) \in Nat
        BY <3>2, FS_CardinalityType
      <4>4. Cardinality(sent \intersect InFlight) = 0
        BY <1>1, <4>1
      <4>5. QED
        BY <4>2, <4>3, <4>4
    <3>4. sentCount' = Cardinality(sent')
      BY <1>0, <2>3, <3>1, <3>3 DEF Accounted, StageInv
    <3>5. QED
      BY <1>0, <2>1, <2>3, <3>1, <3>4 DEF Accounted
  <2>4. QED
    BY <1>0, <1>7, <2>2, <2>3, SendEffect
<1>8. CASE BatchSent
  <2>1. UNCHANGED <<batch, collected, sent, dropped, sentCount>>
    BY <1>8 DEF BatchSent, results
  <2>2. InFlight = {} /\ InFlight' = {}
    BY <1>0, <1>1, <1>8, FlushEffect DEF BatchSent, InFlight
  <2>3. QED
    BY <1>0, <2>1, <2>2, SameAccount
<1>9. CASE GiveUp
  <2>1. /\ UNCHANGED <<batch, collected, sent, sentCount>>
        /\ dropped' = dropped \union Elements(loop.flight)
    BY <1>9 DEF GiveUp
  <2>2. InFlight = Elements(loop.flight) /\ InFlight' = {}
    BY <1>0, <1>1, <1>9, FlushEffect DEF GiveUp, InFlight
  <2>3. QED
    BY <1>0, <2>1, <2>2 DEF Accounted
<1>10. CASE EndSource
  <2>1. UNCHANGED <<batch, collected, sent, dropped, sentCount>> /\ loop.at = "end"
    BY <1>10 DEF EndSource, results
  <2>2. AfterSource(loop.todo) \in {"wait", "source"} /\ AfterSource(loop.todo) \in Stages
    BY DEF AfterSource, Stages
  <2>3. QED
    BY <1>0, <1>10, <2>1, <2>2, SameAccount, GoToEffect DEF EndSource, InFlight
<1>11. CASE Stop
  <2>1. UNCHANGED <<batch, collected, sent, dropped, sentCount>> /\ loop.at = "wait"
    BY <1>11 DEF Stop, results
  <2>2. "stopped" \in Stages
    BY DEF Stages
  <2>3. QED
    BY <1>0, <1>11, <2>1, <2>2, SameAccount, GoToEffect DEF Stop, InFlight
<1>12. CASE Close \/ FinalFlush \/ Closed
  BY <1>0, <1>12, SameAccount DEF Close, FinalFlush, Closed, results, InFlight
<1>13. CASE UNCHANGED vars
  BY <1>0, <1>13, SameAccount DEF vars, InFlight
<1>14. QED
  BY <1>2, <1>3, <1>4, <1>5, <1>6, <1>7, <1>8, <1>9, <1>10, <1>11, <1>12, <1>13
     DEF Next, Round, Main

-----------------------------------------------------------------------------
(* The theorems.                                                           *)

\* The collector starts with nothing collected.
LEMMA InitEstablishes == Init => CollectorInv
<1> SUFFICES ASSUME Init
             PROVE  CollectorInv
  OBVIOUS
<1> USE CollectorAssumption
<1>1. <<>> \in Seq(Records) /\ Len(<<>>) = 0 /\ Elements(<<>>) = {} /\ Cardinality({}) = 0
  BY FS_EmptySet DEF Elements
<1>2. /\ loop = RoundOf("wait", {}, 0, 0, <<>>) /\ loop \in Rounds
      /\ loop.at = "wait" /\ loop.records = 0 /\ loop.flight = <<>>
  <2>1. loop = RoundOf("wait", {}, 0, 0, <<>>)
    BY DEF Init, Waiting, RoundOf
  <2>2. QED
    BY <1>1, <2>1 DEF RoundOf, Rounds, Stages
<1>3. breaker \in Breakers /\ breaker.state = "closed"
  BY DEF Init, Breakers
<1>4. /\ batch = <<>> /\ batchMu = "free" /\ done = FALSE /\ closer = "running"
      /\ collected = 0 /\ sent = {} /\ dropped = {}
      /\ sentCount = 0 /\ totalWritten = 0 /\ totalFailed = 0
  BY DEF Init
<1>5. TypeOK
  <2>1. /\ batch \in Seq(Records) /\ collected \in 0 .. MaxRecords
        /\ sent \subseteq Records /\ dropped \subseteq Records
        /\ sentCount \in Nat /\ totalWritten \in Nat /\ totalFailed \in Nat
    BY <1>1, <1>4
  <2>2. batchMu = "loop" <=> loop.at = "write"
    BY <1>2, <1>4
  <2>3. QED
    BY <1>2, <1>3, <1>4, <2>1, <2>2 DEF TypeOK
<1>6. Accounted
  <2>1. 1 .. 0 = {}
    OBVIOUS
  <2>2. QED
    BY <1>1, <1>2, <1>4, <2>1 DEF Accounted, InFlight
<1>7. StageInv /\ PendingInv /\ TrialInv
  <2>1. Len(batch) = 0 /\ Len(loop.flight) = 0 /\ Cardinality(Elements(loop.flight)) = 0
    BY <1>1, <1>2, <1>4
  <2>2. StageInv
    BY <1>2, <2>1 DEF StageInv
  <2>3. PendingInv /\ TrialInv
    BY <1>2, <1>3, <1>4 DEF PendingInv, Pending, TrialInv
  <2>4. QED
    BY <2>2, <2>3
<1>8. QED
  BY <1>5, <1>6, <1>7 DEF CollectorInv

\* CollectorInv is an invariant.
LEMMA InvariantHolds == Spec => []CollectorInv
<1>1. CollectorInv /\ [Next]_vars => CollectorInv'
  BY TypeStep, AccountedStep, StageStep, ProgressStep DEF CollectorInv
<1>2. QED
  BY InitEstablishes, <1>1, PTL DEF Spec

\* The collector's variables keep their types, and the batch is locked by the
\* loop exactly while it writes a record, for any constants.
THEOREM CollectorTypeCorrect == Spec => []TypeOK
<1>1. CollectorInv => TypeOK
  BY DEF CollectorInv
<1>2. QED
  BY InvariantHolds, <1>1, PTL

\* Every record collected is in the batch, under way, sent or given up, in one of
\* them only, and sentCount counts the sent ones.
THEOREM CollectedAccountedFor == Spec => []Accounted
<1>1. CollectorInv => Accounted
  BY DEF CollectorInv
<1>2. QED
  BY InvariantHolds, <1>1, PTL

\* The batch never grows past its size and a full one does not outlast its round.
THEOREM BatchStaysBounded == Spec => []BatchBounded
<1>1. CollectorInv => BatchBounded
  BY DEF CollectorInv, StageInv, BatchBounded
<1>2. QED
  BY InvariantHolds, <1>1, PTL

\* Records are given up only while the breaker is open.
THEOREM DropsOnlyWhileOpen == Spec => DroppedWhileOpen
<1>1. CollectorInv /\ [Next]_vars => [dropped' # dropped => breaker.state = "open"]_vars
  <2> SUFFICES ASSUME CollectorInv, [Next]_vars, dropped' # dropped
               PROVE  breaker.state = "open"
    OBVIOUS
  <2>1. CASE GiveUp
    BY <2>1 DEF GiveUp, CollectorInv, TrialInv
  <2>2. CASE ~GiveUp
    <3>1. loop \in Rounds
      BY DEF CollectorInv, TypeOK
    <3>2. dropped' = dropped
      BY <2>2, <3>1, SendEffect
         DEF Next, Round, Main, Tick, CallSource, AppendRecord, WriteMetric, TakeBatch,
             SendBatch, BatchSent, EndSource, Stop, Close, FinalFlush, Closed, vars, results
    <3>3. QED
      BY <3>2
  <2>3. QED
    BY <2>1, <2>2
<1>2. QED
  BY InvariantHolds, <1>1, PTL DEF DroppedWhileOpen, Spec
=============================================================================

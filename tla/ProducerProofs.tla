--------------------------- MODULE ProducerProofs ---------------------------
(***************************************************************************)
(* Proofs about Producer, for any batch size, any number of retries and    *)
(* any number of records and faults.                                       *)
(*                                                                         *)
(*   ProducerTypeCorrect   the type invariant                              *)
(*   RecordsAccountedFor   no record is lost unreported                    *)
(*   FlushMeansSettled     what a Flush without error promises             *)
(*   CleanRunsAreInOrder   order and single copies while nothing fails     *)
(*   CopiesStayBounded     one copy per attempt, whatever fails            *)
(*                                                                         *)
(* The first four follow from ProducerInv, which adds to TypeOK and        *)
(* Accounted how far the send under way has come (SendInv), which          *)
(* goroutine can still touch the batch once Flush was called (FlushInv),   *)
(* and, while nothing has failed, that log, batch under way and batch      *)
(* continue each other (CleanInv).  The last one adds how many copies the  *)
(* records of the batch under way have (CopiesInv).                        *)
(***************************************************************************)
EXTENDS Producer, FiniteSetTheorems, TLAPS

\* The send under way: where it is in its batch, and that the messages before
\* that place were appended unless a failure was counted.
SendInv ==
  /\ Len(sending.flight) <= BatchSize
  /\ sending.at = "none" => sending = NoSend
  /\ sending.at = "attempt" => sending.i = 0 /\ sending.failures = 0
  /\ sending.at = "produce" =>
       /\ sending.i \in 1 .. Len(sending.flight) + 1
       /\ sending.failures < sending.i
       /\ sending.failures = 0 =>
            \A j \in 1 .. sending.i - 1 : sending.flight[j] \in Elements(log)

\* Flush's goroutine: once it has had batchMu nothing is queued any more.
FlushInv ==
  /\ main = "stream" <=> flusher = "none"
  /\ main # "stream" => batchMu # "main"
  /\ batchMu = "flusher" <=> flusher = "send"
  /\ flusher \in {"send", "ok", "error"} => batch = <<>>
  /\ flusher \in {"ok", "error"} => batchMu = "free"
  /\ result # "none" => main \notin {"stream", "flush"}
  /\ result = "ok" => flusher = "ok"

\* How many messages of the batch under way have been appended.
Produced == IF sending.at = "produce" THEN sending.i - 1 ELSE 0

\* While nothing has failed the log is followed by the rest of the batch under
\* way, then by the batch, up to the last record read.
CleanInv ==
  faults = 0 =>
    /\ sending.tries = 0 /\ sending.failures = 0
    /\ flusher # "error"
    /\ main \in {"close", "wait", "closed"} => result = "ok"
    /\ \A j \in 1 .. Len(log) : log[j] = j
    /\ \A j \in 1 .. Len(sending.flight) :
         sending.flight[j] = Len(log) - Produced + j
    /\ \A j \in 1 .. Len(batch) :
         batch[j] = Len(log) - Produced + Len(sending.flight) + j
    /\ read = Len(log) - Produced + Len(sending.flight) + Len(batch)

\* Only records that were read were refused.
RefusedInv == refused \subseteq 1 .. read

\* The inductive invariant.
ProducerInv == TypeOK /\ Accounted /\ RefusedInv /\ SendInv /\ FlushInv /\ CleanInv

-----------------------------------------------------------------------------
\* The empty batch holds no record.
LEMMA ElementsEmpty == Elements(<<>>) = {}
BY DEF Elements

\* Queueing or appending a record adds it and no other.
LEMMA ElementsAppend ==
  ASSUME NEW S, NEW q \in Seq(S), NEW x \in S
  PROVE  Elements(Append(q, x)) = Elements(q) \union {x}
<1>1. \A i \in 1 .. Len(q) : Append(q, x)[i] = q[i]
  OBVIOUS
<1>2. Append(q, x)[Len(q) + 1] = x /\ Len(Append(q, x)) = Len(q) + 1
  OBVIOUS
<1>3. 1 .. Len(q) + 1 = (1 .. Len(q)) \union {Len(q) + 1}
  OBVIOUS
<1>4. QED
  BY <1>1, <1>2, <1>3 DEF Elements

\* A sequence of records has records as elements.
LEMMA ElementsOf ==
  ASSUME NEW S, NEW q \in Seq(S)
  PROVE  /\ Elements(q) \subseteq S
         /\ \A j \in 1 .. Len(q) : q[j] \in Elements(q) /\ q[j] \in S
BY DEF Elements

-----------------------------------------------------------------------------
(* Sends as records.                                                       *)

\* No send is a send with nothing in it.
LEMMA NoSendFields ==
  /\ NoSend \in Sendings
  /\ NoSend.at = "none" /\ NoSend.flight = <<>> /\ NoSend.tries = 0
  /\ NoSend.i = 0 /\ NoSend.failures = 0
BY ProducerAssumption DEF NoSend, Sendings

\* The types of the fields of a send.
LEMMA SendFields ==
  ASSUME NEW s \in Sendings
  PROVE  /\ s.at \in {"none", "attempt", "produce"} /\ s.flight \in Seq(Records)
         /\ s.tries \in 0 .. MaxRetries /\ s.i \in 0 .. BatchSize + 1
         /\ s.failures \in 0 .. BatchSize
BY DEF Sendings

\* A new send (n = 0), or a new attempt at one.
Attempt(q, n) == [at |-> "attempt", flight |-> q, tries |-> n, i |-> 0, failures |-> 0]

\* It is a send of q that has tried n times.
LEMMA AttemptFields ==
  ASSUME NEW q \in Seq(Records), NEW n \in 0 .. MaxRetries
  PROVE  LET s == Attempt(q, n) IN
         /\ s \in Sendings /\ s # NoSend
         /\ s.at = "attempt" /\ s.flight = q /\ s.tries = n
         /\ s.i = 0 /\ s.failures = 0
<1>1. Attempt(q, n).at = "attempt" /\ NoSend.at = "none"
  BY NoSendFields DEF Attempt
<1>2. Attempt(q, n) # NoSend
  BY <1>1
<1>3. QED
  BY <1>2, ProducerAssumption DEF Attempt, Sendings

\* The first message of an attempt is next.
LEMMA FirstFields ==
  ASSUME NEW s \in Sendings, NEW r, r = [s EXCEPT !.at = "produce", !.i = 1]
  PROVE  /\ r \in Sendings /\ r # NoSend
         /\ r.at = "produce" /\ r.flight = s.flight /\ r.tries = s.tries
         /\ r.i = 1 /\ r.failures = s.failures
<1>1. r = [at |-> "produce", flight |-> s.flight, tries |-> s.tries, i |-> 1,
           failures |-> s.failures]
  BY DEF Sendings
<1>2. r # NoSend
  <2>1. NoSend.at # r.at
    BY <1>1, NoSendFields
  <2>2. QED
    BY <2>1
<1>3. QED
  BY <1>1, <1>2, SendFields, ProducerAssumption DEF Sendings

\* The next message is next; k failures are counted.
Following(s, k) == [s EXCEPT !.i = s.i + 1, !.failures = k]

\* The message after the current one is current, the rest stays.
LEMMA NextFields ==
  ASSUME NEW s \in Sendings, s.i <= BatchSize, s.at = "produce", NEW k \in 0 .. BatchSize
  PROVE  LET r == Following(s, k) IN
         /\ r \in Sendings /\ r # NoSend
         /\ r.at = "produce" /\ r.flight = s.flight /\ r.tries = s.tries
         /\ r.i = s.i + 1 /\ r.failures = k
<1> DEFINE r == Following(s, k)
<1> HIDE DEF r
<1>1. r = [at |-> "produce", flight |-> s.flight, tries |-> s.tries, i |-> s.i + 1,
           failures |-> k]
  <2>1. r = [s EXCEPT !.i = s.i + 1, !.failures = k]
    BY DEF r, Following
  <2>2. QED
    BY <2>1 DEF Sendings
<1>2. r # NoSend
  <2>1. NoSend.at # r.at
    BY <1>1, NoSendFields
  <2>2. QED
    BY <2>1
<1>3. s.i + 1 \in 0 .. BatchSize + 1
  BY SendFields, ProducerAssumption
<1>4. QED
  <2>1. r \in Sendings
    BY <1>1, <1>3, SendFields DEF Sendings
  <2>2. QED
    BY <1>1, <1>2, <2>1 DEF r

-----------------------------------------------------------------------------
(* What the steps of a send do.                                            *)

\* A goroutine that takes the batch starts a send of it.
LEMMA BeginEffect ==
  ASSUME NEW who, NEW q \in Seq(Records), Begin(who, q)
  PROVE  /\ batchMu' = who /\ batch' = <<>>
         /\ sending' \in Sendings /\ sending' # NoSend
         /\ sending'.at = "attempt" /\ sending'.flight = q /\ sending'.tries = 0
         /\ sending'.i = 0 /\ sending'.failures = 0
<1>1. 0 \in 0 .. MaxRetries
  BY ProducerAssumption
<1>2. sending' = Attempt(q, 0)
  BY DEF Begin, NoSend, Attempt
<1>3. batchMu' = who /\ batch' = <<>>
  BY DEF Begin
<1>4. QED
  BY <1>1, <1>2, <1>3, AttemptFields

\* A failed attempt is repeated, or the batch is given up.
LEMMA RetryEffect ==
  ASSUME sending \in Sendings, AttemptFailed
  PROVE  \/ /\ sending.tries < MaxRetries
            /\ sending' \in Sendings /\ sending' # NoSend
            /\ sending'.at = "attempt" /\ sending'.flight = sending.flight
            /\ sending'.tries = sending.tries + 1
            /\ sending'.i = 0 /\ sending'.failures = 0
            /\ UNCHANGED <<batchMu, flusher, failed>>
         \/ Finish("error") /\ failed' = failed \union Elements(sending.flight)
<1>1. CASE sending.tries < MaxRetries
  <2>1. sending.tries + 1 \in 0 .. MaxRetries /\ sending.flight \in Seq(Records)
    BY <1>1, SendFields, ProducerAssumption
  <2>2. /\ sending' = Attempt(sending.flight, sending.tries + 1)
        /\ UNCHANGED <<batchMu, flusher, failed>>
    BY <1>1 DEF AttemptFailed, NoSend, Attempt
  <2>3. QED
    BY <1>1, <2>1, <2>2, AttemptFields
<1>2. CASE ~(sending.tries < MaxRetries)
  BY <1>2 DEF AttemptFailed
<1>3. QED
  BY <1>1, <1>2

\* An attempt starts with the first message, or fails.
LEMMA StartEffect ==
  ASSUME sending \in Sendings, StartAttempt
  PROVE  \/ /\ sending' \in Sendings /\ sending' # NoSend
            /\ sending'.at = "produce" /\ sending'.flight = sending.flight
            /\ sending'.tries = sending.tries
            /\ sending'.i = 1 /\ sending'.failures = sending.failures
            /\ UNCHANGED <<batchMu, flusher, failed, faults>>
         \/ AttemptFailed /\ Fail
<1>1. CASE /\ sending' = [sending EXCEPT !.at = "produce", !.i = 1]
           /\ UNCHANGED <<batchMu, flusher, failed>> /\ Works
  BY <1>1, FirstFields DEF Works
<1>2. CASE AttemptFailed /\ Fail
  BY <1>2
<1>3. QED
  BY <1>1, <1>2 DEF StartAttempt

\* One message is appended, or a failure is counted.
LEMMA ProduceEffect ==
  ASSUME ProducerInv, ProduceMessage
  PROVE  /\ sending' \in Sendings /\ sending' # NoSend
         /\ sending.at = "produce" /\ sending'.at = "produce"
         /\ sending'.flight = sending.flight /\ sending'.tries = sending.tries
         /\ sending.i \in 1 .. Len(sending.flight) /\ sending'.i = sending.i + 1
         /\ Current \in Elements(sending.flight) /\ Current \in Records
         /\ log' \in {log, Append(log, Current)}
         /\ \/ /\ sending'.failures = sending.failures /\ UNCHANGED faults
               /\ log' = Append(log, Current)
            \/ /\ sending'.failures = sending.failures + 1
               /\ Fail \/ (main = "closed" /\ UNCHANGED faults)
<1>1. /\ sending.at = "produce" /\ sending \in Sendings
      /\ sending.i \in 1 .. Len(sending.flight)
      /\ sending.i <= BatchSize /\ sending.failures < BatchSize
      /\ sending.flight \in Seq(Records)
  <2>1. sending \in Sendings
    BY DEF ProducerInv, TypeOK
  <2>2. sending.at = "produce" /\ sending.i <= Len(sending.flight)
    BY DEF ProduceMessage
  <2>3. sending.i \in 1 .. Len(sending.flight) + 1 /\ sending.failures < sending.i
        /\ Len(sending.flight) <= BatchSize
    BY <2>2 DEF ProducerInv, SendInv
  <2>4. QED
    BY <2>1, <2>2, <2>3, SendFields, ProducerAssumption
<1>2. Current \in Elements(sending.flight) /\ Current \in Records
  BY <1>1, ElementsOf DEF Current
<1>3. CASE log' = Append(log, Current) /\ Works /\ sending' = [sending EXCEPT !.i = @ + 1]
  <2>1. sending' = Following(sending, sending.failures)
    BY <1>3, <1>1 DEF Sendings, Following
  <2>2. sending.failures \in 0 .. BatchSize
    BY <1>1, SendFields
  <2>3. /\ sending' \in Sendings /\ sending' # NoSend
        /\ sending'.at = "produce" /\ sending'.flight = sending.flight
        /\ sending'.tries = sending.tries
        /\ sending'.i = sending.i + 1 /\ sending'.failures = sending.failures
    BY <1>1, <2>1, <2>2, NextFields
  <2>4. log' = Append(log, Current) /\ UNCHANGED faults
    BY <1>3 DEF Works
  <2>5. QED
    BY <1>1, <1>2, <2>3, <2>4
<1>4. CASE /\ \/ Fail /\ log' \in {log, Append(log, Current)}
              \/ main = "closed" /\ Works /\ UNCHANGED log
           /\ sending' = [sending EXCEPT !.i = @ + 1, !.failures = @ + 1]
  <2>1. sending' = Following(sending, sending.failures + 1)
    BY <1>4 DEF Following
  <2>2. sending.failures + 1 \in 0 .. BatchSize
    BY <1>1, SendFields, ProducerAssumption
  <2>3. /\ sending' \in Sendings /\ sending' # NoSend
        /\ sending'.at = "produce" /\ sending'.flight = sending.flight
        /\ sending'.tries = sending.tries
        /\ sending'.i = sending.i + 1 /\ sending'.failures = sending.failures + 1
    BY <1>1, <2>1, <2>2, NextFields
  <2>4. Fail \/ (main = "closed" /\ UNCHANGED faults)
    BY <1>4 DEF Works
  <2>5. log' \in {log, Append(log, Current)}
    BY <1>4
  <2>6. QED
    BY <1>1, <1>2, <2>3, <2>4, <2>5
<1>5. QED
  BY <1>3, <1>4 DEF ProduceMessage

-----------------------------------------------------------------------------
(* Each part of the invariant is kept by every step.                       *)

\* Variables keep their types; batchMu is held while a batch is sent.
LEMMA TypeStep == ProducerInv /\ [Next]_vars => TypeOK'
<1> SUFFICES ASSUME ProducerInv, [Next]_vars
             PROVE  TypeOK'
  OBVIOUS
<1> USE ProducerAssumption DEF TypeOK, Fail, Works
<1>0. TypeOK /\ SendInv
  BY DEF ProducerInv
<1>1. ASSUME AttemptFailed, sending # NoSend,
             UNCHANGED <<batch, main, ticker, result, done, log, read, refused>>,
             faults' \in 0 .. MaxFaults
      PROVE  TypeOK'
  <2>1. CASE /\ sending' \in Sendings /\ sending' # NoSend
             /\ UNCHANGED <<batchMu, flusher, failed>>
    BY <1>0, <1>1, <2>1
  <2>2. CASE Finish("error") /\ failed' = failed \union Elements(sending.flight)
    <3>1. Elements(sending.flight) \subseteq Records
      BY <1>0, SendFields, ElementsOf
    <3>2. QED
      BY <1>0, <1>1, <2>2, <3>1, NoSendFields DEF Finish
  <2>3. QED
    BY <1>0, <1>1, <2>1, <2>2, RetryEffect
<1>2. ASSUME NEW who \in {"main", "ticker", "flusher"}, NEW q \in Seq(Records), Begin(who, q)
      PROVE  /\ batch' \in Seq(Records) /\ Len(batch') < BatchSize
             /\ batchMu' = who /\ sending' \in Sendings /\ sending' # NoSend
  <2>1. <<>> \in Seq(Records) /\ Len(<<>>) = 0
    OBVIOUS
  <2>2. /\ batchMu' = who /\ batch' = <<>>
        /\ sending' \in Sendings /\ sending' # NoSend
    BY <1>2, BeginEffect
  <2>3. QED
    BY <2>1, <2>2
<1>3. CASE StartAttempt
  <2>1. sending # NoSend /\ batchMu # "free"
    BY <1>0, <1>3, NoSendFields DEF StartAttempt
  <2>2. UNCHANGED <<batch, main, ticker, result, done, log, read, refused>>
    BY <1>3 DEF StartAttempt
  <2>3. CASE AttemptFailed /\ Fail
    BY <1>0, <1>1, <2>1, <2>2, <2>3
  <2>4. CASE /\ sending' \in Sendings /\ sending' # NoSend
             /\ UNCHANGED <<batchMu, flusher, failed, faults>>
    BY <1>0, <2>1, <2>2, <2>4
  <2>5. QED
    BY <1>0, <1>3, <2>3, <2>4, StartEffect
<1>4. CASE ProduceMessage
  <2>1. UNCHANGED <<batch, batchMu, main, ticker, flusher, result, done, read,
                    refused, failed>>
    BY <1>4 DEF ProduceMessage
  <2>2. sending # NoSend
    BY <1>4, NoSendFields DEF ProduceMessage
  <2>3. log' \in Seq(Records) /\ sending' \in Sendings /\ sending' # NoSend
    BY <1>0, <1>4, ProduceEffect, SMTT(20)
  <2>4. faults' \in 0 .. MaxFaults
    BY <1>0, <1>4, ProduceEffect
  <2>5. QED
    BY <1>0, <2>1, <2>2, <2>3, <2>4
<1>5. CASE EndAttempt
  <2>1. sending # NoSend
    BY <1>5, NoSendFields DEF EndAttempt
  <2>2. UNCHANGED <<batch, main, ticker, result, done, log, read, refused, faults>>
    BY <1>5 DEF EndAttempt
  <2>3. CASE AttemptFailed
    BY <1>0, <1>1, <2>1, <2>2, <2>3
  <2>4. CASE Finish("ok") /\ UNCHANGED failed
    BY <1>0, <2>2, <2>4, NoSendFields DEF Finish
  <2>5. QED
    BY <1>5, <2>3, <2>4 DEF EndAttempt
<1>6. CASE SendMessage
  <2>1. read + 1 \in Records /\ Records \subseteq Nat
    BY <1>0, <1>6 DEF SendMessage, Records
  <2>2. Append(batch, read + 1) \in Seq(Records)
        /\ Len(Append(batch, read + 1)) = Len(batch) + 1
    BY <1>0, <2>1
  <2>3. /\ read' \in 0 .. MaxRecords /\ faults' \in 0 .. MaxFaults
        /\ refused' \subseteq Records
        /\ UNCHANGED <<main, ticker, flusher, result, done, log, failed>>
    <3>1. /\ read' = read + 1 /\ read < MaxRecords
          /\ UNCHANGED <<main, ticker, flusher, result, done, log, failed>>
          /\ \/ Fail /\ refused' = refused \union {read + 1}
             \/ Works /\ UNCHANGED refused
      BY <1>6 DEF SendMessage
    <3>2. refused' \subseteq Records
      BY <1>0, <2>1, <3>1
    <3>3. faults' \in 0 .. MaxFaults /\ read' \in 0 .. MaxRecords
      BY <1>0, <3>1
    <3>4. QED
      BY <3>1, <3>2, <3>3, Zenon
  <2>4. CASE UNCHANGED <<batch, batchMu, sending>>
    BY <1>0, <2>3, <2>4
  <2>5. CASE Begin("main", Append(batch, read + 1))
    BY <1>0, <1>2, <2>2, <2>3, <2>5
  <2>6. CASE /\ batch' = Append(batch, read + 1) /\ Len(Append(batch, read + 1)) < BatchSize
             /\ UNCHANGED <<batchMu, sending>>
    BY <1>0, <2>2, <2>3, <2>6
  <2>7. QED
    BY <1>0, <1>6, <2>2, <2>4, <2>5, <2>6 DEF SendMessage
<1>7. CASE StartFlush \/ FlushReturns
  <2>1. CASE StartFlush
    BY <1>0, <2>1 DEF StartFlush
  <2>2. CASE FlushReturns
    BY <1>0, <2>2 DEF FlushReturns
  <2>3. QED
    BY <1>7, <2>1, <2>2
<1>8. CASE Close \/ CloseReturns
  BY <1>0, <1>8 DEF Close, CloseReturns
<1>9. CASE Tick \/ StopTicker
  BY <1>0, <1>9 DEF Tick, StopTicker
<1>10. CASE TickerFlush
  BY <1>0, <1>2, <1>10 DEF TickerFlush
<1>11. CASE Flush
  BY <1>0, <1>2, <1>11 DEF Flush
<1>12. CASE UNCHANGED vars
  BY <1>0, <1>12 DEF vars
<1>13. QED
  BY <1>3, <1>4, <1>5, <1>6, <1>7, <1>8, <1>9, <1>10, <1>11, <1>12
     DEF Next, Send, Shutdown

\* What was produced before the current message is in the log, or a failure is
\* counted.
LEMMA SendStep == ProducerInv /\ [Next]_vars => SendInv'
<1> SUFFICES ASSUME ProducerInv, [Next]_vars
             PROVE  SendInv'
  OBVIOUS
<1> USE ProducerAssumption DEF SendInv
<1>0. TypeOK /\ SendInv /\ sending \in Sendings /\ sending.flight \in Seq(Records)
  BY SendFields DEF ProducerInv, TypeOK
<1>1. ASSUME AttemptFailed
      PROVE  SendInv'
  BY <1>0, <1>1, NoSendFields, RetryEffect DEF Finish
<1>2. ASSUME NEW who, NEW q \in Seq(Records), Len(q) <= BatchSize, Begin(who, q)
      PROVE  SendInv'
  BY <1>2, BeginEffect
<1>3. CASE StartAttempt
  BY <1>0, <1>1, <1>3, StartEffect DEF StartAttempt
<1>4. CASE ProduceMessage
  <2>1. /\ sending.at = "produce" /\ sending'.at = "produce"
        /\ sending'.flight = sending.flight /\ sending'.i = sending.i + 1
        /\ sending.i \in 1 .. Len(sending.flight) /\ Current \in Records
        /\ log' \in {log, Append(log, Current)} /\ sending.failures \in Nat
        /\ sending'.failures \in {sending.failures, sending.failures + 1}
        /\ sending'.failures = sending.failures => log' = Append(log, Current)
    BY <1>0, <1>4, SendFields, ProduceEffect
  <2>2. /\ Elements(log) \subseteq Elements(log')
        /\ log' = Append(log, Current) => Current \in Elements(log')
    <3>1. log \in Seq(Records)
      BY <1>0 DEF TypeOK
    <3>2. Elements(Append(log, Current)) = Elements(log) \union {Current}
      BY <2>1, <3>1, ElementsAppend
    <3>3. QED
      BY <2>1, <3>2
  <2>3. ASSUME sending'.failures = 0, NEW j \in 1 .. sending'.i - 1
        PROVE  sending'.flight[j] \in Elements(log')
    <3>1. sending.failures = 0
      BY <2>1, <2>3
    <3>2. CASE j = sending.i
      BY <2>1, <2>2, <2>3, <3>1, <3>2 DEF Current
    <3>3. CASE j \in 1 .. sending.i - 1
      BY <1>0, <2>1, <2>2, <3>1, <3>3
    <3>4. QED
      BY <2>1, <2>3, <3>2, <3>3
  <2>4. QED
    BY <1>0, <2>1, <2>3
<1>5. CASE EndAttempt
  BY <1>0, <1>1, <1>5, NoSendFields DEF EndAttempt, Finish
<1>6. CASE SendMessage
  <2>1. batch \in Seq(Records) /\ Len(batch) < BatchSize /\ read + 1 \in Records
    BY <1>0, <1>6 DEF SendMessage, TypeOK, Records
  <2>2. Append(batch, read + 1) \in Seq(Records) /\ Len(Append(batch, read + 1)) <= BatchSize
    BY <2>1
  <2>3. CASE Begin("main", Append(batch, read + 1))
    BY <1>2, <2>2, <2>3
  <2>4. CASE UNCHANGED sending
    BY <1>0, <1>6, <2>4 DEF SendMessage
  <2>5. QED
    BY <1>6, <2>3, <2>4 DEF SendMessage
<1>7. CASE StartFlush \/ FlushReturns \/ Close \/ CloseReturns \/ Tick \/ StopTicker
  BY <1>0, <1>7 DEF StartFlush, FlushReturns, Close, CloseReturns, Tick, StopTicker
<1>8. CASE TickerFlush
  BY <1>0, <1>2, <1>8 DEF TickerFlush, TypeOK
<1>9. CASE Flush
  BY <1>0, <1>2, <1>9 DEF Flush, TypeOK
<1>10. CASE UNCHANGED vars
  BY <1>0, <1>10 DEF vars
<1>11. QED
  BY <1>3, <1>4, <1>5, <1>6, <1>7, <1>8, <1>9, <1>10 DEF Next, Send, Shutdown

\* Flush's goroutine and main stay in step with each other.
LEMMA FlushStep == ProducerInv /\ [Next]_vars => FlushInv'
<1> SUFFICES ASSUME ProducerInv, [Next]_vars
             PROVE  FlushInv'
  OBVIOUS
<1> USE DEF FlushInv
<1>0. FlushInv /\ sending \in Sendings /\ (batchMu = "free" <=> sending = NoSend)
  BY DEF ProducerInv, TypeOK
<1>1. ASSUME NEW outcome \in {"ok", "error"}, Finish(outcome), sending # NoSend,
             UNCHANGED <<batch, main, result>>
      PROVE  FlushInv'
  BY <1>0, <1>1 DEF Finish
<1>2. ASSUME AttemptFailed, sending # NoSend, UNCHANGED <<batch, main, result>>
      PROVE  FlushInv'
  BY <1>0, <1>1, <1>2, RetryEffect
<1>3. CASE StartAttempt
  BY <1>0, <1>2, <1>3, NoSendFields, StartEffect DEF StartAttempt
<1>4. CASE ProduceMessage
  BY <1>0, <1>4 DEF ProduceMessage
<1>5. CASE EndAttempt
  BY <1>0, <1>1, <1>2, <1>5, NoSendFields DEF EndAttempt
<1>6. CASE SendMessage
  BY <1>0, <1>6 DEF SendMessage, Streaming, Begin
<1>7. CASE StartFlush
  BY <1>0, <1>7 DEF StartFlush, Streaming
<1>8. CASE FlushReturns
  BY <1>0, <1>8 DEF FlushReturns
<1>9. CASE Close \/ CloseReturns \/ Tick \/ StopTicker
  BY <1>0, <1>9 DEF Close, CloseReturns, Tick, StopTicker
<1>10. CASE TickerFlush
  BY <1>0, <1>10 DEF TickerFlush, Begin
<1>11. CASE Flush
  BY <1>0, <1>11 DEF Flush, Begin
<1>12. CASE UNCHANGED vars
  BY <1>0, <1>12 DEF vars
<1>13. QED
  BY <1>3, <1>4, <1>5, <1>6, <1>7, <1>8, <1>9, <1>10, <1>11, <1>12 DEF Next, Send, Shutdown


\* Each record that was queued is in the batch, under way, appended or reported.
LEMMA AccountedStep == ProducerInv /\ [Next]_vars => Accounted' /\ RefusedInv'
<1> SUFFICES ASSUME ProducerInv, [Next]_vars
             PROVE  Accounted' /\ RefusedInv'
  OBVIOUS
<1> USE DEF Accounted, RefusedInv
<1>0. /\ Accounted /\ RefusedInv /\ sending \in Sendings
      /\ batchMu = "free" <=> sending = NoSend
      /\ batch \in Seq(Records) /\ log \in Seq(Records) /\ read \in Nat
  BY ProducerAssumption DEF ProducerInv, TypeOK
<1>1. ASSUME AttemptFailed, UNCHANGED <<batch, log, read, refused>>
      PROVE  Accounted' /\ RefusedInv'
  <2>1. UNCHANGED <<Queued, Appended, Elements(batch)>>
    BY <1>1 DEF Queued, Appended
  <2>2. CASE sending'.flight = sending.flight /\ UNCHANGED failed
    BY <1>0, <1>1, <2>1, <2>2
  <2>3. CASE Finish("error") /\ failed' = failed \union Elements(sending.flight)
    <3>1. Elements(sending'.flight) = {}
      BY <2>3, NoSendFields, ElementsEmpty DEF Finish
    <3>2. QED
      BY <1>0, <1>1, <2>1, <2>3, <3>1
  <2>4. QED
    BY <1>0, <1>1, <2>2, <2>3, RetryEffect
<1>2. ASSUME NEW who, batchMu = "free", Begin(who, batch), UNCHANGED <<log, read, refused, failed>>
      PROVE  Accounted' /\ RefusedInv'
  <2>1. Elements(sending.flight) = {}
    BY <1>0, <1>2, NoSendFields, ElementsEmpty
  <2>2. Elements(batch') = {} /\ Elements(sending'.flight) = Elements(batch)
    BY <1>0, <1>2, BeginEffect, ElementsEmpty
  <2>3. UNCHANGED <<Queued, Appended>>
    BY <1>2 DEF Queued, Appended
  <2>4. QED
    BY <1>0, <1>2, <2>1, <2>2, <2>3
<1>3. CASE StartAttempt
  <2>1. CASE AttemptFailed
    BY <1>1, <1>3, <2>1 DEF StartAttempt
  <2>2. CASE sending'.flight = sending.flight /\ UNCHANGED failed
    <3>1. UNCHANGED <<batch, log, read, refused>>
      BY <1>3 DEF StartAttempt
    <3>2. QED
      BY <1>0, <2>2, <3>1 DEF Queued, Appended
  <2>3. QED
    BY <1>0, <1>3, <2>1, <2>2, StartEffect
<1>4. CASE ProduceMessage
  <2>1. /\ sending'.flight = sending.flight /\ UNCHANGED <<batch, read, refused, failed>>
        /\ Current \in Elements(sending.flight) /\ Current \in Records
        /\ log' \in {log, Append(log, Current)}
    BY <1>4, ProduceEffect DEF ProduceMessage
  <2>2. Appended' \in {Appended, Appended \union {Current}}
    BY <1>0, <2>1, ElementsAppend, ZenonT(20) DEF Appended
  <2>3. Queued' = Queued
    BY <2>1 DEF Queued
  <2>4. Elements(sending.flight) \subseteq Queued
        /\ Current \notin Elements(batch)
    BY <1>0, <2>1
  <2>5. QED
    BY <1>0, <2>1, <2>2, <2>3, <2>4
<1>5. CASE EndAttempt
  <2>1. UNCHANGED <<batch, log, read, refused>>
    BY <1>5 DEF EndAttempt
  <2>2. CASE AttemptFailed
    BY <1>1, <2>1, <2>2
  <2>3. CASE sending.failures = 0 /\ Finish("ok") /\ UNCHANGED failed
    <3>1. Elements(sending.flight) \subseteq Appended
      <4>1. /\ sending.flight \in Seq(Records) /\ sending.i \in 1 .. Len(sending.flight) + 1
            /\ sending.i > Len(sending.flight)
            /\ \A j \in 1 .. sending.i - 1 : sending.flight[j] \in Elements(log)
        BY <1>0, <1>5, <2>3, SendFields DEF EndAttempt, ProducerInv, SendInv
      <4>2. \A j \in 1 .. Len(sending.flight) : sending.flight[j] \in Elements(log)
        BY <4>1
      <4>3. QED
        BY <4>2 DEF Elements, Appended
    <3>2. Elements(sending'.flight) = {}
      BY <2>3, NoSendFields, ElementsEmpty DEF Finish
    <3>3. UNCHANGED <<Queued, Appended>>
      BY <2>1 DEF Queued, Appended
    <3>4. QED
      BY <1>0, <2>1, <2>3, <3>1, <3>2, <3>3
  <2>4. QED
    <3>1. sending.failures > 0 \/ sending.failures = 0
      BY <1>0, SendFields, ProducerAssumption
    <3>2. QED
      BY <1>5, <2>2, <2>3, <3>1 DEF EndAttempt
<1>6. CASE SendMessage
  <2>1. read' = read + 1 /\ read + 1 \in Records /\ UNCHANGED <<log, failed>>
    BY <1>0, <1>6, ProducerAssumption DEF SendMessage, Records
  <2>2. Appended' = Appended
    BY <2>1 DEF Appended
  <2>3. CASE refused' = refused \union {read + 1} /\ UNCHANGED <<batch, sending>>
    <3>1. Queued' = Queued
      BY <1>0, <2>1, <2>3 DEF Queued
    <3>2. QED
      BY <1>0, <2>1, <2>2, <2>3, <3>1
  <2>4. CASE refused' = refused
    <3>1. Queued' = Queued \union {read + 1} /\ read + 1 \notin Queued
      BY <1>0, <2>1, <2>4 DEF Queued
    <3>2. Elements(Append(batch, read + 1)) = Elements(batch) \union {read + 1}
      BY <1>0, <2>1, ElementsAppend
    <3>3. CASE batch' = Append(batch, read + 1) /\ UNCHANGED sending
      BY <1>0, <2>1, <2>2, <2>4, <3>1, <3>2, <3>3
    <3>4. CASE batchMu = "free" /\ Begin("main", Append(batch, read + 1))
      <4>1. Append(batch, read + 1) \in Seq(Records)
        BY <1>0, <2>1
      <4>2. /\ Elements(sending.flight) = {} /\ Elements(batch') = {}
            /\ Elements(sending'.flight) = Elements(batch) \union {read + 1}
        BY <1>0, <3>2, <3>4, <4>1, NoSendFields, BeginEffect, ElementsEmpty
      <4>3. QED
        BY <1>0, <2>1, <2>2, <2>4, <3>1, <4>2
    <3>5. CASE refused' = refused \union {read + 1} /\ UNCHANGED <<batch, sending>>
      BY <2>3, <3>5
    <3>6. QED
      BY <1>6, <3>3, <3>4, <3>5 DEF SendMessage
  <2>5. QED
    BY <1>6, <2>3, <2>4 DEF SendMessage
<1>7. CASE StartFlush \/ FlushReturns \/ Close \/ CloseReturns \/ Tick \/ StopTicker
  <2>1. UNCHANGED <<batch, sending, log, read, refused, failed>>
    BY <1>7 DEF StartFlush, FlushReturns, Close, CloseReturns, Tick, StopTicker
  <2>2. QED
    BY <1>0, <2>1 DEF Queued, Appended
<1>8. CASE TickerFlush \/ Flush
  <2>1. UNCHANGED <<log, read, refused, failed>> /\ batchMu = "free"
    BY <1>8 DEF TickerFlush, Flush
  <2>2. CASE Begin("ticker", batch) \/ Begin("flusher", batch)
    BY <1>2, <2>1, <2>2
  <2>3. CASE UNCHANGED <<batch, sending>>
    BY <1>0, <2>1, <2>3 DEF Queued, Appended
  <2>4. QED
    BY <1>8, <2>2, <2>3 DEF TickerFlush, Flush
<1>9. CASE UNCHANGED vars
  BY <1>0, <1>9 DEF vars, Queued, Appended
<1>10. QED
  BY <1>3, <1>4, <1>5, <1>6, <1>7, <1>8, <1>9 DEF Next, Send, Shutdown

\* While nothing fails, log, batch under way and batch stay one sequence.
LEMMA CleanStep == ProducerInv /\ [Next]_vars => CleanInv'
<1> SUFFICES ASSUME ProducerInv, [Next]_vars, faults' = 0
             PROVE  CleanInv'
  BY DEF CleanInv
<1>0. /\ sending \in Sendings /\ faults \in Nat /\ read \in Nat
      /\ batchMu = "free" <=> sending = NoSend
      /\ batch \in Seq(Records) /\ log \in Seq(Records)
      /\ sending.flight \in Seq(Records) /\ sending.i \in Nat
      /\ sending.failures \in Nat /\ Records \subseteq Nat
  BY SendFields, ProducerAssumption DEF ProducerInv, TypeOK, Records
<1>1. ~ Fail
  BY <1>0 DEF Fail
<1>2. faults = 0
  <2>1. CASE UNCHANGED faults
    BY <2>1
  <2>2. CASE Fail
    BY <1>1, <2>2
  <2>3. QED
    BY <2>1, <2>2, <1>0, ProduceEffect, StartEffect
       DEF Next, Send, Shutdown, vars, EndAttempt, SendMessage, StartFlush, FlushReturns,
           Close, CloseReturns, Tick, StopTicker, TickerFlush, Flush, Works
<1>3. CleanInv /\ SendInv /\ FlushInv
  BY DEF ProducerInv
<1> USE <1>2 DEF CleanInv, Produced
<1>4. ASSUME NEW who, batchMu = "free", Begin(who, batch),
             UNCHANGED <<log, read, result, main>>, flusher' # "error"
      PROVE  CleanInv'
  <2>1. sending.flight = <<>> /\ sending.at = "none"
    BY <1>0, <1>4, NoSendFields
  <2>2. /\ batch' = <<>> /\ sending'.at = "attempt" /\ sending'.flight = batch
        /\ sending'.tries = 0 /\ sending'.i = 0 /\ sending'.failures = 0
    BY <1>0, <1>4, BeginEffect
  <2>3. /\ \A j \in 1 .. Len(batch) : batch[j] = Len(log) + j
        /\ read = Len(log) + Len(batch)
    BY <1>0, <1>3, <2>1
  <2>4. /\ main' \in {"close", "wait", "closed"} => result' = "ok"
        /\ \A j \in 1 .. Len(log') : log'[j] = j
    BY <1>3, <1>4
  <2>5. /\ sending'.tries = 0 /\ sending'.failures = 0 /\ flusher' # "error"
        /\ Produced' = 0 /\ Len(log') = Len(log) /\ Len(log) \in Nat
    BY <1>0, <1>4, <2>2
  <2>6. \A j \in 1 .. Len(sending'.flight) :
           sending'.flight[j] = Len(log') - Produced' + j
    BY <2>2, <2>3, <2>5
  <2>7. /\ Len(batch') = 0 /\ Len(sending'.flight) = Len(batch)
        /\ read' = Len(log) + Len(batch) /\ Len(batch) \in Nat
    BY <1>0, <1>4, <2>2, <2>3
  <2>8. \A j \in 1 .. Len(batch') :
           batch'[j] = Len(log') - Produced' + Len(sending'.flight) + j
    BY <2>7
  <2>9. read' = Len(log') - Produced' + Len(sending'.flight) + Len(batch')
    BY <2>5, <2>7
  <2> HIDE DEF Produced
  <2>10. QED
    BY <2>4, <2>5, <2>6, <2>8, <2>9
<1>5. CASE StartAttempt
  <2>1. UNCHANGED <<batch, log, read, result, main, flusher>>
        /\ sending'.at = "produce" /\ sending'.flight = sending.flight
        /\ sending'.tries = sending.tries
        /\ sending'.i = 1 /\ sending'.failures = sending.failures
    BY <1>0, <1>1, <1>5, StartEffect DEF StartAttempt
  <2>2. sending.at = "attempt"
    BY <1>5 DEF StartAttempt
  <2>3. QED
    BY <1>0, <1>3, <2>1, <2>2
<1>6. CASE ProduceMessage
  <2>1. UNCHANGED <<batch, read, result, main, flusher>>
        /\ sending.at = "produce" /\ sending'.at = "produce"
        /\ sending'.flight = sending.flight /\ sending'.tries = sending.tries
        /\ sending.i \in 1 .. Len(sending.flight) /\ sending'.i = sending.i + 1
        /\ sending # NoSend
    BY <1>6, ProduceEffect, NoSendFields DEF ProduceMessage
  <2>2. main # "closed"
    BY <1>0, <1>3, <2>1 DEF FlushInv
  <2>3. log' = Append(log, Current) /\ sending'.failures = sending.failures
    BY <1>1, <1>6, <2>2, ProduceEffect
  <2>4. Current = Len(log) + 1
    BY <1>0, <1>3, <2>1 DEF Current
  <2>5. Len(log') = Len(log) + 1 /\ \A j \in 1 .. Len(log') : log'[j] = j
    BY <1>0, <1>3, <2>3, <2>4
  <2>6. Len(log') - (sending'.i - 1) = Len(log) - (sending.i - 1)
    BY <1>0, <2>1, <2>5
  <2>7. QED
    BY <1>0, <1>3, <2>1, <2>3, <2>5, <2>6
<1>7. CASE EndAttempt
  <2>1. UNCHANGED <<batch, log, read, result, main>> /\ batchMu # "free"
    BY <1>0, <1>7, NoSendFields DEF EndAttempt
  <2>2. sending.failures = 0 /\ Finish("ok")
    BY <1>3, <1>7 DEF EndAttempt
  <2>3. sending'.flight = <<>> /\ sending'.at = "none" /\ sending'.tries = 0
        /\ sending'.failures = 0 /\ flusher' # "error"
    BY <1>3, <2>2, NoSendFields DEF Finish
  <2>4. sending.at = "produce" /\ sending.i = Len(sending.flight) + 1
    BY <1>0, <1>3, <1>7 DEF EndAttempt, SendInv
  <2>5. QED
    BY <1>0, <1>3, <2>1, <2>3, <2>4
<1>8. CASE SendMessage
  <2>1. /\ read' = read + 1 /\ UNCHANGED <<log, result, main, flusher>> /\ main = "stream"
        /\ read + 1 \in Records /\ batchMu = "free"
        /\ \/ Begin("main", Append(batch, read + 1))
           \/ batch' = Append(batch, read + 1) /\ UNCHANGED sending
    BY <1>0, <1>1, <1>8, ProducerAssumption DEF SendMessage, Streaming, Records
  <2>2. sending.flight = <<>> /\ sending.at = "none"
    BY <1>0, <2>1, NoSendFields
  <2>3. /\ Append(batch, read + 1) \in Seq(Records)
        /\ Len(Append(batch, read + 1)) = Len(batch) + 1
        /\ \A j \in 1 .. Len(batch) + 1 : Append(batch, read + 1)[j] = Len(log) + j
    <3>1. /\ \A j \in 1 .. Len(batch) : batch[j] = Len(log) + j
          /\ read = Len(log) + Len(batch)
      BY <1>0, <1>3, <2>2
    <3>2. /\ \A j \in 1 .. Len(batch) : Append(batch, read + 1)[j] = batch[j]
          /\ Append(batch, read + 1)[Len(batch) + 1] = read + 1
          /\ Len(Append(batch, read + 1)) = Len(batch) + 1
          /\ Append(batch, read + 1) \in Seq(Records)
      BY <1>0, <2>1
    <3>3. ASSUME NEW j \in 1 .. Len(batch) + 1
          PROVE  Append(batch, read + 1)[j] = Len(log) + j
      <4>1. CASE j = Len(batch) + 1
        BY <1>0, <3>1, <3>2, <4>1
      <4>2. CASE j \in 1 .. Len(batch)
        BY <3>1, <3>2, <4>2
      <4>3. QED
        BY <1>0, <4>1, <4>2
    <3>4. QED
      BY <3>2, <3>3
  <2>4. CASE Begin("main", Append(batch, read + 1))
    <3>1. /\ batch' = <<>> /\ sending'.at = "attempt"
          /\ sending'.flight = Append(batch, read + 1)
          /\ sending'.tries = 0 /\ sending'.i = 0 /\ sending'.failures = 0
      BY <2>3, <2>4, BeginEffect
    <3>2. QED
      BY <1>0, <1>3, <2>1, <2>2, <2>3, <3>1
  <2>5. CASE batch' = Append(batch, read + 1) /\ UNCHANGED sending
    BY <1>0, <1>3, <2>1, <2>2, <2>3, <2>5, SMTT(20)
  <2>6. QED
    BY <2>1, <2>4, <2>5
<1>9. CASE StartFlush
  BY <1>3, <1>9 DEF StartFlush
<1>10. CASE FlushReturns
  BY <1>1, <1>3, <1>10 DEF FlushReturns, FlushInv
<1>11. CASE Close \/ CloseReturns \/ Tick \/ StopTicker
  BY <1>3, <1>11 DEF Close, CloseReturns, Tick, StopTicker, FlushInv
<1>12. CASE TickerFlush \/ Flush
  <2>1. UNCHANGED <<log, read, result, main>> /\ batchMu = "free" /\ flusher' # "error"
    BY <1>3, <1>12 DEF TickerFlush, Flush
  <2>2. CASE Begin("ticker", batch) \/ Begin("flusher", batch)
    BY <1>4, <2>1, <2>2
  <2>3. CASE UNCHANGED <<batch, sending>>
    BY <1>3, <2>1, <2>3
  <2>4. QED
    BY <1>12, <2>2, <2>3 DEF TickerFlush, Flush
<1>13. CASE UNCHANGED vars
  BY <1>3, <1>13 DEF vars
<1>14. QED
  BY <1>5, <1>6, <1>7, <1>8, <1>9, <1>10, <1>11, <1>12, <1>13 DEF Next, Send, Shutdown

-----------------------------------------------------------------------------
(* The theorems.                                                           *)

\* The producer starts with nothing queued, under way or failed.
LEMMA InitEstablishes == Init => ProducerInv
<1> SUFFICES ASSUME Init
             PROVE  ProducerInv
  OBVIOUS
<1>1. TypeOK
  <2>1. <<>> \in Seq(Records) /\ Len(<<>>) = 0
    OBVIOUS
  <2>2. batch = <<>> /\ log = <<>> /\ sending = NoSend /\ batchMu = "free"
        /\ done = FALSE /\ read = 0 /\ faults = 0 /\ refused = {} /\ failed = {}
        /\ main = "stream" /\ ticker = "select" /\ flusher = "none" /\ result = "none"
    BY DEF Init
  <2>3. /\ batch \in Seq(Records) /\ Len(batch) < BatchSize /\ log \in Seq(Records)
        /\ read \in 0 .. MaxRecords /\ faults \in 0 .. MaxFaults
    BY <2>1, <2>2, ProducerAssumption
  <2>4. QED
    BY <2>2, <2>3, NoSendFields DEF TypeOK
<1>2. Accounted /\ RefusedInv
  BY NoSendFields, ElementsEmpty DEF Init, Accounted, RefusedInv, Queued, Appended
<1>3. SendInv /\ FlushInv /\ CleanInv
  BY ProducerAssumption, NoSendFields DEF Init, SendInv, FlushInv, CleanInv, Produced
<1>4. QED
  BY <1>1, <1>2, <1>3 DEF ProducerInv

\* ProducerInv is an invariant.
LEMMA InvariantHolds == Spec => []ProducerInv
<1>1. ProducerInv /\ [Next]_vars => ProducerInv'
  BY TypeStep, AccountedStep, SendStep, FlushStep, CleanStep DEF ProducerInv
<1>2. QED
  BY InitEstablishes, <1>1, PTL DEF Spec

\* The variables of the producer keep their types and batchMu is held exactly
\* while a batch is sent, for any constants.
THEOREM ProducerTypeCorrect == Spec => []TypeOK
<1>1. ProducerInv => TypeOK
  BY DEF ProducerInv
<1>2. QED
  BY InvariantHolds, <1>1, PTL

\* No record SendMessage took is lost unreported, whichever of main, the loop and
\* Flush's goroutine sends it and whichever calls fail.
THEOREM RecordsAccountedFor == Spec => []Accounted
<1>1. ProducerInv => Accounted
  BY DEF ProducerInv
<1>2. QED
  BY InvariantHolds, <1>1, PTL

\* A Flush that returned without error left no record in the batch or under way.
THEOREM FlushMeansSettled == Spec => []FlushedIsSettled
<1>1. ProducerInv => FlushedIsSettled
  <2> SUFFICES ASSUME ProducerInv, result = "ok"
               PROVE  batchMu = "free" /\ Queued = Appended \union failed
    BY DEF FlushedIsSettled
  <2>1. batch = <<>> /\ batchMu = "free"
    BY DEF ProducerInv, FlushInv
  <2>2. sending.flight = <<>>
    BY <2>1, NoSendFields DEF ProducerInv, TypeOK
  <2>3. QED
    BY <2>1, <2>2, ElementsEmpty DEF ProducerInv, Accounted
<1>2. QED
  BY InvariantHolds, <1>1, PTL

\* As long as nothing fails the broker appends every record once and in order,
\* although three goroutines send.
THEOREM CleanRunsAreInOrder == Spec => []CleanRunInOrder
<1>1. ProducerInv => CleanRunInOrder
  <2> SUFFICES ASSUME ProducerInv, faults = 0
               PROVE  log = [i \in 1 .. Len(log) |-> i]
    BY DEF CleanRunInOrder
  <2>1. log \in Seq(Records) /\ \A j \in 1 .. Len(log) : log[j] = j
    BY DEF ProducerInv, TypeOK, CleanInv
  <2>2. QED
    BY <2>1
<1>2. QED
  BY InvariantHolds, <1>1, PTL

-----------------------------------------------------------------------------
(* Copies of a record in the log.                                          *)

\* Where m stands in q, and how often.
Places(q, m) == {i \in 1 .. Len(q) : q[i] = m}
Count(q, m)  == Cardinality(Places(q, m))

\* No record is in q twice.
Once(q) == \A i, j \in 1 .. Len(q) : q[i] = q[j] => i = j

\* No record has more copies than there were attempts, and those of the batch under
\* way have one for each attempt before this one, and one more up to the current
\* message.  Nothing of the batch has a copy (Accounted).
CopiesInv ==
  /\ Once(batch) /\ Once(sending.flight)
  /\ \A m \in Records : Count(log, m) <= MaxRetries + 1
  /\ \A j \in 1 .. Len(sending.flight) :
       Count(log, sending.flight[j]) <= sending.tries + (IF j <= Produced THEN 1 ELSE 0)

\* A sequence has finitely many places.
LEMMA PlacesFinite ==
  ASSUME NEW S, NEW q \in Seq(S), NEW m
  PROVE  IsFiniteSet(Places(q, m)) /\ Count(q, m) \in Nat
<1>1. Len(q) \in Nat
  OBVIOUS
<1>2. IsFiniteSet(1 .. Len(q)) /\ Places(q, m) \in SUBSET (1 .. Len(q))
  BY <1>1, FS_Interval DEF Places
<1>3. QED
  BY <1>2, FS_Subset, FS_CardinalityType DEF Count

\* A record that q does not have has no place in it.
LEMMA NoPlace ==
  ASSUME NEW q, NEW m, m \notin Elements(q)
  PROVE  Count(q, m) = 0
<1>1. Places(q, m) = {}
  BY DEF Places, Elements
<1>2. QED
  BY <1>1, FS_EmptySet DEF Count

\* Appending x gives x one place more and nothing to the others.
LEMMA PlacesAppend ==
  ASSUME NEW S, NEW q \in Seq(S), NEW x \in S, NEW m
  PROVE  Count(Append(q, x), m) = Count(q, m) + (IF m = x THEN 1 ELSE 0)
<1> DEFINE n == Len(q) + 1
<1>1. /\ Len(Append(q, x)) = n /\ Append(q, x)[n] = x /\ Len(q) \in Nat
      /\ \A i \in 1 .. Len(q) : Append(q, x)[i] = q[i]
  OBVIOUS
<1>2. n \notin Places(q, m)
  BY <1>1 DEF Places
<1>3. 1 .. n = (1 .. Len(q)) \union {n}
  BY <1>1
<1>4. CASE m = x
  <2>1. Places(Append(q, x), m) = Places(q, m) \union {n}
    BY <1>1, <1>3, <1>4 DEF Places
  <2>2. QED
    BY <1>2, <1>4, <2>1, PlacesFinite, FS_AddElement DEF Count
<1>5. CASE m # x
  <2>1. Places(Append(q, x), m) = Places(q, m)
    BY <1>1, <1>3, <1>5 DEF Places
  <2>2. QED
    BY <1>5, <2>1, PlacesFinite DEF Count
<1>6. QED
  BY <1>4, <1>5

\* The empty batch has nothing twice, and no batch has after a new record joined it.
LEMMA OnceFacts ==
  /\ Once(<<>>)
  /\ \A q \in Seq(Records), x \in Records :
       Once(q) /\ x \notin Elements(q) => Once(Append(q, x))
<1>1. Once(<<>>)
  BY DEF Once
<1>2. ASSUME NEW q \in Seq(Records), NEW x \in Records, Once(q), x \notin Elements(q)
      PROVE  Once(Append(q, x))
  <2>1. /\ Len(Append(q, x)) = Len(q) + 1 /\ Append(q, x)[Len(q) + 1] = x
        /\ \A i \in 1 .. Len(q) : Append(q, x)[i] = q[i] /\ q[i] # x
    BY <1>2 DEF Elements
  <2>2. 1 .. Len(q) + 1 = (1 .. Len(q)) \union {Len(q) + 1}
    OBVIOUS
  <2>3. QED
    BY <1>2, <2>1, <2>2 DEF Once
<1>3. QED
  BY <1>1, <1>2

\* A failed attempt leaves each record of the batch with one copy per attempt.
LEMMA CopiesAfterFailure ==
  ASSUME ProducerInv, CopiesInv, AttemptFailed, UNCHANGED <<batch, log>>
  PROVE  CopiesInv'
<1>1. /\ sending \in Sendings /\ sending.tries \in Nat /\ sending.flight \in Seq(Records)
      /\ log \in Seq(Records) /\ \A m : Count(log, m) \in Nat
  BY SendFields, PlacesFinite, ProducerAssumption DEF ProducerInv, TypeOK
<1>2. \A m \in Records : Count(log, m) <= MaxRetries + 1
  BY DEF CopiesInv
<1>3. CASE Finish("error")
  <2>1. sending'.flight = <<>> /\ Len(<<>>) = 0
    BY <1>3, NoSendFields DEF Finish
  <2>2. \A j \in 1 .. Len(sending'.flight) : FALSE
    BY <2>1
  <2>3. Once(batch') /\ Once(sending'.flight)
    BY <2>1, OnceFacts DEF CopiesInv
  <2>4. QED
    BY <1>2, <2>2, <2>3 DEF CopiesInv
<1>4. CASE /\ sending'.flight = sending.flight /\ sending'.tries = sending.tries + 1
           /\ sending'.at = "attempt"
  <2>1. \A j \in 1 .. Len(sending.flight) :
          Count(log, sending.flight[j]) <= sending.tries + 1
    <3> SUFFICES ASSUME NEW j \in 1 .. Len(sending.flight)
                 PROVE  Count(log, sending.flight[j]) <= sending.tries + 1
      OBVIOUS
    <3>1. Count(log, sending.flight[j]) <= sending.tries + (IF j <= Produced THEN 1 ELSE 0)
      BY DEF CopiesInv
    <3>2. QED
      BY <1>1, <3>1
  <2>2. \A j \in 1 .. Len(sending.flight) : ~ (j <= Produced')
    BY <1>4 DEF Produced
  <2>3. \A j \in 1 .. Len(sending'.flight) :
          Count(log', sending'.flight[j]) <= sending'.tries
                                             + (IF j <= Produced' THEN 1 ELSE 0)
    BY <1>1, <1>4, <2>1, <2>2
  <2>4. QED
    BY <1>2, <1>4, <2>3 DEF CopiesInv
<1>5. QED
  BY <1>1, <1>3, <1>4, RetryEffect

\* A batch whose send begins has no copies in the log yet.
LEMMA CopiesAtBegin ==
  ASSUME ProducerInv, CopiesInv, NEW who, NEW q \in Seq(Records), Begin(who, q), Once(q),
         \A j \in 1 .. Len(q) : q[j] \notin Appended, UNCHANGED log
  PROVE  CopiesInv'
<1>1. /\ batch' = <<>> /\ sending'.flight = q /\ sending'.tries = 0
      /\ sending'.at = "attempt"
  BY BeginEffect
<1>2. \A m \in Records : Count(log, m) <= MaxRetries + 1
  BY DEF CopiesInv
<1>3. \A j \in 1 .. Len(q) : Count(log, q[j]) = 0
  BY NoPlace DEF Appended
<1>4. \A j \in 1 .. Len(q) : ~ (j <= Produced')
  BY <1>1 DEF Produced
<1>5. \A j \in 1 .. Len(sending'.flight) :
        Count(log', sending'.flight[j]) <= sending'.tries
                                           + (IF j <= Produced' THEN 1 ELSE 0)
  BY <1>1, <1>3, <1>4
<1>6. QED
  BY <1>1, <1>2, <1>5, OnceFacts DEF CopiesInv

\* Every step keeps the number of copies within that of the attempts.
LEMMA CopiesStep == ProducerInv /\ CopiesInv /\ [Next]_vars => CopiesInv'
<1> SUFFICES ASSUME ProducerInv, CopiesInv, [Next]_vars
             PROVE  CopiesInv'
  OBVIOUS
<1>0. /\ sending \in Sendings /\ sending.flight \in Seq(Records) /\ log \in Seq(Records)
      /\ sending.tries \in 0 .. MaxRetries /\ batch \in Seq(Records)
      /\ batchMu = "free" <=> sending = NoSend
      /\ Accounted /\ RefusedInv /\ read \in Nat
  BY SendFields, ProducerAssumption DEF ProducerInv, TypeOK
<1>1. ASSUME UNCHANGED <<batch, sending, log>>
      PROVE  CopiesInv'
  BY <1>1 DEF CopiesInv, Produced
<1>2. \A j \in 1 .. Len(batch) : batch[j] \notin Appended
  BY <1>0, ElementsOf DEF Accounted
<1>3. CASE StartAttempt
  <2>1. UNCHANGED <<batch, log>>
    BY <1>3 DEF StartAttempt
  <2>2. CASE AttemptFailed
    BY <2>1, <2>2, CopiesAfterFailure
  <2>3. CASE /\ sending'.at = "produce" /\ sending'.flight = sending.flight
             /\ sending'.tries = sending.tries /\ sending'.i = 1
    <3>1. sending.at = "attempt"
      BY <1>3 DEF StartAttempt
    <3>2. Produced' = 0 /\ Produced = 0
      BY <2>3, <3>1 DEF Produced
    <3>3. QED
      BY <2>1, <2>3, <3>2 DEF CopiesInv
  <2>4. QED
    BY <1>0, <1>3, <2>2, <2>3, StartEffect
<1>4. CASE ProduceMessage
  <2>1. /\ sending.at = "produce" /\ sending'.at = "produce"
        /\ sending'.flight = sending.flight /\ sending'.tries = sending.tries
        /\ sending.i \in 1 .. Len(sending.flight) /\ sending'.i = sending.i + 1
        /\ Current \in Records /\ log' \in {log, Append(log, Current)} /\ UNCHANGED batch
    BY <1>4, ProduceEffect DEF ProduceMessage
  <2>2. Produced = sending.i - 1 /\ Produced' = sending.i
    BY <2>1 DEF Produced
  <2>3. \A m : /\ Count(log, m) \in Nat /\ Count(log', m) \in Nat
               /\ Count(log', m) <= Count(log, m) + (IF m = Current THEN 1 ELSE 0)
    <3> SUFFICES ASSUME NEW m
                 PROVE  /\ Count(log, m) \in Nat /\ Count(log', m) \in Nat
                        /\ Count(log', m) <= Count(log, m) + (IF m = Current THEN 1 ELSE 0)
      OBVIOUS
    <3>1. Count(log, m) \in Nat
      BY <1>0, PlacesFinite
    <3>2. CASE log' = log
      BY <3>1, <3>2
    <3>3. CASE log' = Append(log, Current)
      BY <1>0, <2>1, <3>1, <3>3, PlacesAppend
    <3>4. QED
      BY <2>1, <3>2, <3>3
  <2>4. Count(log, Current) <= sending.tries /\ Current = sending.flight[sending.i]
    <3>1. ~ (sending.i <= Produced)
      BY <2>1, <2>2
    <3>2. Count(log, sending.flight[sending.i]) <= sending.tries
      BY <1>0, <2>1, <3>1 DEF CopiesInv
    <3>3. QED
      BY <3>2 DEF Current
  <2>5. \A m \in Records : Count(log', m) <= MaxRetries + 1
    <3> SUFFICES ASSUME NEW m \in Records PROVE Count(log', m) <= MaxRetries + 1
      OBVIOUS
    <3>1. CASE m = Current
      BY <1>0, <2>3, <2>4, <3>1, ProducerAssumption
    <3>2. CASE m # Current
      <4>1. Count(log, m) <= MaxRetries + 1
        BY DEF CopiesInv
      <4>2. QED
        BY <2>3, <3>2, <4>1, ProducerAssumption
    <3>3. QED
      BY <3>1, <3>2
  <2>6. \A j \in 1 .. Len(sending'.flight) :
          Count(log', sending'.flight[j]) <= sending'.tries
                                             + (IF j <= Produced' THEN 1 ELSE 0)
    <3> SUFFICES ASSUME NEW j \in 1 .. Len(sending.flight)
                 PROVE  Count(log', sending.flight[j]) <= sending.tries
                                                          + (IF j <= Produced' THEN 1 ELSE 0)
      BY <2>1
    <3>1. Count(log, sending.flight[j]) <= sending.tries + (IF j <= Produced THEN 1 ELSE 0)
      BY DEF CopiesInv
    <3>2. CASE j = sending.i
      BY <1>0, <2>1, <2>2, <2>3, <2>4, <3>2
    <3>3. CASE j # sending.i
      <4>1. sending.flight[j] # Current
        BY <1>0, <2>1, <2>4, <3>3 DEF CopiesInv, Once
      <4>2. j <= Produced => j <= Produced'
        BY <2>1, <2>2
      <4>3. QED
        BY <1>0, <2>3, <3>1, <4>1, <4>2
    <3>4. QED
      BY <3>2, <3>3
  <2>7. QED
    BY <2>1, <2>5, <2>6 DEF CopiesInv
<1>5. CASE EndAttempt
  <2>1. UNCHANGED <<batch, log>>
    BY <1>5 DEF EndAttempt
  <2>2. CASE AttemptFailed
    BY <2>1, <2>2, CopiesAfterFailure
  <2>3. CASE Finish("ok")
    <3>1. sending'.flight = <<>> /\ Len(sending'.flight) = 0
      BY <2>3, NoSendFields DEF Finish
    <3>2. \A j \in 1 .. Len(sending'.flight) : FALSE
      BY <3>1
    <3>3. QED
      BY <2>1, <3>1, <3>2, OnceFacts DEF CopiesInv
  <2>4. QED
    BY <1>5, <2>2, <2>3 DEF EndAttempt
<1>6. CASE SendMessage
  <2>1. read + 1 \in Records /\ read + 1 \notin Queued
    BY <1>0, <1>6, ProducerAssumption DEF SendMessage, Records, Queued
  <2>2. read + 1 \notin Elements(batch) /\ read + 1 \notin Appended
    BY <1>0, <2>1 DEF Accounted
  <2>3. /\ Append(batch, read + 1) \in Seq(Records) /\ Once(Append(batch, read + 1))
        /\ \A j \in 1 .. Len(Append(batch, read + 1)) :
             Append(batch, read + 1)[j] \notin Appended
    <3>1. Append(batch, read + 1) \in Seq(Records) /\ Once(Append(batch, read + 1))
      BY <1>0, <2>1, <2>2, OnceFacts DEF CopiesInv
    <3>2. Elements(Append(batch, read + 1)) = Elements(batch) \union {read + 1}
      BY <1>0, <2>1, ElementsAppend
    <3>3. Elements(batch) \intersect Appended = {}
      BY <1>0 DEF Accounted
    <3>4. QED
      BY <2>2, <3>1, <3>2, <3>3, ElementsOf
  <2>4. UNCHANGED log
    BY <1>6 DEF SendMessage
  <2>5. CASE Begin("main", Append(batch, read + 1))
    BY <2>3, <2>4, <2>5, CopiesAtBegin
  <2>6. CASE batch' = Append(batch, read + 1) /\ UNCHANGED sending
    BY <2>3, <2>4, <2>6 DEF CopiesInv, Produced
  <2>7. CASE UNCHANGED <<batch, sending>>
    BY <1>1, <2>4, <2>7
  <2>8. QED
    BY <1>6, <2>5, <2>6, <2>7 DEF SendMessage
<1>7. CASE StartFlush \/ FlushReturns \/ Close \/ CloseReturns \/ Tick \/ StopTicker
  BY <1>1, <1>7 DEF StartFlush, FlushReturns, Close, CloseReturns, Tick, StopTicker
<1>8. CASE TickerFlush \/ Flush
  <2>1. UNCHANGED log
    BY <1>8 DEF TickerFlush, Flush
  <2>2. Once(batch)
    BY DEF CopiesInv
  <2>3. CASE Begin("ticker", batch) \/ Begin("flusher", batch)
    BY <1>0, <1>2, <2>1, <2>2, <2>3, CopiesAtBegin
  <2>4. CASE UNCHANGED <<batch, sending>>
    BY <1>1, <2>1, <2>4
  <2>5. QED
    BY <1>8, <2>3, <2>4 DEF TickerFlush, Flush
<1>9. CASE UNCHANGED vars
  BY <1>1, <1>9 DEF vars
<1>10. QED
  BY <1>3, <1>4, <1>5, <1>6, <1>7, <1>8, <1>9 DEF Next, Send, Shutdown

\* The log begins empty.
LEMMA InitCopies == Init => CopiesInv
<1> SUFFICES ASSUME Init PROVE CopiesInv
  OBVIOUS
<1>1. batch = <<>> /\ sending.flight = <<>> /\ log = <<>>
  BY NoSendFields DEF Init
<1>2. \A m : Count(log, m) = 0
  BY <1>1, NoPlace, ElementsEmpty
<1>3. Len(sending.flight) = 0 /\ \A j \in 1 .. Len(sending.flight) : FALSE
  BY <1>1
<1>4. QED
  BY <1>1, <1>2, <1>3, OnceFacts, ProducerAssumption DEF CopiesInv

\* The broker appends a record at most once for each attempt at its batch, whichever
\* goroutine sends it and whichever replies are lost.
THEOREM CopiesStayBounded == Spec => []CopiesBounded
<1>1. Init => ProducerInv /\ CopiesInv
  BY InitEstablishes, InitCopies
<1>2. (ProducerInv /\ CopiesInv) /\ [Next]_vars => (ProducerInv /\ CopiesInv)'
  BY TypeStep, AccountedStep, SendStep, FlushStep, CleanStep, CopiesStep DEF ProducerInv
<1>3. CopiesInv => CopiesBounded
  BY DEF CopiesInv, CopiesBounded, Count, Places
<1>4. QED
  BY <1>1, <1>2, <1>3, PTL DEF Spec
=============================================================================

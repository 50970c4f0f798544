------------------------------ MODULE Producer ------------------------------
(***************************************************************************)
(* The streaming producer (telemetry-streaming/pkg/producer/producer.go)   *)
(* as the streamer's main program uses it (cmd/telemetry-streamer/         *)
(* main.go): main queues records, a goroutine flushes the batch on a       *)
(* ticker, and at the end Flush starts a third goroutine.  The one that    *)
(* holds batchMu sends, with all its retries.                              *)
(*                                                                         *)
(* A record is its number.  The broker is the sequence of messages it      *)
(* appended, whatever their partition: ProduceMessage appends, or fails    *)
(* before or after appending (the reply is lost).  The breaker may refuse  *)
(* at any moment (module CircuitBreaker says when).                        *)
(*                                                                         *)
(* Left out: the choice of the partition, sizes in bytes, metrics.         *)
(***************************************************************************)
EXTENDS Naturals, Sequences, FiniteSets

CONSTANTS
  BatchSize,    \* config.BatchSize
  MaxRetries,   \* config.MaxRetries
  MaxRecords,   \* bound: records the CSV reader delivers
  MaxFaults     \* bound: failed calls, refusals and an exceeded Flush timeout

ASSUME ProducerAssumption ==
  /\ BatchSize \in Nat \ {0} /\ MaxRetries \in Nat \ {0}
  /\ MaxRecords \in Nat /\ MaxFaults \in Nat

VARIABLES
  batch,     \* p.batch
  batchMu,   \* who holds p.batchMu: "free", "main", "ticker" or "flusher"
  sending,   \* the send of the holder of batchMu, or NoSend
  main,      \* what main is doing
  ticker,    \* flushBatchLoop
  flusher,   \* the goroutine of Flush
  result,    \* what Flush returned
  done,      \* p.done is closed
  log,       \* messages the broker appended
  read,      \* records read so far; also the name of the last one
  refused,   \* records SendMessage returned an error for at once
  failed,    \* records of batches reported as failed
  faults

vars == <<batch, batchMu, sending, main, ticker, flusher, result, done,
          log, read, refused, failed, faults>>

Elements(q) == {q[i] : i \in 1 .. Len(q)}

NoSend == [at |-> "none", flight |-> <<>>, tries |-> 0, i |-> 0, failures |-> 0]

Fail  == faults < MaxFaults /\ faults' = faults + 1
Works == UNCHANGED faults

-----------------------------------------------------------------------------
(* Sending a batch.                                                        *)

\* Fault: the batch is sent and kept.
BeginKeeping(who, q) ==
  /\ batchMu' = who
  /\ sending' = [NoSend EXCEPT !.at = "attempt", !.flight = q]
  /\ batch'   = q

\* flushBatchLocked: q leaves the batch; who keeps batchMu until it is sent.
Begin(who, q) ==
  /\ batchMu' = who
  /\ sending' = [NoSend EXCEPT !.at = "attempt", !.flight = q]
  /\ batch'   = <<>>

\* The batch is sent or given up; Flush's goroutine passes the outcome on.
Finish(outcome) ==
  /\ batchMu' = "free"
  /\ sending' = NoSend
  /\ flusher' = IF batchMu = "flusher" THEN outcome ELSE flusher

\* Fault: one attempt too many.
AttemptFailedLate ==
  IF sending.tries <= MaxRetries
  THEN /\ sending' = [NoSend EXCEPT !.at = "attempt", !.flight = sending.flight,
                                    !.tries = sending.tries + 1]
       /\ UNCHANGED <<batchMu, flusher, failed>>
  ELSE Finish("error") /\ failed' = failed \union Elements(sending.flight)

\* sendBatchWithRetries: the whole batch is sent again, or reported as failed.
AttemptFailed ==
  IF sending.tries < MaxRetries
  THEN /\ sending' = [NoSend EXCEPT !.at = "attempt", !.flight = sending.flight,
                                    !.tries = sending.tries + 1]
       /\ UNCHANGED <<batchMu, flusher, failed>>
  ELSE Finish("error") /\ failed' = failed \union Elements(sending.flight)

\* sendBatch goes on to the first message unless the breaker refuses or the
\* topic cannot be created.
StartAttempt ==
  /\ sending.at = "attempt"
  /\ \/ /\ sending' = [sending EXCEPT !.at = "produce", !.i = 1]
        /\ UNCHANGED <<batchMu, flusher, failed>> /\ Works
     \/ AttemptFailed /\ Fail
  /\ UNCHANGED <<batch, main, ticker, result, done, log, read, refused>>

\* The message of the batch whose turn it is.
Current == sending.flight[sending.i]

\* Fault: the last message decides about the batch.
ProduceMessageLast ==
  /\ sending.at = "produce" /\ sending.i <= Len(sending.flight)
  /\ \/ log' = Append(log, Current) /\ Works /\ main # "closed"
        /\ sending' = [sending EXCEPT !.i = @ + 1, !.failures = 0]
     \/ UNCHANGED log /\ (IF main = "closed" THEN Works ELSE Fail)
        /\ sending' = [sending EXCEPT !.i = @ + 1, !.failures = 1]
  /\ UNCHANGED <<batch, batchMu, main, ticker, flusher, result, done, read,
                 refused, failed>>

\* One ProduceMessage call.  A failure is counted and the next message sent.
\* After Close the connection is closed and every call fails.
ProduceMessage ==
  /\ sending.at = "produce" /\ sending.i <= Len(sending.flight)
  /\ \/ /\ main # "closed"
        /\ log' = Append(log, Current) /\ Works
        /\ sending' = [sending EXCEPT !.i = @ + 1]
     \/ /\ \/ main # "closed" /\ Fail /\ log' \in {log, Append(log, Current)}
           \/ main = "closed" /\ Works /\ UNCHANGED log
        /\ sending' = [sending EXCEPT !.i = @ + 1, !.failures = @ + 1]
  /\ UNCHANGED <<batch, batchMu, main, ticker, flusher, result, done, read,
                 refused, failed>>

\* The attempt is over.
EndAttempt ==
  /\ sending.at = "produce" /\ sending.i > Len(sending.flight)
  /\ IF sending.failures > 0 THEN AttemptFailed
                             ELSE Finish("ok") /\ UNCHANGED failed
  /\ UNCHANGED <<batch, main, ticker, result, done, log, read, refused, faults>>

-----------------------------------------------------------------------------
(* main: records, then Flush, then Close.                                  *)

Streaming == main = "stream" /\ batchMu # "main"

\* SendMessage: the breaker refuses the record, or it joins the batch, which is
\* sent when it is full.
SendMessage ==
  LET q == Append(batch, read + 1) IN
  /\ Streaming /\ read < MaxRecords
  /\ read' = read + 1
  /\ \/ Fail /\ refused' = refused \union {read + 1}
        /\ UNCHANGED <<batch, batchMu, sending>>
     \/ /\ batchMu = "free" /\ Works /\ UNCHANGED refused
        /\ IF Len(q) >= BatchSize THEN Begin("main", q)
                                  ELSE batch' = q /\ UNCHANGED <<batchMu, sending>>
  /\ UNCHANGED <<main, ticker, flusher, result, done, log, failed>>

\* The file ends or a signal arrives: Flush starts its goroutine.
StartFlush ==
  /\ Streaming
  /\ main' = "flush" /\ flusher' = "lock"
  /\ UNCHANGED <<batch, batchMu, sending, ticker, result, done, log, read,
                 refused, failed, faults>>

\* Flush returns what its goroutine reports, or gives up waiting for it.
FlushReturns ==
  /\ main = "flush"
  /\ \/ flusher \in {"ok", "error"} /\ result' = flusher /\ Works
     \/ result' = "timeout" /\ Fail
  /\ main' = "close"
  /\ UNCHANGED <<batch, batchMu, sending, ticker, flusher, done, log, read,
                 refused, failed>>

\* Fault: Close keeps the batch locked while it waits for the loop.
CloseHolding ==
  /\ main = "close" /\ batchMu = "free"
  /\ batchMu' = "main" /\ done' = TRUE /\ main' = "wait"
  /\ UNCHANGED <<batch, sending, ticker, flusher, result, log, read, refused,
                 failed, faults>>

Close ==
  /\ main = "close"
  /\ done' = TRUE /\ main' = "wait"
  /\ UNCHANGED <<batch, batchMu, sending, ticker, flusher, result, log, read,
                 refused, failed, faults>>

\* p.wg.Wait() returns and the connection is closed, whatever Flush's goroutine
\* still does.
CloseReturns ==
  /\ main = "wait" /\ ticker = "stopped"
  /\ main' = "closed"
  /\ UNCHANGED <<batch, batchMu, sending, ticker, flusher, result, done, log, read,
                 refused, failed, faults>>

-----------------------------------------------------------------------------
(* The goroutines.                                                         *)

\* The loop waits in its select; it is not there while it sends.
Selecting == ticker = "select" /\ batchMu # "ticker"

\* flushBatchLoop: the ticker fires, or p.done is closed.
Tick ==
  /\ Selecting
  /\ ticker' = "lock"
  /\ UNCHANGED <<batch, batchMu, sending, main, flusher, result, done, log, read,
                 refused, failed, faults>>

StopTicker ==
  /\ Selecting /\ done
  /\ ticker' = "stopped"
  /\ UNCHANGED <<batch, batchMu, sending, main, flusher, result, done, log, read,
                 refused, failed, faults>>

\* Fault: only a full batch is worth sending.
TickerFlushFull ==
  /\ ticker = "lock" /\ batchMu = "free"
  /\ IF Len(batch) >= BatchSize
     THEN Begin("ticker", batch) ELSE UNCHANGED <<batch, batchMu, sending>>
  /\ ticker' = "select"
  /\ UNCHANGED <<main, flusher, result, done, log, read, refused, failed, faults>>

\* The loop gets batchMu and sends what is queued, before it selects again.
TickerFlush ==
  /\ ticker = "lock" /\ batchMu = "free"
  /\ IF batch # <<>>
     THEN Begin("ticker", batch) ELSE UNCHANGED <<batch, batchMu, sending>>
  /\ ticker' = "select"
  /\ UNCHANGED <<main, flusher, result, done, log, read, refused, failed, faults>>

\* Fault: an empty batch is noticed before batchMu is taken.
FlushUnlocked ==
  /\ flusher = "lock"
  /\ IF batch # <<>>
     THEN batchMu = "free" /\ Begin("flusher", batch) /\ flusher' = "send"
     ELSE flusher' = "ok" /\ UNCHANGED <<batch, batchMu, sending>>
  /\ UNCHANGED <<main, ticker, result, done, log, read, refused, failed, faults>>

\* Fault: with an empty batch the goroutine returns without unlocking.
FlushHolding ==
  /\ flusher = "lock" /\ batchMu = "free"
  /\ IF batch # <<>>
     THEN Begin("flusher", batch) /\ flusher' = "send"
     ELSE flusher' = "ok" /\ batchMu' = "flusher" /\ UNCHANGED <<batch, sending>>
  /\ UNCHANGED <<main, ticker, result, done, log, read, refused, failed, faults>>

\* Flush's goroutine gets batchMu.
Flush ==
  /\ flusher = "lock" /\ batchMu = "free"
  /\ IF batch # <<>>
     THEN Begin("flusher", batch) /\ flusher' = "send"
     ELSE flusher' = "ok" /\ UNCHANGED <<batch, batchMu, sending>>
  /\ UNCHANGED <<main, ticker, result, done, log, read, refused, failed, faults>>

-----------------------------------------------------------------------------
Init ==
  /\ batch = <<>> /\ batchMu = "free" /\ sending = NoSend
  /\ main = "stream" /\ ticker = "select" /\ flusher = "none"
  /\ result = "none" /\ done = FALSE
  /\ log = <<>> /\ read = 0 /\ refused = {} /\ failed = {} /\ faults = 0

Send     == StartAttempt \/ ProduceMessage \/ EndAttempt
Shutdown == FlushReturns \/ Close \/ CloseReturns

Next ==
  \/ Send \/ SendMessage \/ StartFlush \/ Shutdown
  \/ Tick \/ StopTicker \/ TickerFlush \/ Flush

Spec == Init /\ [][Next]_vars

-----------------------------------------------------------------------------
(* Properties.                                                             *)

Records  == 1 .. MaxRecords
Sendings == [at : {"none", "attempt", "produce"}, flight : Seq(Records),
             tries : 0 .. MaxRetries, i : 0 .. BatchSize + 1, failures : 0 .. BatchSize]

\* Every variable has its type, and batchMu is held exactly while a batch is
\* sent (TelemetryProducer).
TypeOK ==
  /\ batch \in Seq(Records) /\ Len(batch) < BatchSize
  /\ batchMu \in {"free", "main", "ticker", "flusher"}
  /\ sending \in Sendings
  /\ main \in {"stream", "flush", "close", "wait", "closed"}
  /\ ticker \in {"select", "lock", "stopped"}
  /\ flusher \in {"none", "lock", "send", "ok", "error"}
  /\ result \in {"none", "ok", "error", "timeout"}
  /\ done \in BOOLEAN
  /\ log \in Seq(Records) /\ read \in 0 .. MaxRecords
  /\ refused \subseteq Records /\ failed \subseteq Records
  /\ faults \in 0 .. MaxFaults
  /\ batchMu = "free" <=> sending = NoSend

Appended == Elements(log)
Queued   == (1 .. read) \ refused

\* Every record SendMessage took is in the batch, being sent, appended by the
\* broker, or reported as failed, whichever of the three goroutines sends it and
\* whatever call fails; one in the batch has not been sent yet.
Accounted ==
  /\ Queued = Elements(batch) \union Elements(sending.flight) \union Appended \union failed
  /\ Elements(batch) \intersect
       (Elements(sending.flight) \union Appended \union failed) = {}

\* As long as nothing fails the broker appends the records once each, in the
\* order they were read, although two goroutines send them (batchMu).
CleanRunInOrder == faults = 0 => log = [i \in 1 .. Len(log) |-> i]

\* The broker appends a record at most once per attempt (sendBatchWithRetries).
CopiesBounded ==
  \A m \in Records :
    Cardinality({i \in 1 .. Len(log) : log[i] = m}) <= MaxRetries + 1

\* When Flush returns without an error, no record is left in the batch or on its
\* way: each has been appended or reported as failed, also the ones the loop was
\* sending (Flush against flushBatchLoop).
FlushedIsSettled ==
  result = "ok" => batchMu = "free" /\ Queued = Appended \union failed

\* A record that was queued does not wait for others: it is appended or reported
\* in the end, or main has closed the producer (flushBatchLoop's ticker).
QueuedSettles ==
  \A m \in Records :
    (m \in Elements(batch)) ~> (m \in Appended \union failed \/ main = "closed")

\* Shutdown ends, also when Flush timed out and its goroutine or the loop is still
\* sending (Close).
ShutdownEnds == (main = "flush") ~> (main = "closed")
=============================================================================

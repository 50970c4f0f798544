------------------------------ MODULE Collector ------------------------------
(***************************************************************************)
(* The telemetry collector (telemetry-collector/pkg/collector/             *)
(* collector.go, with the retries of pkg/tsdb/writer.go): one goroutine    *)
(* collects in rounds, fills a batch and sends it; another, main, calls    *)
(* Close.  They share the batch under batchMu.                             *)
(*                                                                         *)
(* A source's records are numbered as they are collected; what the broker  *)
(* source reads and commits is in module Delivery.  Only the collecting    *)
(* goroutine ever asks the circuit breaker (Close stops before it would),  *)
(* so IsOpen is one step here; callers that race are in CircuitBreaker.    *)
(*                                                                         *)
(* Left out: records that cannot be marshalled (all are decoded JSON or    *)
(* literals), a cancelled context (main cancels it after Close), metrics   *)
(* but the counters below, batchTimer and batchTimeout, which nothing uses.*)
(***************************************************************************)
EXTENDS Naturals, Sequences, FiniteSets

CONSTANTS
  Sources,           \* registered sources
  BatchSize,         \* tc.batchSize
  MaxRetries,        \* tc.maxRetries
  WriteRetries,      \* MaxRetries of the TSDB writer
  FailureThreshold,  \* of the breaker, 10 in the code
  SuccessThreshold,  \* of the breaker, 5 in the code
  MaxList,           \* bound: records a source returns at once
  MaxRecords         \* bound: records collected

ASSUME CollectorAssumption ==
  /\ BatchSize \in Nat \ {0}
  /\ MaxRetries \in Nat /\ WriteRetries \in Nat
  /\ FailureThreshold \in Nat \ {0} /\ SuccessThreshold \in Nat \ {0}
  /\ MaxList \in Nat /\ MaxRecords \in Nat

VARIABLES
  batch,      \* tc.batch
  batchMu,    \* who holds tc.batchMu
  done,       \* tc.done is closed
  breaker,    \* tc.circuitBreaker
  loop,       \* the collecting goroutine
  closer,     \* what main is doing
  collected,  \* records collected; also the name of the last one
  sent,       \* records of batches sent
  dropped,    \* records of batches given up
  sentCount, totalWritten, totalFailed

results == <<sent, dropped, sentCount>>
writes  == <<totalWritten, totalFailed>>
vars == <<batch, batchMu, done, breaker, loop, closer, collected,
          sent, dropped, sentCount, totalWritten, totalFailed>>

Elements(q) == {q[i] : i \in 1 .. Len(q)}

\* The goroutine between two rounds.
Waiting == [at |-> "wait", todo |-> {}, records |-> 0, tries |-> 0, flight |-> <<>>]

-----------------------------------------------------------------------------
(* The breaker.  Failures are counted up to the threshold they are         *)
(* compared with.                                                          *)

\* IsOpen returns true: the breaker is open and resetTimeout is not over.
Refused == breaker.state = "open" /\ UNCHANGED breaker

\* IsOpen returns false; the first time after resetTimeout starts a trial.
Allowed ==
  breaker' = IF breaker.state = "open"
             THEN [breaker EXCEPT !.state = "half-open", !.successes = 0]
             ELSE breaker

RecordFailure ==
  LET n == IF breaker.failures < FailureThreshold
           THEN breaker.failures + 1 ELSE breaker.failures IN
  breaker' = [breaker EXCEPT !.failures = n,
                !.state = IF n >= FailureThreshold /\ @ = "closed" THEN "open" ELSE @]

RecordSuccess ==
  LET n == breaker.successes + 1 IN
  breaker' = IF breaker.state # "half-open"   THEN breaker
             ELSE IF n >= SuccessThreshold
             THEN [state |-> "closed", failures |-> 0, successes |-> n]
             ELSE [breaker EXCEPT !.successes = n]

-----------------------------------------------------------------------------
(* The collecting goroutine.                                               *)

GoTo(stage) == loop' = [loop EXCEPT !.at = stage]

AfterSource(todo) == IF todo = {} THEN "wait" ELSE "source"
AfterRecord(n)    == IF n = 0 THEN "end" ELSE "append"

\* The ticker fires.  A round is skipped while the breaker is open.
Tick ==
  /\ loop.at = "wait"
  /\ \/ Refused /\ UNCHANGED loop
     \/ Allowed /\ loop' = [loop EXCEPT !.at = AfterSource(Sources), !.todo = Sources]
  /\ UNCHANGED <<batch, batchMu, done, closer, collected, results, writes>>

\* The sources are asked in the order Go's map iteration gives.
CallSource(s) ==
  LET rest == loop.todo \ {s} IN
  /\ loop.at = "source" /\ s \in loop.todo
  /\ \/ RecordFailure /\ loop' = [loop EXCEPT !.at = AfterSource(rest), !.todo = rest]
     \/ \E n \in 0 .. MaxList :
          /\ collected + n <= MaxRecords
          /\ loop' = [loop EXCEPT !.at = AfterRecord(n), !.todo = rest, !.records = n]
          /\ UNCHANGED breaker
  /\ UNCHANGED <<batch, batchMu, done, closer, collected, results, writes>>

\* A record joins the batch; batchMu stays locked for the write that follows.
AppendRecord ==
  /\ loop.at = "append" /\ batchMu = "free"
  /\ batchMu'   = "loop"
  /\ collected' = collected + 1
  /\ batch'     = Append(batch, collected + 1)
  /\ loop'      = [loop EXCEPT !.at = "write", !.tries = 0]
  /\ UNCHANGED <<done, breaker, closer, results, writes>>

\* Fault: the batch is sent when it is over its size.
WriteMetricOver ==
  /\ loop.at = "write"
  /\ totalWritten' = totalWritten + 1 /\ UNCHANGED totalFailed
  /\ batchMu' = "free"
  /\ loop' = [loop EXCEPT !.records = @ - 1, !.tries = 0,
       !.at = IF Len(batch) > BatchSize THEN "take" ELSE AfterRecord(loop.records - 1)]
  /\ UNCHANGED <<batch, done, breaker, closer, collected, results>>

\* Fault: flushBatch is called before batchMu is released.
WriteMetricHolding ==
  /\ loop.at = "write"
  /\ totalWritten' = totalWritten + 1 /\ UNCHANGED totalFailed
  /\ batchMu' = IF Len(batch) >= BatchSize THEN batchMu ELSE "free"
  /\ loop' = [loop EXCEPT !.records = @ - 1, !.tries = 0,
       !.at = IF Len(batch) >= BatchSize THEN "take" ELSE AfterRecord(loop.records - 1)]
  /\ UNCHANGED <<batch, done, breaker, closer, collected, results>>

\* One attempt to write the record, or the end of the last one; an error is
\* logged.  Then batchMu is released.
WriteMetric ==
  /\ loop.at = "write"
  /\ \/ /\ loop.tries < WriteRetries
        /\ loop' = [loop EXCEPT !.tries = @ + 1]
        /\ UNCHANGED <<batchMu, writes>>
     \/ /\ \/ /\ loop.tries < WriteRetries
              /\ totalWritten' = totalWritten + 1 /\ UNCHANGED totalFailed
           \/ /\ loop.tries = WriteRetries
              /\ totalFailed' = totalFailed + 1 /\ UNCHANGED totalWritten
        /\ batchMu' = "free"
        /\ loop' = [loop EXCEPT !.records = @ - 1, !.tries = 0,
             !.at = IF Len(batch) >= BatchSize THEN "take"
                                               ELSE AfterRecord(loop.records - 1)]
  /\ UNCHANGED <<batch, done, breaker, closer, collected, results>>

\* Fault: the batch is sent and kept.
TakeBatchKeeping ==
  /\ loop.at = "take" /\ batchMu = "free"
  /\ loop' = [loop EXCEPT !.at = "send", !.flight = batch]
  /\ UNCHANGED <<batch, batchMu, done, breaker, closer, collected, results, writes>>

\* flushBatch takes the batch out under batchMu.
TakeBatch ==
  /\ loop.at = "take" /\ batchMu = "free"
  /\ loop'  = [loop EXCEPT !.at = "send", !.flight = batch]
  /\ batch' = <<>>
  /\ UNCHANGED <<batchMu, done, breaker, closer, collected, results, writes>>

\* Fault: the send that starts the trial of an open breaker is refused too.
SendBatchRefusingTrial ==
  /\ loop.at = "send"
  /\ \/ /\ breaker.state = "open" /\ (Allowed \/ Refused)
        /\ loop' = [loop EXCEPT !.tries = @ + 1,
                      !.at = IF loop.tries < MaxRetries THEN "send" ELSE "giveUp"]
        /\ UNCHANGED results
     \/ /\ breaker.state # "open" /\ Allowed
        /\ sent' = sent \union Elements(loop.flight)
        /\ sentCount' = sentCount + Len(loop.flight)
        /\ GoTo("sent") /\ UNCHANGED dropped
  /\ UNCHANGED <<batch, batchMu, done, closer, collected, writes>>

\* One attempt of flushBatch: sendBatch fails when the breaker refuses it.
SendBatch ==
  /\ loop.at = "send"
  /\ \/ /\ Refused
        /\ loop' = [loop EXCEPT !.tries = @ + 1,
                      !.at = IF loop.tries < MaxRetries THEN "send" ELSE "giveUp"]
        /\ UNCHANGED results
     \/ /\ Allowed
        /\ sent' = sent \union Elements(loop.flight)
        /\ sentCount' = sentCount + Len(loop.flight)
        /\ GoTo("sent") /\ UNCHANGED dropped
  /\ UNCHANGED <<batch, batchMu, done, closer, collected, writes>>

AfterFlush ==
  loop' = [loop EXCEPT !.at = AfterRecord(loop.records), !.tries = 0, !.flight = <<>>]

BatchSent ==
  /\ loop.at = "sent"
  /\ RecordSuccess /\ AfterFlush
  /\ UNCHANGED <<batch, batchMu, done, closer, collected, results, writes>>

\* Fault: the batch is put back and sent again.
GiveUpRequeueing ==
  /\ loop.at = "giveUp" /\ batchMu = "free"
  /\ RecordFailure
  /\ batch' = loop.flight \o batch
  /\ loop' = [loop EXCEPT !.at = "take", !.tries = 0, !.flight = <<>>]
  /\ UNCHANGED <<batchMu, done, closer, collected, results, writes>>

\* The batch is lost; collectAndSend ignores flushBatch's error.
GiveUp ==
  /\ loop.at = "giveUp"
  /\ RecordFailure /\ AfterFlush
  /\ dropped' = dropped \union Elements(loop.flight)
  /\ UNCHANGED <<batch, batchMu, done, closer, collected, sent, sentCount, writes>>

\* A source that answered counts as a success, whatever became of its records.
EndSource ==
  /\ loop.at = "end"
  /\ RecordSuccess
  /\ GoTo(AfterSource(loop.todo))
  /\ UNCHANGED <<batch, batchMu, done, closer, collected, results, writes>>

\* Fault: the loop looks at tc.done only when it has nothing to send.
StopWhenSent ==
  /\ loop.at = "wait" /\ done /\ batch = <<>>
  /\ GoTo("stopped")
  /\ UNCHANGED <<batch, batchMu, done, breaker, closer, collected, results, writes>>

\* The loop sees tc.done between two rounds; select prefers neither channel.
Stop ==
  /\ loop.at = "wait" /\ done
  /\ GoTo("stopped")
  /\ UNCHANGED <<batch, batchMu, done, breaker, closer, collected, results, writes>>

-----------------------------------------------------------------------------
(* main calls Close once.                                                  *)

Close ==
  /\ closer = "running"
  /\ done' = TRUE
  /\ closer' = "lock"
  /\ UNCHANGED <<batch, batchMu, breaker, loop, collected, results, writes>>

\* Close locks batchMu to look at the batch.  It calls flushBatch with the lock
\* held: flushBatch locks it too and waits for ever, a step that never comes.
FinalFlush ==
  /\ closer = "lock" /\ batchMu = "free"
  /\ IF batch = <<>> THEN closer' = "wait"  /\ UNCHANGED batchMu
                     ELSE closer' = "flush" /\ batchMu' = "closer"
  /\ UNCHANGED <<batch, done, breaker, loop, collected, results, writes>>

\* tc.wg.Wait() returns.
Closed ==
  /\ closer = "wait" /\ loop.at = "stopped"
  /\ closer' = "closed"
  /\ UNCHANGED <<batch, batchMu, done, breaker, loop, collected, results, writes>>

-----------------------------------------------------------------------------
Init ==
  /\ batch = <<>> /\ batchMu = "free" /\ done = FALSE
  /\ breaker = [state |-> "closed", failures |-> 0, successes |-> 0]
  /\ loop = Waiting
  /\ closer = "running"
  /\ collected = 0 /\ sent = {} /\ dropped = {}
  /\ sentCount = 0 /\ totalWritten = 0 /\ totalFailed = 0

Round ==
  \/ Tick \/ (\E s \in Sources : CallSource(s)) \/ AppendRecord \/ WriteMetric
  \/ TakeBatch \/ SendBatch \/ BatchSent \/ GiveUp \/ EndSource

Main == Close \/ FinalFlush \/ Closed

Next == Round \/ Stop \/ Main

Spec == Init /\ [][Next]_vars

\* The goroutines run; select takes tc.done in the end, a waiting Close gets the
\* mutex in the end.  Nothing makes main call Close.
FairSpec ==
  /\ Spec
  /\ WF_vars(Round) /\ SF_vars(Stop)
  /\ SF_vars(FinalFlush) /\ WF_vars(Closed)
-----------------------------------------------------------------------------
(* Properties.                                                             *)

Records  == 1 .. MaxRecords
Stages   == {"wait", "source", "append", "write", "take", "send", "sent", "giveUp",
             "end", "stopped"}
Breakers == [state : {"closed", "open", "half-open"},
             failures : 0 .. FailureThreshold, successes : 0 .. SuccessThreshold]
Rounds   == [at : Stages, todo : SUBSET Sources, records : 0 .. MaxList,
             tries : Nat, flight : Seq(Records)]

\* Every variable has its type, and the batch is locked exactly while a record
\* is written or Close flushes (TelemetryCollector).
TypeOK ==
  /\ batch \in Seq(Records)
  /\ batchMu \in {"free", "loop", "closer"}
  /\ done \in BOOLEAN
  /\ breaker \in Breakers /\ loop \in Rounds
  /\ closer \in {"running", "lock", "flush", "wait", "closed"}
  /\ collected \in 0 .. MaxRecords
  /\ sent \subseteq Records /\ dropped \subseteq Records
  /\ sentCount \in Nat /\ totalWritten \in Nat /\ totalFailed \in Nat
  /\ batchMu = "loop" <=> loop.at = "write"

\* Where the records of a batch under way are counted already.
InFlight == IF loop.at = "sent" THEN {} ELSE Elements(loop.flight)

\* Every record collected is in exactly one place: the batch, the batch being
\* sent, sent, or given up; sentCount counts the sent ones, each once
\* (flushBatch's hand-over under batchMu).
Accounted ==
  LET inBatch == Elements(batch) IN
  /\ 1 .. collected = inBatch \union InFlight \union sent \union dropped
  /\ Len(batch) = Cardinality(inBatch)
  /\ inBatch \intersect (InFlight \union sent \union dropped) = {}
  /\ InFlight \intersect (sent \union dropped) = {}
  /\ sent \intersect dropped = {}
  /\ sentCount = Cardinality(sent)

\* The batch never grows past its size, and a full batch does not outlast the
\* round that filled it, whatever fails in between (shouldFlush).
BatchBounded ==
  /\ Len(batch) <= BatchSize
  /\ loop.at \in {"wait", "source", "stopped"} => Len(batch) < BatchSize

\* Records are given up only behind an open breaker: a batch is never dropped
\* while the breaker would let it through (flushBatch, sendBatch).
DroppedWhileOpen == [][dropped' # dropped => breaker.state = "open"]_vars

\* A round ends, whatever its sources and writes do and however often a send is
\* refused, unless Close holds the batch.
RoundsEnd ==
  (loop.at # "wait") ~> (loop.at \in {"wait", "stopped"} \/ closer = "flush")

\* Close returns if it finds no batch to flush, also when the loop is in the
\* middle of a round (tc.done, tc.wg).
QuietCloseReturns == (closer = "wait") ~> (closer = "closed")

\* telemetry-collector/CONFIGURATION.md:141, of the shutdown period: "Final batch
\* is flushed during this period": Close returns.
CloseReturns == (closer # "running") ~> (closer = "closed")

\* The loop and Close end: a round always, and Close if it has nothing to flush.
LoopEnds == RoundsEnd /\ QuietCloseReturns
=============================================================================

--------------------------- MODULE CircuitBreaker ---------------------------
(***************************************************************************)
(* The circuit breaker of the collector (telemetry-collector/pkg/          *)
(* collector/collector.go) and of the streaming producer, a copy           *)
(* (telemetry-streaming/pkg/producer/producer.go).                         *)
(*                                                                         *)
(* RecordSuccess and RecordFailure hold cb.mu.  IsOpen reads the state     *)
(* under the read lock and, to move to half-open, releases it before it    *)
(* takes the write lock: between the two other callers run.                *)
(*                                                                         *)
(* Left out: the copy of the producer also clears successCount when it     *)
(* closes, which no operation can see: entering half-open clears it too.   *)
(***************************************************************************)
EXTENDS Naturals

CONSTANTS
  Callers,           \* goroutines that use the breaker
  FailureThreshold,  \* failureThreshold, 10 in the code
  SuccessThreshold,  \* successes that close a half-open breaker, 5 in the code
  MaxFailures        \* bound: failures counted

ASSUME BreakerAssumption ==
  /\ FailureThreshold \in Nat \ {0}
  /\ SuccessThreshold \in Nat \ {0}
  /\ MaxFailures \in Nat

VARIABLES
  state,         \* cb.state
  failures,      \* cb.failures
  successCount,  \* cb.successCount
  elapsed,       \* resetTimeout has passed since lastFailureTime
  pc,            \* what each caller is doing
  trial          \* ghost: successes since the breaker left "open"

breakerVars == <<state, failures, successCount, elapsed, pc, trial>>

\* Time passes.
Elapse ==
  /\ ~elapsed
  /\ elapsed' = TRUE
  /\ UNCHANGED <<state, failures, successCount, pc, trial>>

\* Fault: the caller that finds the timeout passed is not let through.
IsOpenStrict(c) ==
  /\ state # "open" /\ pc[c] = "out"
  /\ pc' = [pc EXCEPT ![c] = "allowed"]
  /\ UNCHANGED <<state, failures, successCount, elapsed, trial>>

\* IsOpen under the read lock: a caller is let through, or goes on to the write
\* lock when the timeout has passed.  Senders ask again in the middle of their
\* operation (sendBatch).
IsOpen(c) ==
  /\ \/ /\ state # "open" /\ pc[c] = "out"
        /\ pc' = [pc EXCEPT ![c] = "allowed"]
     \/ /\ state = "open" /\ elapsed /\ pc[c] # "upgrade"
        /\ pc' = [pc EXCEPT ![c] = "upgrade"]
  /\ UNCHANGED <<state, failures, successCount, elapsed, trial>>

\* An operation that was let through ends; before, it records any number of
\* outcomes (collectAndSend: one per source and per batch).
EndOperation(c) ==
  /\ pc[c] = "allowed"
  /\ pc' = [pc EXCEPT ![c] = "out"]
  /\ UNCHANGED <<state, failures, successCount, elapsed, trial>>

\* Fault: the successes of an earlier trial still count.
HalfOpenKeepingCount(c) ==
  /\ pc[c] = "upgrade"
  /\ state' = "half-open"
  /\ trial' = 0
  /\ pc' = [pc EXCEPT ![c] = "allowed"]
  /\ UNCHANGED <<failures, successCount, elapsed>>

\* IsOpen under the write lock, whatever happened since the read.
HalfOpen(c) ==
  /\ pc[c] = "upgrade"
  /\ state' = "half-open"
  /\ successCount' = 0
  /\ trial' = 0
  /\ pc' = [pc EXCEPT ![c] = "allowed"]
  /\ UNCHANGED <<failures, elapsed>>

\* A failure counts in every state and opens a closed breaker only.
RecordFailure(c) ==
  /\ pc[c] = "allowed"
  /\ failures < MaxFailures
  /\ failures' = failures + 1
  /\ elapsed' = FALSE
  /\ state' = IF failures + 1 >= FailureThreshold /\ state = "closed"
              THEN "open" ELSE state
  /\ UNCHANGED <<successCount, pc, trial>>

\* Fault: the failures are kept when the breaker closes.
RecordSuccessKeepingFailures(c) ==
  /\ pc[c] = "allowed"
  /\ IF state = "half-open"
     THEN /\ successCount' = successCount + 1
          /\ trial' = trial + 1
          /\ state' = IF successCount + 1 >= SuccessThreshold THEN "closed" ELSE state
     ELSE UNCHANGED <<state, successCount, trial>>
  /\ UNCHANGED <<failures, elapsed, pc>>

\* Fault: the test for enough successes is off by one.
RecordSuccessLate(c) ==
  /\ pc[c] = "allowed"
  /\ IF state # "half-open"
     THEN UNCHANGED <<state, failures, successCount, trial>>
     ELSE /\ successCount' = successCount + 1
          /\ trial' = trial + 1
          /\ IF successCount >= SuccessThreshold
             THEN state' = "closed" /\ failures' = 0
             ELSE UNCHANGED <<state, failures>>
  /\ UNCHANGED <<elapsed, pc>>

\* Successes count in the half-open state; enough of them close the breaker.
RecordSuccess(c) ==
  /\ pc[c] = "allowed"
  /\ IF state # "half-open"
     THEN UNCHANGED <<state, failures, successCount, trial>>
     ELSE /\ successCount' = successCount + 1
          /\ trial' = trial + 1
          /\ IF successCount + 1 >= SuccessThreshold
             THEN state' = "closed" /\ failures' = 0
             ELSE UNCHANGED <<state, failures>>
  /\ UNCHANGED <<elapsed, pc>>

-----------------------------------------------------------------------------
BreakerInit ==
  /\ state = "closed" /\ failures = 0 /\ successCount = 0
  /\ elapsed = TRUE
  /\ pc = [c \in Callers |-> "out"]
  /\ trial = 0

Caller(c) ==
  IsOpen(c) \/ HalfOpen(c) \/ RecordFailure(c) \/ RecordSuccess(c) \/ EndOperation(c)

BreakerNext == Elapse \/ \E c \in Callers : Caller(c)

BreakerSpec == BreakerInit /\ [][BreakerNext]_breakerVars

-----------------------------------------------------------------------------
(* Properties.                                                             *)

\* Every variable has its type (CircuitBreaker), and a half-open breaker has
\* not yet counted the successes that close it.
BreakerTypeOK ==
  /\ state \in {"closed", "open", "half-open"}
  /\ failures \in 0 .. MaxFailures
  /\ successCount \in 0 .. SuccessThreshold
  /\ elapsed \in BOOLEAN
  /\ pc \in [Callers -> {"out", "upgrade", "allowed"}]
  /\ trial \in Nat
  /\ state = "half-open" => successCount < SuccessThreshold

\* The breaker is open only after enough failures and closed only before, also
\* when a late caller of IsOpen reopens the trial of a breaker that closed
\* meanwhile (RecordFailure, RecordSuccess, the unlocked step of IsOpen).
OpenAfterThreshold ==
  /\ state = "open"   => failures >= FailureThreshold
  /\ state = "closed" => failures < FailureThreshold

\* Enough successes in a row of the same trial close the breaker: no success
\* counts twice and none of an earlier trial counts, whichever callers race into
\* the half-open state (successCount).
ClosingTakesSuccesses ==
  state = "half-open" /\ state' = "closed" => trial' = SuccessThreshold

\* An open breaker lets a caller through in the end, although operations that
\* were under way when it opened go on reporting failures, each of which starts
\* the timeout anew (lastFailureTime).
OpenEnds == (state = "open") ~> (state # "open")

\* The state follows from the reports: open only after enough failures, closed again
\* only after enough successes of one trial, whoever races in IsOpen.
BreakerSound == [][OpenAfterThreshold' /\ ClosingTakesSuccesses]_breakerVars
=============================================================================

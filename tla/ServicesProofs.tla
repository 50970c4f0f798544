---------------------------- MODULE ServicesProofs ----------------------------
(***************************************************************************)
(* Proofs about the parts of the telemetry services, for every value of    *)
(* their constants: any number of callers, thresholds and calls, every set *)
(* of records and rows, every number in the environment.                   *)
(*                                                                         *)
(*   BreakerTypeCorrect   the type invariant of the breaker                *)
(*   OpenMeansFailures    open only after enough failures, closed only     *)
(*                        before                                           *)
(*   BreakerIsSound       and a trial closes it by its own successes       *)
(*   ProgramsStaySound    programs run with values they can run with, and  *)
(*                        end without cutting off what they serve          *)
(*   PointsStaySound      a record lands at its instant, and on itself     *)
(*   PagesStaySound       pages miss nothing and make up nothing           *)
(*   StreamKeepsDelivering  copies of a record, the whole file read, the   *)
(*                        partition a record belongs to                    *)
(*   ServicesTypesHold    the types of all parts                           *)
(*                                                                         *)
(* Each part has an inductive invariant of its own (BreakerInv, StreamInv, *)
(* ChoiceInv, LifeInv, ConfigInv, PointsInv, PagesInv, and LifeTypes for   *)
(* the types of the programs); a step of the services is a step of one     *)
(* part that leaves the others alone.                                      *)
(***************************************************************************)
EXTENDS TelemetryServices, ProducerProofs, OrderedSets

-----------------------------------------------------------------------------
(* The breaker.                                                            *)

\* A trial has counted the successes recorded in it, no more and no fewer.
TrialCounted == state = "half-open" => trial = successCount

\* The inductive invariant.
BreakerInv == BreakerTypeOK /\ OpenAfterThreshold /\ TrialCounted

\* A new breaker satisfies the invariant.
LEMMA InitBreakerInv == BreakerInit => BreakerInv
BY BreakerAssumption DEF BreakerInit, BreakerInv, BreakerTypeOK, OpenAfterThreshold, TrialCounted

\* Every step of a caller, and time, keeps it.
LEMMA NextBreakerInv == BreakerInv /\ [BreakerNext]_breakerVars => BreakerInv'
<1> SUFFICES ASSUME BreakerInv, [BreakerNext]_breakerVars
             PROVE  BreakerInv'
  OBVIOUS
<1> USE BreakerAssumption DEF BreakerInv, BreakerTypeOK, OpenAfterThreshold, TrialCounted
<1>1. CASE Elapse
  BY <1>1 DEF Elapse
<1>2. ASSUME NEW c \in Callers, IsOpen(c)
      PROVE  BreakerInv'
  BY <1>2 DEF IsOpen
<1>3. ASSUME NEW c \in Callers, HalfOpen(c)
      PROVE  BreakerInv'
  BY <1>3 DEF HalfOpen
<1>4. ASSUME NEW c \in Callers, RecordFailure(c)
      PROVE  BreakerInv'
  <2>1. elapsed' \in BOOLEAN
    <3>1. elapsed' = FALSE
      BY <1>4 DEF RecordFailure
    <3>2. QED
      BY <3>1, Zenon
  <2>2. /\ failures' \in 1 .. MaxFailures
        /\ state' \in {"closed", "open", "half-open"}
        /\ state' = "half-open" <=> state = "half-open"
        /\ state' = "open" => failures' >= FailureThreshold
        /\ state' = "closed" => failures' < FailureThreshold
    BY <1>4 DEF RecordFailure
  <2>3. UNCHANGED <<successCount, pc, trial>>
    BY <1>4 DEF RecordFailure
  <2>4. QED
    BY <2>1, <2>2, <2>3
<1>5. ASSUME NEW c \in Callers, RecordSuccess(c)
      PROVE  BreakerInv'
  <2>1. CASE state # "half-open"
    BY <1>5, <2>1 DEF RecordSuccess
  <2>2. CASE state = "half-open" /\ successCount + 1 >= SuccessThreshold
    BY <1>5, <2>2 DEF RecordSuccess
  <2>3. CASE state = "half-open" /\ successCount + 1 < SuccessThreshold
    BY <1>5, <2>3 DEF RecordSuccess
  <2>4. QED
    BY <2>1, <2>2, <2>3
<1>6. ASSUME NEW c \in Callers, EndOperation(c)
      PROVE  BreakerInv'
  BY <1>6 DEF EndOperation
<1>7. CASE UNCHANGED breakerVars
  BY <1>7 DEF breakerVars
<1>8. QED
  BY <1>1, <1>2, <1>3, <1>4, <1>5, <1>6, <1>7 DEF BreakerNext, Caller

\* The step that closes the breaker is the success that completes the trial.
LEMMA StepCloses ==
  ASSUME BreakerInv, [BreakerNext]_breakerVars, state = "half-open", state' = "closed"
  PROVE  trial' = SuccessThreshold
<1> USE BreakerAssumption DEF BreakerInv, BreakerTypeOK, TrialCounted
<1>1. ASSUME NEW c \in Callers, RecordSuccess(c)
      PROVE  trial' = SuccessThreshold
  BY <1>1 DEF RecordSuccess
<1>2. ASSUME NEW c \in Callers,
             IsOpen(c) \/ HalfOpen(c) \/ RecordFailure(c) \/ EndOperation(c)
      PROVE  FALSE
  BY <1>2 DEF IsOpen, HalfOpen, RecordFailure, EndOperation
<1>3. ~ Elapse /\ ~ UNCHANGED breakerVars
  BY DEF Elapse, breakerVars
<1>4. QED
  BY <1>1, <1>2, <1>3 DEF BreakerNext, Caller

\* The inductive invariant holds in every reachable state.
THEOREM BreakerInvariant == BreakerSpec => []BreakerInv
BY InitBreakerInv, NextBreakerInv, PTL DEF BreakerSpec

\* The breaker's fields keep their types and a trial ends when its successes
\* suffice (CircuitBreaker, RecordSuccess).
THEOREM BreakerTypeCorrect == BreakerSpec => []BreakerTypeOK
<1>1. BreakerInv => BreakerTypeOK
  BY DEF BreakerInv
<1>2. QED
  BY <1>1, BreakerInvariant, PTL

\* However callers race into the half-open state, an open breaker has counted
\* enough failures and a closed one has not (RecordFailure, RecordSuccess).
THEOREM OpenMeansFailures == BreakerSpec => []OpenAfterThreshold
<1>1. BreakerInv => OpenAfterThreshold
  BY DEF BreakerInv
<1>2. QED
  BY <1>1, BreakerInvariant, PTL

\* Every step leads to a breaker that is open only after enough failures and closed
\* only before, and a half-open breaker closes by SuccessThreshold successes of the
\* same trial (successCount is cleared whenever the half-open state is entered).
THEOREM BreakerIsSound == BreakerSpec => BreakerSound
<1>1. BreakerInv /\ BreakerInv' /\ [BreakerNext]_breakerVars =>
        [OpenAfterThreshold' /\ ClosingTakesSuccesses]_breakerVars
  BY StepCloses DEF BreakerInv, ClosingTakesSuccesses
<1>2. QED
  BY <1>1, BreakerInvariant, PTL DEF BreakerSpec, BreakerSound

-----------------------------------------------------------------------------
(* Lifecycle.                                                              *)

\* The server of a main that leaves takes no calls, and none runs unless the 30
\* seconds are over, which only Shutdown finds out; the API's database is closed
\* after that.
LifeInv ==
  /\ service \in {"broker", "collector", "api"}
  /\ call \in [Calls -> {"unsent", "running", "answered", "failed", "cut"}]
  /\ overdue => stage \in {"defers", "returns"} \union Over
  /\ stage \in {"deregister", "defers", "returns"} =>
       listener = "closed" /\ (Running = {} \/ overdue)
  /\ service = "api" /\ influx = "closed" => stage \in {"returns"} \union Over
  /\ \A c \in Calls : call[c] = "cut" =>
       /\ stage \in Over
       /\ stage \in {"killed", "fatal"} \/ overdue \/ service = "collector"
  /\ \A c \in Calls : call[c] = "failed" => overdue

\* A main that begins has taken no call.
LEMMA InitLifeInv == LifecycleInit => LifeInv
BY DEF LifecycleInit, LifeInv, Over

\* What EndAs does to the calls: those that run are cut, and only those.
LEMMA EndAsCuts ==
  ASSUME NEW how \in Over, LifeInv, EndAs(how), UNCHANGED <<service, listener, influx, overdue>>,
         stage \notin Over,
         how \in {"killed", "fatal"} \/ Running = {} \/ overdue \/ service = "collector"
  PROVE  LifeInv'
<1>1. /\ stage' = how /\ call \in [Calls -> {"unsent", "running", "answered", "failed", "cut"}]
      /\ call' = [c \in Calls |-> IF call[c] = "running" THEN "cut" ELSE call[c]]
  BY DEF LifeInv, EndAs
<1>2. call' \in [Calls -> {"unsent", "running", "answered", "failed", "cut"}]
  BY <1>1
<1>3. ASSUME NEW c \in Calls, call'[c] = "cut"
      PROVE  stage' \in {"killed", "fatal"} \/ overdue' \/ service' = "collector"
  <2>1. call[c] = "running"
    BY <1>1, <1>3 DEF LifeInv
  <2>2. c \in Running
    BY <2>1 DEF Running
  <2>3. QED
    BY <1>1, <2>2
<1>4. \A c \in Calls : call'[c] = "failed" => overdue'
  BY <1>1 DEF LifeInv
<1>5. QED
  BY <1>1, <1>2, <1>3, <1>4 DEF LifeInv, Over

\* Every step of a main, of its server and of a signal keeps it.
LEMMA NextLifeInv == LifeInv /\ [LifecycleNext]_lifeVars => LifeInv'
<1> SUFFICES ASSUME LifeInv, [LifecycleNext]_lifeVars PROVE LifeInv'
  OBVIOUS
<1>1. CASE UNCHANGED lifeVars
  BY <1>1 DEF lifeVars, LifeInv, Running
<1>2. ASSUME NEW c \in Calls, Accept(c) PROVE LifeInv'
  BY <1>2 DEF Accept, LifeInv, Running
<1>3. ASSUME NEW c \in Calls, Answer(c) PROVE LifeInv'
  <2>1. /\ stage \notin Over /\ call[c] = "running"
        /\ UNCHANGED <<service, stage, listener, influx, overdue>>
        /\ call' = [call EXCEPT ![c] =
             IF service = "api" /\ influx = "closed" THEN "failed" ELSE "answered"]
        /\ call \in [Calls -> {"unsent", "running", "answered", "failed", "cut"}]
    BY <1>3 DEF Answer, LifeInv
  <2>2. Running' \subseteq Running /\ c \in Running
    BY <2>1 DEF Running
  <2>3. service = "api" /\ influx = "closed" => overdue
    BY <2>1, <2>2 DEF LifeInv
  <2>4. call' \in [Calls -> {"unsent", "running", "answered", "failed", "cut"}]
    BY <2>1
  <2>5. \A d \in Calls : /\ call'[d] = "failed" => call[d] = "failed" \/ overdue
                         /\ call'[d] = "cut" => call[d] = "cut"
    BY <2>1, <2>3
  <2>6. QED
    BY <2>1, <2>2, <2>4, <2>5 DEF LifeInv
<1>4. CASE NotifySignal
  <2>1. /\ stage \notin Over /\ UNCHANGED <<service, listener, influx, overdue>>
        /\ EndAs("killed") \/ UNCHANGED <<stage, call>>
    BY <1>4 DEF NotifySignal
  <2>2. "killed" \in Over
    BY DEF Over
  <2>3. CASE EndAs("killed")
    BY <2>1, <2>2, <2>3, EndAsCuts
  <2>4. CASE UNCHANGED <<stage, call>>
    BY <2>1, <2>4 DEF LifeInv, Running
  <2>5. QED
    BY <2>1, <2>3, <2>4
<1>5. CASE ServeFails
  <2>1. /\ stage \notin Over /\ UNCHANGED <<service, listener, influx, overdue>>
        /\ EndAs("fatal") /\ "fatal" \in Over
    BY <1>5 DEF ServeFails, Over
  <2>2. QED
    BY <2>1, EndAsCuts
<1>6. CASE ExitBroker \/ ExitApi
  <2>1. /\ stage \in {"deregister", "returns"} /\ EndAs("exited")
        /\ UNCHANGED <<service, listener, influx, overdue>>
    BY <1>6 DEF ExitBroker, ExitApi
  <2>2. /\ stage \notin Over /\ "exited" \in Over /\ (Running = {} \/ overdue)
    BY <2>1 DEF LifeInv, Over
  <2>3. QED
    BY <2>1, <2>2, EndAsCuts
<1>7. CASE CloseCollector
  <2>1. service = "collector" /\ stage = "close" /\ UNCHANGED <<service, listener, overdue>>
    BY <1>7 DEF CloseCollector
  <2>2. CASE stage' = "hangs" /\ UNCHANGED <<call, influx>>
    BY <2>1, <2>2 DEF LifeInv, Over
  <2>3. CASE EndAs("exited")
    <3>1. /\ stage' = "exited" /\ call \in [Calls -> {"unsent", "running", "answered", "failed", "cut"}]
          /\ call' = [c \in Calls |-> IF call[c] = "running" THEN "cut" ELSE call[c]]
      BY <2>3 DEF EndAs, LifeInv
    <3>2. call' \in [Calls -> {"unsent", "running", "answered", "failed", "cut"}]
          /\ \A c \in Calls : call'[c] = "failed" => overdue
      BY <3>1 DEF LifeInv
    <3>3. QED
      BY <2>1, <3>1, <3>2 DEF LifeInv, Over
  <2>4. QED
    BY <1>7, <2>2, <2>3 DEF CloseCollector
<1>8. CASE \/ StartBroker \/ ServeBroker \/ OpenRepository \/ StartCollector
           \/ ListenAndServe \/ WaitForTopicMetadata \/ JoinInitially \/ StartSources
           \/ Notify \/ AwaitSignal \/ TakeSignal \/ CollectOrFlush
  <2>1. /\ UNCHANGED <<service, call, overdue>>
        /\ stage \in {"begin", "listen", "topic", "join", "sources", "notify", "notified", "waits"}
           \/ stage' = stage
        /\ stage' \notin {"deregister", "defers", "returns"} \/ stage' = stage
        /\ stage \notin Over \/ stage' = stage
        /\ influx' = influx \/ influx' \in {"none", "open"}
        /\ listener' = listener \/ listener # "closed" \/ stage' # stage
    BY <1>8 DEF StartBroker, ServeBroker, OpenRepository, StartCollector, ListenAndServe,
       WaitForTopicMetadata, JoinInitially, StartSources, Notify, AwaitSignal, TakeSignal,
       CollectOrFlush, Main, Over
  <2>2. QED
    BY <2>1 DEF LifeInv, Running, Over
<1>9. CASE GracefulStop
  BY <1>9 DEF GracefulStop, Main, LifeInv, Running, Over
<1>10. CASE ShutdownServer
  BY <1>10 DEF ShutdownServer, Main, LifeInv, Running, Over
<1>11. CASE CloseRepository
  BY <1>11 DEF CloseRepository, Main, LifeInv, Running, Over
<1>12. QED
  BY <1>1, <1>2, <1>3, <1>4, <1>5, <1>6, <1>7, <1>8, <1>9, <1>10, <1>11
     DEF LifecycleNext, MainGoroutine

-----------------------------------------------------------------------------
(* The widths of integers.                                                 *)

\* What is wrapped fits.
LEMMA WrapType ==
  ASSUME NEW a \in Int, NEW max \in Nat
  PROVE  Wrap(a, max) \in IntRange(max)
<1> DEFINE x == a + max + 1
           m == 2 * (max + 1)
           r == x % m
<1>1. x \in Int /\ m \in Nat \ {0} /\ m = max + max + 2
  OBVIOUS
<1>2. r \in 0 .. m - 1
  <2> HIDE DEF x, m
  <2>1. QED
    BY <1>1
<1>3. Wrap(a, max) = r - (max + 1)
  BY DEF Wrap
<1> HIDE DEF x, m, r
<1>4. r - (max + 1) \in -(max + 1) .. max
  BY <1>1, <1>2
<1>5. QED
  BY <1>3, <1>4 DEF IntRange

\* What fits is kept.
LEMMA WrapFits ==
  ASSUME NEW max \in Nat, NEW a \in IntRange(max)
  PROVE  Wrap(a, max) = a
<1> DEFINE x == a + max + 1
           m == 2 * (max + 1)
<1>1. a \in Int /\ x \in 0 .. m - 1 /\ m \in Nat
  BY DEF IntRange
<1>2. \A y \in 0 .. (m - 1) : y % m = y
  <2> HIDE DEF m
  <2>1. QED
    BY <1>1
<1>3. x % m = x
  <2> HIDE DEF x, m
  <2>1. QED
    BY <1>1, <1>2
<1>4. Wrap(a, max) = (x % m) - (max + 1)
  BY DEF Wrap
<1>5. x - (max + 1) = a
  BY <1>1
<1> HIDE DEF x, m
<1>6. QED
  BY <1>3, <1>4, <1>5

\* Products keep the order of their factors.
LEMMA ProductOrder ==
  ASSUME NEW a \in Int, NEW b \in Int, NEW c \in Nat \ {0}
  PROVE  a <= b <=> a * c <= b * c
<1>1. a <= b => a * c <= b * c
  <2> SUFFICES ASSUME a <= b PROVE a * c <= b * c
    OBVIOUS
  <2>1. (b - a) * c >= 0 /\ (b - a) * c = b * c - a * c
    OBVIOUS
  <2>2. a * c \in Int /\ b * c \in Int
    OBVIOUS
  <2>3. QED
    BY <2>1, <2>2
<1>2. b < a => b * c < a * c
  <2> SUFFICES ASSUME b < a PROVE b * c < a * c
    OBVIOUS
  <2>1. (a - b) * c > 0 /\ (a - b) * c = a * c - b * c
    OBVIOUS
  <2>2. a * c \in Int /\ b * c \in Int
    OBVIOUS
  <2>3. QED
    BY <2>1, <2>2
<1>3. a * c \in Int /\ b * c \in Int
  OBVIOUS
<1>4. QED
  BY <1>1, <1>2, <1>3

-----------------------------------------------------------------------------
(* Configuration.                                                          *)

\* LoadConfig gives a number its variable's value, or the default.
Number0(s) == getEnvInt(Value(s), IntSettings[program][s])
Loaded(s)  == config[s] = Number0(s)

\* What the streamer's constructor leaves of it.
Constructed(s) ==
  Kept(s, IF s \in DOMAIN Defaults /\ Number0(s) <= 0 THEN Defaults[s] ELSE Number0(s))

\* Each constructor's check holds of what it lets through.
ConfigInv ==
  /\ program \in {"collector", "streamer", "brokerServer", "telemetryApi"}
  /\ \A s \in DOMAIN environment : environment[s] \in ValuesOf(s)
  /\ config \in [DOMAIN IntSettings[program] -> Int]
  /\ phase \in {"validate", "construct"} => \A s \in DOMAIN config : Loaded(s)
  /\ program = "collector" /\ phase \in {"construct", "start", "runs"} =>
       config["READ_FREQUENCY_MS"] > 0 /\ config["MAX_RETRIES"] >= 0
  /\ program = "collector" /\ phase \in {"start", "runs"} =>
       Loaded("READ_FREQUENCY_MS") /\ config["BATCH_SIZE"] \in 0 .. MaxCapacity
  /\ program = "streamer" /\ phase \in {"start", "runs"} =>
       /\ \A s \in DOMAIN config : config[s] = Constructed(s)
       /\ config["BATCH_SIZE"] <= MaxCapacity
  /\ program = "brokerServer" /\ phase \in {"start", "runs"} =>
       \/ config["BROKER_ID"] # -1
       \/ \E s \in {"BROKER_ID", "POD_NAME"} : GivenOutside(s, IntRange(MaxInt32))
  /\ OnlyKnownPanics

\* The settings of each program that are numbers.
LEMMA IntSettingsOf ==
  /\ DOMAIN IntSettings = {"collector", "streamer", "brokerServer", "telemetryApi"}
  /\ DOMAIN IntSettings["collector"] = {"READ_FREQUENCY_MS", "MAX_RETRIES", "BATCH_SIZE"}
  /\ DOMAIN IntSettings["streamer"] = {"READ_SPEED"} \union DOMAIN Defaults
  /\ DOMAIN Defaults = {"MAX_RETRIES", "BATCH_SIZE", "BATCH_TIMEOUT_MS", "NUM_PARTITIONS",
                        "CIRCUIT_BREAKER_THRESHOLD"}
  /\ DOMAIN IntSettings["brokerServer"] = {"BROKER_ID", "BROKER_PORT"}
  /\ DOMAIN IntSettings["telemetryApi"] = {"PORT"}
BY DEF IntSettings, Defaults

\* The defaults are numbers.
LEMMA DefaultValues ==
  /\ \A p \in DOMAIN IntSettings : \A s \in DOMAIN IntSettings[p] : IntSettings[p][s] \in Int
  /\ \A s \in DOMAIN Defaults : Defaults[s] \in Int /\ Defaults[s] > 0
  /\ \A s \in DOMAIN Defaults : IntSettings["streamer"][s] = Defaults[s]
  /\ IntSettings["collector"]["BATCH_SIZE"] = 50
  /\ IntSettings["collector"]["READ_FREQUENCY_MS"] = 1000
  /\ IntSettings["streamer"]["READ_SPEED"] = 100
  /\ IntSettings["brokerServer"]["BROKER_ID"] = -1
  /\ Defaults["BATCH_SIZE"] = 50 /\ Defaults["BATCH_TIMEOUT_MS"] = 1000
  /\ Defaults["NUM_PARTITIONS"] = 10 /\ Defaults["CIRCUIT_BREAKER_THRESHOLD"] = 10
<1>1. /\ \A s \in DOMAIN Defaults : Defaults[s] \in Int /\ Defaults[s] > 0
      /\ Defaults["BATCH_SIZE"] = 50 /\ Defaults["BATCH_TIMEOUT_MS"] = 1000
      /\ Defaults["NUM_PARTITIONS"] = 10 /\ Defaults["CIRCUIT_BREAKER_THRESHOLD"] = 10
  BY DEF Defaults
<1>2. /\ \A s \in DOMAIN IntSettings["collector"] : IntSettings["collector"][s] \in Int
      /\ IntSettings["collector"]["BATCH_SIZE"] = 50
      /\ IntSettings["collector"]["READ_FREQUENCY_MS"] = 1000
  BY DEF IntSettings
<1>3. /\ \A s \in DOMAIN IntSettings["streamer"] : IntSettings["streamer"][s] \in Int
      /\ IntSettings["streamer"]["READ_SPEED"] = 100
  BY DEF IntSettings
<1>4. /\ \A s \in DOMAIN IntSettings["brokerServer"] : IntSettings["brokerServer"][s] \in Int
      /\ IntSettings["brokerServer"]["BROKER_ID"] = -1
  BY DEF IntSettings
<1>5. \A s \in DOMAIN IntSettings["telemetryApi"] : IntSettings["telemetryApi"][s] \in Int
  BY DEF IntSettings
<1>6. \A s \in DOMAIN Defaults : IntSettings["streamer"][s] = Defaults[s]
  BY DEF IntSettings, Defaults
<1>7. QED
  BY <1>1, <1>2, <1>3, <1>4, <1>5, <1>6, IntSettingsOf

\* A value that is a number has one, and what follows a pod's hyphen is not negative.
LEMMA NumbersOfValues ==
  ASSUME NEW s, NEW v \in ValuesOf(s), v.form = "int"
  PROVE  v.n \in Int /\ (s = "POD_NAME" => v.n \in Nat)
<1>1. Numbers \subseteq Int
  BY WidthsAssumption, ConfigurationAssumption DEF IntRange
<1>2. CASE s \in Texts
  BY <1>2 DEF ValuesOf, Texts, Word
<1>3. CASE s = "TSDB_ENABLED"
  BY <1>3 DEF ValuesOf, Texts, Word, Number, Forms
<1>4. CASE s = "BROKER_ADDRESSES"
  BY <1>4 DEF ValuesOf, Texts, Word
<1>5. CASE s = "POD_NAME"
  BY <1>5 DEF ValuesOf, Texts, Word, Number
<1>6. CASE s \notin Texts \union {"TSDB_ENABLED", "BROKER_ADDRESSES", "POD_NAME"}
  <2>1. ValuesOf(s) = {Word("text")} \union {Number(i) : i \in Numbers}
    BY <1>6 DEF ValuesOf
  <2>2. QED
    BY <1>1, <1>6, <2>1 DEF Word, Number
<1>7. QED
  BY <1>2, <1>3, <1>4, <1>5, <1>6

\* The same of the value of a setting that may be unset.
LEMMA NumberOfSetting ==
  ASSUME ConfigInv, NEW s, Value(s).form = "int"
  PROVE  Value(s).n \in Int /\ (s = "POD_NAME" => Value(s).n \in Nat)
<1>1. CASE s \in DOMAIN environment
  BY <1>1, NumbersOfValues DEF Value, ConfigInv
<1>2. CASE s \notin DOMAIN environment
  BY <1>2 DEF Value, Unset, Word
<1>3. QED
  BY <1>1, <1>2

\* An environment gives its settings values that are tried for them.
LEMMA InitConfigInv == ConfigurationInit => ConfigInv
<1> SUFFICES ASSUME ConfigurationInit PROVE ConfigInv
  OBVIOUS
<1>1. program \in DOMAIN IntSettings /\ DOMAIN IntSettings = DOMAIN Others
  BY IntSettingsOf DEF ConfigurationInit, Others
<1> DEFINE Trials(a, b) ==
           {[s \in {a, b} |-> IF s = a THEN x ELSE y] : x \in ValuesOf(a), y \in ValuesOf(b)}
<1>2. PICK a, b : environment \in Trials(a, b)
  <2> DEFINE All(p) == UNION {Trials(a, b) : a, b \in SettingsOf(p)}
  <2>1. Environments = [p \in DOMAIN Others |-> All(p)]
    BY DEF Environments
  <2> HIDE DEF Trials
  <2>2. environment \in All(program) => \E a, b : environment \in Trials(a, b)
    OBVIOUS
  <2> HIDE DEF All
  <2>3. environment \in Environments[program]
    BY DEF ConfigurationInit
  <2>4. QED
    BY <1>1, <2>1, <2>2, <2>3
<1>3. \A s \in DOMAIN environment : environment[s] \in ValuesOf(s)
  BY <1>2
<1>4. config = IntSettings[program] /\ config \in [DOMAIN IntSettings[program] -> Int]
  <2>1. \A s \in DOMAIN IntSettings[program] : IntSettings[program][s] \in Int
    BY <1>1, DefaultValues
  <2>2. IntSettings[program] = [s \in DOMAIN IntSettings[program] |-> IntSettings[program][s]]
    BY <1>1, IntSettingsOf DEF IntSettings
  <2>3. QED
    BY <2>1, <2>2 DEF ConfigurationInit
<1>5. QED
  BY <1>1, <1>3, <1>4, IntSettingsOf DEF ConfigurationInit, ConfigInv, OnlyKnownPanics

\* The numbers of a configuration are integers, whatever they stand for.
LEMMA ConstructedType ==
  ASSUME ConfigInv, NEW s \in DOMAIN IntSettings[program]
  PROVE  /\ Number0(s) \in Int
         /\ program = "streamer" => Constructed(s) \in Int
<1>1. IntSettings[program][s] \in Int
  BY DefaultValues, IntSettingsOf DEF ConfigInv
<1>2. Number0(s) \in Int
  BY <1>1, NumberOfSetting DEF Number0, getEnvInt
<1>3. \A n \in Int : Kept(s, n) \in Int
  BY WidthsAssumption, WrapType DEF Kept, IntRange
<1>4. QED
  BY <1>2, <1>3, DefaultValues DEF Constructed

\* Milliseconds that fit a duration, and are positive, are one.
LEMMA PeriodFits ==
  ASSUME NEW n \in Int, n > 0, Period(n) <= 0
  PROVE  n \notin IntRange(MaxInt64 \div Millisecond) /\ n \notin Periods
<1> DEFINE q == MaxInt64 \div Millisecond
<1>1. MaxInt64 \in Nat /\ Millisecond \in Nat \ {0}
  BY WidthsAssumption, ConfigurationAssumption
<1>2. q \in Nat /\ q * Millisecond <= MaxInt64
  BY <1>1
<1> HIDE DEF q
<1>3. SUFFICES ASSUME n <= q PROVE FALSE
  BY <1>2 DEF IntRange, Periods, q
<1>4. n * Millisecond <= q * Millisecond
  BY <1>1, <1>2, <1>3, ProductOrder
<1>5. n * Millisecond > 0 /\ n * Millisecond \in Int
  BY <1>1
<1>6. n * Millisecond \in IntRange(MaxInt64)
  <2> DEFINE p == n * Millisecond
             l == q * Millisecond
  <2>1. p <= l /\ l <= MaxInt64 /\ p > 0 /\ p \in Int /\ l \in Int
    BY <1>1, <1>2, <1>4, <1>5
  <2> HIDE DEF p, l
  <2>2. p \in -(MaxInt64 + 1) .. MaxInt64
    BY <1>1, <2>1
  <2>3. QED
    BY <2>2 DEF p, IntRange
<1>7. Period(n) = n * Millisecond
  BY <1>1, <1>6, WrapFits DEF Period
<1>8. QED
  BY <1>5, <1>7

\* There is room for a capacity that is affordable, and none above the largest.
LEMMA MakeFits ==
  ASSUME NEW capacity \in Int
  PROVE  /\ TRUE \in MakeStops(capacity) => capacity \notin 0 .. Affordable
         /\ FALSE \in MakeStops(capacity) => capacity \in 0 .. MaxCapacity
<1>1. Affordable \in Nat /\ MaxCapacity \in Nat /\ Affordable <= MaxCapacity
  BY ConfigurationAssumption
<1>2. CASE capacity \in 0 .. Affordable
  <2>1. capacity \in 0 .. MaxCapacity /\ ~(capacity > Affordable)
    BY <1>1, <1>2
  <2>2. MakeStops(capacity) = {FALSE}
    BY <2>1, Zenon DEF MakeStops
  <2>3. TRUE \notin MakeStops(capacity)
    BY <2>2
  <2>4. QED
    BY <2>1, <2>3
<1>3. CASE capacity \notin 0 .. MaxCapacity
  <2>1. MakeStops(capacity) = {TRUE}
    BY <1>3 DEF MakeStops
  <2>2. QED
    BY <1>1, <1>3, <2>1
<1>4. QED
  BY <1>2, <1>3

\* The default periods fit.
LEMMA ThousandFits == 1000 \in Periods /\ Period(1000) \in Nat \ {0}
<1>1. MaxInt64 \in Nat /\ Millisecond \in Nat \ {0} /\ 1000 * Millisecond <= MaxInt64
  BY WidthsAssumption, ConfigurationAssumption DEF Second
<1>2. 1000 * Millisecond \in IntRange(MaxInt64)
  BY <1>1 DEF IntRange
<1>3. Period(1000) = 1000 * Millisecond
  BY <1>1, <1>2, WrapFits DEF Period
<1>4. 1000 <= MaxInt64 \div Millisecond
  BY <1>1
<1>5. QED
  BY <1>1, <1>3, <1>4 DEF Periods

\* A step that leaves the numbers alone keeps what is known of them.
LEMMA SameNumbers ==
  ASSUME ConfigInv, UNCHANGED <<program, environment, reachable>>
  PROVE  /\ program' \in {"collector", "streamer", "brokerServer", "telemetryApi"}
         /\ \A s \in DOMAIN environment' : environment'[s] \in ValuesOf(s)
         /\ \A s : Value(s)' = Value(s)
         /\ \A s : Number0(s)' = Number0(s)
         /\ \A s : Constructed(s)' = Constructed(s)
         /\ \A s, N : GivenOutside(s, N)' <=> GivenOutside(s, N)
<1>1. \A s : Value(s)' = Value(s)
  BY DEF Value
<1>2. \A s : Number0(s)' = Number0(s)
  BY <1>1 DEF Number0
<1>3. \A s : Constructed(s)' = Constructed(s)
  BY <1>2 DEF Constructed
<1>4. QED
  BY <1>1, <1>2, <1>3 DEF ConfigInv, GivenOutside

\* LoadConfig, the checks and the constructors keep it.
LEMMA NextConfigInv == ConfigInv /\ [ConfigurationNext]_configVars => ConfigInv'
<1> SUFFICES ASSUME ConfigInv, [ConfigurationNext]_configVars PROVE ConfigInv'
  OBVIOUS
<1>s. UNCHANGED <<program, environment, reachable>>
  BY DEF ConfigurationNext, LoadConfig, Validate, NewTelemetryCollector, NewTSDBRepository,
     NewTelemetryProducer, NameBroker, Start, configVars
<1>v. /\ program' \in {"collector", "streamer", "brokerServer", "telemetryApi"}
      /\ \A s \in DOMAIN environment' : environment'[s] \in ValuesOf(s)
      /\ \A s : Value(s)' = Value(s)
      /\ \A s : Number0(s)' = Number0(s)
      /\ \A s : Constructed(s)' = Constructed(s)
      /\ \A s, N : GivenOutside(s, N)' <=> GivenOutside(s, N)
  BY <1>s, SameNumbers
<1>c. config' = config =>
        /\ config' \in [DOMAIN IntSettings[program'] -> Int]
        /\ \A s : Loaded(s)' <=> Loaded(s)
        /\ DOMAIN config' = DOMAIN config
  BY <1>s, <1>v DEF ConfigInv, Loaded
<1>p. phase' # "panics" => OnlyKnownPanics'
  BY DEF OnlyKnownPanics
<1>1. CASE UNCHANGED configVars
  <2>1. phase' = phase /\ config' = config /\ program' = program
    BY <1>1 DEF configVars
  <2>2. OnlyKnownPanics'
    BY <2>1, <1>v DEF ConfigInv, OnlyKnownPanics
  <2>3. QED
    BY <2>1, <2>2, <1>v, <1>c DEF ConfigInv
<1>2. CASE LoadConfig
  <2>1. \A s \in DOMAIN IntSettings[program] : Number0(s) \in Int
    BY ConstructedType
  <2>2. /\ config' \in [DOMAIN IntSettings[program] -> Int]
        /\ \A s \in DOMAIN IntSettings[program] : config'[s] = Number0(s)
    BY <1>2, <2>1 DEF LoadConfig, Number0
  <2>3. \A s \in DOMAIN config' : Loaded(s)'
    BY <2>2, <1>v DEF Loaded
  <2>4. /\ phase' \in {"validate", "construct"}
        /\ program = "collector" => phase' = "validate"
    BY <1>2 DEF LoadConfig
  <2>5. QED
    BY <2>2, <2>3, <2>4, <1>s, <1>v, <1>p DEF ConfigInv
<1>3. CASE Validate
  <2>1. /\ phase = "validate" /\ config' = config
        /\ phase' \in {"refused", "construct"}
        /\ phase' = "construct" => ~(config["READ_FREQUENCY_MS"] <= 0)
                                   /\ ~(config["MAX_RETRIES"] < 0)
    BY <1>3 DEF Validate
  <2>2. program = "collector" =>
          config["READ_FREQUENCY_MS"] \in Int /\ config["MAX_RETRIES"] \in Int
    BY IntSettingsOf DEF ConfigInv
  <2>3. QED
    BY <2>1, <2>2, <1>s, <1>v, <1>c, <1>p DEF ConfigInv
<1>4. CASE NewTelemetryCollector
  <2>1. /\ program = "collector" /\ phase = "construct" /\ config' = config
        /\ phase' \in {"refused", "panics", "start"}
    BY <1>4 DEF NewTelemetryCollector
  <2>2. /\ phase' = "panics" => TRUE \in MakeStops(config["BATCH_SIZE"])
        /\ phase' = "start" => FALSE \in MakeStops(config["BATCH_SIZE"])
    BY <1>4 DEF NewTelemetryCollector, MakeStops
  <2>3. /\ config["BATCH_SIZE"] \in Int /\ Loaded("BATCH_SIZE") /\ Loaded("READ_FREQUENCY_MS")
    BY <2>1, IntSettingsOf DEF ConfigInv
  <2>4. phase' = "start" => config["BATCH_SIZE"] \in 0 .. MaxCapacity
    BY <2>2, <2>3, MakeFits
  <2>5. phase' = "panics" => GivenOutside("BATCH_SIZE", 0 .. Affordable)
    <3> SUFFICES ASSUME phase' = "panics" PROVE GivenOutside("BATCH_SIZE", 0 .. Affordable)
      OBVIOUS
    <3>1. Affordable \in Nat /\ 50 <= Affordable
      BY ConfigurationAssumption
    <3>2. config["BATCH_SIZE"] \notin 0 .. Affordable
      BY <2>2, <2>3, MakeFits
    <3>3. config["BATCH_SIZE"] =
            IF Value("BATCH_SIZE").form = "int" THEN Value("BATCH_SIZE").n ELSE 50
      BY <2>1, <2>3, DefaultValues DEF Loaded, Number0, getEnvInt
    <3>4. QED
      BY <3>1, <3>2, <3>3 DEF GivenOutside
  <2>6. OnlyKnownPanics'
    BY <2>1, <2>5, <1>s, <1>v DEF OnlyKnownPanics
  <2>7. QED
    BY <2>1, <2>3, <2>4, <2>6, <1>s, <1>v, <1>c DEF ConfigInv
<1>5. CASE NewTSDBRepository
  <2>1. /\ program = "telemetryApi" /\ config' = config /\ phase' \in {"start", "refused"}
    BY <1>5 DEF NewTSDBRepository
  <2>2. QED
    BY <2>1, <1>s, <1>v, <1>c, <1>p DEF ConfigInv
<1>6. CASE NewTelemetryProducer
  <2>1. /\ program = "streamer" /\ phase' \in {"start", "refused", "panics"}
        /\ phase = "construct"
        /\ config' = [s \in DOMAIN config |->
                        Kept(s, IF s \in DOMAIN Defaults /\ config[s] <= 0
                                THEN Defaults[s] ELSE config[s])]
    BY <1>6 DEF NewTelemetryProducer
  <2>2. /\ phase' = "panics" => TRUE \in MakeStops(config'["BATCH_SIZE"])
        /\ phase' = "start" => FALSE \in MakeStops(config'["BATCH_SIZE"])
    BY <1>6 DEF NewTelemetryProducer, MakeStops
  <2>3. \A s \in DOMAIN config : config'[s] = Constructed(s)
    BY <2>1 DEF ConfigInv, Loaded, Constructed
  <2>4. /\ DOMAIN config' = DOMAIN IntSettings[program]
        /\ DOMAIN config = DOMAIN IntSettings[program]
    BY <2>1 DEF ConfigInv
  <2>5. config' \in [DOMAIN IntSettings[program] -> Int]
    <3>1. \A s \in DOMAIN IntSettings[program] : config'[s] \in Int
      BY <2>1, <2>3, <2>4, ConstructedType
    <3>2. QED
      BY <3>1, <2>1, <2>4
  <2>6. "BATCH_SIZE" \in DOMAIN config /\ "BATCH_SIZE" \in DOMAIN Defaults
    BY <2>1, <2>4, IntSettingsOf
  <2>7. config'["BATCH_SIZE"] \in Int
    BY <2>4, <2>5, <2>6
  <2>8. phase' = "start" => config'["BATCH_SIZE"] <= MaxCapacity
    <3>1. MaxCapacity \in Nat
      BY ConfigurationAssumption
    <3>2. phase' = "start" => config'["BATCH_SIZE"] \in 0 .. MaxCapacity
      BY <2>2, <2>7, MakeFits
    <3>3. QED
      BY <2>7, <3>1, <3>2
  <2>9. phase' = "panics" => GivenOutside("BATCH_SIZE", IntRange(Affordable))
    <3> SUFFICES ASSUME phase' = "panics" PROVE GivenOutside("BATCH_SIZE", IntRange(Affordable))
      OBVIOUS
    <3>1. Affordable \in Nat /\ 50 <= Affordable
      BY ConfigurationAssumption
    <3>2. config'["BATCH_SIZE"] \notin 0 .. Affordable
      BY <2>2, <2>7, MakeFits
    <3>3. config'["BATCH_SIZE"] =
            IF Number0("BATCH_SIZE") <= 0 THEN 50 ELSE Number0("BATCH_SIZE")
      BY <2>3, <2>6, DefaultValues DEF Constructed, Kept
    <3>4. Number0("BATCH_SIZE") \in Int
      BY <2>4, <2>6, ConstructedType
    <3>5. Number0("BATCH_SIZE") > Affordable
      BY <3>1, <3>2, <3>3, <3>4
    <3>6. Number0("BATCH_SIZE") =
            IF Value("BATCH_SIZE").form = "int" THEN Value("BATCH_SIZE").n ELSE 50
      BY <2>1, <2>6, DefaultValues DEF Number0, getEnvInt
    <3>7. QED
      BY <3>1, <3>4, <3>5, <3>6 DEF GivenOutside, IntRange
  <2>10. OnlyKnownPanics'
    BY <2>1, <2>9, <1>s, <1>v DEF OnlyKnownPanics
  <2>11. QED
    BY <2>1, <2>3, <2>4, <2>5, <2>8, <2>10, <1>s, <1>v DEF ConfigInv
<1>7. CASE NameBroker
  <2>1. /\ program = "brokerServer" /\ phase = "construct" /\ phase' = "start"
        /\ config' = [config EXCEPT !["BROKER_ID"] = Wrap(OwnNumber(@), MaxInt32)]
    BY <1>7 DEF NameBroker
  <2>2. "BROKER_ID" \in DOMAIN config /\ config["BROKER_ID"] \in Int /\ Loaded("BROKER_ID")
    BY <2>1, IntSettingsOf DEF ConfigInv
  <2> DEFINE id == OwnNumber(config["BROKER_ID"])
  <2>3. id \in Int \ {-1}
    BY <2>2, NumberOfSetting DEF OwnNumber
  <2>4. \/ id = 1
        \/ \E s \in {"BROKER_ID", "POD_NAME"} : Value(s).form = "int" /\ Value(s).n = id
    <3>1. config["BROKER_ID"] =
            IF Value("BROKER_ID").form = "int" THEN Value("BROKER_ID").n ELSE -1
      BY <2>1, <2>2, DefaultValues DEF Loaded, Number0, getEnvInt
    <3>2. QED
      BY <3>1, <2>2 DEF OwnNumber
  <2> HIDE DEF id
  <2>5. MaxInt32 \in Nat /\ 1 \in IntRange(MaxInt32)
    BY WidthsAssumption, ConfigurationAssumption DEF IntRange
  <2>6. Wrap(id, MaxInt32) \in Int
    BY <2>3, <2>5, WrapType DEF IntRange
  <2>7. id \in IntRange(MaxInt32) => Wrap(id, MaxInt32) = id
    BY <2>5, WrapFits
  <2>8. /\ config' \in [DOMAIN IntSettings[program] -> Int]
        /\ config'["BROKER_ID"] = Wrap(id, MaxInt32)
    BY <2>1, <2>2, <2>6 DEF ConfigInv, id
  <2>9. \/ config'["BROKER_ID"] # -1
        \/ \E s \in {"BROKER_ID", "POD_NAME"} : GivenOutside(s, IntRange(MaxInt32))
    BY <2>3, <2>4, <2>5, <2>7, <2>8 DEF GivenOutside
  <2>10. QED
    BY <2>1, <2>8, <2>9, <1>s, <1>v, <1>p DEF ConfigInv
<1>8. CASE Start
  <2>1. /\ phase = "start" /\ config' = config /\ phase' \in {"panics", "runs"}
        /\ phase' = "panics" =>
             \/ program = "collector" /\ Period(config["READ_FREQUENCY_MS"]) <= 0
             \/ program = "streamer" /\ Period(config["BATCH_TIMEOUT_MS"]) <= 0
             \/ program = "streamer" /\ ThrottlePanics
    BY <1>8 DEF Start
  <2>2. ASSUME program = "collector", Period(config["READ_FREQUENCY_MS"]) <= 0
        PROVE  GivenOutside("READ_FREQUENCY_MS", Periods)
    <3> DEFINE n == config["READ_FREQUENCY_MS"]
    <3>1. n \in Int /\ n > 0 /\ Loaded("READ_FREQUENCY_MS")
      BY <2>1, <2>2, IntSettingsOf DEF ConfigInv
    <3>2. n = IF Value("READ_FREQUENCY_MS").form = "int" THEN Value("READ_FREQUENCY_MS").n
              ELSE 1000
      BY <2>2, <3>1, DefaultValues DEF Loaded, Number0, getEnvInt
    <3>3. Period(n) <= 0
      BY <2>2
    <3> HIDE DEF n
    <3>4. n \notin Periods
      BY <3>1, <3>3, PeriodFits
    <3>5. QED
      BY <3>2, <3>4, ThousandFits DEF GivenOutside
  <2>3. ASSUME program = "streamer", Period(config["BATCH_TIMEOUT_MS"]) <= 0
        PROVE  GivenOutside("BATCH_TIMEOUT_MS", IntRange(MaxInt64 \div Millisecond))
    <3> DEFINE n == config["BATCH_TIMEOUT_MS"]
               m == Number0("BATCH_TIMEOUT_MS")
    <3>1. /\ "BATCH_TIMEOUT_MS" \in DOMAIN Defaults
          /\ "BATCH_TIMEOUT_MS" \in DOMAIN IntSettings[program]
          /\ n = Constructed("BATCH_TIMEOUT_MS")
      BY <2>1, <2>3, IntSettingsOf DEF ConfigInv
    <3>2. n = IF m <= 0 THEN 1000 ELSE m
      BY <3>1, DefaultValues DEF Constructed, Kept
    <3>3. m \in Int
      BY <3>1, ConstructedType
    <3>4. m = IF Value("BATCH_TIMEOUT_MS").form = "int" THEN Value("BATCH_TIMEOUT_MS").n
              ELSE 1000
      BY <2>3, <3>1, DefaultValues DEF Number0, getEnvInt
    <3>5. Period(n) <= 0
      BY <2>3
    <3> HIDE DEF n, m
    <3>6. n # 1000
      BY <3>5, ThousandFits
    <3>7. m > 0 /\ n = m
      BY <3>2, <3>3, <3>6
    <3>8. n \notin IntRange(MaxInt64 \div Millisecond)
      BY <3>3, <3>5, <3>7, PeriodFits
    <3>9. QED
      BY <3>4, <3>6, <3>7, <3>8 DEF GivenOutside
  <2>4. ASSUME program = "streamer", ThrottlePanics
        PROVE  GivenOutside("READ_SPEED", 1 .. Second)
    <3> DEFINE speed == config["READ_SPEED"]
    <3>1. /\ "READ_SPEED" \notin DOMAIN Defaults /\ "READ_SPEED" \in DOMAIN config
          /\ speed \in Int
      BY <2>4, IntSettingsOf DEF ConfigInv
    <3>2. speed = Constructed("READ_SPEED")
      BY <2>1, <2>4, <3>1 DEF ConfigInv
    <3>3. speed = IF Value("READ_SPEED").form = "int" THEN Value("READ_SPEED").n ELSE 100
      BY <2>4, <3>1, <3>2, DefaultValues DEF Constructed, Kept, Number0, getEnvInt
    <3>4. speed <= 0 \/ Second \div speed <= 0
      BY <2>4 DEF ThrottlePanics
    <3>5. Second \in Nat /\ Second >= 1000
      BY ConfigurationAssumption DEF Second
    <3> HIDE DEF speed
    <3>6. speed \notin 1 .. Second
      BY <3>1, <3>4, <3>5
    <3>7. 100 \in 1 .. Second
      BY <3>5
    <3>8. QED
      BY <3>3, <3>6, <3>7 DEF GivenOutside
  <2>5. OnlyKnownPanics'
    BY <2>1, <2>2, <2>3, <2>4, <1>s, <1>v DEF OnlyKnownPanics
  <2>6. QED
    BY <2>1, <2>5, <1>s, <1>v, <1>c DEF ConfigInv
<1>9. QED
  BY <1>1, <1>2, <1>3, <1>4, <1>5, <1>6, <1>7, <1>8 DEF ConfigurationNext

\* What the checks let through is what the other models assume, unless a number is
\* too large for an int32.
LEMMA ConfigInvRuns == ConfigInv => OnlyKnownPanics /\ RunsWithinAssumptions
<1> SUFFICES ASSUME ConfigInv, phase = "runs" PROVE RunsWithinAssumptions
  BY DEF ConfigInv, RunsWithinAssumptions
<1>1. program = "brokerServer" =>
        \/ config["BROKER_ID"] # -1
        \/ \E s \in {"BROKER_ID", "POD_NAME"} : GivenOutside(s, IntRange(MaxInt32))
  BY DEF ConfigInv
<1>2. program = "collector" =>
        config["BATCH_SIZE"] \in 0 .. MaxCapacity /\ config["MAX_RETRIES"] \in Nat
  BY IntSettingsOf DEF ConfigInv
<1>3. ASSUME program = "streamer", NEW s \in DOMAIN Defaults
      PROVE  LET n == IF Number0(s) <= 0 THEN Defaults[s] ELSE Number0(s) IN
             /\ config[s] = Kept(s, n) /\ n \in Nat \ {0}
             /\ \/ GivenOutside(s, IntRange(MaxInt32)) \/ n \in IntRange(MaxInt32)
                \/ s \notin {"CIRCUIT_BREAKER_THRESHOLD", "NUM_PARTITIONS"}
  <2> DEFINE n == IF Number0(s) <= 0 THEN Defaults[s] ELSE Number0(s)
  <2>1. s \in DOMAIN IntSettings[program] /\ s \in DOMAIN config
    BY <1>3, IntSettingsOf DEF ConfigInv
  <2>2. config[s] = Kept(s, n)
    BY <1>3, <2>1 DEF ConfigInv, Constructed
  <2>3. Number0(s) \in Int /\ Defaults[s] \in Int /\ Defaults[s] > 0
    BY <1>3, <2>1, ConstructedType, DefaultValues
  <2>4. n \in Nat \ {0}
    BY <2>3
  <2>5. ASSUME s \in {"CIRCUIT_BREAKER_THRESHOLD", "NUM_PARTITIONS"},
               n \notin IntRange(MaxInt32)
        PROVE  GivenOutside(s, IntRange(MaxInt32))
    <3>1. Defaults[s] = 10 /\ IntSettings[program][s] = 10
      BY <1>3, <2>5, DefaultValues
    <3>2. 10 \in IntRange(MaxInt32)
      BY WidthsAssumption, ConfigurationAssumption DEF IntRange
    <3>3. n = Number0(s) /\ n # 10
      BY <2>5, <3>1, <3>2
    <3> HIDE DEF n
    <3>4. Value(s).form = "int" /\ Value(s).n = n
      BY <3>1, <3>3 DEF Number0, getEnvInt
    <3>5. QED
      BY <2>5, <3>4 DEF GivenOutside
  <2>6. QED
    BY <2>2, <2>4, <2>5
<1>4. ASSUME program = "streamer", NEW s \in DOMAIN Defaults
      PROVE  \/ config[s] \in Nat \ {0}
             \/ s = "CIRCUIT_BREAKER_THRESHOLD" /\ GivenOutside(s, IntRange(MaxInt32))
  BY <1>3, <1>4, WidthsAssumption, WrapFits DEF Kept
<1>5. program = "streamer" =>
        \/ AskedPartitions = config["NUM_PARTITIONS"]
        \/ GivenOutside("NUM_PARTITIONS", IntRange(MaxInt32))
  BY <1>3, IntSettingsOf, WidthsAssumption, WrapFits DEF Kept, AskedPartitions
<1>6. program = "streamer" => config["BATCH_SIZE"] <= MaxCapacity
  BY DEF ConfigInv
<1>7. QED
  BY <1>1, <1>2, <1>4, <1>5, <1>6 DEF RunsWithinAssumptions

-----------------------------------------------------------------------------
(* The programs.                                                           *)

\* A step of the services is a step of each part, or leaves it alone.
LEMMA ProgramSteps ==
  [ServicesNext]_servicesVars =>
    [LifecycleNext]_lifeVars /\ [ConfigurationNext]_configVars
BY DEF ServicesNext, Only, servicesVars

\* A program that is accepted runs with values it can run with, panics only where that
\* is known, and ends without cutting off what it serves, but for the exceptions each
\* part names: LoadConfig, the checks and the mains.
THEOREM ProgramsStaySound == ServicesSpec => []ProgramsSound
<1>1. ServicesInit => LifeInv /\ ConfigInv
  BY InitLifeInv, InitConfigInv DEF ServicesInit
<1>2. (LifeInv /\ ConfigInv) /\ [ServicesNext]_servicesVars => (LifeInv /\ ConfigInv)'
  BY ProgramSteps, NextLifeInv, NextConfigInv
<1>3. LifeInv /\ ConfigInv => ProgramsSound
  BY ConfigInvRuns DEF LifeInv, ProgramsSound, CutOnlyByDeadline, DatabaseOutlivesCalls
<1>4. QED
  BY <1>1, <1>2, <1>3, PTL DEF ServicesSpec

-----------------------------------------------------------------------------
(* The records in the database.                                            *)

\* The image of a finite set under a function is finite and no larger.
LEMMA ImageNoLarger ==
  ASSUME NEW S, IsFiniteSet(S), NEW f
  PROVE  /\ IsFiniteSet({f[x] : x \in S})
         /\ Cardinality({f[x] : x \in S}) <= Cardinality(S)
<1> DEFINE T == {f[x] : x \in S}
           g == [x \in S |-> f[x]]
<1>1. g \in [S -> T] /\ \A t \in T : \E s \in S : g[s] = t
  OBVIOUS
<1>2. g \in Surjection(S, T)
  <2> HIDE DEF g, T
  <2>1. QED
    BY <1>1 DEF Surjection
<1>3. QED
  <2> HIDE DEF g
  <2>1. IsFiniteSet(T) /\ Cardinality(T) <= Cardinality(S)
    <3> HIDE DEF T
    <3>1. QED
      BY <1>2, FS_Surjection
  <2>2. QED
    BY <2>1

\* A product that fits into an int64 is what multiplying int64s gives.
LEMMA ProductFits ==
  ASSUME NEW a \in Int, NEW b \in Int, a * b > 0, a * b <= MaxInt64
  PROVE  Times64Product(a, b) = a * b
<1> DEFINE p == a * b
<1>1. MaxInt64 \in Nat /\ p \in Int /\ p > 0 /\ p <= MaxInt64
  BY WidthsAssumption
<1> HIDE DEF p
<1>2. p \in IntRange(MaxInt64)
  BY <1>1 DEF IntRange
<1>3. Wrap(p, MaxInt64) = p
  BY <1>1, <1>2, WrapFits
<1>4. QED
  BY <1>3 DEF Times64Product, p

\* Among the times that fit into an int64 the bounds tell the units apart.
LEMMA ClearIsItsInstant ==
  ASSUME NEW field \in TimeField, Clear(field)
  PROVE  Nanoseconds(field) = field.n * Factor[field.unit]
<1> DEFINE n  == field.n
           k1 == Kilo
           k2 == Kilo * Kilo
           k3 == Kilo * Kilo * Kilo
<1>1. /\ n \in Int /\ field.unit \in {"s", "ms", "ns"}
      /\ Factor["s"] = k3 /\ Factor["ms"] = k2 /\ Factor["ns"] = 1
  BY WidthsAssumption, PointsAssumption DEF TimeField, Times64, IntRange, Factor
<1>2. /\ Base \in Nat /\ Kilo \in Nat \ {0} /\ MaxInt64 \in Nat
      /\ k2 \in Nat \ {0} /\ k3 \in Nat \ {0} /\ k2 <= k3 /\ Kilo <= k2
      /\ Base * Kilo \in Nat /\ Base * k2 \in Nat /\ Base * k3 \in Nat
  <2>1. /\ Base \in Nat /\ Kilo \in Nat \ {0} /\ MaxInt64 \in Nat
    BY WidthsAssumption, PointsAssumption
  <2>2. k2 \in Nat \ {0} /\ Kilo <= k2
    BY <2>1
  <2>3. k3 = k2 * Kilo /\ k3 \in Nat \ {0}
    BY <2>1, <2>2
  <2>4. k2 <= k3
    <3> HIDE DEF k2, k3
    <3>1. QED
      BY <2>1, <2>2, <2>3
  <2>5. QED
    BY <2>1, <2>2, <2>3, <2>4
<1>3. /\ Nanoseconds(field) =
           CASE field.type = "int" /\ n > Base * Kilo * Kilo -> n
             [] field.type \in {"date", "float"} -> n
             [] OTHER -> Times64Product(n, IF n > Base * Kilo THEN k2 ELSE k3)
      /\ Base * Kilo * Kilo = Base * k2
  BY <1>2 DEF Nanoseconds
<1>4. CASE field.unit = "ns"
  <2>1. n * 1 > Base * k3 /\ n * 1 = n
    BY <1>1, <1>2, <1>4 DEF Clear
  <2>2. Base * k2 <= Base * k3
    <3> HIDE DEF k2, k3
    <3>1. QED
      BY <1>2, ProductOrder
  <2>3. n > Base * k2
    <3> HIDE DEF n, k2, k3
    <3>1. n \in Int
      BY <1>1
    <3>2. QED
      BY <1>2, <2>1, <2>2, <3>1
  <2>4. field.type = "int" \/ field.type \in {"date", "float"}
    BY <1>4 DEF Clear
  <2>5. QED
    BY <1>1, <1>3, <1>4, <2>1, <2>3, <2>4
<1>5. CASE field.unit = "ms"
  <2>1. n * k2 > Base * k3 /\ n * k2 <= MaxInt64 /\ field.type \in {"int", "digits"}
    BY <1>1, <1>2, <1>5 DEF Clear
  <2>2. /\ Base * k3 = (Base * Kilo) * k2
        /\ Base * Kilo * Kilo * Kilo * Kilo = (Base * k2) * k2
    BY <1>2
  <2>3. MaxInt64 <= (Base * k2) * k2
    BY <2>2, PointsAssumption
  <2> HIDE DEF n, k2, k3
  <2>4. n > Base * Kilo
    BY <1>1, <1>2, <2>1, <2>2, ProductOrder
  <2>5. n <= Base * k2
    <3>1. n * k2 <= (Base * k2) * k2
      BY <1>1, <1>2, <2>1, <2>3
    <3>2. QED
      BY <1>1, <1>2, <3>1, ProductOrder
  <2>6. Nanoseconds(field) = Times64Product(n, k2)
    BY <1>1, <1>2, <1>3, <2>1, <2>4, <2>5
  <2>7. Base * k3 >= 0 /\ n * k2 \in Int
    BY <1>1, <1>2
  <2>8. Times64Product(n, k2) = n * k2
    BY <1>1, <1>2, <2>1, <2>7, ProductFits
  <2>9. QED
    BY <1>1, <1>5, <2>6, <2>8 DEF n
<1>6. CASE field.unit = "s"
  <2>1. n * k3 > Base * k3 /\ n * k3 <= MaxInt64 /\ field.type \in {"int", "digits"}
    BY <1>1, <1>2, <1>6 DEF Clear
  <2>2. Base * Kilo * Kilo * Kilo * Kilo = (Base * Kilo) * k3
    BY <1>2
  <2>3. MaxInt64 <= (Base * Kilo) * k3
    BY <2>2, PointsAssumption
  <2>4. Base * k2 = (Base * Kilo) * Kilo
    BY <1>2
  <2> HIDE DEF n, k2, k3
  <2>5. n <= Base * Kilo
    <3>1. n * k3 <= (Base * Kilo) * k3
      BY <1>1, <1>2, <2>1, <2>3
    <3>2. QED
      BY <1>1, <1>2, <3>1, ProductOrder
  <2>6. Base * Kilo <= Base * k2
    BY <1>2, ProductOrder
  <2>7. Nanoseconds(field) = Times64Product(n, k3)
    BY <1>1, <1>2, <1>3, <2>1, <2>5, <2>6
  <2>8. Base * k3 >= 0 /\ n * k3 \in Int
    BY <1>1, <1>2
  <2>9. Times64Product(n, k3) = n * k3
    BY <1>1, <1>2, <2>1, <2>8, ProductFits
  <2>10. QED
    BY <1>1, <1>6, <2>7, <2>9 DEF n
<1>7. QED
  BY <1>1, <1>4, <1>5, <1>6

\* The time field a record is stored under, and the point of a record that has one.
TimeOf(record)  == record.times[First(ReadableTimes(record))]
PointOf(record) == [device |-> Tag(record.names), time |-> Nanoseconds(TimeOf(record))]

\* The records written that carry a time.
Timed == {w.record : w \in {x \in written : ReadableTimes(x.record) # {}}}

\* Every record that carries a time got the time it carries; every point is that of
\* such a record, or one of those that took their time from the clock.
PointsInv ==
  /\ IsFiniteSet(written) /\ guessed \in Nat
  /\ \A w \in written :
       /\ w.record \in Measured
       /\ ReadableTimes(w.record) # {} => w.time = Nanoseconds(TimeOf(w.record))
  /\ \E byClock :
       /\ IsFiniteSet(byClock) /\ Cardinality(byClock) <= guessed
       /\ points \subseteq {PointOf(r) : r \in Timed} \union byClock

\* The database is empty at first.
LEMMA InitPointsInv == PointsInit => PointsInv
<1> SUFFICES ASSUME PointsInit PROVE PointsInv
  OBVIOUS
<1>1. IsFiniteSet({}) /\ Cardinality({}) = 0
  BY FS_EmptySet
<1>2. QED
  BY <1>1 DEF PointsInit, PointsInv

\* Every write keeps it, of a record that carries a time and of one that does not.
LEMMA NextPointsInv == PointsInv /\ [PointsNext]_pointsVars => PointsInv'
<1> SUFFICES ASSUME PointsInv, [PointsNext]_pointsVars PROVE PointsInv'
  OBVIOUS
<1>1. CASE UNCHANGED <<points, written, guessed>>
  BY <1>1 DEF PointsInv, Timed
<1>2. ASSUME NEW record \in Measured, WriteRecord(record) PROVE PointsInv'
  <2> DEFINE time  == ExtractTimestamp(record)
             point == [device |-> Tag(record.names), time |-> time]
             entry == [record |-> record, time |-> time]
  <2>1. /\ points' = points \union {point} /\ written' = written \union {entry}
        /\ guessed' = guessed + (IF ReadableTimes(record) = {} THEN 1 ELSE 0)
    BY <1>2 DEF WriteRecord
  <2>2. entry.record = record /\ entry.time = time
    OBVIOUS
  <2>3. ReadableTimes(record) # {} => time = Nanoseconds(TimeOf(record)) /\ point = PointOf(record)
    BY DEF ExtractTimestamp, TimeOf, PointOf
  <2>4. PICK byClock : /\ IsFiniteSet(byClock) /\ Cardinality(byClock) <= guessed
                       /\ points \subseteq {PointOf(r) : r \in Timed} \union byClock
    BY DEF PointsInv
  <2> HIDE DEF time, point, entry
  <2>5. IsFiniteSet(written')
    BY <2>1, FS_AddElement DEF PointsInv
  <2>6. \A w \in written' :
          /\ w.record \in Measured
          /\ ReadableTimes(w.record) # {} => w.time = Nanoseconds(TimeOf(w.record))
    BY <2>1, <2>2, <2>3 DEF PointsInv
  <2>7. Timed \subseteq Timed'
    BY <2>1 DEF Timed
  <2>8. CASE ReadableTimes(record) # {}
    <3>1. record \in Timed'
      BY <2>1, <2>2, <2>8 DEF Timed
    <3>2. points' \subseteq {PointOf(r) : r \in Timed'} \union byClock
      BY <2>1, <2>3, <2>4, <2>7, <2>8, <3>1
    <3>3. guessed' = guessed
      BY <2>1, <2>8 DEF PointsInv
    <3>4. QED
      BY <2>4, <2>5, <2>6, <3>2, <3>3 DEF PointsInv
  <2>9. CASE ReadableTimes(record) = {}
    <3>1. guessed' = guessed + 1 /\ guessed \in Nat
      BY <2>1, <2>9 DEF PointsInv
    <3>2. /\ IsFiniteSet(byClock \union {point})
          /\ Cardinality(byClock \union {point}) <= Cardinality(byClock) + 1
          /\ Cardinality(byClock) \in Nat
      BY <2>4, FS_AddElement, FS_CardinalityType
    <3>3. /\ Cardinality(byClock \union {point}) <= guessed' /\ guessed' \in Nat
      BY <2>4, <3>1, <3>2, FS_CardinalityType
    <3>4. points' \subseteq {PointOf(r) : r \in Timed'} \union (byClock \union {point})
      BY <2>1, <2>4, <2>7
    <3>5. QED
      BY <2>5, <2>6, <3>2, <3>3, <3>4 DEF PointsInv
  <2>10. QED
    BY <2>8, <2>9
<1>3. QED
  BY <1>1, <1>2 DEF PointsNext, Pass, pointsVars

\* A record is stored at its instant, and a record that carries a time is one point.
LEMMA PointsInvSound == PointsInv => PointsSound
<1> SUFFICES ASSUME PointsInv PROVE StoredAtItsInstant /\ RewritesAreOnePoint
  BY DEF PointsSound
<1>1. StoredAtItsInstant
  <2> SUFFICES ASSUME NEW w \in written, ReadableTimes(w.record) # {}, Clear(TimeOf(w.record))
               PROVE  w.time = TimeOf(w.record).n * Factor[TimeOf(w.record).unit]
    BY DEF StoredAtItsInstant, TimeOf
  <2> DEFINE readable == ReadableTimes(w.record)
             times == w.record.times
  <2>1. w.record \in Measured /\ w.time = Nanoseconds(TimeOf(w.record))
    BY DEF PointsInv
  <2>2. times \in Seq(TimeField)
    BY <2>1, PointsAssumption
  <2>3. DOMAIN times \subseteq Nat /\ \A i \in DOMAIN times : times[i] \in TimeField
    <3> HIDE DEF times
    <3>1. QED
      BY <2>2
  <2>4. readable \subseteq DOMAIN times /\ readable # {}
    BY DEF ReadableTimes
  <2>5. First(readable) \in readable
    <3> HIDE DEF readable, times
    <3>1. \E i \in readable : \A j \in readable : i <= j
      BY <2>3, <2>4, LeastNatural
    <3>2. QED
      BY <3>1 DEF First
  <2>6. TimeOf(w.record) \in TimeField
    <3>1. TimeOf(w.record) = times[First(readable)]
      BY DEF TimeOf
    <3> HIDE DEF readable, times
    <3>2. QED
      BY <2>3, <2>4, <2>5, <3>1
  <2>7. QED
    BY <2>1, <2>6, ClearIsItsInstant
<1>2. RewritesAreOnePoint
  <2> DEFINE timed == {x \in written : ReadableTimes(x.record) # {}}
             rec   == [w \in timed |-> w.record]
             pt    == [r \in Timed |-> PointOf(r)]
  <2>1. IsFiniteSet(timed)
    BY FS_Subset DEF PointsInv
  <2>2. Timed = {rec[w] : w \in timed}
    BY DEF Timed
  <2>3. IsFiniteSet(Timed)
    <3> HIDE DEF timed, rec
    <3>1. QED
      BY <2>1, <2>2, ImageNoLarger
  <2>4. {PointOf(r) : r \in Timed} = {pt[r] : r \in Timed}
    OBVIOUS
  <2> DEFINE own == {PointOf(r) : r \in Timed}
  <2>5. IsFiniteSet(own) /\ Cardinality(own) <= Cardinality(Timed)
    <3> HIDE DEF pt
    <3>1. QED
      BY <2>3, <2>4, ImageNoLarger
  <2>6. PICK byClock : /\ IsFiniteSet(byClock) /\ Cardinality(byClock) <= guessed
                       /\ points \subseteq own \union byClock
    BY DEF PointsInv
  <2> HIDE DEF own, timed, rec, pt
  <2>7. /\ IsFiniteSet(own \union byClock)
        /\ Cardinality(own \union byClock) <= Cardinality(own) + Cardinality(byClock)
    <3>1. /\ IsFiniteSet(own \union byClock)
          /\ Cardinality(own \union byClock) =
               Cardinality(own) + Cardinality(byClock) - Cardinality(own \intersect byClock)
      BY <2>5, <2>6, FS_Union
    <3>2. IsFiniteSet(own \intersect byClock)
      BY <2>5, FS_Subset
    <3>3. /\ Cardinality(own) \in Nat /\ Cardinality(byClock) \in Nat
          /\ Cardinality(own \intersect byClock) \in Nat
      BY <2>5, <2>6, <3>2, FS_CardinalityType
    <3>4. QED
      BY <3>1, <3>3
  <2>8. IsFiniteSet(points) /\ Cardinality(points) <= Cardinality(own \union byClock)
    BY <2>6, <2>7, FS_Subset
  <2>9. /\ Cardinality(points) \in Nat /\ Cardinality(own \union byClock) \in Nat
        /\ Cardinality(own) \in Nat /\ Cardinality(byClock) \in Nat
        /\ Cardinality(Timed) \in Nat /\ guessed \in Nat
    BY <2>3, <2>5, <2>6, <2>7, <2>8, FS_CardinalityType DEF PointsInv
  <2>10. Cardinality(points) <= Cardinality(Timed) + guessed
    BY <2>5, <2>6, <2>7, <2>8, <2>9
  <2>11. QED
    BY <2>10 DEF RewritesAreOnePoint, Timed
<1>3. QED
  BY <1>1, <1>2

\* A record lands at its own instant, whatever unit it came in, and on itself when it is
\* written again (extractTimestamp and the database).
THEOREM PointsStaySound == ServicesSpec => []PointsSound
<1>1. ServicesInit => PointsInv
  BY InitPointsInv DEF ServicesInit
<1>2. PointsInv /\ [ServicesNext]_servicesVars => PointsInv'
  <2>1. [ServicesNext]_servicesVars => [PointsNext]_pointsVars
    BY DEF ServicesNext, Only, servicesVars
  <2>2. QED
    BY <2>1, NextPointsInv
<1>3. QED
  BY <1>1, <1>2, PointsInvSound, PTL DEF ServicesSpec

-----------------------------------------------------------------------------
(* The pages of the query API.                                             *)

\* The rows of S that are newer than t, those of time t, and the places of a page.
Above(S, t) == {r \in S : r.time > t}
Same(S, t)  == {r \in S : r.time = t}
Window(request, skip) == (skip + 1) .. (skip + Limit(request))

\* There are finitely many rows.
LEMMA RowsFinite == IsFiniteSet(Rows)
<1> DEFINE pairs == Times \X Series
           row   == [p \in pairs |-> [time |-> p[1], series |-> p[2]]]
<1>1. IsFiniteSet(Times)
  BY FS_Interval, ApiAssumption DEF Times
<1>2. IsFiniteSet(pairs)
  BY <1>1, FS_Product, ApiAssumption
<1>3. Rows \subseteq {row[p] : p \in pairs}
  <2> SUFFICES ASSUME NEW r \in Rows PROVE \E p \in pairs : row[p] = r
    OBVIOUS
  <2>1. <<r.time, r.series>> \in pairs /\ r = [time |-> r.time, series |-> r.series]
    BY DEF Rows
  <2>2. row[<<r.time, r.series>>] = r
    BY <2>1
  <2>3. QED
    BY <2>1, <2>2
<1> HIDE DEF pairs, row
<1>4. IsFiniteSet({row[p] : p \in pairs})
  BY <1>2, ImageNoLarger
<1>5. QED
  BY <1>3, <1>4, FS_Subset

\* Disjoint finite sets add up.
LEMMA DisjointSum ==
  ASSUME NEW S, NEW T, IsFiniteSet(S), IsFiniteSet(T), S \intersect T = {}
  PROVE  /\ IsFiniteSet(S \union T)
         /\ Cardinality(S \union T) = Cardinality(S) + Cardinality(T)
<1>1. Cardinality(S \intersect T) = 0
  BY FS_EmptySet
<1>2. Cardinality(S) \in Nat /\ Cardinality(T) \in Nat
  BY FS_CardinalityType
<1>3. /\ IsFiniteSet(S \union T)
      /\ Cardinality(S \union T) = Cardinality(S) + Cardinality(T) - Cardinality(S \intersect T)
  BY FS_Union
<1> DEFINE common == Cardinality(S \intersect T)
<1> HIDE DEF common
<1>4. Cardinality(S \union T) = Cardinality(S) + Cardinality(T) - common /\ common = 0
  BY <1>1, <1>3 DEF common
<1>5. Cardinality(S \union T) = Cardinality(S) + Cardinality(T)
  BY <1>2, <1>4
<1>6. QED
  BY <1>3, <1>5

\* What of n places lies in a window of length l behind the first skip.
LEMMA WindowSize ==
  ASSUME NEW n \in Nat, NEW skip \in Nat, NEW l \in Nat
  PROVE  LET seen == Cardinality((1 .. n) \intersect (skip + 1) .. (skip + l))
         IN  /\ seen \in 0 .. l
             /\ skip <= n => skip + seen = IF n < skip + l THEN n ELSE skip + l
<1> DEFINE seen == Cardinality((1 .. n) \intersect (skip + 1) .. (skip + l))
<1>1. CASE n <= skip
  <2>1. (1 .. n) \intersect (skip + 1) .. (skip + l) = {}
    BY <1>1
  <2>2. seen = 0
    BY <2>1, FS_EmptySet
  <2> HIDE DEF seen
  <2>3. seen \in 0 .. l /\ (skip <= n => skip + seen = IF n < skip + l THEN n ELSE skip + l)
    BY <1>1, <2>2
  <2>4. QED
    BY <2>3 DEF seen
<1>2. CASE skip < n /\ n < skip + l
  <2>1. (1 .. n) \intersect (skip + 1) .. (skip + l) = (skip + 1) .. n
    BY <1>2
  <2>2. Cardinality((skip + 1) .. n) = n - skip
    BY <1>2, FS_Interval
  <2>3. seen = n - skip
    BY <2>1, <2>2
  <2> HIDE DEF seen
  <2>4. seen \in 0 .. l /\ (skip <= n => skip + seen = IF n < skip + l THEN n ELSE skip + l)
    BY <1>2, <2>3
  <2>5. QED
    BY <2>4 DEF seen
<1>3. CASE skip < n /\ n >= skip + l
  <2>1. (1 .. n) \intersect (skip + 1) .. (skip + l) = (skip + 1) .. (skip + l)
    BY <1>3
  <2>2. Cardinality((skip + 1) .. (skip + l)) = l
    BY <1>3, FS_Interval
  <2>3. seen = l
    BY <2>1, <2>2
  <2> HIDE DEF seen
  <2>4. seen \in 0 .. l /\ (skip <= n => skip + seen = IF n < skip + l THEN n ELSE skip + l)
    BY <1>3, <2>3
  <2>5. QED
    BY <2>4 DEF seen
<1>4. QED
  BY <1>1, <1>2, <1>3

\* A request has a limit.
LEMMA LimitType == ASSUME NEW request \in Requests PROVE Limit(request) \in Nat
<1>1. request.limit \in Limits
  BY DEF Requests
<1>2. Limits \subseteq Nat /\ DefaultLimit \in Nat /\ MaxLimit \in Nat
  BY ApiAssumption
<1>3. QED
  BY <1>1, <1>2 DEF Limit, Least

\* What a page is: rows in range, of each time as many as there are places for them.
LEMMA PageIs ==
  ASSUME NEW all, NEW request, NEW skip, NEW page \in Pages(all, request, skip)
  PROVE  /\ page \subseteq InRange(all, request)
         /\ \A t \in Times :
              Cardinality(Same(page, t)) =
                Cardinality((Cardinality(Above(InRange(all, request), t)) + 1)
                              .. (Cardinality(Above(InRange(all, request), t))
                                  + Cardinality(Same(InRange(all, request), t)))
                            \intersect Window(request, skip))
BY DEF Pages, Above, Same, Window

\* Counted from the newest time down, a page has as many rows as its window places.
LEMMA PageSize ==
  ASSUME NEW all \in SUBSET Rows, NEW request \in Requests, NEW skip \in Nat,
         NEW page \in Pages(all, request, skip)
  PROVE  Cardinality(page) =
           Cardinality((1 .. Cardinality(InRange(all, request))) \intersect Window(request, skip))
<1> DEFINE Q == InRange(all, request)
           W == Window(request, skip)
           N(t) == Cardinality(Above(Q, t))
           A(t) == Cardinality(Same(Q, t))
           Even(t) == Cardinality(Above(page, t)) = Cardinality((1 .. N(t)) \intersect W)
<1>1. /\ page \subseteq Q /\ Q \subseteq Rows
      /\ \A t \in Times : Cardinality(Same(page, t)) =
                            Cardinality((N(t) + 1) .. (N(t) + A(t)) \intersect W)
  BY PageIs DEF InRange
<1>2. IsFiniteSet(Q) /\ IsFiniteSet(page) /\ MaxTime \in Nat
      /\ \A r \in Q : r.time \in 1 .. MaxTime
  BY <1>1, RowsFinite, FS_Subset, ApiAssumption DEF Rows, Times
<1> HIDE DEF Q, W
<1>3. \A t : /\ IsFiniteSet(Above(Q, t)) /\ IsFiniteSet(Same(Q, t))
             /\ IsFiniteSet(Above(page, t)) /\ IsFiniteSet(Same(page, t))
  BY <1>2, FS_Subset DEF Above, Same
<1>4. \A t : N(t) \in Nat /\ A(t) \in Nat
  BY <1>3, FS_CardinalityType
<1>5. Even(MaxTime)
  <2>1. Above(Q, MaxTime) = {} /\ Above(page, MaxTime) = {}
    BY <1>1, <1>2 DEF Above
  <2>2. N(MaxTime) = 0 /\ Cardinality(Above(page, MaxTime)) = 0
    BY <2>1, FS_EmptySet
  <2>3. (1 .. N(MaxTime)) \intersect W = {}
    BY <2>2
  <2>4. QED
    BY <2>2, <2>3, FS_EmptySet
<1>6. ASSUME NEW t \in Times, Even(t) PROVE Even(t - 1)
  <2>1. t \in 1 .. MaxTime
    BY DEF Times
  <2>2. /\ Above(Q, t - 1) = Above(Q, t) \union Same(Q, t)
        /\ Above(Q, t) \intersect Same(Q, t) = {}
    BY <1>2, <2>1 DEF Above, Same
  <2>3. /\ Above(page, t - 1) = Above(page, t) \union Same(page, t)
        /\ Above(page, t) \intersect Same(page, t) = {}
    BY <1>1, <1>2, <2>1 DEF Above, Same
  <2>4. N(t - 1) = N(t) + A(t)
    BY <1>3, <2>2, DisjointSum
  <2> DEFINE low  == (1 .. N(t)) \intersect W
             high == (N(t) + 1) .. (N(t) + A(t)) \intersect W
  <2>5. (1 .. N(t - 1)) \intersect W = low \union high /\ low \intersect high = {}
    <3> DEFINE n == N(t)
               a == A(t)
    <3>1. n \in Nat /\ a \in Nat /\ N(t - 1) = n + a
      BY <1>4, <2>4
    <3> HIDE DEF n, a, N, A
    <3>2. 1 .. (n + a) = (1 .. n) \union ((n + 1) .. (n + a))
      BY <3>1
    <3>3. (1 .. n) \intersect ((n + 1) .. (n + a)) = {}
      BY <3>1
    <3>4. QED
      BY <3>1, <3>2, <3>3 DEF n, a
  <2>6. IsFiniteSet(low) /\ IsFiniteSet(high)
    <3>1. /\ IsFiniteSet(1 .. N(t)) /\ IsFiniteSet((N(t) + 1) .. (N(t) + A(t)))
      BY <1>4, FS_Interval
    <3>2. QED
      BY <3>1, FS_Subset
  <2>7. Cardinality((1 .. N(t - 1)) \intersect W) = Cardinality(low) + Cardinality(high)
    <3> HIDE DEF low, high
    <3>1. QED
      BY <2>5, <2>6, DisjointSum
  <2>8. Cardinality(Above(page, t - 1)) =
          Cardinality(Above(page, t)) + Cardinality(Same(page, t))
    BY <1>3, <2>3, DisjointSum
  <2>9. Cardinality(Above(page, t)) = Cardinality(low)
        /\ Cardinality(Same(page, t)) = Cardinality(high)
    BY <1>1, <1>6
  <2>10. QED
    BY <2>7, <2>8, <2>9
<1>7. Even(0)
  <2> DEFINE T == {k \in 0 .. MaxTime : Even(MaxTime - k)}
  <2>1. 0 \in T
    <3>1. MaxTime - 0 = MaxTime /\ 0 \in 0 .. MaxTime
      BY <1>2
    <3>2. QED
      BY <1>5, <3>1
  <2>2. \A k \in 0 .. (MaxTime - 1) : k \in T => k + 1 \in T
    <3> SUFFICES ASSUME NEW k \in 0 .. (MaxTime - 1), Even(MaxTime - k)
                 PROVE  k + 1 \in 0 .. MaxTime /\ Even(MaxTime - (k + 1))
      OBVIOUS
    <3>1. /\ MaxTime - k \in Times /\ MaxTime - (k + 1) = (MaxTime - k) - 1
          /\ k + 1 \in 0 .. MaxTime
      BY <1>2 DEF Times
    <3>2. Even((MaxTime - k) - 1)
      <4> HIDE DEF Even
      <4>1. QED
        BY <1>6, <3>1
    <3>3. QED
      BY <3>1, <3>2
  <2>3. \A k \in 0 .. MaxTime : k \in T
    <3> HIDE DEF T
    <3>1. QED
      BY <1>2, <2>1, <2>2, UpTo
  <2>4. MaxTime \in 0 .. MaxTime /\ MaxTime - MaxTime = 0
    BY <1>2
  <2>5. MaxTime \in T
    BY <2>3, <2>4
  <2>6. QED
    BY <2>4, <2>5
<1>8. Above(Q, 0) = Q /\ Above(page, 0) = page
  BY <1>1, <1>2 DEF Above
<1>9. Cardinality(page) = Cardinality((1 .. Cardinality(Q)) \intersect W)
  BY <1>7, <1>8
<1>10. QED
  BY <1>9 DEF Q, W

\* What the client asked for of what is stored.
Found == InRange(stored, asked)

\* The offset is no larger than what is in range, and a row of the list that the
\* client has not got, and that has its time to itself, lies behind the offset.
PagesInv ==
  /\ stored \subseteq Rows /\ asked \in Requests
  /\ client \in {"lists", "asks", "finished", "rejected"}
  /\ got \subseteq Found /\ first \subseteq Found
  /\ offset \in Nat /\ Cardinality(got) <= offset /\ offset <= Cardinality(Found)
  /\ got # {} => asked.valid
  /\ client = "lists" => offset = 0
  /\ client # "lists" =>
       \A r \in first : r \in got \union Tied \/ offset <= Cardinality(Above(Found, r.time))
  /\ client = "finished" => first \subseteq got \union Tied

\* What the invariant speaks of is finite.
LEMMA FoundFinite ==
  ASSUME stored \subseteq Rows
  PROVE  /\ IsFiniteSet(stored) /\ IsFiniteSet(Found) /\ Found \subseteq stored
         /\ \A S \in SUBSET stored : IsFiniteSet(S) /\ Cardinality(S) \in Nat
         /\ \A t : IsFiniteSet(Above(Found, t)) /\ Cardinality(Above(Found, t)) \in Nat
<1>1. IsFiniteSet(stored)
  BY RowsFinite, FS_Subset
<1>2. \A S \in SUBSET stored : IsFiniteSet(S) /\ Cardinality(S) \in Nat
  BY <1>1, FS_Subset, FS_CardinalityType
<1>3. Found \subseteq stored /\ \A t : Above(Found, t) \subseteq stored
  BY DEF Found, InRange, Above
<1>4. QED
  BY <1>1, <1>2, <1>3

\* The client has nothing yet, and asks from 0.
LEMMA InitPagesInv == ApiInit => PagesInv
<1> SUFFICES ASSUME ApiInit PROVE PagesInv
  OBVIOUS
<1>1. /\ stored \subseteq Rows /\ asked \in Requests /\ offset = 0 /\ got = {} /\ first = {}
      /\ client = "lists"
  BY DEF ApiInit
<1>2. Cardinality({}) = 0 /\ Cardinality(Found) \in Nat
  BY <1>1, FoundFinite, FS_EmptySet
<1>3. QED
  BY <1>1, <1>2 DEF PagesInv

\* A page goes on where the last one ended, and a row with a time to itself that lies
\* within its places is on it.
LEMMA PageShows ==
  ASSUME PagesInv, NEW page \in Pages(stored, asked, offset)
  PROVE  /\ page \subseteq Found
         /\ offset + Cardinality(page) <= Cardinality(Found)
         /\ Cardinality(page) \in 0 .. Limit(asked)
         /\ Cardinality(page) < Limit(asked) => offset + Cardinality(page) = Cardinality(Found)
         /\ \A r \in Found :
              r \in page \/ r \in Tied
                \/ Cardinality(Above(Found, r.time)) < offset
                \/ Cardinality(Above(Found, r.time)) >= offset + Cardinality(page)
<1> DEFINE limit == Limit(asked)
           shown  == Cardinality(page)
           all   == Cardinality(Found)
<1>1. /\ stored \in SUBSET Rows /\ asked \in Requests /\ offset \in Nat /\ limit \in Nat
      /\ all \in Nat /\ offset <= all
  BY FoundFinite, LimitType DEF PagesInv
<1>2. page \subseteq Found
  BY PageIs DEF Found
<1>3. shown = Cardinality((1 .. all) \intersect (offset + 1) .. (offset + limit))
  BY <1>1, PageSize DEF Found, Window
<1> HIDE DEF limit, shown, all
<1>4. shown \in 0 .. limit /\ offset + shown = IF all < offset + limit THEN all ELSE offset + limit
  BY <1>1, <1>3, WindowSize
<1>5. offset + shown <= all /\ (shown < limit => offset + shown = all)
  BY <1>1, <1>4
<1>6. ASSUME NEW r \in Found, r \notin Tied,
             ~(Cardinality(Above(Found, r.time)) < offset),
             ~(Cardinality(Above(Found, r.time)) >= offset + shown)
      PROVE  r \in page
  <2> DEFINE t == r.time
             n == Cardinality(Above(Found, t))
  <2>1. n \in Nat /\ r \in stored /\ r \in Rows /\ t \in Times
    <3>1. n \in Nat /\ r \in stored /\ r \in Rows
      BY <1>1, FoundFinite
    <3>2. QED
      BY <3>1 DEF Rows
  <2>2. Same(Found, t) = {r}
    BY <1>1, <1>6, <2>1, FoundFinite DEF Same, Tied
  <2>3. Cardinality(Same(Found, t)) = 1
    BY <2>2, FS_Singleton
  <2>4. Cardinality(Same(page, t)) =
          Cardinality((n + 1) .. (n + 1) \intersect (offset + 1) .. (offset + limit))
    BY <2>1, <2>3, PageIs DEF Found, Window, limit
  <2>5. n >= offset /\ n < offset + shown
    <3> HIDE DEF n
    <3>1. ~(n < offset) /\ ~(n >= offset + shown) /\ n \in Nat
      BY <1>6, <2>1 DEF n
    <3>2. shown \in Nat
      BY <1>1, <1>4
    <3>3. QED
      BY <1>1, <3>1, <3>2
  <2> HIDE DEF n, t
  <2>6. (n + 1) .. (n + 1) \intersect (offset + 1) .. (offset + limit) = {n + 1}
    BY <1>1, <1>4, <2>1, <2>5
  <2>7. Cardinality(Same(page, t)) = 1
    BY <2>4, <2>6, FS_Singleton
  <2>8. Same(page, t) # {}
    BY <2>7, FS_EmptySet
  <2>9. Same(page, t) \subseteq Same(Found, t)
    BY <1>2 DEF Same
  <2>10. QED
    BY <2>2, <2>8, <2>9 DEF Same
<1>7. QED
  BY <1>2, <1>4, <1>5, <1>6 DEF limit, shown, all

\* Rows that arrive, the list and every page keep it.
LEMMA NextPagesInv == PagesInv /\ [ApiNext]_apiVars => PagesInv'
<1> SUFFICES ASSUME PagesInv, [ApiNext]_apiVars PROVE PagesInv'
  OBVIOUS
<1>1. CASE UNCHANGED apiVars
  BY <1>1 DEF apiVars, PagesInv, Found, Tied
<1>2. CASE WriteRow
  <2>1. /\ client = "asks" /\ UNCHANGED <<asked, offset, got, first, client>>
        /\ stored \subseteq stored' /\ stored' \subseteq Rows
    BY <1>2 DEF WriteRow, PagesInv
  <2>2. Found \subseteq Found' /\ Tied \subseteq Tied' /\ Found' \subseteq stored'
    BY <2>1 DEF Found, InRange, Tied
  <2>3. /\ IsFiniteSet(stored') /\ \A S \in SUBSET stored' : IsFiniteSet(S) /\ Cardinality(S) \in Nat
    BY <2>1, RowsFinite, FS_Subset, FS_CardinalityType
  <2>4. \A S, T : S \subseteq T /\ T \subseteq stored' => Cardinality(S) <= Cardinality(T)
    BY <2>3, FS_Subset
  <2>5. Cardinality(Found) <= Cardinality(Found') /\ Cardinality(Found) \in Nat
        /\ Cardinality(Found') \in Nat
    BY <2>2, <2>3, <2>4
  <2>6. \A t : /\ Cardinality(Above(Found, t)) <= Cardinality(Above(Found', t))
               /\ Cardinality(Above(Found, t)) \in Nat /\ Cardinality(Above(Found', t)) \in Nat
    <3> SUFFICES ASSUME NEW t
                 PROVE  /\ Cardinality(Above(Found, t)) <= Cardinality(Above(Found', t))
                        /\ Cardinality(Above(Found, t)) \in Nat
                        /\ Cardinality(Above(Found', t)) \in Nat
      OBVIOUS
    <3>1. /\ Above(Found, t) \subseteq Above(Found', t) /\ Above(Found', t) \subseteq stored'
      BY <2>2 DEF Above
    <3>2. QED
      BY <2>3, <2>4, <3>1
  <2>7. \A r \in first' : r \in got' \union Tied' \/ offset' <= Cardinality(Above(Found', r.time))
    BY <2>1, <2>2, <2>6 DEF PagesInv
  <2>8. offset' <= Cardinality(Found')
    BY <2>1, <2>5 DEF PagesInv
  <2>9. QED
    BY <2>1, <2>2, <2>7, <2>8 DEF PagesInv
<1>3. CASE GetGPUs
  <2>1. /\ client = "lists" /\ UNCHANGED <<stored, asked, offset, got>> /\ first' = Found
        /\ client' \in {"asks", "finished"}
        /\ client' = "finished" => stored = {}
    BY <1>3 DEF GetGPUs, Listed, Found
  <2>2. Found' = Found /\ Tied' = Tied
    BY <2>1 DEF Found, Tied
  <2>3. \A t : Cardinality(Above(Found, t)) \in Nat
    BY FoundFinite DEF PagesInv
  <2>4. \A r \in first' : offset' <= Cardinality(Above(Found', r.time))
    BY <2>1, <2>2, <2>3 DEF PagesInv
  <2>5. client' = "finished" => first' = {}
    BY <2>1 DEF Found, InRange
  <2>6. QED
    BY <2>1, <2>2, <2>4, <2>5 DEF PagesInv
<1>4. CASE Ask
  <2>1. client = "asks" /\ UNCHANGED <<stored, asked, first>> /\ Found' = Found /\ Tied' = Tied
    BY <1>4 DEF Ask, Found, Tied
  <2>2. CASE client' = "rejected" /\ UNCHANGED <<got, offset>>
    BY <2>1, <2>2 DEF PagesInv
  <2>3. ASSUME asked.valid, NEW page \in Pages(stored, asked, offset),
               got' = got \union page, offset' = offset + Cardinality(page),
               client' = IF Cardinality(page) < Limit(asked) THEN "finished" ELSE client
        PROVE  PagesInv'
    <3> DEFINE shown == Cardinality(page)
    <3>1. /\ page \subseteq Found /\ offset' <= Cardinality(Found) /\ shown \in 0 .. Limit(asked)
          /\ client' = "finished" => offset' = Cardinality(Found)
          /\ \A r \in Found : \/ r \in page \/ r \in Tied
                              \/ Cardinality(Above(Found, r.time)) < offset
                              \/ Cardinality(Above(Found, r.time)) >= offset'
      BY <2>1, <2>3, PageShows
    <3>2. shown \in Nat /\ Limit(asked) \in Nat /\ offset \in Nat /\ offset' \in Nat
      BY <2>3, <3>1, LimitType DEF PagesInv
    <3>3. /\ IsFiniteSet(got) /\ IsFiniteSet(page) /\ IsFiniteSet(Found)
          /\ Found \subseteq stored
          /\ \A t : IsFiniteSet(Above(Found, t)) /\ Cardinality(Above(Found, t)) \in Nat
      BY <3>1, FoundFinite DEF PagesInv
    <3>4. Cardinality(got') <= offset'
      <4>1. /\ Cardinality(got \union page) =
                 Cardinality(got) + shown - Cardinality(got \intersect page)
            /\ IsFiniteSet(got \intersect page)
        BY <3>3, FS_Union, FS_Subset
      <4>2. /\ Cardinality(got \intersect page) \in Nat /\ Cardinality(got) \in Nat
        BY <3>3, <4>1, FS_CardinalityType
      <4>3. Cardinality(got) <= offset
        BY DEF PagesInv
      <4> HIDE DEF shown
      <4>4. offset' = offset + shown
        BY <2>3 DEF shown
      <4>5. QED
        BY <2>3, <3>2, <4>1, <4>2, <4>3, <4>4
    <3>5. \A r \in first' : r \in got' \union Tied' \/ offset' <= Cardinality(Above(Found', r.time))
      <4> SUFFICES ASSUME NEW r \in first, r \notin got', r \notin Tied
                   PROVE  offset' <= Cardinality(Above(Found, r.time))
        BY <2>1
      <4> DEFINE n == Cardinality(Above(Found, r.time))
      <4>1. n \in Nat /\ r \in Found /\ r \notin page /\ r \notin got
        BY <2>3, <3>3 DEF PagesInv
      <4>2. offset <= n
        BY <2>1, <4>1 DEF PagesInv
      <4>3. n < offset \/ n >= offset'
        BY <3>1, <4>1
      <4> HIDE DEF n
      <4>4. offset' <= n
        BY <3>2, <4>1, <4>2, <4>3
      <4>5. QED
        BY <4>4 DEF n
    <3>6. client' = "finished" => first' \subseteq got' \union Tied'
      <4> SUFFICES ASSUME client' = "finished", NEW r \in first, r \notin got' \union Tied'
                   PROVE  FALSE
        BY <2>1
      <4> DEFINE above == Above(Found, r.time)
      <4>1. offset' <= Cardinality(above) /\ offset' = Cardinality(Found)
        BY <2>1, <3>1, <3>5
      <4>2. r \in Found /\ r \notin above /\ above \subseteq Found
        <5>1. r \in Found /\ r \in Rows
          BY <3>3 DEF PagesInv
        <5>2. ~(r.time > r.time)
          BY <5>1 DEF Rows, Times
        <5>3. QED
          BY <5>1, <5>2 DEF Above
      <4> HIDE DEF above
      <4>3. Cardinality(above) <= Cardinality(Found) /\ Cardinality(above) # Cardinality(Found)
        BY <3>3, <4>2, FS_Subset
      <4>4. Cardinality(above) \in Nat /\ Cardinality(Found) \in Nat
        BY <3>3, <4>2, FS_Subset, FS_CardinalityType
      <4>5. QED
        BY <4>1, <4>3, <4>4
    <3>7. client' \in {"asks", "finished"}
      BY <2>1, <2>3
    <3>8. QED
      BY <2>1, <2>3, <3>1, <3>2, <3>4, <3>5, <3>6, <3>7 DEF PagesInv
  <2>4. QED
    BY <1>4, <2>2, <2>3 DEF Ask
<1>5. QED
  BY <1>1, <1>2, <1>3, <1>4 DEF ApiNext

\* Nothing is missed or made up, but for rows of a shared time.
LEMMA PagesInvSound == PagesInv => PagesSound
<1> SUFFICES ASSUME PagesInv PROVE PagesSound
  OBVIOUS
<1> DEFINE all == Cardinality(Found)
<1>1. /\ IsFiniteSet(Found) /\ all \in Nat /\ got \subseteq Found /\ first \subseteq Found
      /\ offset \in Nat /\ offset <= all
  BY FoundFinite DEF PagesInv
<1>2. Found = stored \intersect Wanted /\ got \subseteq Wanted
  <2>1. Found = stored \intersect Wanted
    BY DEF PagesInv, Found, InRange, Wanted
  <2>2. QED
    BY <1>1, <2>1
<1> DEFINE arrived == Found \ first
           missed  == first \ got
<1>3. /\ IsFiniteSet(got) /\ IsFiniteSet(arrived) /\ IsFiniteSet(missed)
      /\ IsFiniteSet(Found \ got)
  BY <1>1, FS_Subset
<1>4. all = Cardinality(got) + Cardinality(Found \ got)
  <2>1. got \union (Found \ got) = Found /\ got \intersect (Found \ got) = {}
    BY <1>1
  <2>2. QED
    BY <1>3, <2>1, DisjointSum
<1>5. Cardinality(Found \ got) <= Cardinality(arrived) + Cardinality(missed)
  <2>1. Found \ got \subseteq arrived \union missed /\ arrived \intersect missed = {}
    OBVIOUS
  <2> HIDE DEF arrived, missed
  <2>2. /\ IsFiniteSet(arrived \union missed)
        /\ Cardinality(arrived \union missed) = Cardinality(arrived) + Cardinality(missed)
    BY <1>3, <2>1, DisjointSum
  <2>3. Cardinality(Found \ got) <= Cardinality(arrived \union missed)
    BY <2>1, <2>2, FS_Subset
  <2>4. QED
    BY <2>2, <2>3
<1>6. /\ Cardinality(got) \in Nat /\ Cardinality(Found \ got) \in Nat
      /\ Cardinality(arrived) \in Nat /\ Cardinality(missed) \in Nat
  BY <1>3, FS_CardinalityType
<1> HIDE DEF all, arrived, missed
<1>7. offset - Cardinality(got) <= Cardinality(arrived) + Cardinality(missed)
  BY <1>1, <1>4, <1>5, <1>6
<1>8. RepeatsAreArrivals
  BY <1>2, <1>7 DEF RepeatsAreArrivals, arrived, missed
<1>9. PagesMissNothing
  BY DEF PagesInv, PagesMissNothing
<1>10. QED
  BY <1>8, <1>9 DEF PagesSound

\* A client that reads page by page while rows arrive misses no row of the list, but
\* for those that share their time, and repeats no more rows than arrived or were
\* missed: GetGPUTelemetryByDateRange with any limit and dates.
THEOREM PagesStaySound == ServicesSpec => []PagesSound
<1>1. ServicesInit => PagesInv
  BY InitPagesInv DEF ServicesInit
<1>2. PagesInv /\ [ServicesNext]_servicesVars => PagesInv'
  <2>1. [ServicesNext]_servicesVars => [ApiNext]_apiVars
    BY DEF ServicesNext, Only, servicesVars
  <2>2. QED
    BY <2>1, NextPagesInv
<1>3. QED
  BY <1>1, <1>2, PagesInvSound, PTL DEF ServicesSpec

-----------------------------------------------------------------------------
(* The partitions the producer sends to.                                   *)

\* Partition x modulo their number has got a message of this attempt.
Hit(x) == x % numPartitions \in tried

\* The attempt began with the counter at s.  A failed call goes on by one partition, a
\* successful one by two, so of two neighbours one has been hit.
Began(s) ==
  /\ sentMessages = (s + index - failCount) % numPartitions
  /\ \A k \in 0 .. 2 * index - failCount - 1 : Hit(s + k) \/ (k > 0 /\ Hit(s + k - 1))
  /\ failCount = 0 => \A j \in 0 .. index - 1 : Hit(s + 2 * j)

\* A topic the producer made has the partitions it asked for, and nothing is sent before
\* the topic is known.
ChoiceInv ==
  /\ numPartitions \in Nat \ {0}
  /\ size \in Nat /\ index \in 0 .. size /\ failCount \in 0 .. index
  /\ tried \subseteq 0 .. numPartitions - 1
  /\ topic = "unknown" => size = 0
  /\ topic = "made" => there = numPartitions
  /\ topic \in {"unknown", "made", "found"}
  /\ OwnTopicTakesAll
  /\ \E s \in 0 .. numPartitions - 1 : Began(s)

\* An attempt that has sent nothing began where the counter is.
LEMMA BeganNow ==
  ASSUME NEW n \in Nat \ {0}, NEW x \in 0 .. n - 1, NEW i, NEW f, i = 0, f = 0
  PROVE  /\ x = (x + i - f) % n
         /\ 0 .. 2 * i - f - 1 = {} /\ 0 .. i - 1 = {}
<1>1. (n * 0 + x) % n = x
  BY Residue
<1>2. n * 0 + x = x + i - f
  OBVIOUS
<1>3. QED
  BY <1>1, <1>2

\* Nothing is sent at first.
LEMMA InitChoiceInv == ChoiceInit => ChoiceInv
<1> SUFFICES ASSUME ChoiceInit PROVE ChoiceInv
  OBVIOUS
<1>1. numPartitions \in Nat \ {0} /\ sentMessages \in 0 .. numPartitions - 1
      /\ index = 0 /\ failCount = 0 /\ size = 0 /\ tried = {} /\ topic = "unknown"
      /\ turnedAway = FALSE
  BY PartitionChoiceAssumption DEF ChoiceInit
<1>2. Began(sentMessages)
  BY <1>1, BeganNow DEF Began
<1>3. QED
  BY <1>1, <1>2 DEF ChoiceInv, OwnTopicTakesAll

\* Every call and every creation of the topic keeps it.
LEMMA NextChoiceInv == ChoiceInv /\ [ChoiceNext]_choiceVars => ChoiceInv'
<1> SUFFICES ASSUME ChoiceInv, [ChoiceNext]_choiceVars PROVE ChoiceInv'
  OBVIOUS
<1>1. PICK s \in 0 .. numPartitions - 1 : Began(s)
  BY DEF ChoiceInv
<1>2. /\ numPartitions \in Nat \ {0} /\ size \in Nat /\ index \in 0 .. size
      /\ failCount \in 0 .. index /\ s \in Nat
  BY <1>1 DEF ChoiceInv
<1>3. ASSUME UNCHANGED <<numPartitions, sentMessages, size, index, failCount, tried>>
      PROVE  \E x \in 0 .. numPartitions' - 1 : Began(x)'
  BY <1>1, <1>3 DEF Began, Hit
<1>4. CASE OtherCreates \/ OtherRollsBack
  <2>1. UNCHANGED <<numPartitions, sentMessages, size, index, failCount, topic, tried, turnedAway>>
        /\ topic # "made"
    BY <1>2, <1>4 DEF OtherCreates, OtherRollsBack, ChoiceInv
  <2>2. QED
    BY <1>3, <2>1 DEF ChoiceInv, OwnTopicTakesAll
<1>5. CASE ensureTopicExists
  <2>1. /\ UNCHANGED <<numPartitions, sentMessages, size, index, failCount, tried, turnedAway>>
        /\ topic = "unknown" /\ topic' \in {"made", "found"}
        /\ topic' = "made" => there' = numPartitions
    BY <1>5 DEF ensureTopicExists
  <2>2. QED
    BY <1>3, <2>1 DEF ChoiceInv, OwnTopicTakesAll
<1>6. CASE StartBatch
  <2>1. /\ topic # "unknown" /\ index' = 0 /\ failCount' = 0 /\ tried' = {}
        /\ UNCHANGED <<numPartitions, sentMessages, there, topic, turnedAway>>
        /\ size' \in Nat
    BY <1>2, <1>6, PartitionChoiceAssumption DEF StartBatch, topicVars
  <2>2. sentMessages \in 0 .. numPartitions - 1
    <3>1. s + index - failCount \in Nat
      BY <1>2
    <3>2. QED
      BY <1>1, <1>2, <3>1, DivideBy DEF Began
  <2>3. PICK x \in 0 .. numPartitions - 1 : x = sentMessages
    BY <2>2
  <2>5. x \in 0 .. numPartitions' - 1 /\ Began(x)'
    <3>1. /\ x = (x + index' - failCount') % numPartitions
          /\ 0 .. 2 * index' - failCount' - 1 = {} /\ 0 .. index' - 1 = {}
      BY <1>2, <2>1, BeganNow
    <3>2. QED
      BY <2>1, <2>3, <3>1 DEF Began
  <2>4. QED
    BY <1>2, <2>1, <2>5 DEF ChoiceInv, OwnTopicTakesAll
<1>7. CASE ProduceTo
  <2>0. PICK e \in Nat : e = 2 * index - failCount
    <3>1. 2 * index - failCount \in Nat
      BY <1>2
    <3>2. QED
      BY <3>1
  <2>1. /\ index < size /\ index' = index + 1 /\ tried' = tried \union {Chosen}
        /\ UNCHANGED <<numPartitions, size, there, topic>>
        /\ turnedAway' = (turnedAway \/ Chosen >= there)
        /\ \/ /\ sentMessages' = (sentMessages + 1) % numPartitions
              /\ failCount' = failCount
           \/ sentMessages' = sentMessages /\ failCount' = failCount + 1
    BY <1>7 DEF ProduceTo, topicVars
  <2>2. /\ index \in Nat /\ failCount \in Nat /\ s + index - failCount \in Nat
        /\ e = 2 * index - failCount /\ s + e \in Nat
    BY <1>2, <2>0
  <2>3. sentMessages = (s + index - failCount) % numPartitions
    BY <1>1 DEF Began
  <2>4. Chosen = (s + e) % numPartitions
    <3>1. (((s + index - failCount) % numPartitions) + index) % numPartitions
            = ((s + index - failCount) + index) % numPartitions
      BY <1>2, <2>2, AddMod
    <3>2. (s + index - failCount) + index = s + e
      BY <1>2, <2>2
    <3>3. QED
      BY <2>3, <3>1, <3>2 DEF Chosen
  <2>5. Chosen \in 0 .. numPartitions - 1
    BY <1>2, <2>2, <2>4, DivideBy
  <2>6. \A x : Hit(x) => Hit(x)'
    BY <2>1 DEF Hit
  <2>7. Hit(s + e)'
    BY <2>1, <2>4 DEF Hit
  <2>8. \A k \in 0 .. e - 1 : Hit(s + k) \/ (k > 0 /\ Hit(s + k - 1))
    BY <1>1, <2>2 DEF Began
  <2>9. ASSUME sentMessages' = (sentMessages + 1) % numPartitions, failCount' = failCount
        PROVE  Began(s)'
    <3>1. sentMessages' = (s + index' - failCount') % numPartitions'
      <4>1. (((s + index - failCount) % numPartitions) + 1) % numPartitions
              = ((s + index - failCount) + 1) % numPartitions
        BY <1>2, <2>2, AddMod
      <4>2. (s + index - failCount) + 1 = s + (index + 1) - failCount
        BY <1>2
      <4>3. QED
        BY <2>1, <2>3, <2>9, <4>1, <4>2
    <3>2. \A k \in 0 .. 2 * index' - failCount' - 1 :
             Hit(s + k)' \/ (k > 0 /\ Hit(s + k - 1)')
      <4> SUFFICES ASSUME NEW k \in 0 .. 2 * index' - failCount' - 1
                   PROVE  Hit(s + k)' \/ (k > 0 /\ Hit(s + k - 1)')
        OBVIOUS
      <4>1. k \in 0 .. e - 1 \/ k = e \/ k = e + 1
        BY <2>1, <2>2, <2>9
      <4>2. CASE k \in 0 .. e - 1
        BY <2>6, <2>8, <4>2
      <4>3. CASE k = e
        BY <2>7, <4>3
      <4>4. CASE k = e + 1
        <5>1. k > 0 /\ s + k - 1 = s + e
          BY <1>2, <2>2, <4>4
        <5>2. QED
          BY <2>7, <5>1
      <4>5. QED
        BY <4>1, <4>2, <4>3, <4>4
    <3>3. failCount' = 0 => \A j \in 0 .. index' - 1 : Hit(s + 2 * j)'
      <4> SUFFICES ASSUME failCount' = 0, NEW j \in 0 .. index' - 1
                   PROVE  Hit(s + 2 * j)'
        OBVIOUS
      <4>1. CASE j = index
        <5>1. s + 2 * j = s + e
          BY <1>2, <2>2, <2>9, <4>1
        <5>2. QED
          BY <2>7, <5>1
      <4>2. CASE j \in 0 .. index - 1
        BY <1>1, <2>6, <2>9, <4>2 DEF Began
      <4>3. QED
        BY <1>2, <2>1, <4>1, <4>2
    <3>4. QED
      BY <3>1, <3>2, <3>3 DEF Began, Hit
  <2>10. ASSUME sentMessages' = sentMessages, failCount' = failCount + 1
         PROVE  Began(s)'
    <3>1. s + index' - failCount' = s + index - failCount
      BY <1>2, <2>1, <2>10
    <3>2. \A k \in 0 .. 2 * index' - failCount' - 1 :
             Hit(s + k)' \/ (k > 0 /\ Hit(s + k - 1)')
      <4> SUFFICES ASSUME NEW k \in 0 .. 2 * index' - failCount' - 1
                   PROVE  Hit(s + k)' \/ (k > 0 /\ Hit(s + k - 1)')
        OBVIOUS
      <4>1. k \in 0 .. e - 1 \/ k = e
        BY <2>1, <2>2, <2>10
      <4>2. CASE k \in 0 .. e - 1
        BY <2>6, <2>8, <4>2
      <4>3. CASE k = e
        BY <2>7, <4>3
      <4>4. QED
        BY <4>1, <4>2, <4>3
    <3>3. failCount' # 0
      BY <2>2, <2>10
    <3>5. sentMessages' = (s + index' - failCount') % numPartitions'
      BY <2>1, <2>3, <2>10, <3>1
    <3>4. QED
      BY <3>2, <3>3, <3>5 DEF Began, Hit
  <2>11. OwnTopicTakesAll'
    <3>1. topic # "unknown"
      BY <1>2, <2>1 DEF ChoiceInv
    <3>2. topic = "made" => ~ (Chosen >= there)
      BY <1>2, <2>5 DEF ChoiceInv
    <3>3. QED
      BY <2>1, <3>1, <3>2 DEF ChoiceInv, OwnTopicTakesAll
  <2>12. index' \in 0 .. size' /\ failCount' \in 0 .. index'
         /\ tried' \subseteq 0 .. numPartitions' - 1
    BY <1>2, <2>1, <2>5 DEF ChoiceInv
  <2>13. s \in 0 .. numPartitions' - 1 /\ Began(s)'
    BY <1>1, <2>1, <2>9, <2>10
  <2>14. QED
    BY <1>2, <2>1, <2>11, <2>12, <2>13 DEF ChoiceInv
<1>8. CASE UNCHANGED choiceVars
  BY <1>3, <1>8 DEF choiceVars, topicVars, ChoiceInv, OwnTopicTakesAll
<1>9. QED
  BY <1>4, <1>5, <1>6, <1>7, <1>8 DEF ChoiceNext

\* Every partition lies less than a round ahead of the start.
LEMMA WithinARound ==
  ASSUME NEW n \in Nat \ {0}, NEW s \in 0 .. n - 1, NEW r \in 0 .. n - 1
  PROVE  \E k \in 0 .. n - 1 : (s + k) % n = r /\ (s + (k + n)) % n = r
<1>1. CASE r >= s
  <2>1. PICK k \in 0 .. n - 1 : k = r - s
    BY <1>1
  <2>2. n * 0 + r = s + k /\ n * 1 + r = s + (k + n)
    BY <2>1
  <2>3. (n * 0 + r) % n = r /\ (n * 1 + r) % n = r
    BY Residue
  <2>4. QED
    BY <2>2, <2>3
<1>2. CASE r < s
  <2>1. PICK k \in 0 .. n - 1 : k = (r - s) + n
    BY <1>2
  <2>2. n * 1 + r = s + k /\ n * 2 + r = s + (k + n)
    BY <2>1
  <2>3. (n * 1 + r) % n = r /\ (n * 2 + r) % n = r
    BY Residue
  <2>4. QED
    BY <2>2, <2>3
<1>3. QED
  BY <1>1, <1>2

\* Every partition or the one before it is hit, so at least half of them are; without
\* a failed call every second one is, and over two rounds of an odd number that is all.
LEMMA ChoiceReachesHalf == ChoiceInv => BatchReachesHalf
<1> SUFFICES ASSUME ChoiceInv, index = size, size >= numPartitions
             PROVE  /\ 2 * Cardinality(tried) >= numPartitions
                    /\ (failCount = 0 /\ numPartitions % 2 = 1)
                         => tried = 0 .. numPartitions - 1
  BY DEF BatchReachesHalf
<1>1. PICK s \in 0 .. numPartitions - 1 : Began(s)
  BY DEF ChoiceInv
<1>2. /\ numPartitions \in Nat \ {0} /\ index \in Nat /\ failCount \in 0 .. index
      /\ tried \subseteq 0 .. numPartitions - 1 /\ index >= numPartitions
  BY DEF ChoiceInv
<1> DEFINE After(t) == (t + 1) % numPartitions
<1>3. ASSUME NEW r \in 0 .. numPartitions - 1
      PROVE  r \in tried \/ \E t \in tried : r = After(t)
  <2>1. PICK k \in 0 .. numPartitions - 1 : (s + k) % numPartitions = r
    BY <1>2, WithinARound
  <2>2. k \in 0 .. 2 * index - failCount - 1
    BY <1>2
  <2>3. Hit(s + k) \/ (k > 0 /\ Hit(s + k - 1))
    BY <1>1, <2>2 DEF Began
  <2>4. CASE Hit(s + k)
    BY <2>1, <2>4 DEF Hit
  <2>5. CASE k > 0 /\ Hit(s + k - 1)
    <3>1. s + k - 1 \in Nat
      BY <1>2, <2>5
    <3>2. (((s + k - 1) % numPartitions) + 1) % numPartitions
            = ((s + k - 1) + 1) % numPartitions
      BY <1>2, <3>1, AddMod
    <3>3. (s + k - 1) + 1 = s + k
      BY <1>2
    <3>4. QED
      BY <2>1, <2>5, <3>2, <3>3 DEF Hit
  <2>6. QED
    BY <2>3, <2>4, <2>5
<1>4. 2 * Cardinality(tried) >= numPartitions
  <2> DEFINE T == tried
             next == [t \in T |-> After(t)]
             U == {next[t] : t \in T}
  <2>1. IsFiniteSet(T)
    <3>1. IsFiniteSet(0 .. numPartitions - 1)
      BY <1>2, FS_Interval
    <3>2. QED
      BY <1>2, <3>1, FS_Subset
  <2>2. IsFiniteSet(U) /\ Cardinality(U) <= Cardinality(T)
    <3> HIDE DEF next, T
    <3>1. QED
      BY <2>1, ImageNoLarger
  <2>3. 0 .. numPartitions - 1 \subseteq T \union U
    <3> SUFFICES ASSUME NEW r \in 0 .. numPartitions - 1, r \notin T
                 PROVE  r \in U
      OBVIOUS
    <3>1. PICK t \in T : r = After(t)
      BY <1>3
    <3>2. r = next[t]
      BY <3>1
    <3>3. QED
      BY <3>2
  <2> HIDE DEF next, U, After
  <2>4. /\ IsFiniteSet(T \union U)
        /\ Cardinality(T \union U) = Cardinality(T) + Cardinality(U) - Cardinality(T \intersect U)
    BY <2>1, <2>2, FS_Union
  <2>5. Cardinality(0 .. numPartitions - 1) = numPartitions
    BY <1>2, FS_Interval
  <2>6. Cardinality(0 .. numPartitions - 1) <= Cardinality(T \union U)
    BY <2>3, <2>4, FS_Subset
  <2>7. /\ Cardinality(T) \in Nat /\ Cardinality(U) \in Nat
        /\ Cardinality(T \intersect U) \in Nat
    <3>1. IsFiniteSet(T \intersect U)
      BY <2>1, FS_Subset
    <3>2. QED
      BY <2>1, <2>2, <3>1, FS_CardinalityType
  <2>8. QED
    BY <1>2, <2>2, <2>4, <2>5, <2>6, <2>7
<1>5. ASSUME failCount = 0, numPartitions % 2 = 1
      PROVE  tried = 0 .. numPartitions - 1
  <2> SUFFICES ASSUME NEW r \in 0 .. numPartitions - 1
               PROVE  r \in tried
    BY <1>2
  <2>1. PICK k \in 0 .. numPartitions - 1 :
          (s + k) % numPartitions = r /\ (s + (k + numPartitions)) % numPartitions = r
    BY <1>2, WithinARound
  <2>2. \A j \in 0 .. index - 1 : Hit(s + 2 * j)
    BY <1>1, <1>5 DEF Began
  <2>3. CASE k % 2 = 0
    <3>1. PICK j \in 0 .. index - 1 : 2 * j = k
      <4>1. k = 2 * (k \div 2) /\ k \div 2 \in 0 .. index - 1
        BY <1>2, <2>3
      <4>2. QED
        BY <4>1
    <3>2. QED
      BY <2>1, <2>2, <3>1 DEF Hit
  <2>4. CASE k % 2 = 1
    <3>1. PICK j \in 0 .. index - 1 : 2 * j = k + numPartitions
      <4>1. /\ k + numPartitions = 2 * ((k + numPartitions) \div 2)
            /\ (k + numPartitions) \div 2 \in 0 .. index - 1
        BY <1>2, <1>5, <2>4
      <4>2. QED
        BY <4>1
    <3>2. QED
      BY <2>1, <2>2, <3>1 DEF Hit
  <2>5. QED
    BY <2>3, <2>4
<1>6. QED
  BY <1>4, <1>5

-----------------------------------------------------------------------------
(* The streamer and its producer.                                          *)

\* The rows before the reader's have been parsed, and are in the channel or with main.
\* A reader that is through with the file stopped at its end or at a row that cannot be
\* parsed, and main goes on without a signal only when there is nothing left.
ReaderInv ==
  /\ \A j \in 1 .. line - 1 : rows[j]
  /\ line - 1 <= read + queued
  /\ reader = "send" => rows[line]
  /\ reader \in {"open", "ended"} /\ ~cancelled /\ line > 1 => Readable \subseteq 1 .. line - 1
  /\ main # "stream" /\ ~signalled => reader = "ended" /\ queued = 0

\* The inductive invariant.
StreamInv == ProducerInv /\ CopiesInv /\ StreamTypeOK /\ ReaderInv

\* What the invariant says of the numbers.
LEMMA StreamTypes ==
  ASSUME StreamInv
  PROVE  /\ line \in Nat \ {0} /\ queued \in Nat /\ read \in Nat /\ faults \in Nat
         /\ Len(rows) \in Nat /\ line \in 1 .. Len(rows) + 1
<1>1. /\ rows \in Files /\ queued \in 0 .. ChannelLimit /\ line \in 1 .. (Len(rows) + 1)
      /\ read \in 0 .. MaxRecords /\ faults \in 0 .. MaxFaults
  BY DEF StreamInv, StreamTypeOK, ProducerInv, TypeOK
<1>2. rows \in Seq(BOOLEAN)
  BY <1>1, StreamerAssumption
<1>3. Len(rows) \in Nat
  BY <1>2
<1>4. QED
  BY <1>1, <1>3, StreamerAssumption, ProducerAssumption

\* An error of the file does nothing to the producer.
LEMMA FailKeepsProducer ==
  ASSUME ProducerInv, CopiesInv, Fail,
         UNCHANGED <<batch, batchMu, sending, main, ticker, flusher, result, done, log,
                     read, refused, failed>>
  PROVE  ProducerInv' /\ CopiesInv'
<1>1. faults \in 0 .. MaxFaults /\ faults' = faults + 1 /\ faults < MaxFaults
  BY DEF Fail, ProducerInv, TypeOK
<1>2. faults' \in 0 .. MaxFaults /\ faults' # 0
  BY <1>1, ProducerAssumption
<1>3. TypeOK'
  BY <1>2 DEF ProducerInv, TypeOK
<1>4. Accounted' /\ RefusedInv' /\ SendInv' /\ FlushInv'
  BY DEF ProducerInv, Accounted, Queued, Appended, RefusedInv, SendInv, FlushInv
<1>5. CleanInv'
  BY <1>2 DEF CleanInv
<1>6. CopiesInv'
  BY DEF CopiesInv, Produced
<1>7. QED
  BY <1>3, <1>4, <1>5, <1>6 DEF ProducerInv

\* A step of the producer, or none, keeps its invariant.
LEMMA ProducerKeeps ==
  ASSUME ProducerInv, CopiesInv, [Next]_vars
  PROVE  ProducerInv' /\ CopiesInv'
<1>1. CopiesInv'
  BY CopiesStep
<1>2. QED
  BY <1>1, TypeStep, AccountedStep, SendStep, FlushStep, CleanStep DEF ProducerInv

\* The streamer begins with nothing read.
LEMMA InitStreamInv == StreamInit => StreamInv
<1> SUFFICES ASSUME StreamInit PROVE StreamInv
  OBVIOUS
<1>1. /\ Init /\ rows \in Files /\ loopFile \in BOOLEAN /\ reader = "open" /\ line = 1
      /\ queued = 0 /\ signalled = FALSE /\ cancelled = FALSE /\ read = 0 /\ main = "stream"
  BY DEF StreamInit, Init
<1>2. ProducerInv /\ CopiesInv
  BY <1>1, InitEstablishes, InitCopies
<1>3. Len(rows) \in Nat
  <2>1. rows \in Seq(BOOLEAN)
    BY <1>1, StreamerAssumption
  <2>2. QED
    BY <2>1
<1>4. StreamTypeOK
  <2>1. line \in 1 .. (Len(rows) + 1) /\ queued \in 0 .. ChannelLimit /\ reader # "send"
    BY <1>1, <1>3, StreamerAssumption
  <2>2. QED
    BY <1>1, <2>1, Zenon DEF StreamTypeOK
<1>5. 1 .. line - 1 = {}
  BY <1>1
<1>6. ReaderInv
  BY <1>1, <1>5 DEF ReaderInv
<1>7. QED
  BY <1>2, <1>4, <1>6 DEF StreamInv

\* The reader and the channel, in a step that keeps main where it is and reads nothing.
LEMMA ReaderStep ==
  ASSUME StreamInv, OpenFile \/ ReadRow \/ SendRow \/ CancelReader
  PROVE  StreamInv'
<1>1. StreamTypeOK /\ ReaderInv /\ ProducerInv /\ CopiesInv
  BY DEF StreamInv
<1>2. /\ line \in Nat \ {0} /\ queued \in Nat /\ read \in Nat
      /\ Len(rows) \in Nat /\ line \in 1 .. Len(rows) + 1
  BY StreamTypes
<1>3. UNCHANGED <<rows, loopFile, signalled, cancelled, main, read>> /\ reader # "ended"
  BY DEF OpenFile, ReadRow, SendRow, CancelReader, readerOnly, vars
<1>4. ProducerInv' /\ CopiesInv'
  <2>1. CASE UNCHANGED vars
    BY <1>1, <2>1, ProducerKeeps
  <2>2. CASE OpenFile
    <3>1. CASE Works
      <4>1. UNCHANGED vars
        BY <2>2, <3>1 DEF OpenFile, Works, vars
      <4>2. QED
        BY <1>1, <4>1, ProducerKeeps
    <3>2. CASE Fail
      <4>1. UNCHANGED <<batch, batchMu, sending, main, ticker, flusher, result, done, log,
                        read, refused, failed>>
        BY <2>2 DEF OpenFile
      <4>2. QED
        BY <1>1, <3>2, <4>1, FailKeepsProducer
    <3>3. QED
      BY <2>2, <3>1, <3>2 DEF OpenFile
  <2>3. QED
    BY <2>1, <2>2 DEF ReadRow, SendRow, CancelReader
<1>5. main = "stream" \/ signalled
  BY <1>1, <1>3 DEF ReaderInv
<1>6. CASE OpenFile
  <2>1. \/ reader' = "read" /\ line' = 1
        \/ reader' = "ended" /\ line' = line
    BY <1>6 DEF OpenFile
  <2>2. reader = "open" /\ ~cancelled /\ queued' = queued
    BY <1>6 DEF OpenFile
  <2>3. StreamTypeOK'
    BY <1>1, <1>2, <1>3, <2>1, <2>2 DEF StreamTypeOK
  <2>4. ReaderInv'
    BY <1>1, <1>2, <1>3, <1>5, <2>1, <2>2 DEF ReaderInv, Readable
  <2>5. QED
    BY <1>4, <2>3, <2>4 DEF StreamInv
<1>7. CASE ReadRow
  <2>1. UNCHANGED <<line, queued>> /\ reader = "read"
    BY <1>7 DEF ReadRow
  <2>2. \/ reader' = "send" /\ line <= Len(rows) /\ rows[line]
        \/ reader' \in {"open", "ended"} /\ ~ (line <= Len(rows) /\ rows[line])
    BY <1>7 DEF ReadRow
  <2>3. StreamTypeOK'
    BY <1>1, <1>2, <1>3, <2>1, <2>2 DEF StreamTypeOK
  <2>4. reader' # "send" => Readable \subseteq 1 .. line - 1
    <3> SUFFICES ASSUME ~ (line <= Len(rows) /\ rows[line]), NEW i \in Readable
                 PROVE  i \in 1 .. line - 1
      BY <2>2
    <3>1. i \in 1 .. Len(rows) /\ \A j \in 1 .. i : rows[j]
      BY DEF Readable
    <3>2. i >= line => line \in 1 .. i /\ line <= Len(rows)
      BY <1>2, <3>1
    <3>3. QED
      BY <1>2, <3>1, <3>2
  <2>5. Readable' = Readable
    BY <1>3 DEF Readable
  <2>6. ReaderInv'
    BY <1>1, <1>3, <1>5, <2>1, <2>2, <2>4, <2>5 DEF ReaderInv
  <2>7. QED
    BY <1>4, <2>3, <2>6 DEF StreamInv
<1>8. CASE SendRow
  <2>1. /\ reader = "send" /\ queued < ChannelLimit /\ queued' = queued + 1
        /\ line' = line + 1 /\ reader' = "read"
    BY <1>8 DEF SendRow
  <2>2. line <= Len(rows) /\ rows[line] /\ queued \in 0 .. ChannelLimit
    BY <1>1, <2>1 DEF StreamTypeOK, ReaderInv
  <2>3. StreamTypeOK'
    BY <1>1, <1>2, <1>3, <2>1, <2>2, StreamerAssumption DEF StreamTypeOK
  <2>4. \A j \in 1 .. line' - 1 : rows'[j]
    <3>1. \A j \in 1 .. line : j \in 1 .. line - 1 \/ j = line
      BY <1>2
    <3>2. line' - 1 = line
      BY <1>2, <2>1
    <3>3. QED
      BY <1>1, <1>3, <2>2, <3>1, <3>2 DEF ReaderInv
  <2>5. line' - 1 <= read' + queued'
    BY <1>1, <1>2, <1>3, <2>1 DEF ReaderInv
  <2>6. ReaderInv'
    BY <1>3, <1>5, <2>1, <2>4, <2>5 DEF ReaderInv
  <2>7. QED
    BY <1>4, <2>3, <2>6 DEF StreamInv
<1>9. CASE CancelReader
  <2>1. cancelled /\ reader' = "ended" /\ UNCHANGED <<line, queued>>
    BY <1>9 DEF CancelReader
  <2>2. StreamTypeOK' /\ ReaderInv'
    BY <1>1, <1>3, <1>5, <2>1 DEF StreamTypeOK, ReaderInv
  <2>3. QED
    BY <1>4, <2>2 DEF StreamInv
<1>10. QED
  BY <1>6, <1>7, <1>8, <1>9

\* Every step of the streamer keeps the invariant.
LEMMA NextStreamInv == StreamInv /\ [StreamNext]_<<vars, streamVars>> => StreamInv'
<1> SUFFICES ASSUME StreamInv, [StreamNext]_<<vars, streamVars>>
             PROVE  StreamInv'
  OBVIOUS
<1>1. StreamTypeOK /\ ReaderInv /\ ProducerInv /\ CopiesInv
  BY DEF StreamInv
<1>2. /\ line \in Nat \ {0} /\ queued \in Nat /\ read \in Nat
      /\ Len(rows) \in Nat /\ line \in 1 .. Len(rows) + 1
  BY StreamTypes
<1>3. CASE Reader
  BY <1>3, ReaderStep DEF Reader
<1>4. CASE StreamRecord
  <2>1. /\ SendMessage /\ queued > 0 /\ queued' = queued - 1 /\ read' = read + 1
        /\ main = "stream" /\ main' = "stream"
        /\ UNCHANGED <<rows, loopFile, signalled, cancelled, reader, line>>
    BY <1>4 DEF StreamRecord, SendMessage, Streaming, readerOnly
  <2>2. ProducerInv' /\ CopiesInv'
    BY <1>1, <2>1, ProducerKeeps DEF Next
  <2>3. StreamTypeOK'
    BY <1>1, <1>2, <2>1, StreamerAssumption DEF StreamTypeOK
  <2>4. ReaderInv'
    BY <1>1, <1>2, <2>1 DEF ReaderInv, Readable
  <2>5. QED
    BY <2>2, <2>3, <2>4 DEF StreamInv
<1>5. CASE ChannelEnds
  <2>1. StartFlush /\ reader = "ended" /\ queued = 0 /\ UNCHANGED streamVars /\ UNCHANGED read
    BY <1>5 DEF ChannelEnds, StartFlush
  <2>2. ProducerInv' /\ CopiesInv'
    BY <1>1, <2>1, ProducerKeeps DEF Next
  <2>3. StreamTypeOK' /\ ReaderInv'
    BY <1>1, <2>1 DEF StreamTypeOK, ReaderInv, Readable, streamVars
  <2>4. QED
    BY <2>2, <2>3 DEF StreamInv
<1>6. CASE Signal
  <2>1. /\ StartFlush /\ signalled' = TRUE /\ UNCHANGED read
        /\ UNCHANGED <<rows, loopFile, reader, line, queued, cancelled>>
    BY <1>6 DEF Signal, StartFlush
  <2>2. ProducerInv' /\ CopiesInv'
    BY <1>1, <2>1, ProducerKeeps DEF Next
  <2>3. StreamTypeOK' /\ ReaderInv'
    BY <1>1, <2>1 DEF StreamTypeOK, ReaderInv, Readable
  <2>4. QED
    BY <2>2, <2>3 DEF StreamInv
<1>7. CASE CancelContext
  <2>1. /\ cancelled' = TRUE /\ UNCHANGED vars /\ UNCHANGED <<read, main>>
        /\ UNCHANGED <<rows, loopFile, reader, line, queued, signalled>>
    BY <1>7 DEF CancelContext, vars
  <2>2. ProducerInv' /\ CopiesInv'
    BY <1>1, <2>1, ProducerKeeps
  <2>3. StreamTypeOK' /\ ReaderInv'
    BY <1>1, <2>1 DEF StreamTypeOK, ReaderInv, Readable
  <2>4. QED
    BY <2>2, <2>3 DEF StreamInv
<1>8. CASE Producing /\ UNCHANGED streamVars
  <2>1. Next
    BY <1>8 DEF Producing, Next
  <2>2. UNCHANGED read /\ (main' # "stream" => main # "stream")
    <3>1. CASE Send
      BY <3>1 DEF Send, StartAttempt, ProduceMessage, EndAttempt
    <3>2. CASE Shutdown
      BY <3>2 DEF Shutdown, FlushReturns, Close, CloseReturns
    <3>3. CASE Tick \/ StopTicker \/ TickerFlush \/ Flush
      BY <3>3 DEF Tick, StopTicker, TickerFlush, Flush
    <3>4. QED
      BY <1>8, <3>1, <3>2, <3>3 DEF Producing
  <2>3. ProducerInv' /\ CopiesInv'
    BY <1>1, <2>1, ProducerKeeps
  <2>4. StreamTypeOK' /\ ReaderInv'
    BY <1>1, <1>8, <2>2 DEF StreamTypeOK, ReaderInv, Readable, streamVars
  <2>5. QED
    BY <2>3, <2>4 DEF StreamInv
<1>9. CASE UNCHANGED <<vars, streamVars>>
  <2>1. ProducerInv' /\ CopiesInv'
    BY <1>1, <1>9, ProducerKeeps
  <2>2. StreamTypeOK' /\ ReaderInv'
    BY <1>1, <1>9 DEF StreamTypeOK, ReaderInv, Readable, streamVars, vars
  <2>3. QED
    BY <2>1, <2>2 DEF StreamInv
<1>10. QED
  BY <1>3, <1>4, <1>5, <1>6, <1>7, <1>8, <1>9 DEF StreamNext, Loop

\* When main stops by itself the channel is empty and the reader through, so what it
\* parsed has been read; and no record was appended too often.
LEMMA StreamInvSound == StreamInv => StopsWithWholeFile /\ CopiesBounded
<1> SUFFICES ASSUME StreamInv PROVE StopsWithWholeFile /\ CopiesBounded
  OBVIOUS
<1>1. CopiesBounded
  BY DEF StreamInv, CopiesInv, CopiesBounded, Count, Places
<1>2. ASSUME main # "stream", ~signalled, reader = "ended", ~cancelled, line > 1
      PROVE  read >= Cardinality(Readable)
  <2>1. /\ line \in Nat \ {0} /\ read \in Nat /\ queued = 0
        /\ line - 1 <= read + queued /\ Readable \subseteq 1 .. line - 1
    BY <1>2, StreamTypes DEF StreamInv, ReaderInv
  <2>2. IsFiniteSet(1 .. line - 1) /\ Cardinality(1 .. line - 1) = line - 1
    BY <2>1, FS_Interval
  <2>3. Cardinality(Readable) <= line - 1 /\ Cardinality(Readable) \in Nat
    BY <2>1, <2>2, FS_Subset, FS_CardinalityType
  <2>4. QED
    BY <2>1, <2>3
<1>3. QED
  BY <1>1, <1>2 DEF StopsWithWholeFile

\* The streamer delivers what it read: when it stops by itself it has read the whole
\* file, up to a row that cannot be parsed, no record is appended more often than there
\* are attempts, and a batch of at least as many messages as there are partitions
\* reaches half of them, of a topic it made itself none that is not there.
THEOREM StreamKeepsDelivering == ServicesSpec => []StreamDelivers
<1> DEFINE IInv == StreamInv /\ ChoiceInv
<1>1. ServicesInit => IInv
  BY InitStreamInv, InitChoiceInv DEF ServicesInit
<1>2. IInv /\ [ServicesNext]_servicesVars => IInv'
  <2> SUFFICES ASSUME IInv, [ServicesNext]_servicesVars PROVE IInv'
    OBVIOUS
  <2>1. [StreamNext]_<<vars, streamVars>>
    BY DEF ServicesNext, Only, servicesVars
  <2>2. [ChoiceNext]_choiceVars
    BY DEF ServicesNext, Only, servicesVars
  <2>3. QED
    BY <2>1, <2>2, NextStreamInv, NextChoiceInv
<1>3. IInv => StreamDelivers
  BY StreamInvSound, ChoiceReachesHalf DEF StreamDelivers, ChoiceInv
<1>4. QED
  BY <1>1, <1>2, <1>3, PTL DEF ServicesSpec

-----------------------------------------------------------------------------
(* The types of all parts.                                                 *)

\* While the topic is waited for there are attempts left.
LifeTypes ==
  /\ LifecycleTypeOK
  /\ stage \in {"begin", "topic"} => attempts < MaxAttempts

\* A main begins with all its attempts.
LEMMA InitLifeTypes == LifecycleInit => LifeTypes
<1> SUFFICES ASSUME LifecycleInit PROVE LifeTypes
  OBVIOUS
<1>1. attempts = 0 /\ signals = 0 /\ MaxAttempts \in Nat \ {0} /\ MaxSignals \in Nat
  BY LifecycleAssumption DEF LifecycleInit
<1>2. attempts \in 0 .. MaxAttempts /\ signals \in 0 .. MaxSignals /\ attempts < MaxAttempts
  BY <1>1
<1>3. QED
  BY <1>2 DEF LifecycleInit, LifeTypes, LifecycleTypeOK, Starting, Over

\* The stages of main.
Stages ==
  Starting \union Over
  \union {"notified", "waits", "drain", "deregister", "defers", "returns", "close", "hangs"}

\* Every step of a main keeps its types.
LEMMA NextLifeTypes ==
  LifeInv /\ LifeTypes /\ LifeInv' /\ [LifecycleNext]_lifeVars => LifeTypes'
<1> SUFFICES ASSUME LifeInv, LifeTypes, LifeInv', [LifecycleNext]_lifeVars PROVE LifeTypes'
  OBVIOUS
<1>1. /\ service' \in {"broker", "collector", "api"}
      /\ call' \in [Calls -> {"unsent", "running", "answered", "failed", "cut"}]
  BY DEF LifeInv
<1>2. /\ attempts \in 0 .. MaxAttempts /\ signals \in 0 .. MaxSignals
      /\ MaxAttempts \in Nat \ {0} /\ MaxSignals \in Nat
      /\ stage \in Stages /\ (stage \in {"begin", "topic"} => attempts < MaxAttempts)
      /\ listener \in {"closed", "starting", "open", "failed", "draining"}
      /\ sigChan \in BOOLEAN /\ influx \in {"none", "open", "closed"}
      /\ recordsLeft \in BOOLEAN /\ overdue \in BOOLEAN
      /\ stage = "hangs" => service = "collector" /\ recordsLeft
  BY LifecycleAssumption DEF LifeTypes, LifecycleTypeOK, Stages
<1>3. ASSUME /\ stage' \in Stages
             /\ stage' \in {"begin", "topic"} => attempts' < MaxAttempts
             /\ attempts' \in 0 .. MaxAttempts /\ signals' \in 0 .. MaxSignals
             /\ listener' \in {"closed", "starting", "open", "failed", "draining"}
             /\ sigChan' \in BOOLEAN /\ influx' \in {"none", "open", "closed"}
             /\ recordsLeft' \in BOOLEAN /\ overdue' \in BOOLEAN
             /\ stage' = "hangs" => service' = "collector" /\ recordsLeft'
      PROVE  LifeTypes'
  BY <1>1, <1>3 DEF LifeTypes, LifecycleTypeOK, Stages
<1>4. CASE UNCHANGED lifeVars
  BY <1>2, <1>3, <1>4 DEF lifeVars
<1>5. ASSUME NEW c \in Calls, Accept(c) \/ Answer(c)
      PROVE  LifeTypes'
  BY <1>2, <1>3, <1>5 DEF Accept, Answer
<1>6. CASE NotifySignal
  <2>1. /\ signals < MaxSignals /\ signals' = signals + 1
        /\ UNCHANGED <<service, listener, influx, attempts, recordsLeft, overdue>>
        /\ \/ stage' = "killed" /\ UNCHANGED sigChan
           \/ sigChan' = TRUE /\ UNCHANGED stage
    BY <1>6 DEF NotifySignal, EndAs
  <2>2. signals' \in 0 .. MaxSignals
    BY <1>2, <2>1
  <2>3. QED
    BY <1>2, <1>3, <2>1, <2>2 DEF Stages, Over
<1>7. CASE ServeFails \/ ExitBroker \/ ExitApi
  <2>1. /\ stage' \in {"fatal", "exited"}
        /\ UNCHANGED <<service, listener, sigChan, signals, influx, attempts, recordsLeft, overdue>>
    BY <1>7 DEF ServeFails, ExitBroker, ExitApi, EndAs
  <2>2. QED
    BY <1>2, <1>3, <2>1 DEF Stages, Over
<1>8. CASE CloseCollector
  <2>1. /\ service = "collector" /\ influx' \in {influx, "closed"}
        /\ UNCHANGED <<service, listener, sigChan, signals, attempts, recordsLeft, overdue>>
        /\ stage' = "exited" \/ (stage' = "hangs" /\ recordsLeft)
    BY <1>8 DEF CloseCollector, EndAs
  <2>2. QED
    BY <1>2, <1>3, <2>1 DEF Stages, Over
<1>9. CASE WaitForTopicMetadata
  <2>1. /\ stage = "topic" /\ service = "collector"
        /\ UNCHANGED <<service, listener, call, sigChan, signals, influx, recordsLeft, overdue>>
        /\ \/ stage' = "join" /\ UNCHANGED attempts
           \/ /\ attempts' = attempts + 1
              /\ stage' = IF attempts' = MaxAttempts THEN "join" ELSE "topic"
    BY <1>9 DEF WaitForTopicMetadata, Main
  <2>2. attempts' \in 0 .. MaxAttempts /\ (stage' = "topic" => attempts' < MaxAttempts)
        /\ stage' \in {"join", "topic"}
    BY <1>2, <2>1
  <2>3. QED
    BY <1>2, <1>3, <2>1, <2>2 DEF Stages, Starting
<1>10. CASE \/ StartBroker \/ ServeBroker \/ OpenRepository \/ StartCollector
            \/ ListenAndServe \/ JoinInitially \/ StartSources
            \/ Notify \/ AwaitSignal \/ TakeSignal \/ CollectOrFlush
  <2>1. /\ UNCHANGED <<service, attempts, signals, overdue>>
        /\ sigChan' = sigChan \/ sigChan' = FALSE
        /\ influx' \in {influx, "none", "open"}
        /\ listener' \in {listener, "starting", "open", "failed", "draining"}
        /\ recordsLeft' = recordsLeft \/ recordsLeft' = ~recordsLeft
    BY <1>10 DEF StartBroker, ServeBroker, OpenRepository, StartCollector, ListenAndServe,
       JoinInitially, StartSources, Notify, AwaitSignal, TakeSignal, CollectOrFlush
  <2>2. /\ (stage' \in Stages /\ stage' # "begin") \/ stage' = stage
        /\ stage' = "topic" => stage \in {"begin", "topic"}
        /\ stage' = "hangs" => stage = "hangs" /\ recordsLeft' = recordsLeft
    BY <1>10 DEF StartBroker, ServeBroker, OpenRepository, StartCollector, ListenAndServe,
       JoinInitially, StartSources, Notify, AwaitSignal, TakeSignal, CollectOrFlush, Main,
       Stages, Starting, Over
  <2>3. sigChan' \in BOOLEAN /\ recordsLeft' \in BOOLEAN /\ overdue' \in BOOLEAN
    BY <1>2, <2>1
  <2>4. influx' \in {"none", "open", "closed"} /\ signals' \in 0 .. MaxSignals
        /\ listener' \in {"closed", "starting", "open", "failed", "draining"}
    BY <1>2, <2>1
  <2>5. stage' \in Stages /\ (stage' = "hangs" => service' = "collector" /\ recordsLeft')
    BY <1>2, <2>1, <2>2
  <2>6. attempts' \in 0 .. MaxAttempts /\ (stage' \in {"begin", "topic"} => attempts' < MaxAttempts)
    BY <1>2, <2>1, <2>2
  <2>7. QED
    BY <1>3, <2>3, <2>4, <2>5, <2>6
<1>11. CASE GracefulStop \/ ShutdownServer \/ CloseRepository
  <2>1. /\ UNCHANGED <<service, attempts, signals, sigChan, recordsLeft>>
        /\ listener' \in {listener, "closed"} /\ influx' \in {influx, "closed"}
        /\ overdue' \in {overdue, Running # {}}
        /\ stage' \in {"deregister", "defers", "returns"}
    BY <1>11 DEF GracefulStop, ShutdownServer, CloseRepository, Main
  <2>2. QED
    BY <1>2, <1>3, <2>1 DEF Stages
<1>12. QED
  BY <1>4, <1>5, <1>6, <1>7, <1>8, <1>9, <1>10, <1>11 DEF LifecycleNext, MainGoroutine

\* What a setting may be has one of the forms.
LEMMA FormsOfValues ==
  ASSUME NEW s, NEW v \in ValuesOf(s)
  PROVE  v.form \in Forms \union {"int"}
<1> USE DEF Texts, Word, Number, Forms
<1>1. CASE s \in Texts
  BY <1>1 DEF ValuesOf
<1>2. CASE s = "TSDB_ENABLED"
  BY <1>2 DEF ValuesOf
<1>3. CASE s = "BROKER_ADDRESSES"
  BY <1>3 DEF ValuesOf
<1>4. CASE s = "POD_NAME"
  BY <1>4 DEF ValuesOf
<1>5. CASE s \notin Texts \union {"TSDB_ENABLED", "BROKER_ADDRESSES", "POD_NAME"}
  <2>1. ValuesOf(s) = {Word("text")} \union {Number(i) : i \in Numbers}
    BY <1>5 DEF ValuesOf
  <2>2. QED
    BY <2>1
<1>6. QED
  BY <1>1, <1>2, <1>3, <1>4, <1>5

\* An environment has settings of its program.
LEMMA InitConfigTypes == ConfigurationInit => ConfigurationTypeOK
<1> SUFFICES ASSUME ConfigurationInit PROVE ConfigurationTypeOK
  OBVIOUS
<1>1. ConfigInv
  BY InitConfigInv
<1>2. program \in DOMAIN Others /\ DOMAIN IntSettings = DOMAIN Others
  BY IntSettingsOf DEF ConfigurationInit, Others
<1> DEFINE Trials(a, b) ==
           {[s \in {a, b} |-> IF s = a THEN x ELSE y] : x \in ValuesOf(a), y \in ValuesOf(b)}
<1>3. PICK a \in SettingsOf(program), b \in SettingsOf(program) : environment \in Trials(a, b)
  <2> DEFINE All(p) == UNION {Trials(a, b) : a, b \in SettingsOf(p)}
  <2>1. Environments = [p \in DOMAIN Others |-> All(p)]
    BY DEF Environments
  <2> HIDE DEF Trials
  <2>2. environment \in All(program) =>
          \E a \in SettingsOf(program), b \in SettingsOf(program) : environment \in Trials(a, b)
    OBVIOUS
  <2> HIDE DEF All
  <2>3. environment \in Environments[program]
    BY DEF ConfigurationInit
  <2>4. QED
    BY <1>2, <2>1, <2>2, <2>3
<1>4. DOMAIN environment = {a, b}
  BY <1>3
<1>5. a \in Settings /\ b \in Settings
  BY <1>2, <1>3 DEF Settings
<1>6. \A s \in DOMAIN environment : environment[s].form \in Forms \union {"int"}
  BY <1>1, FormsOfValues DEF ConfigInv
<1>7. QED
  BY <1>1, <1>2, <1>4, <1>5, <1>6 DEF ConfigurationInit, ConfigInv, ConfigurationTypeOK

\* LoadConfig, the checks and the constructors keep the types.  A number that nobody set
\* stays that of LoadConfig, since the streamer's constructor replaces only numbers that
\* are not positive, and no default is.
LEMMA NextConfigTypes ==
  ConfigInv /\ ConfigurationTypeOK /\ ConfigInv' /\ [ConfigurationNext]_configVars => ConfigurationTypeOK'
<1> SUFFICES ASSUME ConfigInv, ConfigurationTypeOK, ConfigInv', [ConfigurationNext]_configVars
             PROVE  ConfigurationTypeOK'
  OBVIOUS
<1>1. UNCHANGED <<program, environment, reachable>>
  BY DEF ConfigurationNext, LoadConfig, Validate, NewTelemetryCollector, NewTSDBRepository,
     NewTelemetryProducer, NameBroker, Start, configVars
<1>2. phase' \in {"load", "validate", "construct", "start", "runs", "refused", "panics"}
  BY DEF ConfigurationNext, LoadConfig, Validate, NewTelemetryCollector, NewTSDBRepository,
     NewTelemetryProducer, NameBroker, Start, configVars, ConfigurationTypeOK
<1>3. config' \in [DOMAIN IntSettings[program'] -> Int]
  BY DEF ConfigInv
<1>4. ASSUME NEW s \in DOMAIN config' \ {"BROKER_ID"}, Value(s)'.form # "int"
      PROVE  config'[s] = IntSettings[program][s]
  <2>1. Value(s)' = Value(s) /\ DOMAIN config' = DOMAIN IntSettings[program]
        /\ DOMAIN config = DOMAIN IntSettings[program]
    BY <1>1, <1>3 DEF Value, ConfigInv
  <2>2. config[s] = IntSettings[program][s]
    BY <1>4, <2>1 DEF ConfigurationTypeOK
  <2>3. CASE LoadConfig
    BY <1>4, <2>1, <2>3 DEF LoadConfig, getEnvInt
  <2>4. CASE NewTelemetryProducer
    <3>1. /\ program = "streamer"
          /\ config' = [x \in DOMAIN config |->
                          Kept(x, IF x \in DOMAIN Defaults /\ config[x] <= 0
                                  THEN Defaults[x] ELSE config[x])]
      BY <2>4 DEF NewTelemetryProducer
    <3>2. s \in DOMAIN Defaults => IntSettings["streamer"][s] = Defaults[s]
      BY DefaultValues
    <3>3. config'[s] = Kept(s, IntSettings["streamer"][s])
      BY <2>1, <2>2, <3>1, <3>2
    <3>4. s = "CIRCUIT_BREAKER_THRESHOLD" => IntSettings["streamer"][s] = 10
      BY DEF IntSettings
    <3>5. Wrap(10, MaxInt32) = 10
      <4>1. MaxInt32 \in Nat /\ 10 \in IntRange(MaxInt32)
        BY WidthsAssumption, ConfigurationAssumption DEF IntRange
      <4>2. QED
        BY <4>1, WrapFits
    <3>6. QED
      BY <3>1, <3>3, <3>4, <3>5 DEF Kept
  <2>5. CASE NameBroker
    BY <1>4, <2>1, <2>2, <2>5 DEF NameBroker
  <2>6. CASE UNCHANGED config
    BY <2>2, <2>6
  <2>7. QED
    BY <2>3, <2>4, <2>5, <2>6 DEF ConfigurationNext, Validate, NewTelemetryCollector,
       NewTSDBRepository, Start, configVars
<1>5. QED
  BY <1>1, <1>2, <1>3, <1>4 DEF ConfigurationTypeOK

\* A product of int64s is an int64.
LEMMA ProductType ==
  ASSUME NEW a \in Int, NEW b \in Int
  PROVE  Times64Product(a, b) \in Times64
<1>1. MaxInt64 \in Nat /\ a * b \in Int
  BY WidthsAssumption
<1>2. Wrap(a * b, MaxInt64) \in IntRange(MaxInt64)
  BY <1>1, WrapType
<1>3. QED
  BY <1>2 DEF Times64Product, Times64

\* Every time field is stored under an int64.
LEMMA NanosecondsType ==
  ASSUME NEW field \in TimeField
  PROVE  Nanoseconds(field) \in Times64
<1>1. field.n \in Times64 /\ field.n \in Int
  BY WidthsAssumption DEF TimeField, Times64, IntRange
<1>2. Kilo * Kilo \in Int /\ Kilo * Kilo * Kilo \in Int
  BY PointsAssumption
<1>3. \/ Nanoseconds(field) = field.n
      \/ Nanoseconds(field) = Times64Product(field.n, Kilo * Kilo)
      \/ Nanoseconds(field) = Times64Product(field.n, Kilo * Kilo * Kilo)
  BY DEF Nanoseconds
<1>4. QED
  BY <1>1, <1>2, <1>3, ProductType

\* Some index is the first of a sequence's.
LEMMA FirstIndex ==
  ASSUME NEW S, NEW q \in Seq(S), NEW set \in SUBSET DOMAIN q, set # {}
  PROVE  First(set) \in set /\ q[First(set)] \in S
<1>1. DOMAIN q \subseteq Nat /\ \A i \in DOMAIN q : q[i] \in S
  OBVIOUS
<1>2. \E i \in set : \A j \in set : i <= j
  BY <1>1, LeastNatural
<1>3. First(set) \in set
  BY <1>2 DEF First
<1>4. QED
  BY <1>1, <1>3

\* A record has a device, and a time that fits.
LEMMA RecordTypes ==
  ASSUME PointsTypeOK, NEW record \in Measured
  PROVE  ExtractTimestamp(record) \in Times64 /\ Tag(record.names) \in Devices \union {"unknown"}
<1>1. /\ record.times \in Seq(TimeField)
      /\ record.names \in Seq(Devices \union {"missing", "empty"})
  BY PointsAssumption
<1>2. ExtractTimestamp(record) \in Times64
  <2>1. CASE ReadableTimes(record) = {}
    <3>1. clock \in 0 .. MaxClock /\ MaxClock \in 0 .. MaxInt64 /\ MaxInt64 \in Nat
      BY WidthsAssumption, PointsAssumption DEF PointsTypeOK
    <3>2. clock \in -(MaxInt64 + 1) .. MaxInt64
      BY <3>1
    <3>3. QED
      BY <2>1, <3>2 DEF ExtractTimestamp, Times64, IntRange
  <2>2. CASE ReadableTimes(record) # {}
    <3> DEFINE readable == ReadableTimes(record)
               times == record.times
    <3>1. readable \in SUBSET DOMAIN times
      BY DEF ReadableTimes
    <3>2. times[First(readable)] \in TimeField
      <4> HIDE DEF times, readable
      <4>1. times \in Seq(TimeField) /\ readable # {}
        BY <1>1, <2>2 DEF times, readable
      <4>2. QED
        BY <3>1, <4>1, FirstIndex
    <3>3. QED
      BY <2>2, <3>2, NanosecondsType DEF ExtractTimestamp
  <2>3. QED
    BY <2>1, <2>2
<1>3. Tag(record.names) \in Devices \union {"unknown"}
  <2> DEFINE names == record.names
             named == {i \in DOMAIN names : names[i] \notin {"missing", "empty"}}
  <2>1. Tag(names) = IF named = {} THEN "unknown" ELSE names[First(named)]
    BY DEF Tag
  <2>2. names \in Seq(Devices \union {"missing", "empty"})
    BY <1>1
  <2> HIDE DEF names
  <2>3. CASE named # {}
    <3>1. First(named) \in named /\ names[First(named)] \in Devices \union {"missing", "empty"}
      BY <2>2, <2>3, FirstIndex
    <3>2. names[First(named)] \notin {"missing", "empty"}
      BY <3>1
    <3>3. QED
      BY <2>1, <2>3, <3>1, <3>2 DEF names
  <2>4. QED
    BY <2>1, <2>3 DEF names
<1>4. QED
  BY <1>2, <1>3

\* The database is empty at first.
LEMMA InitPointsTypes == PointsInit => PointsTypeOK
<1> SUFFICES ASSUME PointsInit PROVE PointsTypeOK
  OBVIOUS
<1>1. MaxClock \in Nat /\ MaxPoints \in Nat
  BY PointsAssumption
<1>2. Cardinality({}) = 0
  BY FS_EmptySet
<1>3. /\ points = {} /\ written = {} /\ clock \in 0 .. MaxClock /\ guessed \in 0 .. MaxPoints
      /\ Cardinality(written) <= MaxPoints
  BY <1>1, <1>2 DEF PointsInit
<1>4. QED
  BY <1>3 DEF PointsTypeOK

\* Every write, and time, keep the types.
LEMMA NextPointsTypes ==
  PointsInv /\ PointsTypeOK /\ [PointsNext]_pointsVars => PointsTypeOK'
<1> SUFFICES ASSUME PointsInv, PointsTypeOK, [PointsNext]_pointsVars PROVE PointsTypeOK'
  OBVIOUS
<1>1. MaxClock \in Nat /\ MaxPoints \in Nat
  BY PointsAssumption
<1>2. CASE UNCHANGED pointsVars
  BY <1>2 DEF pointsVars, PointsTypeOK
<1>3. CASE Pass
  <2>1. clock' \in 0 .. MaxClock /\ UNCHANGED <<points, written, guessed>>
    BY <1>1, <1>3 DEF Pass, PointsTypeOK
  <2>2. QED
    BY <2>1 DEF PointsTypeOK
<1>4. ASSUME NEW record \in Measured, WriteRecord(record) PROVE PointsTypeOK'
  <2> DEFINE time  == ExtractTimestamp(record)
             point == [device |-> Tag(record.names), time |-> time]
             entry == [record |-> record, time |-> time]
  <2>1. /\ points' = points \union {point} /\ written' = written \union {entry}
        /\ guessed' = guessed + (IF ReadableTimes(record) = {} THEN 1 ELSE 0)
        /\ Cardinality(written) < MaxPoints /\ guessed < MaxPoints /\ UNCHANGED clock
    BY <1>4 DEF WriteRecord
  <2>2. /\ point \in [device : Devices \union {"unknown"}, time : Times64]
        /\ entry \in [record : Measured, time : Times64]
    BY RecordTypes
  <2> HIDE DEF time, point, entry
  <2>3. IsFiniteSet(written) /\ Cardinality(written) \in Nat
    BY FS_CardinalityType DEF PointsInv
  <2>4. Cardinality(written') <= MaxPoints
    <3>1. Cardinality(written') \in {Cardinality(written), Cardinality(written) + 1}
      BY <2>1, <2>3, FS_AddElement
    <3>2. QED
      BY <1>1, <2>1, <2>3, <3>1
  <2>5. guessed' \in 0 .. MaxPoints
    BY <1>1, <2>1 DEF PointsTypeOK
  <2>6. QED
    BY <2>1, <2>2, <2>4, <2>5 DEF PointsTypeOK
<1>5. QED
  BY <1>2, <1>3, <1>4 DEF PointsNext

\* Every variable of every part has its type: what the producer holds in batchMu, the
\* reader's row and the channel, the breaker's counters, tags and times of the points,
\* the rows a client got, the stages of the mains, and the defaults of the numbers.
THEOREM ServicesTypesHold == ServicesSpec => []ServicesTypeOK
<1> DEFINE IInv == /\ StreamInv /\ BreakerInv /\ PointsInv /\ PointsTypeOK /\ PagesInv
                   /\ LifeInv /\ LifeTypes /\ ConfigInv /\ ConfigurationTypeOK
<1>1. ServicesInit => IInv
  BY InitStreamInv, InitBreakerInv, InitPointsInv, InitPointsTypes, InitPagesInv,
     InitLifeInv, InitLifeTypes, InitConfigInv, InitConfigTypes DEF ServicesInit
<1>2. IInv /\ [ServicesNext]_servicesVars => IInv'
  <2> SUFFICES ASSUME IInv, [ServicesNext]_servicesVars PROVE IInv'
    OBVIOUS
  <2>1. /\ [StreamNext]_<<vars, streamVars>> /\ [BreakerNext]_breakerVars
        /\ [PointsNext]_pointsVars /\ [ApiNext]_apiVars
    BY DEF ServicesNext, Only, servicesVars
  <2>2. LifeInv' /\ ConfigInv'
    BY ProgramSteps, NextLifeInv, NextConfigInv
  <2>3. LifeTypes' /\ ConfigurationTypeOK'
    BY <2>2, ProgramSteps, NextLifeTypes, NextConfigTypes
  <2>4. QED
    BY <2>1, <2>2, <2>3, NextStreamInv, NextBreakerInv, NextPointsInv, NextPointsTypes,
       NextPagesInv
<1>3. IInv => ServicesTypeOK
  <2> SUFFICES ASSUME IInv PROVE ServicesTypeOK
    OBVIOUS
  <2>1. ApiTypeOK
    <3>1. Found \subseteq stored
      BY DEF Found, InRange
    <3>2. QED
      BY <3>1 DEF PagesInv, ApiTypeOK
  <2>2. TypeOK /\ StreamTypeOK /\ BreakerTypeOK /\ LifecycleTypeOK
    BY DEF StreamInv, ProducerInv, BreakerInv, LifeTypes
  <2>3. QED
    BY <2>1, <2>2 DEF ServicesTypeOK
<1>4. QED
  BY <1>1, <1>2, <1>3, PTL DEF ServicesSpec
=============================================================================

----------------------------- MODULE Configuration -----------------------------
(***************************************************************************)
(* What the environment variables of the broker, the collector, the        *)
(* streamer and the query API become: LoadConfig of the three              *)
(* pkg/config/config.go and the flags of the broker's main, the            *)
(* collector's Validate, the constructors that check and replace values,   *)
(* and the places where a value that got through stops the process         *)
(* (tickers, make, a division).                                            *)
(*                                                                         *)
(* A variable is unset, empty, a text, "yes", "true", a list without any   *)
(* address ("blank") or a number.  Settings that nothing here depends on   *)
(* (names, the health port, other options of the brokers) are left out.    *)
(* The number of POD_NAME is what follows its last hyphen.  A number that  *)
(* does not fit an int cannot be read and counts as a text.                *)
(***************************************************************************)
EXTENDS Integers, FiniteSets, Widths

CONSTANTS
  Numbers,      \* the numbers tried
  Millisecond,  \* nanoseconds of a millisecond
  Affordable,   \* elements of a slice that there is always memory for
  MaxCapacity   \* elements of the longest slice that can be addressed

\* Nanoseconds of a second.
Second == 1000 * Millisecond

\* Numbers are ints; the defaults below fit their types and into memory.
ASSUME ConfigurationAssumption ==
  /\ Numbers \subseteq IntRange(MaxInt64)
  /\ Millisecond \in Nat \ {0} /\ Second <= MaxInt64
  /\ MaxInt32 >= 10
  /\ Affordable \in Nat /\ Affordable >= 50
  /\ MaxCapacity \in Nat /\ Affordable <= MaxCapacity

VARIABLES
  program,      \* "brokerServer", "collector", "streamer" or "telemetryApi"
  environment,  \* the value of each variable that is set
  reachable,    \* the database answers, the CSV file is there
  config,       \* numbers of the configuration, as the constructors leave them
  phase         \* "load", "validate", "construct", "start"; "runs", "refused", "panics"

configVars == <<program, environment, reachable, config, phase>>

Forms  == {"unset", "empty", "blank", "text", "yes", "true"}
Word(f) == [form |-> f, n |-> 0]
Number(i) == [form |-> "int", n |-> i]
Unset  == Word("unset")

IntSettings ==
  [collector |-> [READ_FREQUENCY_MS |-> 1000, MAX_RETRIES |-> 5, BATCH_SIZE |-> 50],
   streamer  |-> [READ_SPEED |-> 100, MAX_RETRIES |-> 5, BATCH_SIZE |-> 50,
                  BATCH_TIMEOUT_MS |-> 1000, NUM_PARTITIONS |-> 10,
                  CIRCUIT_BREAKER_THRESHOLD |-> 10],
   brokerServer |-> [BROKER_ID |-> -1, BROKER_PORT |-> 9092],
   telemetryApi |-> [PORT |-> 8080]]

Texts    == {"TOPIC", "TSDB_URL", "TSDB_TOKEN", "TSDB_ORG", "TSDB_BUCKET"}
Others   == [collector    |-> Texts \union {"TSDB_ENABLED", "BROKER_ADDRESSES"},
             streamer     |-> {"BROKER_ADDRESSES"},
             brokerServer |-> {"POD_NAME"},
             telemetryApi |-> Texts \ {"TOPIC"}]
SettingsOf(p) == DOMAIN IntSettings[p] \union Others[p]
Settings == UNION {SettingsOf(p) : p \in DOMAIN Others}

\* The values tried for a setting.
ValuesOf(setting) ==
  CASE setting \in Texts             -> {Word("unset"), Word("empty"), Word("text")}
    [] setting = "TSDB_ENABLED"     -> {Word(f) : f \in Forms} \union {Number(0), Number(1)}
    [] setting = "BROKER_ADDRESSES" -> {Word("unset"), Word("empty"), Word("blank"), Word("text")}
    [] setting = "POD_NAME" -> {Word("unset"), Word("empty"), Word("text")}
                                 \union {Number(i) : i \in Numbers \intersect Nat}
    [] OTHER -> {Word("text")} \union {Number(i) : i \in Numbers}

\* For each program, environments in which one or two settings have a value.
Environments ==
  [p \in DOMAIN Others |->
     UNION {{[s \in {a, b} |-> IF s = a THEN x ELSE y] :
               x \in ValuesOf(a), y \in ValuesOf(b)} : a, b \in SettingsOf(p)}]

\* The value of a setting.
Value(s) == IF s \in DOMAIN environment THEN environment[s] ELSE Unset

-----------------------------------------------------------------------------
\* Fault: what cannot be read is 0.
getEnvIntOrZero(value, default) ==
  IF value.form = "int" THEN value.n ELSE IF value.form = "unset" THEN default ELSE 0

\* getEnvInt: what cannot be read is the default.
getEnvInt(value, default) == IF value.form = "int" THEN value.n ELSE default

\* getEnvBool of the collector: a set value is true, 1 or yes, or else FALSE.
getEnvBool(value, default) ==
  IF value.form \in {"unset", "empty"} THEN default
  ELSE value.form \in {"true", "yes"} \/ (value.form = "int" /\ value.n = 1)

\* getEnv: is the text that a setting has empty?  Only the token has no default.
IsEmpty(setting) ==
  \/ Value(setting).form = "empty"
  \/ setting = "TSDB_TOKEN" /\ Value(setting).form = "unset"

\* parseAddresses: without an address there is the local one.
parseAddresses(value) ==
  IF value.form \in {"unset", "empty", "blank"} THEN {"localhost:9092"} ELSE {value.form}

ToDatabase == getEnvBool(Value("TSDB_ENABLED"), TRUE)

\* The broker's id if BROKER_ID gives none: the number of its pod, or 1.
OwnNumber(id) ==
  IF id # -1 THEN id
  ELSE IF Value("POD_NAME").form = "int" THEN Value("POD_NAME").n ELSE 1

\* The broker's main, from its flags to the server's configuration, which keeps the
\* id as an int32: a larger number becomes another one.
NameBroker ==
  /\ program = "brokerServer" /\ phase = "construct"
  /\ config' = [config EXCEPT !.BROKER_ID = Wrap(OwnNumber(@), MaxInt32)]
  /\ phase' = "start"
  /\ UNCHANGED <<program, environment, reachable>>

LoadConfig ==
  /\ phase = "load"
  /\ config' = [s \in DOMAIN IntSettings[program] |->
                  getEnvInt(Value(s), IntSettings[program][s])]
  /\ phase' = IF program = "collector" THEN "validate" ELSE "construct"
  /\ UNCHANGED <<program, environment, reachable>>

\* Fault: the number of retries is not looked at.
ValidateFrequency ==
  /\ phase = "validate"
  /\ phase' = IF \/ config.READ_FREQUENCY_MS <= 0
                 \/ parseAddresses(Value("BROKER_ADDRESSES")) = {}
              THEN "refused" ELSE "construct"
  /\ UNCHANGED <<program, environment, reachable, config>>

\* Validate of the collector, the only program that has one.
Validate ==
  /\ phase = "validate"
  /\ phase' = IF \/ config.READ_FREQUENCY_MS <= 0
                 \/ config.MAX_RETRIES < 0
                 \/ parseAddresses(Value("BROKER_ADDRESSES")) = {}
              THEN "refused" ELSE "construct"
  /\ UNCHANGED <<program, environment, reachable, config>>

\* The check of NewTSDBWriter and NewTSDBRepository, and their first call.
CanOpenDatabase ==
  /\ reachable
  /\ \A s \in {"TSDB_URL", "TSDB_TOKEN", "TSDB_ORG", "TSDB_BUCKET"} : ~IsEmpty(s)

\* Does make stop the process?  It panics on a capacity that is negative or cannot be
\* addressed; for one that can, there may or may not be the memory.
MakeStops(capacity) ==
  IF capacity \notin 0 .. MaxCapacity THEN {TRUE}
  ELSE IF capacity > Affordable THEN BOOLEAN ELSE {FALSE}

\* NewTelemetryCollector, then NewTSDBWriter.
NewTelemetryCollector ==
  /\ program = "collector" /\ phase = "construct"
  /\ \E stops \in MakeStops(config.BATCH_SIZE) :
       phase' = IF IsEmpty("TOPIC") \/ config.READ_FREQUENCY_MS <= 0 THEN "refused"
                ELSE IF stops THEN "panics"
                ELSE IF ToDatabase /\ ~CanOpenDatabase THEN "refused" ELSE "start"
  /\ UNCHANGED <<program, environment, reachable, config>>

NewTSDBRepository ==
  /\ program = "telemetryApi" /\ phase = "construct"
  /\ phase' = IF CanOpenDatabase THEN "start" ELSE "refused"
  /\ UNCHANGED <<program, environment, reachable, config>>

Defaults == [MAX_RETRIES |-> 5, BATCH_SIZE |-> 50, BATCH_TIMEOUT_MS |-> 1000,
             NUM_PARTITIONS |-> 10, CIRCUIT_BREAKER_THRESHOLD |-> 10]

\* What NewTelemetryProducer makes of a setting that passes its check: the threshold
\* is kept as an int32.
Kept(setting, number) ==
  IF setting = "CIRCUIT_BREAKER_THRESHOLD" THEN Wrap(number, MaxInt32) ELSE number

\* Fault: zero is left as it is.
NewTelemetryProducerKeepingZero ==
  /\ program = "streamer" /\ phase = "construct"
  /\ phase' = IF reachable THEN "start" ELSE "refused"
  /\ config' = [s \in DOMAIN config |->
                  Kept(s, IF s \in DOMAIN Defaults /\ config[s] < 0 THEN Defaults[s]
                                                                    ELSE config[s])]
  /\ UNCHANGED <<program, environment, reachable>>

\* The streamer looks for the CSV file; NewTelemetryProducer replaces what is not
\* positive, and makes room for a batch.
NewTelemetryProducer ==
  /\ program = "streamer" /\ phase = "construct"
  /\ config' = [s \in DOMAIN config |->
                  Kept(s, IF s \in DOMAIN Defaults /\ config[s] <= 0 THEN Defaults[s]
                                                                     ELSE config[s])]
  /\ \E stops \in MakeStops(config'["BATCH_SIZE"]) :
       phase' = IF ~reachable THEN "refused" ELSE IF stops THEN "panics" ELSE "start"
  /\ UNCHANGED <<program, environment, reachable>>

\* The number of partitions ensureTopicExists asks the broker for, an int32.
\* sendBatchToBroker strides over config.NUM_PARTITIONS.
AskedPartitions == Wrap(config.NUM_PARTITIONS, MaxInt32)

\* A setting in milliseconds as a time.Duration.
Period(ms) == Wrap(ms * Millisecond, MaxInt64)

\* The reader's throttle: a division by zero, or a ticker whose period is not positive.
ThrottlePanics == config.READ_SPEED <= 0 \/ Second \div config.READ_SPEED <= 0

\* The tickers of the loops are created.  NewTicker panics on a period that is not
\* positive.
Start ==
  /\ phase = "start"
  /\ phase' = IF \/ program = "collector" /\ Period(config.READ_FREQUENCY_MS) <= 0
                 \/ /\ program = "streamer"
                    /\ ThrottlePanics \/ Period(config.BATCH_TIMEOUT_MS) <= 0
              THEN "panics" ELSE "runs"
  /\ UNCHANGED <<program, environment, reachable, config>>

ConfigurationInit ==
  /\ program \in DOMAIN IntSettings
  /\ environment \in Environments[program] /\ reachable \in BOOLEAN
  /\ config = IntSettings[program] /\ phase = "load"

ConfigurationNext ==
  \/ LoadConfig \/ Validate
  \/ NewTelemetryCollector \/ NewTSDBRepository \/ NewTelemetryProducer \/ NameBroker
  \/ Start

-----------------------------------------------------------------------------
(* Properties.                                                             *)

\* Every variable has its type, and a number that nobody set, or that cannot be read,
\* is the default of LoadConfig also after the constructors, which have defaults of
\* their own.
ConfigurationTypeOK ==
  /\ program \in DOMAIN IntSettings
  /\ DOMAIN environment \subseteq Settings
  /\ \A s \in DOMAIN environment : environment[s].form \in Forms \union {"int"}
  /\ reachable \in BOOLEAN
  /\ config \in [DOMAIN IntSettings[program] -> Int]
  /\ phase \in {"load", "validate", "construct", "start", "runs", "refused", "panics"}
  /\ \A s \in DOMAIN config \ {"BROKER_ID"} :
       Value(s).form # "int" => config[s] = IntSettings[program][s]

\* The setting has a number, and it is not one of these.
GivenOutside(setting, numbers) ==
  Value(setting).form = "int" /\ Value(setting).n \notin numbers

\* The milliseconds that fit a time.Duration.
Periods == 1 .. (MaxInt64 \div Millisecond)

\* Which numbers stop a process whose settings were accepted: a batch size there is no
\* memory for (the collector's also when it is negative), a period in milliseconds
\* whose nanoseconds wrap around, and a READ_SPEED of the streamer that is not positive
\* or above the nanoseconds of a second.  No other number, and nothing else about the
\* environment, does (Validate and the constructors' checks against the tickers, make
\* and the reader's division).
OnlyKnownPanics ==
  phase = "panics" =>
    \/ /\ program = "collector"
       /\ \/ GivenOutside("BATCH_SIZE", 0 .. Affordable)
          \/ GivenOutside("READ_FREQUENCY_MS", Periods)
    \/ /\ program = "streamer"
       /\ \/ GivenOutside("BATCH_SIZE", IntRange(Affordable))
          \/ GivenOutside("BATCH_TIMEOUT_MS", IntRange(MaxInt64 \div Millisecond))
          \/ GivenOutside("READ_SPEED", 1 .. Second)

\* A program that runs does so with values that the other models assume: positive sizes
\* and thresholds, retries that are natural numbers, a topic of as many partitions as
\* the producer sends to, and a broker whose id is not the -1 that means nobody,
\* whether or not its pod has a number.  The one exception is a number too large for
\* the int32 it is converted to, which nothing checks.  (The collector's batch size may
\* be 0, which flushes as 1 does.)
RunsWithinAssumptions ==
  phase = "runs" =>
    /\ program = "brokerServer" =>
         \/ config.BROKER_ID # -1
         \/ \E s \in {"BROKER_ID", "POD_NAME"} : GivenOutside(s, IntRange(MaxInt32))
    /\ program = "collector" =>
         config.BATCH_SIZE \in 0 .. MaxCapacity /\ config.MAX_RETRIES \in Nat
    /\ program = "streamer" =>
         /\ \A s \in DOMAIN Defaults :
              \/ config[s] \in Nat \ {0}
              \/ s = "CIRCUIT_BREAKER_THRESHOLD" /\ GivenOutside(s, IntRange(MaxInt32))
         /\ config.BATCH_SIZE <= MaxCapacity
         /\ \/ AskedPartitions = config.NUM_PARTITIONS
            \/ GivenOutside("NUM_PARTITIONS", IntRange(MaxInt32))
=============================================================================

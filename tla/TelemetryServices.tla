--------------------------- MODULE TelemetryServices ---------------------------
(***************************************************************************)
(* Seven parts of the telemetry services that share no state in a process: *)
(*   stream   the streamer and its producer,                               *)
(*   breaker  a circuit breaker and the goroutines that use it,            *)
(*   points   the collector's records in the database,                     *)
(*   query    the query API,                                               *)
(*   life     the main goroutines of the broker, the collector and the API,*)
(*   settings what the programs make of their environment variables,       *)
(*   choice   the partitions the producer sends to.                        *)
(* A behaviour is of one kind.  (What the breaker does to the producer,    *)
(* refusing at any moment, is in module Producer.)                         *)
(***************************************************************************)
EXTENDS Streamer, CircuitBreaker, TsdbPoints, TelemetryApi, Lifecycle, Configuration,
        PartitionChoice

VARIABLE kind

servicesVars == <<vars, streamVars, breakerVars, pointsVars, apiVars, lifeVars, configVars,
                  choiceVars, kind>>

\* The parts that a behaviour is not about do nothing.
Only(k) ==
  /\ kind = k /\ UNCHANGED kind
  /\ k # "stream"   => UNCHANGED <<vars, streamVars>>
  /\ k # "breaker"  => UNCHANGED breakerVars
  /\ k # "points"   => UNCHANGED pointsVars
  /\ k # "query"    => UNCHANGED apiVars
  /\ k # "life"     => UNCHANGED lifeVars
  /\ k # "settings" => UNCHANGED configVars
  /\ k # "choice"   => UNCHANGED choiceVars

StreamStep(A)  == Only("stream") /\ A
ProduceStep(A) == StreamStep(A /\ UNCHANGED streamVars)
BreakerStep(A) == Only("breaker") /\ A
LifeStep(A)    == Only("life") /\ A

\* The inputs of a part do not matter to the others, which see one of them.
Inputs(k, set) == IF kind = k THEN set ELSE {CHOOSE x \in set : TRUE}

ServicesInit ==
  /\ kind \in {"stream", "breaker", "points", "query", "life", "settings", "choice"}
  /\ rows \in Inputs("stream", Files) /\ loopFile \in Inputs("stream", BOOLEAN)
  /\ asked \in Inputs("query", Requests)
  /\ stored \in Inputs("query", SUBSET Rows)
  /\ service \in Inputs("life", {"broker", "collector", "api"})
  /\ program \in Inputs("settings", DOMAIN IntSettings)
  /\ environment \in Inputs("settings", Environments[program])
  /\ reachable \in Inputs("settings", BOOLEAN)
  /\ StreamInit /\ BreakerInit /\ PointsInit /\ ApiInit /\ LifecycleInit
  /\ numPartitions \in Inputs("choice", PartitionNumbers)
  /\ ConfigurationInit /\ ChoiceInit

ServicesNext ==
  \/ kind = "stream" /\ StreamNext /\ Only("stream")
  \/ kind = "breaker" /\ BreakerNext /\ Only("breaker")
  \/ kind = "points" /\ PointsNext /\ Only("points")
  \/ kind = "query" /\ ApiNext /\ Only("query")
  \/ kind = "life" /\ LifecycleNext /\ Only("life")
  \/ kind = "settings" /\ ConfigurationNext /\ Only("settings")
  \/ kind = "choice" /\ ChoiceNext /\ Only("choice")

ServicesSpec == ServicesInit /\ [][ServicesNext]_servicesVars

\* The streamer: calls return or fail, the ticker fires, a goroutine that waits for
\* batchMu gets it in the end, select takes p.done in the end, and a reader that can go
\* on does.  Records need not come, and main is not told to stop.  (Produce calls have a
\* deadline.  CreateTopic in ensureTopicExists has none: that it returns is assumed of
\* the broker and the connection.)
StreamFairness ==
  /\ WF_servicesVars(ProduceStep(Send)) /\ WF_servicesVars(ProduceStep(Shutdown))
  /\ WF_servicesVars(ProduceStep(Tick))
  /\ SF_servicesVars(ProduceStep(TickerFlush)) /\ SF_servicesVars(ProduceStep(Flush))
  /\ SF_servicesVars(ProduceStep(StopTicker))
  /\ WF_servicesVars(StreamStep(Reader)) /\ WF_servicesVars(StreamStep(CancelContext))

\* The breaker: time passes, operations end, and callers come back as long as the
\* program runs: the collection loop and the flush loop are driven by tickers.
BreakerFairness ==
  /\ WF_servicesVars(BreakerStep(Elapse))
  /\ \A c \in Callers :
       /\ WF_servicesVars(BreakerStep(IsOpen(c) \/ HalfOpen(c)))
       /\ WF_servicesVars(BreakerStep(EndOperation(c)))

\* The mains: what main calls returns, and handlers end: what they call is in memory,
\* or tries finitely often, or is a call of etcd or InfluxDB, which is assumed to answer
\* or to fail (most of these calls have no deadline of their own).
LifeFairness ==
  /\ WF_servicesVars(LifeStep(MainGoroutine))
  /\ \A c \in Calls : WF_servicesVars(LifeStep(Answer(c)))

FairSpec == ServicesSpec /\ StreamFairness /\ BreakerFairness /\ LifeFairness

\* Every variable of every part has its type.
ServicesTypeOK ==
  /\ TypeOK /\ StreamTypeOK /\ BreakerTypeOK /\ PointsTypeOK /\ ApiTypeOK
  /\ LifecycleTypeOK /\ ConfigurationTypeOK

\* The streamer delivers what it read: the whole file, no record more often than
\* there are attempts, to partitions that are there, and not to a few of them only.
StreamDelivers ==
  /\ StopsWithWholeFile /\ CopiesBounded
  /\ BatchReachesHalf /\ OwnTopicTakesAll

\* A program that is accepted runs with values it can run with, and ends without
\* cutting off what it serves, but for the exceptions each part names.
ProgramsSound ==
  /\ OnlyKnownPanics /\ RunsWithinAssumptions
  /\ CutOnlyByDeadline /\ DatabaseOutlivesCalls

\* What waits gets on: records in a batch, shutdowns, the reader, callers of an open
\* breaker, programs that start and programs that got a signal.
ServicesProgress ==
  /\ QueuedSettles /\ ShutdownEnds /\ ReaderEnds
  /\ OpenEnds
  /\ SignalEnds /\ StartupEnds
=============================================================================

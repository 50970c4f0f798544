# TLA+ models of the telemetry pipeline

The repository is a telemetry pipeline in Go. A streaming producer reads a CSV
file and sends each row to a message broker; several brokers share their
metadata through etcd; collectors consume the messages as members of a consumer
group and write them to InfluxDB, which a query API reads. This directory models
these parts, the packages of the broker beside its server, and the start, the
configuration and the end of the programs, checks them with TLC, and proves
properties of the broker, the collector, the producer and the breaker with TLAPS.

Paths below are relative to `src/`. `telemetry-collector/messagebroker` is a
verbatim copy of `messagebroker`; the models name the original.

## Inventory

| Component | Source | State | Operations | Hard behaviour | Correct when |
|---|---|---|---|---|---|
| Broker server and partition log | `messagebroker/cmd/broker/main.go`, `pkg/broker` | `b.topics`, `b.partitions`, messages and `Offset` of each partition; all in memory | CreateTopic (create, register, roll back, place), ProduceMessage, ConsumeMessages, GetTopicMetadata, topic synchronisation | Goroutine per request; `b.mu`, `partition.mu` and etcd calls alternate; rollback races every other handler; restart forgets everything | logs contiguous, offsets unique and stable, memory agrees with etcd |
| Consumer group manager | `messagebroker/pkg/consumer/group_manager.go` | members, assignments, generation and state per group and broker | Join, Leave, health check, rebalance, FetchAssignments | every broker has a manager of its own; etcd fails in the middle of an operation; eviction without heartbeats | assignments disjoint and complete, generations meaningful |
| Etcd coordinator | `messagebroker/pkg/coordinator/etcd.go` | etcd keys: topics, assignments, members, offsets, leaders, ISR; one lease per broker | compare-and-swaps and puts, lease keep-alive, watches | lost answers, expired leases, swaps whose result is ignored | one topic metadata, one leader, keys of live brokers only |
| Mock coordinator | `messagebroker/pkg/coordinator/coordinator.go` | the same in maps under `mc.mu` | the same, health check with failover | watch channels that overflow; dead brokers stay registered and stay candidates | a failed broker steps down, offsets survive joins and leaves |
| Replication manager | `messagebroker/pkg/replication` | leader and ISR of a partition, in memory | initiate, record, detect failure | minimum ISR against failures; late reports of failed replicas | leader in sync, no replica twice, minimum kept |
| Storage | `messagebroker/pkg/storage` | log and index per partition | write, read, rotate, cleanup, offset | two levels of locks, taken in both orders, and one taken twice | no deadlock but the known ones, messages leave by age or rotation only |
| Rebalancer strategies | `messagebroker/pkg/consumer/rebalancer.go` | the last assignment, for the sticky one | range, round robin, sticky, two measures | members that left, map order | every partition owned, once; even; nothing moves without need |
| Broker client library | `messagebroker/pkg/client` | pending batch, topic flag; assignment and positions | Send, SendSync, Flush, Close; Poll, Seek, Assign, Close | timeouts against late answers, locks taken by some methods and not by others | nothing twice, acknowledged in order, positions move on |
| Collector's broker consumer | `telemetry-collector/pkg/consumer` | assignments, generation, offsets, `lastReadIndex` | join, fetch offsets, ConsumeMessages, commit, close | commits before processing; positions outlive logs | nothing skipped, little replayed |
| Telemetry collector | `telemetry-collector/pkg/collector` | batch, breaker, counters | collection loop, collectAndSend, flushBatch, sendBatch, Close | the collecting goroutine and Close share `batchMu`, taken and released several times per record | every record in one place: batch, under way, sent or known lost; rounds and Close end |
| Circuit breakers | `collector.go`, `telemetry-streaming/pkg/producer/producer.go` | state, counters, last failure | IsOpen, RecordFailure, RecordSuccess | IsOpen changes lock in the middle | opens and closes on its counts, does not stay open |
| TSDB writer | `telemetry-collector/pkg/tsdb` | counters | WriteMetric with retries, conversion to points | retry count at its boundaries; units of time are guessed; int64 | written or reported; one record, one point, at its instant |
| Streaming producer | `telemetry-streaming/pkg/producer` | batch, partition counter, topic flag | SendMessage, flushBatchLoop, retries, Flush, Close, ensureTopicExists | three goroutines send, each with `batchMu` held through all retries; a half-sent batch is sent again; Flush gives up waiting; the counter strides | every record appended or reported; in order when nothing fails; shutdown ends |
| CSV reader, streamer's main | `telemetry-streaming/pkg/csv`, `cmd/telemetry-streamer` | file position, record channel | StreamRecords, the loop of main, shutdown | the reader may wait for room in a channel that nobody empties | whole file before the end; the reader ends |
| Telemetry API | `telemetry-api/pkg` | none; each page is a query | list GPUs, read a GPU's telemetry by pages | rows arrive between pages, late ones too; rows share their times | no row missed |
| Service mains | `messagebroker/cmd/broker`, `telemetry-collector/cmd/collector`, `telemetry-api/cmd/server` | server, signal channel, clients | start, serve, drain, exit | signals at any time, also during start-up and twice; deadlines | calls end before what they need does; a signal ends the process |
| Configuration | three `pkg/config/config.go`, flags of the broker | numbers and texts | LoadConfig, Validate, constructors | values that pass the checks and stop the process later | no other panic than the known ones |
| Administration command | `messagebroker/cmd/admin` | none | topics, groups, offsets, lag | several calls, logs move meanwhile | a lag counts what was there |
| Protocol buffers; metrics; second TSDB writer; vendored broker; deployment | | | generated code, counters, copies, scripts | | |

Interactions. Clients call a broker by gRPC. Brokers never call each other: they
meet in etcd, where the server's CreateTopic registers topics and the group
manager keeps one key per member. The collector's consumer joins a group at the
broker it is connected to, reads the partitions it was assigned and commits
positions, which the broker puts into etcd. The collection loop takes what the
consumer returns and writes it, message by message, to InfluxDB. The API and the
administration command only ask.

The hazards in `PROJECT.json` list where this is hard to test, line by line, and
which property watches each place.

## Modules

| Module | Models |
|---|---|
| `PartitionLog` | abstract: an ordered, append-only log per name |
| `Broker` | the server's handlers over the memory of several brokers and the topics in etcd |
| `BrokerProofs` | theorems about `Broker` |
| `ConsumerGroup` | the managers of several brokers, member keys and leases, the joining side of consumers |
| `GroupProofs` | theorems about `ConsumerGroup` |
| `Delivery` | consumers' positions, commits, the collection loop, the database |
| `DeliveryProofs` | theorems about `Delivery` |
| `OrderedSets` | lemmas that the proofs share: finite sets of numbers, remainders, sums over finite sets |
| `Collector` | the collecting goroutine, its batch and its sends against Close |
| `CollectorProofs` | theorems about `Collector` |
| `Producer` | main, the flush loop and Flush's goroutine over the producer's batch |
| `ProducerProofs` | theorems about `Producer` |
| `CircuitBreaker` | the breaker and its callers |
| `Streamer` | the CSV reader, its channel and the streamer's main, around `Producer` |
| `PartitionChoice` | the producer's topic creation and the partition of each message |
| `TsdbPoints` | records with times in every form, and the points they become |
| `TelemetryApi` | a client that reads page by page while rows arrive |
| `Lifecycle` | the main goroutines of broker, collector and API |
| `Configuration` | environment variables, checks, conversions, and what stops a process |
| `Widths` | conversion to an integer type of Go, which wraps around |
| `TelemetryServices` | the seven parts above that the `services` run checks, side by side |
| `ServicesProofs` | theorems about `TelemetryServices` and its parts |
| `Coordinator` | what the two coordinators share |
| `EtcdCoordinator` | registration under leases, elections, health watch |
| `MockCoordinator` | the in-memory coordinator |
| `Replication` | the replication manager of a partition |
| `Storage` | a log's goroutines at the grain of the two locks |
| `Rebalancer` | the assignment strategies |
| `LibProducer`, `LibConsumer` | the client library, with as much of the broker's creation of topics as it meets |
| `Admin` | the administration command |
| `BrokerPackages` | the eight parts above, side by side; health events feed `Replication` |
| `PackagesProofs` | theorems about `BrokerPackages` and its parts |
| `MCBroker`, `MCConsumerGroup`, `MCDelivery`, `MCCollector`, `MCServices`, `MCPackages` | values for TLC |

`Broker` implements `PartitionLog`. `Delivery` stands on both of its neighbours by
what they promise: a partition is the first and next offset of a log (`Broker`),
an assignment is whatever a manager may answer (`ConsumerGroup`). `Collector`
takes records where `Delivery` leaves them, and inlines the breaker, which has
one caller there; `Producer` lets the breaker refuse at any time.
`Streamer` extends `Producer`. `TelemetryServices` and `BrokerPackages` put parts
that share no state side by side: a variable `kind` says which one a behaviour is
about, and the others stand still. The composition adds one step of its own,
`TakeHealthEvent`: a failure that the watcher of `EtcdCoordinator` reads goes to
`DetectFailure` of `Replication`, as `architecture.md` 5.4 describes; the broker's
main leaves the two unconnected.

Definitions whose comment begins with *Fault* are altered copies of the
definition that follows. No specification uses them: they document what each
property would catch, and `PROJECT.json` ("mutants") pairs them.

### Broker

A handler goroutine (`Threads`) has a program counter; one action is one critical
section or one etcd call.

| Code | Actions |
|---|---|
| `Server.ProduceMessage`, `ConsumeMessages`, `GetTopicMetadata` | `ProduceMessage`, `ConsumeMessages`, `GetTopicMetadata` (GetTopic under `b.mu`), then |
| `syncTopicLocally` | `FetchMeta` (etcd read), `SyncCreate` (CreateTopic under `b.mu`) |
| lookup of the partition pointer | `Lookup`, under `b.mu` |
| append or read under `partition.mu` | `AppendToPartition`, `ReadPartition`, on the *object* looked up, which may have left the map |
| the answer | `SendReply`, after the lock was released |
| `Server.CreateTopic` | `CreateTopic`, `RegisterTopic` (swap in etcd; applied or not, answered or not), `RollbackTopic` or `StoreAssignments` |
| process restart | `Crash`: memory and handlers gone, etcd kept |

Partition objects are named `<<broker, topic, epoch, partition>>`, the epoch
counting creations of the topic at that broker. This keeps apart the log a
handler has a pointer to and the log that replaced it. A message is the number of
its produce request. `AppendMessage` and `FetchMessages` are the bodies of
`broker.ProduceMessage` and `broker.ConsumeMessages`.

### ConsumerGroup

A manager holds `cgm.mu` through Join, Leave and the health check, also while it
calls etcd; `op[b]` is the operation in progress, and each etcd call is an action
of its own, which may fail, or be applied and fail: `JoinConsumerGroup`,
`RegisterMember`, `LeaveConsumerGroup`, `DeregisterMember`, `Evict`,
`ReadMetadata` and `AssignPartitions` (the two reads of `rebalanceGroup` with what
follows each). Consumers keep calling Join until they have partitions
(`FetchAssignments`, `ConsumerCrash`). `AssignmentAnswer` and
`DescribeConsumerGroup` are what the broker answers consumers and administrators.
Member keys hang on the lease of the broker that put them; `Expire` removes a lease
with its keys. Since no RPC reaches
`HeartbeatMember`, `Evict` may find any members stale at any time; an eviction
before its 30 seconds are likely over counts as a fault so that liveness is not
asked under endless evictions.

### Delivery

A partition is its first and next offset (what `Broker` implements). One
collector's loop is `JoinGroup`, `FetchOffset` for each partition,
`ReadPartition` (the round over the partitions from `lastReadIndex`),
`CommitOffset` and `WriteMetric` for each message read. Every call may fail; a
commit may fail and be applied. `Crash` replaces the process, `BrokerRestart`
empties the logs. What a group manager answers is any member of `Shares`, so two
consumers may hold one partition, as `ConsumerGroup` shows they can.

### Collector

The goroutine `tc.wg` counts runs rounds; `loop.at` is where it is in one.

| Code | Actions |
|---|---|
| `collectLoop`, start of `collectAndSend` | `Tick` (the breaker may skip the round), `Stop` (`tc.done`) |
| `source.CollectTelemetry` | `CallSource`: fails, or returns up to `MaxList` records |
| the record joins `tc.batch`, `batchMu` locked | `AppendRecord` |
| `WriteMetric` with its retries, `batchMu` still locked | `WriteMetric`: one attempt, or the end of the last |
| `flushBatch`: take the batch | `TakeBatch` |
| its retry loop around `sendBatch` | `SendBatch`, then `BatchSent` or `GiveUp` |
| end of a source | `EndSource` |
| `Close` | `Close` (`close(tc.done)`), `FinalFlush` (`batchMu` locked, batch looked at), `Closed` (`tc.wg.Wait` returns) |

Records are numbered as they are collected. `sent` and `dropped` name what became
of them; `sentCount`, `totalWritten` and `totalFailed` are the code's counters.
There is no timed flush: `batchTimer` and `batchTimeout` are set and never used.
`FinalFlush` with a batch leads to a stage without any action, since
`flushBatch` locks the mutex `Close` holds.

### Producer

Whoever holds `batchMu` sends: `Begin` takes the batch out and keeps the mutex,
and `StartAttempt`, `ProduceMessage` and `EndAttempt` are its steps
(`sendBatchWithRetries`, `sendBatch`), with the outcome in `Finish`. main is
`SendMessage`, `StartFlush` and `FlushReturns` (Flush starts a goroutine and
waits for it, or for its deadline), `Close` and `CloseReturns`; the loop is `Tick`,
`TickerFlush` and `StopTicker`; Flush's goroutine is `Flush`. The broker is the
sequence of messages it appended; a call may fail, also after appending.

### CircuitBreaker

`IsOpen` is the read-locked half, `HalfOpen` the write-locked half of `IsOpen`;
`RecordFailure` and `RecordSuccess` are one critical section each; `Elapse` is
the passing of `resetTimeout`. A caller that was let through records any number
of outcomes before `EndOperation`: `collectAndSend` asks once and records one outcome
per source. Senders ask again in the middle of an operation, so a caller inside
may pass through `IsOpen` again.

### Streamer and PartitionChoice

`OpenFile`, `ReadRow` and `SendRow` are the goroutine of `StreamRecords` (any parser
error ends the file), `CancelReader` its select on the context. main is
`StreamRecord` (a record from the channel goes to `SendMessage`), `ChannelEnds`,
`Signal` and, once everything else has ended, `CancelContext`.

In `PartitionChoice`, `ensureTopicExists` creates the topic or finds it, while another
client's creation (`OtherCreates`) may be rolled back (`OtherRollsBack`); `StartBatch`
and `ProduceTo` are the loop of `sendBatch` with its counter. What the counter
counts matters modulo the number of partitions only.

### TsdbPoints

`WriteRecord` converts a record and puts the point, any number of times.
`ReadableTimes` are the fields that `extractTimestamp` takes a time from;
`Nanoseconds` is what it makes of a number, with its guess at the unit and the
product in int64; `Tag` looks a tag up under its names. A point is its tags and its
time. The smallest number that is taken for seconds, 10^9 in the code, is the parameter
`Base`, the factor between units, 1000 there, is `Kilo`: TLC's integers have 32 bits.

### TelemetryApi

`GetGPUs` lists the GPU if it has a row (`Listed`); `Ask` is a call of
`GetGPUTelemetry`, with `Limit` from the handler and `Pages` from the query: the
sets of rows it may answer, since rows of one time come in any order. `WriteRow`
is the collector's. The client goes on after the rows it got until a page is short.

### Lifecycle

main of each service goes through its stages, one action per stage: `StartBroker`,
`ServeBroker`; `OpenRepository`; `StartCollector`, `WaitForTopicMetadata`,
`JoinInitially`, `StartSources`; then `Notify`, `AwaitSignal`, `TakeSignal`, and
`GracefulStop`, `ExitBroker`; `ShutdownServer`, `CloseRepository`, `ExitApi`;
`CloseCollector`. `ListenAndServe` is the goroutine of a server, `ServeFails` the end
of the broker's; `Accept` and `Answer` are calls; `NotifySignal` is the runtime: a
signal kills before `signal.Notify` and waits in a channel of one after it.
`CollectOrFlush` says whether the collector's batch has records.

### Configuration

`LoadConfig`, `NameBroker` (the broker's number from its flag or its pod's name),
`Validate`, the constructors `NewTelemetryCollector`, `NewTSDBRepository` and
`NewTelemetryProducer`, and `Start`, where tickers and divisions meet the values.
`Environments` are those in which one or two settings have a value. Conversions wrap
around as they do in Go (`Widths`): the broker's number and the producer's threshold
and number of partitions are kept or sent as int32, and `Period` multiplies
milliseconds into an int64 of nanoseconds, so that a number `Validate` accepts can
come out negative and `NewTicker` panics. `MakeStops` is `make` with a capacity:
it panics above `MaxCapacity`, and between `Affordable` and that it may run out of
memory. `MaxInt32`, `MaxInt64` and `Millisecond` are parameters, 2^31 - 1, 2^63 - 1 and
10^6 in the code and small in TLC's instance; the theorem holds for all of them.

### EtcdCoordinator and MockCoordinator

A process of `EtcdCoordinator` is `Start` (lease), `RegisterBroker`, `HeartbeatRead`
and `HeartbeatWrite`, `DeregisterBroker`, `Stop`, `Crash`; `LeaseExpires` deletes its
key. An election is `ElectLeader`, `CheckLeader`, `ReadISR`, `TryCandidate`,
`CompareAndSwap` (or `SwapPanics`), `PutLeader`, one request each; it answers its
candidate also when the swap failed. `Forward` is the goroutine of
`WatchBrokerHealth`, which waits for room in the channel and passes on only ids above
0 (`HasId`); `Receive` its reader. Broker ids are any integers and nobody is a
value of its own, `NoBroker`: a StatefulSet's first pod is broker 0, and where the
code takes 0 for nobody the models do what it does.

Every method of the mock runs under `mc.mu` and is one action; `CheckBrokerHealth`
is the ticker's, with `Failover` for each dead broker and `Offer` to watchers,
which drops an event when a channel is full. `OutOfSession` is time passing; the
ticker's last check may come after `Stop`. In `FirstRegistered`, `Elect` and `Failover`
0 is "none": a first candidate 0 ends the search and then counts as none.

### Replication, Storage, Rebalancer

`InitiateReplication`, `RecordReplication` and `DetectFailure` are the methods.

A call of `Storage` goes from lock to lock: `WriteMessage`, `AppendMessage`,
`AppendIndex`, `RotateLookup`, `RotateLog`; `ReadMessages`, `ReadLog`; `GetOffset`,
`ReadOffset`; `Cleanup`, `CollectYoung`, `KeepYoung`. A goroutine whose lock is taken
has no step. `CreatePartitionLog` replaces the log that others may still hold.

`Rebalancer` assigns by any strategy to any members again and again; where the
code walks over a map, any order is taken. `RoundRobinAssign` and `RangeAssign` say in
closed form which partitions the loops append to a member's list.

### Client library and administration

`LibProducer`: `SendRecord`, `EnterSend`, `EnsureTopic`, `CreateLibTopic`,
`AppendRecord`, `FlushBatch` and `SendSyncReturns` are the caller's steps; `StartProduce`
and `ProduceAnswered` those of the goroutine that sends a record and outlives a
caller that gave up; `CloseProducer`. The broker keeps the topic in memory, in etcd,
or in both: `CreateLibTopic` makes it exist in memory, `RegisterLibTopic` registers it
or removes it again (`DeleteTopic`), also when the caller has given up
(`CreationAbandoned`) or is another client (`OtherCreates`); `StoreRecord` and
`TurnAway` answer a record, `SyncTopic` and `OtherRegisters` are what other requests do.

`LibConsumer`: `FetchMetadata` (start, with its attempts), `LookUpPartition` (the
broker's handler takes partition after partition, each under a lock of its own, and
leaves out what is gone), `FetchAndAssign`; `Poll` with `LockOffsets`,
`ConsumeMessages`, `RecordsArrive` and `PollReturns` under `offsetMu`; `Seek` waits for
that lock, `Assign` does not. `TopicAppears`, `TopicKnown` and `TopicRemoved` are the
creation of the topic and its rollback. In `Broker`, where no property looks at a
metadata answer, `Lookup` takes all partitions at once.

`Admin`: `AskMetadata`, then `AskOffset` and, for the lag, `AskEnd` for each
partition; `AskOnce` for commands of one call. Logs grow (`AppendToLog`) and are
forgotten (`BrokerForgets`) in between, and the group commits at any time.

## Runs

| Run | Asks | Shows |
|---|---|---|
| `broker_topics` | `TypeOK`, `TopicsAgree`, `RollbacksRemoveOwn` | two brokers create one topic with 1 and 2 partitions at the same time, with three handlers, lost answers and a restart: outside an unfinished creation memory agrees with etcd; a broker's topic goes or changes only by a crash or by the rollback of the very creation that made it |
| `broker_log` | `LogContiguous`, `AckedReadable`, `AckedOnce`, `FetchSound`, `ObjectsAreLogs` | three messages through a partition that holds two: trimming keeps numbering and addresses; each partition object implements `PartitionLog` |
| `broker_append_only` | `PartitionsAppendOnly` (violated) | the partition a client *names* is not append-only: see Findings |
| `group` | `TypeOK`, `AssignmentsDisjoint`, `GenerationNamesAssignments`, `QuietGroupsWhole` | one broker's assignments are disjoint at every moment and, when no operation is under way, complete; one generation names one assignment; no description shows an operation half done |
| `group_progress` | `UnassignedGetsPartitions` | a consumer without partitions gets some |
| `group_agree` | `AllBrokersAgree` (violated) | two stable brokers disagree |
| `delivery` | `TypeOK`, `NothingSkipped` | no position passes over a message that is not stored, in hand or known lost |
| `delivery_progress` | `ReplayAtMostOne`, `EveryMessageSettles` | every message settles; unless a call failed, a restart replays at most one stored message per partition |
| `collector` | `TypeOK`, `Accounted`, `BatchBounded`, `DroppedWhileOpen`, `LoopEnds` | each record is in exactly one place, the batch is bounded and given up only behind an open breaker, rounds end, and so does a Close with nothing to flush |
| `collector_close` | `CloseReturns` (violated) | a Close with a batch to flush waits for itself |
| `services` | see below | the seven parts of `TelemetryServices` |
| `packages` | see below | the eight parts of `BrokerPackages` |

Where several facts make one promise, a run asks for their conjunction; the parts
have names and comments of their own.

`services`:
- `ServicesTypeOK`: the type invariants of the seven parts;
- `Accounted`, `CleanRunInOrder`, `FlushedIsSettled` (producer): no record is lost
  unreported, a run without faults is in order, Flush without error means settled;
- `StreamDelivers`: `StopsWithWholeFile` (no row is left in the channel),
  `CopiesBounded` (by the attempts), `BatchReachesHalf` and `OwnTopicTakesAll` (of the
  partitions a batch goes to);
- `BreakerSound`: `OpenAfterThreshold` and `ClosingTakesSuccesses`: it opens and
  closes on its counts only;
- `PointsSound`: `StoredAtItsInstant` (whatever unit and type a time comes in),
  `RewritesAreOnePoint` (a repeated record replaces itself);
- `PagesSound`: `PagesMissNothing` and `RepeatsAreArrivals`: a client that pages
  misses only rows that share their time with others, and sees rows twice only
  as often as rows arrived;
- `ProgramsSound`: `CutOnlyByDeadline` and `DatabaseOutlivesCalls` at the end of a
  main; `OnlyKnownPanics` and `RunsWithinAssumptions` of its configuration: what the
  programs accept is what the other models assume, and no number stops them, but for
  the numbers these two name: too large for an int32, for nanoseconds or for memory,
  a negative batch size of the collector, and a read speed out of range;
- `ServicesProgress`: `QueuedSettles` (no record waits for others), `ShutdownEnds`,
  `ReaderEnds`, `OpenEnds` (of the breaker), `StartupEnds` and `SignalEnds` (which
  counts the collector's hanging Close as an end).

`packages`:
- `PackagesTypeOK`: the type invariants of the eight parts;
- `CoordinatorsSound`: for etcd `ServingIsRegistered`, `OneSwapWins`,
  `AnswerWasRegistered`, `PendingEventsEndRight`: a restarted broker stays registered
  when the old lease ends, one swap wins however many elections run, no election
  answers with a broker that was gone throughout, and a slow watcher still ends
  with the truth about every broker above 0; for the mock `FailedBrokerStepsDown`
  (unless broker 0 could take over) and `OffsetsSurviveChanges`;
- `ReplicasSound`: `LeaderInSync`, `ISRHasNoDuplicates`; a failure that is heard of keeps
  the minimum (`FailureKeepsMinimum`) and removes the broker from the list and from
  leadership unless too few are left (`FailedBrokerGoes`);
- `StorageSound`: `OnlyOldMessagesGo`, `OnlyKnownDeadlocks` (there is no third way of
  stopping);
- `StrategiesSound`: `EveryPartitionOwned`, `OwnedOnceUntilDeparture`, `FreshIsEven`,
  `StickyMovesNothing`;
- `ReadsSound`: `OpensWithAll` (a consumer has all partitions when it opens, unless the
  topic was removed while its metadata were read) and `ReadsOn` of the library's
  consumer;
- `SendsSound` of the library's producer: `StoredOnce` (also after a topic with the
  record was removed), `AcknowledgedInOrder` (what is acknowledged is in the log or went
  with a removed topic), `TopicBeforeRecords` (a record is sent to a topic the broker has
  or finds in etcd, unless a creation was undone and left it nowhere) and `BatchDrains`;
- `ReportSound`: `LagCountsWhatWasThere`, `CaughtUpIsTrue` of the administration.

### Bounds

- `broker_topics`: 2 brokers, 1 topic, sizes {1, 2}, 3 handlers, 3 creations per
  broker, 1 crash, no messages. Three handlers give a creator at each broker and
  one synchronising or creating again in the creator's window; a third creation
  at a broker lets a rollback meet a successor's object. Topics do not
  interact, so one is enough.
- `broker_log`: 1 broker, `MaxMessages` 2, 3 messages, fetches from 0 and 1 with
  room for 2, 2 handlers, 3 creations, 1 crash. Two handlers suffice for an
  append or trim between lookup and access, and between access and answer.
  Messages make no difference to other brokers.
- `group`: 2 brokers, 2 members, 2 partitions, 3 generations, one fault (failed
  call, crash, early eviction), one lease lost under a running broker. 2 brokers
  are needed for different views of the member list, 2 members for partitions
  to be moved. Brokers are interchangeable, hence the symmetry; members are not
  (assignment sorts them). `group_progress` counts one generation, since no
  step depends on its value, and has no symmetry.
- `delivery`: 2 consumers on 1 partition of 4 messages that retains 3 and is read
  2 at a time, with one fault, crash and restart each: commits overtake each
  other, trimming overtakes readers, a successor starts from an older commit.
  `delivery_progress`: 1 consumer of 2 partitions of 3 messages, for the turn
  between partitions.
- `collector`: 2 sources of up to 2 records, 4 records in all, batches of 2, one retry
  of each kind, thresholds of 2: a batch fills in the middle of a source's list,
  the breaker opens on failing sources and on the send, a trial closes it, and
  Close comes at any moment. `collector_close` needs one source and 3 records.
- `services`. Producer: batches of 2, one retry, 3 records, 2 faults (failed or lost
  calls, refusals, Flush's deadline): a batch fails for good, or a lost answer
  doubles a record in both attempts, and each of three goroutines waits for the
  other two. Streamer: a file of three rows whose last cannot be parsed, read once
  or in a loop, a channel of 1. Breaker: 3 callers, thresholds of 2, 5 failures: two
  callers in the window of `IsOpen` and a third that closes the breaker between
  them, and failures left over for a second opening. Points: 2 points of records
  with up to two times; units a factor of 10 apart instead of 1000, with times on
  both sides of each threshold and beyond int64. API: pages of 1 and 2, six rows
  of three times and two series, one date. Mains: 2 calls, 2 signals (the second
  finds the channel full), 3 attempts. Configuration: the numbers -1, 0, 255, 1025 and 9001 with an
  int32 of 8 bits, an int64 of 9222 and 9 nanoseconds to the millisecond: one that is -1
  as an int32, one whose milliseconds wrap around, and one above the nanoseconds of
  a second; one or two settings at a time, which no check combines more of.
  Partitions: 1 to 4, batches of up to 4.
- `packages`. The brokers 0 and 1 with 2 starts in all, 2 elections, one fault, a watch
  channel of 1: a lease outlives its process, elections overtake each other, and 0 is
  a broker. Storage: 3
  goroutines, segments of 2, 2 logs, 3 messages: a writer rotates while a cleanup
  and a reader hold the two locks. Strategies: 3 members, 0, 2 and 3 partitions, 3
  assignments in a row, which a departure and a return need. Library: 2 senders,
  2 records, batches of 2, one failed call, exceeded timeout or creation by another
  client, so that a record is stored in a topic that goes or sent after it is gone (three
  records, 1.7 million states of this part alone, show nothing more); 2 partitions, polls of 2, 2 stored messages, one
  error, which may be a creation that is rolled back. Administration: 2 partitions that retain 2, answers of 2 messages,
  offsets up to 3.

Deadlock is checked in `broker_topics` and `broker_log`. The other models may stop:
consumers leave, collector and producer are closed, processes end, the storage has
deadlocks (`OnlyKnownDeadlocks` says which), and bounds on faults and
messages are used up. That something happens is asked as liveness there.

### Fairness

- `ConsumerGroup`: weak fairness of each manager (an etcd call returns or fails,
  and the manager goes on); strong fairness of a consumer's Join and Fetch, since
  `cgm.mu` is taken and released by others in between and Go's mutexes do not
  starve a waiter. Nothing forces leases to expire, consumers to leave or etcd
  to fail.
- `Delivery`: weak fairness of each loop (a ticker drives it, calls return or
  fail); strong fairness of a join that is given partitions, which is what
  `UnassignedGetsPartitions` promises.
- `CircuitBreaker`: time passes, operations end, and callers come back, because
  both are ticker loops. No fairness of any recorded outcome: `OpenEnds` does
  not depend on the bound on failures, since an operation that goes on reporting
  failures ends in the end and the breaker lets no new one in while it is open.
- `Collector`: weak fairness of the round and of the return of `Wait`; strong
  fairness of `Stop` (a `select` with two ready channels takes each in the end)
  and of Close's lock (taken and released by the loop in between). main need
  not call Close, and no source or send need ever succeed.
- `Producer`: weak fairness of the sender, of main's shutdown and of the ticker.
  Produce calls have a deadline of 30 seconds for the batch; CreateTopic in
  `ensureTopicExists` (`producer.go:345`) has none, so that it returns is assumed of the
  broker and the connection; strong fairness of the two goroutines that wait for
  `batchMu` and of the loop's `done` case. Records need not come, the file need
  not end. `Streamer`: weak fairness of the reader's steps and of the cancellation,
  which is deferred in main.
- `Lifecycle`: weak fairness of main and of the goroutine that starts its server, and
  of each handler: what they call is in memory, tries finitely often, or is a call of
  etcd or InfluxDB, which is assumed to answer or to fail: most of these have no
  deadline of their own (`GracefulStop` waits for such handlers, too). No signal need
  come and no call need be made.
- The packages are checked for safety only.

## Proofs

Assumptions: the `ASSUME` of each module (thresholds and capacities are natural
numbers, `NoBroker` is no broker, members and partitions of a group are finite sets
of numbers, the brokers a finite set of integers, 0 and negative ones among them).
No bound is needed to be small: the theorems hold for all such sets of brokers,
topics, handlers, callers, collectors and goroutines, all batch sizes, numbers of
retries and integer widths. Two theorems have a hypothesis of their own:

- `CommitsReplayAtMostOne` assumes `OneConsumer`: two consumers that share a partition
  commit over each other, and the property is not claimed for them. `Delivery`'s run
  of it has one consumer as well.
- `ReplicasStaySound` assumes `DistinctReplicas`: the lists that replication starts
  from name no broker twice, as `assignReplicas` takes distinct brokers.

`BrokerProofs`
- `TypeCorrect`: `Spec => []TypeOK`. `TypeOK` is not inductive: the append and the
  read index `part` by the epoch a handler remembered, so that epoch must be
  within `1 .. MaxEpochs`. `TypeInv` adds (`EpochOK`) that a handler at its access
  remembers an object, and that a local topic has had a creation.
- `LogsStayContiguous`, `AcknowledgedStaysReadable`, `OffsetsHandedOutOnce`,
  `FetchesAreSound` follow from `LogInv`, which adds to `TypeInv`: a handler's
  remembered epoch is at most the current one, and all it remembers belongs to
  it (`Reached`); objects of epochs to come are untouched, so that a creation
  that resets an object disturbs no acknowledged offset (`Fresh`); retained
  messages were acknowledged (`Retained`); every offset below `Offset` was
  acknowledged (`Complete`). The proof goes by effect: steps that leave logs
  alone, and the one that appends.
- `ObjectsImplementLogs`: `Spec => ObjectsAreLogs`, the refinement of
  `PartitionLog` by the acknowledged messages of each object. `Complete` and
  `AckedOnce` make the history a function of the state; an append extends
  exactly one history by one message, every other step stutters.
- `TopicsStayAgreed` follows from `TopicInv`: a creation under
  way owns the broker's local copy of the topic (`CreatorOwns`), there is one creation
  of a topic per broker (`OneCreator`), and a partition count that a handler carries
  across a lock release is the registered one (`HeldIsRegistered`).
- `RollbacksStayOwn`: once a broker has a topic, only its crash or the error path of
  the handler that created this very copy removes or replaces it. `TopicsAgree`
  says nothing of a rollback that is still to come, which could remove what another
  handler has created since; needed is that a handler before its registration or
  rollback remembers the creation count of the copy that is there now.

`GroupProofs`
- `GroupTypeCorrect`, `NoPartitionAssignedTwice`, `QuietGroupsStayWhole` and
  `GenerationsNameAssignments` follow from `GroupInv`. Disjointness and coverage of a
  fresh assignment come from the arithmetic of `assignPartitionsRoundRobin`: the ranks
  of the members of a group are `0 .. Cardinality - 1`, each once (`OrderedSets`).
  Between two rebalances members only lose partitions, and the whole group is
  covered not only when nothing runs but also while a join waits for etcd
  (`CoveredAt`), which a failed registration returns to. An answer of the current
  generation is what the group still assigns (`CurrentAnswer`), unless it is being
  left, and then the next assignment has another number. The proof sorts the steps
  of one broker's group into nine kinds (`GroupStep`) and takes each part through the
  kinds.

`DeliveryProofs`
- `DeliveryTypeCorrect` and `NoMessagePassedOver` rest on `PosInv`: no position is
  beyond what the log holds, or held when the broker restarted, and a commit is one
  ahead of the message it names at most. Then a message that is settled or in a
  collector's hand stays so until a crash forgets the hand (`KeptStays`), and a crash
  returns the position to a commit that is not beyond the hand.
- `CommitsReplayAtMostOne` follows from `ReplayInv`: as long as no call has failed,
  nothing is stored beyond the commit of its partition and no position lies before it
  once it is fetched (`StoredInv`, `HandInv`, `FetchedInv`).

`CollectorProofs`
- `CollectorTypeCorrect`, `CollectedAccountedFor`, `BatchStaysBounded` and
  `DropsOnlyWhileOpen` follow from `CollectorInv`. `Accounted` alone is not
  inductive: that a batch under way has no record twice, and where in a round
  there is one at all, is `StageInv`; that the records still to come fit the
  bound is `PendingInv`; that a refused send has seen an open breaker, which only
  this goroutine could change, is `TrialInv`. The proof first says what each
  step does to the round, field by field, then takes each part of the invariant
  through all steps.

`ProducerProofs`
- `ProducerTypeCorrect`, `RecordsAccountedFor`, `FlushMeansSettled` and
  `CleanRunsAreInOrder` follow from `ProducerInv`. `SendInv` says that everything
  before the current message was appended unless a failure is counted, which
  makes the end of an attempt without failures the end of the batch. `FlushInv`
  says that nobody queues once Flush was called and that its goroutine, once it
  had `batchMu`, left the batch empty. `CleanInv` is the order: log, rest of the
  batch under way and batch count on from 1, and without a fault a Flush that
  returned leaves no send for `Close` to cut off.
- `CopiesStayBounded` needs how often the records of the batch under way are in the
  log already (`CopiesInv`): once for each attempt before this one, once more up to the
  current message. What is still in the batch has no copy, which `Accounted` says.

`PackagesProofs`: each theorem is one of `BrokerPackages`' `Spec`. A package's variables
change by its own steps only, so each proof first reduces the composed step to the
package's (`StorageSteps`, `EtcdSteps`, ...).
- `StorageStaysSound` follows from `StorageInv`: a goroutine holds the locks of its
  stage (`LockedBy`), knows what it found of the log as far as locks keep it true
  (`CallInv`), and excludes others pairwise (`Apart`). That the storage stops in the two
  known ways only is an argument about who waits for whom: if a goroutine waits for
  `s.mu` with its log locked, the holder of `s.mu` waits for the latest log, which is
  held either by another one that waits for `s.mu` (crossed locks) or by one that
  rotates the latest log and so waits for itself; if nobody does, all wait for logs that
  rotating goroutines hold, each of them for a log no older than its own, and the one
  of the latest log waits for its own.
- `SendsStaySound` follows from `SendsInv`: per record (`RecordInv`) that its callback says
  "ok" only for what is stored, or was in a topic that is removed, and per pair of
  records of a goroutine (`PairInv`) that the first has returned before the second is
  sent. A topic that the producer noted is in memory or in etcd until a creation that
  was under way is undone.
- `ReportStaysSound` follows from `AdminInv`: a log that has had a message keeps one
  (`LogInv`), and each line printed counts what was there at the start (`LineInv`).
- `ReadsStaySound` follows from `ReadsInv`: as long as the topic has not been removed since
  the request found it, what the broker has looked up and what it has yet to look up
  are all partitions; a position, and the one a request on its way
  was sent with, is the expected one unless `Assign` came between (`ReadInv`).
- `ReplicasStaySound` follows from `ReplInv`; that removing a failed broker from the list
  keeps the order and leaves one broker less (`WithoutFacts`) is shown by induction up
  to the length of the list, in the set form `UpTo` of `OrderedSets`. That only brokers
  fail is what the channel's type says (`EtcdInv`).
- `CoordinatorsStaySound` follows from `EtcdInv` and `MockInv`. Registrations: without
  faults the lease of a running process is alive and a serving broker's key hangs on
  it (`LeaseInv`), so the lease of an earlier process expires without touching the
  key. Elections: all that is registered while an election runs is among what it has
  sighted, and so is the candidate it is about to write (`Sights`). The swap: while
  there is no leader nobody has won one (`WinsInv`). Events: the last event of a
  broker above 0, over the channel and the stream together, shows whether it has a key
  (`EventInv`), and without one the watcher believes the truth; appending an event for
  the key that changes keeps that, and so does taking the oldest. The mock's failover
  picks the first registered broker of a list, which exists when anybody else of the
  list is registered and takes over unless it is 0 (`FailoverMoves`).
- `StrategiesStaySound` follows from `RebInv`, and says what each strategy answers with.
  Round robin and range deal out by closed forms of the two loops: of `n` partitions
  the `i`-th of `k` members gets `Share(i, k, n)`, and which ones is arithmetic of quotient
  and remainder (`RoundRobinDeals`, `RangeDeals`). The sticky one hands out a list,
  partition by partition, to the member with the fewest, which exists (`GiveFacts`):
  what the members keep stays where it is, and what nobody keeps is given out once, by
  induction over the list (`StickyFacts`). The shares of a fresh assignment are even,
  so the sums of `CalculateAssignmentSkew` have two kinds of terms (`EvenSkew`, by
  `TwoValuedSum` of `OrderedSets`).
- `PackagesTypesHold` puts the invariants of all packages together (`PackagesInv`) and
  adds the bounds of etcd's variables (`EtcdBounds`; a broker's starts are at most
  the sum of all starts) and the types of the mock and of replication. The mock's
  `CheckBrokerHealth` walks over the dead brokers, so what it does to leaders and
  channels is shown by induction over that walk (`OfferFolds`, `FailoverFolds`).
  An ISR entry is any list of brokers: a caller may store one longer than there are
  brokers.

`ServicesProofs`: `BreakerTypeCorrect`, `OpenMeansFailures` and `BreakerIsSound` are theorems of
`BreakerSpec`, which two programs run; the others are theorems of `ServicesSpec`, whose
steps are first reduced to those of one part.
- The breaker's follow from `BreakerInv == BreakerTypeOK /\ OpenAfterThreshold /\
  TrialCounted`. `TrialCounted` (the successes counted are those of this trial) is what
  `ClosingTakesSuccesses` needs of the state before the step.
- `ProgramsStaySound` follows from `LifeInv` and `ConfigInv`. `LifeInv`: a main past its
  drain has closed its server and no call runs unless the 30 seconds are over, so what
  is cut or fails afterwards was late; the API closes its database after that.
  `ConfigInv`: after `LoadConfig` a number is what its variable says, or the default,
  until a constructor replaces it or a conversion wraps it, and each constructor's
  check holds of what it lets through. That a number in the range of its type is not
  changed by `Wrap`, and milliseconds within an int64 of nanoseconds stay positive, is
  arithmetic of remainders.
- `PointsStaySound` follows from `PointsInv`: a record that carries a time got the time
  it carries, and every point is that of such a record or one of at most `guessed`
  that took the clock's. That a number's size tells its unit is the arithmetic of
  `extractTimestamp`'s three bounds, and needs that the seconds of an int64 of
  nanoseconds stay below them (`MaxInt64 <= Base * Kilo^4`, in the code 2^63 and 10^21).
- `PagesStaySound` follows from `PagesInv`: the offset is within the rows in range, and
  a listed row that the client has not got, and that has its time to itself, lies
  behind the offset. `PagesMissNothing` alone says nothing before the client is done.
  A page of the list by falling time is described by the rows above each of its rows,
  and their number is found by induction over the times (`UpTo` of `OrderedSets`).
- `StreamKeepsDelivering` follows from `StreamInv` and `ChoiceInv`. `StreamInv` puts the
  reader beside the producer's two invariants: the rows before its own are in the
  channel or with main, and it is through only at the end of the file or at a row that
  cannot be parsed. `ChoiceInv` remembers where the counter stood when an attempt began:
  a call that fails moves it by one and a successful one by two, so of two neighbouring
  partitions less than a batch ahead one has a message (`Began`). That this reaches half
  of the partitions, or all of an odd number, is arithmetic of remainders (`AddMod`,
  `Residue` of `OrderedSets`).
- `ServicesTypesHold` takes the types out of the invariants above, and adds how far a
  main has come while it waits for its topic (`LifeTypes`), that what a setting says
  has one of the forms `LoadConfig` reads, and that what `extractTimestamp` answers fits
  an int64.

Only model-checked, and why: the liveness properties (`UnassignedGetsPartitions`,
`EveryMessageSettles`, `LoopEnds`, `ServicesProgress`, described above with the fairness
they assume) are out of the prover's reach. The invariants and the action properties of all passing runs are
theorems.

## Findings

Three statements of documents are checked and refuted by a run each.

1. `broker_append_only`. The server makes a topic usable before it registers it
   and deletes it again when registration fails (`main.go:271-282`). A message
   produced in between is acknowledged and lost, and the next creation hands
   its offset out again (`architecture.md:40`: append-only partitions).
2. `group_agree`. Only the broker that serves a join, leave or eviction
   rebalances; others keep assignments of an older member list
   (`architecture.md:214`: all brokers compute identical assignments).
3. `collector_close`. `Close` holds `batchMu` while it calls `flushBatch`, which locks
   it (`collector.go:337`, `:270`): with a batch to flush it never returns
   (`CONFIGURATION.md:141`: the final batch is flushed at shutdown).
Five more are refuted by the models. No run is devoted to them: a checked property makes
an exception of exactly the case in which each fails, and is violated without it.

4. `TopicBeforeRecords` ("unless a creation was undone"). "Already exists" also means a
   creation that has yet to be registered and may be rolled back (`main.go:281`); the
   library's producer notes the topic for good and sends to a broker that does not have
   it (`client/producer.go:271`: "Topic already exists, which is fine"). The streamer's
   producer does the same.
5. `OpensWithAll` ("unless the topic was removed"). `GetTopicMetadata` takes `b.mu` once
   for the topic and once for each partition (`main.go:398-418`): after a rollback in
   between it answers some partitions or none, without an error, and the library's
   consumer opens with these and never asks again (`client/consumer.go:385`: "assign all
   partitions").
6. `PendingEventsEndRight` (brokers above 0). `WatchBrokerHealth` drops the events of
   broker 0, since 0 is what `parseBrokerID` returns for no number (`etcd.go:556`);
   `architecture.md:171`: an event when a broker appears or is gone.
7. `FailedBrokerStepsDown` (unless broker 0 could take over). The first registered
   candidate of the ISR ends the search, and 0 then counts as none
   (`coordinator.go:661-668`): the dead broker goes on leading (`architecture.md:187`: a
   new leader is promoted from the ISR).
8. `FailedBrokerGoes` (unless too few are left). A failed broker stays in an ISR that
   would otherwise be shorter than `minISR`, and may be elected from it
   (`replication.go:134`, `:165`); `architecture.md:241` and `:374` have it removed from
   all ISRs.

Further places where a document, a comment or a test says otherwise than the
code, which the models follow; no run is devoted to them:
- every broker accepts writes for every partition (`doc/ARCHITECTURE.md:105`: one
  leader per partition handles writes);
- an evicted member's key stays in etcd, and the rebalance after the eviction
  assigns to it (`architecture.md:207`);
- a consumer with partitions never fetches assignments again (`architecture.md:213`);
- the offset is committed before messages are processed
  (`doc/ARCHITECTURE.md:202`); `NothingSkipped` says what is kept nevertheless;
- a restarted broker's logs start at 0, the committed and local positions do not,
  and messages below them are never read (`architecture.md:216`);
- a failure in the half-open state does not open the breaker
  (`DESIGN.md:142`; `collector_test.go:79` asserts it), and failures need not be
  consecutive (`CONFIGURATION.md:117`);
- `IsOpen` does not look at the state again after it has changed lock, so with
  several callers a late one takes a closed breaker to half-open (`DESIGN.md:130`);
- the collector flushes on size only (`DESIGN.md:84`: or on a timeout), and
  records collected after Close has looked at the batch stay in it;
- a second Close of the collector closes a closed channel;
- the producer's counter goes up twice per message (`producer.go:357`,
  "round-robin"): with an even number of partitions and batches of even size, such
  as the default 10 and 50, half of them stay empty until a call fails; "already
  exists" counts as created whatever number of partitions the topic has;
- `ElectLeader` answers its candidate also when the swap failed (`etcd.go:251`;
  `architecture.md:170`), so two callers may take two brokers for the leader;
- `rotateLog` takes the lock its caller holds (`storage.go:145`): the write that fills
  a segment never returns (`architecture.md:262` and `:302` describe rotation);
- `waitForTopicMetadata` waits about 160 seconds, not 60 (`consumer.go:182` and `:184`);
- the collector's main never closes its consumer, so the member does not leave its
  group; `GracefulShutdownTimeout` is looked at only after Close has returned;
  `CIRCUIT_BREAKER_THRESHOLD` is read by the collector and used nowhere;
- `ListConsumerGroups` answers "Stable", one member and "telemetry-data" for every
  group;
- the API sorts by time alone, so of rows that share their time a page may repeat
  one and the next page miss another (`PagesMissNothing` says which rows are safe);
- brokers whose number cannot be read all call themselves 1;
- the mock's `ElectLeader` never elects broker 0: it says that no healthy broker is
  available (`coordinator.go:302`);
- `READ_FREQUENCY_MS` passes `Validate` up to the largest int, and above 2^63 - 1
  nanoseconds the product in `collector.go:138` wraps around: the period may be negative,
  and `NewTicker` panics, or be another one than was set; the same holds of
  `BATCH_TIMEOUT_MS` (`producer.go:240`). A broker's number, the streamer's number of
  partitions and its breaker's threshold are truncated to int32.

## Not modelled, and the plan

Not modelled: generated code; metrics and the set-up of logging; the byte-identical
copy of the broker under `telemetry-collector/messagebroker`, which the modules
stand for as well; the demo commands of the client library, which only call it;
the second TSDB writer of the streamer, which nothing imports; deployment. etcd and
InfluxDB are external and appear by what their callers see.

Left out of the modelled parts: payloads and the values of fields, escaping of
tags, `UpdateBrokerMetadata`, `GetBroker` and the status reads, `HeartbeatMember`
(no RPC reaches it), the client library's heartbeat and commit loops (they send
nothing), the mock's plain key-value map, in `PartitionChoice` a broker that
restarts while etcd is unreachable and turns away a producer that has made its
topic, and, in `Broker`, `storage.WriteMessage` (its map of logs is never filled,
so it fails and the handler ignores it; `Storage` models it for other callers).

That any broker accepts writes for any partition (`main.go:328`) is a hazard without
a property: nothing prevents two logs of one partition, and each copy is covered by
the log properties.

Runs to come: a second broker connection in `Delivery`, and the coordinators against
one abstract specification of leadership, which the ignored swap and the mock's failover
satisfy in different ways.

--------------------------- MODULE EtcdCoordinator ---------------------------
(***************************************************************************)
(* Brokers that coordinate through etcd: pkg/coordinator/etcd.go and the   *)
(* part of cmd/broker/main.go that starts and stops it.                    *)
(*                                                                         *)
(* A broker process registers itself under a lease that its heartbeat      *)
(* loop keeps alive.  Elections run in goroutines of the brokers; each of  *)
(* their requests to etcd is a step of its own, so the registry and the    *)
(* keys may change between two of them.  One process watches the registry  *)
(* through a channel.  The leader and ISR keys are those of one partition. *)
(*                                                                         *)
(* Covered: Start, RegisterBroker, heartbeatLoop, HeartbeatBroker,         *)
(* DeregisterBroker, Stop, ElectLeader, GetLeader, UpdateISR, GetISR,      *)
(* WatchBrokerHealth, crashes, expiring leases, failing requests.          *)
(* Not covered: broker metadata (host, port), JSON, the group and topic    *)
(* keys, which the modules ConsumerGroup and Broker have.                  *)
(***************************************************************************)
EXTENDS Coordinator

CONSTANTS
  Elections,    \* goroutines that call ElectLeader
  Replicas,     \* the replica list they pass
  MaxStarts,    \* bound: process starts of all brokers
  MaxCalls,     \* bound: calls of ElectLeader, UpdateISR, HeartbeatBroker
  MaxFaults     \* bound: failed requests and leases lost by a live process

ASSUME EtcdAssumption ==
  /\ Replicas \in Seq(Brokers)
  /\ MaxStarts \in Nat /\ MaxCalls \in Nat /\ MaxFaults \in Nat

VARIABLES
  proc,      \* what each broker process is doing
  starts,    \* how often it was started; names its lease
  live,      \* etcd: the leases <<b, n>> that are alive
  key,       \* etcd: the lease /brokers/<b> is attached to, 0 if no key
  beat,      \* TRUE between the read and the write of HeartbeatBroker
  leader,    \* etcd: /leaders/<topic>-<partition>, NoBroker if no key
  isr,       \* etcd: /isr/<topic>-<partition>, <<>> if no key
  election,  \* what each election goroutine is doing
  stream,    \* registry changes on their way to the watch goroutine
  channel,   \* eventCh
  watcher,   \* the process that watches, or NoBroker
  faults,    \* faults so far
  calls,     \* calls so far
  wins,      \* ghost: the brokers a compare-and-swap has made leader
  sighted,   \* ghost: the brokers registered since an election under way began
  believed   \* ghost: the brokers registered for all the watcher knows, who looked at
             \* the registry as it began to watch

processVars == <<proc, starts, live, key, beat>>
keyVars     == <<leader, isr>>
watchVars   == <<stream, channel, watcher, believed>>
ghostVars   == <<wins, sighted>>
etcdVars    == <<proc, starts, live, key, beat, leader, isr, election, stream,
                 channel, watcher, faults, calls, wins, sighted, believed>>

Idle == [at |-> "idle", host |-> NoBroker, todo |-> <<>>, cand |-> NoBroker,
         told |-> NoBroker]

Registered == {b \in Brokers : key[b] # 0}

Running == {b \in Brokers : proc[b] \in {"started", "serving"}}

\* The lease of b's current process.
Alive(b) == <<b, starts[b]>> \in live

Fault == faults < MaxFaults /\ faults' = faults + 1

Call == calls < MaxCalls /\ calls' = calls + 1

-----------------------------------------------------------------------------
(* The registry and what its watcher is sent.                              *)

\* Every Put of a key under the watched prefix is an event, also one that
\* changes nothing; a Delete is one if there was a key.
Notify(b, healthy) ==
  stream' = IF watcher = NoBroker THEN stream
            ELSE Append(stream, [id |-> b, healthy |-> healthy])

\* Fault: registering only where there is no key yet.
PutBrokerIfAbsent(b) ==
  IF key[b] = 0
  THEN /\ key' = [key EXCEPT ![b] = starts[b]]
       /\ sighted' = [c \in Elections |-> IF election[c].at = "idle" THEN {}
                                         ELSE sighted[c] \union {b}]
       /\ Notify(b, TRUE)
  ELSE UNCHANGED <<key, sighted, stream>>

PutBroker(b) ==
  /\ key' = [key EXCEPT ![b] = starts[b]]
  /\ sighted' = [c \in Elections |-> IF election[c].at = "idle" THEN {}
                                    ELSE sighted[c] \union {b}]
  /\ Notify(b, TRUE)

DeleteBroker(b) ==
  /\ key' = [key EXCEPT ![b] = 0]
  /\ UNCHANGED sighted
  /\ IF key[b] # 0 THEN Notify(b, FALSE) ELSE UNCHANGED stream

RegistryUnchanged == UNCHANGED <<key, sighted, stream>>

\* A lease ends: the keys attached to it go with it.
EndLease(l) ==
  /\ live' = live \ {l}
  /\ IF key[l[1]] = l[2] THEN DeleteBroker(l[1]) ELSE RegistryUnchanged

-----------------------------------------------------------------------------
(* The life of a broker process.                                           *)

\* NewEtcdCoordinator and Start: a lease is granted and kept alive from here
\* on.  When the grant fails the process exits, which changes nothing.
Start(b) ==
  /\ proc[b] = "down"
  /\ MapThenSumSet(LAMBDA x : starts[x], Brokers) < MaxStarts
  /\ proc' = [proc EXCEPT ![b] = "started"]
  /\ starts' = [starts EXCEPT ![b] = @ + 1]
  /\ live' = live \union {<<b, starts[b] + 1>>}
  /\ UNCHANGED <<key, beat, election, faults, calls, wins, sighted>>
  /\ UNCHANGED keyVars /\ UNCHANGED watchVars

\* RegisterBroker as main calls it.  When it fails, because of etcd or of a
\* lease that has expired meanwhile, main only warns and goes on serving.
RegisterBroker(b) ==
  /\ proc[b] = "started"
  /\ proc' = [proc EXCEPT ![b] = "serving"]
  /\ \/ Alive(b) /\ PutBroker(b) /\ UNCHANGED faults
     \/ Alive(b) /\ Fault /\ RegistryUnchanged
     \/ ~Alive(b) /\ RegistryUnchanged /\ UNCHANGED faults
  /\ UNCHANGED <<starts, live, beat, election, channel, watcher, believed, calls,
                 wins>>
  /\ UNCHANGED keyVars

\* HeartbeatBroker reads the registration, ...
HeartbeatRead(b) ==
  /\ proc[b] = "serving" /\ ~beat[b] /\ key[b] # 0
  /\ beat' = [beat EXCEPT ![b] = TRUE]
  /\ Call
  /\ UNCHANGED <<proc, starts, live, key, election, faults, wins, sighted>>
  /\ UNCHANGED keyVars /\ UNCHANGED watchVars

\* ... and writes it back under the process's lease, also when it has been
\* deleted meanwhile.  Under an expired lease etcd refuses the write.
HeartbeatWrite(b) ==
  /\ beat[b] /\ proc[b] \in {"serving", "leaving"}
  /\ beat' = [beat EXCEPT ![b] = FALSE]
  /\ IF Alive(b) THEN PutBroker(b) ELSE RegistryUnchanged
  /\ UNCHANGED <<proc, starts, live, election, channel, watcher, believed, faults,
                 calls, wins>>
  /\ UNCHANGED keyVars

\* KeepAliveOnce renews the lease of a live process unless its requests fail
\* for the length of the TTL; the lease of a dead process expires.  The loop
\* goes on with the expired lease: no other one is ever granted.
LeaseExpires(l) ==
  /\ l \in live
  /\ IF l[2] = starts[l[1]] /\ proc[l[1]] # "down"
     THEN Fault ELSE UNCHANGED faults
  /\ EndLease(l)
  /\ UNCHANGED <<proc, starts, beat, election, channel, watcher, believed, calls, wins>>
  /\ UNCHANGED keyVars

\* main: DeregisterBroker after the server has stopped; its error is ignored.
DeregisterBroker(b) ==
  /\ proc[b] = "serving"
  /\ proc' = [proc EXCEPT ![b] = "leaving"]
  /\ \/ DeleteBroker(b) /\ UNCHANGED faults
     \/ Fault /\ RegistryUnchanged
  /\ UNCHANGED <<starts, live, beat, election, channel, watcher, believed, calls,
                 wins>>
  /\ UNCHANGED keyVars

\* What ends with the process b.
EndProcess(b) ==
  /\ proc' = [proc EXCEPT ![b] = "down"]
  /\ beat' = [beat EXCEPT ![b] = FALSE]
  /\ election' = [c \in Elections |->
                    IF election[c].host = b THEN Idle ELSE election[c]]
  /\ sighted' = [c \in Elections |->
                    IF election[c].host = b THEN {} ELSE sighted[c]]

\* A process that watched takes its stream and its channel along.
EndWatch(b) ==
  IF watcher = b THEN watcher' = NoBroker /\ channel' = <<>> /\ believed' = {}
                 ELSE UNCHANGED <<watcher, channel, believed>>

\* Stop revokes the lease, ignoring an error, and closes the client.
Stop(b) ==
  /\ proc[b] = "leaving"
  /\ EndProcess(b) /\ EndWatch(b)
  /\ \/ /\ UNCHANGED faults
        /\ live' = live \ {<<b, starts[b]>>}
        /\ key' = [key EXCEPT ![b] = IF @ = starts[b] THEN 0 ELSE @]
        /\ stream' = IF watcher \in {NoBroker, b} THEN <<>>
                     ELSE IF key[b] = starts[b]
                          THEN Append(stream, [id |-> b, healthy |-> FALSE])
                          ELSE stream
     \/ Fault /\ UNCHANGED <<live, key>>
        /\ stream' = IF watcher = b THEN <<>> ELSE stream
  /\ UNCHANGED <<starts, calls, wins>> /\ UNCHANGED keyVars

Crash(b) ==
  /\ proc[b] \in {"started", "serving"}
  /\ EndProcess(b) /\ EndWatch(b)
  /\ stream' = IF watcher = b THEN <<>> ELSE stream
  /\ UNCHANGED <<starts, live, key, faults, calls, wins>>
  /\ UNCHANGED keyVars

-----------------------------------------------------------------------------
(* ElectLeader, request by request.                                        *)

Goto(c, at, todo, cand) ==
  /\ election' = [election EXCEPT ![c] =
                    [@ EXCEPT !.at = at, !.todo = todo, !.cand = cand]]
  /\ UNCHANGED sighted

\* The answer; NoBroker stands for "no healthy broker available".
Return(c, b) ==
  /\ election' = [election EXCEPT ![c] =
                    [Idle EXCEPT !.told = b, !.host = election[c].host]]
  /\ sighted' = [sighted EXCEPT ![c] = {}]

ElectionOnly ==
  UNCHANGED processVars /\ UNCHANGED watchVars /\ UNCHANGED <<isr, calls>>

\* An election asks etcd whether b is registered; a failing request reads
\* as "no".
Healthy(b) == key[b] # 0 /\ UNCHANGED faults

Unhealthy(b) == IF key[b] = 0 THEN UNCHANGED faults ELSE Fault

\* The first request reads the leader key.
ElectLeader(c, b) ==
  /\ election[c].at = "idle" /\ b \in Running
  /\ election' = [election EXCEPT ![c] =
       [at   |-> IF leader = NoBroker THEN "isr" ELSE "leader", host |-> b,
        todo |-> <<>>, cand |-> leader, told |-> NoBroker]]
  /\ sighted' = [sighted EXCEPT ![c] = Registered]
  /\ Call
  /\ UNCHANGED processVars /\ UNCHANGED watchVars /\ UNCHANGED keyVars
  /\ UNCHANGED <<faults, wins>>

\* Fault: the leader the key names is not looked up in the registry.
TrustLeader(c) ==
  LET e == election[c] IN
  /\ e.at = "leader"
  /\ Return(c, e.cand)
  /\ ElectionOnly /\ UNCHANGED <<leader, faults, wins>>

\* An existing leader that is registered is the answer.
CheckLeader(c) ==
  LET e == election[c] IN
  /\ e.at = "leader"
  /\ \/ Healthy(e.cand) /\ Return(c, e.cand)
     \/ Unhealthy(e.cand) /\ Goto(c, "isr", <<>>, NoBroker)
  /\ ElectionOnly /\ UNCHANGED <<leader, wins>>

\* GetISR; without a list the election falls back to the replicas.
ReadISR(c) ==
  /\ election[c].at = "isr"
  /\ \/ Goto(c, "try", isr, NoBroker) /\ UNCHANGED faults
     \/ Fault /\ Goto(c, "try", <<>>, NoBroker)
  /\ ElectionOnly /\ UNCHANGED <<leader, wins>>

\* The next candidate of the list; at its end come the replicas, and after
\* them the error.
TryCandidate(c) ==
  LET e == election[c]
      first == Head(e.todo)
  IN  /\ e.at \in {"try", "fallback"}
      /\ \/ /\ e.todo # <<>> /\ Healthy(first)
            /\ Goto(c, IF e.at = "try" THEN "swap" ELSE "put", e.todo, first)
         \/ /\ e.todo # <<>> /\ Unhealthy(first)
            /\ Goto(c, e.at, Tail(e.todo), NoBroker)
         \/ /\ e.todo = <<>> /\ UNCHANGED faults
            /\ IF e.at = "try" THEN Goto(c, "fallback", Replicas, NoBroker)
                               ELSE Return(c, NoBroker)
      /\ ElectionOnly /\ UNCHANGED <<leader, wins>>

\* Fault: a plain Put.
PutWithoutCompare(c) ==
  LET e == election[c] IN
  /\ e.at = "swap"
  /\ leader' = e.cand /\ wins' = wins \union {e.cand}
  /\ Return(c, e.cand)
  /\ ElectionOnly /\ UNCHANGED faults

\* The transaction creates the leader key if there is none.
Swap(cand) ==
  IF leader = NoBroker THEN leader' = cand /\ wins' = wins \union {cand}
                       ELSE UNCHANGED <<leader, wins>>

\* The candidate is the answer also when there was a leader key.
CompareAndSwap(c) ==
  LET e == election[c] IN
  /\ e.at = "swap"
  /\ Swap(e.cand)
  /\ Return(c, e.cand)
  /\ ElectionOnly /\ UNCHANGED faults

\* When the transaction's request fails, or only its answer is lost, the response is
\* nil and reading it ends the process.
SwapPanics(c) ==
  /\ election[c].at = "swap" /\ Fault
  /\ Swap(election[c].cand) \/ UNCHANGED <<leader, wins>>
  /\ EndProcess(election[c].host) /\ EndWatch(election[c].host)
  /\ stream' = IF watcher = election[c].host THEN <<>> ELSE stream
  /\ UNCHANGED <<starts, live, key, calls, isr>>

\* The fallback puts its candidate over whatever leader there is and answers
\* with it, also when the request fails.
PutLeader(c) ==
  LET e == election[c] IN
  /\ e.at = "put"
  /\ \/ leader' = e.cand /\ UNCHANGED faults
     \/ Fault /\ UNCHANGED leader
  /\ Return(c, e.cand)
  /\ ElectionOnly /\ UNCHANGED wins

UpdateISR(b, list) ==
  /\ b \in Running
  /\ isr' = list
  /\ Call
  /\ UNCHANGED processVars /\ UNCHANGED watchVars /\ UNCHANGED ghostVars
  /\ UNCHANGED <<leader, election, faults>>

-----------------------------------------------------------------------------
(* WatchBrokerHealth.                                                      *)

Watch(b) ==
  /\ watcher = NoBroker /\ b \in Running
  /\ watcher' = b /\ believed' = Registered
  /\ UNCHANGED processVars /\ UNCHANGED keyVars /\ UNCHANGED ghostVars
  /\ UNCHANGED <<election, stream, channel, faults, calls>>

\* The goroutine takes the next change of the registry.
TakeChange ==
  /\ stream # <<>>
  /\ stream' = Tail(stream)
  /\ UNCHANGED processVars /\ UNCHANGED keyVars /\ UNCHANGED ghostVars
  /\ UNCHANGED <<election, watcher, believed, faults, calls>>

\* Only ids above 0 are passed on: parseBrokerID returns 0 where it finds none.
HasId(event) == event.id > 0

\* Faults: no waiting for a place in the channel, ...
ForwardUnbounded ==
  /\ TakeChange
  /\ channel' = IF HasId(Head(stream)) THEN Append(channel, Head(stream)) ELSE channel

\* ... and an event that finds the channel full is dropped.
ForwardOrDrop ==
  /\ TakeChange
  /\ channel' = IF HasId(Head(stream)) /\ Len(channel) < ChannelSize
                THEN Append(channel, Head(stream)) ELSE channel

\* The goroutine passes the events on in order and waits while the channel
\* is full.
Forward ==
  /\ TakeChange
  /\ \/ ~HasId(Head(stream)) /\ UNCHANGED channel
     \/ /\ HasId(Head(stream)) /\ Len(channel) < ChannelSize
        /\ channel' = Append(channel, Head(stream))

\* The watcher takes an event.
Receive ==
  /\ channel # <<>>
  /\ channel' = Tail(channel)
  /\ believed' = IF Head(channel).healthy THEN believed \union {Head(channel).id}
                                          ELSE believed \ {Head(channel).id}
  /\ UNCHANGED processVars /\ UNCHANGED keyVars /\ UNCHANGED ghostVars
  /\ UNCHANGED <<election, stream, watcher, faults, calls>>

-----------------------------------------------------------------------------
EtcdInit ==
  /\ proc = [b \in Brokers |-> "down"]
  /\ starts = [b \in Brokers |-> 0]
  /\ live = {}
  /\ key = [b \in Brokers |-> 0]
  /\ beat = [b \in Brokers |-> FALSE]
  /\ leader = NoBroker /\ isr \in {<<>>} \union ISRs
  /\ election = [c \in Elections |-> Idle]
  /\ stream = <<>> /\ channel = <<>> /\ watcher = NoBroker
  /\ faults = 0 /\ calls = 0
  /\ wins = {} /\ sighted = [c \in Elections |-> {}] /\ believed = {}

Leases == Brokers \X (1 .. MaxStarts)

ElectionStep(c) ==
  \/ CheckLeader(c) \/ ReadISR(c) \/ TryCandidate(c)
  \/ CompareAndSwap(c) \/ PutLeader(c)

\* What processes and leases do.
RegistryNext ==
  \/ \E b \in Brokers : \/ Start(b) \/ RegisterBroker(b) \/ HeartbeatRead(b)
                        \/ HeartbeatWrite(b) \/ DeregisterBroker(b) \/ Stop(b)
                        \/ Crash(b)
  \/ \E l \in Leases : LeaseExpires(l)

ElectionNext ==
  \/ \E b \in Brokers, list \in ISRs : UpdateISR(b, list)
  \/ \E c \in Elections : \/ ElectionStep(c) \/ SwapPanics(c)
                          \/ \E b \in Brokers : ElectLeader(c, b)

WatchNext == Forward \/ \E b \in Brokers : Watch(b)

-----------------------------------------------------------------------------
(* Properties.                                                             *)

ElectionState ==
  [at : {"idle", "leader", "isr", "try", "fallback", "swap", "put"},
   host : LeaderEntry, todo : ISREntry, cand : LeaderEntry, told : LeaderEntry]

\* The values the variables may have.
EtcdTypeOK ==
  /\ proc \in [Brokers -> {"down", "started", "serving", "leaving"}]
  /\ starts \in [Brokers -> 0 .. MaxStarts] /\ live \subseteq Leases
  /\ key \in [Brokers -> 0 .. MaxStarts] /\ beat \in [Brokers -> BOOLEAN]
  /\ leader \in LeaderEntry /\ isr \in ISREntry
  /\ election \in [Elections -> ElectionState]
  /\ stream \in Seq(BrokerHealthEvent) /\ channel \in Seq(BrokerHealthEvent)
  /\ Len(channel) <= ChannelSize /\ watcher \in LeaderEntry
  /\ faults \in 0 .. MaxFaults /\ calls \in 0 .. MaxCalls
  /\ wins \subseteq Brokers /\ sighted \in [Elections -> SUBSET Brokers]
  /\ believed \subseteq Brokers

\* A restarted broker takes its registration over: the lease of the process
\* before it may expire at any time and must not take the new registration
\* with it.  Without faults every serving broker is registered under the
\* lease of its own process.
ServingIsRegistered ==
  faults = 0 => \A b \in Brokers : proc[b] = "serving" => key[b] = starts[b]

\* The compare-and-swap of ElectLeader makes one broker leader of the
\* partition, however many elections run and whatever the registry shows
\* each of them.
OneSwapWins == Cardinality(wins) <= 1

\* An election answers with a broker that was registered at some moment of
\* the call, never with one that was gone before the call and stayed away.
AnswerWasRegistered ==
  \A c \in Elections :
    election[c].at # "idle" /\ election'[c].at = "idle"
      => election'[c].told \in sighted[c] \union {NoBroker}

\* The last event that a watcher of these brokers has yet to read shows the broker's
\* present registration; without one the watcher knows it already.
EventsEndRight(watched) ==
  LET pending == channel \o stream IN
  watcher # NoBroker =>
    /\ \A i \in DOMAIN pending :
         /\ pending[i].id \in watched
         /\ \A j \in DOMAIN pending : j > i => pending[j].id # pending[i].id
         => pending[i].healthy = (key[pending[i].id] # 0)
    /\ \A b \in watched :
         (\A i \in DOMAIN pending : pending[i].id # b) => (b \in believed <=> key[b] # 0)

\* A watcher ends up with the present registration of every broker whose id is above
\* 0: no change is lost or overtaken between etcd and the channel, however full the
\* channel is.
PendingEventsEndRight == EventsEndRight({b \in Brokers : b > 0})
=============================================================================

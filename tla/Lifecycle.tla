------------------------------- MODULE Lifecycle -------------------------------
(***************************************************************************)
(* The main goroutines of the broker (messagebroker/cmd/broker/main.go),   *)
(* the collector (telemetry-collector/cmd/collector/main.go) and the query *)
(* API (telemetry-api/cmd/server/main.go), from the start of the process   *)
(* to its end, with the server each runs, its calls, and signals.  (The    *)
(* streamer's main is in modules Streamer and Producer.)                   *)
(*                                                                         *)
(* A signal kills the process until signal.Notify; from then on it waits   *)
(* in sigChan, which has room for one.                                     *)
(***************************************************************************)
EXTENDS Naturals

CONSTANTS
  Calls,        \* bound: calls of clients and probes
  MaxSignals,   \* bound: signals
  MaxAttempts   \* attempts of waitForTopicMetadata, 15 in the code

ASSUME LifecycleAssumption == MaxSignals \in Nat /\ MaxAttempts \in Nat \ {0}

VARIABLES
  service,     \* the program: "broker", "collector" or "api"
  stage,       \* where main is
  listener,    \* its gRPC or HTTP server
  call,        \* what became of each call
  sigChan,     \* TRUE iff a signal waits in the channel
  signals,     \* signals sent
  influx,      \* the InfluxDB client: "none", "open" or "closed"
  attempts,    \* of waitForTopicMetadata
  recordsLeft, \* the collector's batch has records (its loop is in module Collector)
  overdue      \* Shutdown gave up waiting for calls

lifeVars == <<service, stage, listener, call, sigChan, signals, influx, attempts,
              recordsLeft, overdue>>

\* Stages of main before signal.Notify, and those in which the process has ended.
Starting == {"begin", "listen", "topic", "join", "sources", "notify"}
Over     == {"exited", "fatal", "killed"}

Running == {c \in Calls : call[c] = "running"}

\* main of s goes from one stage to another.
Main(s, from, to) == service = s /\ stage = from /\ stage' = to

\* The process ends: calls under way are cut off.
EndAs(how) ==
  /\ stage' = how
  /\ call' = [c \in Calls |-> IF call[c] = "running" THEN "cut" ELSE call[c]]

-----------------------------------------------------------------------------
(* Clients and signals.                                                    *)

Accept(c) ==
  /\ stage \notin Over /\ listener = "open" /\ call[c] = "unsent"
  /\ call' = [call EXCEPT ![c] = "running"]
  /\ UNCHANGED <<service, stage, listener, sigChan, signals, influx, attempts,
                 recordsLeft, overdue>>

\* A handler ends; those of the API query the database.
Answer(c) ==
  /\ stage \notin Over /\ call[c] = "running"
  /\ call' = [call EXCEPT ![c] =
                IF service = "api" /\ influx = "closed" THEN "failed" ELSE "answered"]
  /\ UNCHANGED <<service, stage, listener, sigChan, signals, influx, attempts,
                 recordsLeft, overdue>>

\* Fault: sigChan has no room, and a signal is lost unless main waits for it.
NotifySignalUnbuffered ==
  /\ stage \notin Over /\ signals < MaxSignals
  /\ signals' = signals + 1
  /\ IF stage \in Starting THEN EndAs("killed") /\ UNCHANGED sigChan
     ELSE sigChan' = (stage = "waits") /\ UNCHANGED <<stage, call>>
  /\ UNCHANGED <<service, listener, influx, attempts, recordsLeft, overdue>>

\* SIGINT or SIGTERM.
NotifySignal ==
  /\ stage \notin Over /\ signals < MaxSignals
  /\ signals' = signals + 1
  /\ IF stage \in Starting THEN EndAs("killed") /\ UNCHANGED sigChan
     ELSE sigChan' = TRUE /\ UNCHANGED <<stage, call>>
  /\ UNCHANGED <<service, listener, influx, attempts, recordsLeft, overdue>>

-----------------------------------------------------------------------------
(* Starting.                                                               *)

\* The broker creates its parts and starts its coordinator, without which it gives
\* up.  That it cannot register is only logged.
StartBroker ==
  /\ \E to \in {"listen", "fatal"} : Main("broker", "begin", to)
  /\ UNCHANGED <<service, listener, call, sigChan, signals, influx, attempts,
                 recordsLeft, overdue>>

\* It starts the group manager and its gRPC server, before it asks for signals.
ServeBroker ==
  /\ \/ Main("broker", "listen", "notify") /\ listener' = "open"
     \/ Main("broker", "listen", "fatal") /\ UNCHANGED listener
  /\ UNCHANGED <<service, call, sigChan, signals, influx, attempts, recordsLeft, overdue>>

\* Serve fails in its goroutine: log.Fatalf ends the process.
ServeFails ==
  /\ service = "broker" /\ stage \notin Over /\ listener = "open"
  /\ EndAs("fatal")
  /\ UNCHANGED <<service, listener, sigChan, signals, influx, attempts, recordsLeft, overdue>>

\* The API connects to the database.
OpenRepository ==
  /\ \/ Main("api", "begin", "notify") /\ influx' = "open"
     \/ Main("api", "begin", "fatal") /\ UNCHANGED influx
  /\ UNCHANGED <<service, listener, call, sigChan, signals, attempts, recordsLeft, overdue>>

\* The collector validates its configuration, connects to the database if it is to
\* write there, and starts the health server in a goroutine.
StartCollector ==
  /\ \/ /\ Main("collector", "begin", "topic")
        /\ listener' = "starting" /\ influx' \in {"none", "open"}
     \/ Main("collector", "begin", "fatal") /\ UNCHANGED <<listener, influx>>
  /\ UNCHANGED <<service, call, sigChan, signals, attempts, recordsLeft, overdue>>

\* A server that was started in a goroutine listens, or fails, which is only logged.
ListenAndServe ==
  /\ stage \notin Over /\ listener = "starting"
  /\ listener' \in {"open", "failed"}
  /\ UNCHANGED <<service, stage, call, sigChan, signals, influx, attempts, recordsLeft,
                 overdue>>

\* Fault: after the last attempt it begins again.
WaitForTopicForever ==
  /\ \/ Main("collector", "topic", "join") /\ UNCHANGED attempts
     \/ Main("collector", "topic", "topic") /\ attempts' = (attempts + 1) % MaxAttempts
  /\ UNCHANGED <<service, listener, call, sigChan, signals, influx, recordsLeft, overdue>>

\* Fault: one attempt too many.
WaitForTopicOnceMore ==
  /\ \/ Main("collector", "topic", "join") /\ UNCHANGED attempts
     \/ /\ attempts' = attempts + 1
        /\ Main("collector", "topic", IF attempts = MaxAttempts THEN "join" ELSE "topic")
  /\ UNCHANGED <<service, listener, call, sigChan, signals, influx, recordsLeft, overdue>>

\* An attempt of waitForTopicMetadata: the topic has partitions, or the call failed
\* or the topic has none; after the last attempt the constructor goes on without.
WaitForTopicMetadata ==
  /\ \/ Main("collector", "topic", "join") /\ UNCHANGED attempts
     \/ /\ attempts' = attempts + 1
        /\ Main("collector", "topic", IF attempts' = MaxAttempts THEN "join" ELSE "topic")
  /\ UNCHANGED <<service, listener, call, sigChan, signals, influx, recordsLeft, overdue>>

\* The constructor's join, which may fail: the consumer then joins with its first call.
JoinInitially ==
  /\ Main("collector", "join", "sources")
  /\ UNCHANGED <<service, listener, call, sigChan, signals, influx, attempts,
                 recordsLeft, overdue>>

\* The sources are registered, with or without a consumer, and the collection starts.
StartSources ==
  /\ Main("collector", "sources", "notify")
  /\ UNCHANGED <<service, listener, call, sigChan, signals, influx, attempts,
                 recordsLeft, overdue>>

\* signal.Notify.
Notify ==
  /\ Main(service, "notify", "notified")
  /\ UNCHANGED <<service, listener, call, sigChan, signals, influx, attempts,
                 recordsLeft, overdue>>

\* main goes on to wait; the API starts its server just before.
AwaitSignal ==
  /\ Main(service, "notified", "waits")
  /\ listener' = IF service = "api" THEN "starting" ELSE listener
  /\ UNCHANGED <<service, call, sigChan, signals, influx, attempts, recordsLeft, overdue>>

\* The collection loop puts records into the batch and takes them out.
CollectOrFlush ==
  /\ service = "collector" /\ stage \in {"notify", "notified", "waits", "close"}
  /\ recordsLeft' = ~recordsLeft
  /\ UNCHANGED <<service, stage, listener, call, sigChan, signals, influx, attempts, overdue>>

-----------------------------------------------------------------------------
(* Ending.                                                                 *)

\* Fault: the API closes the database first.
TakeSignalClosing ==
  /\ sigChan /\ sigChan' = FALSE
  /\ Main(service, "waits", IF service = "collector" THEN "close" ELSE "drain")
  /\ listener' = IF service = "collector" THEN listener ELSE "draining"
  /\ influx' = IF service = "api" THEN "closed" ELSE influx
  /\ UNCHANGED <<service, call, signals, attempts, recordsLeft, overdue>>

\* main takes the signal; broker and API tell their servers to take no more calls.
TakeSignal ==
  /\ sigChan /\ sigChan' = FALSE
  /\ Main(service, "waits", IF service = "collector" THEN "close" ELSE "drain")
  /\ listener' = IF service = "collector" THEN listener ELSE "draining"
  /\ UNCHANGED <<service, call, signals, influx, attempts, recordsLeft, overdue>>

\* Fault: Stop instead of GracefulStop.
StopServer ==
  /\ Main("broker", "drain", "deregister")
  /\ listener' = "closed"
  /\ UNCHANGED <<service, call, sigChan, signals, influx, attempts, recordsLeft, overdue>>

\* GracefulStop returns when all calls have ended; it has no deadline.
GracefulStop ==
  /\ Main("broker", "drain", "deregister")
  /\ Running = {} /\ listener' = "closed"
  /\ UNCHANGED <<service, call, sigChan, signals, influx, attempts, recordsLeft, overdue>>

\* The broker stops, leaves the coordinator (see EtcdCoordinator) and returns.
ExitBroker ==
  /\ service = "broker" /\ stage = "deregister"
  /\ EndAs("exited")
  /\ UNCHANGED <<service, listener, sigChan, signals, influx, attempts, recordsLeft, overdue>>

\* Shutdown returns when all calls have ended or after 30 seconds.
ShutdownServer ==
  /\ Main("api", "drain", "defers")
  /\ overdue' = (Running # {}) /\ listener' = "closed"
  /\ UNCHANGED <<service, call, sigChan, signals, influx, attempts, recordsLeft>>

\* The deferred repo.Close.
CloseRepository ==
  /\ Main("api", "defers", "returns")
  /\ influx' = "closed"
  /\ UNCHANGED <<service, listener, call, sigChan, signals, attempts, recordsLeft, overdue>>

ExitApi ==
  /\ service = "api" /\ stage = "returns"
  /\ EndAs("exited")
  /\ UNCHANGED <<service, listener, sigChan, signals, influx, attempts, recordsLeft, overdue>>

\* The collector's Close: with records in the batch it waits for itself (module
\* Collector), and the shutdown timeout is looked at only after it.  Otherwise the
\* deferred tsdbWriter.Close follows.  The health server is never shut down.
CloseCollector ==
  /\ service = "collector" /\ stage = "close"
  /\ IF recordsLeft
     THEN stage' = "hangs" /\ UNCHANGED <<call, influx>>
     ELSE EndAs("exited") /\ influx' = IF influx = "open" THEN "closed" ELSE influx
  /\ UNCHANGED <<service, listener, sigChan, signals, attempts, recordsLeft, overdue>>

-----------------------------------------------------------------------------
LifecycleInit ==
  /\ service \in {"broker", "collector", "api"}
  /\ stage = "begin" /\ listener = "closed" /\ call = [c \in Calls |-> "unsent"]
  /\ sigChan = FALSE /\ signals = 0
  /\ influx = "none" /\ attempts = 0 /\ recordsLeft = FALSE /\ overdue = FALSE

\* Steps of main, and of the goroutine that starts its server.
MainGoroutine ==
  \/ StartBroker \/ ServeBroker \/ OpenRepository \/ StartCollector
  \/ ListenAndServe \/ WaitForTopicMetadata \/ JoinInitially \/ StartSources
  \/ Notify \/ AwaitSignal \/ TakeSignal
  \/ GracefulStop \/ ExitBroker \/ ShutdownServer \/ CloseRepository \/ ExitApi
  \/ CloseCollector

LifecycleNext ==
  \/ MainGoroutine
  \/ \E c \in Calls : Accept(c) \/ Answer(c)
  \/ NotifySignal \/ ServeFails \/ CollectOrFlush

-----------------------------------------------------------------------------
(* Properties.                                                             *)

\* Every variable has its type, attempts stay within their number, only the
\* collector hangs, and only with records in its batch (the three mains).
LifecycleTypeOK ==
  /\ service \in {"broker", "collector", "api"}
  /\ stage \in Starting \union Over
               \union {"notified", "waits", "drain", "deregister", "defers", "returns",
                       "close", "hangs"}
  /\ listener \in {"closed", "starting", "open", "failed", "draining"}
  /\ call \in [Calls -> {"unsent", "running", "answered", "failed", "cut"}]
  /\ sigChan \in BOOLEAN /\ signals \in 0 .. MaxSignals
  /\ influx \in {"none", "open", "closed"} /\ attempts \in 0 .. MaxAttempts
  /\ recordsLeft \in BOOLEAN /\ overdue \in BOOLEAN
  /\ stage = "hangs" => service = "collector" /\ recordsLeft

\* A broker or an API that ends on a signal has answered every call it took, unless
\* the API's 30 seconds ran out; so a broker that leaves the coordinator serves
\* nobody (GracefulStop, Shutdown).
CutOnlyByDeadline ==
  \A c \in Calls :
    call[c] = "cut" => \/ stage \in {"killed", "fatal"}
                       \/ overdue
                       \/ service = "collector"

\* The API closes its database only when no call uses it, unless the 30 seconds ran
\* out (order of Shutdown and the deferred repo.Close).
DatabaseOutlivesCalls == \A c \in Calls : call[c] = "failed" => overdue

\* A signal ends the process, at whatever moment it comes, or the collector hangs
\* in Close (sigChan has room for the signal that comes before main waits for it).
SignalEnds == signals > 0 ~> stage \in Over \union {"hangs"}

\* A program that has begun gets as far as waiting for a signal, or ends: a topic that
\* is missing does not keep it starting for ever (waitForTopicMetadata gives up).
StartupEnds == stage \in Starting \ {"begin"} ~> stage \notin Starting
=============================================================================

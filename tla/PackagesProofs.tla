--------------------------- MODULE PackagesProofs ---------------------------
(***************************************************************************)
(* Proofs about the packages of the broker, for every value of their       *)
(* constants.  Each is a theorem of BrokerPackages' Spec: the other        *)
(* packages leave a package's variables alone.                             *)
(*                                                                         *)
(*   StorageStaysSound       two locks protect the logs, and the storage   *)
(*                           can stop in the two known ways only           *)
(*   SendsStaySound          no message of the library's producer is lost  *)
(*   ReportStaysSound        the lag the administration command reports    *)
(*   ReadsStaySound          what the library's consumer passes on         *)
(*   ReplicasStaySound       leader and in-sync replicas of a partition    *)
(*   CoordinatorsStaySound   registrations, elections and events of etcd,  *)
(*                           failover and group offsets of the mock        *)
(*   StrategiesStaySound     who gets which partition from the rebalancers *)
(*   PackagesTypesHold       the types of all of them                      *)
(***************************************************************************)
EXTENDS BrokerPackages, OrderedSets, SequenceTheorems

-----------------------------------------------------------------------------
(* Storage: who holds which lock.                                          *)

Holding   == {"clean", "keep"}
Latest    == {"clean", "keep", "offset"}
OneMutex  == [w : SUBSET Workers, r : SUBSET Workers]
LogMutex  == [w : SUBSET Workers, r : {{}}]

StorageData ==
  /\ current \in 0 .. MaxLogs /\ written \in 0 .. MaxWrites
  /\ expired \subseteq StorageOffsets
  /\ messages \in [Logs -> SUBSET StorageOffsets]
  /\ entries \in [Logs -> SUBSET StorageOffsets] /\ size \in [Logs -> Nat]
  /\ sMu \in OneMutex /\ logMu \in [Logs -> LogMutex]

\* The locks a goroutine holds are those of its stage.
LockedBy(t) ==
  /\ t \in sMu.w <=> worker[t].at \in Holding
  /\ t \in sMu.r <=> worker[t].at = "offset"
  /\ \A l \in Logs : t \in logMu[l].w <=> worker[t].at \in Locking /\ worker[t].log = l

\* What a goroutine knows of the log it found: a later one may have replaced it,
\* but not while it holds s.mu, and what Cleanup is to drop is old.
CallInv(t) ==
  /\ worker[t].at = "idle" \/ worker[t].log \in 1 .. current
  /\ worker[t].at = "reset" => worker[t].next \in worker[t].log .. current
  /\ worker[t].at \in {"write", "index"} => worker[t].offset \in StorageOffsets
  /\ worker[t].at \in Latest => worker[t].log = current
  /\ worker[t].at = "keep" => messages[worker[t].log] \ worker[t].kept \subseteq expired

\* Two goroutines exclude each other.
Apart(t, u) ==
  /\ ~ (/\ worker[t].at \in Locking /\ worker[u].at \in Locking
        /\ worker[t].log = worker[u].log)
  /\ worker[t].at \in Holding => worker[u].at \notin Latest
  /\ worker[u].at \in Holding => worker[t].at \notin Latest

StorageInv ==
  /\ StorageData /\ worker \in [Workers -> Calls]
  /\ \A t \in Workers : LockedBy(t) /\ CallInv(t)
  /\ \A t \in Workers : \A u \in Workers \ {t} : Apart(t, u)

\* It says what StorageTypeOK says of the locks.
LEMMA StorageInvTypes == StorageInv => StorageTypeOK
<1> SUFFICES ASSUME StorageInv PROVE StorageTypeOK
  OBVIOUS
<1>1. sMu = [w |-> {t \in Workers : worker[t].at \in {"clean", "keep"}},
             r |-> {t \in Workers : worker[t].at = "offset"}]
  <2>1. sMu \in OneMutex
    BY DEF StorageInv, StorageData
  <2>2. sMu.w = {t \in Workers : worker[t].at \in {"clean", "keep"}}
    BY <2>1 DEF StorageInv, LockedBy, Holding, OneMutex
  <2>3. sMu.r = {t \in Workers : worker[t].at = "offset"}
    BY <2>1 DEF StorageInv, LockedBy, OneMutex
  <2>4. QED
    BY <2>1, <2>2, <2>3 DEF OneMutex
<1>2. logMu = [l \in Logs |->
                [w |-> {t \in Workers : worker[t].at \in Locking /\ worker[t].log = l},
                 r |-> {}]]
  <2>1. logMu \in [Logs -> LogMutex]
    BY DEF StorageInv, StorageData
  <2>2. ASSUME NEW l \in Logs
        PROVE  logMu[l] = [w |-> {t \in Workers : worker[t].at \in Locking
                                                  /\ worker[t].log = l}, r |-> {}]
    <3>1. logMu[l] \in LogMutex
      BY <2>1
    <3>2. logMu[l].w = {t \in Workers : worker[t].at \in Locking /\ worker[t].log = l}
      BY <3>1 DEF StorageInv, LockedBy, LogMutex
    <3>3. QED
      BY <3>1, <3>2 DEF LogMutex
  <2>3. QED
    BY <2>1, <2>2
<1>3. QED
  BY <1>1, <1>2 DEF StorageTypeOK, StorageInv, StorageData

\* A lock that can be taken is held by nobody.
LEMMA StorageLocksFree ==
  ASSUME StorageInv
  PROVE  /\ Takable(sMu) => \A u \in Workers : worker[u].at \notin Latest
         /\ Sharable(sMu) => \A u \in Workers : worker[u].at \notin Holding
         /\ \A l \in Logs : Takable(logMu[l]) =>
              \A u \in Workers : ~ (worker[u].at \in Locking /\ worker[u].log = l)
BY DEF StorageInv, LockedBy, Takable, Sharable, Holding, Latest

-----------------------------------------------------------------------------
(* Storage: one goroutine's step.                                          *)

\* A step of t: it ends in a stage whose locks it holds, excludes the others as
\* before, and changes nothing that they know.
Moves(t) ==
  /\ worker'[t] \in Calls /\ worker' = [worker EXCEPT ![t] = worker'[t]]
  /\ StorageData' /\ expired' = expired
  /\ current <= current'
  /\ current' # current => \A u \in Workers \ {t} : worker[u].at \notin Latest
  /\ \A u \in Workers \ {t} : /\ u \in sMu'.w <=> u \in sMu.w
                              /\ u \in sMu'.r <=> u \in sMu.r
                              /\ \A l \in Logs : u \in logMu'[l].w <=> u \in logMu[l].w
                              /\ Apart(t, u)'
                              /\ worker[u].at = "keep" =>
                                   messages'[worker[u].log] = messages[worker[u].log]
  /\ LockedBy(t)' /\ CallInv(t)'

\* Such a step keeps the invariant.
LEMMA MovesKeep ==
  ASSUME StorageInv, NEW t \in Workers, Moves(t)
  PROVE  StorageInv'
<1>1. /\ worker \in [Workers -> Calls] /\ worker'[t] \in Calls
      /\ worker' = [worker EXCEPT ![t] = worker'[t]]
  BY DEF StorageInv, Moves
<1>2. worker' \in [Workers -> Calls]
  BY <1>1
<1>3. \A u \in Workers \ {t} : worker'[u] = worker[u]
  BY <1>1
<1>4. current \in Nat /\ current' \in Nat /\ current <= current'
  BY DEF StorageInv, StorageData, Moves
<1>5. \A u \in Workers \ {t} : LockedBy(u)'
  BY <1>3 DEF StorageInv, Moves, LockedBy
<1>6. ASSUME NEW u \in Workers \ {t} PROVE CallInv(u)'
  <2>1. CallInv(u) /\ worker'[u] = worker[u] /\ worker[u] \in Calls
    BY <1>1, <1>3 DEF StorageInv
  <2>2. worker[u].at = "idle" \/ worker[u].log \in 1 .. current'
    BY <1>4, <2>1 DEF CallInv
  <2>3. worker[u].at = "reset" => worker[u].next \in worker[u].log .. current'
    BY <1>4, <2>1 DEF CallInv, Calls
  <2>4. worker[u].at \in Latest => worker[u].log = current'
    BY <2>1 DEF CallInv, Moves
  <2>5. worker[u].at = "keep" => messages'[worker[u].log] \ worker[u].kept \subseteq expired'
    BY <2>1 DEF CallInv, Moves
  <2>6. QED
    BY <2>1, <2>2, <2>3, <2>4, <2>5 DEF CallInv
<1>7. ASSUME NEW u \in Workers, NEW v \in Workers \ {u} PROVE Apart(u, v)'
  <2>1. CASE u = t
    BY <2>1 DEF Moves
  <2>2. CASE v = t
    <3>1. Apart(t, u)'
      BY <2>2 DEF Moves
    <3>2. QED
      BY <2>2, <3>1 DEF Apart
  <2>3. CASE u # t /\ v # t
    <3>1. Apart(u, v) /\ worker'[u] = worker[u] /\ worker'[v] = worker[v]
      BY <1>3, <2>3 DEF StorageInv
    <3>2. QED
      BY <3>1 DEF Apart
  <2>4. QED
    BY <2>1, <2>2, <2>3
<1>8. LockedBy(t)' /\ CallInv(t)' /\ StorageData'
  BY DEF Moves
<1>9. QED
  BY <1>2, <1>5, <1>6, <1>7, <1>8 DEF StorageInv

\* A new log replaces the latest one while nobody holds s.mu.
LEMMA CreateMoves ==
  ASSUME StorageInv, NEW t \in Workers, CreatePartitionLog(t)
  PROVE  Moves(t) /\ OnlyOldMessagesGo
<1> USE StorageAssumption
<1>1. /\ Takable(sMu) /\ current < MaxLogs /\ current' = current + 1
      /\ UNCHANGED <<sMu, logMu, worker, messages, entries, size, written, expired>>
  BY DEF CreatePartitionLog, logData, clock
<1>2. \A u \in Workers : worker[u].at \notin Latest
  BY <1>1, StorageLocksFree
<1>3. current \in Nat /\ current' \in 0 .. MaxLogs /\ current <= current'
  BY <1>1 DEF StorageInv, StorageData
<1>4. StorageData'
  BY <1>1, <1>3 DEF StorageInv, StorageData
<1>5. worker[t] \in Calls /\ worker' = [worker EXCEPT ![t] = worker'[t]]
  BY <1>1 DEF StorageInv
<1>6. LockedBy(t)'
  BY <1>1 DEF StorageInv, LockedBy
<1>7. worker[t].at = "idle"
  BY DEF CreatePartitionLog, Free
<1>8. CallInv(t)'
  BY <1>1, <1>7 DEF CallInv, Latest
<1>9. \A u \in Workers \ {t} : Apart(t, u)'
  BY <1>1 DEF StorageInv, Apart
<1>10. QED
  BY <1>1, <1>2, <1>3, <1>4, <1>5, <1>6, <1>8, <1>9 DEF Moves, OnlyOldMessagesGo

\* What t does after a step that leaves the locks and the logs alone, and the
\* stages it goes through need none or the same.
LEMMA QuietMoves ==
  ASSUME StorageInv, NEW t \in Workers, NEW a \in Calls,
         worker' = [worker EXCEPT ![t] = a],
         UNCHANGED <<sMu, logMu, current, messages, entries, size, expired>>,
         written' \in 0 .. MaxWrites,
         \/ worker[t].at \notin Latest \union Locking /\ a.at \notin Latest \union Locking
         \/ worker[t].at = "rotate" /\ a.at = "reset" /\ a.log = worker[t].log,
         a.at = "idle" \/ a.log \in 1 .. current,
         a.at = "reset" => a.next \in a.log .. current,
         a.at \in {"write", "index"} => a.offset \in StorageOffsets
  PROVE  Moves(t) /\ OnlyOldMessagesGo
<1>1. worker \in [Workers -> Calls] /\ worker'[t] = a
      /\ \A u \in Workers \ {t} : worker'[u] = worker[u]
  BY DEF StorageInv
<1>2. StorageData'
  BY DEF StorageInv, StorageData
<1>3. LockedBy(t)'
  BY <1>1 DEF StorageInv, LockedBy, Latest, Holding, Locking
<1>4. CallInv(t)'
  BY <1>1 DEF CallInv, Latest, Locking
<1>5. \A u \in Workers \ {t} : Apart(t, u)'
  BY <1>1 DEF StorageInv, Apart, Latest, Holding, Locking
<1>6. current <= current'
  BY DEF StorageInv, StorageData
<1>7. QED
  BY <1>1, <1>2, <1>3, <1>4, <1>5, <1>6 DEF Moves, OnlyOldMessagesGo

\* The steps that look a log up or read it.
LEMMA LookupMoves ==
  ASSUME StorageInv, NEW t \in Workers,
         WriteMessage(t) \/ RotateLookup(t) \/ ReadMessages(t) \/ ReadLog(t)
  PROVE  Moves(t) /\ OnlyOldMessagesGo
<1> USE StorageAssumption
<1>1. /\ worker[t] \in Calls /\ current \in 0 .. MaxLogs /\ written \in 0 .. MaxWrites
      /\ CallInv(t)
  BY DEF StorageInv, StorageData
<1>2. Free \in Calls /\ Free.at = "idle"
  BY DEF Free, Calls, Stages
<1>3. CASE WriteMessage(t)
  <2> DEFINE a == [Free EXCEPT !.at = "write", !.log = current, !.offset = written]
  <2>1. /\ worker[t].at = "idle" /\ current # 0 /\ written < MaxWrites
        /\ worker' = [worker EXCEPT ![t] = a] /\ written' = written + 1
        /\ UNCHANGED <<sMu, logMu, current, messages, entries, size, expired>>
    BY <1>2, <1>3 DEF WriteMessage, logData
  <2>2. /\ a \in Calls /\ a.at = "write" /\ a.log \in 1 .. current
        /\ a.offset \in StorageOffsets /\ written' \in 0 .. MaxWrites
    <3>1. /\ current \in 1 .. current /\ written \in Int
          /\ written \in 0 .. (MaxWrites - 1) /\ written + 1 \in 0 .. MaxWrites
      BY <1>1, <2>1
    <3>2. /\ a \in Calls /\ a.at = "write" /\ a.log = current /\ a.offset = written
      BY <1>1, <1>2, <3>1 DEF Calls, Stages
    <3>3. QED
      BY <2>1, <3>1, <3>2 DEF StorageOffsets
  <2> HIDE DEF a
  <2>3. worker[t].at \notin Latest \union Locking /\ a.at \notin Latest \union Locking
    BY <2>1, <2>2 DEF Latest, Locking
  <2>4. QED
    BY <2>1, <2>2, <2>3, QuietMoves
<1>4. CASE RotateLookup(t)
  <2> DEFINE a == [worker[t] EXCEPT !.at = "reset", !.next = current]
  <2>1. /\ worker[t].at = "rotate" /\ worker' = [worker EXCEPT ![t] = a]
        /\ UNCHANGED <<sMu, logMu, current, messages, entries, size, written, expired>>
    BY <1>1, <1>4 DEF RotateLookup, logData, clock, StorageInv
  <2>2. worker[t].log \in 1 .. current
    BY <1>1, <2>1 DEF CallInv
  <2>3. /\ a \in Calls /\ a.at = "reset" /\ a.log = worker[t].log /\ a.log \in 1 .. current
        /\ a.next \in a.log .. current /\ written' \in 0 .. MaxWrites
    <3>1. a \in Calls /\ a.at = "reset" /\ a.log = worker[t].log /\ a.next = current
      BY <1>1 DEF Calls, Stages
    <3>2. current \in worker[t].log .. current
      BY <1>1, <2>2
    <3>3. QED
      BY <1>1, <2>1, <2>2, <3>1, <3>2
  <2> HIDE DEF a
  <2>4. QED
    BY <2>1, <2>3, QuietMoves
<1>5. CASE ReadMessages(t)
  <2> DEFINE a == [Free EXCEPT !.at = "read", !.log = current]
  <2>1. /\ worker[t].at = "idle" /\ current # 0
        /\ worker' = [worker EXCEPT ![t] = a]
        /\ UNCHANGED <<sMu, logMu, current, messages, entries, size, written, expired>>
    BY <1>2, <1>5 DEF ReadMessages, logData, clock
  <2>2. /\ a \in Calls /\ a.at = "read" /\ a.log \in 1 .. current
        /\ written' \in 0 .. MaxWrites
    <3>1. current \in 1 .. current
      BY <1>1, <2>1
    <3>2. a \in Calls /\ a.at = "read" /\ a.log = current
      BY <1>1, <1>2 DEF Calls, Stages
    <3>3. QED
      BY <1>1, <2>1, <3>1, <3>2
  <2> HIDE DEF a
  <2>3. worker[t].at \notin Latest \union Locking /\ a.at \notin Latest \union Locking
    BY <2>1, <2>2 DEF Latest, Locking
  <2>4. QED
    BY <2>1, <2>2, <2>3, QuietMoves
<1>6. CASE ReadLog(t)
  <2>1. /\ worker[t].at = "read" /\ worker' = [worker EXCEPT ![t] = Free]
        /\ UNCHANGED <<sMu, logMu, current, messages, entries, size, written, expired>>
    BY <1>6 DEF ReadLog, Done, logData, clock
  <2>2. written' \in 0 .. MaxWrites
    BY <1>1, <2>1
  <2>3. worker[t].at \notin Latest \union Locking /\ Free.at \notin Latest \union Locking
    BY <1>2, <2>1 DEF Latest, Locking
  <2>4. QED
    BY <1>2, <2>1, <2>2, <2>3, QuietMoves
<1>7. QED
  BY <1>3, <1>4, <1>5, <1>6

\* Locking and unlocking a log.
LEMMA LogLockChanges ==
  ASSUME StorageInv, NEW t \in Workers, NEW l \in Logs, NEW s \in {{}, {t}},
         logMu' = [logMu EXCEPT ![l].w = s]
  PROVE  /\ logMu' \in [Logs -> LogMutex]
         /\ \A k \in Logs : logMu'[k].w = IF k = l THEN s ELSE logMu[k].w
BY DEF StorageInv, StorageData, LogMutex

\* Taking and releasing s.mu.
LEMMA MutexChanges ==
  ASSUME StorageInv, NEW t \in Workers
  PROVE  /\ \A s \in {{}, {t}} : sMu' = [sMu EXCEPT !.w = s] =>
              sMu' \in OneMutex /\ sMu'.w = s /\ sMu'.r = sMu.r
         /\ sMu' = [sMu EXCEPT !.r = @ \union {t}] =>
              sMu' \in OneMutex /\ sMu'.w = sMu.w /\ sMu'.r = sMu.r \union {t}
         /\ sMu' = [sMu EXCEPT !.r = @ \ {t}] =>
              sMu' \in OneMutex /\ sMu'.w = sMu.w /\ sMu'.r = sMu.r \ {t}
BY DEF StorageInv, StorageData, OneMutex

\* A write appends under log.mu and then, under s.mu, to the index.
LEMMA AppendMoves ==
  ASSUME StorageInv, NEW t \in Workers, AppendMessage(t) \/ AppendIndex(t)
  PROVE  Moves(t) /\ OnlyOldMessagesGo
<1> USE StorageAssumption
<1> DEFINE l == worker[t].log
<1>1. /\ worker \in [Workers -> Calls] /\ worker[t] \in Calls
      /\ current \in 0 .. MaxLogs
      /\ messages \in [Logs -> SUBSET StorageOffsets]
      /\ entries \in [Logs -> SUBSET StorageOffsets] /\ size \in [Logs -> Nat]
      /\ logMu \in [Logs -> LogMutex] /\ StorageData /\ LockedBy(t) /\ CallInv(t)
  BY DEF StorageInv, StorageData
<1>2. /\ l \in 1 .. current /\ l \in Logs /\ current \in Logs
      /\ worker[t].offset \in StorageOffsets
  <2>1. worker[t].at \in {"write", "index"}
    BY DEF AppendMessage, AppendIndex
  <2>2. l \in 1 .. current /\ worker[t].offset \in StorageOffsets
    BY <1>1, <2>1 DEF CallInv
  <2>3. QED
    BY <1>1, <2>2 DEF Logs
<1> HIDE DEF l
<1>3. CASE AppendMessage(t)
  <2> DEFINE a == [worker[t] EXCEPT !.at = "index"]
  <2>1. /\ worker[t].at = "write" /\ Takable(logMu[l])
        /\ logMu' = [logMu EXCEPT ![l].w = {t}]
        /\ messages' = [messages EXCEPT ![l] = messages[l] \union {worker[t].offset}]
        /\ worker' = [worker EXCEPT ![t] = a]
        /\ UNCHANGED <<sMu, current, entries, size, written, expired>>
    BY <1>1, <1>3 DEF AppendMessage, LockLog, GoOn, clock, l
  <2>2. /\ a \in Calls /\ a.at = "index" /\ a.log = l /\ a.offset = worker[t].offset
        /\ worker'[t] = a
    BY <1>1, <2>1 DEF Calls, Stages, l
  <2> HIDE DEF a
  <2>3. \A u \in Workers : ~ (worker[u].at \in Locking /\ worker[u].log = l)
    BY <1>2, <2>1, StorageLocksFree
  <2>4. /\ logMu' \in [Logs -> LogMutex]
        /\ \A k \in Logs : logMu'[k].w = IF k = l THEN {t} ELSE logMu[k].w
    BY <1>2, <2>1, LogLockChanges
  <2>5. /\ messages' \in [Logs -> SUBSET StorageOffsets]
        /\ \A k \in Logs : messages[k] \subseteq messages'[k]
        /\ \A k \in Logs : k # l => messages'[k] = messages[k]
    BY <1>1, <1>2, <2>1
  <2>6. StorageData'
    BY <1>1, <2>1, <2>4, <2>5 DEF StorageData
  <2>7. LockedBy(t)'
    BY <1>1, <2>1, <2>2, <2>3, <2>4 DEF LockedBy, Holding, Locking, l
  <2>8. CallInv(t)'
    BY <1>2, <2>1, <2>2 DEF CallInv, Latest
  <2>9. ASSUME NEW u \in Workers \ {t}
        PROVE  /\ \A k \in Logs : u \in logMu'[k].w <=> u \in logMu[k].w
               /\ Apart(t, u)'
               /\ worker[u].at = "keep" => messages'[worker[u].log] = messages[worker[u].log]
    <3>1. worker'[u] = worker[u] /\ LockedBy(u) /\ CallInv(u)
      BY <1>1, <2>1 DEF StorageInv
    <3>2. \A k \in Logs : u \in logMu'[k].w <=> u \in logMu[k].w
      BY <1>2, <2>3, <2>4, <3>1 DEF LockedBy
    <3>3. Apart(t, u)'
      BY <2>2, <2>3, <3>1 DEF Apart, Holding, Latest
    <3>4. worker[u].at = "keep" => messages'[worker[u].log] = messages[worker[u].log]
      <4>1. worker[u].at = "keep" => worker[u].log # l /\ worker[u].log \in 1 .. current
        BY <2>3, <3>1 DEF CallInv, Locking
      <4>2. QED
        BY <1>1, <2>5, <4>1 DEF Logs
    <3>5. QED
      BY <3>2, <3>3, <3>4
  <2>10. current <= current'
    BY <1>1, <2>1
  <2>11. Moves(t)
    BY <2>1, <2>2, <2>6, <2>7, <2>8, <2>9, <2>10 DEF Moves
  <2>12. QED
    BY <2>5, <2>11 DEF OnlyOldMessagesGo
<1>4. CASE AppendIndex(t)
  <2>1. /\ worker[t].at = "index" /\ Takable(sMu)
        /\ entries' = [entries EXCEPT ![current] = entries[current] \union {worker[t].offset}]
        /\ size' = [size EXCEPT ![l] = size[l] + 1]
        /\ UNCHANGED <<sMu, current, messages, written, expired>>
    BY <1>4 DEF AppendIndex, clock, l
  <2>2. /\ entries' \in [Logs -> SUBSET StorageOffsets] /\ size' \in [Logs -> Nat]
        /\ current <= current'
    BY <1>1, <1>2, <2>1
  <2>3. \A u \in Workers : worker[u].at \notin Latest
    BY <2>1, StorageLocksFree
  <2>4. CASE /\ worker' = [worker EXCEPT ![t].at = "rotate"] /\ logMu' = logMu
    <3> DEFINE a == [worker[t] EXCEPT !.at = "rotate"]
    <3>1. worker' = [worker EXCEPT ![t] = a]
      BY <1>1, <2>4
    <3>2. a \in Calls /\ a.at = "rotate" /\ a.log = l /\ worker'[t] = a
      BY <1>1, <3>1 DEF Calls, Stages, l
    <3> HIDE DEF a
    <3>3. StorageData'
      BY <1>1, <2>1, <2>2, <2>4 DEF StorageData
    <3>4. LockedBy(t)'
      BY <1>1, <2>1, <2>4, <3>2 DEF LockedBy, Holding, Locking, l
    <3>5. CallInv(t)'
      BY <1>2, <2>1, <3>2 DEF CallInv, Latest
    <3>6. ASSUME NEW u \in Workers \ {t} PROVE Apart(t, u)'
      <4>1. worker'[u] = worker[u] /\ Apart(t, u)
        BY <1>1, <3>1 DEF StorageInv
      <4>2. QED
        BY <2>1, <3>2, <4>1 DEF Apart, Holding, Latest, Locking, l
    <3>7. QED
      BY <2>1, <2>2, <2>4, <3>1, <3>2, <3>3, <3>4, <3>5, <3>6 DEF Moves, OnlyOldMessagesGo
  <2>5. CASE worker' = [worker EXCEPT ![t] = Free] /\ logMu' = [logMu EXCEPT ![l].w = {}]
    <3>1. Free \in Calls /\ Free.at = "idle" /\ worker'[t] = Free
      BY <1>1, <2>5 DEF Free, Calls, Stages
    <3>2. /\ logMu' \in [Logs -> LogMutex]
          /\ \A k \in Logs : logMu'[k].w = IF k = l THEN {} ELSE logMu[k].w
      BY <1>2, <2>5, LogLockChanges
    <3>3. StorageData'
      BY <1>1, <2>1, <2>2, <3>2 DEF StorageData
    <3>4. LockedBy(t)'
      BY <1>1, <2>1, <3>1, <3>2 DEF LockedBy, Holding, Locking, l
    <3>5. CallInv(t)'
      BY <3>1 DEF CallInv, Latest
    <3>6. ASSUME NEW u \in Workers \ {t}
          PROVE  /\ \A k \in Logs : u \in logMu'[k].w <=> u \in logMu[k].w
                 /\ Apart(t, u)'
      <4>1. worker'[u] = worker[u] /\ Apart(t, u) /\ LockedBy(u)
        BY <1>1, <2>5 DEF StorageInv
      <4>2. Apart(t, u)'
        BY <3>1, <4>1 DEF Apart, Holding, Latest, Locking
      <4>3. u \notin logMu[l].w
        BY <1>2, <2>1, <4>1 DEF Apart, LockedBy, Locking, l
      <4>4. QED
        BY <3>2, <4>2, <4>3
    <3>7. QED
      BY <2>1, <2>2, <2>5, <3>1, <3>3, <3>4, <3>5, <3>6 DEF Moves, OnlyOldMessagesGo
  <2>6. QED
    BY <1>4, <2>4, <2>5 DEF AppendIndex, GoOn, Done, UnlockLog, l
<1>5. QED
  BY <1>3, <1>4

\* A full log is reset; the writer has log.mu of the one it found.
LEMMA RotateMoves ==
  ASSUME StorageInv, NEW t \in Workers, RotateLog(t)
  PROVE  Moves(t) /\ OnlyOldMessagesGo
<1> DEFINE l == worker[t].log
           n == worker[t].next
<1>1. /\ worker \in [Workers -> Calls] /\ worker[t] \in Calls
      /\ current \in 0 .. MaxLogs
      /\ messages \in [Logs -> SUBSET StorageOffsets] /\ size \in [Logs -> Nat]
      /\ logMu \in [Logs -> LogMutex] /\ StorageData /\ LockedBy(t) /\ CallInv(t)
  BY DEF StorageInv, StorageData
<1>2. /\ worker[t].at = "reset" /\ Takable(logMu[n])
      /\ messages' = [messages EXCEPT ![n] = {}] /\ size' = [size EXCEPT ![n] = 0]
      /\ logMu' = [logMu EXCEPT ![l].w = {}] /\ worker' = [worker EXCEPT ![t] = Free]
      /\ UNCHANGED <<sMu, current, entries, written, expired>>
  BY DEF RotateLog, UnlockLog, Done, clock
<1>3. l \in Logs /\ n \in Logs
  BY <1>1, <1>2, StorageAssumption DEF CallInv, Logs
<1>4. \A u \in Workers : ~ (worker[u].at \in Locking /\ worker[u].log = n)
  BY <1>2, <1>3, StorageLocksFree
<1>5. Free \in Calls /\ Free.at = "idle" /\ worker'[t] = Free
  BY <1>1, <1>2, StorageAssumption DEF Free, Calls, Stages
<1> HIDE DEF n
<1>6. /\ logMu' \in [Logs -> LogMutex]
      /\ \A k \in Logs : logMu'[k].w = IF k = l THEN {} ELSE logMu[k].w
  BY <1>2, <1>3, LogLockChanges
<1>7. /\ messages' \in [Logs -> SUBSET StorageOffsets] /\ size' \in [Logs -> Nat]
      /\ \A k \in Logs : k # n => messages'[k] = messages[k]
      /\ current <= current'
  BY <1>1, <1>2, <1>3
<1>8. StorageData'
  BY <1>1, <1>2, <1>6, <1>7 DEF StorageData
<1>9. LockedBy(t)'
  BY <1>1, <1>2, <1>5, <1>6 DEF LockedBy, Holding, Locking
<1>10. CallInv(t)'
  BY <1>5 DEF CallInv, Latest
<1>11. ASSUME NEW u \in Workers \ {t}
       PROVE  /\ \A k \in Logs : u \in logMu'[k].w <=> u \in logMu[k].w
              /\ Apart(t, u)'
              /\ worker[u].at = "keep" => messages'[worker[u].log] = messages[worker[u].log]
  <2>1. worker'[u] = worker[u] /\ Apart(t, u) /\ LockedBy(u) /\ CallInv(u)
    BY <1>1, <1>2 DEF StorageInv
  <2>2. Apart(t, u)'
    BY <1>5, <2>1 DEF Apart, Holding, Latest, Locking
  <2>3. u \notin logMu[l].w
    BY <1>2, <1>3, <2>1 DEF Apart, LockedBy, Locking
  <2>4. worker[u].at = "keep" => messages'[worker[u].log] = messages[worker[u].log]
    <3>1. worker[u].at = "keep" => worker[u].log # n /\ worker[u].log \in Logs
      BY <1>1, <1>4, <2>1, StorageAssumption DEF CallInv, Locking, Logs
    <3>2. QED
      BY <1>7, <3>1
  <2>5. QED
    BY <1>6, <2>2, <2>3, <2>4
<1>12. Moves(t)
  BY <1>1, <1>2, <1>5, <1>7, <1>8, <1>9, <1>10, <1>11 DEF Moves
<1>13. \A k \in Logs : \A m \in messages[k] \ messages'[k] : k = n
  BY <1>7
<1>14. QED
  BY <1>2, <1>12, <1>13 DEF OnlyOldMessagesGo, n

\* GetOffset and Cleanup take s.mu.
LEMMA MutexMoves ==
  ASSUME StorageInv, NEW t \in Workers, GetOffset(t) \/ ReadOffset(t) \/ Cleanup(t)
  PROVE  Moves(t) /\ OnlyOldMessagesGo
<1> USE StorageAssumption
<1>1. /\ worker \in [Workers -> Calls] /\ worker[t] \in Calls
      /\ current \in 0 .. MaxLogs /\ sMu \in OneMutex
      /\ StorageData /\ LockedBy(t) /\ CallInv(t)
  BY DEF StorageInv, StorageData
<1>2. Free \in Calls /\ Free.at = "idle"
  BY DEF Free, Calls, Stages
<1>3. CASE GetOffset(t)
  <2> DEFINE a == [Free EXCEPT !.at = "offset", !.log = current]
  <2>1. /\ worker[t].at = "idle" /\ Sharable(sMu) /\ current # 0
        /\ sMu' = [sMu EXCEPT !.r = @ \union {t}] /\ worker' = [worker EXCEPT ![t] = a]
        /\ UNCHANGED <<logMu, current, messages, entries, size, written, expired>>
    BY <1>2, <1>3 DEF GetOffset, logData, clock
  <2>2. a \in Calls /\ a.at = "offset" /\ a.log = current /\ worker'[t] = a
    BY <1>1, <1>2, <2>1 DEF Calls, Stages
  <2> HIDE DEF a
  <2>3. sMu' \in OneMutex /\ sMu'.w = sMu.w /\ sMu'.r = sMu.r \union {t}
    BY <2>1, MutexChanges
  <2>4. \A u \in Workers : worker[u].at \notin Holding
    BY <2>1, StorageLocksFree
  <2>5. StorageData' /\ current <= current' /\ current \in 1 .. current'
    BY <1>1, <2>1, <2>3 DEF StorageData
  <2>6. LockedBy(t)'
    BY <1>1, <2>1, <2>2, <2>3 DEF LockedBy, Holding, Locking
  <2>7. CallInv(t)'
    BY <2>1, <2>2, <2>5 DEF CallInv, Latest
  <2>8. ASSUME NEW u \in Workers \ {t} PROVE Apart(t, u)'
    <3>1. worker'[u] = worker[u]
      BY <1>1, <2>1
    <3>2. QED
      BY <2>2, <2>4, <3>1 DEF Apart, Holding, Latest, Locking
  <2>9. QED
    BY <2>1, <2>2, <2>3, <2>5, <2>6, <2>7, <2>8 DEF Moves, OnlyOldMessagesGo
<1>4. CASE ReadOffset(t)
  <2>1. /\ worker[t].at = "offset"
        /\ sMu' = [sMu EXCEPT !.r = @ \ {t}] /\ worker' = [worker EXCEPT ![t] = Free]
        /\ UNCHANGED <<logMu, current, messages, entries, size, written, expired>>
    BY <1>4 DEF ReadOffset, Done, logData, clock
  <2>2. worker'[t] = Free
    BY <1>1, <2>1
  <2>3. sMu' \in OneMutex /\ sMu'.w = sMu.w /\ sMu'.r = sMu.r \ {t}
    BY <2>1, MutexChanges
  <2>4. StorageData' /\ current <= current'
    BY <1>1, <2>1, <2>3 DEF StorageData
  <2>5. LockedBy(t)'
    BY <1>1, <1>2, <2>1, <2>2, <2>3 DEF LockedBy, Holding, Locking
  <2>6. CallInv(t)'
    BY <1>2, <2>2 DEF CallInv, Latest
  <2>7. ASSUME NEW u \in Workers \ {t} PROVE Apart(t, u)'
    <3>1. worker'[u] = worker[u]
      BY <1>1, <2>1
    <3>2. QED
      BY <1>2, <2>2, <3>1 DEF Apart, Holding, Latest, Locking
  <2>8. QED
    BY <1>2, <2>1, <2>2, <2>3, <2>4, <2>5, <2>6, <2>7 DEF Moves, OnlyOldMessagesGo
<1>5. CASE Cleanup(t)
  <2> DEFINE a == [Free EXCEPT !.at = "clean", !.log = current]
  <2>1. /\ worker[t].at = "idle" /\ Takable(sMu) /\ current # 0
        /\ sMu' = [sMu EXCEPT !.w = {t}] /\ worker' = [worker EXCEPT ![t] = a]
        /\ UNCHANGED <<logMu, current, messages, entries, size, written, expired>>
    BY <1>2, <1>5 DEF Cleanup, logData, clock
  <2>2. a \in Calls /\ a.at = "clean" /\ a.log = current /\ worker'[t] = a
    BY <1>1, <1>2, <2>1 DEF Calls, Stages
  <2> HIDE DEF a
  <2>3. sMu' \in OneMutex /\ sMu'.w = {t} /\ sMu'.r = sMu.r
    BY <2>1, MutexChanges
  <2>4. \A u \in Workers : worker[u].at \notin Latest /\ u \notin sMu.w
    <3>1. \A u \in Workers : worker[u].at \notin Latest
      BY <2>1, StorageLocksFree
    <3>2. QED
      BY <2>1, <3>1 DEF Takable
  <2>5. StorageData' /\ current <= current' /\ current \in 1 .. current'
    BY <1>1, <2>1, <2>3 DEF StorageData
  <2>6. LockedBy(t)'
    BY <1>1, <2>1, <2>2, <2>3 DEF LockedBy, Holding, Locking
  <2>7. CallInv(t)'
    BY <2>1, <2>2, <2>5 DEF CallInv, Latest
  <2>8. ASSUME NEW u \in Workers \ {t} PROVE Apart(t, u)'
    <3>1. worker'[u] = worker[u]
      BY <1>1, <2>1
    <3>2. QED
      BY <2>2, <2>4, <3>1 DEF Apart, Holding, Latest, Locking
  <2>9. QED
    BY <2>1, <2>2, <2>3, <2>4, <2>5, <2>6, <2>7, <2>8 DEF Moves, OnlyOldMessagesGo
<1>6. QED
  BY <1>3, <1>4, <1>5

\* Cleanup locks the log, collects what is young enough and keeps only that.
LEMMA CleanupMoves ==
  ASSUME StorageInv, NEW t \in Workers, CollectYoung(t) \/ KeepYoung(t)
  PROVE  Moves(t) /\ OnlyOldMessagesGo
<1> USE StorageAssumption
<1> DEFINE l == worker[t].log
<1>1. /\ worker \in [Workers -> Calls] /\ worker[t] \in Calls
      /\ current \in 0 .. MaxLogs /\ sMu \in OneMutex
      /\ messages \in [Logs -> SUBSET StorageOffsets]
      /\ logMu \in [Logs -> LogMutex] /\ StorageData /\ LockedBy(t) /\ CallInv(t)
  BY DEF StorageInv, StorageData
<1>2. worker[t].at \in Holding /\ l \in 1 .. current /\ l \in Logs /\ l = current
  <2>1. worker[t].at \in Holding
    BY DEF CollectYoung, KeepYoung, Holding
  <2>2. QED
    BY <1>1, <2>1 DEF CallInv, Holding, Latest, Logs
<1>3. CASE CollectYoung(t)
  <2> DEFINE a == [worker[t] EXCEPT !.at = "keep", !.kept = messages[l] \ expired]
  <2>1. /\ worker[t].at = "clean" /\ Takable(logMu[l])
        /\ logMu' = [logMu EXCEPT ![l].w = {t}] /\ worker' = [worker EXCEPT ![t] = a]
        /\ UNCHANGED <<sMu, current, messages, entries, size, written, expired>>
    BY <1>1, <1>3 DEF CollectYoung, LockLog, logData, clock
  <2>2. messages[l] \subseteq StorageOffsets
    BY <1>1, <1>2
  <2>3. /\ a \in Calls /\ a.at = "keep" /\ a.log = l /\ a.kept = messages[l] \ expired
        /\ worker'[t] = a
    BY <1>1, <2>1, <2>2 DEF Calls, Stages
  <2> HIDE DEF a
  <2>4. \A u \in Workers : ~ (worker[u].at \in Locking /\ worker[u].log = l)
    BY <1>2, <2>1, StorageLocksFree
  <2>5. /\ logMu' \in [Logs -> LogMutex]
        /\ \A k \in Logs : logMu'[k].w = IF k = l THEN {t} ELSE logMu[k].w
    BY <1>2, <2>1, LogLockChanges
  <2>6. StorageData' /\ current <= current'
    BY <1>1, <2>1, <2>5 DEF StorageData
  <2> HIDE DEF l
  <2>7. LockedBy(t)'
    <3>1. \A k \in Logs : t \in logMu[k].w <=> FALSE
      BY <1>1, <2>1 DEF LockedBy, Locking
    <3>2. \A k \in Logs : t \in logMu'[k].w <=> k = l
      BY <2>5, <3>1
    <3>3. (t \in sMu.w <=> TRUE) /\ (t \in sMu.r <=> FALSE)
      BY <1>1, <2>1 DEF LockedBy, Holding
    <3>4. QED
      BY <2>1, <2>3, <3>2, <3>3 DEF LockedBy, Holding, Locking
  <2>8. CallInv(t)'
    BY <1>2, <2>1, <2>3 DEF CallInv, Latest
  <2>9. ASSUME NEW u \in Workers \ {t}
        PROVE  /\ \A k \in Logs : u \in logMu'[k].w <=> u \in logMu[k].w
               /\ Apart(t, u)'
    <3>1. worker'[u] = worker[u] /\ LockedBy(u) /\ Apart(t, u)
      BY <1>1, <2>1 DEF StorageInv
    <3>2. \A k \in Logs : u \in logMu'[k].w <=> u \in logMu[k].w
      BY <1>2, <2>4, <2>5, <3>1 DEF LockedBy
    <3>3. Apart(t, u)'
      BY <2>1, <2>3, <2>4, <3>1 DEF Apart, Holding, Latest
    <3>4. QED
      BY <3>2, <3>3
  <2>10. QED
    BY <2>1, <2>3, <2>6, <2>7, <2>8, <2>9 DEF Moves, OnlyOldMessagesGo
<1>4. CASE KeepYoung(t)
  <2>1. /\ worker[t].at = "keep"
        /\ messages' = [messages EXCEPT ![l] = worker[t].kept]
        /\ sMu' = [sMu EXCEPT !.w = {}] /\ logMu' = [logMu EXCEPT ![l].w = {}]
        /\ worker' = [worker EXCEPT ![t] = Free]
        /\ UNCHANGED <<current, entries, size, written, expired>>
    BY <1>4 DEF KeepYoung, UnlockLog, Done, clock
  <2>2. /\ worker[t].kept \subseteq StorageOffsets
        /\ messages[l] \ worker[t].kept \subseteq expired
    BY <1>1, <2>1 DEF CallInv, Calls
  <2> HIDE DEF l
  <2>3. /\ messages' \in [Logs -> SUBSET StorageOffsets]
        /\ \A k \in Logs : messages'[k] = IF k = l THEN worker[t].kept ELSE messages[k]
    BY <1>1, <1>2, <2>1, <2>2
  <2>4. Free \in Calls /\ Free.at = "idle" /\ worker'[t] = Free
    BY <1>1, <2>1 DEF Free, Calls, Stages
  <2>5. /\ logMu' \in [Logs -> LogMutex]
        /\ \A k \in Logs : logMu'[k].w = IF k = l THEN {} ELSE logMu[k].w
    BY <1>2, <2>1, LogLockChanges
  <2>6. sMu' \in OneMutex /\ sMu'.w = {} /\ sMu'.r = sMu.r
    BY <2>1, MutexChanges
  <2>7. StorageData' /\ current <= current'
    BY <1>1, <2>1, <2>3, <2>5, <2>6 DEF StorageData
  <2>8. LockedBy(t)'
    BY <1>1, <2>1, <2>4, <2>5, <2>6 DEF LockedBy, Holding, Locking, l
  <2>9. CallInv(t)'
    BY <2>4 DEF CallInv, Latest
  <2>10. ASSUME NEW u \in Workers \ {t}
         PROVE  /\ \A k \in Logs : u \in logMu'[k].w <=> u \in logMu[k].w
                /\ u \in sMu'.w <=> u \in sMu.w
                /\ Apart(t, u)'
                /\ worker[u].at # "keep"
    <3>1. worker'[u] = worker[u] /\ LockedBy(u) /\ Apart(t, u)
      BY <1>1, <2>1 DEF StorageInv
    <3>2. worker[u].at \notin Latest
      BY <2>1, <3>1 DEF Apart, Holding
    <3>3. u \notin sMu.w /\ worker[u].at # "keep"
      BY <3>1, <3>2 DEF LockedBy, Holding, Latest
    <3>4. u \notin logMu[l].w
      BY <1>2, <2>1, <3>1 DEF Apart, LockedBy, Locking, l
    <3>5. Apart(t, u)'
      BY <2>4, <3>1, <3>2 DEF Apart, Holding, Latest, Locking
    <3>6. QED
      BY <2>5, <2>6, <3>3, <3>4, <3>5
  <2>11. Moves(t)
    BY <2>1, <2>4, <2>6, <2>7, <2>8, <2>9, <2>10 DEF Moves
  <2>12. \A k \in Logs : messages[k] \ messages'[k] \subseteq expired
    BY <2>2, <2>3
  <2>13. QED
    BY <2>11, <2>12 DEF OnlyOldMessagesGo
<1>5. QED
  BY <1>3, <1>4

-----------------------------------------------------------------------------
(* Storage: the ways it can stop.                                          *)

\* A lock that cannot be taken is held by a goroutine in a stage that holds it.
LEMMA StorageLocksTaken ==
  ASSUME StorageInv
  PROVE  /\ ~Takable(sMu) => \E u \in Workers : worker[u].at \in Latest
         /\ \A l \in Logs : ~Takable(logMu[l]) \/ ~Sharable(logMu[l]) =>
              \E v \in Workers : worker[v].at \in Locking /\ worker[v].log = l
<1>1. ASSUME ~Takable(sMu) PROVE \E u \in Workers : worker[u].at \in Latest
  <2>1. sMu \in OneMutex
    BY DEF StorageInv, StorageData
  <2>2. PICK u : u \in sMu.w \/ u \in sMu.r
    BY <1>1 DEF Takable
  <2>3. u \in Workers
    BY <2>1, <2>2 DEF OneMutex
  <2>4. worker[u].at \in Latest
    BY <2>2, <2>3 DEF StorageInv, LockedBy, Holding, Latest
  <2>5. QED
    BY <2>3, <2>4
<1>2. ASSUME NEW l \in Logs, ~Takable(logMu[l]) \/ ~Sharable(logMu[l])
      PROVE  \E v \in Workers : worker[v].at \in Locking /\ worker[v].log = l
  <2>1. logMu[l] \in LogMutex
    BY DEF StorageInv, StorageData
  <2>2. PICK v : v \in logMu[l].w
    BY <1>2, <2>1 DEF Takable, Sharable, LogMutex
  <2>3. v \in Workers
    BY <2>1, <2>2 DEF LogMutex
  <2>4. QED
    BY <2>2, <2>3 DEF StorageInv, LockedBy
<1>3. QED
  BY <1>1, <1>2

\* When all wait, somebody rotates its own log or two crossed their locks.
LEMMA StorageDeadlocks == StorageInv => OnlyKnownDeadlocks
<1> DEFINE busy == {t \in Workers : worker[t] # Free}
<1> SUFFICES ASSUME StorageInv, busy # {}, \A t \in busy : Waits(t)
             PROVE  \E t, u \in busy : RotatesOwnLog(t) \/ CrossedLocks(t, u)
  BY DEF OnlyKnownDeadlocks
<1>1. \A u \in Workers : worker[u].at # "idle" => u \in busy /\ Waits(u)
  BY DEF Free
<1>2. \A u \in busy : u \in Workers /\ Waits(u)
  OBVIOUS
<1> HIDE DEF busy
<1>3. \A u \in Workers : worker[u].at # "keep"
  BY <1>1 DEF Waits
<1>4. current \in 0 .. MaxLogs /\ MaxLogs \in Nat
      /\ \A u \in Workers : CallInv(u) /\ worker[u] \in Calls
  BY StorageAssumption DEF StorageInv, StorageData
<1>5. \A l \in Logs : ~Takable(logMu[l]) \/ ~Sharable(logMu[l]) =>
        \E v \in busy : worker[v].at \in {"index", "rotate", "reset"} /\ worker[v].log = l
  BY <1>1, <1>3, StorageLocksTaken DEF Locking
<1>6. CASE \E t \in busy : worker[t].at \in {"index", "rotate"}
  <2>1. ~Takable(sMu)
    BY <1>2, <1>6 DEF Waits
  <2>2. PICK u \in busy : worker[u].at \in {"clean", "offset"}
    BY <1>1, <1>3, <2>1, StorageLocksTaken DEF Latest
  <2>3. worker[u].log = current /\ current \in Logs
    BY <1>2, <1>4, <2>2 DEF CallInv, Latest, Logs
  <2>4. ~Takable(logMu[current]) \/ ~Sharable(logMu[current])
    BY <1>2, <2>2, <2>3 DEF Waits
  <2>5. PICK v \in busy : /\ worker[v].at \in {"index", "rotate", "reset"}
                          /\ worker[v].log = current
    BY <1>5, <2>3, <2>4
  <2>6. CASE worker[v].at \in {"index", "rotate"}
    <3>1. CrossedLocks(v, u)
      BY <2>2, <2>3, <2>5, <2>6 DEF CrossedLocks
    <3>2. QED
      BY <3>1
  <2>7. CASE worker[v].at = "reset"
    <3>1. worker[v].next \in current .. current
      BY <1>2, <1>4, <2>5, <2>7 DEF CallInv
    <3>2. RotatesOwnLog(v)
      BY <1>4, <2>5, <2>7, <3>1 DEF RotatesOwnLog
    <3>3. QED
      BY <3>2
  <2>8. QED
    BY <2>5, <2>6, <2>7
<1>7. CASE \A t \in busy : worker[t].at \notin {"index", "rotate"}
  <2>1. \A l \in Logs : ~Takable(logMu[l]) \/ ~Sharable(logMu[l]) =>
          \E v \in busy : worker[v].at = "reset" /\ worker[v].log = l
    BY <1>5, <1>7
  <2>2. \E t \in busy : worker[t].at = "reset"
    <3>1. PICK t \in busy : Waits(t)
      BY <1>2
    <3>2. CASE worker[t].at \in {"write", "clean", "read", "offset"}
      <4>1. worker[t].log \in Logs
        BY <1>2, <1>4, <3>2 DEF CallInv, Logs
      <4>2. ~Takable(logMu[worker[t].log]) \/ ~Sharable(logMu[worker[t].log])
        BY <3>1, <3>2 DEF Waits
      <4>3. QED
        BY <2>1, <4>1, <4>2
    <3>3. QED
      BY <1>7, <3>1, <3>2 DEF Waits
  <2> DEFINE N == {worker[t].next : t \in {u \in busy : worker[u].at = "reset"}}
  <2>3. N \subseteq 0 .. MaxLogs /\ N # {}
    BY <1>2, <1>4, <2>2 DEF Calls
  <2>4. PICK n \in N : \A k \in N : k <= n
    <3> HIDE DEF N
    <3>1. QED
      BY <1>4, <2>3, LargestNatural
  <2>5. PICK t \in busy : worker[t].at = "reset" /\ worker[t].next = n
    BY <2>4
  <2>6. worker[t].next \in Logs /\ ~Takable(logMu[n])
    <3>1. worker[t].next \in 1 .. current
      BY <1>2, <1>4, <2>5 DEF CallInv
    <3>2. Waits(t)
      BY <1>2
    <3>3. QED
      BY <1>4, <2>5, <3>1, <3>2 DEF Waits, Logs
  <2>7. PICK v \in busy : worker[v].at = "reset" /\ worker[v].log = n
    BY <2>1, <2>5, <2>6
  <2>8. worker[v].next \in N /\ worker[v].next \in n .. current
    BY <1>2, <1>4, <2>7 DEF CallInv
  <2>9. worker[v].next = n
    <3>1. n \in Nat /\ worker[v].next \in Nat
      BY <2>3, <2>8
    <3>2. worker[v].next <= n
      <4> HIDE DEF N
      <4>1. QED
        BY <2>4, <2>8
    <3>3. n <= worker[v].next
      BY <1>4, <2>8, <3>1
    <3>4. QED
      BY <3>1, <3>2, <3>3
  <2>10. RotatesOwnLog(v)
    BY <2>7, <2>9 DEF RotatesOwnLog
  <2>11. QED
    BY <2>10
<1>8. QED
  BY <1>6, <1>7

\* At the start the storage is empty and nobody is in it.
LEMMA InitStorageInv == StorageInit => StorageInv
<1> SUFFICES ASSUME StorageInit PROVE StorageInv
  OBVIOUS
<1> USE StorageAssumption DEF StorageInit
<1>1. Free \in Calls /\ Free.at = "idle"
  BY DEF Free, Calls, Stages
<1>2. StorageData
  BY DEF StorageData, OneMutex, LogMutex, NoOne
<1>3. \A t \in Workers : worker[t] = Free
  OBVIOUS
<1>4. \A t \in Workers : LockedBy(t) /\ CallInv(t)
  BY <1>1, <1>3 DEF LockedBy, CallInv, Holding, Latest, Locking, NoOne
<1>5. \A t \in Workers : \A u \in Workers \ {t} : Apart(t, u)
  BY <1>1, <1>3 DEF Apart, Holding, Latest, Locking
<1>6. QED
  BY <1>1, <1>2, <1>4, <1>5 DEF StorageInv

\* A step of the storage, or of another package, keeps the invariant, and only
\* old messages go.
LEMMA NextStorageInv ==
  StorageInv /\ [StorageNext]_storageVars => StorageInv' /\ [OnlyOldMessagesGo]_storageVars
<1> SUFFICES ASSUME StorageInv, [StorageNext]_storageVars
             PROVE  StorageInv' /\ [OnlyOldMessagesGo]_storageVars
  OBVIOUS
<1>1. ASSUME NEW t \in Workers,
             \/ CreatePartitionLog(t)
             \/ WriteMessage(t) \/ AppendMessage(t) \/ AppendIndex(t)
             \/ RotateLookup(t) \/ RotateLog(t)
             \/ ReadMessages(t) \/ ReadLog(t) \/ GetOffset(t) \/ ReadOffset(t)
             \/ Cleanup(t) \/ CollectYoung(t) \/ KeepYoung(t)
      PROVE  StorageInv' /\ OnlyOldMessagesGo
  <2>1. Moves(t) /\ OnlyOldMessagesGo
    BY <1>1, CreateMoves, LookupMoves, AppendMoves, RotateMoves, MutexMoves, CleanupMoves
  <2>2. QED
    BY <2>1, MovesKeep
<1>2. ASSUME NEW m \in 0 .. (MaxWrites - 1), Expire(m)
      PROVE  StorageInv' /\ OnlyOldMessagesGo
  <2>1. /\ m \in UNION {messages[l] : l \in Logs} /\ expired' = expired \union {m}
        /\ UNCHANGED <<sMu, logMu, current, worker, written, messages, entries, size>>
    BY <1>2 DEF Expire, logData
  <2>2. StorageData'
    <3>1. m \in StorageOffsets
      BY DEF StorageOffsets
    <3>2. QED
      BY <2>1, <3>1 DEF StorageInv, StorageData
  <2>3. \A t \in Workers : LockedBy(t)' /\ CallInv(t)'
    BY <2>1 DEF StorageInv, LockedBy, CallInv
  <2>4. \A t \in Workers : \A u \in Workers \ {t} : Apart(t, u)'
    BY <2>1 DEF StorageInv, Apart
  <2>5. QED
    BY <2>1, <2>2, <2>3, <2>4 DEF StorageInv, OnlyOldMessagesGo
<1>3. CASE UNCHANGED storageVars
  <2>1. UNCHANGED <<sMu, logMu, current, messages, entries, size, worker, written, expired>>
    BY <1>3 DEF storageVars
  <2>2. StorageData'
    BY <2>1 DEF StorageInv, StorageData
  <2>3. \A t \in Workers : LockedBy(t)' /\ CallInv(t)'
    BY <2>1 DEF StorageInv, LockedBy, CallInv
  <2>4. \A t \in Workers : \A u \in Workers \ {t} : Apart(t, u)'
    BY <2>1 DEF StorageInv, Apart
  <2>5. QED
    BY <1>3, <2>1, <2>2, <2>3, <2>4 DEF StorageInv
<1>4. QED
  BY <1>1, <1>2, <1>3 DEF StorageNext

\* The packages' steps are steps of the storage or leave it alone.
LEMMA StorageSteps == [PackagesNext]_allVars => [StorageNext]_storageVars
BY DEF PackagesNext, Only, allVars

\* The locks of the storage protect its logs, and stop it in two known ways only
\* (WriteMessage, GetOffset, Cleanup).
THEOREM StorageStaysSound == Spec => StorageSound
<1>1. Spec => []StorageInv
  <2>1. PackagesInit => StorageInv
    BY InitStorageInv DEF PackagesInit
  <2>2. StorageInv /\ [PackagesNext]_allVars => StorageInv'
    BY StorageSteps, NextStorageInv
  <2>3. QED
    BY <2>1, <2>2, PTL DEF Spec
<1>2. StorageInv' => OnlyKnownDeadlocks'
  BY StorageDeadlocks, PTL
<1>3. StorageInv /\ StorageInv' /\ [PackagesNext]_allVars
        => [OnlyKnownDeadlocks' /\ OnlyOldMessagesGo]_storageVars
  BY <1>2, StorageSteps, NextStorageInv
<1>4. QED
  BY <1>1, <1>3, PTL DEF Spec, StorageSound

-----------------------------------------------------------------------------
(* LibProducer: what becomes of a record.                                  *)

RecordStates ==
  [by : SUBSET Senders, sync : BOOLEAN,
   at : {"none", "enter", "ensure", "create", "creating", "append", "flush", "wait",
         "returned"},
   wire : {"none", "start", "sent", "stored", "lost"},
   callback : {"none", "ok", "error"},
   result : {"none", "ok", "error", "timeout"}]

SendsData ==
  /\ created \in BOOLEAN /\ local \in BOOLEAN /\ registered \in BOOLEAN
  /\ creating \subseteq 0 .. MaxSends /\ undone \in BOOLEAN
  /\ topicLog \in Seq(LibRecords) /\ dropped \subseteq LibRecords
  /\ pending \in Seq(LibRecords)
  /\ closing \in {"open", "flushed", "disconnected", "closed"}
  /\ record \in [LibRecords -> RecordStates]
  /\ sends \in 0 .. MaxSends /\ lost \in 0 .. MaxLost

\* The topic is there, or has been lost by a creation that was undone.
Somewhere == local \/ registered \/ undone

\* r was appended, and q not before r.
Taken(r) == (\E i \in 1 .. Len(topicLog) : topicLog[i] = r) \/ r \in dropped

Before(r, q) ==
  /\ \A i, j \in 1 .. Len(topicLog) : topicLog[i] = r /\ topicLog[j] = q => i < j
  /\ q \in dropped => r \in dropped

\* One record: it is stored before its callback is told "ok", and goes out only
\* when there has been a topic.
RecordInv(r) ==
  /\ record[r].result \in {"none", "timeout", record[r].callback}
  /\ r > sends => record[r] = Unsent
  /\ r <= sends => record[r].by # {}
  /\ record[r].at \in {"none", "enter", "ensure", "create", "creating", "append"} =>
       record[r].wire = "none" /\ record[r].callback = "none"
  /\ record[r].wire = "start" => record[r].callback = "none"
  /\ record[r].at # "returned" => record[r].result = "none"
  /\ record[r].callback = "ok" => record[r].wire = "stored"
  /\ record[r].at = "append" => Somewhere
  /\ record[r].wire \in {"start", "sent"} => Somewhere
  /\ record[r].wire = "stored" <=> Taken(r)

\* Two records of a goroutine: the first one has returned before the second is
\* sent, and was appended before it if it was acknowledged.
PairInv(r, q) ==
  r < q /\ record[r].by = record[q].by =>
    /\ q <= sends => record[r].at = "returned"
    /\ record[r].result = "ok" => Before(r, q)

LogInjective ==
  /\ \A i, j \in 1 .. Len(topicLog) : i # j => topicLog[i] # topicLog[j]
  /\ \A i \in 1 .. Len(topicLog) : topicLog[i] \notin dropped

\* A creation under way is one of a record that waits for it.
CreatingInv ==
  \A c \in creating : c # 0 => c \in 1 .. sends /\ record[c].at = "creating"

SendsInv ==
  /\ SendsData /\ (created => Somewhere) /\ CreatingInv
  /\ \A r \in LibRecords : RecordInv(r)
  /\ \A r, q \in LibRecords : PairInv(r, q)
  /\ LogInjective /\ BatchDrains

\* It is what the four promises rest on.
LEMMA SendsInvSound == SendsInv => SendsSound
<1> SUFFICES ASSUME SendsInv PROVE SendsSound
  OBVIOUS
<1>1. DOMAIN topicLog = 1 .. Len(topicLog) /\ Len(topicLog) \in Nat
  BY DEF SendsInv, SendsData
<1>2. StoredOnce
  BY <1>1 DEF SendsInv, LogInjective, StoredOnce
<1>3. TopicBeforeRecords
  BY DEF SendsInv, RecordInv, Somewhere, TopicBeforeRecords
<1>4. AcknowledgedInOrder
  <2> SUFFICES ASSUME NEW r \in LibRecords, NEW q \in LibRecords,
                      record[r].result = "ok", record[q].result = "ok",
                      record[r].by = record[q].by
               PROVE  /\ InLog(r) \/ r \in dropped
                      /\ r < q => \/ r \in dropped
                                  \/ InLog(r) /\ InLog(q) /\ Position(r) < Position(q)
    BY DEF AcknowledgedInOrder
  <2>1. \A x \in {r, q} : InLog(x) \/ x \in dropped
    <3> SUFFICES ASSUME NEW x \in {r, q} PROVE InLog(x) \/ x \in dropped
      OBVIOUS
    <3>1. x \in LibRecords /\ record[x].result = "ok"
      OBVIOUS
    <3>2. RecordInv(x)
      BY <3>1 DEF SendsInv
    <3>3. record[x].wire = "stored"
      BY <3>1, <3>2 DEF RecordInv
    <3>4. Taken(x)
      BY <3>2, <3>3 DEF RecordInv
    <3>5. QED
      BY <1>1, <3>4 DEF Taken, InLog
  <2>2. \A x \in {r, q} :
          InLog(x) => Position(x) \in DOMAIN topicLog /\ topicLog[Position(x)] = x
    BY DEF Position, InLog
  <2>3. ASSUME r < q, r \notin dropped
        PROVE  InLog(r) /\ InLog(q) /\ Position(r) < Position(q)
    <3>1. PairInv(r, q)
      BY DEF SendsInv
    <3>2. Before(r, q)
      BY <2>3, <3>1 DEF PairInv
    <3>3. InLog(r) /\ InLog(q)
      BY <2>1, <2>3, <3>2 DEF Before
    <3>4. QED
      BY <1>1, <2>2, <3>2, <3>3 DEF Before
  <2>4. QED
    BY <2>1, <2>3
<1>5. QED
  BY <1>2, <1>3, <1>4 DEF SendsInv, SendsSound

\* At the start there is no record.
LEMMA InitSendsInv == LibProducerInit => SendsInv
<1> SUFFICES ASSUME LibProducerInit PROVE SendsInv
  OBVIOUS
<1> USE LibProducerAssumption DEF LibProducerInit
<1>1. /\ Unsent \in RecordStates /\ Unsent.at = "none" /\ Unsent.wire = "none"
      /\ Unsent.result = "none" /\ Unsent.callback = "none"
  BY DEF Unsent, RecordStates
<1>2. \A r \in LibRecords : record[r] = Unsent /\ r > sends /\ ~ (r <= sends)
  BY DEF LibRecords
<1>3. <<>> \in Seq(LibRecords) /\ Len(<<>>) = 0
  BY EmptySeq
<1>4. SendsData
  <2>1. /\ created \in BOOLEAN /\ local \in BOOLEAN /\ registered \in BOOLEAN
        /\ creating \subseteq 0 .. MaxSends /\ undone \in BOOLEAN
        /\ dropped \subseteq LibRecords
    OBVIOUS
  <2>2. record \in [LibRecords -> RecordStates]
    BY <1>1 DEF LibRecords
  <2>3. sends \in 0 .. MaxSends /\ lost \in 0 .. MaxLost
    OBVIOUS
  <2>4. QED
    BY <1>3, <2>1, <2>2, <2>3 DEF SendsData
<1>5. \A r \in LibRecords : RecordInv(r)
  BY <1>1, <1>2, <1>3 DEF RecordInv, Taken
<1>6. \A r, q \in LibRecords : PairInv(r, q)
  BY <1>1, <1>2, <1>3 DEF PairInv
<1>7. LogInjective /\ BatchDrains
  BY <1>3 DEF LogInjective, BatchDrains
<1>8. QED
  BY <1>4, <1>5, <1>6, <1>7 DEF SendsInv, CreatingInv

\* What becomes of the log when no record is appended: it stays or is dropped.
LogMoves ==
  \/ UNCHANGED <<topicLog, dropped>>
  \/ topicLog' = <<>> /\ dropped' = dropped \union ToSet(topicLog)

\* Neither changes what was appended, nor the order of it.
LEMMA LogMovesKeep ==
  ASSUME SendsInv, LogMoves
  PROVE  /\ topicLog' \in Seq(LibRecords) /\ dropped' \subseteq LibRecords
         /\ \A r \in LibRecords : Taken(r)' <=> Taken(r)
         /\ \A r, q \in LibRecords : Taken(r) /\ Before(r, q) => Before(r, q)'
         /\ LogInjective'
<1>1. topicLog \in Seq(LibRecords) /\ dropped \subseteq LibRecords
  BY DEF SendsInv, SendsData
<1>2. CASE UNCHANGED <<topicLog, dropped>>
  BY <1>1, <1>2 DEF SendsInv, LogInjective, Taken, Before
<1>3. CASE topicLog' = <<>> /\ dropped' = dropped \union ToSet(topicLog)
  <2>1. <<>> \in Seq(LibRecords) /\ Len(<<>>) = 0
    BY EmptySeq
  <2>2. \A r : r \in ToSet(topicLog) <=> \E i \in 1 .. Len(topicLog) : topicLog[i] = r
    BY <1>1 DEF ToSet
  <2>3. ToSet(topicLog) \subseteq LibRecords
    BY <1>1, <2>2
  <2>4. \A r \in LibRecords : Taken(r)' <=> Taken(r)
    BY <1>3, <2>1, <2>2 DEF Taken
  <2>5. \A r, q \in LibRecords : Taken(r) /\ Before(r, q) => Before(r, q)'
    BY <1>3, <2>1, <2>2 DEF Taken, Before
  <2>6. LogInjective'
    BY <1>3, <2>1 DEF LogInjective
  <2>7. QED
    BY <1>1, <1>3, <2>1, <2>3, <2>4, <2>5, <2>6
<1>4. QED
  BY <1>2, <1>3 DEF LogMoves

\* What a step of one record may do to the broker's topic.
TopicMoves ==
  /\ local' \in BOOLEAN /\ registered' \in BOOLEAN /\ undone' \in BOOLEAN
  /\ creating' \subseteq 0 .. MaxSends
  /\ LogMoves /\ (Somewhere => Somewhere')

\* A step that leaves the topic alone is one of these.
LEMMA TopicStays == SendsInv /\ UNCHANGED brokerTopic => TopicMoves
BY DEF SendsInv, SendsData, brokerTopic, TopicMoves, LogMoves, Somewhere

\* So is the removal of it.
LEMMA DeletionMoves ==
  ASSUME SendsInv, DeleteTopic, registered' \in BOOLEAN, registered => registered',
         creating' = {}
  PROVE  TopicMoves
<1>1. undone \in BOOLEAN
  BY DEF SendsInv, SendsData
<1>2. undone' \in BOOLEAN
  BY <1>1 DEF DeleteTopic
<1>3. QED
  BY <1>2 DEF DeleteTopic, TopicMoves, LogMoves, Somewhere

\* A step of one record that appends nothing: it goes on to z.
RecordMoves(r, z) ==
  /\ record' = [record EXCEPT ![r] = z] /\ z \in RecordStates
  /\ z.by = record[r].by
  /\ z.result \in {"none", "timeout", z.callback}
  /\ z.at \in {"none", "enter", "ensure", "create", "creating", "append"} =>
       z.wire = "none" /\ z.callback = "none"
  /\ z.wire = "start" => z.callback = "none"
  /\ z.at # "returned" => z.result = "none"
  /\ z.callback = "ok" => z.wire = "stored"
  /\ z.wire = "stored" <=> record[r].wire = "stored"
  /\ record[r].at = "returned" => z.at = "returned" /\ z.result = record[r].result
  /\ UNCHANGED sends /\ TopicMoves
  /\ created' \in BOOLEAN /\ (created' => Somewhere')
  /\ \A c \in creating' : c # 0 => \/ c = r /\ z.at = "creating"
                                   \/ c # r /\ c \in creating
  /\ z.at = "append" => Somewhere'
  /\ z.wire \in {"start", "sent"} => Somewhere'
  /\ lost' \in 0 .. MaxLost
  /\ closing' \in {"open", "flushed", "disconnected", "closed"}
  /\ pending' \in Seq(LibRecords) /\ BatchDrains'

\* Such a step keeps the invariant.
LEMMA RecordMovesKeep ==
  ASSUME SendsInv, NEW r \in LibRecords, r <= sends, NEW z, RecordMoves(r, z)
  PROVE  SendsInv'
<1>1. /\ record \in [LibRecords -> RecordStates] /\ z \in RecordStates
      /\ record' = [record EXCEPT ![r] = z]
      /\ sends \in 0 .. MaxSends /\ MaxSends \in Nat
  BY LibProducerAssumption DEF SendsInv, SendsData, RecordMoves
<1>2. \A q \in LibRecords : record'[q] = IF q = r THEN z ELSE record[q]
  BY <1>1
<1>3. \A q \in LibRecords : q \in Nat
  BY DEF LibRecords
<1>4. SendsData'
  <2>1. record' \in [LibRecords -> RecordStates]
    BY <1>1
  <2>2. topicLog' \in Seq(LibRecords) /\ dropped' \subseteq LibRecords
    BY LogMovesKeep DEF RecordMoves, TopicMoves
  <2>3. QED
    BY <2>1, <2>2 DEF SendsInv, SendsData, RecordMoves, TopicMoves
<1>k. /\ \A q \in LibRecords : Taken(q)' <=> Taken(q)
      /\ \A p, q \in LibRecords : Taken(p) /\ Before(p, q) => Before(p, q)'
      /\ LogInjective' /\ (Somewhere => Somewhere')
  BY LogMovesKeep DEF RecordMoves, TopicMoves
<1>5. ASSUME NEW q \in LibRecords PROVE RecordInv(q)'
  <2>1. CASE q # r
    BY <1>2, <1>k, <2>1 DEF SendsInv, RecordInv, RecordMoves
  <2>2. CASE q = r
    <3>1. RecordInv(r) /\ record'[r] = z /\ ~ (r > sends)
      BY <1>1, <1>2, <1>3 DEF SendsInv
    <3>2. QED
      BY <1>k, <2>2, <3>1 DEF RecordInv, RecordMoves
  <2>3. QED
    BY <2>1, <2>2
<1>6. ASSUME NEW p \in LibRecords, NEW q \in LibRecords PROVE PairInv(p, q)'
  <2> SUFFICES ASSUME p < q, record'[p].by = record'[q].by
               PROVE  /\ q <= sends' => record'[p].at = "returned"
                      /\ record'[p].result = "ok" => Before(p, q)'
    BY DEF PairInv
  <2>1. sends' = sends
    BY DEF RecordMoves
  <2>2. record[p].by = record[q].by /\ PairInv(p, q) /\ RecordInv(p) /\ RecordInv(q)
    BY <1>2 DEF SendsInv, RecordMoves
  <2>3. record[p].result = "ok" => Before(p, q)'
    <3>1. record[p].result = "ok" => Taken(p)
      BY <2>2 DEF RecordInv
    <3>2. QED
      BY <1>k, <2>2, <3>1 DEF PairInv
  <2>4. CASE p # r
    BY <1>2, <2>1, <2>2, <2>3, <2>4 DEF PairInv
  <2>5. CASE p = r
    <3>1. record[q].by # {}
      BY <2>2, <2>5, <1>3 DEF SendsInv, RecordInv
    <3>2. q <= sends
      BY <1>1, <1>3, <2>2, <3>1 DEF RecordInv, Unsent
    <3>3. record[p].at = "returned"
      BY <2>2, <3>2 DEF PairInv
    <3>4. record'[p].at = "returned" /\ record'[p].result = record[p].result
      BY <1>2, <2>5, <3>3 DEF RecordMoves
    <3>5. QED
      BY <2>3, <3>4
  <2>6. QED
    BY <2>4, <2>5
<1>7. CreatingInv'
  <2> SUFFICES ASSUME NEW c \in creating', c # 0
               PROVE  c \in 1 .. sends /\ record'[c].at = "creating"
    BY DEF CreatingInv, RecordMoves
  <2>1. CASE c = r
    BY <1>1, <1>2, <1>3, <2>1 DEF RecordMoves
  <2>2. CASE c # r
    <3>1. c \in 1 .. sends /\ record[c].at = "creating"
      BY <2>2 DEF SendsInv, CreatingInv, RecordMoves
    <3>2. c \in LibRecords
      BY <1>1, <3>1 DEF LibRecords
    <3>3. QED
      BY <1>2, <2>2, <3>1, <3>2
  <2>3. QED
    BY <2>1, <2>2
<1>8. BatchDrains' /\ (created' => Somewhere')
  BY DEF RecordMoves
<1>9. QED
  BY <1>4, <1>5, <1>6, <1>7, <1>8, <1>k DEF SendsInv

\* The batch stays drained while nobody leaves for Flush or comes back from it.
LEMMA StaysDrained ==
  ASSUME SendsInv, NEW r \in LibRecords, NEW z, record' = [record EXCEPT ![r] = z],
         record[r].at = "flush" => z.at = "flush", pending' = pending
  PROVE  BatchDrains'
<1>1. \A q \in LibRecords : record'[q] = IF q = r THEN z ELSE record[q]
  BY DEF SendsInv, SendsData
<1>2. QED
  BY <1>1 DEF SendsInv, BatchDrains

\* The steps of Send and SendSync, of the goroutine that sends the record, and
\* the answers it gets.
LEMMA SendMoves ==
  ASSUME SendsInv, NEW r \in 1 .. sends,
         \/ EnterSend(r) \/ EnsureTopic(r) \/ CreateLibTopic(r)
         \/ CreationAbandoned(r) \/ RegisterLibTopic(r)
         \/ AppendRecord(r) \/ FlushBatch(r) \/ SendSyncReturns(r)
         \/ StartProduce(r) \/ TurnAway(r) \/ ProduceAnswered(r)
  PROVE  r \in LibRecords /\ r <= sends /\ \E z : RecordMoves(r, z)
<1> USE LibProducerAssumption
<1>1. /\ r \in LibRecords /\ r <= sends /\ ~ (r > sends)
      /\ record \in [LibRecords -> RecordStates] /\ record[r] \in RecordStates
      /\ created \in BOOLEAN /\ (created => Somewhere) /\ r # 0
      /\ lost \in 0 .. MaxLost /\ pending \in Seq(LibRecords)
      /\ closing \in {"open", "flushed", "disconnected", "closed"}
      /\ RecordInv(r) /\ BatchDrains
  BY DEF SendsInv, SendsData, LibRecords
<1>t. UNCHANGED brokerTopic /\ record[r].at # "creating" =>
        /\ TopicMoves /\ (Somewhere => Somewhere')
        /\ \A c \in creating' : c # 0 => c # r /\ c \in creating
  BY TopicStays DEF SendsInv, CreatingInv, brokerTopic, TopicMoves
<1>2. \A l \in 0 .. MaxLost : l < MaxLost => l + 1 \in 0 .. MaxLost
  OBVIOUS
<1>3. Lose \/ Keep => lost' \in 0 .. MaxLost
  BY <1>1, <1>2 DEF Lose, Keep
<1>4. Sent(r) \in {"wait", "returned"}
  BY DEF Sent
<1>5. CASE EnterSend(r)
  <2> DEFINE z == [record[r] EXCEPT !.at = IF Closed THEN "wait" ELSE "ensure"]
  <2>1. /\ record[r].at = "enter" /\ record' = [record EXCEPT ![r] = z]
        /\ UNCHANGED <<created, pending, closing, sends, lost>> /\ UNCHANGED brokerTopic
    BY <1>1, <1>5 DEF EnterSend, At
  <2>2. /\ z \in RecordStates /\ z.at \in {"wait", "ensure"} /\ z.by = record[r].by
        /\ z.wire = record[r].wire /\ z.callback = record[r].callback
        /\ z.result = record[r].result
    BY <1>1 DEF RecordStates
  <2> HIDE DEF z
  <2>3. BatchDrains'
    BY <1>1, <2>1, StaysDrained
  <2>4. RecordMoves(r, z)
    BY <1>t, <1>1, <2>1, <2>2, <2>3 DEF RecordMoves, RecordInv
  <2>5. QED
    BY <1>1, <2>4
<1>6. CASE EnsureTopic(r)
  <2> DEFINE z == [record[r] EXCEPT !.at = IF created THEN "append" ELSE "create"]
  <2>1. /\ record[r].at = "ensure" /\ record' = [record EXCEPT ![r] = z]
        /\ UNCHANGED <<created, pending, closing, sends, lost>> /\ UNCHANGED brokerTopic
    BY <1>1, <1>6 DEF EnsureTopic, At
  <2>2. /\ z \in RecordStates /\ z.at \in {"append", "create"} /\ z.by = record[r].by
        /\ z.at = "append" => created
        /\ z.wire = record[r].wire /\ z.callback = record[r].callback
        /\ z.result = record[r].result
    BY <1>1 DEF RecordStates
  <2> HIDE DEF z
  <2>3. BatchDrains'
    BY <1>1, <2>1, StaysDrained
  <2>4. RecordMoves(r, z)
    BY <1>t, <1>1, <2>1, <2>2, <2>3 DEF RecordMoves, RecordInv
  <2>5. QED
    BY <1>1, <2>4
<1>7. ASSUME TopicFound(r), TopicMoves, Somewhere', lost' \in 0 .. MaxLost,
             UNCHANGED <<pending, closing, sends>>, record[r].at \in {"create", "creating"},
             \A c \in creating' : c # 0 => c # r /\ c \in creating
      PROVE  \E z : RecordMoves(r, z)
  <2> DEFINE z == [record[r] EXCEPT !.at = "append"]
  <2>1. record' = [record EXCEPT ![r] = z] /\ created' = TRUE
    BY <1>1, <1>7 DEF TopicFound, At
  <2>2. /\ z \in RecordStates /\ z.at = "append" /\ z.by = record[r].by
        /\ z.wire = record[r].wire /\ z.callback = record[r].callback
        /\ z.result = record[r].result
    BY <1>1 DEF RecordStates
  <2> HIDE DEF z
  <2>3. BatchDrains'
    BY <1>1, <1>7, <2>1, StaysDrained
  <2>4. RecordMoves(r, z)
    BY <1>1, <1>7, <2>1, <2>2, <2>3 DEF RecordMoves, RecordInv
  <2>5. QED
    BY <2>4
<1>e. ASSUME TopicError(r), TopicMoves, lost' \in 0 .. MaxLost,
             UNCHANGED <<pending, closing, sends>>, record[r].at \in {"create", "creating"},
             \A c \in creating' : c # 0 => c # r /\ c \in creating
      PROVE  \E z : RecordMoves(r, z)
  <2> DEFINE z == [record[r] EXCEPT !.at = Sent(r), !.callback = "error"]
  <2>1. record' = [record EXCEPT ![r] = z] /\ created' = created
    BY <1>1, <1>e DEF TopicError
  <2>2. /\ z \in RecordStates /\ z.at = Sent(r) /\ z.by = record[r].by
        /\ z.wire = record[r].wire /\ z.callback = "error"
        /\ z.result = record[r].result
    BY <1>1, <1>4 DEF RecordStates
  <2> HIDE DEF z
  <2>3. BatchDrains'
    BY <1>1, <1>e, <2>1, StaysDrained
  <2>4. RecordMoves(r, z)
    BY <1>1, <1>4, <1>e, <2>1, <2>2, <2>3 DEF RecordMoves, RecordInv, TopicMoves
  <2>5. QED
    BY <2>4
<1>c. CASE CreateLibTopic(r)
  <2>1. /\ record[r].at = "create" /\ UNCHANGED <<pending, closing, sends>>
        /\ UNCHANGED <<registered, topicLog, dropped, undone>>
        /\ lost' \in 0 .. MaxLost
    BY <1>3, <1>c DEF CreateLibTopic
  <2>2. CASE local /\ TopicFound(r) /\ UNCHANGED <<local, creating>>
    <3>1. UNCHANGED brokerTopic
      BY <2>1, <2>2 DEF brokerTopic
    <3>2. Somewhere'
      BY <2>2 DEF Somewhere
    <3>3. QED
      BY <1>1, <1>7, <1>t, <2>1, <2>2, <3>1, <3>2
  <2>3. CASE /\ local' = TRUE /\ creating' = {r} /\ UNCHANGED created
             /\ record' = At(r, "creating")
    <3> DEFINE z == [record[r] EXCEPT !.at = "creating"]
    <3>1. record' = [record EXCEPT ![r] = z]
      BY <1>1, <2>3 DEF At
    <3>2. /\ z \in RecordStates /\ z.at = "creating" /\ z.by = record[r].by
          /\ z.wire = record[r].wire /\ z.callback = record[r].callback
          /\ z.result = record[r].result
      BY <1>1 DEF RecordStates
    <3> HIDE DEF z
    <3>3. BatchDrains'
      BY <1>1, <2>1, <3>1, StaysDrained
    <3>4. r \in 0 .. MaxSends
      BY <1>1 DEF LibRecords
    <3>5. TopicMoves /\ Somewhere'
      BY <2>1, <2>3, <3>4
      DEF SendsInv, SendsData, TopicMoves, LogMoves, Somewhere
    <3>6. RecordMoves(r, z)
      BY <1>1, <2>1, <2>3, <3>1, <3>2, <3>3, <3>5 DEF RecordMoves, RecordInv
    <3>7. QED
      BY <1>1, <3>6
  <2>4. CASE TopicError(r) /\ UNCHANGED <<local, creating>>
    <3>1. UNCHANGED brokerTopic
      BY <2>1, <2>4 DEF brokerTopic
    <3>2. QED
      BY <1>1, <1>e, <1>t, <2>1, <2>4, <3>1
  <2>5. QED
    BY <1>c, <2>2, <2>3, <2>4 DEF CreateLibTopic
<1>a. CASE CreationAbandoned(r)
  <2>1. /\ record[r].at = "creating" /\ creating' = {0} /\ TopicError(r)
        /\ UNCHANGED <<local, registered, topicLog, dropped, undone>>
        /\ UNCHANGED <<pending, closing, sends>> /\ lost' \in 0 .. MaxLost
    BY <1>3, <1>a DEF CreationAbandoned
  <2>2. TopicMoves
    <3>1. {0} \subseteq 0 .. MaxSends
      OBVIOUS
    <3>2. QED
      BY <2>1, <3>1 DEF SendsInv, SendsData, TopicMoves, LogMoves, Somewhere
  <2>3. QED
    BY <1>1, <1>e, <2>1, <2>2
<1>r. CASE RegisterLibTopic(r)
  <2>1. /\ record[r].at = "creating" /\ creating' = {}
        /\ UNCHANGED <<pending, closing, sends>> /\ lost' \in 0 .. MaxLost
    BY <1>1, <1>3, <1>r DEF RegisterLibTopic, SendsInv, CreatingInv
  <2>2. registered \in BOOLEAN
    BY DEF SendsInv, SendsData
  <2>3. CASE /\ registered' = TRUE /\ TopicFound(r)
             /\ UNCHANGED <<local, topicLog, dropped, undone>>
    <3>1. TopicMoves /\ Somewhere'
      BY <2>1, <2>3 DEF SendsInv, SendsData, TopicMoves, LogMoves, Somewhere
    <3>2. QED
      BY <1>1, <1>7, <2>1, <2>3, <3>1
  <2>4. CASE registered /\ UNCHANGED registered /\ TopicFound(r) /\ DeleteTopic
    <3>1. TopicMoves /\ Somewhere'
      BY <2>1, <2>2, <2>4, DeletionMoves DEF Somewhere
    <3>2. QED
      BY <1>1, <1>7, <2>1, <2>4, <3>1
  <2>5. CASE registered' \in {registered, TRUE} /\ TopicError(r) /\ DeleteTopic
    <3>1. registered' \in BOOLEAN /\ (registered => registered')
      <4>1. registered' = registered \/ registered' = TRUE
        BY <2>5, Zenon
      <4>2. QED
        BY <2>2, <4>1
    <3>2. TopicMoves
      BY <2>1, <2>5, <3>1, DeletionMoves
    <3>3. QED
      BY <1>1, <1>e, <2>1, <2>5, <3>2
  <2>6. QED
    BY <1>r, <2>3, <2>4, <2>5 DEF RegisterLibTopic
<1>8. CASE AppendRecord(r)
  <2> DEFINE z == [record[r] EXCEPT
                     !.at = IF Len(pending) + 1 >= LibBatchSize THEN "flush" ELSE Sent(r),
                     !.wire = "start"]
  <2>1. /\ record[r].at = "append" /\ record' = [record EXCEPT ![r] = z]
        /\ pending' = Append(pending, r)
        /\ UNCHANGED <<created, closing, sends, lost>> /\ UNCHANGED brokerTopic
    BY <1>1, <1>8 DEF AppendRecord
  <2>2. /\ z \in RecordStates /\ z.by = record[r].by
        /\ z.at = IF Len(pending) + 1 >= LibBatchSize THEN "flush" ELSE Sent(r)
        /\ z.wire = "start" /\ z.callback = record[r].callback
        /\ z.result = record[r].result
    BY <1>1, <1>4 DEF RecordStates
  <2> HIDE DEF z
  <2>3. pending' \in Seq(LibRecords) /\ Len(pending') = Len(pending) + 1
        /\ Len(pending) \in Nat
    BY <1>1, <2>1
  <2>4. BatchDrains'
    BY <1>1, <2>1, <2>2, <2>3 DEF BatchDrains
  <2>5. z.at \in {"flush", "wait", "returned"}
    BY <1>4, <2>2
  <2>6. RecordMoves(r, z)
    BY <1>t, <1>1, <2>1, <2>2, <2>3, <2>4, <2>5 DEF RecordMoves, RecordInv
  <2>7. QED
    BY <1>1, <2>6
<1>9. CASE FlushBatch(r)
  <2> DEFINE z == [record[r] EXCEPT !.at = Sent(r)]
  <2>1. /\ record[r].at = "flush" /\ record' = [record EXCEPT ![r] = z]
        /\ pending' = <<>>
        /\ UNCHANGED <<created, closing, sends, lost>> /\ UNCHANGED brokerTopic
    BY <1>1, <1>9 DEF FlushBatch, At
  <2>2. /\ z \in RecordStates /\ z.at = Sent(r) /\ z.by = record[r].by
        /\ z.wire = record[r].wire /\ z.callback = record[r].callback
        /\ z.result = record[r].result
    BY <1>1, <1>4 DEF RecordStates
  <2> HIDE DEF z
  <2>3. <<>> \in Seq(LibRecords) /\ Len(<<>>) = 0
    BY EmptySeq
  <2>4. BatchDrains'
    BY <2>1, <2>3 DEF BatchDrains
  <2>5. RecordMoves(r, z)
    BY <1>t, <1>1, <1>4, <2>1, <2>2, <2>3, <2>4 DEF RecordMoves, RecordInv
  <2>6. QED
    BY <1>1, <2>5
<1>10. CASE SendSyncReturns(r)
  <2>1. PICK answer \in {record[r].callback, "timeout"} :
          /\ record' = [record EXCEPT ![r].at = "returned", ![r].result = answer]
          /\ answer # "none"
    BY <1>1, <1>10 DEF SendSyncReturns
  <2> DEFINE z == [record[r] EXCEPT !.at = "returned", !.result = answer]
  <2>2. /\ record[r].at = "wait" /\ record' = [record EXCEPT ![r] = z]
        /\ UNCHANGED <<created, pending, closing, sends>> /\ UNCHANGED brokerTopic
        /\ lost' \in 0 .. MaxLost
    BY <1>1, <1>3, <1>10, <2>1 DEF SendSyncReturns
  <2>3. /\ z \in RecordStates /\ z.at = "returned" /\ z.by = record[r].by
        /\ z.wire = record[r].wire /\ z.callback = record[r].callback
        /\ z.result = answer
    <3>1. answer \in {"ok", "error", "timeout"}
      BY <1>1, <2>1 DEF RecordStates
    <3>2. QED
      BY <1>1, <3>1 DEF RecordStates
  <2> HIDE DEF z
  <2>4. BatchDrains'
    BY <1>1, <2>2, StaysDrained
  <2>5. RecordMoves(r, z)
    BY <1>t, <1>1, <2>1, <2>2, <2>3, <2>4 DEF RecordMoves, RecordInv
  <2>6. QED
    BY <1>1, <2>5
<1>11. CASE StartProduce(r)
  <2> DEFINE z == IF Connected THEN [record[r] EXCEPT !.wire = "sent"]
                  ELSE [record[r] EXCEPT !.wire = "lost", !.callback = "error"]
  <2>1. /\ record[r].wire = "start" /\ record' = [record EXCEPT ![r] = z]
        /\ UNCHANGED <<created, pending, closing, sends, lost>> /\ UNCHANGED brokerTopic
    BY <1>1, <1>11 DEF StartProduce
  <2>2. /\ z \in RecordStates /\ z.at = record[r].at /\ z.by = record[r].by
        /\ z.wire \in {"sent", "lost"} /\ z.result = record[r].result
        /\ z.callback \in {record[r].callback, "error"}
    BY <1>1 DEF RecordStates
  <2> HIDE DEF z
  <2>3. BatchDrains'
    BY <1>1, <2>1, <2>2, StaysDrained
  <2>4. record[r].callback = "none" /\ record[r].result \in {"none", "timeout"}
    BY <1>1, <2>1 DEF RecordInv
  <2>5. RecordMoves(r, z)
    BY <1>t, <1>1, <2>1, <2>2, <2>3, <2>4 DEF RecordMoves, RecordInv
  <2>6. QED
    BY <1>1, <2>5
<1>w. CASE TurnAway(r)
  <2> DEFINE z == [record[r] EXCEPT !.wire = "lost",
                                    !.callback = IF @ = "none" THEN "error" ELSE @]
  <2>1. /\ record[r].wire = "sent" /\ record' = [record EXCEPT ![r] = z]
        /\ UNCHANGED <<created, pending, closing, sends>> /\ UNCHANGED brokerTopic
        /\ lost' \in 0 .. MaxLost
    BY <1>1, <1>3, <1>w DEF TurnAway
  <2>2. record[r].callback # "ok" /\ record[r].at # "creating"
    BY <1>1, <2>1 DEF RecordInv
  <2>3. /\ z \in RecordStates /\ z.at = record[r].at /\ z.by = record[r].by
        /\ z.wire = "lost" /\ z.result = record[r].result
        /\ z.callback = "error"
    BY <1>1, <2>2 DEF RecordStates
  <2> HIDE DEF z
  <2>4. BatchDrains'
    BY <1>1, <2>1, <2>3, StaysDrained
  <2>5. z.result \in {"none", "timeout", z.callback}
    BY <1>1, <2>1, <2>2, <2>3 DEF RecordInv, RecordStates
  <2>6. RecordMoves(r, z)
    BY <1>1, <1>t, <2>1, <2>2, <2>3, <2>4, <2>5 DEF RecordMoves, RecordInv
  <2>7. QED
    BY <1>1, <2>6
<1>12. CASE ProduceAnswered(r)
  <2>1. PICK answer \in {"ok", "error"} :
          /\ record' = [record EXCEPT ![r].callback = answer]
          /\ answer = "ok" => record[r].wire = "stored"
    BY <1>12 DEF ProduceAnswered
  <2> DEFINE z == [record[r] EXCEPT !.callback = answer]
  <2>2. /\ record[r].callback = "none" /\ record' = [record EXCEPT ![r] = z]
        /\ record[r].wire \in {"sent", "stored"}
        /\ UNCHANGED <<created, pending, closing, sends>> /\ UNCHANGED brokerTopic
        /\ lost' \in 0 .. MaxLost
    BY <1>1, <1>3, <1>12, <2>1 DEF ProduceAnswered
  <2>3. /\ z \in RecordStates /\ z.at = record[r].at /\ z.by = record[r].by
        /\ z.wire = record[r].wire /\ z.result = record[r].result
        /\ z.callback = answer
    BY <1>1, <2>1 DEF RecordStates
  <2> HIDE DEF z
  <2>4. BatchDrains'
    BY <1>1, <2>2, <2>3, StaysDrained
  <2>5. RecordMoves(r, z)
    BY <1>t, <1>1, <2>1, <2>2, <2>3, <2>4 DEF RecordMoves, RecordInv
  <2>6. QED
    BY <1>1, <2>5
<1>13. QED
  BY <1>1, <1>5, <1>6, <1>8, <1>9, <1>10, <1>11, <1>12, <1>a, <1>c, <1>r, <1>w

\* A goroutine sends its next record when it is done with those before.
LEMMA SendRecordKeeps ==
  ASSUME SendsInv, NEW s \in Senders, SendRecord(s)
  PROVE  SendsInv'
<1> USE LibProducerAssumption
<1> DEFINE n == sends + 1
           z == [Unsent EXCEPT !.by = {s}, !.sync = s \in Waiting,
                               !.at = IF s \in Waiting THEN "enter" ELSE "ensure"]
<1>1. /\ SendsData /\ record \in [LibRecords -> RecordStates]
      /\ sends \in 0 .. MaxSends /\ sends < MaxSends /\ sends' = sends + 1
      /\ \A r \in 1 .. sends : record[r].by = {s} => record[r].at = "returned"
      /\ record' = [record EXCEPT ![n] = z]
      /\ UNCHANGED <<created, pending, closing, lost>> /\ UNCHANGED brokerTopic
  BY DEF SendsInv, SendsData, SendRecord
<1>2. Unsent \in RecordStates /\ Unsent.wire = "none" /\ Unsent.callback = "none"
      /\ Unsent.result = "none" /\ Unsent.by = {} /\ Unsent.at = "none"
  BY DEF Unsent, RecordStates
<1>3. /\ z \in RecordStates /\ z.by = {s} /\ z.at \in {"enter", "ensure"}
      /\ z.wire = "none" /\ z.callback = "none" /\ z.result = "none"
  <2>1. ASSUME NEW b \in BOOLEAN, NEW a \in {"enter", "ensure"},
               NEW y, y = [Unsent EXCEPT !.by = {s}, !.sync = b, !.at = a]
        PROVE  /\ y \in RecordStates /\ y.by = {s} /\ y.at = a
               /\ y.wire = "none" /\ y.callback = "none" /\ y.result = "none"
    BY <1>2, <2>1 DEF RecordStates
  <2> DEFINE sync == s \in Waiting
             at   == IF s \in Waiting THEN "enter" ELSE "ensure"
  <2>2. sync \in BOOLEAN /\ at \in {"enter", "ensure"}
    OBVIOUS
  <2>3. z = [Unsent EXCEPT !.by = {s}, !.sync = sync, !.at = at]
    OBVIOUS
  <2> HIDE DEF z, sync, at
  <2>4. QED
    BY <2>1, <2>2, <2>3, Zenon
<1> HIDE DEF z
<1>4. /\ n \in LibRecords /\ n \in Nat /\ sends' \in 0 .. MaxSends
      /\ \A r \in LibRecords : r \in Nat
  BY <1>1 DEF LibRecords
<1>5. \A r \in LibRecords : record'[r] = IF r = n THEN z ELSE record[r]
  BY <1>1, <1>4
<1>6. SendsData'
  <2>1. record' \in [LibRecords -> RecordStates]
    BY <1>1, <1>3
  <2>2. QED
    BY <1>1, <1>4, <2>1 DEF SendsData, brokerTopic
<1>l. /\ \A r : Taken(r)' <=> Taken(r)
      /\ \A p, q : Before(p, q)' <=> Before(p, q)
      /\ LogInjective' /\ (created' => Somewhere') /\ (Somewhere' <=> Somewhere)
  BY <1>1 DEF brokerTopic, Taken, Before, SendsInv, LogInjective, Somewhere
<1>7. RecordInv(n) /\ record[n] = Unsent
  <2>1. RecordInv(n)
    BY <1>4 DEF SendsInv
  <2>2. n > sends
    BY <1>1
  <2>3. QED
    BY <2>1, <2>2 DEF RecordInv
<1>8. ASSUME NEW r \in LibRecords PROVE RecordInv(r)'
  <2>1. RecordInv(r)
    BY DEF SendsInv
  <2>2. CASE r # n
    <3>1. (r > sends' => r > sends) /\ (r <= sends' => r <= sends)
      BY <1>1, <1>4, <2>2
    <3>2. QED
      BY <1>l, <1>5, <2>1, <2>2, <3>1 DEF RecordInv
  <2>3. CASE r = n
    <3>1. ~ (r > sends')
      BY <1>1, <1>4, <2>3
    <3>2. ~ Taken(n)
      BY <1>2, <1>7 DEF RecordInv
    <3>3. QED
      BY <1>l, <1>3, <1>4, <1>5, <2>3, <3>1, <3>2 DEF RecordInv
  <2>4. QED
    BY <2>2, <2>3
<1>9. ASSUME NEW p \in LibRecords, NEW q \in LibRecords PROVE PairInv(p, q)'
  <2> SUFFICES ASSUME p < q, record'[p].by = record'[q].by
               PROVE  /\ q <= sends' => record'[p].at = "returned"
                      /\ record'[p].result = "ok" => Before(p, q)
    BY <1>1, <1>l DEF PairInv
  <2>1. PairInv(p, q) /\ RecordInv(p) /\ RecordInv(q)
    BY DEF SendsInv
  <2>2. CASE p # n /\ q # n
    <3>1. record'[p] = record[p] /\ record'[q] = record[q]
      BY <1>5, <2>2
    <3>2. q <= sends' => q <= sends
      BY <1>1, <1>4, <2>2
    <3>3. QED
      BY <2>1, <3>1, <3>2 DEF PairInv
  <2>3. CASE q = n
    <3>1. p \in 1 .. sends
      BY <1>1, <1>4, <2>3 DEF LibRecords
    <3>2. record'[p] = record[p] /\ record[p].by = {s}
      BY <1>1, <1>3, <1>4, <1>5, <2>3, <3>1
    <3>3. record[p].at = "returned"
      BY <1>1, <3>1, <3>2
    <3>4. ~ Taken(q)
      BY <1>2, <1>7, <2>3 DEF RecordInv
    <3>5. QED
      BY <3>2, <3>3, <3>4 DEF Taken, Before
  <2>4. CASE p = n
    <3>1. q > sends /\ q # n
      BY <1>1, <1>4, <2>4
    <3>2. record'[q].by = {}
      BY <1>2, <1>5, <2>1, <3>1 DEF RecordInv
    <3>3. QED
      BY <1>3, <1>5, <2>4, <3>2
  <2>5. QED
    BY <2>2, <2>3, <2>4
<1>10. BatchDrains'
  <2>1. \A r \in LibRecords : record[r].at = "flush" => record'[r].at = "flush"
    BY <1>2, <1>5, <1>7
  <2>2. QED
    BY <1>1, <2>1 DEF SendsInv, BatchDrains
<1>11. CreatingInv'
  <2> SUFFICES ASSUME NEW c \in creating, c # 0
               PROVE  c \in 1 .. sends' /\ record'[c].at = "creating"
    BY <1>1 DEF CreatingInv, brokerTopic
  <2>1. c \in 1 .. sends /\ record[c].at = "creating"
    BY DEF SendsInv, CreatingInv
  <2>2. c \in LibRecords /\ c # n /\ c \in 1 .. sends'
    BY <1>1, <2>1 DEF LibRecords
  <2>3. QED
    BY <1>5, <2>1, <2>2
<1>12. QED
  BY <1>6, <1>8, <1>9, <1>10, <1>11, <1>l DEF SendsInv

\* The broker appends a record once.
LEMMA StoreRecordKeeps ==
  ASSUME SendsInv, NEW r \in 1 .. sends, StoreRecord(r)
  PROVE  SendsInv'
<1> USE LibProducerAssumption
<1> DEFINE z == [record[r] EXCEPT !.wire = "stored"]
           n == Len(topicLog)
<1>1. /\ SendsData /\ record \in [LibRecords -> RecordStates] /\ r \in LibRecords
      /\ topicLog \in Seq(LibRecords)
      /\ record[r].wire = "sent" /\ RecordInv(r)
      /\ topicLog' = Append(topicLog, r)
      /\ record' = [record EXCEPT ![r] = z]
      /\ UNCHANGED <<local, registered, creating, dropped, undone>>
      /\ UNCHANGED <<created, pending, closing, sends, lost>>
  BY DEF SendsInv, SendsData, StoreRecord, LibRecords
<1>2. /\ z \in RecordStates /\ z.by = record[r].by /\ z.at = record[r].at
      /\ z.wire = "stored" /\ z.callback = record[r].callback
      /\ z.result = record[r].result
  BY <1>1 DEF RecordStates
<1> HIDE DEF z
<1>3. \A q \in LibRecords : record'[q] = IF q = r THEN z ELSE record[q]
  BY <1>1
<1>4. /\ topicLog' \in Seq(LibRecords) /\ n \in Nat /\ Len(topicLog') = n + 1
      /\ \A i \in 1 .. n : topicLog'[i] = topicLog[i]
      /\ topicLog'[n + 1] = r
  BY <1>1
<1> HIDE DEF n
<1>5. (\A i \in 1 .. n : topicLog[i] # r) /\ r \notin dropped
  BY <1>1 DEF RecordInv, Taken, n
<1>6. SendsData'
  <2>1. record' \in [LibRecords -> RecordStates]
    BY <1>1, <1>2
  <2>2. QED
    BY <1>1, <1>4, <2>1 DEF SendsData
<1>7. ASSUME NEW q \in LibRecords PROVE RecordInv(q)'
  <2>1. RecordInv(q)
    BY DEF SendsInv
  <2>2. CASE q = r
    <3>1. Taken(q)'
      BY <1>4, <2>2 DEF Taken
    <3>2. r \in 1 .. sends /\ sends \in Nat
      BY <1>1 DEF SendsData
    <3>3. ~ (r > sends)
      BY <3>2
    <3>4. QED
      BY <1>1, <1>2, <1>3, <2>1, <2>2, <3>1, <3>3 DEF RecordInv, Somewhere
  <2>3. CASE q # r
    <3>1. Taken(q)' <=> Taken(q)
      <4>1. ASSUME NEW i \in 1 .. Len(topicLog'), topicLog'[i] = q
            PROVE  i \in 1 .. n /\ topicLog[i] = q
        BY <1>4, <2>3, <4>1
      <4>2. ASSUME NEW i \in 1 .. n, topicLog[i] = q
            PROVE  i \in 1 .. Len(topicLog') /\ topicLog'[i] = q
        BY <1>4, <4>2
      <4>3. QED
        BY <1>1, <4>1, <4>2 DEF Taken, n
    <3>2. QED
      BY <1>1, <1>3, <2>1, <2>3, <3>1 DEF RecordInv, Somewhere
  <2>4. QED
    BY <2>2, <2>3
<1>8. ASSUME NEW p \in LibRecords, NEW q \in LibRecords PROVE PairInv(p, q)'
  <2> SUFFICES ASSUME p < q, record'[p].by = record'[q].by
               PROVE  /\ q <= sends => record'[p].at = "returned"
                      /\ record'[p].result = "ok" => Before(p, q)'
    BY <1>1 DEF PairInv
  <2>1. /\ PairInv(p, q) /\ RecordInv(p) /\ record[p].by = record[q].by
        /\ record'[p].at = record[p].at /\ record'[p].result = record[p].result
    BY <1>2, <1>3 DEF SendsInv
  <2>2. q <= sends => record'[p].at = "returned"
    BY <2>1 DEF PairInv
  <2>3. ASSUME record'[p].result = "ok" PROVE Before(p, q)'
    <3>1. p # r /\ Before(p, q)
      BY <1>1, <2>1, <2>3 DEF RecordInv, PairInv
    <3>2. ASSUME NEW i \in 1 .. Len(topicLog'), NEW j \in 1 .. Len(topicLog'),
                 topicLog'[i] = p, topicLog'[j] = q
          PROVE  i < j
      <4>1. i \in 1 .. n /\ topicLog[i] = p
        BY <1>4, <3>1, <3>2
      <4>2. CASE j = n + 1
        BY <1>4, <4>1, <4>2
      <4>3. CASE j # n + 1
        <5>1. j \in 1 .. n /\ topicLog[j] = q
          BY <1>4, <3>2, <4>3
        <5>2. QED
          BY <3>1, <4>1, <5>1 DEF Before, n
      <4>4. QED
        BY <4>2, <4>3
    <3>3. q \in dropped' => p \in dropped'
      BY <1>1, <3>1 DEF Before
    <3>4. QED
      BY <3>2, <3>3 DEF Before
  <2>4. QED
    BY <2>2, <2>3
<1>9. LogInjective'
  <2>0. \A i \in 1 .. Len(topicLog') : topicLog'[i] \notin dropped'
    BY <1>1, <1>4, <1>5 DEF SendsInv, LogInjective, n
  <2> SUFFICES ASSUME NEW i \in 1 .. Len(topicLog'), NEW j \in 1 .. Len(topicLog'), i # j
               PROVE  topicLog'[i] # topicLog'[j]
    BY <2>0 DEF LogInjective
  <2>1. CASE i \in 1 .. n /\ j \in 1 .. n
    BY <1>4, <2>1 DEF SendsInv, LogInjective, n
  <2>2. CASE i = n + 1
    <3>1. j \in 1 .. n
      BY <1>4, <2>2
    <3>2. QED
      BY <1>4, <1>5, <2>2, <3>1
  <2>3. CASE j = n + 1
    <3>1. i \in 1 .. n
      BY <1>4, <2>3
    <3>2. QED
      BY <1>4, <1>5, <2>3, <3>1
  <2>4. QED
    BY <1>4, <2>1, <2>2, <2>3
<1>10. BatchDrains'
  BY <1>1, <1>2, StaysDrained
<1>11. CreatingInv'
  <2> SUFFICES ASSUME NEW c \in creating, c # 0
               PROVE  c \in 1 .. sends /\ record'[c].at = "creating"
    BY <1>1 DEF CreatingInv
  <2>1. c \in 1 .. sends /\ record[c].at = "creating" /\ sends \in 0 .. MaxSends
    BY DEF SendsInv, CreatingInv, SendsData
  <2>2. c \in LibRecords
    BY <2>1 DEF LibRecords
  <2>3. record'[c].at = record[c].at
    BY <1>2, <1>3, <2>2
  <2>4. QED
    BY <2>1, <2>3
<1>12. created' => Somewhere'
  BY <1>1 DEF SendsInv, Somewhere
<1>13. QED
  BY <1>6, <1>7, <1>8, <1>9, <1>10, <1>11, <1>12 DEF SendsInv

\* Every step of the producer and the broker keeps the invariant.
LEMMA NextSendsInv == SendsInv /\ [LibProducerNext]_lpVars => SendsInv'
<1> SUFFICES ASSUME SendsInv, [LibProducerNext]_lpVars PROVE SendsInv'
  OBVIOUS
<1>1. ASSUME NEW r \in 1 .. sends,
             \/ EnterSend(r) \/ EnsureTopic(r) \/ CreateLibTopic(r)
             \/ CreationAbandoned(r) \/ RegisterLibTopic(r)
             \/ AppendRecord(r) \/ FlushBatch(r) \/ SendSyncReturns(r)
             \/ StartProduce(r) \/ TurnAway(r) \/ ProduceAnswered(r)
      PROVE  SendsInv'
  <2>1. r \in LibRecords /\ r <= sends /\ \E z : RecordMoves(r, z)
    BY <1>1, SendMoves
  <2>2. PICK z : RecordMoves(r, z)
    BY <2>1
  <2>3. QED
    BY <2>1, <2>2, RecordMovesKeep
<1>2. ASSUME UNCHANGED <<created, record, sends>>, TopicMoves,
             creating' \subseteq creating \union {0},
             lost' \in 0 .. MaxLost,
             closing' \in {"open", "flushed", "disconnected", "closed"},
             pending' \in {pending, <<>>}
      PROVE  SendsInv'
  <2>1. pending' \in Seq(LibRecords) /\ Len(pending') <= Len(pending)
    <3>1. pending \in Seq(LibRecords) /\ <<>> \in Seq(LibRecords) /\ Len(<<>>) = 0
      BY EmptySeq DEF SendsInv, SendsData
    <3>2. Len(pending) \in Nat
      BY <3>1
    <3>3. CASE pending' = pending
      BY <3>1, <3>2, <3>3
    <3>4. CASE pending' = <<>>
      BY <3>1, <3>2, <3>4
    <3>5. QED
      BY <1>2, <3>3, <3>4
  <2>k. /\ topicLog' \in Seq(LibRecords) /\ dropped' \subseteq LibRecords
        /\ \A q \in LibRecords : Taken(q)' <=> Taken(q)
        /\ \A p, q \in LibRecords : Taken(p) /\ Before(p, q) => Before(p, q)'
        /\ LogInjective' /\ (Somewhere => Somewhere')
    BY <1>2, LogMovesKeep DEF TopicMoves
  <2>2. SendsData'
    BY <1>2, <2>1, <2>k DEF SendsInv, SendsData, TopicMoves
  <2>3. \A r \in LibRecords : RecordInv(r)'
    BY <1>2, <2>k DEF SendsInv, RecordInv
  <2>4. ASSUME NEW p \in LibRecords, NEW q \in LibRecords PROVE PairInv(p, q)'
    <3>1. PairInv(p, q) /\ RecordInv(p)
      BY DEF SendsInv
    <3>2. record[p].result = "ok" => Taken(p)
      BY <3>1 DEF RecordInv
    <3>3. QED
      BY <1>2, <2>k, <3>1, <3>2 DEF PairInv
  <2>5. BatchDrains'
    <3>1. /\ Len(pending) \in Nat /\ Len(pending') \in Nat /\ LibBatchSize \in Nat
      BY <2>1, LibProducerAssumption DEF SendsInv, SendsData
    <3>2. QED
      BY <1>2, <2>1, <3>1 DEF SendsInv, BatchDrains
  <2>6. CreatingInv' /\ (created' => Somewhere')
    BY <1>2, <2>k DEF SendsInv, CreatingInv
  <2>7. QED
    BY <2>2, <2>3, <2>4, <2>5, <2>6, <2>k DEF SendsInv
<1>d. /\ SendsData /\ lost \in 0 .. MaxLost
      /\ closing \in {"open", "flushed", "disconnected", "closed"}
  BY DEF SendsInv, SendsData
<1>3. CASE CloseProducer
  <2>1. /\ UNCHANGED <<created, record, sends, lost>> /\ UNCHANGED brokerTopic
        /\ pending' \in {pending, <<>>}
        /\ closing' \in {"open", "flushed", "disconnected", "closed"}
    BY <1>3 DEF CloseProducer
  <2>2. TopicMoves /\ creating' = creating
    BY <2>1, TopicStays DEF brokerTopic
  <2>3. QED
    BY <1>2, <1>d, <2>1, <2>2
<1>4. CASE OtherCreates \/ OtherRegisters \/ SyncTopic
  <2>1. /\ UNCHANGED <<created, pending, closing, record, sends>>
        /\ UNCHANGED <<topicLog, dropped, undone>> /\ lost' \in 0 .. MaxLost
        /\ local' \in BOOLEAN /\ registered' \in BOOLEAN
        /\ (local => local') /\ (registered => registered')
        /\ creating' \in {creating, {0}}
    <3>1. lost < MaxLost => lost + 1 \in 0 .. MaxLost
      BY <1>d, LibProducerAssumption
    <3>2. QED
      BY <1>4, <1>d, <3>1 DEF OtherCreates, OtherRegisters, SyncTopic, Lose, SendsData
  <2>2. {0} \subseteq 0 .. MaxSends
    BY LibProducerAssumption
  <2>3. TopicMoves
    BY <1>d, <2>1, <2>2 DEF SendsData, TopicMoves, LogMoves, Somewhere
  <2>4. QED
    BY <1>2, <1>d, <2>1, <2>3
<1>5. CASE UNCHANGED lpVars
  <2>1. /\ UNCHANGED <<created, pending, closing, record, sends, lost>>
        /\ UNCHANGED brokerTopic
    BY <1>5 DEF lpVars, brokerTopic
  <2>2. TopicMoves /\ creating' = creating
    BY <2>1, TopicStays DEF brokerTopic
  <2>3. QED
    BY <1>2, <1>d, <2>1, <2>2
<1>6. ASSUME NEW c \in 0 .. MaxSends, RegisterLibTopic(c) PROVE SendsInv'
  <2>1. CASE c # 0
    <3>1. c \in 1 .. sends
      BY <1>6, <2>1 DEF RegisterLibTopic, SendsInv, CreatingInv
    <3>2. QED
      BY <1>1, <1>6, <3>1
  <2>2. CASE c = 0
    <3>1. /\ creating' = {} /\ UNCHANGED <<created, record, pending, closing, sends>>
          /\ lost' \in 0 .. MaxLost
      BY <1>6, <1>d, <2>2 DEF RegisterLibTopic, TopicFound, TopicError, Keep
    <3>2. registered \in BOOLEAN
      BY <1>d DEF SendsData
    <3>3. ASSUME registered' = TRUE, UNCHANGED <<local, topicLog, dropped, undone>>
          PROVE  TopicMoves
      BY <1>d, <3>1, <3>3 DEF SendsData, TopicMoves, LogMoves, Somewhere
    <3>4. ASSUME registered' \in {registered, TRUE}, DeleteTopic PROVE TopicMoves
      <4>1. registered' \in BOOLEAN /\ (registered => registered')
        <5>1. registered' = registered \/ registered' = TRUE
          BY <3>4, Zenon
        <5>2. QED
          BY <3>2, <5>1
      <4>2. QED
        BY <3>1, <3>4, <4>1, DeletionMoves
    <3>5. TopicMoves
      BY <1>6, <2>2, <3>3, <3>4 DEF RegisterLibTopic
    <3>6. QED
      BY <1>2, <1>d, <3>1, <3>5
  <2>3. QED
    BY <2>1, <2>2
<1>7. QED
  BY <1>1, <1>3, <1>4, <1>5, <1>6, SendRecordKeeps, StoreRecordKeeps
  DEF LibProducerNext

\* The packages' steps are steps of the producer or leave it alone.
LEMMA LibProducerSteps == [PackagesNext]_allVars => [LibProducerNext]_lpVars
BY DEF PackagesNext, Only, allVars

\* No record is stored twice, what SendSync acknowledged is stored in the order a
\* goroutine sent it, nothing goes to a topic that is not there, and the batch
\* does not grow (Send, SendSync, ensureTopicExists).
THEOREM SendsStaySound == Spec => []SendsSound
<1>1. PackagesInit => SendsInv
  BY InitSendsInv DEF PackagesInit
<1>2. SendsInv /\ [PackagesNext]_allVars => SendsInv'
  BY LibProducerSteps, NextSendsInv
<1>3. QED
  BY <1>1, <1>2, SendsInvSound, PTL DEF Spec

-----------------------------------------------------------------------------
(* Admin: what showConsumerLag prints.                                     *)

LogRanges   == [from : 0 .. MaxEnd, to : 0 .. MaxEnd]
LineStates  == [shown : {"nothing", "offsets", "error"}, offset : 0 .. MaxEnd,
                end : 0 .. MaxEnd]
AdminStates == [at : {"metadata", "offset", "end", "total", "failed"},
                id : 0 .. AdminPartitions, offset : 0 .. MaxEnd]

AdminData ==
  /\ command \in {"lag", "offsets", "show"} /\ disturbed \in BOOLEAN
  /\ partitions \in [AdminIds -> LogRanges] /\ before \in [AdminIds -> 0 .. MaxEnd]
  /\ lines \in [AdminIds -> LineStates] /\ admin \in AdminStates

\* A log that has had a message keeps one, and only a restart makes it shorter.
LogInv(p) ==
  /\ partitions[p].from < partitions[p].to \/ (partitions[p].from = 0 /\ partitions[p].to = 0)
  /\ ~disturbed => before[p] <= partitions[p].to

\* The lines that are there, and what the lag of one counts.
LineInv(p) ==
  /\ lines[p].shown # "nothing" <=> p < admin.id
  /\ lines[p].shown = "error" => disturbed
  /\ lines[p].shown = "offsets" =>
       /\ lines[p].end >= lines[p].offset
       /\ command = "lag" /\ ~disturbed =>
            \/ lines[p].end >= before[p]
            \/ lines[p].end >= lines[p].offset + LagPage

AdminInv ==
  /\ AdminData
  /\ admin.at \in {"offset", "end"} => admin.id < AdminPartitions
  /\ admin.at = "metadata" => admin.id = 0
  /\ admin.at = "total" /\ command = "lag" => admin.id = AdminPartitions
  /\ \A p \in AdminIds : LogInv(p) /\ LineInv(p)

\* The printed lines can be relied on when the invariant holds: the last
\* partition's line is there when the total is, and a line that shows no lag
\* counts every message that was there when the command began.
LEMMA AdminInvSound == AdminInv => ReportSound
<1> SUFFICES ASSUME AdminInv PROVE ReportSound
  OBVIOUS
<1> USE AdminAssumption
<1>1. LagCountsWhatWasThere
  BY DEF AdminInv, LineInv, LagCountsWhatWasThere
<1>2. CaughtUpIsTrue
  <2> SUFFICES ASSUME admin.at = "total", command = "lag", ~disturbed,
                      NEW p \in AdminIds, lines[p].end = lines[p].offset
               PROVE  lines[p].offset >= before[p]
    BY DEF CaughtUpIsTrue
  <2>1. /\ lines[p] \in LineStates /\ LineInv(p) /\ admin.id = AdminPartitions
        /\ before[p] \in 0 .. MaxEnd
    BY DEF AdminInv, AdminData
  <2>2. p < admin.id
    BY <2>1 DEF AdminIds
  <2>3. lines[p].shown = "offsets"
    BY <2>1, <2>2 DEF LineInv, LineStates
  <2>4. lines[p].end \in Nat /\ lines[p].offset \in Nat
    BY <2>1 DEF LineStates
  <2>5. QED
    BY <2>1, <2>3, <2>4 DEF LineInv
<1>3. QED
  BY <1>1, <1>2 DEF ReportSound

\* The command starts with nothing printed, and the logs are empty.
LEMMA InitAdminInv == AdminInit => AdminInv
<1> SUFFICES ASSUME AdminInit PROVE AdminInv
  OBVIOUS
<1> USE AdminAssumption
<1>1. NoLine \in LineStates /\ NoLine.shown = "nothing"
  BY DEF NoLine, LineStates
<1>2. [from |-> 0, to |-> 0] \in LogRanges
  BY DEF LogRanges
<1>3. [at |-> "metadata", id |-> 0, offset |-> 0] \in AdminStates
  BY DEF AdminStates
<1>4. AdminData
  <2>1. command \in {"lag", "offsets", "show"} /\ disturbed \in BOOLEAN
    BY DEF AdminInit
  <2>2. partitions \in [AdminIds -> LogRanges] /\ lines \in [AdminIds -> LineStates]
    BY <1>1, <1>2 DEF AdminInit
  <2>3. before \in [AdminIds -> 0 .. MaxEnd] /\ admin \in AdminStates
    BY <1>3 DEF AdminInit
  <2>4. QED
    BY <2>1, <2>2, <2>3 DEF AdminData
<1>5. ASSUME NEW p \in AdminIds PROVE LogInv(p) /\ LineInv(p)
  BY <1>1 DEF AdminInit, LogInv, LineInv, AdminIds
<1>6. QED
  BY <1>4, <1>5 DEF AdminInit, AdminInv

\* The end that one call shows is not before the offset it asked from, and shows
\* everything in the log or as much as a call returns.
LEMMA EndFromCounts ==
  ASSUME AdminInv, NEW p \in AdminIds, NEW offset \in 0 .. MaxEnd
  PROVE  /\ EndFrom(p, offset) \in 0 .. MaxEnd /\ EndFrom(p, offset) >= offset
         /\ \/ EndFrom(p, offset) >= partitions[p].to
            \/ EndFrom(p, offset) >= offset + LagPage
<1>1. partitions[p] \in LogRanges /\ LogInv(p)
  BY DEF AdminInv, AdminData
<1>2. PICK f \in 0 .. MaxEnd, t \in 0 .. MaxEnd :
        partitions[p].from = f /\ partitions[p].to = t /\ (f < t \/ (f = 0 /\ t = 0))
  BY <1>1 DEF LogRanges, LogInv
<1>3. QED
  BY <1>2, AdminAssumption DEF EndFrom, Larger, Smaller

\* A step that prints a line, for the partition that the command is at.
LEMMA ShowLineKeeps ==
  ASSUME AdminInv, NEW line \in LineStates, ShowLine(line),
         admin.at \in {"offset", "end"},
         UNCHANGED <<command, partitions, before>>,
         disturbed' \in BOOLEAN, disturbed => disturbed',
         line.shown # "nothing", line.shown = "error" => disturbed',
         line.shown = "offsets" =>
           /\ line.end >= line.offset
           /\ command = "lag" /\ ~disturbed' =>
                \/ line.end >= before[admin.id]
                \/ line.end >= line.offset + LagPage
  PROVE  AdminInv'
<1> USE AdminAssumption
<1> DEFINE n == admin.id
<1>1. /\ n \in AdminIds /\ n \in Nat /\ n < AdminPartitions
      /\ lines' = [lines EXCEPT ![n] = line]
      /\ admin' = [at |-> IF n + 1 = AdminPartitions THEN "total" ELSE "offset",
                   id |-> n + 1, offset |-> 0]
      /\ AdminData /\ n + 1 \in 0 .. AdminPartitions
  BY DEF AdminInv, AdminData, AdminStates, ShowLine, AdminIds
<1>2. admin' \in AdminStates
  BY <1>1 DEF AdminStates
<1>3. AdminData'
  BY <1>1, <1>2 DEF AdminData
<1>4. /\ admin'.at \in {"total", "offset"} /\ admin'.id = n + 1
      /\ admin'.at = "offset" => n + 1 < AdminPartitions
      /\ admin'.at = "total" => n + 1 = AdminPartitions
  BY <1>1
<1>5. \A p \in AdminIds : lines'[p] = IF p = n THEN line ELSE lines[p]
  BY <1>1 DEF AdminData
<1> HIDE DEF n
<1>6. ASSUME NEW p \in AdminIds PROVE LogInv(p)' /\ LineInv(p)'
  <2>1. LogInv(p) /\ LineInv(p) /\ p \in Nat
    BY DEF AdminInv, AdminIds
  <2>2. LogInv(p)'
    BY <2>1 DEF LogInv
  <2>3. CASE p = n
    BY <1>1, <1>4, <1>5, <2>2, <2>3 DEF LineInv, n
  <2>4. CASE p # n
    <3>1. p < admin'.id <=> p < n
      BY <1>1, <1>4, <2>1, <2>4
    <3>2. QED
      BY <1>1, <1>5, <2>1, <2>2, <2>4, <3>1 DEF LineInv, n
  <2>5. QED
    BY <2>3, <2>4
<1>7. QED
  BY <1>3, <1>4, <1>6 DEF AdminInv

\* Every step of the command, the broker and its other clients keeps the invariant.
LEMMA NextAdminInv == AdminInv /\ [AdminNext]_adminVars => AdminInv'
<1> SUFFICES ASSUME AdminInv, [AdminNext]_adminVars PROVE AdminInv'
  OBVIOUS
<1> USE AdminAssumption
<1>0. /\ AdminData /\ admin \in AdminStates /\ before \in [AdminIds -> 0 .. MaxEnd]
      /\ \A p \in AdminIds : LogInv(p) /\ LineInv(p)
  BY DEF AdminInv, AdminData
<1>1. ASSUME NEW n \in AdminIds, AppendToLog(n) PROVE AdminInv'
  <2>1. PICK f \in 0 .. MaxEnd, t \in 0 .. MaxEnd :
          /\ partitions[n].from = f /\ partitions[n].to = t /\ t < MaxEnd
          /\ f < t \/ (f = 0 /\ t = 0)
    BY <1>0, <1>1 DEF AdminData, LogRanges, LogInv, AppendToLog
  <2> DEFINE g == IF (t + 1) - f > Retained THEN (t + 1) - Retained ELSE f
  <2>2. partitions' = [partitions EXCEPT ![n] = [from |-> g, to |-> t + 1]]
    BY <1>1, <2>1 DEF AppendToLog
  <2>3. g \in 0 .. MaxEnd /\ g < t + 1 /\ t + 1 \in 0 .. MaxEnd
    BY <2>1
  <2> HIDE DEF g
  <2>4. UNCHANGED <<command, admin, lines, before, disturbed>>
    BY <1>1 DEF AppendToLog
  <2>5. [from |-> g, to |-> t + 1] \in LogRanges
    BY <2>3 DEF LogRanges
  <2>6. AdminData'
    BY <1>0, <2>2, <2>4, <2>5 DEF AdminData
  <2>7. ASSUME NEW p \in AdminIds PROVE LogInv(p)' /\ LineInv(p)'
    <3>1. LogInv(p) /\ LineInv(p) /\ before[p] \in 0 .. MaxEnd
      BY <1>0
    <3>2. LineInv(p)'
      BY <2>4, <3>1 DEF LineInv
    <3>3. partitions'[p] = IF p = n THEN [from |-> g, to |-> t + 1] ELSE partitions[p]
      BY <1>0, <2>2 DEF AdminData
    <3>4. CASE p = n
      <4>1. partitions'[p].from = g /\ partitions'[p].to = t + 1
        BY <3>3, <3>4
      <4>2. ~disturbed => before[p] <= t + 1
        BY <2>1, <3>1, <3>4 DEF LogInv
      <4>3. partitions'[p].from < partitions'[p].to
        BY <2>3, <4>1
      <4>4. ~disturbed' => before'[p] <= partitions'[p].to
        BY <2>1, <2>3, <2>4, <3>1, <4>1, <4>2
      <4>5. QED
        BY <3>2, <4>3, <4>4 DEF LogInv
    <3>5. CASE p # n
      BY <2>4, <3>1, <3>2, <3>3, <3>5 DEF LogInv
    <3>6. QED
      BY <3>4, <3>5
  <2>8. QED
    BY <2>4, <2>6, <2>7 DEF AdminInv
<1>2. CASE BrokerForgets
  <2>1. /\ partitions' = [p \in AdminIds |-> [from |-> 0, to |-> 0]] /\ disturbed' = TRUE
        /\ UNCHANGED <<command, admin, lines, before>>
    BY <1>2 DEF BrokerForgets
  <2>2. AdminData'
    BY <1>0, <2>1 DEF AdminData, LogRanges
  <2>3. ASSUME NEW p \in AdminIds PROVE LogInv(p)' /\ LineInv(p)'
    BY <1>0, <2>1 DEF LogInv, LineInv
  <2>4. QED
    BY <2>1, <2>2, <2>3 DEF AdminInv
<1>3. CASE AskMetadata
  <2>1. PICK answered \in BOOLEAN :
          /\ admin' = [admin EXCEPT !.at = IF ~answered THEN "failed"
                                           ELSE IF AdminPartitions = 0 THEN "total" ELSE "offset"]
          /\ disturbed' = (disturbed \/ ~answered)
    BY <1>3 DEF AskMetadata
  <2>2. /\ command # "show" /\ admin.at = "metadata" /\ admin.id = 0
        /\ before' = [p \in AdminIds |-> partitions[p].to]
        /\ UNCHANGED <<command, partitions, lines>>
    BY <1>3 DEF AskMetadata, AdminInv
  <2>3. /\ admin' \in AdminStates /\ admin'.id = 0
        /\ admin'.at \in {"failed", "total", "offset"}
        /\ admin'.at = "total" => AdminPartitions = 0
        /\ admin'.at = "offset" => AdminPartitions # 0
    BY <1>0, <2>1, <2>2 DEF AdminStates
  <2>4. \A p \in AdminIds : partitions[p].to \in 0 .. MaxEnd
    BY <1>0 DEF AdminData, LogRanges
  <2>5. disturbed' \in BOOLEAN
    BY <1>0, <2>1 DEF AdminData
  <2>6. AdminData'
    BY <1>0, <2>2, <2>3, <2>4, <2>5 DEF AdminData
  <2>7. ASSUME NEW p \in AdminIds PROVE LogInv(p)' /\ LineInv(p)'
    <3>1. LogInv(p) /\ LineInv(p) /\ p \in Nat /\ ~ (p < admin.id)
      BY <1>0, <2>2 DEF AdminIds
    <3>2. LogInv(p)'
      BY <2>2, <2>4, <3>1 DEF LogInv
    <3>3. lines'[p].shown = "nothing" /\ ~ (p < admin'.id)
      BY <2>2, <2>3, <3>1 DEF LineInv
    <3>4. QED
      BY <3>2, <3>3 DEF LineInv
  <2>8. QED
    BY <2>3, <2>6, <2>7 DEF AdminInv
<1>4. CASE AskOnce
  <2>1. PICK answered \in BOOLEAN :
          admin' = [admin EXCEPT !.at = IF answered THEN "total" ELSE "failed"]
    BY <1>4 DEF AskOnce
  <2>2. command = "show" /\ UNCHANGED <<command, partitions, lines, before, disturbed>>
    BY <1>4 DEF AskOnce
  <2>3. /\ admin' \in AdminStates /\ admin'.id = admin.id
        /\ admin'.at \in {"failed", "total"}
    BY <1>0, <2>1 DEF AdminStates
  <2>4. AdminData'
    BY <1>0, <2>2, <2>3 DEF AdminData
  <2>5. ASSUME NEW p \in AdminIds PROVE LogInv(p)' /\ LineInv(p)'
    BY <1>0, <2>2, <2>3 DEF LogInv, LineInv
  <2>6. QED
    BY <2>2, <2>3, <2>4, <2>5 DEF AdminInv
<1>5. CASE AskOffset
  <2>1. /\ admin.at = "offset" /\ UNCHANGED <<command, partitions, before>>
        /\ admin.id < AdminPartitions
    BY <1>5 DEF AskOffset, AdminInv
  <2>2. CASE ShowLine(Error) /\ disturbed' = TRUE
    <3>1. Error \in LineStates /\ Error.shown = "error"
      BY DEF Error, NoLine, LineStates
    <3>2. QED
      BY <2>1, <2>2, <3>1, ShowLineKeeps
  <2>3. ASSUME NEW answer \in OffsetAnswers,
               disturbed' = (disturbed \/ answer.fails),
               IF command = "offsets" THEN ShowLine(Line(answer.offset, answer.offset))
               ELSE /\ admin' = [admin EXCEPT !.at = "end", !.offset = answer.offset]
                    /\ UNCHANGED lines
        PROVE  AdminInv'
    <3>1. answer.offset \in 0 .. MaxEnd /\ answer.fails \in BOOLEAN
      <4>1. CASE answer \in [offset : 0 .. MaxEnd, fails : {FALSE}]
        BY <4>1
      <4>2. CASE answer = [offset |-> 0, fails |-> TRUE]
        BY <4>2
      <4>3. QED
        BY <4>1, <4>2 DEF OffsetAnswers
    <3>2. disturbed' \in BOOLEAN /\ (disturbed => disturbed')
      BY <1>0, <2>3, <3>1 DEF AdminData
    <3>3. CASE command = "offsets"
      <4> DEFINE line == Line(answer.offset, answer.offset)
      <4>1. /\ line \in LineStates /\ line.shown = "offsets" /\ line.end >= line.offset
        BY <3>1 DEF Line, LineStates
      <4>2. ShowLine(line)
        BY <2>3, <3>3
      <4> HIDE DEF line
      <4>3. QED
        BY <2>1, <3>2, <3>3, <4>1, <4>2, ShowLineKeeps
    <3>4. CASE command # "offsets"
      <4>1. /\ admin' = [admin EXCEPT !.at = "end", !.offset = answer.offset]
            /\ UNCHANGED lines
        BY <2>3, <3>4
      <4>2. admin' \in AdminStates /\ admin'.at = "end" /\ admin'.id = admin.id
        BY <1>0, <3>1, <4>1 DEF AdminStates
      <4>3. AdminData'
        BY <1>0, <2>1, <3>2, <4>1, <4>2 DEF AdminData
      <4>4. ASSUME NEW p \in AdminIds PROVE LogInv(p)' /\ LineInv(p)'
        BY <1>0, <2>1, <3>2, <4>1, <4>2 DEF LogInv, LineInv
      <4>5. QED
        BY <2>1, <4>2, <4>3, <4>4 DEF AdminInv
    <3>5. QED
      BY <3>3, <3>4
  <2>4. QED
    BY <1>5, <2>2, <2>3, Zenon DEF AskOffset
<1>6. CASE AskEnd
  <2>1. /\ admin.at = "end" /\ UNCHANGED <<command, partitions, before>>
        /\ admin.id < AdminPartitions
    BY <1>6 DEF AskEnd, AdminInv
  <2>2. /\ admin.id \in AdminIds /\ admin.offset \in 0 .. MaxEnd
    BY <1>0, <2>1 DEF AdminStates, AdminIds
  <2>3. CASE /\ ShowLine(Line(admin.offset, EndFrom(admin.id, admin.offset)))
             /\ UNCHANGED disturbed
    <3> DEFINE end  == EndFrom(admin.id, admin.offset)
               line == Line(admin.offset, end)
    <3>1. /\ end \in 0 .. MaxEnd /\ end >= admin.offset
          /\ end >= partitions[admin.id].to \/ end >= admin.offset + LagPage
      BY <2>2, EndFromCounts
    <3>2. LogInv(admin.id) /\ before[admin.id] \in 0 .. MaxEnd
          /\ partitions[admin.id].to \in Nat
      BY <1>0, <2>2 DEF AdminData, LogRanges
    <3> HIDE DEF end
    <3>3. /\ line \in LineStates /\ line.shown = "offsets" /\ line.end = end
          /\ line.offset = admin.offset
      BY <2>2, <3>1 DEF Line, LineStates
    <3>4. ShowLine(line)
      BY <2>3 DEF end
    <3>5. ~disturbed => end >= before[admin.id] \/ end >= admin.offset + LagPage
      BY <2>2, <3>1, <3>2 DEF LogInv
    <3> HIDE DEF line
    <3>6. disturbed' = disturbed /\ disturbed' \in BOOLEAN
      BY <1>0, <2>3 DEF AdminData
    <3>7. QED
      BY <2>1, <3>1, <3>3, <3>4, <3>5, <3>6, ShowLineKeeps
  <2>4. CASE ShowLine(Line(admin.offset, admin.offset)) /\ disturbed' = TRUE
    <3> DEFINE line == Line(admin.offset, admin.offset)
    <3>1. /\ line \in LineStates /\ line.shown = "offsets" /\ line.end >= line.offset
      BY <2>2 DEF Line, LineStates
    <3>2. ShowLine(line)
      BY <2>4
    <3> HIDE DEF line
    <3>3. QED
      BY <2>1, <2>4, <3>1, <3>2, ShowLineKeeps
  <2>5. QED
    BY <1>6, <2>3, <2>4 DEF AskEnd
<1>7. CASE UNCHANGED adminVars
  BY <1>0, <1>7 DEF AdminInv, AdminData, LogInv, LineInv, adminVars
<1>8. QED
  BY <1>1, <1>2, <1>3, <1>4, <1>5, <1>6, <1>7 DEF AdminNext

\* The other packages leave the command alone.
LEMMA AdminSteps == [PackagesNext]_allVars => [AdminNext]_adminVars
  BY DEF PackagesNext, Only, allVars

\* The lag that showConsumerLag prints is never negative and, unless something
\* failed, counts what was there when the command began; "Consumer is caught up"
\* is true.
THEOREM ReportStaysSound == Spec => []ReportSound
<1>1. PackagesInit => AdminInv
  BY InitAdminInv DEF PackagesInit
<1>2. AdminInv /\ [PackagesNext]_allVars => AdminInv'
  BY NextAdminInv, AdminSteps
<1>3. QED
  BY <1>1, <1>2, AdminInvSound, PTL DEF Spec

-----------------------------------------------------------------------------
(* LibConsumer: where a partition is read on.                              *)

PollStates ==
  [at : {"none", "lock", "next", "asked"}, left : SUBSET TopicPartitions,
   p : SUBSET TopicPartitions, from : Nat, taken : 0 .. MaxPollRecords]

FetchStates ==
  [at : {"none", "asked"}, left : SUBSET TopicPartitions, got : SUBSET TopicPartitions,
   gone : BOOLEAN]

TopicPlaces == {"absent", "creating", "elsewhere", "known"}

\* Where Poll asks from when a partition's position is pos.
StartOf(pos) == IF pos = -1 THEN 0 ELSE pos

\* A consumer that has not opened yet has moved nothing and may still ask for the
\* metadata.
StartInv ==
  consumer = "new" => /\ \A p \in TopicPartitions : expected[p] = 0
                      /\ fetch.at = "none" => fetches < MaxFetches

\* While the broker puts an answer together every partition is found or still to be
\* looked up, unless the topic was removed.
FetchInv ==
  fetch.at = "asked" =>
    /\ consumer = "new"
    /\ fetch.gone \/ (AtBroker /\ fetch.got \union fetch.left = TopicPartitions)

\* The position of a partition is where it should be, and so is a request on its
\* way, unless Assign came between.
ReadInv(p) ==
  /\ StartOf(position[p]) = expected[p]
  /\ poll.at = "asked" /\ poll.p = {p} => poll.from = expected[p] \/ p \in raced

ReadsInv ==
  LibConsumerTypeOK /\ StartInv /\ FetchInv /\ \A p \in TopicPartitions : ReadInv(p)

\* The consumer is new and has asked for nothing.
LEMMA InitReadsInv == LibConsumerInit => ReadsInv
<1> SUFFICES ASSUME LibConsumerInit PROVE ReadsInv
  OBVIOUS
<1> USE LibConsumerAssumption
<1>1. NoPoll \in PollStates /\ NoPoll.at = "none"
  BY DEF NoPoll, PollStates
<1>2. LibConsumerTypeOK
  <2>1. topicIs \in TopicPlaces /\ stored \in [TopicPartitions -> 0 .. MaxStored]
    BY DEF LibConsumerInit, TopicPlaces
  <2>2. /\ consumer \in {"new", "open", "failed", "closed"} /\ fetches \in 0 .. MaxFetches
        /\ assigned \subseteq TopicPartitions /\ raced \subseteq TopicPartitions
    BY DEF LibConsumerInit
  <2>3. /\ position \in [TopicPartitions -> Int] /\ expected \in [TopicPartitions -> Nat]
        /\ errors \in 0 .. MaxErrors
    BY DEF LibConsumerInit
  <2>4. poll \in PollStates
    BY <1>1 DEF LibConsumerInit
  <2>5. fetch \in FetchStates
    BY DEF LibConsumerInit, NoFetch, FetchStates
  <2>6. QED
    BY <2>1, <2>2, <2>3, <2>4, <2>5
       DEF LibConsumerTypeOK, PollStates, FetchStates, TopicPlaces
<1>3. StartInv /\ FetchInv
  BY DEF LibConsumerInit, StartInv, FetchInv, NoFetch
<1>4. ASSUME NEW p \in TopicPartitions PROVE ReadInv(p)
  BY <1>1 DEF LibConsumerInit, ReadInv, StartOf
<1>5. QED
  BY <1>2, <1>3, <1>4 DEF ReadsInv

\* What the invariant says of the variables, taken apart.
LEMMA ReadsInvFacts ==
  ASSUME ReadsInv
  PROVE  /\ topicIs \in TopicPlaces /\ fetch \in FetchStates
         /\ stored \in [TopicPartitions -> 0 .. MaxStored]
         /\ consumer \in {"new", "open", "failed", "closed"} /\ fetches \in 0 .. MaxFetches
         /\ assigned \subseteq TopicPartitions /\ raced \subseteq TopicPartitions
         /\ position \in [TopicPartitions -> Int] /\ expected \in [TopicPartitions -> Nat]
         /\ poll \in PollStates /\ errors \in 0 .. MaxErrors
         /\ StartInv /\ FetchInv /\ \A p \in TopicPartitions : ReadInv(p)
BY DEF ReadsInv, LibConsumerTypeOK, PollStates, FetchStates, TopicPlaces

\* The variables of the next state have their types.
LEMMA ReadsTypes ==
  ASSUME topicIs' \in TopicPlaces, stored' \in [TopicPartitions -> 0 .. MaxStored],
         consumer' \in {"new", "open", "failed", "closed"}, fetches' \in 0 .. MaxFetches,
         fetch' \in FetchStates,
         assigned' \subseteq TopicPartitions, raced' \subseteq TopicPartitions,
         position' \in [TopicPartitions -> Int], expected' \in [TopicPartitions -> Nat],
         poll' \in PollStates, errors' \in 0 .. MaxErrors
  PROVE  LibConsumerTypeOK'
BY DEF LibConsumerTypeOK, PollStates, FetchStates, TopicPlaces

\* A step that does not touch the metadata request keeps what is said of it.
LEMMA SameFetch ==
  ASSUME ReadsInv, UNCHANGED <<fetches, fetch>>,
         consumer' = "new" => expected' = expected,
         topicIs' = topicIs,
         consumer' = consumer \/ (consumer = "open" /\ consumer' = "closed")
  PROVE  StartInv' /\ FetchInv'
BY ReadsInvFacts DEF StartInv, FetchInv, AtBroker

\* Steps that leave positions and requests alone: the broker's, the metadata request
\* before it is answered, and those by which a Poll goes on without asking.
LEMMA StillReads ==
  ASSUME ReadsInv,
         UNCHANGED <<position, expected, assigned>>,
         raced' \subseteq TopicPartitions, fetches' \in 0 .. MaxFetches,
         topicIs' \in TopicPlaces, stored' \in [TopicPartitions -> 0 .. MaxStored],
         consumer' \in {"new", "open", "failed", "closed"}, errors' \in 0 .. MaxErrors,
         fetch' \in FetchStates, StartInv', FetchInv',
         poll' \in PollStates,
         poll'.at = "asked" => poll' = poll /\ raced' = raced
  PROVE  ReadsInv'
<1>1. LibConsumerTypeOK'
  BY ReadsInvFacts, ReadsTypes
<1>2. ASSUME NEW p \in TopicPartitions PROVE ReadInv(p)'
  BY ReadsInvFacts DEF ReadInv
<1>3. QED
  BY <1>1, <1>2 DEF ReadsInv

\* Seek and Assign put the positions of S at o; a request on its way is for none of
\* them, or they count as raced.
LEMMA MovedReads ==
  ASSUME ReadsInv, NEW S \in SUBSET TopicPartitions, NEW o \in SeekOffsets,
         consumer \in {"open", "closed"},
         position' = [p \in TopicPartitions |-> IF p \in S THEN o ELSE position[p]],
         expected' = [p \in TopicPartitions |-> IF p \in S THEN o ELSE expected[p]],
         raced' = (raced \ S) \union (IF poll.at = "asked" THEN S \intersect poll.p ELSE {}),
         assigned' \in SUBSET TopicPartitions,
         UNCHANGED <<topicIs, stored, consumer, fetches, fetch, poll, errors>>
  PROVE  ReadsInv'
<1> USE LibConsumerAssumption
<1>1. /\ position' \in [TopicPartitions -> Int] /\ expected' \in [TopicPartitions -> Nat]
      /\ raced' \subseteq TopicPartitions
  <2>1. /\ position \in [TopicPartitions -> Int] /\ expected \in [TopicPartitions -> Nat]
        /\ raced \subseteq TopicPartitions /\ o \in Nat /\ Nat \subseteq Int
    BY ReadsInvFacts
  <2>2. \A p \in TopicPartitions :
          /\ (IF p \in S THEN o ELSE position[p]) \in Int
          /\ (IF p \in S THEN o ELSE expected[p]) \in Nat
    BY <2>1
  <2>3. position' \in [TopicPartitions -> Int] /\ expected' \in [TopicPartitions -> Nat]
    BY <2>2
  <2>4. raced' \subseteq TopicPartitions
    BY <2>1
  <2>5. QED
    BY <2>3, <2>4
<1>2. LibConsumerTypeOK'
  BY <1>1, ReadsInvFacts, ReadsTypes
<1>3. StartInv' /\ FetchInv'
  BY SameFetch
<1>4. ASSUME NEW p \in TopicPartitions PROVE ReadInv(p)'
  <2>1. ReadInv(p)
    BY ReadsInvFacts
  <2>2. CASE p \in S
    BY <2>2 DEF ReadInv, StartOf
  <2>3. CASE p \notin S
    BY <2>1, <2>3 DEF ReadInv
  <2>4. QED
    BY <2>2, <2>3
<1>5. QED
  BY <1>2, <1>3, <1>4 DEF ReadsInv

\* The broker's steps keep the invariant: it gets and loses the topic, restarts and
\* stores messages.
LEMMA BrokerSideReads ==
  ASSUME ReadsInv,
         TopicAppears \/ TopicKnown \/ TopicRemoved \/ BrokerRestarts
           \/ \E p \in TopicPartitions : MessageArrives(p)
  PROVE  ReadsInv'
<1> USE LibConsumerAssumption
<1>1. [p \in TopicPartitions |-> 0] \in [TopicPartitions -> 0 .. MaxStored]
  OBVIOUS
<1>2. CASE TopicAppears \/ TopicKnown
  <2>1. /\ topicIs' \in TopicPlaces
        /\ AtBroker => AtBroker'
        /\ UNCHANGED <<stored, consumer, fetches, fetch, assigned, position, poll, errors,
                       expected, raced>>
    BY <1>2 DEF TopicAppears, TopicKnown, TopicPlaces, AtBroker, ghosts
  <2>2. StartInv' /\ FetchInv'
    BY <2>1, ReadsInvFacts DEF StartInv, FetchInv
  <2>3. QED
    BY <2>1, <2>2, ReadsInvFacts, StillReads
<1>3. CASE TopicRemoved
  <2>1. /\ topicIs' \in TopicPlaces /\ stored' = [p \in TopicPartitions |-> 0]
        /\ errors' = errors + 1 /\ errors < MaxErrors
        /\ fetch' = [fetch EXCEPT !.gone = fetch.at = "asked"]
        /\ UNCHANGED <<consumer, fetches, assigned, position, poll, expected, raced>>
    BY <1>3 DEF TopicRemoved, TopicPlaces, Err, ghosts
  <2>2. fetch' \in FetchStates /\ fetch'.at = fetch.at /\ (fetch'.at = "asked" => fetch'.gone)
    BY <2>1, ReadsInvFacts, Zenon DEF FetchStates
  <2>3. StartInv' /\ FetchInv'
    BY <2>1, <2>2, ReadsInvFacts DEF StartInv, FetchInv
  <2>4. stored' \in [TopicPartitions -> 0 .. MaxStored] /\ errors' \in 0 .. MaxErrors
    BY <1>1, <2>1, ReadsInvFacts
  <2>5. QED
    BY <2>1, <2>2, <2>3, <2>4, ReadsInvFacts, StillReads
<1>4. CASE BrokerRestarts
  <2>1. /\ topicIs' \in TopicPlaces /\ stored' = [p \in TopicPartitions |-> 0]
        /\ errors' = errors + 1 /\ errors < MaxErrors /\ fetch' = NoFetch
        /\ consumer' = IF fetch.at = "asked" THEN "failed" ELSE consumer
        /\ UNCHANGED <<fetches, assigned, position, poll, expected, raced>>
    BY <1>4 DEF BrokerRestarts, Forgotten, TopicPlaces, Err, ghosts
  <2>2. fetch' \in FetchStates /\ fetch'.at = "none"
    BY <2>1 DEF FetchStates, NoFetch
  <2>3. fetch \in FetchStates /\ StartInv
    BY ReadsInvFacts
  <2>4. fetch.at \in {"none", "asked"}
    BY <2>3 DEF FetchStates
  <2>5. StartInv' /\ FetchInv'
    BY <2>1, <2>2, <2>3, <2>4 DEF StartInv, FetchInv
  <2>6. stored' \in [TopicPartitions -> 0 .. MaxStored] /\ errors' \in 0 .. MaxErrors
    BY <1>1, <2>1, ReadsInvFacts
  <2>7. consumer' \in {"new", "open", "failed", "closed"}
    BY <2>1, ReadsInvFacts
  <2>8. QED
    BY <2>1, <2>2, <2>5, <2>6, <2>7, ReadsInvFacts, StillReads
<1>5. ASSUME NEW p \in TopicPartitions, MessageArrives(p) PROVE ReadsInv'
  <2>1. /\ stored[p] < MaxStored /\ stored' = [stored EXCEPT ![p] = stored[p] + 1]
        /\ UNCHANGED <<topicIs, consumer, fetches, fetch, assigned, position, poll, errors,
                       expected, raced>>
    BY <1>5 DEF MessageArrives, ghosts
  <2>2. stored' \in [TopicPartitions -> 0 .. MaxStored]
    BY <2>1, ReadsInvFacts
  <2>3. StartInv' /\ FetchInv'
    BY <2>1, SameFetch
  <2>4. QED
    BY <2>1, <2>2, <2>3, ReadsInvFacts, StillReads
<1>6. QED
  BY <1>2, <1>3, <1>4, <1>5

\* NewConsumer keeps the invariant: it asks, the broker looks up one partition after
\* the other, and the consumer takes what it is told.
LEMMA FetchingReads ==
  ASSUME ReadsInv,
         FetchMetadata \/ FetchAndAssign \/ \E p \in TopicPartitions : LookUpPartition(p)
  PROVE  ReadsInv'
<1> USE LibConsumerAssumption
<1>1. CASE FetchMetadata
  <2>1. /\ consumer = "new" /\ fetch.at = "none" /\ fetches' = fetches + 1
        /\ UNCHANGED <<stored, assigned, position, poll, expected, raced>>
        /\ fetches < MaxFetches /\ \A p \in TopicPartitions : expected[p] = 0
    BY <1>1, ReadsInvFacts DEF FetchMetadata, ghosts, StartInv
  <2>2. fetches' \in 0 .. MaxFetches
    BY <2>1, ReadsInvFacts
  <2>3. CASE /\ topicIs # "absent" /\ NoErr /\ UNCHANGED consumer
             /\ topicIs' = IF topicIs = "elsewhere" THEN "known" ELSE topicIs
             /\ fetch' = [NoFetch EXCEPT !.at = "asked", !.left = TopicPartitions]
    <3>1. fetch' \in FetchStates /\ fetch'.at = "asked" /\ fetch'.left = TopicPartitions
      BY <2>3 DEF NoFetch, FetchStates
    <3>2. topicIs' \in TopicPlaces /\ AtBroker'
      BY <2>3, ReadsInvFacts DEF TopicPlaces, AtBroker
    <3>3. fetch'.got \union fetch'.left = TopicPartitions
      BY <3>1 DEF FetchStates
    <3>4. StartInv' /\ FetchInv'
      BY <2>1, <2>3, <3>1, <3>2, <3>3 DEF StartInv, FetchInv
    <3>5. errors' = errors
      BY <2>3 DEF NoErr
    <3>6. QED
      BY <2>1, <2>2, <2>3, <3>1, <3>2, <3>4, <3>5, ReadsInvFacts, StillReads
  <2>4. ASSUME consumer' \in {"new", "failed"}, errors' \in 0 .. MaxErrors,
               consumer' = "new" => fetches + 1 < MaxFetches,
               UNCHANGED <<topicIs, fetch>>
        PROVE  ReadsInv'
    <3>1. StartInv' /\ FetchInv'
      BY <2>1, <2>4, ReadsInvFacts DEF StartInv, FetchInv
    <3>2. QED
      BY <2>1, <2>2, <2>4, <3>1, ReadsInvFacts, StillReads
  <2>5. CASE /\ \/ topicIs = "absent" /\ NoErr
                \/ topicIs = "elsewhere" /\ Err
             /\ consumer' = Retried /\ UNCHANGED <<topicIs, fetch>>
    BY <2>4, <2>5, ReadsInvFacts DEF NoErr, Err, Retried
  <2>6. CASE Err /\ consumer' = "failed" /\ UNCHANGED <<topicIs, fetch>>
    BY <2>4, <2>6, ReadsInvFacts DEF Err
  <2>7. QED
    BY <1>1, <2>3, <2>5, <2>6 DEF FetchMetadata
<1>2. CASE FetchAndAssign
  <2>1. /\ fetch.at = "asked" /\ fetch' = NoFetch /\ consumer = "new"
        /\ UNCHANGED <<topicIs, stored, fetches, poll, expected, raced>>
        /\ \A p \in TopicPartitions : expected[p] = 0
    BY <1>2, ReadsInvFacts DEF FetchAndAssign, ghosts, StartInv, FetchInv
  <2>2. fetch' \in FetchStates /\ fetch'.at = "none" /\ fetch.got \subseteq TopicPartitions
    BY <2>1, ReadsInvFacts DEF FetchStates, NoFetch
  <2>3. CASE /\ NoErr /\ consumer' = "open" /\ assigned' = fetch.got
             /\ position' = [p \in TopicPartitions |->
                               IF p \in fetch.got THEN 0 ELSE position[p]]
    <3>1. position' \in [TopicPartitions -> Int] /\ errors' = errors
      BY <2>3, ReadsInvFacts DEF NoErr
    <3>2. LibConsumerTypeOK'
      BY <2>1, <2>2, <2>3, <3>1, ReadsInvFacts, ReadsTypes
    <3>3. StartInv' /\ FetchInv'
      BY <2>2, <2>3 DEF StartInv, FetchInv
    <3>4. ASSUME NEW p \in TopicPartitions PROVE ReadInv(p)'
      BY <2>1, <2>3, ReadsInvFacts DEF ReadInv, StartOf
    <3>5. QED
      BY <3>2, <3>3, <3>4 DEF ReadsInv
  <2>4. CASE Err /\ consumer' = "failed" /\ UNCHANGED <<assigned, position>>
    <3>1. errors' \in 0 .. MaxErrors
      BY <2>4, ReadsInvFacts DEF Err
    <3>2. StartInv' /\ FetchInv'
      BY <2>2, <2>4 DEF StartInv, FetchInv
    <3>3. QED
      BY <2>1, <2>2, <2>4, <3>1, <3>2, ReadsInvFacts, StillReads
  <2>5. QED
    BY <1>2, <2>3, <2>4 DEF FetchAndAssign
<1>3. ASSUME NEW p \in TopicPartitions, LookUpPartition(p) PROVE ReadsInv'
  <2>1. /\ p \in fetch.left
        /\ fetch' = [fetch EXCEPT !.left = fetch.left \ {p},
                                  !.got = IF AtBroker THEN fetch.got \union {p} ELSE fetch.got]
        /\ UNCHANGED <<topicIs, stored, consumer, fetches, assigned, position, poll, errors,
                       expected, raced>>
    BY <1>3 DEF LookUpPartition, ghosts
  <2>2. /\ fetch' \in FetchStates /\ fetch'.at = fetch.at /\ fetch'.gone = fetch.gone
        /\ AtBroker => fetch'.got \union fetch'.left = fetch.got \union fetch.left
    BY <2>1, ReadsInvFacts DEF FetchStates
  <2>3. StartInv' /\ FetchInv'
    BY <2>1, <2>2, ReadsInvFacts DEF StartInv, FetchInv, AtBroker
  <2>4. QED
    BY <2>1, <2>2, <2>3, ReadsInvFacts, StillReads
<1>4. QED
  BY <1>1, <1>2, <1>3

\* Every step of the consumer and the broker keeps the invariant.
LEMMA NextReadsInv == ReadsInv /\ [LibConsumerNext]_lcVars => ReadsInv'
<1> SUFFICES ASSUME ReadsInv, [LibConsumerNext]_lcVars PROVE ReadsInv'
  OBVIOUS
<1> USE LibConsumerAssumption
<1>0. NoPoll \in PollStates /\ NoPoll.at = "none"
  BY DEF NoPoll, PollStates
<1>1. CASE TopicAppears \/ TopicKnown \/ TopicRemoved \/ BrokerRestarts
             \/ \E p \in TopicPartitions : MessageArrives(p)
  BY <1>1, BrokerSideReads
<1>2. CASE FetchMetadata \/ FetchAndAssign
             \/ \E p \in TopicPartitions : LookUpPartition(p)
  BY <1>2, FetchingReads
<1>4. CASE Poll
  <2> DEFINE y == [NoPoll EXCEPT !.at = "lock", !.left = assigned]
  <2>1. y \in PollStates /\ y.at = "lock"
    BY <1>0, ReadsInvFacts DEF PollStates
  <2>2. /\ poll' = y
        /\ UNCHANGED <<topicIs, stored, consumer, fetches, fetch, assigned, position,
                       errors, expected, raced>>
    BY <1>4 DEF Poll, ghosts
  <2> HIDE DEF y
  <2>3. StartInv' /\ FetchInv'
    BY <2>2, SameFetch
  <2>4. QED
    BY <2>1, <2>2, <2>3, ReadsInvFacts, StillReads
<1>5. CASE LockOffsets
  <2>1. poll' \in PollStates /\ poll'.at = "next"
    BY <1>5, ReadsInvFacts DEF LockOffsets, PollStates
  <2>2. StartInv' /\ FetchInv'
    BY <1>5, SameFetch DEF LockOffsets, ghosts
  <2>3. QED
    BY <1>5, <2>1, <2>2, ReadsInvFacts, StillReads DEF LockOffsets, ghosts
<1>6. CASE PollReturns
  <2>1. StartInv' /\ FetchInv'
    BY <1>6, SameFetch DEF PollReturns, ghosts
  <2>2. QED
    BY <1>0, <1>6, <2>1, ReadsInvFacts, StillReads DEF PollReturns, ghosts
<1>7. CASE CloseConsumer
  <2>1. StartInv' /\ FetchInv'
    BY <1>7, SameFetch DEF CloseConsumer, ghosts
  <2>2. QED
    BY <1>7, <2>1, ReadsInvFacts, StillReads DEF CloseConsumer, ghosts
<1>9. ASSUME NEW p \in TopicPartitions, ConsumeMessages(p) PROVE ReadsInv'
  <2>1. /\ poll' = [poll EXCEPT !.at = "asked", !.p = {p}, !.left = poll.left \ {p},
                                !.from = StartOf(position[p])]
        /\ UNCHANGED <<topicIs, stored, consumer, fetches, fetch, assigned, position, errors,
                       expected, raced>>
    BY <1>9 DEF ConsumeMessages, ghosts, StartOf
  <2>2. StartOf(position[p]) = expected[p] /\ expected[p] \in Nat
    BY ReadsInvFacts DEF ReadInv
  <2>3. poll' \in PollStates /\ poll'.p = {p} /\ poll'.from = expected[p]
    BY <2>1, <2>2, ReadsInvFacts DEF PollStates
  <2>4. LibConsumerTypeOK'
    BY <2>1, <2>3, ReadsInvFacts, ReadsTypes
  <2>5. StartInv' /\ FetchInv'
    BY <2>1, SameFetch
  <2>6. ASSUME NEW q \in TopicPartitions PROVE ReadInv(q)'
    <3>1. poll'.p = {q} => q = p
      BY <2>3
    <3>2. QED
      BY <2>1, <2>3, <3>1, ReadsInvFacts DEF ReadInv
  <2>7. QED
    BY <2>4, <2>5, <2>6 DEF ReadsInv
<1>10. ASSUME NEW p \in TopicPartitions, RecordsArrive(p) PROVE ReadsInv'
  <2> DEFINE n == Least(MaxPollRecords - poll.taken, stored[p] - poll.from)
  <2>1. /\ raced' = raced \ {p}
        /\ UNCHANGED <<topicIs, stored, consumer, fetches, fetch, assigned>>
    BY <1>10 DEF RecordsArrive
  <2>2. CASE /\ consumer = "open" /\ n > 0 /\ NoErr
             /\ poll' = [poll EXCEPT !.at = "next", !.taken = poll.taken + n]
             /\ position' = [position EXCEPT ![p] = poll.from + n]
             /\ expected' = [expected EXCEPT ![p] = poll.from + n]
    <3>1. n \in Nat /\ n > 0 /\ poll.taken + n \in 0 .. MaxPollRecords /\ poll.from \in Nat
      BY <2>2, ReadsInvFacts DEF Least, PollStates
    <3> HIDE DEF n
    <3>2. /\ poll' \in PollStates /\ poll'.at = "next"
      BY <2>2, <3>1, ReadsInvFacts DEF PollStates
    <3>3. /\ position' \in [TopicPartitions -> Int] /\ expected' \in [TopicPartitions -> Nat]
          /\ errors' = errors /\ raced' \subseteq TopicPartitions
      BY <2>1, <2>2, <3>1, ReadsInvFacts DEF NoErr
    <3>4. LibConsumerTypeOK'
      BY <2>1, <3>2, <3>3, ReadsInvFacts, ReadsTypes
    <3>5. StartInv' /\ FetchInv'
      BY <2>1, <2>2, SameFetch
    <3>6. ASSUME NEW q \in TopicPartitions PROVE ReadInv(q)'
      <4>1. CASE q = p
        BY <2>2, <3>1, <3>2, <4>1, ReadsInvFacts DEF ReadInv, StartOf
      <4>2. CASE q # p
        BY <2>2, <3>2, <4>2, ReadsInvFacts DEF ReadInv
      <4>3. QED
        BY <4>1, <4>2
    <3>7. QED
      BY <3>4, <3>5, <3>6 DEF ReadsInv
  <2>3. CASE /\ IF consumer = "open" /\ n > 0 THEN Err ELSE NoErr
             /\ poll' = [poll EXCEPT !.at = "next"]
             /\ UNCHANGED <<position, expected>>
    <3>1. errors' \in 0 .. MaxErrors
      <4>1. Err => errors' \in 0 .. MaxErrors
        BY ReadsInvFacts DEF Err
      <4>2. NoErr => errors' \in 0 .. MaxErrors
        BY ReadsInvFacts DEF NoErr
      <4> HIDE DEF n
      <4>3. QED
        BY <2>3, <4>1, <4>2
    <3>2. poll' \in PollStates /\ poll'.at = "next"
      BY <2>3, ReadsInvFacts DEF PollStates
    <3>3. raced' \subseteq TopicPartitions
      BY <2>1, ReadsInvFacts
    <3> HIDE DEF n
    <3>4. StartInv' /\ FetchInv'
      BY <2>1, <2>3, SameFetch
    <3>5. QED
      BY <2>1, <2>3, <3>1, <3>2, <3>3, <3>4, ReadsInvFacts, StillReads
  <2>4. QED
    BY <1>10, <2>2, <2>3, Zenon DEF RecordsArrive
<1>11. ASSUME NEW p \in TopicPartitions, NEW o \in SeekOffsets, Seek(p, o) PROVE ReadsInv'
  <2>1. /\ consumer \in {"open", "closed"} /\ poll.at \in {"none", "lock"}
        /\ position' = [position EXCEPT ![p] = o] /\ expected' = [expected EXCEPT ![p] = o]
        /\ raced' = raced \ {p}
        /\ UNCHANGED <<topicIs, stored, consumer, fetches, fetch, assigned, poll, errors>>
    BY <1>11 DEF Seek, OffsetsFree
  <2>2. PICK S \in SUBSET TopicPartitions : S = {p}
    OBVIOUS
  <2>3. /\ position' = [q \in TopicPartitions |-> IF q \in S THEN o ELSE position[q]]
        /\ expected' = [q \in TopicPartitions |-> IF q \in S THEN o ELSE expected[q]]
    BY <2>1, <2>2, ReadsInvFacts
  <2>4. raced' = (raced \ S) \union (IF poll.at = "asked" THEN S \intersect poll.p ELSE {})
    BY <2>1, <2>2
  <2>5. assigned' \in SUBSET TopicPartitions
    BY <2>1, ReadsInvFacts
  <2>6. /\ consumer \in {"open", "closed"} /\ S \in SUBSET TopicPartitions
        /\ UNCHANGED <<topicIs, stored, consumer, fetches, fetch, poll, errors>>
    BY <2>1, <2>2
  <2>7. QED
    BY <2>3, <2>4, <2>5, <2>6, MovedReads
<1>12. ASSUME NEW S \in SUBSET TopicPartitions, NEW o \in SeekOffsets, Assign(S, o)
       PROVE  ReadsInv'
  BY <1>12, MovedReads DEF Assign
<1>13. CASE UNCHANGED lcVars
  <2>1. StartInv' /\ FetchInv'
    BY <1>13, SameFetch DEF lcVars
  <2>2. QED
    BY <1>13, <2>1, ReadsInvFacts, StillReads DEF lcVars
<1>14. QED
  BY <1>1, <1>2, <1>4, <1>5, <1>6, <1>7, <1>9, <1>10, <1>11, <1>12, <1>13
     DEF LibConsumerNext

\* The other packages leave the consumer alone.
LEMMA LibConsumerSteps == [PackagesNext]_allVars => [LibConsumerNext]_lcVars
BY DEF PackagesNext, Only, allVars

\* NewConsumer returns a consumer with every partition of the topic, unless the topic
\* was removed again while the broker put its answer together.
LEMMA StepOpensWithAll == ReadsInv /\ [LibConsumerNext]_lcVars => [OpensWithAll]_lcVars
<1> SUFFICES ASSUME ReadsInv, LibConsumerNext, Opens
             PROVE  assigned' = TopicPartitions \/ fetch.gone
  BY DEF OpensWithAll
<1>1. consumer = "new" /\ consumer' = "open"
  BY DEF Opens
<1>2. FetchAndAssign
  <2>1. ~(TopicAppears \/ TopicKnown \/ TopicRemoved \/ Poll \/ LockOffsets \/ PollReturns)
    BY <1>1 DEF TopicAppears, TopicKnown, TopicRemoved, Poll, LockOffsets, PollReturns
  <2>2. ~BrokerRestarts /\ ~FetchMetadata /\ ~CloseConsumer
    BY <1>1 DEF BrokerRestarts, FetchMetadata, Retried, CloseConsumer
  <2>3. ASSUME NEW p \in TopicPartitions
        PROVE  ~(MessageArrives(p) \/ LookUpPartition(p) \/ ConsumeMessages(p)
                   \/ RecordsArrive(p) \/ \E o \in SeekOffsets : Seek(p, o))
    BY <1>1
       DEF MessageArrives, LookUpPartition, ConsumeMessages, RecordsArrive, Seek
  <2>4. ASSUME NEW S \in SUBSET TopicPartitions, NEW o \in SeekOffsets
        PROVE  ~Assign(S, o)
    BY <1>1 DEF Assign
  <2>5. QED
    BY <2>1, <2>2, <2>3, <2>4 DEF LibConsumerNext
<1>3. fetch.at = "asked" /\ fetch.left = {} /\ assigned' = fetch.got
  BY <1>1, <1>2 DEF FetchAndAssign
<1>4. fetch.gone \/ fetch.got \union {} = TopicPartitions
  BY <1>3, ReadsInvFacts DEF FetchInv
<1>5. QED
  BY <1>3, <1>4

\* NewConsumer returns a consumer with every partition of the topic, however late the
\* topic appeared, unless it was removed while the broker put its answer together; and
\* Poll reads each partition on where the last message, Seek or Assign left it, unless
\* Assign came while the request was on its way.
THEOREM ReadsStaySound == Spec => ReadsSound
<1>1. PackagesInit => ReadsInv
  BY InitReadsInv DEF PackagesInit
<1>2. ReadsInv /\ [PackagesNext]_allVars => ReadsInv'
  BY LibConsumerSteps, NextReadsInv
<1>3. ReadsInv => ReadsOn
  BY DEF ReadsInv, ReadInv, ReadsOn
<1>4. ReadsInv /\ [PackagesNext]_allVars => [OpensWithAll /\ ReadsOn]_lcVars
  BY <1>3, LibConsumerSteps, StepOpensWithAll
<1>5. QED
  BY <1>1, <1>2, <1>4, PTL DEF Spec, ReadsSound

-----------------------------------------------------------------------------
(* Replication: the leader and the in-sync replicas.                       *)

\* Without(list, b) has the entries of the list other than b, and none twice if the
\* list has none twice (the loop of DetectFailure; by induction on its rounds).
LEMMA WithoutFacts ==
  ASSUME NEW list \in Seq(Brokers), NEW b
  PROVE  /\ Without(list, b) \in Seq(Brokers)
         /\ ToSet(Without(list, b)) = ToSet(list) \ {b}
         /\ IsInjective(list) => IsInjective(Without(list, b))
<1> DEFINE n == Len(list)
           Round(f, i) == IF i = 0 THEN <<>>
                          ELSE IF list[i] = b THEN f[i - 1] ELSE Append(f[i - 1], list[i])
           Upto(k) == {list[i] : i \in 1 .. k} \ {b}
           Good(w, k) == /\ w \in Seq(Brokers) /\ ToSet(w) = Upto(k)
                         /\ IsInjective(list) => IsInjective(w)
           done == {k \in 0 .. n :
                      \E f \in [0 .. k -> Seq(Brokers)] : \A i \in 0 .. k : f[i] = Round(f, i)}
<1>1. n \in Nat /\ list \in [1 .. n -> Brokers] /\ <<>> \in Seq(Brokers)
  BY LenProperties, EmptySeq
<1>2. \A k \in 0 .. n : k \in done
  <2>1. 0 \in done
    <3> DEFINE f == [i \in 0 .. 0 |-> <<>>]
    <3>1. f \in [0 .. 0 -> Seq(Brokers)] /\ \A i \in 0 .. 0 : f[i] = Round(f, i)
      BY <1>1
    <3>2. 0 \in 0 .. n
      BY <1>1
    <3> HIDE DEF f, Round, n
    <3>3. QED
      BY <3>1, <3>2
  <2>2. ASSUME NEW k \in 0 .. (n - 1), k \in done PROVE k + 1 \in done
    <3> HIDE DEF n
    <3>1. PICK f \in [0 .. k -> Seq(Brokers)] : \A i \in 0 .. k : f[i] = Round(f, i)
      BY <2>2
    <3> DEFINE next == IF list[k + 1] = b THEN f[k] ELSE Append(f[k], list[k + 1])
               g == [i \in 0 .. k + 1 |-> IF i = k + 1 THEN next ELSE f[i]]
    <3>2. k \in Nat /\ k + 1 \in 1 .. n /\ f[k] \in Seq(Brokers) /\ list[k + 1] \in Brokers
      BY <1>1, <3>1
    <3>3. next \in Seq(Brokers)
      BY <3>2, AppendProperties
    <3>4. ASSUME NEW i \in 0 .. k + 1 PROVE g[i] \in Seq(Brokers) /\ g[i] = Round(g, i)
      <4>1. CASE i = k + 1
        <5>1. g[i] = next /\ g[i - 1] = f[k] /\ i # 0
          BY <3>2, <4>1
        <5>2. QED
          BY <3>3, <4>1, <5>1
      <4>2. CASE i # k + 1
        <5>1. i \in 0 .. k /\ g[i] = f[i]
          BY <3>2, <4>2
        <5>2. i # 0 => g[i - 1] = f[i - 1]
          BY <3>2, <5>1
        <5>3. f[i] \in Seq(Brokers) /\ f[i] = Round(f, i)
          BY <3>1, <5>1
        <5> HIDE DEF g
        <5>4. QED
          BY <5>1, <5>2, <5>3
      <4>3. QED
        BY <4>1, <4>2
    <3>5. g \in [0 .. k + 1 -> Seq(Brokers)]
      <4>1. \A i \in 0 .. k + 1 : g[i] \in Seq(Brokers)
        BY <3>4
      <4> HIDE DEF next
      <4>2. QED
        BY <4>1
    <3> HIDE DEF g, Round
    <3>6. \E h \in [0 .. k + 1 -> Seq(Brokers)] : \A i \in 0 .. k + 1 : h[i] = Round(h, i)
      BY <3>4, <3>5
    <3>7. k + 1 \in 0 .. n
      BY <1>1, <3>2
    <3>8. QED
      BY <3>6, <3>7
  <2> HIDE DEF done, n
  <2>3. QED
    BY <1>1, <2>1, <2>2, UpTo
<1> DEFINE First == CHOOSE f : f = [i \in 0 .. n |-> Round(f, i)]
<1>3. Without(list, b) = First[n]
  BY DEF Without
<1>4. First = [i \in 0 .. n |-> Round(First, i)]
  <2>1. PICK f \in [0 .. n -> Seq(Brokers)] : \A i \in 0 .. n : f[i] = Round(f, i)
    <3>1. n \in done
      <4> HIDE DEF done, n
      <4>1. QED
        BY <1>1, <1>2
    <3> HIDE DEF Round, n
    <3>2. QED
      BY <3>1
  <2>2. f = [i \in 0 .. n |-> Round(f, i)]
    <3> HIDE DEF Round, n
    <3>1. QED
      BY <2>1
  <2> HIDE DEF Round, n
  <2>3. QED
    BY <2>2
<1> HIDE DEF First
<1>5. \A k \in 0 .. n : k \in {j \in 0 .. n : Good(First[j], j)}
  <2>1. Good(First[0], 0) /\ 0 \in 0 .. n
    <3>1. First[0] = <<>> /\ 0 \in 0 .. n
      BY <1>1, <1>4
    <3>2. ToSet(<<>>) = {} /\ IsInjective(<<>>)
      BY DEF ToSet, IsInjective
    <3>3. Upto(0) = {}
      OBVIOUS
    <3>4. QED
      BY <1>1, <3>1, <3>2, <3>3
  <2>2. ASSUME NEW k \in 0 .. (n - 1), Good(First[k], k)
        PROVE  Good(First[k + 1], k + 1) /\ k + 1 \in 0 .. n
    <3> DEFINE w == First[k]
               x == list[k + 1]
    <3>1. k \in Nat /\ k + 1 \in 1 .. n /\ k + 1 \in 0 .. n /\ k + 1 # 0 /\ (k + 1) - 1 = k
      BY <1>1
    <3>2. First[k + 1] = IF x = b THEN w ELSE Append(w, x)
      BY <1>4, <3>1
    <3>3. x \in Brokers /\ w \in Seq(Brokers) /\ ToSet(w) = Upto(k)
      BY <1>1, <2>2, <3>1
    <3>4. Upto(k + 1) = Upto(k) \union ({x} \ {b})
      BY <3>1
    <3>5. CASE x = b
      BY <2>2, <3>1, <3>2, <3>4, <3>5
    <3>6. CASE x # b
      <4> DEFINE v == Append(w, x)
      <4>1. /\ v \in Seq(Brokers) /\ Len(v) = Len(w) + 1 /\ Len(w) \in Nat
            /\ DOMAIN v = 1 .. Len(w) + 1 /\ DOMAIN w = 1 .. Len(w)
            /\ v[Len(w) + 1] = x /\ \A i \in 1 .. Len(w) : v[i] = w[i]
        BY <3>3, AppendProperties, LenProperties
      <4>2. ToSet(v) = ToSet(w) \union {x}
        <5> HIDE DEF v, w
        <5>1. ASSUME NEW y \in ToSet(v) PROVE y \in ToSet(w) \union {x}
          <6>1. PICK i \in 1 .. Len(w) + 1 : y = v[i]
            BY <4>1 DEF ToSet
          <6>2. CASE i = Len(w) + 1
            BY <4>1, <6>1, <6>2
          <6>3. CASE i # Len(w) + 1
            <7>1. i \in 1 .. Len(w)
              BY <4>1, <6>1, <6>3
            <7>2. QED
              BY <4>1, <6>1, <7>1 DEF ToSet
          <6>4. QED
            BY <6>2, <6>3
        <5>2. ASSUME NEW y \in ToSet(w) PROVE y \in ToSet(v)
          <6>1. PICK i \in 1 .. Len(w) : y = w[i]
            BY <4>1 DEF ToSet
          <6>2. i \in 1 .. Len(w) + 1 /\ y = v[i]
            BY <4>1, <6>1
          <6>3. QED
            BY <4>1, <6>2 DEF ToSet
        <5>3. x \in ToSet(v)
          <6>1. Len(w) + 1 \in 1 .. Len(w) + 1
            BY <4>1
          <6>2. QED
            BY <4>1, <6>1 DEF ToSet
        <5>4. QED
          BY <5>1, <5>2, <5>3
      <4>3. ASSUME IsInjective(list) PROVE IsInjective(v)
        <5>1. x \notin ToSet(w)
          <6>1. \A i \in 1 .. k : list[i] # x
            BY <1>1, <3>1, <4>3 DEF IsInjective
          <6>2. QED
            BY <3>3, <6>1
        <5>2. \A i \in 1 .. Len(w) : w[i] # x
          BY <4>1, <5>1 DEF ToSet
        <5>3. \A i, j \in 1 .. Len(w) : w[i] = w[j] => i = j
          BY <2>2, <4>1, <4>3 DEF IsInjective
        <5> HIDE DEF v, w
        <5>4. \A i, j \in DOMAIN v : v[i] = v[j] => i = j
          BY <4>1, <5>2, <5>3
        <5>5. QED
          BY <5>4 DEF IsInjective
      <4>4. First[k + 1] = v
        BY <3>2, <3>6
      <4> HIDE DEF v, w
      <4>5. QED
        BY <3>1, <3>3, <3>4, <3>6, <4>1, <4>2, <4>3, <4>4
    <3>7. QED
      BY <3>5, <3>6
  <2> HIDE DEF Good, n
  <2>3. QED
    BY <1>1, <2>1, <2>2, UpTo
<1>6. Good(First[n], n)
  <2>1. n \in 0 .. n
    BY <1>1
  <2> HIDE DEF Good, n
  <2>2. QED
    BY <1>5, <2>1
<1>7. Upto(n) = ToSet(list) \ {b}
  BY <1>1 DEF ToSet
<1>8. QED
  BY <1>3, <1>6, <1>7

\* The lists that a partition's replication starts from name no broker twice
\* (assignReplicas takes distinct brokers).
DistinctReplicas == \A list \in ReplicaLists : IsInjective(list)

ReplInv ==
  /\ inSyncReplicas \in Seq(Brokers) /\ ISRHasNoDuplicates /\ LeaderInSync

\* A failure keeps the leader in the ISR: another one than the failed broker stays
\* in it, and a new one is its first entry.
LEMMA FailureKeepsReplInv ==
  ASSUME ReplInv, NEW b, DetectFailure(b)
  PROVE  ReplInv'
<1> DEFINE w == Without(inSyncReplicas, b)
<1>1. /\ w \in Seq(Brokers) /\ ToSet(w) = ToSet(inSyncReplicas) \ {b} /\ IsInjective(w)
  BY WithoutFacts DEF ReplInv, ISRHasNoDuplicates
<1>2. /\ inSyncReplicas \in Seq(Brokers) /\ IsInjective(inSyncReplicas) /\ MinISR \in Nat
      /\ replicating /\ MinISR > 0 => rsLeader \in ToSet(inSyncReplicas)
      /\ replicating' = replicating
  BY ReplicationAssumption DEF ReplInv, ISRHasNoDuplicates, LeaderInSync, DetectFailure
<1>3. CASE ~replicating
  BY <1>2, <1>3 DEF DetectFailure, ReplInv, ISRHasNoDuplicates, LeaderInSync
<1>4. CASE replicating
  <2>1. /\ inSyncReplicas' = IF Len(w) < MinISR THEN inSyncReplicas ELSE w
        /\ rsLeader' = IF rsLeader = b THEN NewLeader(inSyncReplicas') ELSE rsLeader
    BY <1>4 DEF DetectFailure, KeptISR
  <2> HIDE DEF w
  <2>2. inSyncReplicas' \in Seq(Brokers) /\ IsInjective(inSyncReplicas')
    BY <1>1, <1>2, <2>1
  <2>3. ASSUME MinISR > 0 PROVE rsLeader' \in ToSet(inSyncReplicas')
    <3>1. rsLeader \in ToSet(inSyncReplicas)
      BY <1>2, <1>4, <2>3
    <3>2. CASE rsLeader # b
      BY <1>1, <2>1, <3>1, <3>2
    <3>3. CASE rsLeader = b
      <4>1. Len(inSyncReplicas') # 0
        <5>1. CASE Len(w) < MinISR
          <6>1. PICK i \in DOMAIN inSyncReplicas : inSyncReplicas[i] = rsLeader
            BY <3>1 DEF ToSet
          <6>2. i \in 1 .. Len(inSyncReplicas) /\ Len(inSyncReplicas) \in Nat
            BY <1>2, <6>1, LenProperties
          <6>3. QED
            BY <2>1, <5>1, <6>2
        <5>2. CASE ~ (Len(w) < MinISR)
          <6>1. Len(w) \in Nat
            BY <1>1, LenProperties
          <6>2. QED
            BY <1>2, <2>1, <2>3, <5>2, <6>1
        <5>3. QED
          BY <5>1, <5>2
      <4>2. /\ Len(inSyncReplicas') \in Nat
            /\ DOMAIN inSyncReplicas' = 1 .. Len(inSyncReplicas')
        BY <2>2, LenProperties
      <4>3. 1 \in DOMAIN inSyncReplicas' /\ inSyncReplicas' # <<>>
        BY <4>1, <4>2
      <4>4. rsLeader' = inSyncReplicas'[1]
        BY <2>1, <3>3, <4>3 DEF NewLeader
      <4>5. QED
        BY <4>3, <4>4 DEF ToSet
    <3>4. QED
      BY <3>2, <3>3
  <2>4. QED
    BY <1>2, <1>4, <2>2, <2>3 DEF ReplInv, ISRHasNoDuplicates, LeaderInSync
<1>5. QED
  BY <1>3, <1>4

\* A follower joins the ISR when it is not in it.
LEMMA RecordKeepsReplInv ==
  ASSUME ReplInv, NEW b \in Brokers, NEW offset \in SyncOffsets, RecordReplication(b, offset)
  PROVE  ReplInv'
<1> DEFINE s == inSyncReplicas
<1>1. s \in Seq(Brokers) /\ IsInjective(s) /\ LeaderInSync
      /\ UNCHANGED <<replicating, rsLeader>>
  BY DEF ReplInv, ISRHasNoDuplicates, RecordReplication
<1>2. CASE inSyncReplicas' = Append(s, b) /\ b \notin ToSet(s)
  <2> DEFINE v == Append(s, b)
  <2>1. /\ v \in Seq(Brokers) /\ Len(v) = Len(s) + 1 /\ Len(s) \in Nat
        /\ DOMAIN v = 1 .. Len(s) + 1 /\ DOMAIN s = 1 .. Len(s)
        /\ v[Len(s) + 1] = b /\ \A i \in 1 .. Len(s) : v[i] = s[i]
    BY <1>1, AppendProperties, LenProperties
  <2> HIDE DEF v, s
  <2>2. IsInjective(v)
    <3>1. \A i \in 1 .. Len(s) : s[i] # b
      BY <1>2, <2>1 DEF ToSet
    <3>2. \A i, j \in 1 .. Len(s) : s[i] = s[j] => i = j
      BY <1>1, <2>1 DEF IsInjective
    <3>3. \A i, j \in DOMAIN v : v[i] = v[j] => i = j
      BY <2>1, <3>1, <3>2
    <3>4. QED
      BY <3>3 DEF IsInjective
  <2>3. ASSUME NEW x \in ToSet(s) PROVE x \in ToSet(v)
    <3>1. PICK i \in 1 .. Len(s) : x = s[i]
      BY <2>1 DEF ToSet
    <3>2. i \in 1 .. Len(s) + 1 /\ x = v[i]
      BY <2>1, <3>1
    <3>3. QED
      BY <2>1, <3>2 DEF ToSet
  <2>4. inSyncReplicas' = v
    BY <1>2 DEF v, s
  <2>5. replicating' /\ MinISR > 0 => rsLeader' \in ToSet(inSyncReplicas')
    BY <1>1, <2>3, <2>4 DEF LeaderInSync, s
  <2>6. QED
    BY <2>1, <2>2, <2>4, <2>5 DEF ReplInv, ISRHasNoDuplicates, LeaderInSync
<1>3. CASE UNCHANGED inSyncReplicas
  BY <1>1, <1>3 DEF ReplInv, ISRHasNoDuplicates, LeaderInSync
<1>4. QED
  BY <1>2, <1>3 DEF RecordReplication

\* The steps of a replication manager: failures that the watcher reports, late
\* reports of followers, and new partitions.
ReplStep == ReplicationNext \/ \E b : DetectFailure(b)

\* Every such step keeps the invariant.
LEMMA NextReplInv == DistinctReplicas /\ ReplInv /\ [ReplStep]_replVars => ReplInv'
<1> SUFFICES ASSUME DistinctReplicas, ReplInv, [ReplStep]_replVars PROVE ReplInv'
  OBVIOUS
<1>1. ASSUME NEW list \in ReplicaLists, NEW first \in ToSet(list),
             InitiateReplication(list, first)
      PROVE  ReplInv'
  BY <1>1, ReplicationAssumption
     DEF InitiateReplication, DistinctReplicas, ReplInv, ISRHasNoDuplicates, LeaderInSync
<1>2. CASE UNCHANGED replVars
  BY <1>2 DEF ReplInv, ISRHasNoDuplicates, LeaderInSync, replVars
<1>3. QED
  BY <1>1, <1>2, FailureKeepsReplInv, RecordKeepsReplInv DEF ReplStep, ReplicationNext

(* EtcdCoordinator: the events on their way to the watcher.                *)

\* For the brokers with ids above 0: the last event of each in p shows whether k has the
\* broker's key, and who believes s knows it of those without an event.
TellsRight(p, k, s) ==
  /\ \A i \in 1 .. Len(p) :
       p[i].id > 0 /\ (\A j \in 1 .. Len(p) : j > i => p[j].id # p[i].id)
         => p[i].healthy = (k[p[i].id] # 0)
  /\ \A b \in Brokers :
       b > 0 /\ (\A i \in 1 .. Len(p) : p[i].id # b) => (b \in s <=> k[b] # 0)

EventInv ==
  /\ channel \in Seq(BrokerHealthEvent) /\ stream \in Seq(BrokerHealthEvent)
  /\ believed \subseteq Brokers
  /\ watcher = NoBroker => channel = <<>> /\ stream = <<>>
  /\ watcher # NoBroker => TellsRight(channel \o stream, key, believed)

\* An event is of a broker.
LEMMA EventIds ==
  ASSUME NEW p \in Seq(BrokerHealthEvent), NEW i \in 1 .. Len(p)
  PROVE  p[i] \in BrokerHealthEvent /\ p[i].id \in Brokers /\ p[i].healthy \in BOOLEAN
<1>1. p[i] \in BrokerHealthEvent
  BY ElementOfSeq
<1>2. QED
  BY <1>1 DEF BrokerHealthEvent

\* An event added for the key that changes shows what the key is now.
LEMMA TellsRightAfterEvent ==
  ASSUME NEW p \in Seq(BrokerHealthEvent), NEW e \in BrokerHealthEvent, NEW s,
         NEW k \in [Brokers -> Nat], NEW v \in Nat, TellsRight(p, k, s),
         e.healthy = (v # 0)
  PROVE  TellsRight(Append(p, e), [k EXCEPT ![e.id] = v], s)
<1> DEFINE q == Append(p, e)
           l == [k EXCEPT ![e.id] = v]
           n == Len(p)
<1>1. /\ n \in Nat /\ Len(q) = n + 1 /\ q[n + 1] = e /\ \A i \in 1 .. n : q[i] = p[i]
  BY AppendProperties, LenProperties
<1>2. /\ e.id \in Brokers /\ \A i \in 1 .. n : p[i].id \in Brokers
  BY EventIds DEF BrokerHealthEvent
<1>3. \A b \in Brokers : l[b] = IF b = e.id THEN v ELSE k[b]
  OBVIOUS
<1> HIDE DEF q, l
<1>4. ASSUME NEW i \in 1 .. Len(q), q[i].id > 0,
             \A j \in 1 .. Len(q) : j > i => q[j].id # q[i].id
      PROVE  q[i].healthy = (l[q[i].id] # 0)
  <2> HIDE DEF n
  <2>1. CASE i = n + 1
    BY <1>1, <1>2, <1>3, <2>1
  <2>2. CASE i # n + 1
    <3>1. i \in 1 .. n /\ q[i] = p[i] /\ n + 1 \in 1 .. Len(q) /\ n + 1 > i
      BY <1>1, <2>2
    <3>2. e.id # p[i].id
      BY <1>1, <1>4, <3>1
    <3>3. \A j \in 1 .. n : j > i => p[j].id # p[i].id
      BY <1>1, <1>4, <3>1
    <3>4. p[i].healthy = (k[p[i].id] # 0)
      BY <1>4, <3>1, <3>3 DEF TellsRight, n
    <3>5. l[p[i].id] = k[p[i].id]
      BY <1>2, <1>3, <3>1, <3>2
    <3>6. QED
      BY <3>1, <3>4, <3>5
  <2>3. QED
    BY <2>1, <2>2
<1>5. ASSUME NEW b \in Brokers, b > 0, \A i \in 1 .. Len(q) : q[i].id # b
      PROVE  b \in s <=> l[b] # 0
  <2>1. b # e.id /\ \A i \in 1 .. n : p[i].id # b
    BY <1>1, <1>5
  <2>2. b \in s <=> k[b] # 0
    BY <1>5, <2>1 DEF TellsRight
  <2>3. QED
    BY <1>3, <2>1, <2>2
<1>6. QED
  BY <1>4, <1>5 DEF TellsRight, q, l

\* The oldest event does not matter once another is to come, and is the last of its
\* broker otherwise: who takes it knows what the rest does not tell.
LEMMA TellsRightAfterTake ==
  ASSUME NEW p \in Seq(BrokerHealthEvent), NEW q \in Seq(BrokerHealthEvent), NEW k, NEW s,
         Len(p) = Len(q) + 1, \A i \in 1 .. Len(q) : q[i] = p[i + 1],
         TellsRight(p, k, s)
  PROVE  TellsRight(q, k, IF p[1].healthy THEN s \union {p[1].id} ELSE s \ {p[1].id})
<1> DEFINE n == Len(q)
           now == IF p[1].healthy THEN s \union {p[1].id} ELSE s \ {p[1].id}
<1>1. n \in Nat /\ Len(p) = n + 1
  BY LenProperties
<1>2. ASSUME NEW i \in 1 .. n, q[i].id > 0, \A j \in 1 .. n : j > i => q[j].id # q[i].id
      PROVE  q[i].healthy = (k[q[i].id] # 0)
  <2> HIDE DEF n
  <2>1. i + 1 \in 1 .. n + 1 /\ q[i] = p[i + 1]
    BY <1>1 DEF n
  <2>2. ASSUME NEW j \in 1 .. n + 1, j > i + 1 PROVE p[j].id # p[i + 1].id
    <3>1. j - 1 \in 1 .. n /\ j - 1 > i /\ (j - 1) + 1 = j
      BY <1>1, <2>2
    <3>2. q[j - 1] = p[j]
      BY <3>1 DEF n
    <3>3. QED
      BY <1>2, <2>1, <3>1, <3>2
  <2>3. QED
    BY <1>1, <1>2, <2>1, <2>2 DEF TellsRight
<1>3. ASSUME NEW b \in Brokers, b > 0, \A i \in 1 .. n : q[i].id # b
      PROVE  b \in now <=> k[b] # 0
  <2> HIDE DEF n
  <2>1. ASSUME NEW j \in 1 .. n + 1, j > 1 PROVE p[j].id # b
    <3>1. j - 1 \in 1 .. n /\ (j - 1) + 1 = j
      BY <1>1, <2>1
    <3>2. q[j - 1] = p[j]
      BY <3>1 DEF n
    <3>3. QED
      BY <1>3, <3>1, <3>2
  <2>2. 1 \in 1 .. n + 1 /\ 1 \in 1 .. Len(p)
    BY <1>1
  <2>3. p[1].healthy \in BOOLEAN
    BY <2>2, EventIds
  <2>4. CASE p[1].id = b
    <3>1. p[1].healthy = (k[b] # 0)
      BY <1>1, <1>3, <2>1, <2>2, <2>4 DEF TellsRight
    <3>2. QED
      BY <2>4, <3>1
  <2>5. CASE p[1].id # b
    <3>1. ASSUME NEW j \in 1 .. n + 1 PROVE p[j].id # b
      <4>1. j = 1 \/ j > 1
        BY <1>1
      <4>2. QED
        BY <2>1, <2>5, <4>1
    <3>2. b \in s <=> k[b] # 0
      BY <1>1, <1>3, <3>1 DEF TellsRight
    <3>3. QED
      BY <2>5, <3>2
  <2>6. QED
    BY <2>4, <2>5
<1> HIDE DEF now
<1>4. TellsRight(q, k, now)
  BY <1>2, <1>3 DEF TellsRight
<1>5. QED
  BY <1>4 DEF now

\* An event of a broker whose id is not above 0 tells nothing of the others.
LEMMA TellsRightAfterDrop ==
  ASSUME NEW p \in Seq(BrokerHealthEvent), NEW q \in Seq(BrokerHealthEvent), NEW k, NEW s,
         NEW m \in 1 .. Len(p), ~ (p[m].id > 0), Len(p) = Len(q) + 1,
         \A i \in 1 .. Len(q) : q[i] = p[IF i < m THEN i ELSE i + 1],
         TellsRight(p, k, s)
  PROVE  TellsRight(q, k, s)
<1> DEFINE n == Len(q)
<1>1. n \in Nat /\ Len(p) = n + 1 /\ m \in 1 .. n + 1
  BY LenProperties
<1>2. ASSUME NEW j \in 1 .. n + 1, j # m
      PROVE  \E i \in 1 .. n : q[i] = p[j] /\ i = IF j < m THEN j ELSE j - 1
  <2> HIDE DEF n
  <2>1. CASE j < m
    <3>1. j \in 1 .. n
      BY <1>1, <2>1
    <3>2. QED
      BY <2>1, <3>1 DEF n
  <2>2. CASE ~ (j < m)
    <3>1. j - 1 \in 1 .. n /\ ~ (j - 1 < m) /\ (j - 1) + 1 = j
      BY <1>1, <1>2, <2>2
    <3>2. q[j - 1] = p[j]
      BY <3>1 DEF n
    <3>3. QED
      BY <2>2, <3>1, <3>2
  <2>3. QED
    BY <2>1, <2>2
<1>3. ASSUME NEW i \in 1 .. n, q[i].id > 0, \A j \in 1 .. n : j > i => q[j].id # q[i].id
      PROVE  q[i].healthy = (k[q[i].id] # 0)
  <2> DEFINE x == IF i < m THEN i ELSE i + 1
  <2> HIDE DEF n
  <2>1. x \in 1 .. n + 1 /\ q[i] = p[x]
    BY <1>1 DEF n
  <2>2. ASSUME NEW j \in 1 .. n + 1, j > x PROVE p[j].id # p[x].id
    <3>1. CASE j = m
      BY <1>3, <2>1, <3>1
    <3>2. CASE j # m
      <4>1. PICK y \in 1 .. n : q[y] = p[j] /\ y = IF j < m THEN j ELSE j - 1
        BY <1>2, <3>2
      <4>2. y > i
        BY <1>1, <2>2, <3>2, <4>1
      <4>3. QED
        BY <1>3, <2>1, <4>1, <4>2
    <3>3. QED
      BY <3>1, <3>2
  <2> HIDE DEF x
  <2>3. QED
    BY <1>1, <1>3, <2>1, <2>2 DEF TellsRight
<1>4. ASSUME NEW b \in Brokers, b > 0, \A i \in 1 .. n : q[i].id # b
      PROVE  b \in s <=> k[b] # 0
  <2> HIDE DEF n
  <2>1. ASSUME NEW j \in 1 .. n + 1 PROVE p[j].id # b
    BY <1>2, <1>4, <2>1
  <2>2. QED
    BY <1>1, <1>4, <2>1 DEF TellsRight
<1>5. QED
  BY <1>3, <1>4 DEF TellsRight

\* A change of the registry with its event.
LEMMA NotifyKeepsEvents ==
  ASSUME EventInv, key \in [Brokers -> Nat], NEW b \in Brokers, NEW v \in Nat,
         key' = [key EXCEPT ![b] = v], Notify(b, v # 0),
         UNCHANGED <<channel, watcher, believed>>
  PROVE  EventInv'
<1> DEFINE e == [id |-> b, healthy |-> v # 0]
           p == channel \o stream
<1>1. e \in BrokerHealthEvent /\ e.id = b /\ e.healthy = (v # 0)
  BY DEF BrokerHealthEvent
<1>2. /\ channel \in Seq(BrokerHealthEvent) /\ stream \in Seq(BrokerHealthEvent)
      /\ p \in Seq(BrokerHealthEvent) /\ believed \subseteq Brokers
      /\ watcher # NoBroker => TellsRight(p, key, believed)
  BY ConcatProperties DEF EventInv
<1>3. CASE watcher = NoBroker
  <2>1. channel = <<>> /\ stream = <<>> /\ stream' = <<>> /\ channel' = <<>>
    BY <1>3 DEF EventInv, Notify
  <2>2. QED
    BY <1>2, <1>3, <2>1 DEF EventInv
<1>4. CASE watcher # NoBroker
  <2>1. stream' = Append(stream, e)
    BY <1>4 DEF Notify
  <2> HIDE DEF e
  <2>2. stream' \in Seq(BrokerHealthEvent)
    BY <1>1, <1>2, <2>1, AppendProperties
  <2>3. channel \o Append(stream, e) = Append(p, e)
    <3> DEFINE s == channel \o Append(stream, e)
               t == Append(p, e)
    <3>1. /\ s \in Seq(BrokerHealthEvent) /\ t \in Seq(BrokerHealthEvent)
          /\ Len(s) = Len(channel) + (Len(stream) + 1) /\ Len(t) = (Len(channel) + Len(stream)) + 1
          /\ Len(channel) \in Nat /\ Len(stream) \in Nat
      BY <1>1, <1>2, AppendProperties, ConcatProperties, LenProperties
    <3>2. ASSUME NEW i \in 1 .. Len(s) PROVE s[i] = t[i]
      <4> DEFINE m == Len(channel)
                 n == Len(stream)
                 w == Append(stream, e)
      <4>1. /\ m \in Nat /\ n \in Nat /\ Len(p) = m + n
            /\ w \in Seq(BrokerHealthEvent) /\ Len(w) = n + 1
            /\ w[n + 1] = e /\ \A j \in 1 .. n : w[j] = stream[j]
        BY <1>1, <1>2, <3>1, AppendProperties, ConcatProperties
      <4> HIDE DEF w
      <4>2. \A j \in 1 .. m + Len(w) :
              (channel \o w)[j] = IF j <= m THEN channel[j] ELSE w[j - m]
        BY <1>2, <4>1, ConcatProperties
      <4>3. Append(p, e)[(m + n) + 1] = e /\ \A j \in 1 .. m + n : Append(p, e)[j] = p[j]
        <5> HIDE DEF p
        <5>1. QED
          BY <1>1, <1>2, <4>1, AppendProperties
      <4>4. \A j \in 1 .. m + n : p[j] = IF j <= m THEN channel[j] ELSE stream[j - m]
        BY <1>2, ConcatProperties
      <4>5. s = channel \o w /\ i \in 1 .. (m + n) + 1 /\ i \in 1 .. m + Len(w)
        BY <3>1, <4>1 DEF w
      <4> HIDE DEF m, n, s, p
      <4>6. CASE i = (m + n) + 1
        <5>1. i - m = n + 1 /\ ~ (i <= m)
          BY <4>1, <4>6
        <5>2. s[i] = w[n + 1]
          BY <4>2, <4>5, <5>1
        <5>3. QED
          BY <4>1, <4>3, <4>6, <5>2
      <4>7. CASE i # (m + n) + 1
        <5>1. i \in 1 .. m + n /\ (i > m => i - m \in 1 .. n)
          BY <4>1, <4>5, <4>7
        <5>2. s[i] = IF i <= m THEN channel[i] ELSE w[i - m]
          BY <4>2, <4>5
        <5>3. i > m => w[i - m] = stream[i - m]
          BY <4>1, <5>1
        <5>4. t[i] = IF i <= m THEN channel[i] ELSE stream[i - m]
          BY <4>3, <4>4, <5>1
        <5> HIDE DEF t
        <5>5. QED
          BY <4>1, <5>1, <5>2, <5>3, <5>4
      <4>8. QED
        BY <4>6, <4>7
    <3> HIDE DEF s, t
    <3>3. s = t
      BY <3>1, <3>2, SeqEqual
    <3>4. QED
      BY <3>3 DEF s, t
  <2>4. TellsRight(Append(p, e), key', believed)
    <3> HIDE DEF p
    <3>1. TellsRight(Append(p, e), [key EXCEPT ![e.id] = v], believed)
      BY <1>1, <1>2, <1>4, TellsRightAfterEvent
    <3>2. QED
      BY <1>1, <3>1
  <2>5. channel' \o stream' = Append(p, e)
    BY <2>1, <2>3
  <2>6. QED
    BY <1>2, <1>4, <2>2, <2>4, <2>5 DEF EventInv
<1>5. QED
  BY <1>3, <1>4

\* No event and no change of the keys.
LEMMA QuietKeepsEvents ==
  ASSUME EventInv, UNCHANGED <<channel, stream, key, watcher, believed>>
  PROVE  EventInv'
BY DEF EventInv

\* Who begins to watch looks at the registry.
LEMMA WatchKeepsEvents ==
  ASSUME EventInv, watcher = NoBroker, believed' = Registered,
         UNCHANGED <<channel, stream, key>>
  PROVE  EventInv'
<1>1. channel = <<>> /\ stream = <<>> /\ Len(<<>> \o <<>>) = 0
  BY EmptySeq, ConcatProperties DEF EventInv
<1>2. TellsRight(<<>> \o <<>>, key, Registered)
  BY <1>1 DEF TellsRight, Registered
<1>3. QED
  BY <1>1, <1>2 DEF EventInv, Registered

\* The process that watched has ended, and what it was sent with it.
LEMMA NoWatcherKeepsEvents ==
  ASSUME channel' = <<>>, stream' = <<>>, watcher' = NoBroker, believed' \subseteq Brokers
  PROVE  EventInv'
<1>1. <<>> \in Seq(BrokerHealthEvent)
  BY EmptySeq
<1>2. QED
  BY <1>1 DEF EventInv

\* The goroutine and the watcher pass the events on in order.
LEMMA PassingKeepsEvents ==
  ASSUME EventInv, Forward \/ Receive
  PROVE  EventInv'
<1>1. /\ channel \in Seq(BrokerHealthEvent) /\ stream \in Seq(BrokerHealthEvent)
      /\ UNCHANGED <<key, watcher>>
      /\ channel # <<>> \/ stream # <<>>
      /\ watcher # NoBroker => TellsRight(channel \o stream, key, believed)
      /\ watcher = NoBroker => channel = <<>> /\ stream = <<>>
      /\ Len(channel) \in Nat /\ Len(stream) \in Nat /\ believed \subseteq Brokers
  BY LenProperties DEF EventInv, Forward, TakeChange, Receive, processVars, keyVars
<1> DEFINE m == Len(channel)
           n == Len(stream)
           p == channel \o stream
<1>2. /\ p \in Seq(BrokerHealthEvent) /\ Len(p) = m + n
      /\ \A i \in 1 .. m + n : p[i] = IF i <= m THEN channel[i] ELSE stream[i - m]
  BY <1>1, ConcatProperties
<1>3. TellsRight(p, key, believed) /\ watcher' # NoBroker /\ watcher' = watcher /\ key' = key
  BY <1>1
<1>4. CASE Forward /\ HasId(Head(stream))
  <2>1. /\ stream # <<>> /\ channel' = Append(channel, Head(stream)) /\ stream' = Tail(stream)
        /\ believed' = believed
    BY <1>4 DEF Forward, TakeChange
  <2>2. /\ stream' \in Seq(BrokerHealthEvent) /\ Len(stream') = n - 1
        /\ \A i \in 1 .. n - 1 : stream'[i] = stream[i + 1]
        /\ Head(stream) \in BrokerHealthEvent /\ Head(stream) = stream[1] /\ n > 0
    BY <1>1, <2>1, HeadTailProperties, EmptySeq
  <2>3. /\ channel' \in Seq(BrokerHealthEvent) /\ Len(channel') = m + 1
        /\ channel'[m + 1] = stream[1] /\ \A i \in 1 .. m : channel'[i] = channel[i]
    BY <1>1, <2>1, <2>2, AppendProperties
  <2> DEFINE q == channel' \o stream'
  <2>4. /\ q \in Seq(BrokerHealthEvent) /\ Len(q) = (m + 1) + (n - 1)
        /\ \A i \in 1 .. (m + 1) + (n - 1) :
             q[i] = IF i <= m + 1 THEN channel'[i] ELSE stream'[i - (m + 1)]
    <3>1. /\ q \in Seq(BrokerHealthEvent) /\ Len(q) = Len(channel') + Len(stream')
          /\ \A i \in 1 .. Len(channel') + Len(stream') :
               q[i] = IF i <= Len(channel') THEN channel'[i] ELSE stream'[i - Len(channel')]
      BY <2>2, <2>3, ConcatProperties
    <3> HIDE DEF q
    <3>2. QED
      BY <2>2, <2>3, <3>1
  <2> HIDE DEF m, n, p, q
  <2>5. \A i \in 1 .. m + n : q[i] = p[i]
    <3> SUFFICES ASSUME NEW i \in 1 .. m + n PROVE q[i] = p[i]
      OBVIOUS
    <3>1. m \in Nat /\ n \in Nat /\ i \in 1 .. (m + 1) + (n - 1)
      BY <1>1 DEF m, n
    <3>2. CASE i <= m
      <4>1. i \in 1 .. m /\ i <= m + 1
        BY <3>1, <3>2
      <4>2. QED
        BY <1>2, <2>3, <2>4, <3>1, <3>2, <4>1
    <3>3. CASE i = m + 1
      BY <1>2, <2>2, <2>3, <2>4, <3>1, <3>3
    <3>4. CASE i > m + 1
      <4>1. i - (m + 1) \in 1 .. n - 1 /\ (i - (m + 1)) + 1 = i - m
        BY <3>1, <3>4
      <4>2. stream'[i - (m + 1)] = stream[i - m]
        BY <2>2, <4>1
      <4>3. QED
        BY <1>2, <2>4, <3>1, <3>4, <4>2
    <3>5. QED
      BY <3>1, <3>2, <3>3, <3>4
  <2>6. q = p
    <3>1. Len(q) = Len(p) /\ Len(q) = m + n
      BY <1>1, <1>2, <2>4 DEF m, n
    <3>2. QED
      BY <1>2, <2>4, <2>5, <3>1, SeqEqual
  <2>7. channel' \o stream' = p
    BY <2>6 DEF q
  <2>8. QED
    BY <1>1, <1>3, <2>1, <2>2, <2>3, <2>7 DEF EventInv
<1>5. CASE Forward /\ ~HasId(Head(stream))
  <2>1. /\ stream # <<>> /\ channel' = channel /\ stream' = Tail(stream)
        /\ believed' = believed /\ ~ (Head(stream).id > 0)
    BY <1>5 DEF Forward, TakeChange, HasId
  <2>2. /\ stream' \in Seq(BrokerHealthEvent) /\ Len(stream') = n - 1
        /\ \A i \in 1 .. n - 1 : stream'[i] = stream[i + 1]
        /\ Head(stream) = stream[1] /\ n > 0
    BY <1>1, <2>1, HeadTailProperties, EmptySeq
  <2> DEFINE q == channel' \o stream'
  <2>3. /\ q \in Seq(BrokerHealthEvent) /\ Len(q) = m + (n - 1)
        /\ \A i \in 1 .. m + (n - 1) :
             q[i] = IF i <= m THEN channel[i] ELSE stream'[i - m]
    BY <1>1, <2>1, <2>2, ConcatProperties
  <2> HIDE DEF m, n, p, q
  <2>4. m \in Nat /\ n \in Nat
    BY <1>1 DEF m, n
  <2>5. m + 1 \in 1 .. Len(p) /\ ~ (p[m + 1].id > 0) /\ Len(p) = Len(q) + 1
    <3>1. m + 1 \in 1 .. m + n /\ ~ (m + 1 <= m) /\ (m + 1) - m = 1
      BY <2>2, <2>4
    <3>2. p[m + 1] = stream[1]
      BY <1>2, <3>1
    <3>3. Len(p) = Len(q) + 1
      BY <1>2, <2>3, <2>4
    <3>4. QED
      BY <1>2, <2>1, <2>2, <3>1, <3>2, <3>3
  <2>6. ASSUME NEW i \in 1 .. Len(q) PROVE q[i] = p[IF i < m + 1 THEN i ELSE i + 1]
    <3>1. i \in 1 .. m + (n - 1) /\ i \in 1 .. m + n /\ i + 1 \in 1 .. m + n
      BY <2>2, <2>3, <2>4
    <3>2. CASE i <= m
      <4>1. i < m + 1 /\ q[i] = channel[i] /\ p[i] = channel[i]
        BY <1>2, <2>3, <2>4, <3>1, <3>2
      <4>2. QED
        BY <4>1
    <3>3. CASE ~ (i <= m)
      <4>1. /\ i - m \in 1 .. n - 1 /\ (i - m) + 1 = (i + 1) - m
            /\ ~ (i < m + 1) /\ ~ (i + 1 <= m)
        BY <2>4, <3>1, <3>3
      <4>2. q[i] = stream'[i - m] /\ stream'[i - m] = stream[(i + 1) - m]
        BY <2>2, <2>3, <3>1, <3>3, <4>1
      <4>3. p[i + 1] = stream[(i + 1) - m]
        BY <1>2, <3>1, <4>1
      <4>4. QED
        BY <4>1, <4>2, <4>3
    <3>4. QED
      BY <3>2, <3>3
  <2>7. TellsRight(q, key, believed)
    BY <1>2, <1>3, <2>3, <2>5, <2>6, TellsRightAfterDrop
  <2>8. TellsRight(channel' \o stream', key', believed')
    BY <1>3, <2>1, <2>7 DEF q
  <2>9. QED
    BY <1>1, <1>3, <2>1, <2>2, <2>8 DEF EventInv
<1>6. CASE Receive
  <2>1. /\ channel # <<>> /\ channel' = Tail(channel) /\ stream' = stream
        /\ believed' = IF Head(channel).healthy THEN believed \union {Head(channel).id}
                                                ELSE believed \ {Head(channel).id}
    BY <1>6 DEF Receive
  <2>2. /\ channel' \in Seq(BrokerHealthEvent) /\ Len(channel') = m - 1 /\ m > 0
        /\ Head(channel) = channel[1] /\ Head(channel) \in BrokerHealthEvent
        /\ \A i \in 1 .. m - 1 : channel'[i] = channel[i + 1]
    BY <1>1, <2>1, HeadTailProperties, EmptySeq
  <2> DEFINE q == channel' \o stream'
  <2>3. /\ q \in Seq(BrokerHealthEvent) /\ Len(q) = (m - 1) + n
        /\ \A i \in 1 .. (m - 1) + n : q[i] = IF i <= m - 1 THEN channel'[i]
                                                           ELSE stream[i - (m - 1)]
    BY <1>1, <2>1, <2>2, ConcatProperties
  <2> HIDE DEF m, n, p, q
  <2>4. m \in Nat /\ n \in Nat
    BY <1>1 DEF m, n
  <2>5. ASSUME NEW i \in 1 .. Len(q) PROVE q[i] = p[i + 1]
    <3>1. i \in 1 .. (m - 1) + n /\ i + 1 \in 1 .. m + n
      BY <2>2, <2>3, <2>4
    <3>2. CASE i <= m - 1
      <4>1. i \in 1 .. m - 1 /\ i + 1 <= m
        BY <2>4, <3>1, <3>2
      <4>2. QED
        BY <1>2, <2>2, <2>3, <3>1, <3>2, <4>1
    <3>3. CASE ~ (i <= m - 1)
      <4>1. i - (m - 1) = (i + 1) - m /\ ~ (i + 1 <= m)
        BY <2>4, <3>1, <3>3
      <4>2. QED
        BY <1>2, <2>3, <2>4, <3>1, <3>3, <4>1
    <3>4. QED
      BY <3>2, <3>3
  <2>6. Len(p) = Len(q) + 1
    BY <1>2, <2>2, <2>3, <2>4
  <2>7. p[1] = channel[1]
    <3>1. 1 \in 1 .. m + n /\ 1 <= m
      BY <2>2, <2>4
    <3>2. QED
      BY <1>2, <3>1
  <2>8. TellsRight(q, key, IF p[1].healthy THEN believed \union {p[1].id}
                                          ELSE believed \ {p[1].id})
    BY <1>2, <1>3, <2>3, <2>5, <2>6, TellsRightAfterTake
  <2>9. believed' = IF p[1].healthy THEN believed \union {p[1].id} ELSE believed \ {p[1].id}
    BY <2>1, <2>2, <2>7
  <2>10. believed' \subseteq Brokers
    BY <1>1, <2>1, <2>2 DEF BrokerHealthEvent
  <2>11. TellsRight(channel' \o stream', key', believed')
    BY <1>3, <2>1, <2>8, <2>9 DEF q
  <2>12. QED
    BY <1>1, <1>3, <2>1, <2>2, <2>10, <2>11 DEF EventInv
<1>7. QED
  BY <1>4, <1>5, <1>6

-----------------------------------------------------------------------------
(* EtcdCoordinator: registrations and elections.                           *)

ProcessStates == {"down", "started", "serving", "leaving"}

Elected ==
  [at : {"idle", "leader", "isr", "try", "fallback", "swap", "put"},
   host : LeaderEntry, todo : Seq(Brokers), cand : LeaderEntry, told : LeaderEntry]

EtcdData ==
  /\ proc \in [Brokers -> ProcessStates] /\ starts \in [Brokers -> Nat]
  /\ live \subseteq Brokers \X Nat /\ key \in [Brokers -> Nat]
  /\ leader \in LeaderEntry /\ isr \in Seq(Brokers) /\ wins \subseteq Brokers
  /\ election \in [Elections -> Elected] /\ faults \in Nat
  /\ sighted \in [Elections -> SUBSET Brokers]

\* A broker that runs was started; without faults its lease is alive, and its
\* registration is attached to it while it serves.
LeaseInv(b) ==
  /\ proc[b] # "down" => starts[b] # 0
  /\ faults = 0 /\ proc[b] # "down" => Alive(b)
  /\ faults = 0 /\ proc[b] = "serving" => key[b] = starts[b]

\* An election in state e that has sighted the brokers s: those that are
\* registered are among them, and so is the one it is about to answer with.
Sights(e, s, k) ==
  /\ e.at # "idle" => \A b \in Brokers : k[b] # 0 => b \in s
  /\ e.at = "leader" => e.cand \in Brokers
  /\ e.at \in {"swap", "put"} => e.cand \in Brokers \intersect s

\* While there is no leader no swap has been won, and there never are two winners.
WinsInv ==
  /\ leader = NoBroker => wins = {}
  /\ \E b : wins \subseteq {b}

EtcdInv ==
  /\ EtcdData /\ EventInv /\ WinsInv
  /\ \A b \in Brokers : LeaseInv(b)
  /\ \A c \in Elections : Sights(election[c], sighted[c], key)

\* What the two coordinators of one package have to do with each other is nothing:
\* this is etcd's part of CoordinatorsSound.
RegistrySound == ServingIsRegistered /\ OneSwapWins /\ PendingEventsEndRight

\* The invariant implies it.
LEMMA EtcdInvSound == EtcdInv => RegistrySound
<1> SUFFICES ASSUME EtcdInv PROVE RegistrySound
  OBVIOUS
<1>1. ServingIsRegistered
  BY DEF EtcdInv, LeaseInv, ServingIsRegistered
<1>2. OneSwapWins
  <2>1. PICK b : wins \subseteq {b}
    BY DEF EtcdInv, WinsInv
  <2>2. CASE wins = {}
    <3>1. Cardinality(wins) = 0
      BY <2>2, FS_EmptySet
    <3>2. QED
      BY <3>1 DEF OneSwapWins
  <2>3. CASE wins = {b}
    <3>1. Cardinality(wins) = 1
      BY <2>3, FS_Singleton
    <3>2. QED
      BY <3>1 DEF OneSwapWins
  <2>4. QED
    BY <2>1, <2>2, <2>3
<1>3. PendingEventsEndRight
  <2> SUFFICES ASSUME watcher # NoBroker PROVE PendingEventsEndRight
    BY DEF PendingEventsEndRight, EventsEndRight
  <2> DEFINE coming == channel \o stream
  <2>1. coming \in Seq(BrokerHealthEvent) /\ TellsRight(coming, key, believed)
    BY ConcatProperties DEF EtcdInv, EventInv
  <2>2. DOMAIN coming = 1 .. Len(coming)
    BY <2>1, LenProperties
  <2> HIDE DEF coming
  <2>3. ASSUME NEW i \in DOMAIN coming, coming[i].id \in {b \in Brokers : b > 0},
               \A j \in DOMAIN coming : j > i => coming[j].id # coming[i].id
        PROVE  coming[i].healthy = (key[coming[i].id] # 0)
    BY <2>1, <2>2, <2>3 DEF TellsRight
  <2>4. ASSUME NEW b \in {x \in Brokers : x > 0},
               \A i \in DOMAIN coming : coming[i].id # b
        PROVE  b \in believed <=> key[b] # 0
    BY <2>1, <2>2, <2>4 DEF TellsRight
  <2>5. QED
    BY <2>3, <2>4 DEF PendingEventsEndRight, EventsEndRight, coming
<1>4. QED
  BY <1>1, <1>2, <1>3 DEF RegistrySound

\* At the start no broker runs and etcd has no key but perhaps an ISR.
LEMMA InitEtcdInv == EtcdInit => EtcdInv
<1> SUFFICES ASSUME EtcdInit PROVE EtcdInv
  OBVIOUS
<1>1. Idle \in Elected /\ Idle.at = "idle"
  BY EmptySeq DEF Idle, Elected, LeaderEntry
<1>2. isr \in Seq(Brokers)
  BY EmptySeq, CoordinatorAssumption DEF EtcdInit
<1>3. EtcdData
  BY <1>1, <1>2 DEF EtcdInit, EtcdData, LeaderEntry, ProcessStates
<1>4. EventInv
  <2>1. <<>> \in Seq(BrokerHealthEvent)
    BY EmptySeq
  <2>2. QED
    BY <2>1 DEF EtcdInit, EventInv
<1>5. ASSUME NEW b \in Brokers PROVE LeaseInv(b)
  BY DEF EtcdInit, LeaseInv
<1>6. ASSUME NEW c \in Elections PROVE Sights(election[c], sighted[c], key)
  BY <1>1 DEF EtcdInit, Sights
<1>7. QED
  BY <1>3, <1>4, <1>5, <1>6 DEF EtcdInit, EtcdInv, WinsInv

-----------------------------------------------------------------------------
\* The kinds of steps.  Registrations stay or go, and no election moves: ...
LEMMA RegistryShrinks ==
  ASSUME EtcdInv, EtcdData', EventInv', \A b \in Brokers : LeaseInv(b)',
         \A b \in Brokers : key'[b] # 0 => key[b] # 0,
         UNCHANGED <<election, sighted, leader, wins>>
  PROVE  EtcdInv' /\ AnswerWasRegistered
<1>1. ASSUME NEW c \in Elections PROVE Sights(election[c], sighted[c], key)'
  BY DEF EtcdInv, Sights
<1>2. AnswerWasRegistered
  BY DEF AnswerWasRegistered
<1>3. QED
  BY <1>1, <1>2 DEF EtcdInv, WinsInv

\* ... a broker puts its registration under its lease, and every election under way
\* counts it as sighted: ...
LEMMA RegistryGrows ==
  ASSUME EtcdInv, NEW b \in Brokers, PutBroker(b), proc[b] # "down", proc'[b] # "down",
         proc' \in [Brokers -> ProcessStates],
         \A x \in Brokers : x # b => proc'[x] = proc[x],
         faults' \in Nat, faults' = 0 => faults = 0,
         UNCHANGED <<starts, live, election, channel, watcher, believed, leader, isr, wins>>
  PROVE  EtcdInv' /\ AnswerWasRegistered
<1>1. /\ EtcdData /\ EventInv /\ WinsInv
      /\ key \in [Brokers -> Nat] /\ starts \in [Brokers -> Nat]
      /\ election \in [Elections -> Elected]
      /\ sighted \in [Elections -> SUBSET Brokers] /\ starts[b] # 0
  BY DEF EtcdInv, EtcdData, LeaseInv
<1>2. /\ key' = [key EXCEPT ![b] = starts[b]]
      /\ sighted' = [c \in Elections |-> IF election[c].at = "idle" THEN {}
                                        ELSE sighted[c] \union {b}]
      /\ Notify(b, TRUE)
  BY DEF PutBroker
<1>3. starts[b] \in Nat /\ (starts[b] # 0) = TRUE
  BY <1>1
<1>4. EventInv'
  BY <1>1, <1>2, <1>3, NotifyKeepsEvents
<1>5. EtcdData'
  <2>1. key' \in [Brokers -> Nat] /\ sighted' \in [Elections -> SUBSET Brokers]
    BY <1>1, <1>2, <1>3
  <2>2. QED
    BY <1>1, <2>1 DEF EtcdData
<1>6. ASSUME NEW x \in Brokers PROVE LeaseInv(x)'
  <2>1. LeaseInv(x) /\ LeaseInv(b)
    BY DEF EtcdInv
  <2>2. key'[x] = IF x = b THEN starts[b] ELSE key[x]
    BY <1>1, <1>2
  <2>3. CASE x = b
    BY <2>1, <2>2, <2>3 DEF LeaseInv, Alive
  <2>4. CASE x # b
    BY <2>1, <2>2, <2>4 DEF LeaseInv, Alive
  <2>5. QED
    BY <2>3, <2>4
<1>7. ASSUME NEW c \in Elections PROVE Sights(election[c], sighted[c], key)'
  <2>1. Sights(election[c], sighted[c], key)
    BY DEF EtcdInv
  <2>2. \A x \in Brokers : key'[x] = IF x = b THEN starts[b] ELSE key[x]
    BY <1>1, <1>2
  <2>3. CASE election[c].at = "idle"
    BY <2>3 DEF Sights
  <2>4. CASE election[c].at # "idle"
    <3>1. sighted'[c] = sighted[c] \union {b}
      BY <1>2, <2>4
    <3>2. QED
      BY <2>1, <2>2, <2>4, <3>1 DEF Sights
  <2>5. QED
    BY <2>3, <2>4
<1>8. AnswerWasRegistered
  BY DEF AnswerWasRegistered
<1>9. QED
  BY <1>1, <1>4, <1>5, <1>6, <1>7, <1>8 DEF EtcdInv, WinsInv

\* ... a registration is deleted: ...
LEMMA DeletionKeeps ==
  ASSUME EventInv, key \in [Brokers -> Nat], NEW b \in Brokers, DeleteBroker(b),
         UNCHANGED <<channel, watcher, believed>>
  PROVE  /\ EventInv' /\ key' \in [Brokers -> Nat] /\ sighted' = sighted
         /\ \A x \in Brokers : key'[x] = IF x = b THEN 0 ELSE key[x]
<1>1. key' = [key EXCEPT ![b] = 0] /\ sighted' = sighted
  BY DEF DeleteBroker
<1>2. CASE key[b] # 0
  <2>1. Notify(b, FALSE) /\ (0 # 0) = FALSE /\ 0 \in Nat
    BY <1>2 DEF DeleteBroker
  <2>2. EventInv'
    BY <1>1, <2>1, NotifyKeepsEvents
  <2>3. QED
    BY <1>1, <2>2
<1>3. CASE key[b] = 0
  <2>1. stream' = stream /\ key' = key
    BY <1>1, <1>3 DEF DeleteBroker
  <2>2. EventInv'
    BY <2>1, QuietKeepsEvents
  <2>3. QED
    BY <1>1, <2>2
<1>4. QED
  BY <1>2, <1>3

\* ... a process ends, and its elections with it: ...
LEMMA ProcessEnds ==
  ASSUME EtcdInv, NEW b, EndProcess(b), EventInv', key' \in [Brokers -> Nat],
         live' \subseteq live, faults' \in Nat, faults' = 0 => faults = 0,
         \A x \in Brokers : key'[x] = key[x] \/ (key'[x] = 0 /\ x = b),
         \A x \in Brokers : Alive(x) /\ x # b => Alive(x)',
         leader' \in LeaderEntry, wins' \subseteq Brokers, WinsInv',
         UNCHANGED <<starts, isr>>
  PROVE  EtcdInv' /\ AnswerWasRegistered
<1>1. /\ EtcdData /\ proc' = [proc EXCEPT ![b] = "down"]
      /\ election' = [c \in Elections |-> IF election[c].host = b THEN Idle ELSE election[c]]
      /\ sighted' = [c \in Elections |-> IF election[c].host = b THEN {} ELSE sighted[c]]
      /\ proc \in [Brokers -> ProcessStates]
      /\ election \in [Elections -> Elected] /\ sighted \in [Elections -> SUBSET Brokers]
  BY DEF EtcdInv, EtcdData, EndProcess
<1>2. Idle \in Elected /\ Idle.at = "idle" /\ Idle.told = NoBroker
  BY EmptySeq DEF Idle, Elected, LeaderEntry
<1>3. /\ proc' \in [Brokers -> ProcessStates]
      /\ \A x \in Brokers : proc'[x] = IF x = b THEN "down" ELSE proc[x]
  BY <1>1 DEF ProcessStates
<1>4. EtcdData'
  <2>1. election' \in [Elections -> Elected] /\ sighted' \in [Elections -> SUBSET Brokers]
    BY <1>1, <1>2
  <2>2. QED
    BY <1>1, <1>3, <2>1 DEF EtcdData
<1>5. ASSUME NEW x \in Brokers PROVE LeaseInv(x)'
  <2>1. LeaseInv(x)
    BY DEF EtcdInv
  <2>2. CASE x = b
    BY <1>3, <2>2 DEF LeaseInv
  <2>3. CASE x # b
    <3>1. proc'[x] = proc[x] /\ key'[x] = key[x] /\ starts'[x] = starts[x]
      BY <1>3, <2>3
    <3>2. QED
      BY <2>1, <2>3, <3>1 DEF LeaseInv
  <2>4. QED
    BY <2>2, <2>3
<1>6. ASSUME NEW c \in Elections PROVE Sights(election[c], sighted[c], key)'
  <2>1. Sights(election[c], sighted[c], key)
    BY DEF EtcdInv
  <2>2. CASE election[c].host = b
    <3>1. election'[c].at = "idle"
      BY <1>1, <1>2, <2>2
    <3>2. QED
      BY <3>1 DEF Sights
  <2>3. CASE election[c].host # b
    <3>1. election'[c] = election[c] /\ sighted'[c] = sighted[c]
      BY <1>1, <2>3
    <3>2. \A x \in Brokers : key'[x] # 0 => key[x] # 0
      OBVIOUS
    <3>3. QED
      BY <2>1, <3>1, <3>2 DEF Sights
  <2>4. QED
    BY <2>2, <2>3
<1>7. AnswerWasRegistered
  BY <1>1, <1>2 DEF AnswerWasRegistered
<1>8. QED
  BY <1>4, <1>5, <1>6, <1>7 DEF EtcdInv, WinsInv

\* ... an election goes on, or answers with a broker that it has sighted.
LEMMA ElectionMoves ==
  ASSUME EtcdInv, NEW c \in Elections, NEW e \in Elected, NEW s \in SUBSET Brokers,
         election' = [election EXCEPT ![c] = e], sighted' = [sighted EXCEPT ![c] = s],
         Sights(e, s, key),
         election[c].at # "idle" /\ e.at = "idle" => e.told \in sighted[c] \union {NoBroker},
         UNCHANGED processVars, UNCHANGED watchVars,
         isr' \in Seq(Brokers), leader' \in LeaderEntry, wins' \subseteq Brokers, WinsInv',
         faults' \in Nat, faults' = 0 => faults = 0
  PROVE  EtcdInv' /\ AnswerWasRegistered
<1>1. /\ EtcdData /\ EventInv /\ UNCHANGED <<proc, starts, live, key>>
      /\ UNCHANGED <<stream, channel, watcher, believed>>
      /\ election \in [Elections -> Elected] /\ sighted \in [Elections -> SUBSET Brokers]
  BY DEF EtcdInv, EtcdData, processVars, watchVars
<1>2. EtcdData'
  BY <1>1 DEF EtcdData
<1>3. EventInv'
  BY <1>1, QuietKeepsEvents
<1>4. ASSUME NEW b \in Brokers PROVE LeaseInv(b)'
  <2>1. LeaseInv(b)
    BY DEF EtcdInv
  <2>2. QED
    BY <1>1, <2>1 DEF LeaseInv, Alive
<1>5. ASSUME NEW d \in Elections PROVE Sights(election[d], sighted[d], key)'
  <2>1. Sights(election[d], sighted[d], key)
    BY DEF EtcdInv
  <2>2. CASE d = c
    BY <1>1, <2>2 DEF Sights
  <2>3. CASE d # c
    BY <1>1, <2>1, <2>3 DEF Sights
  <2>4. QED
    BY <2>2, <2>3
<1>6. AnswerWasRegistered
  BY <1>1 DEF AnswerWasRegistered
<1>7. QED
  BY <1>2, <1>3, <1>4, <1>5, <1>6 DEF EtcdInv

\* An election that goes on keeps what it has sighted, ...
LEMMA GotoKeeps ==
  ASSUME EtcdInv, NEW c \in Elections, NEW todo \in Seq(Brokers), NEW cand \in LeaderEntry,
         NEW at \in {"isr", "try", "fallback", "swap", "put"}, Goto(c, at, todo, cand),
         election[c].at # "idle", at \in {"swap", "put"} => cand \in Brokers /\ key[cand] # 0,
         ElectionOnly, UNCHANGED <<leader, wins>>, faults' \in Nat, faults' = 0 => faults = 0
  PROVE  EtcdInv' /\ AnswerWasRegistered
<1>1. /\ EtcdData /\ WinsInv /\ Sights(election[c], sighted[c], key)
      /\ sighted \in [Elections -> SUBSET Brokers] /\ election[c] \in Elected
      /\ sighted[c] \in SUBSET Brokers
      /\ isr \in Seq(Brokers) /\ leader \in LeaderEntry /\ wins \subseteq Brokers
  BY DEF EtcdInv, EtcdData
<1> DEFINE e == [election[c] EXCEPT !.at = at, !.todo = todo, !.cand = cand]
<1>2. e \in Elected /\ e.at = at /\ e.cand = cand
  BY <1>1 DEF Elected
<1>3. election' = [election EXCEPT ![c] = e] /\ sighted' = [sighted EXCEPT ![c] = sighted[c]]
  BY <1>1 DEF Goto
<1> HIDE DEF e
<1>4. Sights(e, sighted[c], key)
  BY <1>1, <1>2 DEF Sights
<1>5. /\ UNCHANGED processVars /\ UNCHANGED watchVars /\ isr' \in Seq(Brokers)
      /\ leader' \in LeaderEntry /\ wins' \subseteq Brokers /\ WinsInv'
  BY <1>1 DEF ElectionOnly, WinsInv
<1>6. e.at # "idle"
  BY <1>2
<1>7. QED
  BY <1>1, <1>2, <1>3, <1>4, <1>5, <1>6, ElectionMoves

\* ... and one that ends answers with one of the sighted, or with nobody.
LEMMA ReturnKeeps ==
  ASSUME EtcdInv, NEW c \in Elections, NEW b \in LeaderEntry, Return(c, b),
         b # NoBroker => b \in sighted[c], ElectionOnly,
         leader' \in LeaderEntry, wins' \subseteq Brokers, WinsInv',
         faults' \in Nat, faults' = 0 => faults = 0
  PROVE  EtcdInv' /\ AnswerWasRegistered
<1>1. /\ EtcdData /\ election[c] \in Elected /\ isr \in Seq(Brokers)
      /\ sighted \in [Elections -> SUBSET Brokers]
  BY DEF EtcdInv, EtcdData
<1> DEFINE e == [Idle EXCEPT !.told = b, !.host = election[c].host]
<1>2. Idle \in Elected /\ Idle.at = "idle"
  BY EmptySeq DEF Idle, Elected, LeaderEntry
<1>3. e \in Elected /\ e.at = "idle" /\ e.told = b
  BY <1>1, <1>2 DEF Elected
<1>4. election' = [election EXCEPT ![c] = e] /\ sighted' = [sighted EXCEPT ![c] = {}]
  BY DEF Return
<1> HIDE DEF e
<1>5. Sights(e, {}, key)
  BY <1>3 DEF Sights
<1>6. UNCHANGED processVars /\ UNCHANGED watchVars /\ isr' \in Seq(Brokers)
  BY <1>1 DEF ElectionOnly
<1>7. {} \in SUBSET Brokers
  OBVIOUS
<1>8. QED
  BY <1>3, <1>4, <1>5, <1>6, <1>7, ElectionMoves

\* What every request of an election knows.
LEMMA ElectionFacts ==
  ASSUME EtcdInv, NEW c \in Elections
  PROVE  /\ election[c] \in Elected /\ Sights(election[c], sighted[c], key)
         /\ sighted[c] \in SUBSET Brokers /\ WinsInv
         /\ leader \in LeaderEntry /\ isr \in Seq(Brokers) /\ wins \subseteq Brokers
         /\ <<>> \in Seq(Brokers) /\ Replicas \in Seq(Brokers) /\ NoBroker \in LeaderEntry
         /\ Brokers \subseteq LeaderEntry /\ NoBroker \notin Brokers
         /\ faults \in Nat
BY EmptySeq, EtcdAssumption, CoordinatorAssumption DEF EtcdInv, EtcdData, LeaderEntry

\* The counter of faults only counts up.
LEMMA FaultsCount ==
  ASSUME EtcdInv, Fault \/ UNCHANGED faults
  PROVE  faults' \in Nat /\ (faults' = 0 => faults = 0) /\ (Fault => faults' # 0)
<1>1. faults \in Nat
  BY DEF EtcdInv, EtcdData
<1>2. QED
  BY <1>1 DEF Fault

\* A compare-and-swap makes its candidate leader, and so the winner, only when nobody
\* is leader.
LEMMA SwapWins ==
  ASSUME EtcdInv, NEW b \in Brokers, Swap(b)
  PROVE  leader' \in LeaderEntry /\ wins' \subseteq Brokers /\ WinsInv'
<1>1. /\ WinsInv /\ leader \in LeaderEntry /\ wins \subseteq Brokers
      /\ Brokers \subseteq LeaderEntry /\ b # NoBroker
  BY CoordinatorAssumption DEF EtcdInv, EtcdData, LeaderEntry
<1>2. CASE leader = NoBroker
  <2>1. wins' = {b} /\ leader' = b
    BY <1>1, <1>2 DEF WinsInv, Swap
  <2>2. QED
    BY <1>1, <2>1 DEF WinsInv
<1>3. CASE leader # NoBroker
  BY <1>1, <1>3 DEF WinsInv, Swap
<1>4. QED
  BY <1>2, <1>3

\* The requests of an election keep the invariant.
LEMMA ElectionKeeps ==
  ASSUME EtcdInv, NEW c \in Elections, ElectionStep(c)
  PROVE  EtcdInv' /\ AnswerWasRegistered
<1> DEFINE e == election[c]
<1>1. /\ e \in Elected /\ Sights(e, sighted[c], key) /\ sighted[c] \in SUBSET Brokers
      /\ WinsInv /\ leader \in LeaderEntry /\ isr \in Seq(Brokers) /\ wins \subseteq Brokers
      /\ <<>> \in Seq(Brokers) /\ Replicas \in Seq(Brokers) /\ NoBroker \in LeaderEntry
      /\ Brokers \subseteq LeaderEntry /\ NoBroker \notin Brokers
  BY ElectionFacts
<1>2. e.todo \in Seq(Brokers) /\ e.cand \in LeaderEntry
  BY <1>1 DEF Elected
<1>3. e.at # "idle" => \A b \in Brokers : key[b] # 0 => b \in sighted[c]
  BY <1>1 DEF Sights
<1>4. CASE CheckLeader(c)
  <2>1. /\ e.at = "leader" /\ ElectionOnly /\ UNCHANGED <<leader, wins>> /\ e.cand \in Brokers
        /\ Fault \/ UNCHANGED faults
    BY <1>1, <1>4 DEF CheckLeader, Healthy, Unhealthy, Sights
  <2>2. faults' \in Nat /\ (faults' = 0 => faults = 0)
    BY <2>1, FaultsCount
  <2>3. WinsInv' /\ leader' \in LeaderEntry /\ wins' \subseteq Brokers
    BY <1>1, <2>1 DEF WinsInv
  <2>4. \/ key[e.cand] # 0 /\ Return(c, e.cand)
        \/ Goto(c, "isr", <<>>, NoBroker)
    BY <1>4 DEF CheckLeader, Healthy
  <2>5. e.at # "idle"
    BY <2>1
  <2>6. CASE key[e.cand] # 0 /\ Return(c, e.cand)
    BY <1>2, <1>3, <2>1, <2>2, <2>3, <2>5, <2>6, ReturnKeeps
  <2>7. CASE Goto(c, "isr", <<>>, NoBroker)
    BY <1>1, <2>1, <2>2, <2>5, <2>7, GotoKeeps
  <2>8. QED
    BY <2>4, <2>6, <2>7
<1>5. CASE ReadISR(c)
  <2>1. /\ e.at = "isr" /\ ElectionOnly /\ UNCHANGED <<leader, wins>>
        /\ Fault \/ UNCHANGED faults
        /\ Goto(c, "try", isr, NoBroker) \/ Goto(c, "try", <<>>, NoBroker)
    BY <1>5 DEF ReadISR
  <2>2. faults' \in Nat /\ (faults' = 0 => faults = 0)
    BY <2>1, FaultsCount
  <2>3. e.at # "idle"
    BY <2>1
  <2>4. QED
    BY <1>1, <2>1, <2>2, <2>3, GotoKeeps
<1>6. CASE TryCandidate(c)
  <2> DEFINE first == Head(e.todo)
  <2>1. /\ e.at \in {"try", "fallback"} /\ ElectionOnly /\ UNCHANGED <<leader, wins>>
        /\ Fault \/ UNCHANGED faults
    BY <1>6 DEF TryCandidate, Healthy, Unhealthy
  <2>2. faults' \in Nat /\ (faults' = 0 => faults = 0)
    BY <2>1, FaultsCount
  <2>3. e.at # "idle" /\ WinsInv' /\ leader' \in LeaderEntry /\ wins' \subseteq Brokers
    BY <1>1, <2>1 DEF WinsInv
  <2>4. \/ /\ e.todo # <<>> /\ key[first] # 0
           /\ Goto(c, IF e.at = "try" THEN "swap" ELSE "put", e.todo, first)
        \/ e.todo # <<>> /\ Goto(c, e.at, Tail(e.todo), NoBroker)
        \/ e.at = "try" /\ Goto(c, "fallback", Replicas, NoBroker)
        \/ Return(c, NoBroker)
    BY <1>6 DEF TryCandidate, Healthy
  <2>5. e.todo # <<>> => first \in Brokers /\ Tail(e.todo) \in Seq(Brokers)
    BY <1>2, HeadTailProperties
  <2>6. CASE /\ e.todo # <<>> /\ key[first] # 0
             /\ Goto(c, IF e.at = "try" THEN "swap" ELSE "put", e.todo, first)
    <3>1. (IF e.at = "try" THEN "swap" ELSE "put") \in {"isr", "try", "fallback", "swap", "put"}
      OBVIOUS
    <3>2. first \in Brokers /\ first \in LeaderEntry
      BY <1>1, <2>5, <2>6
    <3> HIDE DEF first
    <3>3. QED
      BY <1>2, <2>1, <2>2, <2>3, <2>6, <3>1, <3>2, GotoKeeps
  <2>7. CASE e.todo # <<>> /\ Goto(c, e.at, Tail(e.todo), NoBroker)
    <3>1. Tail(e.todo) \in Seq(Brokers) /\ e.at \in {"isr", "try", "fallback", "swap", "put"}
          /\ e.at \notin {"swap", "put"}
      BY <2>1, <2>5, <2>7
    <3>2. election[c].at # "idle" /\ ElectionOnly /\ UNCHANGED <<leader, wins>>
      BY <2>1
    <3> DEFINE rest == Tail(e.todo)
               at == e.at
    <3>3. /\ rest \in Seq(Brokers) /\ at \in {"isr", "try", "fallback", "swap", "put"}
          /\ at \notin {"swap", "put"} /\ Goto(c, at, rest, NoBroker)
      BY <2>7, <3>1
    <3> HIDE DEF rest, at
    <3>4. QED
      BY <1>1, <2>2, <3>2, <3>3, GotoKeeps
  <2>8. CASE e.at = "try" /\ Goto(c, "fallback", Replicas, NoBroker)
    BY <1>1, <2>1, <2>2, <2>3, <2>8, GotoKeeps
  <2>9. CASE Return(c, NoBroker)
    BY <1>1, <2>1, <2>2, <2>3, <2>9, ReturnKeeps
  <2>10. QED
    BY <2>4, <2>6, <2>7, <2>8, <2>9
<1>7. CASE CompareAndSwap(c)
  <2>1. /\ e.at = "swap" /\ ElectionOnly /\ UNCHANGED faults /\ Return(c, e.cand)
        /\ Swap(e.cand)
    BY <1>7 DEF CompareAndSwap
  <2>2. e.cand \in Brokers /\ e.cand \in sighted[c] /\ e.cand # NoBroker
    BY <1>1, <2>1 DEF Sights
  <2>3. faults' \in Nat /\ (faults' = 0 => faults = 0)
    BY <2>1, FaultsCount
  <2>4. leader' \in LeaderEntry /\ wins' \subseteq Brokers /\ WinsInv'
    BY <2>1, <2>2, SwapWins
  <2>5. QED
    BY <1>2, <2>1, <2>2, <2>3, <2>4, ReturnKeeps
<1>8. CASE PutLeader(c)
  <2>1. /\ e.at = "put" /\ ElectionOnly /\ UNCHANGED wins /\ Return(c, e.cand)
        /\ Fault \/ UNCHANGED faults
        /\ leader' = e.cand \/ leader' = leader
    BY <1>8 DEF PutLeader
  <2>2. e.cand \in Brokers /\ e.cand \in sighted[c] /\ e.cand # NoBroker
    BY <1>1, <2>1 DEF Sights
  <2>3. faults' \in Nat /\ (faults' = 0 => faults = 0)
    BY <2>1, FaultsCount
  <2>4. leader' \in LeaderEntry /\ wins' \subseteq Brokers /\ WinsInv'
    BY <1>1, <2>1, <2>2 DEF WinsInv
  <2>5. QED
    BY <1>2, <2>1, <2>2, <2>3, <2>4, ReturnKeeps
<1>9. QED
  BY <1>4, <1>5, <1>6, <1>7, <1>8 DEF ElectionStep

\* A step that moves neither a registration nor an election.
LEMMA RestKeeps ==
  ASSUME EtcdInv, EventInv', isr' \in Seq(Brokers),
         UNCHANGED <<proc, starts, live, key, leader, election, faults, wins, sighted>>
  PROVE  EtcdInv' /\ AnswerWasRegistered
<1>1. EtcdData'
  BY DEF EtcdInv, EtcdData
<1>2. ASSUME NEW b \in Brokers PROVE LeaseInv(b)'
  <2>1. LeaseInv(b)
    BY DEF EtcdInv
  <2>2. QED
    BY <2>1 DEF LeaseInv, Alive
<1>3. QED
  BY <1>1, <1>2, RegistryShrinks

\* The life of a process keeps the invariant: it starts under a new lease, ...
LEMMA StartKeeps ==
  ASSUME EtcdInv, NEW b \in Brokers, Start(b)
  PROVE  EtcdInv' /\ AnswerWasRegistered
<1>1. /\ proc' = [proc EXCEPT ![b] = "started"] /\ starts' = [starts EXCEPT ![b] = starts[b] + 1]
      /\ live' = live \union {<<b, starts[b] + 1>>}
      /\ UNCHANGED <<key, election, faults, wins, sighted, leader, isr>>
      /\ UNCHANGED <<stream, channel, watcher, believed>>
  BY DEF Start, keyVars, watchVars
<1>2. /\ EtcdData /\ EventInv /\ proc \in [Brokers -> ProcessStates] /\ starts \in [Brokers -> Nat]
      /\ live \subseteq Brokers \X Nat
  BY DEF EtcdInv, EtcdData
<1>3. /\ proc' \in [Brokers -> ProcessStates] /\ starts' \in [Brokers -> Nat]
      /\ live' \subseteq Brokers \X Nat
      /\ proc'[b] = "started" /\ starts'[b] = starts[b] + 1 /\ starts[b] \in Nat
      /\ \A x \in Brokers : x # b => proc'[x] = proc[x] /\ starts'[x] = starts[x]
  <2>1. starts[b] \in Nat /\ starts[b] + 1 \in Nat
    BY <1>2
  <2>2. proc' \in [Brokers -> ProcessStates]
    BY <1>1, <1>2 DEF ProcessStates
  <2>3. live' \subseteq Brokers \X Nat
    BY <1>1, <1>2, <2>1
  <2>4. QED
    BY <1>1, <1>2, <2>1, <2>2, <2>3
<1>4. EtcdData'
  BY <1>1, <1>2, <1>3 DEF EtcdData
<1>5. EventInv'
  BY <1>1, <1>2, QuietKeepsEvents
<1>6. ASSUME NEW x \in Brokers PROVE LeaseInv(x)'
  <2>1. LeaseInv(x)
    BY DEF EtcdInv
  <2>2. CASE x = b
    <3>1. starts'[b] # 0
      BY <1>3
    <3>2. <<b, starts'[b]>> \in live'
      BY <1>1, <1>3
    <3>3. QED
      BY <1>3, <2>2, <3>1, <3>2 DEF LeaseInv, Alive
  <2>3. CASE x # b
    BY <1>1, <1>3, <2>1, <2>3 DEF LeaseInv, Alive
  <2>4. QED
    BY <2>2, <2>3
<1>7. QED
  BY <1>1, <1>4, <1>5, <1>6, RegistryShrinks

\* ... registers under it, or serves without a registration after a fault, ...
LEMMA RegisterKeeps ==
  ASSUME EtcdInv, NEW b \in Brokers, RegisterBroker(b)
  PROVE  EtcdInv' /\ AnswerWasRegistered
<1>1. /\ EtcdData /\ EventInv /\ proc \in [Brokers -> ProcessStates] /\ faults \in Nat
      /\ LeaseInv(b)
  BY DEF EtcdInv, EtcdData
<1>2. /\ proc[b] = "started" /\ proc' = [proc EXCEPT ![b] = "serving"]
      /\ UNCHANGED <<starts, live, election, channel, watcher, believed, leader, isr, wins>>
      /\ Fault \/ UNCHANGED faults
  BY DEF RegisterBroker, keyVars
<1>3. /\ proc' \in [Brokers -> ProcessStates] /\ proc'[b] = "serving"
      /\ \A x \in Brokers : x # b => proc'[x] = proc[x]
  BY <1>1, <1>2 DEF ProcessStates
<1>4. faults' \in Nat /\ (faults' = 0 => faults = 0) /\ (Fault => faults' # 0)
  BY <1>2, FaultsCount
<1>5. CASE Alive(b) /\ PutBroker(b) /\ UNCHANGED faults
  <2>1. proc[b] # "down" /\ proc'[b] # "down"
    BY <1>2, <1>3
  <2>2. QED
    BY <1>2, <1>3, <1>4, <1>5, <2>1, RegistryGrows
<1>6. CASE RegistryUnchanged /\ (Fault \/ (~Alive(b) /\ UNCHANGED faults))
  <2>1. UNCHANGED <<key, sighted, stream>>
    BY <1>6 DEF RegistryUnchanged
  <2>2. faults' # 0
    BY <1>1, <1>2, <1>4, <1>6 DEF LeaseInv
  <2>3. EtcdData'
    BY <1>1, <1>2, <1>3, <1>4, <2>1 DEF EtcdData
  <2>4. EventInv'
    BY <1>1, <1>2, <2>1, QuietKeepsEvents
  <2>5. ASSUME NEW x \in Brokers PROVE LeaseInv(x)'
    <3>1. LeaseInv(x)
      BY DEF EtcdInv
    <3>2. proc'[x] # "down" => proc[x] # "down"
      BY <1>2, <1>3
    <3>3. QED
      BY <1>2, <2>2, <3>1, <3>2 DEF LeaseInv
  <2>6. QED
    BY <1>2, <2>1, <2>3, <2>4, <2>5, RegistryShrinks
<1>7. QED
  BY <1>5, <1>6 DEF RegisterBroker

\* ... writes its registration again, ...
LEMMA HeartbeatKeeps ==
  ASSUME EtcdInv, NEW b \in Brokers, HeartbeatWrite(b)
  PROVE  EtcdInv' /\ AnswerWasRegistered
<1>1. /\ EtcdData /\ EventInv /\ proc \in [Brokers -> ProcessStates] /\ faults \in Nat
      /\ isr \in Seq(Brokers)
  BY DEF EtcdInv, EtcdData
<1>2. /\ proc[b] \in {"serving", "leaving"}
      /\ UNCHANGED <<proc, starts, live, election, channel, watcher, believed>>
      /\ UNCHANGED <<faults, leader, isr, wins>>
  BY DEF HeartbeatWrite, keyVars
<1>3. CASE PutBroker(b)
  BY <1>1, <1>2, <1>3, RegistryGrows
<1>4. CASE RegistryUnchanged
  <2>1. UNCHANGED <<key, sighted, stream>>
    BY <1>4 DEF RegistryUnchanged
  <2>2. EventInv'
    BY <1>1, <1>2, <2>1, QuietKeepsEvents
  <2>3. QED
    BY <1>1, <1>2, <2>1, <2>2, RestKeeps
<1>5. QED
  BY <1>3, <1>4 DEF HeartbeatWrite

\* ... takes it out again, ...
LEMMA DeregisterKeeps ==
  ASSUME EtcdInv, NEW b \in Brokers, DeregisterBroker(b)
  PROVE  EtcdInv' /\ AnswerWasRegistered
<1>1. /\ EtcdData /\ EventInv /\ proc \in [Brokers -> ProcessStates] /\ faults \in Nat
      /\ key \in [Brokers -> Nat]
  BY DEF EtcdInv, EtcdData
<1>2. /\ proc[b] = "serving" /\ proc' = [proc EXCEPT ![b] = "leaving"]
      /\ UNCHANGED <<starts, live, election, channel, watcher, believed, leader, isr, wins>>
      /\ Fault \/ UNCHANGED faults
      /\ DeleteBroker(b) \/ RegistryUnchanged
  BY DEF DeregisterBroker, keyVars
<1>3. /\ proc' \in [Brokers -> ProcessStates] /\ proc'[b] = "leaving"
      /\ \A x \in Brokers : x # b => proc'[x] = proc[x]
  BY <1>1, <1>2 DEF ProcessStates
<1>4. faults' \in Nat /\ (faults' = 0 => faults = 0)
  BY <1>2, FaultsCount
<1>5. /\ EventInv' /\ key' \in [Brokers -> Nat] /\ sighted' = sighted
      /\ \A x \in Brokers : key'[x] # 0 => key[x] # 0
      /\ \A x \in Brokers : x # b => key'[x] = key[x]
  <2>1. CASE DeleteBroker(b)
    BY <1>1, <1>2, <2>1, DeletionKeeps
  <2>2. CASE RegistryUnchanged
    <3>1. UNCHANGED <<key, sighted, stream>>
      BY <2>2 DEF RegistryUnchanged
    <3>2. EventInv'
      BY <1>1, <1>2, <3>1, QuietKeepsEvents
    <3>3. QED
      BY <1>1, <3>1, <3>2
  <2>3. QED
    BY <1>2, <2>1, <2>2
<1>6. EtcdData'
  BY <1>1, <1>2, <1>3, <1>4, <1>5 DEF EtcdData
<1>7. ASSUME NEW x \in Brokers PROVE LeaseInv(x)'
  <2>1. LeaseInv(x)
    BY DEF EtcdInv
  <2>2. QED
    BY <1>2, <1>3, <1>4, <1>5, <2>1 DEF LeaseInv, Alive
<1>8. QED
  BY <1>2, <1>5, <1>6, <1>7, RegistryShrinks

\* ... loses the lease, its own only after a fault: the lease of a process before it
\* leaves the registration alone, ...
LEMMA ExpiryKeeps ==
  ASSUME EtcdInv, NEW l \in Leases, LeaseExpires(l)
  PROVE  EtcdInv' /\ AnswerWasRegistered
<1>1. /\ EtcdData /\ EventInv /\ faults \in Nat /\ key \in [Brokers -> Nat]
      /\ live \subseteq Brokers \X Nat /\ l[1] \in Brokers /\ l = <<l[1], l[2]>>
  BY DEF EtcdInv, EtcdData, Leases
<1>2. /\ UNCHANGED <<proc, starts, election, channel, watcher, believed, leader, isr, wins>>
      /\ IF l[2] = starts[l[1]] /\ proc[l[1]] # "down" THEN Fault ELSE UNCHANGED faults
      /\ EndLease(l)
  BY DEF LeaseExpires, keyVars
<1>3. /\ faults' \in Nat /\ (faults' = 0 => faults = 0)
      /\ faults' = 0 /\ proc[l[1]] # "down" => l[2] # starts[l[1]]
  BY <1>2, FaultsCount
<1>4. /\ live' = live \ {l}
      /\ IF key[l[1]] = l[2] THEN DeleteBroker(l[1]) ELSE RegistryUnchanged
  BY <1>2 DEF EndLease
<1>5. /\ EventInv' /\ key' \in [Brokers -> Nat] /\ sighted' = sighted
      /\ \A x \in Brokers : key'[x] = key[x] \/ (key'[x] = 0 /\ x = l[1] /\ key[x] = l[2])
  <2>1. CASE key[l[1]] = l[2]
    <3>1. DeleteBroker(l[1])
      BY <1>4, <2>1
    <3>2. /\ EventInv' /\ key' \in [Brokers -> Nat] /\ sighted' = sighted
          /\ \A x \in Brokers : key'[x] = IF x = l[1] THEN 0 ELSE key[x]
      BY <1>1, <1>2, <3>1, DeletionKeeps
    <3>3. QED
      BY <2>1, <3>2
  <2>2. CASE key[l[1]] # l[2]
    <3>1. UNCHANGED <<key, sighted, stream>>
      BY <1>4, <2>2 DEF RegistryUnchanged
    <3>2. EventInv'
      BY <1>1, <1>2, <3>1, QuietKeepsEvents
    <3>3. QED
      BY <1>1, <3>1, <3>2
  <2>3. QED
    BY <2>1, <2>2
<1>6. EtcdData'
  BY <1>1, <1>2, <1>3, <1>4, <1>5 DEF EtcdData
<1>7. ASSUME NEW x \in Brokers PROVE LeaseInv(x)'
  <2>1. LeaseInv(x)
    BY DEF EtcdInv
  <2>2. ASSUME faults' = 0, proc[x] # "down" PROVE <<x, starts[x]>> # l
    BY <1>3, <2>2
  <2>3. ASSUME faults' = 0, proc[x] = "serving" PROVE key'[x] = starts[x]
    <3>1. faults = 0 /\ key[x] = starts[x] /\ proc[x] # "down"
      BY <1>3, <2>1, <2>3 DEF LeaseInv
    <3>2. ~ (x = l[1] /\ key[x] = l[2])
      BY <1>3, <2>3, <3>1
    <3>3. QED
      BY <1>5, <3>1, <3>2
  <2>4. faults' = 0 /\ proc[x] # "down" => <<x, starts[x]>> \in live'
    BY <1>3, <1>4, <2>1, <2>2 DEF LeaseInv, Alive
  <2>5. QED
    BY <1>2, <2>1, <2>3, <2>4 DEF LeaseInv, Alive
<1>8. \A x \in Brokers : key'[x] # 0 => key[x] # 0
  BY <1>5
<1>9. QED
  BY <1>2, <1>5, <1>6, <1>7, <1>8, RegistryShrinks

\* ... and ends, when it stops, ...
LEMMA StopKeeps ==
  ASSUME EtcdInv, NEW b \in Brokers, Stop(b)
  PROVE  EtcdInv' /\ AnswerWasRegistered
<1>1. /\ EventInv /\ key \in [Brokers -> Nat] /\ faults \in Nat /\ LeaseInv(b)
      /\ starts \in [Brokers -> Nat]
  BY DEF EtcdInv, EtcdData
<1>2. /\ proc[b] = "leaving" /\ EndProcess(b) /\ EndWatch(b)
      /\ UNCHANGED <<starts, leader, isr, wins>>
      /\ Fault \/ UNCHANGED faults
  BY DEF Stop, keyVars
<1>3. faults' \in Nat /\ (faults' = 0 => faults = 0)
  BY <1>2, FaultsCount
<1>4. starts[b] # 0 /\ leader' \in LeaderEntry /\ wins' \subseteq Brokers /\ WinsInv'
  BY <1>1, <1>2 DEF LeaseInv, EtcdInv, EtcdData, WinsInv
<1>5. CASE /\ live' = live \ {<<b, starts[b]>>}
           /\ key' = [key EXCEPT ![b] = IF key[b] = starts[b] THEN 0 ELSE key[b]]
           /\ stream' = IF watcher \in {NoBroker, b} THEN <<>>
                        ELSE IF key[b] = starts[b]
                             THEN Append(stream, [id |-> b, healthy |-> FALSE])
                             ELSE stream
  <2>1. key' \in [Brokers -> Nat]
        /\ \A x \in Brokers : key'[x] = key[x] \/ (key'[x] = 0 /\ x = b)
    BY <1>1, <1>5
  <2>2. EventInv'
    <3>1. CASE watcher \in {NoBroker, b}
      <4>1. /\ stream' = <<>> /\ channel' = <<>> /\ watcher' = NoBroker
            /\ believed' \subseteq Brokers
        BY <1>1, <1>2, <1>5, <3>1 DEF EndWatch, EventInv
      <4>2. QED
        BY <4>1, NoWatcherKeepsEvents
    <3>2. CASE watcher \notin {NoBroker, b} /\ key[b] = starts[b]
      <4>1. UNCHANGED <<channel, watcher, believed>> /\ key' = [key EXCEPT ![b] = 0]
            /\ Notify(b, FALSE)
        BY <1>2, <1>5, <3>2 DEF EndWatch, Notify
      <4>2. 0 \in Nat /\ (0 # 0) = FALSE
        OBVIOUS
      <4>3. QED
        BY <1>1, <4>1, <4>2, NotifyKeepsEvents
    <3>3. CASE watcher \notin {NoBroker, b} /\ key[b] # starts[b]
      <4>1. UNCHANGED <<channel, watcher, believed, stream>> /\ key' = key
        BY <1>1, <1>2, <1>5, <3>3 DEF EndWatch
      <4>2. QED
        BY <1>1, <4>1, QuietKeepsEvents
    <3>4. QED
      BY <3>1, <3>2, <3>3
  <2>3. \A x \in Brokers : Alive(x) /\ x # b => Alive(x)'
    BY <1>2, <1>5 DEF Alive
  <2>4. live' \subseteq live
    BY <1>5
  <2>5. QED
    BY <1>2, <1>3, <1>4, <2>1, <2>2, <2>3, <2>4, ProcessEnds
<1>6. CASE /\ Fault /\ UNCHANGED <<live, key>>
           /\ stream' = IF watcher = b THEN <<>> ELSE stream
  <2>1. EventInv'
    <3>1. CASE watcher = b
      <4>1. /\ stream' = <<>> /\ channel' = <<>> /\ watcher' = NoBroker
            /\ believed' \subseteq Brokers
        BY <1>2, <1>6, <3>1 DEF EndWatch
      <4>2. QED
        BY <4>1, NoWatcherKeepsEvents
    <3>2. CASE watcher # b
      <4>1. UNCHANGED <<channel, watcher, believed, stream, key>>
        BY <1>2, <1>6, <3>2 DEF EndWatch
      <4>2. QED
        BY <1>1, <4>1, QuietKeepsEvents
    <3>3. QED
      BY <3>1, <3>2
  <2>2. \A x \in Brokers : Alive(x) /\ x # b => Alive(x)'
    BY <1>2, <1>6 DEF Alive
  <2>3. /\ key' \in [Brokers -> Nat] /\ live' \subseteq live
        /\ \A x \in Brokers : key'[x] = key[x] \/ (key'[x] = 0 /\ x = b)
    BY <1>1, <1>6
  <2>4. QED
    BY <1>2, <1>3, <1>4, <2>1, <2>2, <2>3, ProcessEnds
<1>7. QED
  BY <1>5, <1>6 DEF Stop

\* ... and when it crashes, of itself or on the nil response of its swap.
LEMMA CrashKeeps ==
  ASSUME EtcdInv, NEW b, EndProcess(b), EndWatch(b),
         stream' = IF watcher = b THEN <<>> ELSE stream,
         UNCHANGED <<starts, live, key, isr>>, Fault \/ UNCHANGED faults,
         leader' \in LeaderEntry, wins' \subseteq Brokers, WinsInv'
  PROVE  EtcdInv' /\ AnswerWasRegistered
<1>1. EventInv /\ key \in [Brokers -> Nat]
  BY DEF EtcdInv, EtcdData
<1>2. faults' \in Nat /\ (faults' = 0 => faults = 0)
  BY FaultsCount
<1>3. EventInv'
  <2>1. CASE watcher = b
    <3>1. /\ stream' = <<>> /\ channel' = <<>> /\ watcher' = NoBroker
          /\ believed' \subseteq Brokers
      BY <2>1 DEF EndWatch
    <3>2. QED
      BY <3>1, NoWatcherKeepsEvents
  <2>2. CASE watcher # b
    <3>1. UNCHANGED <<channel, watcher, believed, stream, key>>
      BY <2>2 DEF EndWatch
    <3>2. QED
      BY <1>1, <3>1, QuietKeepsEvents
  <2>3. QED
    BY <2>1, <2>2
<1>4. \A x \in Brokers : Alive(x) /\ x # b => Alive(x)'
  BY DEF Alive
<1>5. QED
  BY <1>1, <1>2, <1>3, <1>4, ProcessEnds

EtcdStep == RegistryNext \/ ElectionNext \/ WatchNext \/ Receive

\* Every step of etcd's coordinator keeps the invariant and answers an election with a
\* broker it has sighted.
LEMMA NextEtcdInv == EtcdInv /\ [EtcdStep]_etcdVars => EtcdInv' /\ AnswerWasRegistered
<1> SUFFICES ASSUME EtcdInv, [EtcdStep]_etcdVars PROVE EtcdInv' /\ AnswerWasRegistered
  OBVIOUS
<1>1. EtcdData /\ EventInv /\ isr \in Seq(Brokers) /\ election \in [Elections -> Elected]
      /\ sighted \in [Elections -> SUBSET Brokers]
  BY DEF EtcdInv, EtcdData
<1>2. ASSUME NEW b \in Brokers, HeartbeatRead(b) PROVE EtcdInv' /\ AnswerWasRegistered
  <2>1. UNCHANGED <<proc, starts, live, key, leader, election, faults, wins, sighted,
                    isr, stream, channel, watcher, believed>>
    BY <1>2 DEF HeartbeatRead, keyVars, watchVars
  <2>2. EventInv'
    BY <1>1, <2>1, QuietKeepsEvents
  <2>3. QED
    BY <1>1, <2>1, <2>2, RestKeeps
<1>3. ASSUME NEW b \in Brokers, Crash(b) PROVE EtcdInv' /\ AnswerWasRegistered
  <2>1. /\ EndProcess(b) /\ EndWatch(b) /\ stream' = IF watcher = b THEN <<>> ELSE stream
        /\ UNCHANGED <<starts, live, key, isr>> /\ UNCHANGED <<leader, wins>>
        /\ UNCHANGED faults
    BY <1>3 DEF Crash, keyVars
  <2>2. leader' \in LeaderEntry /\ wins' \subseteq Brokers /\ WinsInv'
    BY <2>1 DEF EtcdInv, EtcdData, WinsInv
  <2>3. QED
    BY <2>1, <2>2, CrashKeeps
<1>4. ASSUME NEW c \in Elections, SwapPanics(c) PROVE EtcdInv' /\ AnswerWasRegistered
  <2> DEFINE b == election[c].host
  <2>1. /\ EndProcess(b) /\ EndWatch(b) /\ stream' = IF watcher = b THEN <<>> ELSE stream
        /\ UNCHANGED <<starts, live, key, isr>> /\ Fault
        /\ Swap(election[c].cand) \/ UNCHANGED <<leader, wins>>
    BY <1>4 DEF SwapPanics, keyVars
  <2>2. election[c].cand \in Brokers
    BY <1>4, ElectionFacts DEF SwapPanics, Sights
  <2>3. leader' \in LeaderEntry /\ wins' \subseteq Brokers /\ WinsInv'
    <3>1. CASE Swap(election[c].cand)
      BY <2>2, <3>1, SwapWins
    <3>2. CASE UNCHANGED <<leader, wins>>
      BY <3>2 DEF EtcdInv, EtcdData, WinsInv
    <3>3. QED
      BY <2>1, <3>1, <3>2
  <2> HIDE DEF b
  <2>4. QED
    BY <2>1, <2>3, CrashKeeps
<1>5. ASSUME NEW c \in Elections, NEW b \in Brokers, ElectLeader(c, b)
      PROVE  EtcdInv' /\ AnswerWasRegistered
  <2> DEFINE e == [at |-> IF leader = NoBroker THEN "isr" ELSE "leader", host |-> b,
                   todo |-> <<>>, cand |-> leader, told |-> NoBroker]
  <2>1. /\ election[c].at = "idle" /\ election' = [election EXCEPT ![c] = e]
        /\ sighted' = [sighted EXCEPT ![c] = Registered]
        /\ UNCHANGED processVars /\ UNCHANGED watchVars /\ UNCHANGED <<leader, isr, faults, wins>>
    BY <1>5 DEF ElectLeader, keyVars
  <2>2. /\ leader \in LeaderEntry /\ isr \in Seq(Brokers) /\ wins \subseteq Brokers
        /\ faults \in Nat /\ WinsInv /\ <<>> \in Seq(Brokers) /\ NoBroker \in LeaderEntry
        /\ Brokers \subseteq LeaderEntry
    BY ElectionFacts
  <2>3. e \in Elected /\ e.at \in {"isr", "leader"} /\ e.cand = leader
        /\ (e.at = "leader" => leader # NoBroker)
    BY <2>2 DEF Elected
  <2> HIDE DEF e
  <2>4. Sights(e, Registered, key)
    BY <2>2, <2>3 DEF Sights, Registered, LeaderEntry
  <2>5. Registered \in SUBSET Brokers
    BY DEF Registered
  <2>6. WinsInv'
    BY <2>1, <2>2 DEF WinsInv
  <2>7. QED
    BY <2>1, <2>2, <2>3, <2>4, <2>5, <2>6, ElectionMoves
<1>6. ASSUME NEW b \in Brokers, NEW list \in ISRs, UpdateISR(b, list)
      PROVE  EtcdInv' /\ AnswerWasRegistered
  <2>1. /\ UNCHANGED <<proc, starts, live, key, leader, election, faults, wins, sighted,
                       stream, channel, watcher, believed>>
        /\ isr' \in Seq(Brokers)
    BY <1>6, CoordinatorAssumption DEF UpdateISR, processVars, watchVars, ghostVars
  <2>2. EventInv'
    BY <1>1, <2>1, QuietKeepsEvents
  <2>3. QED
    BY <2>1, <2>2, RestKeeps
<1>7. ASSUME NEW b \in Brokers, Watch(b) PROVE EtcdInv' /\ AnswerWasRegistered
  <2>1. /\ UNCHANGED <<proc, starts, live, key, leader, election, faults, wins, sighted,
                       isr, stream, channel>>
        /\ watcher = NoBroker /\ believed' = Registered
    BY <1>7 DEF Watch, processVars, keyVars, ghostVars
  <2>2. EventInv'
    BY <1>1, <2>1, WatchKeepsEvents
  <2>3. QED
    BY <1>1, <2>1, <2>2, RestKeeps
<1>8. ASSUME Forward \/ Receive PROVE EtcdInv' /\ AnswerWasRegistered
  <2>1. UNCHANGED <<proc, starts, live, key, leader, election, faults, wins, sighted, isr>>
    BY <1>8 DEF Forward, TakeChange, Receive, processVars, keyVars, ghostVars
  <2>2. EventInv'
    BY <1>1, <1>8, PassingKeepsEvents
  <2>3. QED
    BY <1>1, <2>1, <2>2, RestKeeps
<1>9. CASE UNCHANGED etcdVars
  <2>1. UNCHANGED <<proc, starts, live, key, leader, election, faults, wins, sighted,
                    isr, stream, channel, watcher, believed>>
    BY <1>9 DEF etcdVars
  <2>2. EventInv'
    BY <1>1, <2>1, QuietKeepsEvents
  <2>3. QED
    BY <1>1, <2>1, <2>2, RestKeeps
<1>10. CASE RegistryNext
  BY <1>2, <1>3, <1>10, StartKeeps, RegisterKeeps, HeartbeatKeeps, DeregisterKeeps,
     StopKeeps, ExpiryKeeps DEF RegistryNext
<1>11. CASE ElectionNext
  BY <1>4, <1>5, <1>6, <1>11, ElectionKeeps DEF ElectionNext
<1>12. CASE WatchNext
  BY <1>7, <1>8, <1>12 DEF WatchNext
<1>13. QED
  BY <1>8, <1>9, <1>10, <1>11, <1>12 DEF EtcdStep

\* The other packages leave etcd alone.
LEMMA EtcdSteps == [PackagesNext]_allVars => [EtcdStep]_etcdVars
BY DEF PackagesNext, Only, allVars, TakeHealthEvent, EtcdStep

-----------------------------------------------------------------------------
(* MockCoordinator: failover and committed offsets.                        *)

\* One broker that is found dead fails over alone.
LEMMA OneFailsOver ==
  ASSUME NEW ls, NEW order, DOMAIN order = {1}
  PROVE  FoldLeft(Failover, ls, order) = Failover(ls, order[1])
<1> DEFINE F(g) == [s \in SUBSET {1} |-> IF s = {} THEN ls
                                         ELSE Failover(g[s \ {Max(s)}], order[Max(s)])]
           G == [s \in SUBSET {1} |-> IF s = {} THEN ls ELSE Failover(ls, order[1])]
           h == CHOOSE g : g = F(g)
<1>1. Max({1}) = 1 /\ {1} \ {1} = {} /\ {1} # {}
  BY DEF Max
<1>2. \A s \in SUBSET {1} : s = {} \/ s = {1}
  OBVIOUS
<1>3. G = F(G)
  <2>1. ASSUME NEW s \in SUBSET {1} PROVE G[s] = F(G)[s]
    BY <1>1, <1>2
  <2>2. QED
    BY <2>1
<1>4. h = F(h)
  BY <1>3
<1>5. h[{1}] = Failover(h[{}], order[1]) /\ h[{}] = ls
  <2> HIDE DEF h
  <2>1. F(h)[{}] = ls /\ F(h)[{1}] = Failover(h[{1} \ {Max({1})}], order[Max({1})])
    BY <1>1
  <2>2. QED
    BY <1>1, <1>4, <2>1
<1>6. FoldLeft(Failover, ls, order) = h[{1}]
  BY DEF FoldLeft, MapThenFoldSet
<1>7. QED
  BY <1>5, <1>6

MockInv ==
  /\ brokers \subseteq Brokers /\ IsFiniteSet(brokers)
  /\ heartbeats \in [Brokers -> {"none", "fresh", "stale"}]
  /\ isrMap \in [Partitions -> Seq(Brokers)]

\* A failover leaves a broker the leader only if nobody else of the ISR is registered, or
\* broker 0 is.
LEMMA FailoverMoves ==
  ASSUME MockInv, NEW b \in Brokers, NEW p \in Partitions, NEW ls, Failover(ls, b)[p] = b
  PROVE  Successors(b, p) = {} \/ 0 \in Successors(b, p)
<1> DEFINE list == isrMap[p]
           ok == {i \in DOMAIN list : list[i] \in brokers \ {b}}
<1>1. list \in Seq(Brokers) /\ DOMAIN list = 1 .. Len(list) /\ Len(list) \in Nat
  BY LenProperties DEF MockInv
<1>2. ok \subseteq Nat
  BY <1>1
<1>3. FirstRegistered(list, b) = IF ok = {} THEN 0 ELSE list[Min(ok)]
  BY DEF FirstRegistered
<1>4. CASE ok = {}
  BY <1>4 DEF Successors, ToSet
<1>5. CASE ok # {}
  <2> DEFINE i == Min(ok)
  <2>1. i \in ok
    <3> HIDE DEF ok
    <3>1. \E x \in ok : \A y \in ok : x <= y
      BY <1>2, <1>5, LeastNatural
    <3>2. QED
      BY <3>1 DEF Min
  <2> HIDE DEF i
  <2>2. i \in DOMAIN list /\ list[i] \in brokers \ {b}
    BY <2>1
  <2>3. list[i] \in Successors(b, p)
    BY <2>2 DEF Successors, ToSet
  <2>4. FirstRegistered(list, b) = list[i]
    BY <1>3, <1>5 DEF i
  <2>5. Failover(ls, b)[p] = IF ls[p] = b /\ list[i] # 0 THEN list[i] ELSE ls[p]
    <3> HIDE DEF list
    <3>1. Failover(ls, b) = [x \in Partitions |->
             IF ls[x] = b /\ FirstRegistered(isrMap[x], b) # 0
             THEN FirstRegistered(isrMap[x], b) ELSE ls[x]]
      BY DEF Failover
    <3>2. Failover(ls, b)[p] = IF ls[p] = b /\ FirstRegistered(list, b) # 0
                               THEN FirstRegistered(list, b) ELSE ls[p]
      BY <3>1 DEF list
    <3>3. QED
      BY <2>4, <3>2
  <2> HIDE DEF list, ok
  <2>6. list[i] = 0
    BY <2>2, <2>5
  <2>7. QED
    BY <2>3, <2>6
<1>6. QED
  BY <1>4, <1>5

\* Replica lists are lists of brokers.
LEMMA MockInvHolds ==
  /\ MockInit => MockInv
  /\ MockInv /\ [MockNext]_mockVars => MockInv'
<1>1. MockInit => MockInv
  BY EmptySeq, FS_EmptySet DEF MockInit, MockInv
<1> SUFFICES ASSUME MockInv, [MockNext]_mockVars PROVE MockInv'
  BY <1>1
<1>2. /\ brokers \subseteq Brokers /\ IsFiniteSet(brokers)
      /\ heartbeats \in [Brokers -> {"none", "fresh", "stale"}]
      /\ isrMap \in [Partitions -> Seq(Brokers)]
  BY DEF MockInv
<1>3. ASSUME NEW b \in Brokers, Register(b) PROVE MockInv'
  <2>1. /\ brokers' = brokers \union {b} /\ heartbeats' = [heartbeats EXCEPT ![b] = "fresh"]
        /\ isrMap' = isrMap
    BY <1>3 DEF Register, leaderVars
  <2>2. IsFiniteSet(brokers')
    BY <1>2, <2>1, FS_AddElement
  <2>3. QED
    BY <1>2, <2>1, <2>2 DEF MockInv
<1>4. ASSUME NEW b \in Brokers, Deregister(b) PROVE MockInv'
  <2>1. /\ brokers' = brokers \ {b} /\ heartbeats' = [heartbeats EXCEPT ![b] = "none"]
        /\ isrMap' = isrMap
    BY <1>4 DEF Deregister
  <2>2. IsFiniteSet(brokers')
    BY <1>2, <2>1, FS_RemoveElement
  <2>3. QED
    BY <1>2, <2>1, <2>2 DEF MockInv
<1>5. ASSUME NEW b \in Brokers, Heartbeat(b) \/ OutOfSession(b) PROVE MockInv'
  BY <1>2, <1>5 DEF Heartbeat, OutOfSession, leaderVars, MockInv
<1>6. ASSUME NEW order, CheckBrokerHealth(order) PROVE MockInv'
  BY <1>2, <1>6 DEF CheckBrokerHealth, MockInv
<1>7. ASSUME NEW p \in Partitions, NEW list \in ISRs, Elect(p, list) \/ SetISR(p, list)
      PROVE  MockInv'
  <2>1. list \in Seq(Brokers)
    BY CoordinatorAssumption
  <2>2. QED
    BY <1>2, <1>7, <2>1 DEF Elect, SetISR, brokerVars, MockInv
<1>8. ASSUME NEW n \in 0 .. MaxPartitions, NEW factor \in Factors,
             NEW order \in SetToSeqs(brokers), CreateTopic(n, factor, order)
      PROVE  MockInv'
  <2> DEFINE m == Cardinality(brokers)
             last == IF factor < Len(order) THEN factor ELSE Len(order)
             replicas == AssignReplicas(order, factor)
  <2>1. m \in Nat /\ order \in [1 .. m -> brokers]
    BY <1>2, FS_CardinalityType DEF SetToSeqs
  <2>2. order \in Seq(brokers) /\ Len(order) = m
    <3> HIDE DEF m
    <3>1. QED
      BY <2>1
  <2>3. factor \in Int
    BY MockAssumption
  <2>4. last \in Int /\ last <= m
    BY <2>1, <2>2, <2>3
  <2>5. \A i \in 1 .. last : order[i] \in Brokers
    <3> HIDE DEF last, m
    <3>1. QED
      BY <1>2, <2>1, <2>4
  <2>6. replicas \in Seq(Brokers)
    <3> HIDE DEF last
    <3>1. SubSeq(order, 1, last) \in Seq(Brokers)
      BY <2>4, <2>5, SubSeqProperties
    <3>2. QED
      BY <3>1 DEF AssignReplicas, last
  <2> HIDE DEF replicas
  <2>7. /\ isrMap' = [p \in Partitions |-> IF p < n THEN replicas ELSE isrMap[p]]
        /\ UNCHANGED <<brokers, heartbeats>>
    BY <1>8 DEF CreateTopic, brokerVars, replicas
  <2>8. isrMap' \in [Partitions -> Seq(Brokers)]
    BY <1>2, <2>6, <2>7
  <2>9. QED
    BY <1>2, <2>7, <2>8 DEF MockInv
<1>9. CASE UNCHANGED <<brokers, heartbeats, isrMap>>
  BY <1>2, <1>9 DEF MockInv
<1>10. ASSUME StartMock \/ StopMock \/ WatchHealth \/ (\E w : TakeEvent(w))
              \/ (\E p, o : Commit(p, o)) \/ (\E c : JoinGroup(c) \/ LeaveGroup(c))
              \/ UNCHANGED mockVars
       PROVE  UNCHANGED <<brokers, heartbeats, isrMap>>
  BY <1>10 DEF StartMock, StopMock, WatchHealth, TakeEvent, Commit, JoinGroup, LeaveGroup,
               brokerVars, leaderVars, mockVars
<1>11. QED
  BY <1>3, <1>4, <1>5, <1>6, <1>7, <1>8, <1>9, <1>10 DEF MockNext

\* Every step of the mock coordinator keeps its promises.
LEMMA MockSteps ==
  ASSUME MockInv, [MockNext]_mockVars
  PROVE  FailedBrokerStepsDown /\ OffsetsSurviveChanges
<1>1. /\ brokers \subseteq Brokers /\ heartbeats \in [Brokers -> {"none", "fresh", "stale"}]
  BY DEF MockInv
<1>2. OffsetsSurviveChanges
  BY DEF MockNext, mockVars, OffsetsSurviveChanges, StartMock, StopMock, Register,
         Deregister, Heartbeat, OutOfSession, CheckBrokerHealth, WatchHealth, TakeEvent, Elect,
         SetISR, CreateTopic, Commit, JoinGroup, LeaveGroup, groupVars
<1>3. FailedBrokerStepsDown
  <2> SUFFICES ASSUME NEW b \in Brokers, NEW p \in Partitions, LeadsOn(b, p)
               PROVE  Successors(b, p) = {} \/ 0 \in Successors(b, p)
    BY DEF FailedBrokerStepsDown
  <2>1. /\ heartbeats[b] # "none" /\ heartbeats'[b] = "none" /\ leaders'[p] = b
        /\ \A x \in Brokers \ {b} : heartbeats'[x] = heartbeats[x]
    BY DEF LeadsOn
  <2>2. ASSUME NEW x \in Brokers, Deregister(x)
        PROVE  Successors(b, p) = {} \/ 0 \in Successors(b, p)
    <3>1. heartbeats' = [heartbeats EXCEPT ![x] = "none"] /\ leaders' = Failover(leaders, x)
      BY <2>2 DEF Deregister
    <3>2. x = b
      BY <1>1, <2>1, <3>1
    <3>3. Failover(leaders, b)[p] = b
      BY <2>1, <3>1, <3>2
    <3>4. QED
      BY <3>3, FailoverMoves
  <2>3. ASSUME NEW order \in SetToSeqs({x \in Brokers : heartbeats[x] = "stale"}),
               CheckBrokerHealth(order)
        PROVE  Successors(b, p) = {} \/ 0 \in Successors(b, p)
    <3> DEFINE dead == {x \in Brokers : heartbeats[x] = "stale"}
    <3>1. /\ ToSet(order) = dead
          /\ heartbeats' = [x \in Brokers |-> IF x \in ToSet(order) THEN "none" ELSE heartbeats[x]]
          /\ leaders' = FoldLeft(Failover, leaders, order)
      BY <2>3 DEF CheckBrokerHealth
    <3>2. \A x \in Brokers : heartbeats'[x] # heartbeats[x] <=> x \in dead
      BY <3>1
    <3>3. dead = {b}
      <4>1. b \in dead
        BY <2>1, <3>2
      <4>2. \A x \in dead : x = b
        BY <2>1, <3>2
      <4>3. QED
        BY <4>1, <4>2
    <3>4. order \in [1 .. 1 -> {b}]
      <4>1. Cardinality({b}) = 1
        BY FS_Singleton
      <4>2. order \in SetToSeqs({b})
        BY <3>3
      <4>3. QED
        BY <4>1, <4>2 DEF SetToSeqs
    <3>5. DOMAIN order = {1} /\ order[1] = b
      BY <3>4
    <3>6. leaders' = Failover(leaders, b)
      <4>1. FoldLeft(Failover, leaders, order) = Failover(leaders, order[1])
        BY <3>5, OneFailsOver
      <4>2. QED
        BY <3>1, <3>5, <4>1
    <3>7. Failover(leaders, b)[p] = b
      BY <2>1, <3>6
    <3>8. QED
      BY <3>7, FailoverMoves
  <2>4. ASSUME NEW x \in Brokers, Register(x) \/ Heartbeat(x) \/ OutOfSession(x) PROVE FALSE
    <3>1. heartbeats' = [heartbeats EXCEPT ![x] = "fresh"]
          \/ heartbeats' = [heartbeats EXCEPT ![x] = "stale"]
      BY <2>4 DEF Register, Heartbeat, OutOfSession
    <3>2. QED
      BY <1>1, <2>1, <3>1
  <2>5. ASSUME UNCHANGED heartbeats PROVE FALSE
    BY <2>1, <2>5
  <2>6. ASSUME StartMock \/ StopMock \/ WatchHealth \/ (\E w : TakeEvent(w))
               \/ (\E q, list : Elect(q, list) \/ SetISR(q, list)) \/ (\E q, o : Commit(q, o))
               \/ (\E n, factor, order : CreateTopic(n, factor, order))
               \/ (\E c : JoinGroup(c) \/ LeaveGroup(c)) \/ UNCHANGED mockVars
        PROVE  UNCHANGED heartbeats
    BY <2>6 DEF StartMock, StopMock, WatchHealth, TakeEvent, Elect, SetISR, Commit, CreateTopic,
                JoinGroup, LeaveGroup, brokerVars, mockVars
  <2>7. QED
    BY <2>2, <2>3, <2>4, <2>5, <2>6 DEF MockNext
<1>4. QED
  BY <1>2, <1>3

\* The other packages leave the mock coordinator alone.
LEMMA MockPackage == [PackagesNext]_allVars => [MockNext]_mockVars
BY DEF PackagesNext, Only, allVars

\* A broker that serves is registered under its own lease as long as nothing fails, one
\* broker at most wins the partition, an election answers with a broker it has sighted, and
\* the events end right for the ids above 0 (etcd.go); a broker that fails leads no
\* partition that others could but broker 0, and committed offsets outlive the changes of a group (coordinator.go).
THEOREM CoordinatorsStaySound == Spec => CoordinatorsSound
<1> DEFINE BothInv == EtcdInv /\ MockInv
           bothVars == <<etcdVars, mockVars>>
           Promises == /\ (ServingIsRegistered /\ OneSwapWins /\ PendingEventsEndRight)'
                       /\ AnswerWasRegistered
                       /\ FailedBrokerStepsDown /\ OffsetsSurviveChanges
<1>1. PackagesInit => BothInv
  BY InitEtcdInv, MockInvHolds DEF PackagesInit
<1>2. BothInv /\ [PackagesNext]_allVars => BothInv'
  BY NextEtcdInv, EtcdSteps, MockInvHolds, MockPackage
<1>3. EtcdInv' => (ServingIsRegistered /\ OneSwapWins /\ PendingEventsEndRight)'
  <2>1. EtcdInv => ServingIsRegistered /\ OneSwapWins /\ PendingEventsEndRight
    BY EtcdInvSound DEF RegistrySound
  <2>2. QED
    BY <2>1, PTL
<1>4. BothInv /\ [PackagesNext]_allVars => [Promises]_bothVars
  <2> SUFFICES ASSUME BothInv, [PackagesNext]_allVars PROVE Promises
    OBVIOUS
  <2>1. EtcdInv' /\ AnswerWasRegistered
    BY NextEtcdInv, EtcdSteps
  <2>2. FailedBrokerStepsDown /\ OffsetsSurviveChanges
    BY MockSteps, MockPackage
  <2>3. QED
    BY <1>3, <2>1, <2>2
<1>5. QED
  BY <1>1, <1>2, <1>4, PTL DEF Spec, CoordinatorsSound

-----------------------------------------------------------------------------
(* Replication, when the watcher of etcd's registry hears of a failure.      *)

\* The other packages leave the replication manager alone; what its watcher takes
\* is a failure, or nothing to it.
LEMMA ReplSteps == [PackagesNext]_allVars => [ReplStep]_replVars
BY DEF PackagesNext, Only, allVars, TakeHealthEvent, ReplStep

\* The watcher takes an event off its channel by the step that hands it to the
\* replication manager, and by no other.
LEMMA HearingIsTaking ==
  ASSUME EventInv, [PackagesNext]_allVars, NEW b \in Brokers, HearsOfFailure(b)
  PROVE  DetectFailure(b)
<1>1. /\ channel # <<>> /\ Head(channel) = [id |-> b, healthy |-> FALSE]
      /\ channel' = Tail(channel) /\ watcher' = watcher
      /\ channel \in Seq(BrokerHealthEvent) /\ watcher # NoBroker
  BY DEF HearsOfFailure, EventInv
<1>2. Len(channel) \in Nat /\ Len(channel') = Len(channel) - 1 /\ channel' # channel
  <2>1. Len(channel) \in Nat /\ Len(Tail(channel)) = Len(channel) - 1
    BY <1>1, HeadTailProperties, LenProperties
  <2>2. Len(channel') = Len(channel) - 1
    BY <1>1, <2>1
  <2>3. channel' # channel
    <3> SUFFICES ASSUME channel' = channel PROVE FALSE
      OBVIOUS
    <3>1. Len(channel') = Len(channel)
      OBVIOUS
    <3>2. QED
      BY <2>1, <2>2, <3>1
  <2>4. QED
    BY <2>1, <2>2, <2>3
<1>3. ~UNCHANGED etcdVars
  BY <1>2 DEF etcdVars
<1>4. ASSUME NEW x, EndWatch(x) PROVE FALSE
  <2>1. watcher = x => watcher' = NoBroker /\ channel' = <<>>
    BY <1>4 DEF EndWatch
  <2>2. watcher # x => channel' = channel
    BY <1>4 DEF EndWatch
  <2>3. QED
    BY <1>1, <1>2, <2>1, <2>2
<1>5. ~RegistryNext
  BY <1>2, <1>4
     DEF RegistryNext, Start, RegisterBroker, HeartbeatRead, HeartbeatWrite,
         DeregisterBroker, Stop, Crash, LeaseExpires, watchVars
<1>6. ~ElectionNext
  BY <1>2, <1>4
     DEF ElectionNext, UpdateISR, SwapPanics, ElectLeader, ElectionStep, CheckLeader,
         ReadISR, TryCandidate, CompareAndSwap, PutLeader, ElectionOnly, watchVars
<1>7. ~WatchNext
  <2>1. ~Forward
    <3> SUFFICES ASSUME Forward PROVE FALSE
      OBVIOUS
    <3>1. channel' = Append(channel, Head(stream))
      BY <1>2 DEF Forward
    <3>2. QED
      BY <1>2, <3>1
  <2>2. QED
    BY <1>2, <2>1 DEF WatchNext, Watch
<1>8. TakeHealthEvent
  BY <1>2, <1>3, <1>5, <1>6, <1>7 DEF PackagesNext, Only, allVars
<1>9. QED
  BY <1>1, <1>8 DEF TakeHealthEvent

\* A sequence without repetitions has as many elements as places.
LEMMA InjectiveCount ==
  ASSUME NEW P, NEW w \in Seq(P), IsInjective(w)
  PROVE  Cardinality(ToSet(w)) = Len(w)
<1> DEFINE n == Len(w)
           X == ToSet(w)
<1>1. n \in Nat /\ DOMAIN w = 1 .. n
  BY LenProperties
<1>2. w \in Bijection(1 .. n, X)
  <2>1. w \in [1 .. n -> X]
    <3>1. w = [i \in 1 .. n |-> w[i]] /\ \A i \in 1 .. n : w[i] \in X
      BY <1>1, ElementOfSeq DEF ToSet
    <3>2. QED
      BY <3>1
  <2>2. \A i, j \in 1 .. n : w[i] = w[j] => i = j
    BY <1>1 DEF IsInjective
  <2>3. \A x \in X : \E i \in 1 .. n : w[i] = x
    BY <1>1 DEF ToSet
  <2>4. QED
    BY <2>1, <2>2, <2>3 DEF Bijection, Injection, Surjection, IsInjective
<1>3. ExistsBijection(1 .. n, X)
  BY <1>2 DEF ExistsBijection
<1>4. IsFiniteSet(1 .. n) /\ Cardinality(1 .. n) = n
  BY <1>1, FS_Interval
<1>5. QED
  BY <1>3, <1>4, FS_Bijection

\* A failure leaves minISR in sync, and the failed broker neither in sync nor leader
\* where the others are enough.
LEMMA FailureDoesItsPart ==
  ASSUME ReplInv, replicating, NEW b \in Brokers, DetectFailure(b)
  PROVE  FailureKeepsMinimum /\ FailedBrokerGoes(b)
<1> DEFINE w == Without(inSyncReplicas, b)
<1>1. /\ w \in Seq(Brokers) /\ ToSet(w) = ToSet(inSyncReplicas) \ {b} /\ IsInjective(w)
      /\ Len(w) \in Nat /\ MinISR \in Nat
  BY WithoutFacts, LenProperties, ReplicationAssumption DEF ReplInv, ISRHasNoDuplicates
<1>2. Cardinality(ToSet(w)) = Len(w)
  <2> HIDE DEF w
  <2>1. QED
    BY <1>1, InjectiveCount
<1>3. /\ inSyncReplicas' = IF Len(w) < MinISR THEN inSyncReplicas ELSE w
      /\ rsLeader' = IF rsLeader = b THEN NewLeader(inSyncReplicas') ELSE rsLeader
  BY DEF DetectFailure, KeptISR
<1> HIDE DEF w
<1>4. FailureKeepsMinimum
  BY <1>1, <1>3 DEF FailureKeepsMinimum
<1>5. FailedBrokerGoes(b)
  <2>1. CASE Len(w) < MinISR
    BY <1>1, <1>2, <2>1 DEF FailedBrokerGoes, TooFewWithout
  <2>2. CASE ~ (Len(w) < MinISR)
    <3>1. inSyncReplicas' = w /\ b \notin ToSet(w)
      BY <1>1, <1>3, <2>2
    <3>2. MinISR > 0 => rsLeader' # b
      <4>1. MinISR > 0 => w # <<>> /\ w[1] \in ToSet(w)
        <5>1. MinISR > 0 => Len(w) > 0 /\ 1 \in DOMAIN w
          BY <1>1, <2>2, LenProperties
        <5>2. QED
          BY <5>1 DEF ToSet
      <4>2. QED
        BY <1>3, <3>1, <4>1 DEF NewLeader
    <3>3. QED
      BY <3>1, <3>2 DEF FailedBrokerGoes
  <2>3. QED
    BY <2>1, <2>2
<1>6. QED
  BY <1>4, <1>5

\* A partition's leader is one of its in-sync replicas and none of them is there twice;
\* a failure that the broker hears of removes the failed one, from the ISR and from the
\* lead, unless the others are fewer than minISR (DetectFailure, RecordReplication).
THEOREM ReplicasStaySound == ASSUME DistinctReplicas PROVE Spec => ReplicasSound
<1> DEFINE Inv == ReplInv /\ EtcdInv
           vars == <<replVars, channel>>
           Promise == /\ (LeaderInSync /\ ISRHasNoDuplicates)'
                      /\ \A b \in Brokers : HearsOfFailure(b) /\ replicating
                            => FailureKeepsMinimum /\ FailedBrokerGoes(b)
<1>1. PackagesInit => Inv
  <2>1. <<>> \in Seq(Brokers) /\ IsInjective(<<>>)
    BY EmptySeq DEF IsInjective
  <2>2. QED
    BY <2>1, InitEtcdInv
       DEF PackagesInit, ReplInit, ReplInv, ISRHasNoDuplicates, LeaderInSync
<1>2. Inv /\ [PackagesNext]_allVars => Inv'
  BY NextReplInv, ReplSteps, NextEtcdInv, EtcdSteps
<1>3. ReplInv' => (LeaderInSync /\ ISRHasNoDuplicates)'
  BY DEF ReplInv
<1>4. Inv /\ [PackagesNext]_allVars => [Promise]_vars
  <2> SUFFICES ASSUME Inv, [PackagesNext]_allVars PROVE Promise
    OBVIOUS
  <2>1. (LeaderInSync /\ ISRHasNoDuplicates)'
    BY <1>2, <1>3
  <2>2. ASSUME NEW b \in Brokers, HearsOfFailure(b), replicating
        PROVE  FailureKeepsMinimum /\ FailedBrokerGoes(b)
    <3>1. EventInv
      BY DEF EtcdInv
    <3>2. DetectFailure(b)
      BY <2>2, <3>1, HearingIsTaking
    <3>3. QED
      BY <2>2, <3>2, FailureDoesItsPart
  <2>3. QED
    BY <2>1, <2>2
<1>5. QED
  BY <1>1, <1>2, <1>4, PTL DEF Spec, ReplicasSound

-----------------------------------------------------------------------------
(* Rebalancer: lists of members and of partitions.                         *)

\* A finite set of naturals has an upper bound (by induction on its cardinality).
LEMMA FiniteBound ==
  ASSUME NEW P, IsFiniteSet(P), P \subseteq Nat
  PROVE  \E n \in Nat : P \subseteq 0 .. n
<1> DEFINE N == Cardinality(P)
           Bounded(s) == \E n \in Nat : s \subseteq 0 .. n
           T == {k \in 0 .. N : \A s \in SUBSET P : Cardinality(s) = k => Bounded(s)}
<1>1. N \in Nat /\ \A s \in SUBSET P : IsFiniteSet(s)
  BY FS_CardinalityType, FS_Subset
<1>2. 0 \in T
  <2>1. ASSUME NEW s \in SUBSET P, Cardinality(s) = 0 PROVE Bounded(s)
    <3>1. s = {}
      BY <1>1, <2>1, FS_EmptySet
    <3>2. s \subseteq 0 .. 0 /\ 0 \in Nat
      BY <3>1
    <3>3. QED
      BY <3>2
  <2>2. 0 \in 0 .. N
    BY <1>1
  <2> HIDE DEF Bounded
  <2>3. QED
    BY <2>1, <2>2
<1>3. ASSUME NEW k \in 0 .. (N - 1), k \in T PROVE k + 1 \in T
  <2>1. k \in Nat /\ k + 1 \in 0 .. N /\ k + 1 # 0 /\ (k + 1) - 1 = k
    BY <1>1
  <2>2. ASSUME NEW s \in SUBSET P, Cardinality(s) = k + 1 PROVE Bounded(s)
    <3>1. s # {} /\ IsFiniteSet(s)
      BY <1>1, <2>1, <2>2, FS_EmptySet
    <3>2. PICK d \in s : TRUE
      BY <3>1
    <3>3. Cardinality(s \ {d}) = Cardinality(s) - 1
      BY <3>1, <3>2, FS_RemoveElement
    <3>4. s \ {d} \in SUBSET P /\ Cardinality(s \ {d}) = k /\ d \in Nat
      BY <2>1, <2>2, <3>2, <3>3
    <3>5. PICK n \in Nat : s \ {d} \subseteq 0 .. n
      BY <1>3, <3>4
    <3>6. s \subseteq 0 .. n + d /\ n + d \in Nat
      <4>1. \A x \in s : x = d \/ x \in 0 .. n
        BY <3>5
      <4>2. QED
        BY <3>4, <4>1
    <3>7. QED
      BY <3>6
  <2> HIDE DEF Bounded
  <2>3. QED
    BY <2>1, <2>2
<1>4. N \in T
  <2>1. N \in 0 .. N
    BY <1>1
  <2> HIDE DEF T, N
  <2>2. QED
    BY <1>1, <1>2, <1>3, <2>1, UpTo
<1>5. QED
  BY <1>4

\* The largest number of a non-empty finite set is Max of it.
LEMMA MaxOfFinite ==
  ASSUME NEW P, IsFiniteSet(P), P \subseteq Nat, P # {}
  PROVE  Max(P) \in P /\ \A n \in P : n <= Max(P)
<1>1. PICK n \in Nat : P \subseteq 0 .. n
  BY FiniteBound
<1>2. \E x \in P : \A y \in P : y <= x
  BY <1>1, LargestNatural
<1>3. \E x \in P : \A y \in P : x >= y
  BY <1>2
<1>4. QED
  BY <1>3 DEF Max

\* The smaller of two numbers is Min of them.
LEMMA MinOfTwo ==
  ASSUME NEW a \in Int, NEW b \in Int
  PROVE  Min({a, b}) = IF a <= b THEN a ELSE b
<1>1. \E x \in {a, b} : \A y \in {a, b} : x <= y
  OBVIOUS
<1>2. Min({a, b}) \in {a, b} /\ \A y \in {a, b} : Min({a, b}) <= y
  BY <1>1 DEF Min
<1>3. QED
  BY <1>2

\* A function on 1 .. n is a sequence of length n.
LEMMA LengthOf ==
  ASSUME NEW X, NEW n \in Nat, NEW f \in [1 .. n -> X]
  PROVE  f \in Seq(X) /\ Len(f) = n
<1>1. f \in Seq(X)
  BY SeqDef
<1>2. Len(f) \in Nat /\ DOMAIN f = 1 .. Len(f)
  BY <1>1, LenProperties
<1>3. 1 .. Len(f) = 1 .. n
  BY <1>2
<1>4. QED
  <2>1. Len(f) > n => Len(f) \in 1 .. Len(f) /\ Len(f) \notin 1 .. n
    BY <1>2
  <2>2. Len(f) < n => n \in 1 .. n /\ n \notin 1 .. Len(f)
    BY <1>2
  <2>3. QED
    BY <1>1, <1>2, <1>3, <2>1, <2>2

\* A list of a finite set has each of its elements at one index.
LEMMA ListFacts ==
  ASSUME NEW S, IsFiniteSet(S), NEW list \in SetToSeqs(S)
  PROVE  /\ Len(list) = Cardinality(S) /\ Len(list) \in Nat
         /\ list \in [1 .. Len(list) -> S] /\ DOMAIN list = 1 .. Len(list)
         /\ \A i, j \in 1 .. Len(list) : list[i] = list[j] => i = j
         /\ ToSet(list) = S
         /\ \A m \in S : IndexOf(list, m) \in 1 .. Len(list) /\ list[IndexOf(list, m)] = m
         /\ \A i \in 1 .. Len(list) : IndexOf(list, list[i]) = i
<1> DEFINE k == Cardinality(S)
<1>1. k \in Nat
  BY FS_CardinalityType
<1>2. /\ list \in [1 .. k -> S] /\ DOMAIN list = 1 .. k
      /\ \A i, j \in 1 .. k : list[i] = list[j] => i = j
  BY DEF SetToSeqs
<1>3. Len(list) = k
  BY <1>1, <1>2, LengthOf
<1>4. \A m \in S : \E i \in 1 .. k : list[i] = m
  <2>1. list \in Injection(1 .. k, S)
    BY <1>2 DEF Injection, IsInjective
  <2>2. Cardinality(1 .. k) = k
    <3> HIDE DEF k
    <3>1. QED
      BY <1>1, FS_Interval
  <2>3. list \in Surjection(1 .. k, S)
    BY <2>1, <2>2, FS_Injection
  <2>4. QED
    BY <2>3 DEF Surjection
<1>5. ToSet(list) = S
  BY <1>2, <1>4 DEF ToSet
<1>6. \A m \in S : IndexOf(list, m) \in 1 .. k /\ list[IndexOf(list, m)] = m
  BY <1>2, <1>4 DEF IndexOf
<1>7. \A i \in 1 .. k : list[i] \in S
  BY <1>2
<1>8. \A i \in 1 .. k : IndexOf(list, list[i]) = i
  <2> HIDE DEF k
  <2>1. QED
    BY <1>2, <1>6, <1>7
<1> HIDE DEF k
<1>9. QED
  BY <1>1, <1>2, <1>3, <1>5, <1>6, <1>8 DEF k

-----------------------------------------------------------------------------
(* Rebalancer: the strategies that start afresh.                           *)

\* No partition is in two places of an assignment.
OnceEach(a) ==
  \A m, k \in DOMAIN a : \A i \in DOMAIN a[m], j \in DOMAIN a[k] :
    a[m][i] = a[k][j] => m = k /\ i = j

\* The partitions below n are dealt out to S, each of them once.
Dealt(a, S, n) ==
  /\ a \in [S -> Seq(0 .. (n - 1))]
  /\ 0 .. (n - 1) \subseteq Held(a)
  /\ OnceEach(a)

\* As many members as the remainder have one partition more than the rest.
Even(a, S, n) ==
  \E A \in SUBSET S :
    /\ Cardinality(A) = n % Cardinality(S)
    /\ \A m \in S : Len(a[m]) = n \div Cardinality(S) + (IF m \in A THEN 1 ELSE 0)

\* What a share is.
LEMMA ShareFacts ==
  ASSUME NEW k \in Nat \ {0}, NEW n \in Nat
  PROVE  /\ n \div k \in Nat /\ n % k \in 0 .. k - 1 /\ n = k * (n \div k) + (n % k)
         /\ \A i \in Nat : /\ Share(i, k, n) \in Nat
                           /\ i <= n % k => Share(i, k, n) = n \div k + 1
                           /\ i > n % k => Share(i, k, n) = n \div k
<1>1. n \div k \in Nat /\ n % k \in 0 .. k - 1 /\ n = k * (n \div k) + (n % k)
  BY DivideBy
<1>2. ASSUME NEW i \in Nat
      PROVE  /\ Share(i, k, n) \in Nat
             /\ i <= n % k => Share(i, k, n) = n \div k + 1
             /\ i > n % k => Share(i, k, n) = n \div k
  BY <1>1 DEF Share
<1>3. QED
  BY <1>1, <1>2

\* Shares in the order of a list are even.
LEMMA SharesAreEven ==
  ASSUME NEW S, IsFiniteSet(S), S # {}, NEW list \in SetToSeqs(S), NEW n \in Nat, NEW a,
         \A m \in S : Len(a[m]) = Share(IndexOf(list, m), Cardinality(S), n)
  PROVE  Even(a, S, n)
<1> DEFINE k == Cardinality(S)
           r == n % k
           A == {list[i] : i \in 1 .. r}
           f == [i \in 1 .. r |-> list[i]]
<1>1. /\ k \in Nat \ {0} /\ list \in [1 .. k -> S]
      /\ \A i, j \in 1 .. k : list[i] = list[j] => i = j
      /\ \A m \in S : IndexOf(list, m) \in 1 .. k /\ list[IndexOf(list, m)] = m
      /\ \A i \in 1 .. k : IndexOf(list, list[i]) = i
  BY ListFacts, FS_EmptySet
<1> HIDE DEF k
<1>2. n \div k \in Nat /\ r \in 0 .. k - 1
  BY <1>1, ShareFacts
<1> HIDE DEF r
<1>3. \A i \in 1 .. r : i \in 1 .. k
  BY <1>1, <1>2
<1>4. A \in SUBSET S
  BY <1>1, <1>3
<1>5. Cardinality(A) = r
  <2>1. f \in [1 .. r -> A] /\ \A i, j \in 1 .. r : f[i] = f[j] => i = j
    BY <1>1, <1>3
  <2>2. \A x \in A : \E i \in 1 .. r : f[i] = x
    OBVIOUS
  <2>3. f \in Bijection(1 .. r, A)
    <3> HIDE DEF f, A
    <3>1. QED
      BY <2>1, <2>2 DEF Bijection, Injection, Surjection, IsInjective
  <2>4. ExistsBijection(1 .. r, A)
    BY <2>3 DEF ExistsBijection
  <2> HIDE DEF A
  <2>5. r \in Nat
    BY <1>1, <1>2
  <2>6. QED
    BY <2>4, <2>5, FS_CountingElements
<1>6. ASSUME NEW m \in S PROVE Len(a[m]) = n \div k + (IF m \in A THEN 1 ELSE 0)
  <2> DEFINE i == IndexOf(list, m)
  <2>1. Len(a[m]) = Share(i, k, n)
    BY DEF k
  <2>2. i \in 1 .. k /\ list[i] = m
    BY <1>1
  <2>3. Share(i, k, n) = n \div k + (IF i <= r THEN 1 ELSE 0)
    BY DEF Share, r
  <2> HIDE DEF i
  <2>4. m \in A <=> i <= r
    <3>1. i <= r => i \in 1 .. r
      BY <1>2, <2>2
    <3>2. ASSUME NEW j \in 1 .. r, m = list[j] PROVE i <= r
      <4>1. j = i
        BY <1>1, <1>3, <2>2, <3>2
      <4>2. QED
        BY <1>2, <4>1
    <3>3. QED
      BY <2>2, <3>1, <3>2
  <2> HIDE DEF A
  <2>5. QED
    BY <2>1, <2>3, <2>4
<1> HIDE DEF A
<1>7. QED
  BY <1>4, <1>5, <1>6 DEF Even, k, r

\* Round robin deals every partition once, in even shares.
LEMMA RoundRobinDeals ==
  ASSUME NEW S, IsFiniteSet(S), S # {}, NEW list \in SetToSeqs(S), NEW n \in Nat
  PROVE  /\ Dealt(RoundRobinAssign(list, n), S, n)
         /\ Even(RoundRobinAssign(list, n), S, n)
<1> DEFINE k == Len(list)
           q == n \div k
           r == n % k
           a == RoundRobinAssign(list, n)
           at(m) == IndexOf(list, m)
           sh(i) == Share(i, k, n)
           part(i, j) == (j - 1) * k + i - 1
<1>1. /\ k = Cardinality(S) /\ k \in Nat \ {0} /\ ToSet(list) = S
      /\ \A i, j \in 1 .. k : list[i] = list[j] => i = j
      /\ \A m \in S : at(m) \in 1 .. k /\ list[at(m)] = m
      /\ \A i \in 1 .. k : list[i] \in S /\ at(list[i]) = i
  BY ListFacts, FS_EmptySet
<1>2. a = [m \in S |-> [j \in 1 .. sh(at(m)) |-> part(at(m), j)]]
  BY <1>1 DEF RoundRobinAssign
<1> HIDE DEF k, at
<1>3. /\ q \in Nat /\ r \in 0 .. k - 1 /\ n = k * q + r
      /\ \A i \in Nat : /\ sh(i) \in Nat /\ (i <= r => sh(i) = q + 1)
                        /\ (i > r => sh(i) = q)
  BY <1>1, ShareFacts
<1> HIDE DEF a, q, r, sh
<1>4. ASSUME NEW i \in 1 .. k, NEW j \in 1 .. sh(i)
      PROVE  part(i, j) \in 0 .. (n - 1)
  <2>1. i \in Nat /\ j \in Nat \ {0} /\ i - 1 \in 0 .. k - 1 /\ j - 1 \in Nat
    BY <1>1, <1>3
  <2>2. (j - 1) * k \in Nat
    BY <1>1, <2>1
  <2>3. CASE j <= q
    <3>1. q - j \in Nat
      BY <1>3, <2>1, <2>3
    <3>2. (q - j) * k \in Nat
      BY <1>1, <3>1
    <3>3. k * q = (j - 1) * k + k + (q - j) * k
      BY <1>1, <1>3, <2>1
    <3>4. QED
      BY <1>1, <1>3, <2>1, <2>2, <3>2, <3>3
  <2>4. CASE j > q
    <3>1. i <= r /\ j = q + 1
      BY <1>1, <1>3, <2>1, <2>4
    <3>2. (j - 1) * k = k * q
      BY <1>1, <1>3, <3>1
    <3>3. QED
      BY <1>1, <1>3, <2>1, <2>2, <3>1, <3>2
  <2>5. QED
    BY <1>3, <2>1, <2>3, <2>4
<1>5. ASSUME NEW m \in S
      PROVE  /\ a[m] \in Seq(0 .. (n - 1)) /\ Len(a[m]) = sh(at(m))
             /\ DOMAIN a[m] = 1 .. sh(at(m))
             /\ \A j \in 1 .. sh(at(m)) : a[m][j] = part(at(m), j)
  <2>1. at(m) \in 1 .. k /\ sh(at(m)) \in Nat
    BY <1>1, <1>3
  <2>2. a[m] = [j \in 1 .. sh(at(m)) |-> part(at(m), j)]
    BY <1>2
  <2>3. \A j \in 1 .. sh(at(m)) : part(at(m), j) \in 0 .. (n - 1)
    BY <1>4, <2>1
  <2> HIDE DEF part
  <2>4. a[m] \in [1 .. sh(at(m)) -> 0 .. (n - 1)]
    BY <2>2, <2>3
  <2>5. a[m] \in Seq(0 .. (n - 1)) /\ Len(a[m]) = sh(at(m))
    BY <2>1, <2>4, LengthOf
  <2>6. QED
    BY <2>2, <2>5
<1>6. a \in [S -> Seq(0 .. (n - 1))]
  <2>1. \A m \in S : a[m] \in Seq(0 .. (n - 1))
    BY <1>5
  <2>2. a = [m \in S |-> a[m]]
    BY <1>2
  <2>3. QED
    BY <2>1, <2>2
<1>7. ASSUME NEW p \in 0 .. (n - 1) PROVE p \in Held(a)
  <2> DEFINE c == p \div k
             e == p % k
             i == e + 1
             j == c + 1
             m == list[i]
  <2>0. p \in Nat
    OBVIOUS
  <2>1. c \in Nat /\ e \in 0 .. k - 1 /\ p = k * c + e
    BY <1>1, <2>0, DivideBy
  <2> HIDE DEF c, e
  <2>2. i \in 1 .. k /\ m \in S /\ at(m) = i
    <3>1. i \in 1 .. k
      BY <1>1, <2>1
    <3> HIDE DEF i
    <3>2. QED
      BY <1>1, <3>1
  <2>3. c <= q
    <3>1. CASE c > q
      <4> DEFINE d == (c) - q - 1
      <4>1. d \in Nat
        BY <1>3, <2>1, <3>1
      <4>2. k * (c) = k * q + k + k * d
        BY <1>1, <1>3, <2>1, <4>1
      <4>3. k * d \in Nat /\ k * q \in Nat
        BY <1>1, <1>3, <4>1
      <4>4. k * (c) > n
        <5> HIDE DEF d
        <5>1. QED
          BY <1>1, <1>3, <4>2, <4>3
      <4>5. QED
        BY <1>1, <1>3, <2>1, <4>4
    <3>2. QED
      BY <1>3, <2>1, <3>1
  <2>4. j \in 1 .. sh(i)
    <3>1. CASE c = q
      <4>1. k * (c) = k * q /\ k * q \in Nat
        BY <1>1, <1>3, <3>1
      <4>2. e < r
        BY <1>1, <1>3, <2>1, <4>1
      <4>3. sh(i) = q + 1
        BY <1>3, <2>1, <2>2, <4>2
      <4>4. QED
        BY <1>3, <3>1, <4>3
    <3>2. CASE c < q
      <4>1. sh(i) \in Nat /\ sh(i) >= q
        BY <1>1, <1>3, <2>2
      <4>2. QED
        BY <1>3, <2>1, <3>2, <4>1
    <3>3. QED
      BY <1>3, <2>1, <2>3, <3>1, <3>2
  <2>5. part(i, j) = p
    <3>1. (j - 1) * k = k * (c)
      BY <1>1, <2>1
    <3>2. k * (c) \in Nat
      BY <1>1, <2>1
    <3>3. QED
      BY <1>1, <2>1, <3>1, <3>2
  <2> HIDE DEF i, j, m, part
  <2>6. j \in DOMAIN a[m] /\ a[m][j] = p
    BY <1>5, <2>2, <2>4, <2>5
  <2>7. m \in DOMAIN a
    BY <1>6, <2>2
  <2>8. QED
    BY <2>6, <2>7 DEF Held, ToSet
<1>8. OnceEach(a)
  <2>1. ASSUME NEW m1 \in S, NEW m2 \in S, NEW i \in 1 .. sh(at(m1)),
               NEW j \in 1 .. sh(at(m2)), a[m1][i] = a[m2][j]
        PROVE  m1 = m2 /\ i = j
    <3> DEFINE x == at(m1)
               y == at(m2)
    <3>1. /\ x \in 1 .. k /\ y \in 1 .. k /\ x - 1 \in 0 .. k - 1 /\ y - 1 \in 0 .. k - 1
          /\ i - 1 \in Nat /\ j - 1 \in Nat
      BY <1>1, <1>3
    <3>2. (i - 1) * k + x - 1 = (j - 1) * k + y - 1
      BY <1>5, <2>1
    <3> HIDE DEF x, y
    <3>3. (i - 1) * k \in Nat /\ (j - 1) * k \in Nat
      BY <1>1, <3>1
    <3>4. k * (i - 1) + (x - 1) = k * (j - 1) + (y - 1)
      BY <1>1, <3>1, <3>2, <3>3
    <3>5. x - 1 = y - 1
      <4>1. (k * (i - 1) + (x - 1)) % k = x - 1 /\ (k * (j - 1) + (y - 1)) % k = y - 1
        BY <1>1, <3>1, Residue
      <4>2. QED
        BY <3>4, <4>1
    <3>6. x = y
      BY <3>1, <3>5
    <3>7. k * (i - j) = 0
      <4>1. k * (i - j) = k * (i - 1) - k * (j - 1)
        BY <1>1, <3>1
      <4>2. k * (i - 1) = k * (j - 1)
        BY <1>1, <3>1, <3>3, <3>4, <3>6
      <4>3. QED
        BY <1>1, <3>1, <4>1, <4>2
    <3>8. i - j = 0
      BY <1>1, <3>1, <3>7, Multiples
    <3>9. m1 = m2
      BY <1>1, <3>6 DEF x, y
    <3>10. QED
      BY <3>1, <3>8, <3>9
  <2>2. DOMAIN a = S
    BY <1>6
  <2>3. \A m \in S : DOMAIN a[m] = 1 .. sh(at(m))
    BY <1>5
  <2>4. ASSUME NEW m1 \in DOMAIN a, NEW m2 \in DOMAIN a, NEW i \in DOMAIN a[m1],
               NEW j \in DOMAIN a[m2], a[m1][i] = a[m2][j]
        PROVE  m1 = m2 /\ i = j
    <3>1. m1 \in S /\ m2 \in S
      BY <2>2
    <3>2. i \in 1 .. sh(at(m1)) /\ j \in 1 .. sh(at(m2))
      BY <2>3, <3>1
    <3>3. QED
      BY <2>1, <2>4, <3>1, <3>2
  <2>5. QED
    BY <2>4 DEF OnceEach
<1>9. Even(a, S, n)
  <2>1. \A m \in S : Len(a[m]) = Share(IndexOf(list, m), Cardinality(S), n)
    BY <1>1, <1>5 DEF sh, at
  <2>2. QED
    BY <2>1, SharesAreEven
<1>10. QED
  BY <1>6, <1>7, <1>8, <1>9 DEF Dealt, a

\* Range deals every partition once, in even shares.
LEMMA RangeDeals ==
  ASSUME NEW S, IsFiniteSet(S), S # {}, NEW list \in SetToSeqs(S), NEW n \in Nat
  PROVE  /\ Dealt(RangeAssign(list, n), S, n)
         /\ Even(RangeAssign(list, n), S, n)
<1> DEFINE k == Len(list)
           q == n \div k
           r == n % k
           a == RangeAssign(list, n)
           at(m) == IndexOf(list, m)
           sh(i) == Share(i, k, n)
           low(i) == (i - 1) * q + Min({i - 1, r})
           first(i) == (i - 1) * q + (IF i - 1 <= r THEN i - 1 ELSE r)
           part(i, j) == first(i) + j - 1
<1>1. /\ k = Cardinality(S) /\ k \in Nat \ {0} /\ ToSet(list) = S
      /\ \A m \in S : at(m) \in 1 .. k /\ list[at(m)] = m
      /\ \A i \in 1 .. k : list[i] \in S /\ at(list[i]) = i
  BY ListFacts, FS_EmptySet
<1>2. a = [m \in S |-> [j \in 1 .. sh(at(m)) |-> low(at(m)) + j - 1]]
  BY <1>1 DEF RangeAssign
<1> HIDE DEF k, at
<1>3. /\ q \in Nat /\ r \in 0 .. k - 1 /\ n = k * q + r
      /\ \A i \in Nat : /\ sh(i) \in Nat /\ (i <= r => sh(i) = q + 1)
                        /\ (i > r => sh(i) = q)
  BY <1>1, ShareFacts
<1> HIDE DEF a, q, r, sh
<1>4. ASSUME NEW i \in 1 .. k PROVE low(i) = first(i)
  <2>1. i - 1 \in Int /\ r \in Int
    BY <1>1, <1>3
  <2>2. Min({i - 1, r}) = IF i - 1 <= r THEN i - 1 ELSE r
    BY <2>1, MinOfTwo
  <2>3. QED
    BY <2>2
<1>5. ASSUME NEW i \in 1 .. k
      PROVE  first(i) \in Nat /\ first(i + 1) = first(i) + sh(i)
  <2>1. i - 1 \in Nat /\ i \in Nat /\ (i + 1) - 1 = i
    BY <1>1
  <2>2. (i - 1) * q \in Nat /\ i * q = (i - 1) * q + q
    BY <1>3, <2>1
  <2>3. first(i + 1) = i * q + (IF i <= r THEN i ELSE r)
    BY <2>1
  <2>4. first(i) = (i - 1) * q + (IF i - 1 <= r THEN i - 1 ELSE r)
    OBVIOUS
  <2> HIDE DEF first
  <2>5. CASE i <= r
    <3>1. sh(i) = q + 1 /\ i - 1 <= r
      BY <1>1, <1>3, <2>1, <2>5
    <3>2. QED
      BY <1>3, <2>1, <2>2, <2>3, <2>4, <2>5, <3>1
  <2>6. CASE i > r
    <3>1. sh(i) = q /\ r \in Nat
      BY <1>1, <1>3, <2>1, <2>6
    <3>2. (IF i - 1 <= r THEN i - 1 ELSE r) = r
      BY <2>1, <2>6, <3>1
    <3>3. (IF i <= r THEN i ELSE r) = r
      BY <2>1, <2>6, <3>1
    <3>4. QED
      BY <1>3, <2>1, <2>2, <2>3, <2>4, <3>1, <3>2, <3>3
  <2>7. QED
    BY <1>1, <1>3, <2>1, <2>5, <2>6
<1>6. first(1) = 0 /\ first(k + 1) = n
  <2>1. first(1) = 0
    <3>1. 0 * q = 0 /\ 0 <= r /\ 1 - 1 = 0
      BY <1>1, <1>3
    <3>2. QED
      BY <3>1
  <2>2. first(k + 1) = n
    <3>1. (k + 1) - 1 = k /\ ~ (k <= r)
      BY <1>1, <1>3
    <3>2. QED
      BY <1>3, <3>1
  <2>3. QED
    BY <2>1, <2>2
<1> HIDE DEF low, first
<1>7. ASSUME NEW i \in 1 .. k PROVE \A d \in 0 .. k - i : first(i) + sh(i) <= first(i + 1 + d)
  <2> DEFINE T == {d \in 0 .. k - i : /\ first(i + 1 + d) \in Nat
                                      /\ first(i) + sh(i) <= first(i + 1 + d)}
  <2>1. k - i \in Nat /\ i \in Nat /\ i + 1 + 0 = i + 1
    BY <1>1
  <2>2. first(i) \in Nat /\ first(i + 1) = first(i) + sh(i) /\ sh(i) \in Nat
    BY <1>3, <1>5, <2>1
  <2>3. 0 \in T
    BY <2>1, <2>2
  <2>4. ASSUME NEW d \in 0 .. (k - i) - 1, d \in T PROVE d + 1 \in T
    <3>1. i + 1 + d \in 1 .. k /\ (i + 1 + d) + 1 = i + 1 + (d + 1) /\ d + 1 \in 0 .. k - i
      BY <1>1, <2>1
    <3>2. first(i + 1 + (d + 1)) = first(i + 1 + d) + sh(i + 1 + d)
      BY <1>5, <3>1
    <3>3. sh(i + 1 + d) \in Nat
      BY <1>3, <3>1
    <3>4. QED
      BY <2>2, <2>4, <3>1, <3>2, <3>3
  <2>5. \A d \in 0 .. k - i : d \in T
    <3> HIDE DEF T
    <3>1. QED
      BY <2>1, <2>3, <2>4, UpTo
  <2>6. QED
    BY <2>5
<1>8. ASSUME NEW i \in 1 .. k, NEW j \in 1 .. k, i < j PROVE first(i) + sh(i) <= first(j)
  <2>1. j - i - 1 \in 0 .. k - i /\ i + 1 + (j - i - 1) = j
    BY <1>1, <1>8
  <2>2. QED
    BY <1>7, <2>1
<1>9. ASSUME NEW i \in 1 .. k PROVE first(i) + sh(i) <= n
  <2>1. k - i \in 0 .. k - i /\ i + 1 + (k - i) = k + 1
    BY <1>1
  <2>2. QED
    BY <1>6, <1>7, <2>1
<1>10. ASSUME NEW i \in 1 .. k, NEW j \in 1 .. sh(i) PROVE part(i, j) \in 0 .. (n - 1)
  <2>1. first(i) \in Nat /\ first(i) + sh(i) <= n /\ sh(i) \in Nat
    BY <1>1, <1>3, <1>5, <1>9
  <2>2. QED
    BY <2>1
<1>11. ASSUME NEW m \in S
       PROVE  /\ a[m] \in Seq(0 .. (n - 1)) /\ Len(a[m]) = sh(at(m))
              /\ DOMAIN a[m] = 1 .. sh(at(m))
              /\ \A j \in 1 .. sh(at(m)) : a[m][j] = part(at(m), j)
  <2>1. at(m) \in 1 .. k /\ sh(at(m)) \in Nat /\ low(at(m)) = first(at(m))
    BY <1>1, <1>3, <1>4
  <2>2. a[m] = [j \in 1 .. sh(at(m)) |-> part(at(m), j)]
    BY <1>2, <2>1
  <2>3. \A j \in 1 .. sh(at(m)) : part(at(m), j) \in 0 .. (n - 1)
    BY <1>10, <2>1
  <2> HIDE DEF part
  <2>4. a[m] \in [1 .. sh(at(m)) -> 0 .. (n - 1)]
    BY <2>2, <2>3
  <2>5. a[m] \in Seq(0 .. (n - 1)) /\ Len(a[m]) = sh(at(m))
    BY <2>1, <2>4, LengthOf
  <2>6. QED
    BY <2>2, <2>5
<1>12. a \in [S -> Seq(0 .. (n - 1))]
  <2>1. \A m \in S : a[m] \in Seq(0 .. (n - 1))
    BY <1>11
  <2>2. a = [m \in S |-> a[m]]
    BY <1>2
  <2>3. QED
    BY <2>1, <2>2
<1>13. ASSUME NEW p \in 0 .. (n - 1) PROVE p \in Held(a)
  <2> DEFINE U == {i \in 1 .. k : first(i) <= p}
  <2>1. 1 \in U
    BY <1>1, <1>6
  <2>2. PICK i \in U : \A x \in U : x <= i
    <3>1. U \subseteq 0 .. k /\ k \in Nat /\ U # {}
      BY <1>1, <2>1
    <3> HIDE DEF U
    <3>2. QED
      BY <3>1, LargestNatural
  <2>3. i \in 1 .. k /\ first(i) <= p /\ first(i) \in Nat /\ sh(i) \in Nat
    BY <1>1, <1>3, <1>5
  <2>4. p < first(i) + sh(i)
    <3>1. CASE i = k
      BY <1>1, <1>5, <1>6, <2>3, <3>1
    <3>2. CASE i # k
      <4>1. i + 1 \in 1 .. k /\ i + 1 > i
        BY <1>1, <2>3, <3>2
      <4>2. ~ (first(i + 1) <= p)
        BY <2>2, <4>1
      <4>3. QED
        BY <1>5, <2>3, <4>2
    <3>3. QED
      BY <3>1, <3>2
  <2> DEFINE m == list[i]
             j == p - first(i) + 1
  <2>5. j \in 1 .. sh(i) /\ part(i, j) = p
    BY <2>3, <2>4
  <2>6. m \in S /\ at(m) = i
    BY <1>1, <2>3
  <2> HIDE DEF m, j, part
  <2>7. j \in DOMAIN a[m] /\ a[m][j] = p
    BY <1>11, <2>5, <2>6
  <2>8. m \in DOMAIN a
    BY <1>12, <2>6
  <2>9. QED
    BY <2>7, <2>8 DEF Held, ToSet
<1>14. OnceEach(a)
  <2>1. ASSUME NEW m1 \in S, NEW m2 \in S, NEW i \in 1 .. sh(at(m1)),
               NEW j \in 1 .. sh(at(m2)), a[m1][i] = a[m2][j]
        PROVE  m1 = m2 /\ i = j
    <3> DEFINE x == at(m1)
               y == at(m2)
    <3>1. /\ x \in 1 .. k /\ y \in 1 .. k /\ first(x) \in Nat /\ first(y) \in Nat
          /\ sh(x) \in Nat /\ sh(y) \in Nat
      BY <1>1, <1>3, <1>5
    <3>2. first(x) + i - 1 = first(y) + j - 1
      BY <1>11, <2>1
    <3> HIDE DEF x, y
    <3>3. i \in 1 .. sh(x) /\ j \in 1 .. sh(y)
      BY DEF x, y
    <3>4. ~ (x < y)
      <4>1. x < y => first(x) + sh(x) <= first(y)
        BY <1>8, <3>1
      <4>2. QED
        BY <3>1, <3>2, <3>3, <4>1
    <3>5. ~ (y < x)
      <4>1. y < x => first(y) + sh(y) <= first(x)
        BY <1>8, <3>1
      <4>2. QED
        BY <3>1, <3>2, <3>3, <4>1
    <3>6. x = y
      BY <3>1, <3>4, <3>5
    <3>7. i = j
      BY <3>1, <3>2, <3>3, <3>6
    <3>8. m1 = m2
      BY <1>1, <3>6 DEF x, y
    <3>9. QED
      BY <3>7, <3>8
  <2>2. DOMAIN a = S
    BY <1>12
  <2>3. \A m \in S : DOMAIN a[m] = 1 .. sh(at(m))
    BY <1>11
  <2>4. ASSUME NEW m1 \in DOMAIN a, NEW m2 \in DOMAIN a, NEW i \in DOMAIN a[m1],
               NEW j \in DOMAIN a[m2], a[m1][i] = a[m2][j]
        PROVE  m1 = m2 /\ i = j
    <3>1. m1 \in S /\ m2 \in S
      BY <2>2
    <3>2. i \in 1 .. sh(at(m1)) /\ j \in 1 .. sh(at(m2))
      BY <2>3, <3>1
    <3>3. QED
      BY <2>1, <2>4, <3>1, <3>2
  <2>5. QED
    BY <2>4 DEF OnceEach
<1>15. Even(a, S, n)
  <2>1. \A m \in S : Len(a[m]) = Share(IndexOf(list, m), Cardinality(S), n)
    BY <1>1, <1>11 DEF sh, at
  <2>2. QED
    BY <2>1, SharesAreEven
<1>16. QED
  BY <1>12, <1>13, <1>14, <1>15 DEF Dealt, a

-----------------------------------------------------------------------------
(* Rebalancer: the skew of even shares.                                    *)

\* The sums that CalculateAssignmentSkew takes: of the members' counts, and of the
\* squares of c times a count less b.
CountSum(a, D) == MapThenSumSet(LAMBDA m : Len(a[m]), D)

SquareSum(a, D, c, b) ==
  MapThenSumSet(LAMBDA m : (c * Len(a[m]) - b) * (c * Len(a[m]) - b), D)

\* The counts, and the squares, are x for the members in A and y for the rest.
CountsAre(a, D, A, x, y) == \A m \in D : Len(a[m]) = IF m \in A THEN x ELSE y

SquaresAre(a, D, c, b, A, x, y) ==
  \A m \in D : (c * Len(a[m]) - b) * (c * Len(a[m]) - b) = IF m \in A THEN x ELSE y

\* The sum of the members' counts, when some have x partitions and the rest y.
LEMMA SumOfCounts ==
  ASSUME NEW D, IsFiniteSet(D), NEW a, NEW A, A \subseteq D, NEW x \in Int, NEW y \in Int,
         CountsAre(a, D, A, x, y)
  PROVE  CountSum(a, D) = x * Cardinality(A) + y * (Cardinality(D) - Cardinality(A))
<1> DEFINE w == [m \in D |-> Len(a[m])]
           pick == [s \in SUBSET D |-> CHOOSE m \in s : TRUE]
           Round(g, s) == IF s = {} THEN 0
                          ELSE Len(a[CHOOSE m \in s : TRUE]) + g[s \ {CHOOSE m \in s : TRUE}]
           sum == CHOOSE g : g = [s \in SUBSET D |-> Round(g, s)]
<1>1. CountSum(a, D) = sum[D]
  BY DEF CountSum, MapThenSumSet, MapThenFoldSet
<1>2. Picks(pick, D) /\ TwoValues(w, D, A, x, y) /\ \A m \in D : w[m] \in Int
  BY DEF Picks, TwoValues, CountsAre
<1>3. ASSUME NEW g, NEW s \in SUBSET D
      PROVE  Round(g, s) = IF s = {} THEN 0 ELSE w[pick[s]] + g[s \ {pick[s]}]
  <2>1. s # {} => pick[s] \in D
    BY <1>2 DEF Picks
  <2>2. QED
    BY <2>1
<1>4. PICK g \in [SUBSET D -> Int] : SumOf(g, D, w, pick)
  <2> HIDE DEF w, pick
  <2>1. QED
    BY <1>2, SumExists
<1> HIDE DEF w, pick, Round
<1>5. g = [s \in SUBSET D |-> Round(g, s)]
  BY <1>3, <1>4 DEF SumOf
<1>6. sum = [s \in SUBSET D |-> Round(sum, s)]
  BY <1>5
<1> HIDE DEF sum
<1>7. SumOf(sum, D, w, pick)
  BY <1>3, <1>6 DEF SumOf
<1>8. sum[D] = x * Cardinality(A) + y * (Cardinality(D) - Cardinality(A))
  BY <1>2, <1>7, TwoValuedSum
<1>9. QED
  BY <1>1, <1>8

\* The sum of the squares, when some are x and the rest y.
LEMMA SumOfSquares ==
  ASSUME NEW D, IsFiniteSet(D), NEW a, NEW c, NEW b,
         NEW A, A \subseteq D, NEW x \in Int, NEW y \in Int,
         SquaresAre(a, D, c, b, A, x, y)
  PROVE  SquareSum(a, D, c, b) = x * Cardinality(A) + y * (Cardinality(D) - Cardinality(A))
<1> DEFINE sq(m) == (c * Len(a[m]) - b) * (c * Len(a[m]) - b)
           w == [m \in D |-> sq(m)]
           pick == [s \in SUBSET D |-> CHOOSE m \in s : TRUE]
           Round(g, s) == IF s = {} THEN 0
                          ELSE sq(CHOOSE m \in s : TRUE) + g[s \ {CHOOSE m \in s : TRUE}]
           sum == CHOOSE g : g = [s \in SUBSET D |-> Round(g, s)]
<1>1. SquareSum(a, D, c, b) = sum[D]
  BY DEF SquareSum, MapThenSumSet, MapThenFoldSet
<1>3. \A m \in D : sq(m) = IF m \in A THEN x ELSE y
  BY DEF SquaresAre
<1> HIDE DEF sq
<1>4. Picks(pick, D) /\ TwoValues(w, D, A, x, y) /\ \A m \in D : w[m] \in Int
  BY <1>3 DEF Picks, TwoValues
<1>5. ASSUME NEW g, NEW s \in SUBSET D
      PROVE  Round(g, s) = IF s = {} THEN 0 ELSE w[pick[s]] + g[s \ {pick[s]}]
  <2>1. s # {} => pick[s] \in D
    BY <1>4 DEF Picks
  <2>2. QED
    BY <2>1
<1>6. PICK g \in [SUBSET D -> Int] : SumOf(g, D, w, pick)
  <2> HIDE DEF w, pick
  <2>1. QED
    BY <1>4, SumExists
<1> HIDE DEF w, pick, Round
<1>7. g = [s \in SUBSET D |-> Round(g, s)]
  BY <1>5, <1>6 DEF SumOf
<1>8. sum = [s \in SUBSET D |-> Round(sum, s)]
  BY <1>7
<1> HIDE DEF sum
<1>9. SumOf(sum, D, w, pick)
  BY <1>5, <1>8 DEF SumOf
<1>10. sum[D] = x * Cardinality(A) + y * (Cardinality(D) - Cardinality(A))
  BY <1>4, <1>9, TwoValuedSum
<1>11. QED
  BY <1>1, <1>10

\* A multiple of k, divided by k.
LEMMA ExactDivision ==
  ASSUME NEW k \in Nat \ {0}, NEW z \in Nat
  PROVE  (k * z) \div k = z
<1> DEFINE v == k * z
<1>1. v \in Nat
  OBVIOUS
<1>2. (k * z + 0) % k = 0 /\ k * z + 0 = v
  BY Residue
<1>3. v \div k \in Nat /\ v % k \in 0 .. k - 1 /\ v = k * (v \div k) + (v % k)
  BY <1>1, DivideBy
<1>4. v % k = 0
  BY <1>2
<1> DEFINE u == v \div k
<1> HIDE DEF u
<1>5. k * (z - u) = 0
  <2>0. u \in Nat
    BY <1>3 DEF u
  <2>1. k * (z - u) = k * z - k * u
    BY <2>0
  <2>2. v = k * u + 0 /\ k * u \in Nat
    BY <1>3, <1>4 DEF u
  <2>3. QED
    BY <2>1, <2>2
<1>6. z - u = 0
  BY <1>3, <1>5, Multiples DEF u
<1>7. QED
  BY <1>3, <1>6 DEF u

\* Even shares have the least skew.
LEMMA EvenSkew ==
  ASSUME NEW S, IsFiniteSet(S), S # {}, NEW n \in Nat, NEW a, DOMAIN a = S, Even(a, S, n)
  PROVE  CalculateAssignmentSkew(a)
           = (n % Cardinality(S)) * (Cardinality(S) - (n % Cardinality(S)))
<1> DEFINE k == Cardinality(S)
           q == n \div k
           r == n % k
<1>1. k \in Nat \ {0}
  BY FS_CardinalityType, FS_EmptySet
<1> HIDE DEF k
<1>2. q \in Nat /\ r \in 0 .. k - 1 /\ n = k * q + r
  BY <1>1, DivideBy
<1>3. PICK A \in SUBSET S :
        Cardinality(A) = r /\ \A m \in S : Len(a[m]) = q + (IF m \in A THEN 1 ELSE 0)
  BY DEF Even, k
<1> HIDE DEF q, r
<1>4. \A m \in S : Len(a[m]) = IF m \in A THEN q + 1 ELSE q
  BY <1>2, <1>3
<1>5. CountSum(a, S) = n
  <2>1. CountSum(a, S) = (q + 1) * r + q * (k - r)
    <3>1. q + 1 \in Int /\ q \in Int /\ CountsAre(a, S, A, q + 1, q)
      BY <1>2, <1>4 DEF CountsAre
    <3>2. QED
      BY <1>3, <3>1, SumOfCounts DEF k
  <2>2. (q + 1) * r + q * (k - r) = k * q + r
    <3>1. (q + 1) * r = q * r + r /\ q * (k - r) = q * k - q * r
      BY <1>1, <1>2
    <3>2. q * r \in Int /\ q * k \in Int /\ q * k = k * q
      BY <1>1, <1>2
    <3>3. QED
      BY <1>2, <3>1, <3>2
  <2>3. QED
    BY <1>2, <2>1, <2>2
<1> DEFINE x == (k - r) * (k - r)
           y == r * r
           rest == k - r
<1>6. rest \in Nat /\ r \in Nat /\ k = r + rest
  BY <1>1, <1>2
<1>7. ASSUME NEW m \in S
      PROVE  (k * Len(a[m]) - n) * (k * Len(a[m]) - n) = IF m \in A THEN x ELSE y
  <2>1. k * (q + 1) = k * q + k /\ k * q \in Int
    BY <1>1, <1>2
  <2>2. CASE m \in A
    <3>1. k * Len(a[m]) - n = k - r
      BY <1>1, <1>2, <1>4, <2>1, <2>2
    <3>2. QED
      BY <2>2, <3>1
  <2>3. CASE m \notin A
    <3>1. k * Len(a[m]) - n = - r
      BY <1>1, <1>2, <1>4, <2>1, <2>3
    <3>2. (- r) * (- r) = r * r
      BY <1>6
    <3>3. QED
      BY <2>3, <3>1, <3>2
  <2>4. QED
    BY <2>2, <2>3
<1>8. SquareSum(a, S, k, n) = x * r + y * (k - r)
  <2>1. x \in Int /\ y \in Int
    BY <1>6
  <2>2. SquaresAre(a, S, k, n, A, x, y)
    BY <1>7 DEF SquaresAre
  <2> HIDE DEF x, y
  <2>3. QED
    BY <1>3, <2>1, <2>2, SumOfSquares DEF k
<1>9. x * r + y * (k - r) = k * (r * rest) /\ r * rest \in Nat
  <2> HIDE DEF rest
  <2>1. x * r + y * (k - r) = (rest * rest) * r + (r * r) * rest
    BY DEF rest
  <2>2. (rest * rest) * r = rest * (r * rest) /\ (r * r) * rest = r * (r * rest)
    BY <1>6
  <2>3. (r + rest) * (r * rest) = r * (r * rest) + rest * (r * rest)
    BY <1>6
  <2>4. r * rest \in Nat /\ r * (r * rest) \in Int /\ rest * (r * rest) \in Int
    BY <1>6
  <2> HIDE DEF x, y
  <2>5. QED
    BY <1>6, <2>1, <2>2, <2>3, <2>4
<1> HIDE DEF x, y, rest
<1>10. (k * (r * rest)) \div k = r * rest
  BY <1>1, <1>9, ExactDivision
<1>11. CalculateAssignmentSkew(a) = SquareSum(a, S, k, n) \div k
  <2>1. CalculateAssignmentSkew(a)
          = SquareSum(a, DOMAIN a, Cardinality(DOMAIN a), CountSum(a, DOMAIN a))
              \div (IF Cardinality(DOMAIN a) = 0 THEN 1 ELSE Cardinality(DOMAIN a))
    BY DEF CalculateAssignmentSkew, SquareSum, CountSum
  <2>2. QED
    BY <1>1, <1>5, <2>1 DEF k
<1>12. QED
  BY <1>8, <1>9, <1>10, <1>11 DEF k, r, rest

-----------------------------------------------------------------------------
(* Rebalancer: what the sticky strategy hands out.                         *)

\* What an element at the end of a sequence changes.
LEMMA AppendFacts ==
  ASSUME NEW X, NEW w \in Seq(X), NEW x \in X
  PROVE  /\ Append(w, x) \in Seq(X) /\ Len(Append(w, x)) = Len(w) + 1 /\ Len(w) \in Nat
         /\ DOMAIN w = 1 .. Len(w) /\ DOMAIN Append(w, x) = 1 .. Len(w) + 1
         /\ Append(w, x)[Len(w) + 1] = x
         /\ \A i \in 1 .. Len(w) : Append(w, x)[i] = w[i]
         /\ ToSet(Append(w, x)) = ToSet(w) \union {x}
<1> DEFINE v == Append(w, x)
<1>1. /\ v \in Seq(X) /\ Len(v) = Len(w) + 1 /\ Len(w) \in Nat
      /\ DOMAIN v = 1 .. Len(w) + 1 /\ DOMAIN w = 1 .. Len(w)
      /\ v[Len(w) + 1] = x /\ \A i \in 1 .. Len(w) : v[i] = w[i]
  BY AppendProperties, LenProperties
<1> HIDE DEF v
<1>2. ASSUME NEW y \in ToSet(v) PROVE y \in ToSet(w) \union {x}
  <2>1. PICK i \in 1 .. Len(w) + 1 : y = v[i]
    BY <1>1 DEF ToSet
  <2>2. CASE i = Len(w) + 1
    BY <1>1, <2>1, <2>2
  <2>3. CASE i # Len(w) + 1
    <3>1. i \in 1 .. Len(w)
      BY <1>1, <2>1, <2>3
    <3>2. QED
      BY <1>1, <2>1, <3>1 DEF ToSet
  <2>4. QED
    BY <2>2, <2>3
<1>3. ASSUME NEW y \in ToSet(w) PROVE y \in ToSet(v)
  <2>1. PICK i \in 1 .. Len(w) : y = w[i]
    BY <1>1 DEF ToSet
  <2>2. i \in 1 .. Len(w) + 1 /\ y = v[i]
    BY <1>1, <2>1
  <2>3. QED
    BY <1>1, <2>2 DEF ToSet
<1>4. x \in ToSet(v)
  <2>1. Len(w) + 1 \in 1 .. Len(w) + 1
    BY <1>1
  <2>2. QED
    BY <1>1, <2>1 DEF ToSet
<1>5. ToSet(v) = ToSet(w) \union {x}
  BY <1>2, <1>3, <1>4
<1>6. QED
  BY <1>1, <1>5 DEF v

\* A new element at its end leaves a sequence without repetitions.
LEMMA EndInjective ==
  ASSUME NEW X, NEW w \in Seq(X), NEW x \in X, IsInjective(w), x \notin ToSet(w)
  PROVE  IsInjective(Append(w, x))
<1> DEFINE v == Append(w, x)
<1>1. /\ Len(w) \in Nat /\ DOMAIN v = 1 .. Len(w) + 1 /\ DOMAIN w = 1 .. Len(w)
      /\ v[Len(w) + 1] = x /\ \A i \in 1 .. Len(w) : v[i] = w[i]
  BY AppendFacts
<1>2. \A i \in 1 .. Len(w) : w[i] # x
  BY <1>1 DEF ToSet
<1>3. \A i, j \in 1 .. Len(w) : w[i] = w[j] => i = j
  BY <1>1 DEF IsInjective
<1> HIDE DEF v
<1>4. \A i, j \in DOMAIN v : v[i] = v[j] => i = j
  BY <1>1, <1>2, <1>3
<1>5. IsInjective(v)
  BY <1>4 DEF IsInjective
<1>6. QED
  BY <1>5 DEF v

\* The elements of 1 .. n in ascending order, as FoldLeft takes them.
LEMMA PrefixFacts ==
  ASSUME NEW n \in Nat
  PROVE  /\ Picks([s \in SUBSET (1 .. n) |-> Max(s)], 1 .. n)
         /\ \A k \in 1 .. n : /\ Max(1 .. k) = k /\ (1 .. k) \ {k} = 1 .. (k - 1)
                              /\ 1 .. k # {} /\ 1 .. k \in SUBSET (1 .. n)
         /\ 1 .. 0 = {} /\ IsFiniteSet(1 .. n)
<1>1. IsFiniteSet(1 .. n)
  BY FS_Interval
<1>2. ASSUME NEW s \in SUBSET (1 .. n), s # {}
      PROVE  Max(s) \in s /\ \A x \in s : x <= Max(s)
  <2>1. s \subseteq Nat /\ IsFiniteSet(s)
    <3>1. IsFiniteSet(s)
      BY <1>1, FS_Subset
    <3>2. QED
      BY <3>1
  <2>2. QED
    BY <1>2, <2>1, MaxOfFinite
<1>3. ASSUME NEW k \in 1 .. n
      PROVE  /\ Max(1 .. k) = k /\ (1 .. k) \ {k} = 1 .. (k - 1)
             /\ 1 .. k # {} /\ 1 .. k \in SUBSET (1 .. n)
  <2>1. k \in 1 .. k /\ 1 .. k \in SUBSET (1 .. n) /\ 1 .. k # {}
    OBVIOUS
  <2>2. Max(1 .. k) \in 1 .. k /\ k <= Max(1 .. k)
    BY <1>2, <2>1
  <2>3. (1 .. k) \ {k} = 1 .. (k - 1)
    OBVIOUS
  <2>4. QED
    BY <2>1, <2>2, <2>3
<1>4. Picks([s \in SUBSET (1 .. n) |-> Max(s)], 1 .. n)
  BY <1>2 DEF Picks
<1>5. QED
  BY <1>1, <1>3, <1>4

\* Unassigned has the partitions that nobody keeps, each of them once (by induction on
\* the partitions it has looked at).
LEMMA UnassignedFacts ==
  ASSUME NEW S, NEW n \in Nat
  PROVE  /\ Unassigned(S, n) \in Seq(0 .. (n - 1))
         /\ IsInjective(Unassigned(S, n))
         /\ ToSet(Unassigned(S, n)) = (0 .. (n - 1)) \ Held(Kept(S))
<1> DEFINE H == Held(Kept(S))
           X == Seq(0 .. (n - 1))
           D == 1 .. n
           pick == [s \in SUBSET D |-> Max(s)]
           step == [z \in X \X D |-> IF z[2] - 1 \in H THEN z[1] ELSE Append(z[1], z[2] - 1)]
           all == AllPartitions(n)
           Next1(w, p) == IF p \in H THEN w ELSE Append(w, p)
           Round(g, s) == IF s = {} THEN <<>> ELSE Next1(g[s \ {Max(s)}], all[Max(s)])
           found == CHOOSE g : g = [s \in SUBSET DOMAIN all |-> Round(g, s)]
<1>1. Unassigned(S, n) = found[DOMAIN all]
  BY DEF Unassigned, FoldLeft, MapThenFoldSet
<1>2. DOMAIN all = D /\ \A i \in D : all[i] = i - 1 /\ i - 1 \in 0 .. (n - 1)
  BY DEF AllPartitions
<1> HIDE DEF all, H
<1>3. /\ Picks(pick, D) /\ IsFiniteSet(D) /\ 1 .. 0 = {}
      /\ \A k \in D : /\ Max(1 .. k) = k /\ (1 .. k) \ {k} = 1 .. (k - 1)
                      /\ 1 .. k # {} /\ 1 .. k \in SUBSET D
  BY PrefixFacts
<1>4. ASSUME NEW w \in X, NEW i \in D
      PROVE  step[<<w, i>>] = Next1(w, i - 1) /\ step[<<w, i>>] \in X
  <2>1. step[<<w, i>>] = Next1(w, i - 1)
    OBVIOUS
  <2>2. Append(w, i - 1) \in X
    BY <1>2, AppendFacts
  <2>3. QED
    BY <2>1, <2>2
<1> HIDE DEF D, pick, step
<1>5. PICK g \in [SUBSET D -> X] : FoldOf(g, D, <<>>, step, pick)
  <2>1. <<>> \in X /\ StepsIn(step, X, D)
    BY <1>4, EmptySeq DEF StepsIn
  <2> HIDE DEF X
  <2>2. QED
    BY <1>3, <2>1, FoldExists
<1>6. g = [s \in SUBSET DOMAIN all |-> Round(g, s)]
  <2>1. ASSUME NEW s \in SUBSET D PROVE g[s] = Round(g, s)
    <3>1. CASE s = {}
      BY <1>5, <3>1 DEF FoldOf
    <3>2. CASE s # {}
      <4>1. pick[s] = Max(s) /\ Max(s) \in D /\ s \ {Max(s)} \in SUBSET D
        BY <1>3, <3>2 DEF Picks, pick
      <4>2. g[s \ {Max(s)}] \in X /\ all[Max(s)] = Max(s) - 1
        BY <1>2, <1>5, <4>1
      <4>3. g[s] = step[<<g[s \ {Max(s)}], Max(s)>>]
        BY <1>5, <3>2, <4>1 DEF FoldOf
      <4> HIDE DEF Next1
      <4>4. QED
        BY <1>4, <3>2, <4>1, <4>2, <4>3
    <3>3. QED
      BY <3>1, <3>2
  <2> HIDE DEF Round
  <2>2. QED
    BY <1>2, <1>5, <2>1
<1>7. found = [s \in SUBSET D |-> Round(found, s)]
  <2> HIDE DEF Round
  <2>1. QED
    BY <1>2, <1>6
<1> HIDE DEF found
<1> DEFINE Good(k) == /\ found[1 .. k] \in X /\ IsInjective(found[1 .. k])
                      /\ ToSet(found[1 .. k]) = (0 .. (k - 1)) \ H
           T == {k \in 0 .. n : Good(k)}
<1>8. 0 \in T
  <2>1. {} \in SUBSET D /\ 0 .. (0 - 1) = {} /\ 0 \in 0 .. n
    OBVIOUS
  <2>2. found[{}] = <<>>
    BY <1>7, <2>1
  <2>3. <<>> \in X /\ IsInjective(<<>>) /\ ToSet(<<>>) = {}
    BY EmptySeq DEF IsInjective, ToSet
  <2>4. Good(0)
    BY <1>3, <2>1, <2>2, <2>3
  <2> HIDE DEF Good
  <2>5. QED
    BY <2>1, <2>4
<1>9. ASSUME NEW k \in 0 .. (n - 1), k \in T PROVE k + 1 \in T
  <2> DEFINE w == found[1 .. k]
  <2>1. k \in Nat /\ k + 1 \in D /\ k + 1 \in 0 .. n /\ (k + 1) - 1 = k /\ k \in 0 .. (n - 1)
    BY DEF D
  <2>2. found[1 .. (k + 1)] = Next1(w, k)
    <3>1. /\ 1 .. (k + 1) # {} /\ 1 .. (k + 1) \in SUBSET D /\ Max(1 .. (k + 1)) = k + 1
          /\ (1 .. (k + 1)) \ {k + 1} = 1 .. k
      BY <1>3, <2>1
    <3>2. all[k + 1] = k
      BY <1>2, <2>1
    <3> HIDE DEF Next1
    <3>3. QED
      BY <1>7, <3>1, <3>2
  <2>3. w \in X /\ IsInjective(w) /\ ToSet(w) = (0 .. (k - 1)) \ H
    BY <1>9
  <2>4. 0 .. k = (0 .. (k - 1)) \union {k} /\ k \notin 0 .. (k - 1)
    BY <2>1
  <2> HIDE DEF w
  <2>5. CASE k \in H
    <3>1. found[1 .. (k + 1)] = w
      BY <2>2, <2>5
    <3>2. ToSet(w) = (0 .. k) \ H
      BY <2>3, <2>4, <2>5
    <3>3. QED
      BY <2>1, <2>3, <3>1, <3>2
  <2>6. CASE k \notin H
    <3>1. found[1 .. (k + 1)] = Append(w, k)
      BY <2>2, <2>6
    <3>2. Append(w, k) \in X /\ ToSet(Append(w, k)) = ToSet(w) \union {k}
      BY <2>1, <2>3, AppendFacts
    <3>3. ToSet(Append(w, k)) = (0 .. k) \ H
      BY <2>3, <2>4, <2>6, <3>2
    <3>4. k \notin ToSet(w)
      BY <2>3, <2>4
    <3>5. IsInjective(Append(w, k))
      BY <2>1, <2>3, <3>4, EndInjective
    <3>6. QED
      BY <2>1, <3>1, <3>2, <3>3, <3>5
  <2>7. QED
    BY <2>5, <2>6
<1>10. n \in T
  <2>1. n \in 0 .. n
    OBVIOUS
  <2> HIDE DEF T
  <2>2. QED
    BY <1>8, <1>9, <2>1, UpTo
<1>11. QED
  BY <1>1, <1>2, <1>10 DEF D, H

\* FlattenSeq makes one sequence of several (by induction on their number).
LEMMA FlattenFacts ==
  ASSUME NEW P, NEW k \in Nat, NEW lists \in [1 .. k -> Seq(P)]
  PROVE  /\ FlattenSeq(lists) \in Seq(P)
         /\ k = 0 => FlattenSeq(lists) = <<>>
<1> DEFINE X == Seq(P)
           D == 1 .. k
           pick == [s \in SUBSET D |-> Max(s)]
           step == [z \in X \X D |-> z[1] \o lists[z[2]]]
           Round(f, i) == IF i = 1 THEN lists[i] ELSE f[i - 1] \o lists[i]
           flat == CHOOSE f : f = [i \in 1 .. Len(lists) |-> Round(f, i)]
<1>1. lists \in Seq(X) /\ Len(lists) = k
  BY LengthOf
<1>2. FlattenSeq(lists) = IF k = 0 THEN lists ELSE flat[k]
  BY <1>1 DEF FlattenSeq
<1>3. k = 0 => lists = <<>> /\ lists \in X
  BY <1>1, EmptySeq
<1>4. /\ Picks(pick, D) /\ IsFiniteSet(D) /\ 1 .. 0 = {}
      /\ \A i \in D : /\ Max(1 .. i) = i /\ (1 .. i) \ {i} = 1 .. (i - 1)
                      /\ 1 .. i # {} /\ 1 .. i \in SUBSET D
  BY PrefixFacts
<1>5. ASSUME NEW w \in X, NEW i \in D
      PROVE  step[<<w, i>>] = w \o lists[i] /\ w \o lists[i] \in X /\ lists[i] \in X
  <2>1. lists[i] \in X
    OBVIOUS
  <2>2. step[<<w, i>>] = w \o lists[i]
    OBVIOUS
  <2>3. w \o lists[i] \in X
    BY <2>1, ConcatProperties
  <2>4. QED
    BY <2>1, <2>2, <2>3
<1>6. <<>> \in X /\ StepsIn(step, X, D)
  BY <1>5, EmptySeq DEF StepsIn
<1>7. PICK g \in [SUBSET D -> X] : FoldOf(g, D, <<>>, step, pick)
  <2> HIDE DEF X, D, pick, step
  <2>1. QED
    BY <1>4, <1>6, FoldExists
<1>8. ASSUME NEW i \in D PROVE g[1 .. i] = g[1 .. (i - 1)] \o lists[i] /\ g[1 .. i] \in X
  <2>1. /\ 1 .. i # {} /\ 1 .. i \in SUBSET D /\ pick[1 .. i] = i
        /\ (1 .. i) \ {i} = 1 .. (i - 1)
    BY <1>4
  <2>2. 1 .. (i - 1) \in SUBSET D
    BY <2>1
  <2>3. g[1 .. (i - 1)] \in X /\ g[1 .. i] \in X
    BY <1>7, <2>1, <2>2
  <2>4. g[1 .. i] = step[<<g[(1 .. i) \ {i}], i>>]
    <3> HIDE DEF step, pick, D, X
    <3>1. QED
      BY <1>7, <2>1 DEF FoldOf
  <2> HIDE DEF step, pick, X
  <2>5. QED
    BY <1>5, <2>1, <2>3, <2>4
<1>9. g[1 .. 0] = <<>>
  <2>1. {} \in SUBSET D
    OBVIOUS
  <2>2. QED
    BY <1>4, <1>7, <2>1 DEF FoldOf
<1> DEFINE h == [i \in 1 .. k |-> g[1 .. i]]
<1>10. h = [i \in 1 .. k |-> Round(h, i)]
  <2>1. ASSUME NEW i \in 1 .. k PROVE h[i] = Round(h, i)
    <3>1. h[i] = g[1 .. (i - 1)] \o lists[i]
      BY <1>8
    <3>2. CASE i = 1
      <4>1. g[1 .. (i - 1)] = <<>> /\ lists[i] \in Seq(P)
        BY <1>9, <3>2
      <4>2. h[i] = lists[i]
        BY <3>1, <4>1, ConcatEmptySeq
      <4>3. QED
        BY <3>2, <4>2
    <3>3. CASE i # 1
      <4>1. h[i - 1] = g[1 .. (i - 1)]
        BY <3>3
      <4> HIDE DEF h
      <4>2. QED
        BY <3>1, <3>3, <4>1
    <3>4. QED
      BY <3>2, <3>3
  <2>2. h = [i \in 1 .. k |-> h[i]]
    OBVIOUS
  <2> HIDE DEF Round, h
  <2>3. QED
    BY <2>1, <2>2
<1>11. flat = [i \in 1 .. k |-> Round(flat, i)]
  <2> HIDE DEF Round, h
  <2>1. QED
    BY <1>1, <1>10
<1> HIDE DEF flat, X
<1> DEFINE T == {j \in 0 .. k - 1 : flat[j + 1] \in X}
<1>12. ASSUME k # 0 PROVE flat[k] \in X
  <2>1. k - 1 \in Nat /\ k - 1 \in 0 .. k - 1 /\ (k - 1) + 1 = k
    BY <1>12
  <2>2. 0 \in T
    <3>1. 0 + 1 = 1 /\ 1 \in D /\ 0 \in 0 .. k - 1
      BY <2>1
    <3>2. flat[1] = lists[1]
      BY <1>11, <3>1
    <3>3. lists[1] \in X
      BY <3>1 DEF X
    <3>4. QED
      BY <3>1, <3>2, <3>3
  <2>3. ASSUME NEW j \in 0 .. (k - 1) - 1, j \in T PROVE j + 1 \in T
    <3>1. (j + 1) + 1 \in D /\ (j + 1) + 1 # 1 /\ ((j + 1) + 1) - 1 = j + 1 /\ j + 1 \in 0 .. k - 1
      BY <2>1
    <3>2. flat[(j + 1) + 1] = flat[j + 1] \o lists[(j + 1) + 1]
      BY <1>11, <3>1
    <3>3. flat[j + 1] \in X
      BY <2>3
    <3>4. flat[j + 1] \o lists[(j + 1) + 1] \in X
      BY <1>5, <3>1, <3>3
    <3>5. QED
      BY <3>1, <3>2, <3>4
  <2> HIDE DEF T
  <2>4. k - 1 \in T
    BY <2>1, <2>2, <2>3, UpTo
  <2>5. QED
    BY <2>1, <2>4 DEF T
<1>13. QED
  BY <1>2, <1>3, <1>12 DEF X

\* What the departed members had are partitions, and nothing if nobody left.
LEMMA ReclaimedFacts ==
  ASSUME NEW P, plan \in [DOMAIN plan -> Seq(P)], IsFiniteSet(DOMAIN plan),
         NEW S, NEW held \in Reclaimed(S)
  PROVE  /\ held \in Seq(P)
         /\ DOMAIN plan \subseteq S => held = <<>>
<1> DEFINE G == DOMAIN plan \ S
           k == Cardinality(G)
<1>1. PICK gone \in SetToSeqs(G) : held = FlattenSeq([i \in DOMAIN gone |-> plan[gone[i]]])
  BY DEF Reclaimed
<1>2. IsFiniteSet(G) /\ k \in Nat /\ (G = {} => k = 0)
  <2>1. G \in SUBSET DOMAIN plan
    OBVIOUS
  <2>2. IsFiniteSet(G)
    BY <2>1, FS_Subset
  <2> HIDE DEF G
  <2>3. QED
    BY <2>2, FS_CardinalityType, FS_EmptySet
<1>3. gone \in [1 .. k -> G] /\ DOMAIN gone = 1 .. k
  BY DEF SetToSeqs
<1> HIDE DEF k
<1>4. [i \in DOMAIN gone |-> plan[gone[i]]] \in [1 .. k -> Seq(P)]
  BY <1>3
<1>5. QED
  BY <1>1, <1>2, <1>4, FlattenFacts

\* A member with the fewest partitions gets the next one.
LEMMA GiveFacts ==
  ASSUME NEW S, IsFiniteSet(S), S # {}, NEW list \in SetToSeqs(S), NEW P,
         NEW a \in [S -> Seq(P)], NEW p
  PROVE  \E m \in S : GiveToLeast(list, a, p) = [a EXCEPT ![m] = Append(a[m], p)]
<1> DEFINE k         == Len(list)
           load(i)   == Len(a[list[i]])
           Fewest(i) == \A j \in DOMAIN list :
                          load(i) < load(j) \/ (load(i) = load(j) /\ i <= j)
           least     == CHOOSE i \in DOMAIN list : Fewest(i)
<1>1. /\ k \in Nat /\ k # 0 /\ DOMAIN list = 1 .. k /\ \A i \in 1 .. k : list[i] \in S
  <2>1. /\ list \in [1 .. k -> S] /\ k \in Nat /\ Cardinality(S) = k
    BY ListFacts
  <2>2. Cardinality(S) # 0
    BY FS_EmptySet
  <2> HIDE DEF k
  <2>3. QED
    BY <2>1, <2>2
<1>2. \A i \in 1 .. k : load(i) \in Nat
  <2>1. ASSUME NEW i \in 1 .. k PROVE load(i) \in Nat
    <3>1. a[list[i]] \in Seq(P)
      BY <1>1
    <3>2. QED
      BY <3>1, LenProperties
  <2>2. QED
    BY <2>1
<1> HIDE DEF k, load
<1> DEFINE lens == {load(i) : i \in 1 .. k}
<1>3. PICK x \in lens : \A y \in lens : x <= y
  <2>1. lens \subseteq Nat
    BY <1>2
  <2>2. lens # {}
    <3>1. 1 \in 1 .. k
      BY <1>1
    <3>2. load(1) \in lens
      BY <3>1
    <3>3. QED
      BY <3>2
  <2> HIDE DEF lens
  <2>3. QED
    BY <2>1, <2>2, LeastNatural
<1> DEFINE first == {i \in 1 .. k : load(i) = x}
<1>4. PICK i \in first : \A j \in first : i <= j
  <2>1. first \subseteq Nat /\ first # {}
    OBVIOUS
  <2> HIDE DEF first
  <2>2. QED
    BY <2>1, LeastNatural
<1>5. i \in DOMAIN list /\ Fewest(i)
  <2>1. i \in 1 .. k /\ load(i) = x
    OBVIOUS
  <2>2. ASSUME NEW j \in 1 .. k PROVE load(i) < load(j) \/ (load(i) = load(j) /\ i <= j)
    <3>1. x <= load(j) /\ load(j) \in Nat /\ x \in Nat
      BY <1>2, <1>3, <2>1
    <3>2. load(j) = x => i <= j
      BY <1>4
    <3>3. i \in Nat /\ j \in Nat
      OBVIOUS
    <3>4. CASE load(j) = x
      BY <2>1, <3>2, <3>4
    <3>5. CASE load(j) # x
      <4>1. x < load(j)
        <5> DEFINE y == load(j)
        <5>1. x <= y /\ y \in Nat /\ x \in Nat /\ y # x
          BY <3>1, <3>5
        <5> HIDE DEF y
        <5>2. x < y
          BY <5>1
        <5>3. QED
          BY <5>2 DEF y
      <4>2. QED
        BY <2>1, <4>1
    <3>6. QED
      BY <3>4, <3>5
  <2>3. QED
    BY <1>1, <2>1, <2>2
<1>6. least \in DOMAIN list
  <2> HIDE DEF Fewest
  <2>1. QED
    BY <1>5
<1>7. GiveToLeast(list, a, p) = [a EXCEPT ![list[least]] = Append(@, p)]
  BY DEF GiveToLeast, load, k
<1> HIDE DEF least
<1>8. list[least] \in S
  BY <1>1, <1>6
<1>9. QED
  BY <1>7, <1>8

\* What the step from a to b does that gives p to a member of S.
Gives(a, b, S, P, p) ==
  /\ b \in [S -> Seq(P)]
  /\ \A x \in S : ToSet(a[x]) \subseteq ToSet(b[x])
  /\ S # {} => Held(b) = Held(a) \union {p}
  /\ (OnceEach(a) /\ p \notin Held(a)) => OnceEach(b)

\* One more partition for a member is such a step.
LEMMA OneMore ==
  ASSUME NEW S, NEW P, NEW a \in [S -> Seq(P)], NEW m \in S, NEW p \in P,
         NEW b, b = [a EXCEPT ![m] = Append(a[m], p)]
  PROVE  Gives(a, b, S, P, p)
<1> DEFINE v == Append(a[m], p)
           n == Len(a[m])
<1>1. /\ v \in Seq(P) /\ n \in Nat /\ DOMAIN a[m] = 1 .. n /\ DOMAIN v = 1 .. n + 1
      /\ v[n + 1] = p /\ \A i \in 1 .. n : v[i] = a[m][i]
      /\ ToSet(v) = ToSet(a[m]) \union {p}
  <2>1. a[m] \in Seq(P)
    OBVIOUS
  <2>2. QED
    BY <2>1, AppendFacts
<1> HIDE DEF v, n
<1>2. b = [a EXCEPT ![m] = v]
  BY DEF v
<1>3. b \in [S -> Seq(P)] /\ DOMAIN b = S /\ DOMAIN a = S
  BY <1>1, <1>2
<1>4. b[m] = v /\ \A x \in S \ {m} : b[x] = a[x]
  BY <1>2
<1>5. \A x \in S : ToSet(a[x]) \subseteq ToSet(b[x])
  <2>1. ASSUME NEW x \in S PROVE ToSet(a[x]) \subseteq ToSet(b[x])
    <3>1. CASE x = m
      BY <1>1, <1>4, <3>1
    <3>2. CASE x # m
      BY <1>4, <3>2
    <3>3. QED
      BY <3>1, <3>2
  <2>2. QED
    BY <2>1
<1>6. Held(b) = Held(a) \union {p}
  <2>1. ASSUME NEW y \in Held(b) PROVE y \in Held(a) \union {p}
    <3>1. PICK x \in S : y \in ToSet(b[x])
      BY <1>3 DEF Held
    <3>2. y \in ToSet(a[x]) \/ y = p
      BY <1>1, <1>4, <3>1
    <3>3. QED
      BY <1>3, <3>2 DEF Held
  <2>2. p \in Held(b)
    <3>1. p \in ToSet(b[m])
      BY <1>1, <1>4
    <3>2. QED
      BY <1>3, <3>1 DEF Held
  <2>3. ASSUME NEW y \in Held(a) PROVE y \in Held(b)
    <3>1. PICK x \in S : y \in ToSet(a[x])
      BY <1>3 DEF Held
    <3>2. y \in ToSet(b[x])
      BY <1>5, <3>1
    <3>3. QED
      BY <1>3, <3>2 DEF Held
  <2>4. QED
    BY <2>1, <2>2, <2>3
<1>7. ASSUME OnceEach(a), p \notin Held(a) PROVE OnceEach(b)
  <2>1. \A x \in S : \A i \in DOMAIN a[x] : a[x][i] # p
    BY <1>3, <1>7 DEF Held, ToSet
  <2>2. \A x \in S : \A i \in DOMAIN b[x] :
          \/ i \in DOMAIN a[x] /\ b[x][i] = a[x][i]
          \/ x = m /\ i = n + 1 /\ b[x][i] = p
    <3>1. ASSUME NEW x \in S, NEW i \in DOMAIN b[x]
          PROVE  \/ i \in DOMAIN a[x] /\ b[x][i] = a[x][i]
                 \/ x = m /\ i = n + 1 /\ b[x][i] = p
      <4>1. CASE x = m
        <5>1. i \in 1 .. n + 1
          BY <1>1, <1>4, <4>1
        <5>2. i \in 1 .. n \/ i = n + 1
          BY <1>1, <5>1
        <5>3. QED
          BY <1>1, <1>4, <4>1, <5>2
      <4>2. CASE x # m
        BY <1>4, <4>2
      <4>3. QED
        BY <4>1, <4>2
    <3>2. QED
      BY <3>1
  <2>3. ASSUME NEW x \in S, NEW y \in S, NEW i \in DOMAIN b[x], NEW j \in DOMAIN b[y],
               b[x][i] = b[y][j]
        PROVE  x = y /\ i = j
    <3>1. CASE i \in DOMAIN a[x] /\ b[x][i] = a[x][i]
      <4>1. j \in DOMAIN a[y] /\ b[y][j] = a[y][j]
        BY <2>1, <2>2, <2>3, <3>1
      <4>2. QED
        BY <1>3, <1>7, <2>3, <3>1, <4>1 DEF OnceEach
    <3>2. CASE x = m /\ i = n + 1 /\ b[x][i] = p
      <4>1. y = m /\ j = n + 1
        BY <2>1, <2>2, <2>3, <3>2
      <4>2. QED
        BY <3>2, <4>1
    <3>3. QED
      BY <2>2, <3>1, <3>2
  <2>4. QED
    BY <1>3, <2>3 DEF OnceEach
<1>8. QED
  BY <1>3, <1>5, <1>6, <1>7 DEF Gives

\* The same, whoever gets the partition; when there is no member, nobody does.
LEMMA GiveSound ==
  ASSUME NEW S, IsFiniteSet(S), NEW list \in SetToSeqs(S), NEW P,
         NEW a \in [S -> Seq(P)], NEW p \in P, NEW b, b = GiveToLeast(list, a, p)
  PROVE  Gives(a, b, S, P, p)
<1>1. CASE S # {}
  <2>1. PICK m \in S : b = [a EXCEPT ![m] = Append(a[m], p)]
    BY <1>1, GiveFacts, SMTT(20)
  <2>2. QED
    BY <2>1, OneMore
<1>2. CASE S = {}
  <2>1. DOMAIN a = {}
    BY <1>2
  <2>2. b = [x \in {} |-> b[x]]
    BY <2>1 DEF GiveToLeast
  <2>3. b \in [{} -> Seq(P)] /\ DOMAIN b = {}
    BY <2>2
  <2>4. OnceEach(b)
    BY <2>3 DEF OnceEach
  <2>5. QED
    BY <1>2, <2>3, <2>4 DEF Gives
<1>3. QED
  BY <1>1, <1>2

\* What the step from a to b does that gives the partitions of q to members of S.
Adds(a, b, S, P, q) ==
  /\ b \in [S -> Seq(P)]
  /\ \A x \in S : ToSet(a[x]) \subseteq ToSet(b[x])
  /\ S # {} => Held(b) = Held(a) \union ToSet(q)
  /\ (OnceEach(a) /\ IsInjective(q) /\ ToSet(q) \intersect Held(a) = {}) => OnceEach(b)

\* The sticky strategy adds to what the members keep the partitions it hands out, and
\* gives none twice that nobody kept and that is handed out once (by induction on the
\* partitions handed out).
LEMMA StickyFacts ==
  ASSUME NEW S, IsFiniteSet(S), NEW list \in SetToSeqs(S), NEW P,
         NEW a \in [S -> Seq(P)], NEW q \in Seq(P),
         NEW R, R = GivenOut(list, a, q)
  PROVE  Adds(a, R, S, P, q)
<1> DEFINE X == [S -> Seq(P)]
           n == Len(q)
           D == 1 .. n
           pick == [s \in SUBSET D |-> Max(s)]
           step == [z \in X \X D |-> GiveToLeast(list, z[1], q[z[2]])]
           Round(g, s) == IF s = {} THEN a ELSE GiveToLeast(list, g[s \ {Max(s)}], q[Max(s)])
           found == CHOOSE g : g = [s \in SUBSET DOMAIN q |-> Round(g, s)]
<1>1. R = found[DOMAIN q]
  BY DEF GivenOut, FoldLeft, MapThenFoldSet
<1>0. n \in Nat
  BY LenProperties
<1>2. DOMAIN q = D /\ \A i \in D : q[i] \in P
  BY LenProperties
<1> HIDE DEF n
<1>3. /\ Picks(pick, D) /\ IsFiniteSet(D) /\ 1 .. 0 = {}
      /\ \A k \in D : /\ Max(1 .. k) = k /\ (1 .. k) \ {k} = 1 .. (k - 1)
                      /\ 1 .. k # {} /\ 1 .. k \in SUBSET D
  BY <1>0, PrefixFacts
<1>4. ASSUME NEW w \in X, NEW i \in D
      PROVE  step[<<w, i>>] = GiveToLeast(list, w, q[i]) /\ step[<<w, i>>] \in X
  <2>1. step[<<w, i>>] = GiveToLeast(list, w, q[i])
    OBVIOUS
  <2>2. GiveToLeast(list, w, q[i]) \in X
    BY <1>2, GiveSound DEF Gives
  <2>3. QED
    BY <2>1, <2>2
<1> HIDE DEF D, pick, step
<1>5. PICK g \in [SUBSET D -> X] : FoldOf(g, D, a, step, pick)
  <2>1. a \in X /\ StepsIn(step, X, D)
    BY <1>4 DEF StepsIn
  <2> HIDE DEF X
  <2>2. QED
    BY <1>3, <2>1, FoldExists
<1>6. g = [s \in SUBSET DOMAIN q |-> Round(g, s)]
  <2>1. ASSUME NEW s \in SUBSET D PROVE g[s] = Round(g, s)
    <3>1. CASE s = {}
      BY <1>5, <3>1 DEF FoldOf
    <3>2. CASE s # {}
      <4>1. pick[s] = Max(s) /\ Max(s) \in D /\ s \ {Max(s)} \in SUBSET D
        BY <1>3, <3>2 DEF Picks, pick
      <4>2. g[s \ {Max(s)}] \in X
        BY <1>5, <4>1
      <4>3. g[s] = step[<<g[s \ {Max(s)}], Max(s)>>]
        BY <1>5, <3>2, <4>1 DEF FoldOf
      <4>4. QED
        BY <1>4, <3>2, <4>1, <4>2, <4>3
    <3>3. QED
      BY <3>1, <3>2
  <2> HIDE DEF Round
  <2>2. QED
    BY <1>2, <1>5, <2>1
<1>7. found = [s \in SUBSET D |-> Round(found, s)]
  <2> HIDE DEF Round
  <2>1. QED
    BY <1>2, <1>6
<1> HIDE DEF found
<1> DEFINE Given(k) == {q[i] : i \in 1 .. k}
           Once == OnceEach(a) /\ IsInjective(q) /\ ToSet(q) \intersect Held(a) = {}
           Fine(w, k) == /\ w \in [S -> Seq(P)]
                         /\ \A x \in S : ToSet(a[x]) \subseteq ToSet(w[x])
                         /\ S # {} => Held(w) = Held(a) \union Given(k)
                         /\ Once => OnceEach(w)
           T == {k \in 0 .. n : Fine(found[1 .. k], k)}
<1>8. 0 \in T
  <2>1. {} \in SUBSET D /\ 0 \in 0 .. n /\ Given(0) = {}
    BY <1>0, <1>3
  <2>2. found[{}] = a
    BY <1>7, <2>1
  <2>3. Fine(a, 0)
    BY <2>1
  <2> HIDE DEF Fine
  <2>4. QED
    BY <1>3, <2>1, <2>2, <2>3
<1> HIDE DEF Given, Once, Fine
<1>9. ASSUME NEW k \in 0 .. (n - 1), Fine(found[1 .. k], k)
      PROVE  Fine(found[1 .. (k + 1)], k + 1)
  <2> DEFINE w == found[1 .. k]
             v == found[1 .. (k + 1)]
             p == q[k + 1]
  <2>1. k \in Nat /\ k + 1 \in D /\ (k + 1) - 1 = k
    BY <1>0 DEF D
  <2>2. v = GiveToLeast(list, w, p)
    <3>1. /\ 1 .. (k + 1) # {} /\ 1 .. (k + 1) \in SUBSET D /\ Max(1 .. (k + 1)) = k + 1
          /\ (1 .. (k + 1)) \ {k + 1} = 1 .. k
      BY <1>3, <2>1
    <3>2. QED
      BY <1>7, <3>1
  <2>3. /\ w \in [S -> Seq(P)]
        /\ \A x \in S : ToSet(a[x]) \subseteq ToSet(w[x])
        /\ S # {} => Held(w) = Held(a) \union Given(k)
        /\ Once => OnceEach(w)
    BY <1>9 DEF Fine
  <2>4. Given(k + 1) = Given(k) \union {p}
    <3>1. \A i : i \in 1 .. (k + 1) <=> (i \in 1 .. k \/ i = k + 1)
      BY <2>1
    <3>2. QED
      BY <3>1 DEF Given
  <2>5. p \in P
    BY <1>2, <2>1
  <2>6. ASSUME Once PROVE p \notin Held(a) /\ p \notin Given(k)
    <3>1. p \in ToSet(q) /\ ToSet(q) \intersect Held(a) = {}
      BY <1>2, <2>1, <2>6 DEF ToSet, Once
    <3>2. ASSUME NEW i \in 1 .. k PROVE q[i] # p
      <4>1. i \in D /\ i # k + 1
        BY <1>0, <2>1 DEF D
      <4>2. QED
        BY <1>2, <2>1, <2>6, <4>1 DEF IsInjective, Once
    <3>3. QED
      BY <3>1, <3>2 DEF Given
  <2> HIDE DEF w, v, p
  <2>7. Gives(w, v, S, P, p)
    BY <2>2, <2>3, <2>5, GiveSound
  <2>8. v \in [S -> Seq(P)] /\ \A x \in S : ToSet(a[x]) \subseteq ToSet(v[x])
    BY <2>3, <2>7 DEF Gives
  <2>9. S # {} => Held(v) = Held(a) \union Given(k + 1)
    BY <2>3, <2>4, <2>7 DEF Gives
  <2>10. ASSUME Once PROVE OnceEach(v)
    <3>1. CASE S = {}
      BY <2>8, <3>1 DEF OnceEach
    <3>2. CASE S # {}
      <4>1. p \notin Held(w)
        BY <2>3, <2>6, <2>10, <3>2
      <4>2. QED
        BY <2>3, <2>7, <2>10, <4>1 DEF Gives
    <3>3. QED
      BY <3>1, <3>2
  <2>11. Fine(v, k + 1)
    BY <2>8, <2>9, <2>10 DEF Fine
  <2>12. QED
    BY <2>11 DEF v
<1>10. Fine(found[1 .. n], n)
  <2>1. \A k \in 0 .. (n - 1) : k \in 0 .. n /\ k + 1 \in 0 .. n
    BY <1>0
  <2>2. \A k \in 0 .. (n - 1) : k \in T => k + 1 \in T
    BY <1>9, <2>1
  <2>3. n \in 0 .. n
    BY <1>0
  <2> HIDE DEF T
  <2>4. n \in T
    BY <1>0, <1>8, <2>2, <2>3, UpTo
  <2>5. QED
    BY <2>4 DEF T
<1>11. Given(n) = ToSet(q)
  BY <1>2 DEF ToSet, D, Given
<1>12. R = found[1 .. n]
  BY <1>1, <1>2 DEF D
<1>13. QED
  BY <1>10, <1>11, <1>12 DEF Fine, Once, Adds

-----------------------------------------------------------------------------
(* Rebalancer: the invariant of its assignments.                           *)

Topic == 0 .. (Max(PartitionCounts) - 1)

\* It says what RebalancerTypeOK says, of which sequences the assignments are made, and
\* that no partition is in two places of them until a member departs.
RebInv ==
  /\ DOMAIN plan \subseteq GroupMembers
  /\ plan \in [DOMAIN plan -> Seq(Topic)]
  /\ strategy \in {"none", "RoundRobin", "Range", "Sticky", "panic"}
  /\ count \in PartitionCounts \union {0} /\ assigns \in 0 .. MaxAssigns
  /\ departed \in BOOLEAN
  /\ ~departed => OnceEach(plan)

\* The partitions of each count are among the topic's.
LEMMA CountFacts ==
  ASSUME NEW n \in PartitionCounts
  PROVE  n \in Nat /\ 0 .. (n - 1) \subseteq Topic
<1>1. n \in Nat /\ Max(PartitionCounts) \in Nat /\ n <= Max(PartitionCounts)
  BY RebalancerAssumption, MaxOfFinite
<1> DEFINE x == Max(PartitionCounts)
<1>2. n \in Nat /\ x \in Nat /\ n <= x
  BY <1>1
<1> HIDE DEF x
<1>3. 0 .. (n - 1) \subseteq 0 .. (x - 1)
  BY <1>2
<1>4. QED
  BY <1>2, <1>3 DEF Topic, x

\* What a concatenation has.
LEMMA JoinFacts ==
  ASSUME NEW P, NEW u \in Seq(P), NEW v \in Seq(P)
  PROVE  u \o v \in Seq(P) /\ ToSet(v) \subseteq ToSet(u \o v)
<1> DEFINE w == u \o v
           a == Len(u)
           b == Len(v)
<1>1. /\ w \in Seq(P) /\ Len(w) = a + b /\ DOMAIN w = 1 .. Len(w)
      /\ a \in Nat /\ b \in Nat /\ DOMAIN v = 1 .. b
      /\ \A i \in 1 .. a + b : w[i] = IF i <= a THEN u[i] ELSE v[i - a]
  BY ConcatProperties, LenProperties
<1> HIDE DEF w, a, b
<1>2. ASSUME NEW x \in ToSet(v) PROVE x \in ToSet(w)
  <2>1. PICK i \in 1 .. b : x = v[i]
    BY <1>1, <1>2 DEF ToSet
  <2>2. a + i \in 1 .. a + b /\ ~(a + i <= a) /\ (a + i) - a = i
    BY <1>1
  <2>3. w[a + i] = x
    BY <1>1, <2>1, <2>2
  <2>4. a + i \in DOMAIN w
    BY <1>1, <2>2
  <2>5. QED
    BY <2>3, <2>4 DEF ToSet
<1>3. QED
  BY <1>1, <1>2 DEF w

\* What the members that remain keep.
LEMMA KeptFacts ==
  ASSUME RebInv, NEW S
  PROVE  /\ Kept(S) \in [S -> Seq(Topic)]
         /\ DOMAIN plan \subseteq S =>
              /\ \A m \in DOMAIN plan : Kept(S)[m] = plan[m]
              /\ OnceEach(plan) => OnceEach(Kept(S))
<1> DEFINE a == Kept(S)
<1>1. DOMAIN a = S /\ \A m \in S : a[m] = IF m \in DOMAIN plan THEN plan[m] ELSE <<>>
  BY DEF Kept
<1>2. a = [m \in S |-> a[m]]
  BY DEF Kept
<1>3. \A m \in DOMAIN plan : plan[m] \in Seq(Topic)
  BY DEF RebInv
<1>4. \A m \in S : a[m] \in Seq(Topic)
  BY <1>1, <1>3, EmptySeq
<1> HIDE DEF a
<1>5. a \in [S -> Seq(Topic)]
  BY <1>2, <1>4
<1>6. ASSUME OnceEach(plan) PROVE OnceEach(a)
  <2>1. ASSUME NEW m \in S, NEW i \in DOMAIN a[m]
        PROVE  m \in DOMAIN plan /\ a[m] = plan[m]
    <3>1. DOMAIN <<>> = {}
      OBVIOUS
    <3>2. QED
      BY <1>1, <2>1, <3>1
  <2>2. QED
    BY <1>1, <1>6, <2>1 DEF OnceEach
<1>7. QED
  BY <1>1, <1>5, <1>6 DEF a

\* What the sticky strategy answers with.
LEMMA StickyAnswers ==
  ASSUME RebInv, NEW S \in SUBSET GroupMembers, NEW n \in PartitionCounts,
         NEW a \in StickyAssigns(S, n)
  PROVE  /\ a \in [S -> Seq(Topic)]
         /\ S # {} => 0 .. (n - 1) \subseteq Held(a)
         /\ DOMAIN plan \subseteq S =>
              /\ \A m \in DOMAIN plan : ToSet(plan[m]) \subseteq ToSet(a[m])
              /\ OnceEach(plan) => OnceEach(a)
<1> DEFINE K == Kept(S)
           rest == Unassigned(S, n)
<1>1. PICK list \in Loads(K), held \in Reclaimed(S) : a = GivenOut(list, K, held \o rest)
  BY DEF StickyAssigns
<1>2. IsFiniteSet(S) /\ IsFiniteSet(DOMAIN plan) /\ n \in Nat
  BY RebalancerAssumption, FS_Subset, CountFacts DEF RebInv
<1>3. /\ K \in [S -> Seq(Topic)]
      /\ DOMAIN plan \subseteq S =>
           /\ \A m \in DOMAIN plan : K[m] = plan[m]
           /\ OnceEach(plan) => OnceEach(K)
  BY KeptFacts
<1>4. list \in SetToSeqs(S)
  BY <1>3 DEF Loads
<1>5. /\ rest \in Seq(0 .. (n - 1)) /\ IsInjective(rest)
      /\ ToSet(rest) = (0 .. (n - 1)) \ Held(K)
  BY <1>2, UnassignedFacts
<1> HIDE DEF K, rest
<1>6. rest \in Seq(Topic)
  BY <1>5, CountFacts, SeqMonotonic
<1>7. held \in Seq(Topic) /\ (DOMAIN plan \subseteq S => held = <<>>)
  <2>1. plan \in [DOMAIN plan -> Seq(Topic)]
    BY DEF RebInv
  <2>2. QED
    BY <1>2, <2>1, ReclaimedFacts
<1> DEFINE q == held \o rest
<1>8. q \in Seq(Topic) /\ ToSet(rest) \subseteq ToSet(q) /\ (DOMAIN plan \subseteq S => q = rest)
  <2>1. DOMAIN plan \subseteq S => q = rest
    BY <1>6, <1>7, ConcatEmptySeq
  <2>2. QED
    BY <1>6, <1>7, <2>1, JoinFacts
<1> HIDE DEF q
<1>9. /\ a \in [S -> Seq(Topic)]
      /\ \A x \in S : ToSet(K[x]) \subseteq ToSet(a[x])
      /\ S # {} => Held(a) = Held(K) \union ToSet(q)
      /\ (OnceEach(K) /\ IsInjective(q) /\ ToSet(q) \intersect Held(K) = {}) => OnceEach(a)
  <2>1. a = GivenOut(list, K, q)
    BY <1>1 DEF q
  <2>2. Adds(K, a, S, Topic, q)
    BY <1>2, <1>3, <1>4, <1>8, <2>1, StickyFacts
  <2>3. QED
    BY <2>2 DEF Adds
<1>10. S # {} => 0 .. (n - 1) \subseteq Held(a)
  BY <1>5, <1>8, <1>9
<1>11. ASSUME DOMAIN plan \subseteq S
       PROVE  /\ \A m \in DOMAIN plan : ToSet(plan[m]) \subseteq ToSet(a[m])
              /\ OnceEach(plan) => OnceEach(a)
  <2>1. \A m \in DOMAIN plan : ToSet(plan[m]) \subseteq ToSet(a[m])
    BY <1>3, <1>9, <1>11
  <2>2. IsInjective(q) /\ ToSet(q) \intersect Held(K) = {}
    BY <1>5, <1>8, <1>11
  <2>3. QED
    BY <1>3, <1>9, <1>11, <2>1, <2>2
<1>12. QED
  BY <1>9, <1>10, <1>11

\* What each strategy answers with, where it does not panic.
LEMMA Answers ==
  ASSUME RebInv, NEW s \in {"RoundRobin", "Range", "Sticky"}, NEW S \in SUBSET GroupMembers,
         NEW n \in PartitionCounts, NEW a \in Assignments(s, S, n)
  PROVE  /\ a \in [S -> Seq(Topic)]
         /\ S # {} => 0 .. (n - 1) \subseteq Held(a)
         /\ (s # "Sticky" /\ S # {}) => Even(a, S, n)
         /\ (s = "Sticky" /\ DOMAIN plan \subseteq S) =>
              \A m \in DOMAIN plan : ToSet(plan[m]) \subseteq ToSet(a[m])
         /\ (s # "Sticky" \/ (DOMAIN plan \subseteq S /\ OnceEach(plan))) => OnceEach(a)
<1>1. CASE s = "Sticky"
  <2>1. a \in StickyAssigns(S, n)
    BY <1>1 DEF Assignments
  <2>2. /\ a \in [S -> Seq(Topic)]
        /\ S # {} => 0 .. (n - 1) \subseteq Held(a)
        /\ DOMAIN plan \subseteq S =>
             /\ \A m \in DOMAIN plan : ToSet(plan[m]) \subseteq ToSet(a[m])
             /\ OnceEach(plan) => OnceEach(a)
    BY <2>1, StickyAnswers
  <2>3. QED
    BY <1>1, <2>2
<1>2. CASE s # "Sticky"
  <2>1. IsFiniteSet(S) /\ n \in Nat /\ 0 .. (n - 1) \subseteq Topic
    BY RebalancerAssumption, FS_Subset, CountFacts
  <2>2. PICK list \in SetToSeqs(S) :
          a = RoundRobinAssign(list, n) \/ a = RangeAssign(list, n)
    BY <1>2 DEF Assignments
  <2>3. CASE S # {}
    <3>1. Dealt(a, S, n) /\ Even(a, S, n)
      BY <2>1, <2>2, <2>3, RoundRobinDeals, RangeDeals
    <3>2. a \in [S -> Seq(Topic)]
      <4>1. a \in [S -> Seq(0 .. (n - 1))]
        BY <3>1 DEF Dealt
      <4>2. \A m \in S : a[m] \in Seq(Topic)
        BY <2>1, <4>1, SeqMonotonic
      <4>3. QED
        BY <4>1, <4>2
    <3>3. QED
      BY <1>2, <3>1, <3>2 DEF Dealt
  <2>4. CASE S = {}
    <3>1. ToSet(list) = {}
      BY <2>1, <2>4, ListFacts
    <3>2. DOMAIN a = {} /\ a = [m \in {} |-> a[m]]
      BY <2>2, <3>1 DEF RoundRobinAssign, RangeAssign
    <3>3. a \in [{} -> Seq(Topic)]
      BY <3>2
    <3>4. OnceEach(a)
      BY <3>2 DEF OnceEach
    <3>5. QED
      BY <1>2, <2>4, <3>3, <3>4
  <2>5. QED
    BY <2>3, <2>4
<1>3. QED
  BY <1>1, <1>2

\* The invariant says what the properties say of a state.
LEMMA RebInvTypes == RebInv => RebalancerTypeOK /\ OwnedOnceUntilDeparture
<1> SUFFICES ASSUME RebInv PROVE RebalancerTypeOK /\ OwnedOnceUntilDeparture
  OBVIOUS
<1>1. \A m \in DOMAIN plan : plan[m] \in Seq(Topic)
  BY DEF RebInv
<1>2. ASSUME NEW m \in DOMAIN plan PROVE ToSet(plan[m]) \subseteq Topic
  <2>1. plan[m] \in Seq(Topic)
    BY <1>1
  <2>2. \A i \in DOMAIN plan[m] : plan[m][i] \in Topic
    BY <2>1, LenProperties, ElementOfSeq
  <2>3. QED
    BY <2>2 DEF ToSet
<1>3. RebalancerTypeOK
  BY <1>2 DEF RebInv, RebalancerTypeOK, Topic
<1>4. ASSUME ~departed PROVE OwnedOnceUntilDeparture
  <2>1. OnceEach(plan)
    BY <1>4 DEF RebInv
  <2>2. ASSUME NEW m \in DOMAIN plan PROVE Cardinality(ToSet(plan[m])) = Len(plan[m])
    <3>1. IsInjective(plan[m])
      BY <2>1 DEF OnceEach, IsInjective
    <3>2. QED
      BY <1>1, <3>1, InjectiveCount
  <2>3. ASSUME NEW m \in DOMAIN plan, NEW k \in DOMAIN plan, m # k
        PROVE  ToSet(plan[m]) \intersect ToSet(plan[k]) = {}
    BY <2>1, <2>3 DEF OnceEach, ToSet
  <2>4. QED
    BY <2>2, <2>3 DEF OwnedOnceUntilDeparture
<1>5. QED
  BY <1>3, <1>4 DEF OwnedOnceUntilDeparture

\* Partitions that stay with their only owners do not move.
LEMMA NothingMoves ==
  ASSUME NEW a, NEW b, DOMAIN a \subseteq DOMAIN b, OnceEach(a), OnceEach(b),
         \A m \in DOMAIN a : ToSet(a[m]) \subseteq ToSet(b[m])
  PROVE  CountPartitionMoves(a, b) = {0}
<1> DEFINE both == Held(a) \intersect Held(b)
           Moved(p) == Owners(a, p) \intersect Owners(b, p) = {}
           MayMove(p) == ~\E m \in DOMAIN a : {m} = Owners(a, p) /\ {m} = Owners(b, p)
<1>1. ASSUME NEW p \in both PROVE ~Moved(p) /\ ~MayMove(p)
  <2>1. PICK m \in DOMAIN a : p \in ToSet(a[m])
    BY <1>1 DEF Held
  <2>2. Owners(a, p) = {m}
    BY <2>1 DEF Owners, OnceEach, ToSet
  <2>3. p \in ToSet(b[m]) /\ m \in DOMAIN b
    BY <2>1
  <2>4. Owners(b, p) = {m}
    BY <2>3 DEF Owners, OnceEach, ToSet
  <2>5. QED
    BY <2>2, <2>4
<1>2. {p \in both : Moved(p)} = {} /\ {p \in both : MayMove(p)} = {}
  BY <1>1
<1>3. CountPartitionMoves(a, b) = Cardinality({}) .. Cardinality({})
  BY <1>2 DEF CountPartitionMoves
<1>4. QED
  BY <1>3, FS_EmptySet

\* An assignment keeps the invariant and has what the properties say of it.
LEMMA RebalanceKeeps ==
  ASSUME RebInv, RebalancerNext
  PROVE  RebInv' /\ EveryPartitionOwned' /\ FreshIsEven' /\ StickyMovesNothing
<1>1. PICK s \in {"RoundRobin", "Range", "Sticky"}, S \in SUBSET GroupMembers,
           n \in PartitionCounts : Rebalance(s, S, n)
  BY DEF RebalancerNext
<1>2. /\ assigns < MaxAssigns /\ assigns' = assigns + 1 /\ count' = n
      /\ departed' = (s = "Sticky" /\ (departed \/ ~(DOMAIN plan \subseteq S)))
      /\ \/ s = "Sticky" /\ strategy' = "panic" /\ plan' = plan
         \/ strategy' = s /\ plan' \in Assignments(s, S, n)
  BY <1>1 DEF Rebalance, Panics
<1>3. assigns' \in 0 .. MaxAssigns
  <2>1. assigns \in 0 .. MaxAssigns /\ MaxAssigns \in Nat
    BY RebalancerAssumption DEF RebInv
  <2>2. QED
    BY <1>2, <2>1
<1>4. departed' \in BOOLEAN /\ count' \in PartitionCounts \union {0}
  BY <1>2
<1>5. ~departed' => s # "Sticky" \/ (~departed /\ DOMAIN plan \subseteq S)
  BY <1>2
<1>6. CASE s = "Sticky" /\ strategy' = "panic" /\ plan' = plan
  <2>1. RebInv'
    BY <1>3, <1>4, <1>5, <1>6 DEF RebInv
  <2>2. EveryPartitionOwned' /\ FreshIsEven' /\ StickyMovesNothing
    BY <1>6 DEF EveryPartitionOwned, FreshIsEven, StickyMovesNothing
  <2>3. QED
    BY <2>1, <2>2
<1>7. CASE strategy' = s /\ plan' \in Assignments(s, S, n)
  <2>1. /\ plan' \in [S -> Seq(Topic)]
        /\ S # {} => 0 .. (n - 1) \subseteq Held(plan')
        /\ (s # "Sticky" /\ S # {}) => Even(plan', S, n)
        /\ (s = "Sticky" /\ DOMAIN plan \subseteq S) =>
             \A m \in DOMAIN plan : ToSet(plan[m]) \subseteq ToSet(plan'[m])
        /\ (s # "Sticky" \/ (DOMAIN plan \subseteq S /\ OnceEach(plan))) => OnceEach(plan')
    BY <1>7, Answers
  <2>2. DOMAIN plan' = S
    BY <2>1
  <2>3. ~departed' => OnceEach(plan')
    BY <1>5, <2>1 DEF RebInv
  <2>4. RebInv'
    <3>1. strategy' \in {"none", "RoundRobin", "Range", "Sticky", "panic"}
      BY <1>7
    <3>2. DOMAIN plan' \subseteq GroupMembers /\ plan' \in [DOMAIN plan' -> Seq(Topic)]
      BY <2>1, <2>2
    <3>3. QED
      BY <1>3, <1>4, <2>3, <3>1, <3>2 DEF RebInv, Topic
  <2>5. EveryPartitionOwned'
    BY <1>2, <2>1, <2>2 DEF EveryPartitionOwned
  <2>6. FreshIsEven'
    <3>1. ASSUME s # "Sticky", S # {}
          PROVE  CalculateAssignmentSkew(plan')
                   = (n % Cardinality(S)) * (Cardinality(S) - (n % Cardinality(S)))
      <4>1. IsFiniteSet(S) /\ n \in Nat
        BY RebalancerAssumption, FS_Subset, CountFacts
      <4>2. Even(plan', S, n)
        BY <2>1, <3>1
      <4>3. QED
        BY <2>2, <3>1, <4>1, <4>2, EvenSkew
    <3>2. QED
      BY <1>2, <1>7, <2>2, <3>1 DEF FreshIsEven
  <2>7. StickyMovesNothing
    <3>1. ASSUME s = "Sticky", ~departed' PROVE CountPartitionMoves(plan, plan') = {0}
      <4>1. DOMAIN plan \subseteq S /\ OnceEach(plan)
        BY <1>5, <3>1 DEF RebInv
      <4>2. QED
        BY <2>1, <2>2, <3>1, <4>1, NothingMoves
    <3>2. QED
      BY <1>7, <3>1 DEF StickyMovesNothing
  <2>8. QED
    BY <2>4, <2>5, <2>6, <2>7
<1>8. QED
  BY <1>2, <1>6, <1>7

\* Nothing is assigned at first.
LEMMA InitRebInv == RebalancerInit => RebInv
<1> SUFFICES ASSUME RebalancerInit PROVE RebInv
  OBVIOUS
<1>1. /\ plan = <<>> /\ strategy = "none" /\ count = 0 /\ assigns = 0 /\ departed = FALSE
  BY DEF RebalancerInit
<1>2. DOMAIN plan = {} /\ plan \in [DOMAIN plan -> Seq(Topic)]
  BY <1>1
<1>3. OnceEach(plan)
  BY <1>2 DEF OnceEach
<1>4. 0 \in 0 .. MaxAssigns
  BY RebalancerAssumption
<1>5. QED
  BY <1>1, <1>2, <1>3, <1>4 DEF RebInv

\* Every assignment keeps the invariant.
LEMMA NextRebInv == RebInv /\ [RebalancerNext]_rebalancerVars => RebInv'
<1>1. RebInv /\ UNCHANGED rebalancerVars => RebInv'
  BY DEF rebalancerVars, RebInv
<1>2. QED
  BY <1>1, RebalanceKeeps

\* A step of the packages is one of the rebalancer's, or leaves it alone.
LEMMA RebalancerSteps == [PackagesNext]_allVars => [RebalancerNext]_rebalancerVars
BY DEF PackagesNext, Only, allVars

\* The assignments of every strategy own each partition, once until a member departs,
\* evenly where they start afresh, and the sticky one moves nothing that it need not
\* (RoundRobinRebalancer, RangeRebalancer, StickyRebalancer).
THEOREM StrategiesStaySound == Spec => StrategiesSound
<1>1. Spec => []RebInv
  <2>1. PackagesInit => RebInv
    BY InitRebInv DEF PackagesInit
  <2>2. RebInv /\ [PackagesNext]_allVars => RebInv'
    BY NextRebInv, RebalancerSteps
  <2>3. QED
    BY <2>1, <2>2, PTL DEF Spec
<1>2. RebInv' => OwnedOnceUntilDeparture'
  BY RebInvTypes, PTL
<1>3. RebInv /\ RebInv' /\ [PackagesNext]_allVars
        => [/\ (EveryPartitionOwned /\ OwnedOnceUntilDeparture /\ FreshIsEven)'
            /\ StickyMovesNothing]_rebalancerVars
  BY <1>2, RebalancerSteps, RebalanceKeeps
<1>4. QED
  BY <1>1, <1>3, PTL DEF Spec, StrategiesSound

-----------------------------------------------------------------------------
(* EtcdCoordinator: the bounds of its counters.                            *)

\* What etcd's type invariant says beside the invariant.
EtcdBounds ==
  /\ starts \in [Brokers -> 0 .. MaxStarts] /\ live \subseteq Leases
  /\ key \in [Brokers -> 0 .. MaxStarts] /\ beat \in [Brokers -> BOOLEAN]
  /\ Len(channel) <= ChannelSize /\ watcher \in LeaderEntry
  /\ faults \in 0 .. MaxFaults /\ calls \in 0 .. MaxCalls

\* The process starts of all brokers.
AllStarts(s) == MapThenSumSet(LAMBDA b : s[b], Brokers)

\* A broker's starts are among those of all, and their sum is a number.
LEMMA StartsAreCounted ==
  ASSUME NEW s \in [Brokers -> Nat], NEW b \in Brokers
  PROVE  AllStarts(s) \in Int /\ s[b] <= AllStarts(s)
<1> DEFINE pick == [x \in SUBSET Brokers |-> CHOOSE y \in x : TRUE]
           Round(g, x) == IF x = {} THEN 0
                          ELSE s[CHOOSE y \in x : TRUE] + g[x \ {CHOOSE y \in x : TRUE}]
           sum == CHOOSE g : g = [x \in SUBSET Brokers |-> Round(g, x)]
<1>1. AllStarts(s) = sum[Brokers]
  BY DEF AllStarts, MapThenSumSet, MapThenFoldSet
<1>2. Picks(pick, Brokers) /\ IsFiniteSet(Brokers) /\ \A x \in Brokers : s[x] \in Int
  BY CoordinatorAssumption DEF Picks
<1>3. ASSUME NEW g, NEW x \in SUBSET Brokers
      PROVE  Round(g, x) = IF x = {} THEN 0 ELSE s[pick[x]] + g[x \ {pick[x]}]
  OBVIOUS
<1> HIDE DEF pick, Round
<1>4. PICK g \in [SUBSET Brokers -> Int] : SumOf(g, Brokers, s, pick)
  BY <1>2, SumExists
<1>5. g = [x \in SUBSET Brokers |-> Round(g, x)]
  BY <1>3, <1>4 DEF SumOf
<1>6. sum = [x \in SUBSET Brokers |-> Round(sum, x)]
  BY <1>5
<1> HIDE DEF sum
<1>7. SumOf(sum, Brokers, s, pick)
  BY <1>3, <1>6 DEF SumOf
<1>8. sum[Brokers] \in Int /\ s[b] <= sum[Brokers]
  BY <1>2, <1>7, PartOfSum
<1>9. QED
  BY <1>1, <1>8

\* A step keeps the bounds.
LEMMA StartBounds ==
  ASSUME EtcdBounds, NEW b \in Brokers, Start(b)
  PROVE  EtcdBounds'
<1>1. /\ starts \in [Brokers -> 0 .. MaxStarts] /\ live \subseteq Leases /\ MaxStarts \in Nat
  BY EtcdAssumption DEF EtcdBounds
<1>2. AllStarts(starts) < MaxStarts
  BY DEF Start, AllStarts
<1>3. starts[b] + 1 \in 1 .. MaxStarts
  <2>1. starts \in [Brokers -> Nat] /\ starts[b] \in Nat
    BY <1>1
  <2>2. AllStarts(starts) \in Int /\ starts[b] <= AllStarts(starts)
    BY <2>1, StartsAreCounted
  <2>3. QED
    BY <1>1, <1>2, <2>1, <2>2
<1>4. /\ starts' = [starts EXCEPT ![b] = starts[b] + 1]
      /\ live' = live \union {<<b, starts[b] + 1>>}
      /\ UNCHANGED <<key, beat, channel, watcher, faults, calls>>
  BY DEF Start, keyVars, watchVars
<1>5. starts' \in [Brokers -> 0 .. MaxStarts]
  BY <1>1, <1>3, <1>4
<1>6. live' \subseteq Leases
  BY <1>1, <1>3, <1>4 DEF Leases
<1>7. QED
  BY <1>4, <1>5, <1>6 DEF EtcdBounds

\* A key is attached to a lease of its broker, or to none.
LEMMA KeyBounds ==
  ASSUME EtcdBounds, NEW b \in Brokers, NEW n \in {0, starts[b]},
         key' = [key EXCEPT ![b] = n]
  PROVE  key' \in [Brokers -> 0 .. MaxStarts]
<1>1. n \in 0 .. MaxStarts /\ key \in [Brokers -> 0 .. MaxStarts]
  BY EtcdAssumption DEF EtcdBounds
<1>2. QED
  BY <1>1

\* Faults and calls are counted, up to their bounds.
LEMMA FaultBounds ==
  ASSUME EtcdBounds
  PROVE  /\ Fault => faults' \in 0 .. MaxFaults
         /\ Call => calls' \in 0 .. MaxCalls
         /\ faults \in 0 .. MaxFaults /\ calls \in 0 .. MaxCalls
<1>1. /\ faults \in 0 .. MaxFaults /\ calls \in 0 .. MaxCalls
      /\ MaxFaults \in Nat /\ MaxCalls \in Nat
  BY EtcdAssumption DEF EtcdBounds
<1>2. Fault => faults' \in 0 .. MaxFaults
  BY <1>1 DEF Fault
<1>3. Call => calls' \in 0 .. MaxCalls
  BY <1>1 DEF Call
<1>4. QED
  BY <1>1, <1>2, <1>3

\* What ends with a process, and with its watch, leaves the bounds as they are.
LEMMA EndBounds ==
  ASSUME EtcdBounds, NEW b, EndProcess(b), EndWatch(b)
  PROVE  /\ beat' \in [Brokers -> BOOLEAN]
         /\ Len(channel') <= ChannelSize /\ watcher' \in LeaderEntry
<1>1. beat' \in [Brokers -> BOOLEAN]
  BY DEF EndProcess, EtcdBounds
<1>2. Len(<<>>) <= ChannelSize
  BY EmptySeq, CoordinatorAssumption
<1>3. QED
  BY <1>1, <1>2 DEF EndWatch, EtcdBounds, LeaderEntry

\* The steps of processes and leases.
LEMMA RegistryBounds ==
  ASSUME EtcdBounds, RegistryNext
  PROVE  EtcdBounds'
<1>1. /\ starts \in [Brokers -> 0 .. MaxStarts] /\ live \subseteq Leases
      /\ key \in [Brokers -> 0 .. MaxStarts] /\ beat \in [Brokers -> BOOLEAN]
      /\ Len(channel) <= ChannelSize /\ watcher \in LeaderEntry
      /\ faults \in 0 .. MaxFaults /\ calls \in 0 .. MaxCalls
      /\ (Fault => faults' \in 0 .. MaxFaults) /\ (Call => calls' \in 0 .. MaxCalls)
  BY FaultBounds DEF EtcdBounds
<1>2. ASSUME NEW b \in Brokers, PutBroker(b) \/ DeleteBroker(b) \/ RegistryUnchanged
      PROVE  key' \in [Brokers -> 0 .. MaxStarts]
  BY <1>1, <1>2, KeyBounds DEF PutBroker, DeleteBroker, RegistryUnchanged
<1>3. ASSUME NEW b \in Brokers, RegisterBroker(b) PROVE EtcdBounds'
  <2>1. /\ PutBroker(b) \/ RegistryUnchanged
        /\ faults' = faults \/ Fault
        /\ UNCHANGED <<starts, live, beat, channel, watcher, calls>>
    BY <1>3 DEF RegisterBroker
  <2>2. key' \in [Brokers -> 0 .. MaxStarts] /\ faults' \in 0 .. MaxFaults
    BY <1>1, <1>2, <2>1
  <2>3. QED
    BY <2>1, <2>2 DEF EtcdBounds
<1>4. ASSUME NEW b \in Brokers, HeartbeatRead(b) PROVE EtcdBounds'
  <2>1. beat' = [beat EXCEPT ![b] = TRUE] /\ calls' \in 0 .. MaxCalls
        /\ UNCHANGED <<starts, live, key, faults, channel, watcher>>
    BY <1>1, <1>4 DEF HeartbeatRead, watchVars
  <2>2. beat' \in [Brokers -> BOOLEAN]
    BY <1>1, <2>1
  <2>3. QED
    BY <2>1, <2>2 DEF EtcdBounds
<1>5. ASSUME NEW b \in Brokers, HeartbeatWrite(b) PROVE EtcdBounds'
  <2>1. beat' = [beat EXCEPT ![b] = FALSE] /\ (PutBroker(b) \/ RegistryUnchanged)
        /\ UNCHANGED <<starts, live, faults, calls, channel, watcher>>
    BY <1>5 DEF HeartbeatWrite
  <2>2. beat' \in [Brokers -> BOOLEAN]
    BY <1>1, <2>1
  <2>3. key' \in [Brokers -> 0 .. MaxStarts]
    BY <1>2, <2>1
  <2>4. QED
    BY <2>1, <2>2, <2>3 DEF EtcdBounds
<1>6. ASSUME NEW b \in Brokers, DeregisterBroker(b) PROVE EtcdBounds'
  <2>1. /\ DeleteBroker(b) \/ RegistryUnchanged
        /\ faults' = faults \/ Fault
        /\ UNCHANGED <<starts, live, beat, channel, watcher, calls>>
    BY <1>6 DEF DeregisterBroker
  <2>2. key' \in [Brokers -> 0 .. MaxStarts] /\ faults' \in 0 .. MaxFaults
    BY <1>1, <1>2, <2>1
  <2>3. QED
    BY <2>1, <2>2 DEF EtcdBounds
<1>7. ASSUME NEW b \in Brokers, Stop(b) PROVE EtcdBounds'
  <2>1. /\ EndProcess(b) /\ EndWatch(b)
        /\ faults' = faults \/ Fault
        /\ live' = live \/ live' = live \ {<<b, starts[b]>>}
        /\ key' = key \/ key' = [key EXCEPT ![b] = IF @ = starts[b] THEN 0 ELSE @]
        /\ UNCHANGED <<starts, calls>>
    BY <1>7 DEF Stop
  <2>2. key' \in [Brokers -> 0 .. MaxStarts]
    <3>1. 0 \in 0 .. MaxStarts
      BY EtcdAssumption
    <3>2. QED
      BY <1>1, <2>1, <3>1
  <2>3. live' \subseteq Leases /\ faults' \in 0 .. MaxFaults
    BY <1>1, <2>1
  <2>4. QED
    BY <1>1, <2>1, <2>2, <2>3, EndBounds DEF EtcdBounds
<1>8. ASSUME NEW b \in Brokers, Crash(b) PROVE EtcdBounds'
  <2>1. EndProcess(b) /\ EndWatch(b) /\ UNCHANGED <<starts, live, key, faults, calls>>
    BY <1>8 DEF Crash
  <2>2. QED
    BY <1>1, <2>1, EndBounds DEF EtcdBounds
<1>9. ASSUME NEW l \in Leases, LeaseExpires(l) PROVE EtcdBounds'
  <2>1. l[1] \in Brokers
    BY DEF Leases
  <2>2. /\ live' = live \ {l}
        /\ faults' = faults \/ Fault
        /\ DeleteBroker(l[1]) \/ RegistryUnchanged
        /\ UNCHANGED <<starts, beat, channel, watcher, calls>>
    BY <1>9 DEF LeaseExpires, EndLease
  <2>3. key' \in [Brokers -> 0 .. MaxStarts]
    BY <1>2, <2>1, <2>2
  <2>4. live' \subseteq Leases /\ faults' \in 0 .. MaxFaults
    BY <1>1, <2>2
  <2>5. QED
    BY <2>2, <2>3, <2>4 DEF EtcdBounds
<1>10. QED
  BY <1>3, <1>4, <1>5, <1>6, <1>7, <1>8, <1>9, StartBounds DEF RegistryNext

\* The steps of elections.
LEMMA ElectionBounds ==
  ASSUME EtcdBounds, ElectionNext
  PROVE  EtcdBounds'
<1>1. /\ (Fault => faults' \in 0 .. MaxFaults) /\ (Call => calls' \in 0 .. MaxCalls)
      /\ faults \in 0 .. MaxFaults
  BY FaultBounds
<1>2. ASSUME NEW b \in Brokers, NEW list \in ISRs, UpdateISR(b, list) PROVE EtcdBounds'
  <2>1. calls' \in 0 .. MaxCalls /\ UNCHANGED <<processVars, watchVars, faults>>
    BY <1>1, <1>2 DEF UpdateISR
  <2>2. QED
    BY <2>1 DEF EtcdBounds, processVars, watchVars
<1>3. ASSUME NEW c \in Elections, ElectionStep(c) PROVE EtcdBounds'
  <2>1. ElectionOnly /\ (faults' = faults \/ Fault)
    BY <1>3 DEF ElectionStep, CheckLeader, ReadISR, TryCandidate, CompareAndSwap, PutLeader,
                Healthy, Unhealthy
  <2>2. faults' \in 0 .. MaxFaults
    BY <1>1, <2>1
  <2>3. QED
    BY <2>1, <2>2 DEF ElectionOnly, EtcdBounds, processVars, watchVars
<1>4. ASSUME NEW c \in Elections, SwapPanics(c) PROVE EtcdBounds'
  <2>1. /\ EndProcess(election[c].host) /\ EndWatch(election[c].host) /\ Fault
        /\ UNCHANGED <<starts, live, key, calls>>
    BY <1>4 DEF SwapPanics
  <2>2. QED
    BY <1>1, <2>1, EndBounds DEF EtcdBounds
<1>5. ASSUME NEW c \in Elections, NEW b \in Brokers, ElectLeader(c, b) PROVE EtcdBounds'
  <2>1. calls' \in 0 .. MaxCalls /\ UNCHANGED <<processVars, watchVars, faults>>
    BY <1>1, <1>5 DEF ElectLeader
  <2>2. QED
    BY <2>1 DEF EtcdBounds, processVars, watchVars
<1>6. QED
  BY <1>2, <1>3, <1>4, <1>5 DEF ElectionNext

\* The steps of the watcher.
LEMMA WatchBounds ==
  ASSUME EtcdBounds, EventInv, WatchNext \/ Receive
  PROVE  EtcdBounds'
<1>1. ASSUME NEW b \in Brokers, Watch(b) PROVE EtcdBounds'
  BY <1>1 DEF Watch, processVars, EtcdBounds, LeaderEntry
<1>2. /\ channel \in Seq(BrokerHealthEvent) /\ stream \in Seq(BrokerHealthEvent)
      /\ Len(channel) \in Nat /\ ChannelSize \in Nat /\ Len(channel) <= ChannelSize
  BY LenProperties, CoordinatorAssumption DEF EventInv, EtcdBounds
<1>3. ASSUME Forward PROVE EtcdBounds'
  <2>1. /\ stream # <<>> /\ UNCHANGED <<processVars, watcher, faults, calls>>
        /\ channel' = channel
           \/ (Len(channel) < ChannelSize /\ channel' = Append(channel, Head(stream)))
    BY <1>3 DEF Forward, TakeChange
  <2>2. Head(stream) \in BrokerHealthEvent
    BY <1>2, <2>1, HeadTailProperties
  <2>3. Len(Append(channel, Head(stream))) = Len(channel) + 1
    BY <1>2, <2>2, AppendProperties
  <2>4. Len(channel') <= ChannelSize
    BY <1>2, <2>1, <2>3
  <2>5. QED
    BY <2>1, <2>4 DEF EtcdBounds, processVars
<1>4. ASSUME Receive PROVE EtcdBounds'
  <2>1. /\ channel # <<>> /\ channel' = Tail(channel)
        /\ UNCHANGED <<processVars, watcher, faults, calls>>
    BY <1>4 DEF Receive
  <2>2. Len(channel') = Len(channel) - 1
    BY <1>2, <2>1, HeadTailProperties
  <2>3. Len(channel') <= ChannelSize
    BY <1>2, <2>2
  <2>4. QED
    BY <2>1, <2>3 DEF EtcdBounds, processVars
<1>5. QED
  BY <1>1, <1>3, <1>4 DEF WatchNext

\* Together with the invariant the bounds are etcd's type invariant.
LEMMA EtcdTypes ==
  /\ EtcdInit => EtcdBounds
  /\ EtcdInv /\ EtcdBounds /\ [EtcdStep]_etcdVars => EtcdBounds'
  /\ EtcdInv /\ EtcdBounds => EtcdTypeOK
<1>1. EtcdInit => EtcdBounds
  <2>1. 0 \in 0 .. MaxStarts /\ 0 \in 0 .. MaxFaults /\ 0 \in 0 .. MaxCalls
    BY EtcdAssumption
  <2>2. Len(<<>>) <= ChannelSize
    BY EmptySeq, CoordinatorAssumption
  <2>3. QED
    BY <2>1, <2>2 DEF EtcdInit, EtcdBounds, LeaderEntry
<1>2. EtcdInv /\ EtcdBounds /\ [EtcdStep]_etcdVars => EtcdBounds'
  <2>1. EtcdBounds /\ UNCHANGED etcdVars => EtcdBounds'
    BY DEF EtcdBounds, etcdVars
  <2>2. QED
    BY <2>1, RegistryBounds, ElectionBounds, WatchBounds DEF EtcdStep, EtcdInv
<1>3. EtcdInv /\ EtcdBounds => EtcdTypeOK
  BY DEF EtcdInv, EtcdData, EventInv, EtcdBounds, EtcdTypeOK, ISREntry, ElectionState,
         Elected, ProcessStates
<1>4. QED
  BY <1>1, <1>2, <1>3

-----------------------------------------------------------------------------
(* MockCoordinator: the types of its maps.                                 *)

\* A send to a watcher's channel.
LEMMA OfferType ==
  ASSUME NEW w \in Seq(Brokers), NEW b \in Brokers
  PROVE  Offer(w, b) \in Seq(Brokers)
BY AppendProperties DEF Offer

\* The brokers that are found dead are offered to a watcher, in their order.
LEMMA OfferFolds ==
  ASSUME NEW base \in Seq(Brokers), NEW q \in Seq(Brokers)
  PROVE  FoldLeft(Offer, base, q) \in Seq(Brokers)
<1> DEFINE X == Seq(Brokers)
           n == Len(q)
           D == 1 .. n
           pick == [s \in SUBSET D |-> Max(s)]
           step == [z \in X \X D |-> Offer(z[1], q[z[2]])]
           Round(g, s) == IF s = {} THEN base ELSE Offer(g[s \ {Max(s)}], q[Max(s)])
           found == CHOOSE g : g = [s \in SUBSET DOMAIN q |-> Round(g, s)]
<1>1. FoldLeft(Offer, base, q) = found[DOMAIN q]
  BY DEF FoldLeft, MapThenFoldSet
<1>2. n \in Nat
  BY LenProperties
<1>3. DOMAIN q = D /\ \A i \in D : q[i] \in Brokers
  BY LenProperties
<1> HIDE DEF n
<1>4. /\ Picks(pick, D) /\ IsFiniteSet(D) /\ 1 .. 0 = {}
      /\ \A k \in D : /\ Max(1 .. k) = k /\ (1 .. k) \ {k} = 1 .. (k - 1)
                      /\ 1 .. k # {} /\ 1 .. k \in SUBSET D
  BY <1>2, PrefixFacts
<1>5. ASSUME NEW w \in X, NEW i \in D PROVE Offer(w, q[i]) \in X
  BY <1>3, OfferType
<1>6. ASSUME NEW w \in X, NEW i \in D
      PROVE  step[<<w, i>>] = Offer(w, q[i]) /\ step[<<w, i>>] \in X
  <2>1. step[<<w, i>>] = Offer(w, q[i])
    OBVIOUS
  <2>2. QED
    BY <1>5, <2>1
<1> HIDE DEF D, pick, step
<1>7. PICK g \in [SUBSET D -> X] : FoldOf(g, D, base, step, pick)
  <2>1. base \in X /\ StepsIn(step, X, D)
    BY <1>6 DEF StepsIn
  <2> HIDE DEF X
  <2>2. QED
    BY <1>4, <2>1, FoldExists
<1>8. g = [s \in SUBSET DOMAIN q |-> Round(g, s)]
  <2>1. ASSUME NEW s \in SUBSET D PROVE g[s] = Round(g, s)
    <3>1. CASE s = {}
      BY <1>7, <3>1 DEF FoldOf
    <3>2. CASE s # {}
      <4>1. pick[s] = Max(s) /\ Max(s) \in D /\ s \ {Max(s)} \in SUBSET D
        BY <1>4, <3>2 DEF Picks, pick
      <4>2. g[s \ {Max(s)}] \in X
        BY <1>7, <4>1
      <4>3. g[s] = step[<<g[s \ {Max(s)}], Max(s)>>]
        BY <1>7, <3>2, <4>1 DEF FoldOf
      <4>4. QED
        BY <1>6, <3>2, <4>1, <4>2, <4>3
    <3>3. QED
      BY <3>1, <3>2
  <2> HIDE DEF Round
  <2>2. QED
    BY <1>3, <1>7, <2>1
<1>9. found = [s \in SUBSET D |-> Round(found, s)]
  <2> HIDE DEF Round
  <2>1. QED
    BY <1>3, <1>8
<1> HIDE DEF found
<1> DEFINE T == {k \in 0 .. n : found[1 .. k] \in X}
<1>10. 0 \in T
  <2>1. {} \in SUBSET D /\ 0 \in 0 .. n
    BY <1>2
  <2>2. found[{}] = base
    BY <1>9, <2>1
  <2>3. QED
    BY <1>4, <2>1, <2>2
<1>11. ASSUME NEW k \in 0 .. (n - 1), k \in T PROVE k + 1 \in T
  <2>1. k + 1 \in D /\ k + 1 \in 0 .. n /\ (k + 1) - 1 = k
    BY <1>2 DEF D
  <2>2. /\ 1 .. (k + 1) # {} /\ 1 .. (k + 1) \in SUBSET D /\ Max(1 .. (k + 1)) = k + 1
        /\ (1 .. (k + 1)) \ {k + 1} = 1 .. k
    BY <1>4, <2>1
  <2>3. found[1 .. (k + 1)] = Offer(found[1 .. k], q[k + 1])
    BY <1>9, <2>2
  <2>4. found[1 .. k] \in X
    BY <1>11
  <2>5. found[1 .. (k + 1)] \in X
    BY <1>5, <2>1, <2>3, <2>4
  <2>6. QED
    BY <2>1, <2>5
<1>12. n \in T
  <2>1. n \in 0 .. n
    BY <1>2
  <2> HIDE DEF T
  <2>2. QED
    BY <1>2, <1>10, <1>11, <2>1, UpTo
<1>13. QED
  BY <1>1, <1>3, <1>12 DEF D

\* A broker that is first of a list, or 0.
LEMMA FirstRegisteredType ==
  ASSUME MockInv, NEW list \in Seq(Brokers), NEW b
  PROVE  FirstRegistered(list, b) # 0 => FirstRegistered(list, b) \in Brokers
<1> DEFINE ok == {i \in DOMAIN list : list[i] \in brokers \ {b}}
<1>1. FirstRegistered(list, b) = IF ok = {} THEN 0 ELSE list[Min(ok)]
  BY DEF FirstRegistered
<1>2. DOMAIN list = 1 .. Len(list) /\ Len(list) \in Nat
  BY LenProperties
<1>3. ok \subseteq Nat
  BY <1>2
<1>4. ASSUME ok # {} PROVE list[Min(ok)] \in Brokers
  <2>1. Min(ok) \in ok
    <3> HIDE DEF ok
    <3>1. \E x \in ok : \A y \in ok : x <= y
      BY <1>3, <1>4, LeastNatural
    <3>2. QED
      BY <3>1 DEF Min
  <2> DEFINE i == Min(ok)
  <2>2. i \in ok
    BY <2>1
  <2> HIDE DEF i
  <2>3. list[i] \in Brokers
    BY <2>2 DEF MockInv
  <2>4. QED
    BY <2>3 DEF i
<1>5. QED
  BY <1>1, <1>4

\* Partitions keep leaders that are brokers when a broker's are taken over.
LEMMA FailoverType ==
  ASSUME MockInv, NEW ls \in [Partitions -> LeaderEntry], NEW b \in Brokers
  PROVE  Failover(ls, b) \in [Partitions -> LeaderEntry]
<1>1. \A p \in Partitions :
        FirstRegistered(isrMap[p], b) # 0 => FirstRegistered(isrMap[p], b) \in LeaderEntry
  BY FirstRegisteredType DEF MockInv, LeaderEntry
<1>2. QED
  BY <1>1 DEF Failover

\* The brokers that are found dead fail over, in their order.
LEMMA FailoverFolds ==
  ASSUME MockInv, NEW base \in [Partitions -> LeaderEntry], NEW q \in Seq(Brokers)
  PROVE  FoldLeft(Failover, base, q) \in [Partitions -> LeaderEntry]
<1> DEFINE X == [Partitions -> LeaderEntry]
           n == Len(q)
           D == 1 .. n
           pick == [s \in SUBSET D |-> Max(s)]
           step == [z \in X \X D |-> Failover(z[1], q[z[2]])]
           Round(g, s) == IF s = {} THEN base ELSE Failover(g[s \ {Max(s)}], q[Max(s)])
           found == CHOOSE g : g = [s \in SUBSET DOMAIN q |-> Round(g, s)]
<1>1. FoldLeft(Failover, base, q) = found[DOMAIN q]
  BY DEF FoldLeft, MapThenFoldSet
<1>2. n \in Nat
  BY LenProperties
<1>3. DOMAIN q = D /\ \A i \in D : q[i] \in Brokers
  BY LenProperties
<1> HIDE DEF n
<1>4. /\ Picks(pick, D) /\ IsFiniteSet(D) /\ 1 .. 0 = {}
      /\ \A k \in D : /\ Max(1 .. k) = k /\ (1 .. k) \ {k} = 1 .. (k - 1)
                      /\ 1 .. k # {} /\ 1 .. k \in SUBSET D
  BY <1>2, PrefixFacts
<1>5. ASSUME NEW w \in X, NEW i \in D PROVE Failover(w, q[i]) \in X
  BY <1>3, FailoverType
<1>6. ASSUME NEW w \in X, NEW i \in D
      PROVE  step[<<w, i>>] = Failover(w, q[i]) /\ step[<<w, i>>] \in X
  <2>1. step[<<w, i>>] = Failover(w, q[i])
    OBVIOUS
  <2>2. QED
    BY <1>5, <2>1
<1> HIDE DEF D, pick, step
<1>7. PICK g \in [SUBSET D -> X] : FoldOf(g, D, base, step, pick)
  <2>1. base \in X /\ StepsIn(step, X, D)
    BY <1>6 DEF StepsIn
  <2> HIDE DEF X
  <2>2. QED
    BY <1>4, <2>1, FoldExists
<1>8. g = [s \in SUBSET DOMAIN q |-> Round(g, s)]
  <2>1. ASSUME NEW s \in SUBSET D PROVE g[s] = Round(g, s)
    <3>1. CASE s = {}
      BY <1>7, <3>1 DEF FoldOf
    <3>2. CASE s # {}
      <4>1. pick[s] = Max(s) /\ Max(s) \in D /\ s \ {Max(s)} \in SUBSET D
        BY <1>4, <3>2 DEF Picks, pick
      <4>2. g[s \ {Max(s)}] \in X
        BY <1>7, <4>1
      <4>3. g[s] = step[<<g[s \ {Max(s)}], Max(s)>>]
        BY <1>7, <3>2, <4>1 DEF FoldOf
      <4>4. QED
        BY <1>6, <3>2, <4>1, <4>2, <4>3
    <3>3. QED
      BY <3>1, <3>2
  <2> HIDE DEF Round
  <2>2. QED
    BY <1>3, <1>7, <2>1
<1>9. found = [s \in SUBSET D |-> Round(found, s)]
  <2> HIDE DEF Round
  <2>1. QED
    BY <1>3, <1>8
<1> HIDE DEF found
<1> DEFINE T == {k \in 0 .. n : found[1 .. k] \in X}
<1>10. 0 \in T
  <2>1. {} \in SUBSET D /\ 0 \in 0 .. n
    BY <1>2
  <2>2. found[{}] = base
    BY <1>9, <2>1
  <2>3. QED
    BY <1>4, <2>1, <2>2
<1>11. ASSUME NEW k \in 0 .. (n - 1), k \in T PROVE k + 1 \in T
  <2>1. k + 1 \in D /\ k + 1 \in 0 .. n /\ (k + 1) - 1 = k
    BY <1>2 DEF D
  <2>2. /\ 1 .. (k + 1) # {} /\ 1 .. (k + 1) \in SUBSET D /\ Max(1 .. (k + 1)) = k + 1
        /\ (1 .. (k + 1)) \ {k + 1} = 1 .. k
    BY <1>4, <2>1
  <2>3. found[1 .. (k + 1)] = Failover(found[1 .. k], q[k + 1])
    BY <1>9, <2>2
  <2>4. found[1 .. k] \in X
    BY <1>11
  <2>5. found[1 .. (k + 1)] \in X
    BY <1>5, <2>1, <2>3, <2>4
  <2>6. QED
    BY <2>1, <2>5
<1>12. n \in T
  <2>1. n \in 0 .. n
    BY <1>2
  <2> HIDE DEF T
  <2>2. QED
    BY <1>2, <1>10, <1>11, <2>1, UpTo
<1>13. QED
  BY <1>1, <1>3, <1>12 DEF D

\* The list without the first entry of a member.
LEMMA RemoveFirstType ==
  ASSUME NEW P, NEW s \in Seq(P), NEW e
  PROVE  RemoveFirst(s, e) \in Seq(P)
<1> DEFINE I == {i \in 1 .. Len(s) : s[i] = e}
<1>1. Len(s) \in Nat
  BY LenProperties
<1>2. CASE I = {}
  BY <1>2 DEF RemoveFirst
<1>3. CASE I # {}
  <2>1. RemoveFirst(s, e) = RemoveAt(s, Min(I))
    BY <1>3 DEF RemoveFirst, SelectInSeq
  <2>2. Min(I) \in I
    <3>1. I \subseteq Nat
      OBVIOUS
    <3> HIDE DEF I
    <3>2. \E x \in I : \A y \in I : x <= y
      BY <1>3, <3>1, LeastNatural
    <3>3. QED
      BY <3>2 DEF Min
  <2> DEFINE i == Min(I)
  <2>3. i \in 1 .. Len(s)
    BY <2>2
  <2> HIDE DEF i
  <2>4. SubSeq(s, 1, i - 1) \in Seq(P) /\ SubSeq(s, i + 1, Len(s)) \in Seq(P)
    BY <1>1, <2>3
  <2>5. RemoveAt(s, i) \in Seq(P)
    BY <2>4, ConcatProperties DEF RemoveAt
  <2>6. QED
    BY <2>1, <2>5 DEF i
<1>4. QED
  BY <1>2, <1>3

\* Replicas are brokers.
LEMMA ReplicasType ==
  ASSUME MockInv, NEW order \in SetToSeqs(brokers), NEW factor \in Int
  PROVE  /\ AssignReplicas(order, factor) \in Seq(Brokers)
         /\ AssignReplicas(order, factor) # <<>> =>
              AssignReplicas(order, factor)[1] \in Brokers
<1>1. order \in Seq(Brokers)
  <2>1. order \in [1 .. Len(order) -> brokers] /\ Len(order) \in Nat
    BY ListFacts DEF MockInv
  <2>2. order \in [1 .. Len(order) -> Brokers]
    BY <2>1 DEF MockInv
  <2>3. QED
    BY <2>1, <2>2, SeqDef
<1> DEFINE n == IF factor < Len(order) THEN factor ELSE Len(order)
           w == SubSeq(order, 1, n)
<1>2. Len(order) \in Nat /\ n \in Int /\ n <= Len(order)
  BY <1>1, LenProperties
<1>3. w \in Seq(Brokers)
  <2> HIDE DEF n
  <2>1. QED
    BY <1>1, <1>2
<1>4. w # <<>> => w[1] \in Brokers
  <2> HIDE DEF w
  <2>1. QED
    BY <1>3, HeadTailProperties
<1>5. QED
  BY <1>3, <1>4 DEF AssignReplicas

\* The mock begins with the types it keeps.
LEMMA MockTypesInit == MockInit => MockTypeOK
<1> SUFFICES ASSUME MockInit PROVE MockTypeOK
  OBVIOUS
<1>1. <<>> \in Seq(Brokers) /\ <<>> \in Seq(Seq(Brokers)) /\ <<>> \in Seq(Consumers)
      /\ Len(<<>>) <= MaxWatchers /\ Absent \in Absent .. MaxPartitions
  BY EmptySeq, MockAssumption DEF Absent
<1>2. QED
  BY <1>1 DEF MockInit, MockTypeOK, LeaderEntry, ISREntry, NoOffsets

\* Every step keeps the types.
LEMMA MockTypesNext == MockInv /\ MockTypeOK /\ [MockNext]_mockVars => MockTypeOK'
<1> SUFFICES ASSUME MockInv, MockTypeOK, [MockNext]_mockVars PROVE MockTypeOK'
  OBVIOUS
<1>1. /\ running \in {"new", "running", "stopped"} /\ brokers \subseteq Brokers
      /\ heartbeats \in [Brokers -> {"none", "fresh", "stale"}]
      /\ {b \in Brokers : heartbeats[b] # "none"} \subseteq brokers
      /\ leaders \in [Partitions -> LeaderEntry] /\ isrMap \in [Partitions -> Seq(Brokers)]
      /\ topic \in Absent .. MaxPartitions
      /\ watchers \in Seq(Seq(Brokers)) /\ Len(watchers) <= MaxWatchers
      /\ members \in Seq(Consumers) /\ offsets \in [Partitions -> Offsets \union {0}]
  BY DEF MockTypeOK, ISREntry
<1>2. /\ <<>> \in Seq(Brokers) /\ <<>> \in Seq(Seq(Brokers)) /\ <<>> \in Seq(Consumers)
      /\ Len(<<>>) <= MaxWatchers /\ Len(watchers) \in Nat /\ MaxWatchers \in Nat
      /\ Brokers \subseteq LeaderEntry
      /\ NoOffsets \in [Partitions -> Offsets \union {0}] /\ ISRs \subseteq Seq(Brokers)
  BY <1>1, EmptySeq, LenProperties, MockAssumption, CoordinatorAssumption
     DEF LeaderEntry, NoOffsets
<1>3. ASSUME StartMock \/ StopMock PROVE MockTypeOK'
  <2>1. /\ running' \in {"new", "running", "stopped"} /\ watchers' \in {watchers, <<>>}
        /\ UNCHANGED <<brokerVars, leaderVars, groupVars, topic>>
    BY <1>3 DEF StartMock, StopMock
  <2>2. watchers' \in Seq(Seq(Brokers)) /\ Len(watchers') <= MaxWatchers
    BY <1>1, <1>2, <2>1
  <2>3. QED
    BY <1>1, <2>1, <2>2 DEF MockTypeOK, ISREntry, brokerVars, leaderVars, groupVars
<1>4. ASSUME WatchHealth PROVE MockTypeOK'
  <2>1. /\ Len(watchers) < MaxWatchers /\ watchers' = Append(watchers, <<>>)
        /\ UNCHANGED <<brokerVars, leaderVars, groupVars, running, topic>>
    BY <1>4 DEF WatchHealth
  <2>2. watchers' \in Seq(Seq(Brokers)) /\ Len(watchers') = Len(watchers) + 1
    BY <1>1, <1>2, <2>1, AppendProperties
  <2>3. Len(watchers') <= MaxWatchers
    BY <1>2, <2>1, <2>2
  <2>4. QED
    BY <1>1, <2>1, <2>2, <2>3 DEF MockTypeOK, ISREntry, brokerVars, leaderVars, groupVars
<1>5. ASSUME NEW b \in Brokers, Register(b) \/ Heartbeat(b) PROVE MockTypeOK'
  <2>1. /\ brokers' = brokers \union {b} \/ (b \in brokers /\ brokers' = brokers)
        /\ heartbeats' = [heartbeats EXCEPT ![b] = "fresh"]
        /\ UNCHANGED <<leaderVars, groupVars, running, topic, watchers>>
    BY <1>5 DEF Register, Heartbeat
  <2>2. /\ brokers' \subseteq Brokers
        /\ heartbeats' \in [Brokers -> {"none", "fresh", "stale"}]
        /\ {x \in Brokers : heartbeats'[x] # "none"} \subseteq brokers'
    BY <1>1, <2>1
  <2>3. QED
    BY <1>1, <2>1, <2>2 DEF MockTypeOK, ISREntry, leaderVars, groupVars
<1>6. ASSUME NEW b \in Brokers, Deregister(b) PROVE MockTypeOK'
  <2>1. /\ brokers' = brokers \ {b} /\ heartbeats' = [heartbeats EXCEPT ![b] = "none"]
        /\ leaders' = Failover(leaders, b)
        /\ UNCHANGED <<groupVars, running, topic, watchers, isrMap>>
    BY <1>6 DEF Deregister
  <2>2. /\ brokers' \subseteq Brokers
        /\ heartbeats' \in [Brokers -> {"none", "fresh", "stale"}]
        /\ {x \in Brokers : heartbeats'[x] # "none"} \subseteq brokers'
    BY <1>1, <2>1
  <2>3. leaders' \in [Partitions -> LeaderEntry]
    BY <1>1, <2>1, FailoverType
  <2>4. QED
    BY <1>1, <2>1, <2>2, <2>3 DEF MockTypeOK, ISREntry, groupVars
<1>7. ASSUME NEW b \in Brokers, OutOfSession(b) PROVE MockTypeOK'
  <2>1. /\ heartbeats[b] = "fresh" /\ heartbeats' = [heartbeats EXCEPT ![b] = "stale"]
        /\ UNCHANGED <<brokers, leaderVars, groupVars, running, topic, watchers>>
    BY <1>7 DEF OutOfSession
  <2>2. /\ heartbeats' \in [Brokers -> {"none", "fresh", "stale"}]
        /\ {x \in Brokers : heartbeats'[x] # "none"} \subseteq brokers
    BY <1>1, <2>1
  <2>3. QED
    BY <1>1, <2>1, <2>2 DEF MockTypeOK, ISREntry, leaderVars, groupVars
<1>8. ASSUME NEW order \in SetToSeqs({b \in Brokers : heartbeats[b] = "stale"}),
             CheckBrokerHealth(order)
      PROVE  MockTypeOK'
  <2> DEFINE S == {b \in Brokers : heartbeats[b] = "stale"}
  <2>1. order \in Seq(Brokers)
    <3>1. S \subseteq Brokers /\ IsFiniteSet(S)
      BY CoordinatorAssumption, FS_Subset
    <3> HIDE DEF S
    <3>2. order \in [1 .. Len(order) -> S] /\ Len(order) \in Nat
      BY <3>1, ListFacts DEF S
    <3>3. order \in [1 .. Len(order) -> Brokers]
      BY <3>1, <3>2
    <3>4. QED
      BY <3>2, <3>3, SeqDef
  <2>2. /\ heartbeats' = [b \in Brokers |->
                            IF b \in ToSet(order) THEN "none" ELSE heartbeats[b]]
        /\ watchers' = [w \in DOMAIN watchers |-> FoldLeft(Offer, watchers[w], order)]
        /\ leaders' = FoldLeft(Failover, leaders, order)
        /\ UNCHANGED <<groupVars, running, topic, brokers, isrMap>>
    BY <1>8 DEF CheckBrokerHealth
  <2>3. /\ heartbeats' \in [Brokers -> {"none", "fresh", "stale"}]
        /\ {x \in Brokers : heartbeats'[x] # "none"} \subseteq brokers
    BY <1>1, <2>2
  <2>4. leaders' \in [Partitions -> LeaderEntry]
    BY <1>1, <2>1, <2>2, FailoverFolds
  <2>5. watchers' \in Seq(Seq(Brokers)) /\ Len(watchers') = Len(watchers)
    <3> DEFINE n == Len(watchers)
    <3>1. DOMAIN watchers = 1 .. n /\ n \in Nat /\ \A w \in 1 .. n : watchers[w] \in Seq(Brokers)
      BY <1>1, <1>2, LenProperties, ElementOfSeq
    <3>2. DOMAIN watchers' = 1 .. n /\ watchers' = [w \in 1 .. n |-> watchers'[w]]
      BY <2>2, <3>1
    <3>3. \A w \in 1 .. n : watchers'[w] = FoldLeft(Offer, watchers[w], order)
      BY <2>2, <3>1
    <3>4. \A w \in 1 .. n : watchers'[w] \in Seq(Brokers)
      BY <2>1, <3>1, <3>3, OfferFolds
    <3> HIDE DEF n
    <3>5. watchers' \in [1 .. n -> Seq(Brokers)]
      BY <3>2, <3>4
    <3>6. watchers' \in Seq(Seq(Brokers))
      BY <3>1, <3>5, SeqDef
    <3>7. Len(watchers') = n
      BY <3>1, <3>2, <3>6, LenProperties
    <3>8. QED
      BY <3>6, <3>7 DEF n
  <2>6. QED
    BY <1>1, <2>2, <2>3, <2>4, <2>5 DEF MockTypeOK, ISREntry, groupVars
<1>9. ASSUME NEW w \in 1 .. MaxWatchers, TakeEvent(w) PROVE MockTypeOK'
  <2>1. /\ w \in DOMAIN watchers /\ watchers[w] # <<>>
        /\ watchers' = [watchers EXCEPT ![w] = Tail(watchers[w])]
        /\ UNCHANGED <<brokerVars, leaderVars, groupVars, running, topic>>
    BY <1>9 DEF TakeEvent
  <2>2. watchers[w] \in Seq(Brokers) /\ DOMAIN watchers = 1 .. Len(watchers)
    BY <1>1, <2>1, LenProperties, ElementOfSeq
  <2>3. Tail(watchers[w]) \in Seq(Brokers)
    BY <2>1, <2>2, HeadTailProperties
  <2>4. watchers' \in Seq(Seq(Brokers)) /\ Len(watchers') = Len(watchers)
    <3>1. w \in 1 .. Len(watchers)
      BY <2>1, <2>2
    <3>2. QED
      BY <1>1, <2>1, <2>3, <3>1, ExceptSeq
  <2>5. QED
    BY <1>1, <2>1, <2>4 DEF MockTypeOK, ISREntry, brokerVars, leaderVars, groupVars
<1>10. ASSUME NEW p \in Partitions, NEW list \in ISRs, Elect(p, list) PROVE MockTypeOK'
  <2> DEFINE fromISR == FirstRegistered(isrMap[p], NoBroker)
             next == IF fromISR # 0 THEN fromISR ELSE FirstRegistered(list, NoBroker)
  <2>1. /\ next # 0 /\ leaders' = [leaders EXCEPT ![p] = next]
        /\ UNCHANGED <<brokerVars, groupVars, running, topic, watchers, isrMap>>
    BY <1>10 DEF Elect
  <2>2. next \in LeaderEntry
    <3>1. fromISR # 0 => fromISR \in Brokers
      BY <1>1, FirstRegisteredType
    <3>2. list \in Seq(Brokers)
      BY <1>2
    <3>3. FirstRegistered(list, NoBroker) # 0 => FirstRegistered(list, NoBroker) \in Brokers
      BY <3>2, FirstRegisteredType
    <3>4. QED
      BY <1>2, <2>1, <3>1, <3>3
  <2> HIDE DEF next
  <2>3. leaders' \in [Partitions -> LeaderEntry]
    BY <1>1, <2>1, <2>2
  <2>4. QED
    BY <1>1, <2>1, <2>3 DEF MockTypeOK, ISREntry, brokerVars, groupVars
<1>11. ASSUME NEW p \in Partitions, NEW list \in ISRs, SetISR(p, list) PROVE MockTypeOK'
  <2>1. /\ isrMap' = [isrMap EXCEPT ![p] = list]
        /\ UNCHANGED <<brokerVars, groupVars, running, topic, watchers, leaders>>
    BY <1>11 DEF SetISR
  <2>2. isrMap' \in [Partitions -> Seq(Brokers)]
    BY <1>1, <1>2, <2>1
  <2>3. QED
    BY <1>1, <2>1, <2>2 DEF MockTypeOK, ISREntry, brokerVars, groupVars
<1>12. ASSUME NEW p \in Partitions, NEW o \in Offsets, Commit(p, o) PROVE MockTypeOK'
  <2>1. /\ offsets' = [offsets EXCEPT ![p] = o]
        /\ UNCHANGED <<brokerVars, leaderVars, running, topic, watchers, members>>
    BY <1>12 DEF Commit
  <2>2. offsets' \in [Partitions -> Offsets \union {0}]
    BY <1>1, <2>1
  <2>3. QED
    BY <1>1, <2>1, <2>2 DEF MockTypeOK, ISREntry, brokerVars, leaderVars
<1>13. ASSUME NEW n \in 0 .. MaxPartitions, NEW factor \in Factors,
              NEW order \in SetToSeqs(brokers), CreateTopic(n, factor, order)
       PROVE  MockTypeOK'
  <2> DEFINE list == AssignReplicas(order, factor)
  <2>1. /\ n = 0 \/ list # <<>>
        /\ topic' = n
        /\ leaders' = [p \in Partitions |-> IF p < n THEN list[1] ELSE leaders[p]]
        /\ isrMap' = [p \in Partitions |-> IF p < n THEN list ELSE isrMap[p]]
        /\ UNCHANGED <<brokerVars, groupVars, running, watchers>>
    BY <1>13 DEF CreateTopic
  <2>2. list \in Seq(Brokers) /\ (list # <<>> => list[1] \in Brokers)
    BY ReplicasType, MockAssumption
  <2> HIDE DEF list
  <2>3. \A p \in Partitions : p < n => n # 0
    BY DEF Partitions
  <2>4. leaders' \in [Partitions -> LeaderEntry] /\ isrMap' \in [Partitions -> Seq(Brokers)]
    <3>1. \A p \in Partitions : p < n => list[1] \in LeaderEntry
      BY <1>2, <2>1, <2>2, <2>3
    <3>2. QED
      BY <1>1, <2>1, <2>2, <3>1
  <2>5. topic' \in Absent .. MaxPartitions
    BY <2>1, MockAssumption DEF Absent
  <2>6. QED
    BY <1>1, <2>1, <2>4, <2>5 DEF MockTypeOK, ISREntry, brokerVars, groupVars
<1>14. ASSUME NEW c \in Consumers, JoinGroup(c) \/ LeaveGroup(c) PROVE MockTypeOK'
  <2>1. /\ members' = Append(members, c) \/ members' = RemoveFirst(members, c)
        /\ offsets' = NoOffsets \/ offsets' = offsets
        /\ UNCHANGED <<brokerVars, leaderVars, running, topic, watchers>>
    BY <1>14 DEF JoinGroup, LeaveGroup
  <2>2. members' \in Seq(Consumers)
    <3>1. members \in Seq(Consumers)
      BY <1>1
    <3>2. Append(members, c) \in Seq(Consumers)
      BY <3>1, AppendProperties
    <3>3. RemoveFirst(members, c) \in Seq(Consumers)
      BY <3>1, RemoveFirstType
    <3>4. QED
      BY <2>1, <3>2, <3>3
  <2>3. offsets' \in [Partitions -> Offsets \union {0}]
    BY <1>1, <1>2, <2>1
  <2>4. QED
    BY <1>1, <2>1, <2>2, <2>3 DEF MockTypeOK, ISREntry, brokerVars, leaderVars
<1>15. CASE UNCHANGED mockVars
  BY <1>15 DEF mockVars, MockTypeOK
<1>16. QED
  BY <1>3, <1>4, <1>5, <1>6, <1>7, <1>8, <1>9, <1>10, <1>11, <1>12, <1>13, <1>14, <1>15
     DEF MockNext

-----------------------------------------------------------------------------
(* The types of every package.                                             *)

\* Replication: entries come and go, and a leader is one of the brokers.
LEMMA ReplTypes ==
  /\ ReplInit => ReplTypeOK
  /\ ReplTypeOK /\ [ReplStep]_replVars => ReplTypeOK'
<1>1. ReplInit => ReplTypeOK
  BY EmptySeq DEF ReplInit, ReplTypeOK, LeaderEntry, ISREntry
<1> SUFFICES ASSUME ReplTypeOK, [ReplStep]_replVars PROVE ReplTypeOK'
  BY <1>1
<1>2. /\ replicating \in BOOLEAN /\ rsLeader \in LeaderEntry
      /\ inSyncReplicas \in Seq(Brokers) /\ Brokers \subseteq LeaderEntry
  BY DEF ReplTypeOK, ISREntry, LeaderEntry
<1>3. ASSUME NEW list \in ReplicaLists, NEW first \in ToSet(list),
             InitiateReplication(list, first)
      PROVE  ReplTypeOK'
  <2>1. list \in Seq(Brokers) /\ replicating' = TRUE /\ rsLeader' = first
        /\ inSyncReplicas' = list
    BY <1>3, ReplicationAssumption DEF InitiateReplication
  <2>2. first \in Brokers
    BY <2>1, LenProperties, ElementOfSeq DEF ToSet
  <2>3. QED
    BY <1>2, <2>1, <2>2 DEF ReplTypeOK, ISREntry
<1>4. ASSUME NEW b \in Brokers, NEW offset \in SyncOffsets, RecordReplication(b, offset)
      PROVE  ReplTypeOK'
  <2>1. /\ inSyncReplicas' = inSyncReplicas \/ inSyncReplicas' = Append(inSyncReplicas, b)
        /\ UNCHANGED <<replicating, rsLeader>>
    BY <1>4 DEF RecordReplication
  <2>2. inSyncReplicas' \in Seq(Brokers)
    BY <1>2, <2>1, AppendProperties
  <2>3. QED
    BY <1>2, <2>1, <2>2 DEF ReplTypeOK, ISREntry
<1>5. ASSUME NEW b, DetectFailure(b) PROVE ReplTypeOK'
  <2>1. Without(inSyncReplicas, b) \in Seq(Brokers)
    BY <1>2, WithoutFacts
  <2>2. KeptISR(b) \in Seq(Brokers)
    BY <1>2, <2>1 DEF KeptISR
  <2>3. NewLeader(KeptISR(b)) \in LeaderEntry
    BY <1>2, <2>2, HeadTailProperties DEF NewLeader
  <2>4. /\ inSyncReplicas' = KeptISR(b) \/ inSyncReplicas' = inSyncReplicas
        /\ rsLeader' = NewLeader(KeptISR(b)) \/ rsLeader' = rsLeader
        /\ replicating' = replicating
    BY <1>5 DEF DetectFailure
  <2>5. QED
    BY <1>2, <2>2, <2>3, <2>4 DEF ReplTypeOK, ISREntry
<1>6. CASE UNCHANGED replVars
  BY <1>6 DEF replVars, ReplTypeOK
<1>7. QED
  BY <1>3, <1>4, <1>5, <1>6 DEF ReplStep, ReplicationNext

\* What the invariants of the other packages say of their variables.
LEMMA SendsInvTypes == SendsInv => LibProducerTypeOK
BY DEF SendsInv, SendsData, RecordInv, RecordStates, LibProducerTypeOK

\* The invariant of the administration command says what AdminTypeOK says.
LEMMA AdminInvTypes == AdminInv => AdminTypeOK
<1> SUFFICES ASSUME AdminInv PROVE AdminTypeOK
  OBVIOUS
<1>1. /\ command \in {"lag", "offsets", "show"} /\ disturbed \in BOOLEAN
      /\ partitions \in [AdminIds -> LogRanges] /\ before \in [AdminIds -> 0 .. MaxEnd]
      /\ lines \in [AdminIds -> LineStates] /\ admin \in AdminStates
  BY DEF AdminInv, AdminData
<1>2. /\ admin.at \in {"metadata", "offset", "end", "total", "failed"}
      /\ admin.id \in 0 .. AdminPartitions
  BY <1>1 DEF AdminStates
<1>3. ASSUME NEW p \in AdminIds
      PROVE  /\ partitions[p].from \in 0 .. partitions[p].to /\ partitions[p].to \in 0 .. MaxEnd
             /\ before[p] \in 0 .. MaxEnd
             /\ lines[p].offset \in 0 .. MaxEnd /\ lines[p].end \in 0 .. MaxEnd
             /\ lines[p].shown \in {"nothing", "offsets", "error"}
             /\ lines[p].shown # "nothing" <=> p < admin.id
  <2>1. partitions[p] \in LogRanges /\ before[p] \in 0 .. MaxEnd /\ lines[p] \in LineStates
    BY <1>1
  <2>2. LogInv(p) /\ LineInv(p)
    BY DEF AdminInv
  <2>3. partitions[p].from \in 0 .. partitions[p].to /\ partitions[p].to \in 0 .. MaxEnd
    BY <2>1, <2>2 DEF LogRanges, LogInv
  <2>4. /\ lines[p].offset \in 0 .. MaxEnd /\ lines[p].end \in 0 .. MaxEnd
        /\ lines[p].shown \in {"nothing", "offsets", "error"}
    BY <2>1 DEF LineStates
  <2>5. lines[p].shown # "nothing" <=> p < admin.id
    BY <2>2 DEF LineInv
  <2>6. QED
    BY <2>1, <2>3, <2>4, <2>5
<1>4. QED
  BY <1>1, <1>2, <1>3 DEF AdminTypeOK

\* The invariants of all the packages together.
PackagesInv ==
  /\ EtcdInv /\ EtcdBounds /\ MockInv /\ MockTypeOK /\ ReplTypeOK
  /\ StorageInv /\ RebInv /\ SendsInv /\ ReadsInv /\ AdminInv

\* Every variable of every package has its type, in whichever package a step is.
THEOREM PackagesTypesHold == Spec => []PackagesTypeOK
<1>1. PackagesInit => PackagesInv
  BY InitEtcdInv, EtcdTypes, MockInvHolds, MockTypesInit, ReplTypes, InitStorageInv,
     InitRebInv, InitSendsInv, InitReadsInv, InitAdminInv DEF PackagesInit, PackagesInv
<1>2. PackagesInv /\ [PackagesNext]_allVars => PackagesInv'
  <2> SUFFICES ASSUME PackagesInv, [PackagesNext]_allVars PROVE PackagesInv'
    OBVIOUS
  <2>1. EtcdInv' /\ EtcdBounds'
    BY EtcdSteps, NextEtcdInv, EtcdTypes DEF PackagesInv
  <2>2. MockInv' /\ MockTypeOK'
    BY MockPackage, MockInvHolds, MockTypesNext DEF PackagesInv
  <2>3. ReplTypeOK'
    BY ReplSteps, ReplTypes DEF PackagesInv
  <2>4. StorageInv'
    BY StorageSteps, NextStorageInv DEF PackagesInv
  <2>5. RebInv'
    BY RebalancerSteps, NextRebInv DEF PackagesInv
  <2>6. SendsInv'
    BY LibProducerSteps, NextSendsInv DEF PackagesInv
  <2>7. ReadsInv'
    BY LibConsumerSteps, NextReadsInv DEF PackagesInv
  <2>8. AdminInv'
    BY AdminSteps, NextAdminInv DEF PackagesInv
  <2>9. QED
    BY <2>1, <2>2, <2>3, <2>4, <2>5, <2>6, <2>7, <2>8 DEF PackagesInv
<1>3. PackagesInv => PackagesTypeOK
  <2> SUFFICES ASSUME PackagesInv PROVE PackagesTypeOK
    OBVIOUS
  <2>1. EtcdTypeOK /\ MockTypeOK /\ ReplTypeOK
    BY EtcdTypes DEF PackagesInv
  <2>2. StorageTypeOK /\ RebalancerTypeOK
    BY StorageInvTypes, RebInvTypes DEF PackagesInv
  <2>3. LibProducerTypeOK /\ LibConsumerTypeOK /\ AdminTypeOK
    BY SendsInvTypes, AdminInvTypes DEF PackagesInv, ReadsInv
  <2>4. QED
    BY <2>1, <2>2, <2>3 DEF PackagesTypeOK
<1>4. QED
  BY <1>1, <1>2, <1>3, PTL DEF Spec
=============================================================================

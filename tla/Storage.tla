------------------------------- MODULE Storage -------------------------------
(***************************************************************************)
(* The message log of a partition in pkg/storage/storage.go, at the grain  *)
(* of its locks: s.mu over the maps, log.mu over a log.  The locks are     *)
(* exclusive or shared as in the code; Go's RWMutex also holds back        *)
(* readers for a waiting writer, which adds no way to proceed.             *)
(*                                                                         *)
(* One partition stands for all of them.  CreatePartitionLog replaces the  *)
(* log and the index, and goroutines may still hold the log before it, so  *)
(* logs are numbered and the maps name the latest.  A message is its       *)
(* offset; a log and an index are the offsets they have.  Time is a        *)
(* message growing older than retentionMs.                                 *)
(*                                                                         *)
(* The broker calls WriteMessage alone and never creates a log, so its     *)
(* calls end in LogNotFound; the rest is the package as its callers may    *)
(* use it.                                                                 *)
(*                                                                         *)
(* Left out: files (nothing is written to one), BaseOffset and the index   *)
(* positions, which nothing reads, messages that cannot be marshalled,     *)
(* sizes in bytes: a message is one unit.                                  *)
(***************************************************************************)
EXTENDS Integers, FiniteSets

CONSTANTS
  Workers,      \* goroutines that call the storage
  SegmentSize,  \* log.MaxSize, in messages
  MaxLogs,      \* bound: logs created
  MaxWrites     \* bound: messages written; a write's number is its offset

ASSUME StorageAssumption ==
  SegmentSize \in Nat \ {0} /\ MaxLogs \in Nat /\ MaxWrites \in Nat

VARIABLES
  sMu,       \* s.mu: [w: who holds it exclusively, r: who shares it]
  logMu,     \* log.mu of each log, likewise
  current,   \* s.logs and s.indices: the latest log, 0 if there is none
  messages,  \* log.Messages of each log
  entries,   \* index.Entries of each index
  size,      \* log.CurrentSize
  worker,    \* what each goroutine is doing
  written,   \* writes so far
  expired    \* messages older than retentionMs

storageVars == <<sMu, logMu, current, messages, entries, size, worker, written,
                 expired>>

NoOne == [w |-> {}, r |-> {}]

\* A goroutine in no call.
Free == [at |-> "idle", log |-> 0, next |-> 0, offset |-> -1, kept |-> {}]

Logs == 1 .. MaxLogs

\* A lock can be shared, or taken exclusively.
Sharable(m) == m.w = {}
Takable(m)  == m.w = {} /\ m.r = {}

GoOn(t, stage) == worker' = [worker EXCEPT ![t].at = stage]
Done(t)        == worker' = [worker EXCEPT ![t] = Free]

LockLog(l, t)   == logMu' = [logMu EXCEPT ![l].w = {t}]
UnlockLog(l)    == logMu' = [logMu EXCEPT ![l].w = {}]

logData == <<messages, entries, size>>
clock   == <<written, expired>>

-----------------------------------------------------------------------------
\* CreatePartitionLog, under s.mu: a new log and a new index.
CreatePartitionLog(t) ==
  /\ worker[t] = Free /\ Takable(sMu) /\ current < MaxLogs
  /\ current' = current + 1
  /\ UNCHANGED <<sMu, logMu, worker>> /\ UNCHANGED logData /\ UNCHANGED clock

\* WriteMessage reads s.logs under s.mu.  Without a log it returns an error.
WriteMessage(t) ==
  /\ worker[t] = Free /\ Sharable(sMu) /\ current # 0 /\ written < MaxWrites
  /\ worker' = [worker EXCEPT ![t] =
                  [Free EXCEPT !.at = "write", !.log = current, !.offset = written]]
  /\ written' = written + 1
  /\ UNCHANGED <<sMu, logMu, current, expired>> /\ UNCHANGED logData

\* Fault: the log is not locked.
AppendUnlocked(t) ==
  LET l == worker[t].log IN
  /\ worker[t].at = "write"
  /\ messages' = [messages EXCEPT ![l] = @ \union {worker[t].offset}]
  /\ GoOn(t, "index")
  /\ UNCHANGED <<sMu, logMu, current, entries, size>> /\ UNCHANGED clock

\* It locks the log it found and appends.
AppendMessage(t) ==
  LET l == worker[t].log IN
  /\ worker[t].at = "write" /\ Takable(logMu[l])
  /\ LockLog(l, t)
  /\ messages' = [messages EXCEPT ![l] = @ \union {worker[t].offset}]
  /\ GoOn(t, "index")
  /\ UNCHANGED <<sMu, current, entries, size>> /\ UNCHANGED clock

\* With the log locked it takes s.mu to find the index, which may be that of a
\* later log, appends an entry and looks at the size.
AppendIndex(t) ==
  LET l == worker[t].log IN
  /\ worker[t].at = "index" /\ Takable(sMu)
  /\ entries' = [entries EXCEPT ![current] = @ \union {worker[t].offset}]
  /\ size' = [size EXCEPT ![l] = @ + 1]
  /\ IF size[l] + 1 >= SegmentSize
     THEN GoOn(t, "rotate") /\ UNCHANGED logMu
     ELSE Done(t) /\ UnlockLog(l)
  /\ UNCHANGED <<sMu, current, messages>> /\ UNCHANGED clock

\* rotateLog takes s.mu to find the log, ...
RotateLookup(t) ==
  /\ worker[t].at = "rotate" /\ Takable(sMu)
  /\ worker' = [worker EXCEPT ![t].at = "reset", ![t].next = current]
  /\ UNCHANGED <<sMu, logMu, current>> /\ UNCHANGED logData /\ UNCHANGED clock

\* ... and locks it, which the writer has done already unless the log was
\* replaced meanwhile; then it resets the log that replaced it.
RotateLog(t) ==
  LET l == worker[t].next IN
  /\ worker[t].at = "reset" /\ Takable(logMu[l])
  /\ messages' = [messages EXCEPT ![l] = {}]
  /\ size' = [size EXCEPT ![l] = 0]
  /\ UnlockLog(worker[t].log) /\ Done(t)
  /\ UNCHANGED <<sMu, current, entries>> /\ UNCHANGED clock

\* ReadMessages finds the log under s.mu and reads it, without s.mu, under its
\* own lock.
ReadMessages(t) ==
  /\ worker[t] = Free /\ Sharable(sMu) /\ current # 0
  /\ worker' = [worker EXCEPT ![t] = [Free EXCEPT !.at = "read", !.log = current]]
  /\ UNCHANGED <<sMu, logMu, current>> /\ UNCHANGED logData /\ UNCHANGED clock

ReadLog(t) ==
  /\ worker[t].at = "read" /\ Sharable(logMu[worker[t].log])
  /\ Done(t)
  /\ UNCHANGED <<sMu, logMu, current>> /\ UNCHANGED logData /\ UNCHANGED clock

\* GetOffset holds s.mu while it waits for the log.
GetOffset(t) ==
  /\ worker[t] = Free /\ Sharable(sMu) /\ current # 0
  /\ sMu' = [sMu EXCEPT !.r = @ \union {t}]
  /\ worker' = [worker EXCEPT ![t] = [Free EXCEPT !.at = "offset", !.log = current]]
  /\ UNCHANGED <<logMu, current>> /\ UNCHANGED logData /\ UNCHANGED clock

\* Fault: s.mu is not released.
ReadOffsetKeepingLock(t) ==
  /\ worker[t].at = "offset" /\ Sharable(logMu[worker[t].log])
  /\ Done(t)
  /\ UNCHANGED <<sMu, logMu, current>> /\ UNCHANGED logData /\ UNCHANGED clock

ReadOffset(t) ==
  /\ worker[t].at = "offset" /\ Sharable(logMu[worker[t].log])
  /\ sMu' = [sMu EXCEPT !.r = @ \ {t}]
  /\ Done(t)
  /\ UNCHANGED <<logMu, current>> /\ UNCHANGED logData /\ UNCHANGED clock

\* Cleanup holds s.mu from beginning to end.
Cleanup(t) ==
  /\ worker[t] = Free /\ Takable(sMu) /\ current # 0
  /\ sMu' = [sMu EXCEPT !.w = {t}]
  /\ worker' = [worker EXCEPT ![t] = [Free EXCEPT !.at = "clean", !.log = current]]
  /\ UNCHANGED <<logMu, current>> /\ UNCHANGED logData /\ UNCHANGED clock

\* It locks the log and collects what is young enough, ...
CollectYoung(t) ==
  LET l == worker[t].log IN
  /\ worker[t].at = "clean" /\ Takable(logMu[l])
  /\ LockLog(l, t)
  /\ worker' = [worker EXCEPT ![t].at = "keep",
                                 ![t].kept = messages[l] \ expired]
  /\ UNCHANGED <<sMu, current>> /\ UNCHANGED logData /\ UNCHANGED clock

\* ... and keeps only that.  The index stays as it is.
KeepYoung(t) ==
  LET l == worker[t].log IN
  /\ worker[t].at = "keep"
  /\ messages' = [messages EXCEPT ![l] = worker[t].kept]
  /\ sMu' = [sMu EXCEPT !.w = {}]
  /\ UnlockLog(l) /\ Done(t)
  /\ UNCHANGED <<current, entries, size>> /\ UNCHANGED clock

\* A message grows older than retentionMs.
Expire(m) ==
  /\ m \in UNION {messages[l] : l \in Logs} /\ m \notin expired
  /\ expired' = expired \union {m}
  /\ UNCHANGED <<sMu, logMu, current, worker, written>> /\ UNCHANGED logData

-----------------------------------------------------------------------------
StorageInit ==
  /\ sMu = NoOne /\ logMu = [l \in Logs |-> NoOne]
  /\ current = 0
  /\ messages = [l \in Logs |-> {}] /\ entries = [l \in Logs |-> {}]
  /\ size = [l \in Logs |-> 0]
  /\ worker = [t \in Workers |-> Free]
  /\ written = 0 /\ expired = {}

StorageNext ==
  \/ \E t \in Workers :
       \/ CreatePartitionLog(t)
       \/ WriteMessage(t) \/ AppendMessage(t) \/ AppendIndex(t)
       \/ RotateLookup(t) \/ RotateLog(t)
       \/ ReadMessages(t) \/ ReadLog(t) \/ GetOffset(t) \/ ReadOffset(t)
       \/ Cleanup(t) \/ CollectYoung(t) \/ KeepYoung(t)
  \/ \E m \in 0 .. (MaxWrites - 1) : Expire(m)

StorageSpec == StorageInit /\ [][StorageNext]_storageVars

-----------------------------------------------------------------------------
(* Properties.                                                             *)

StorageOffsets == 0 .. (MaxWrites - 1)

Stages == {"idle", "write", "index", "rotate", "reset", "read", "offset",
           "clean", "keep"}

Calls == [at : Stages, log : 0 .. MaxLogs, next : 0 .. MaxLogs,
          offset : Int, kept : SUBSET StorageOffsets]

\* The stages in which a goroutine has its log locked.
Locking == {"index", "rotate", "reset", "keep"}

\* Every variable has its type, and each lock is held by the goroutines whose
\* stage of a call holds it and by nobody else: the two locks are released on
\* every way out of a call.
StorageTypeOK ==
  /\ current \in 0 .. MaxLogs /\ written \in 0 .. MaxWrites
  /\ expired \subseteq StorageOffsets
  /\ messages \in [Logs -> SUBSET StorageOffsets]
  /\ entries \in [Logs -> SUBSET StorageOffsets] /\ size \in [Logs -> Nat]
  /\ worker \in [Workers -> Calls]
  /\ sMu = [w |-> {t \in Workers : worker[t].at \in {"clean", "keep"}},
            r |-> {t \in Workers : worker[t].at = "offset"}]
  /\ logMu = [l \in Logs |->
               [w |-> {t \in Workers : worker[t].at \in Locking /\ worker[t].log = l},
                r |-> {}]]

\* A log is never changed by two goroutines at a time: a message leaves it
\* because it is older than retentionMs or because the segment is rotated, and
\* never because Cleanup overwrites what a write has just appended.
OnlyOldMessagesGo ==
  \A l \in Logs : \A m \in messages[l] \ messages'[l] :
    \/ m \in expired
    \/ \E t \in Workers : worker[t].at = "reset" /\ worker[t].next = l

Waits(t) ==
  \/ worker[t].at \in {"index", "rotate"} /\ ~Takable(sMu)
  \/ worker[t].at \in {"write", "clean"} /\ ~Takable(logMu[worker[t].log])
  \/ worker[t].at = "reset" /\ ~Takable(logMu[worker[t].next])
  \/ worker[t].at \in {"read", "offset"} /\ ~Sharable(logMu[worker[t].log])

\* The write that fills a segment waits for the lock it holds.
RotatesOwnLog(t) == worker[t].at = "reset" /\ worker[t].next = worker[t].log

\* A write that has the log waits for s.mu; a Cleanup or a GetOffset that has
\* s.mu waits for the log.
CrossedLocks(t, u) ==
  /\ worker[t].at \in {"index", "rotate"}
  /\ worker[u].at \in {"clean", "offset"}
  /\ worker[t].log = worker[u].log

\* The storage stops only in the two ways it has of deadlocking: when every
\* goroutine in a call waits for a lock, one rotates the log it has locked or
\* two took the two locks in opposite orders.
OnlyKnownDeadlocks ==
  LET busy == {t \in Workers : worker[t] # Free} IN
  busy # {} /\ (\A t \in busy : Waits(t))
    => \E t, u \in busy : RotatesOwnLog(t) \/ CrossedLocks(t, u)

\* The locks of the storage protect its logs, and stop it in two known ways only
\* (WriteMessage, GetOffset, Cleanup).
StorageSound == [][OnlyKnownDeadlocks' /\ OnlyOldMessagesGo]_storageVars
===============================================================================

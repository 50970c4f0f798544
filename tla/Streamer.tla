------------------------------- MODULE Streamer -------------------------------
(***************************************************************************)
(* The streamer (telemetry-streaming/cmd/telemetry-streamer/main.go): the  *)
(* CSV reader's goroutine (pkg/csv/reader.go) sends rows to a channel,     *)
(* main takes them and hands them to the producer (module Producer), until *)
(* the channel is closed or a signal arrives.                              *)
(*                                                                         *)
(* Rows are told apart only by whether the CSV parser takes them; the      *)
(* reader's ticker paces it and is left out.                               *)
(***************************************************************************)
EXTENDS Producer

CONSTANTS
  Files,         \* the files' rows after the header: TRUE if it can be parsed
  ChannelLimit   \* capacity of the record channel, 100 in the code

ASSUME StreamerAssumption ==
  Files \subseteq Seq(BOOLEAN) /\ ChannelLimit \in Nat \ {0}

VARIABLES
  rows,      \* the CSV file
  loopFile,  \* r.loopFile
  reader,    \* the reader's goroutine: "open", "read", "send", "ended"
  line,      \* the row it is at
  queued,    \* records in the channel
  signalled, \* main left its loop because of a signal
  cancelled  \* the context is cancelled

streamVars == <<rows, loopFile, reader, line, queued, signalled, cancelled>>

readerOnly == <<rows, loopFile, signalled, cancelled>>

-----------------------------------------------------------------------------
(* StreamRecords.                                                          *)

\* The file is opened and its header read; an error ends the stream.
OpenFile ==
  /\ reader = "open" /\ ~cancelled
  /\ \/ reader' = "read" /\ line' = 1 /\ Works
     \/ reader' = "ended" /\ UNCHANGED line /\ Fail
  /\ UNCHANGED <<readerOnly, queued, batch, batchMu, sending, main, ticker, flusher,
                 result, done, log, read, refused, failed>>

\* Fault: errors of the parser are ignored.
ReadRowIgnoringErrors ==
  /\ reader = "read" /\ reader' = "send"
  /\ UNCHANGED <<readerOnly, line, queued>> /\ UNCHANGED vars

\* Any error of the parser counts as the end of the file.
ReadRow ==
  /\ reader = "read"
  /\ reader' = IF line <= Len(rows) /\ rows[line] THEN "send"
               ELSE IF loopFile THEN "open" ELSE "ended"
  /\ UNCHANGED <<readerOnly, line, queued>> /\ UNCHANGED vars

\* The record enters the channel.
SendRow ==
  /\ reader = "send" /\ queued < ChannelLimit /\ read + queued < MaxRecords
  /\ queued' = queued + 1 /\ line' = line + 1 /\ reader' = "read"
  /\ UNCHANGED readerOnly /\ UNCHANGED vars

\* Fault: a reader that waits for room in the channel does not see the context.
CancelReading ==
  /\ cancelled /\ reader \in {"open", "read"}
  /\ reader' = "ended"
  /\ UNCHANGED <<readerOnly, line, queued>> /\ UNCHANGED vars

\* The reader sees that the context is cancelled, wherever it is.
CancelReader ==
  /\ cancelled /\ reader # "ended"
  /\ reader' = "ended"
  /\ UNCHANGED <<readerOnly, line, queued>> /\ UNCHANGED vars

-----------------------------------------------------------------------------
(* main.                                                                   *)

\* A record from the channel goes to the producer.
StreamRecord ==
  /\ queued > 0 /\ queued' = queued - 1
  /\ SendMessage
  /\ UNCHANGED <<readerOnly, reader, line>>

\* Fault: main stops when the reader does.
ReaderEnded ==
  /\ reader = "ended" /\ StartFlush
  /\ UNCHANGED streamVars

\* The channel is closed and empty.
ChannelEnds ==
  /\ reader = "ended" /\ queued = 0 /\ StartFlush
  /\ UNCHANGED streamVars

Signal ==
  /\ StartFlush /\ signalled' = TRUE
  /\ UNCHANGED <<rows, loopFile, reader, line, queued, cancelled>>

\* Only at its end does main cancel the context; the reader goes on until then.
CancelContext ==
  /\ main = "closed" /\ ~cancelled /\ cancelled' = TRUE
  /\ UNCHANGED <<rows, loopFile, reader, line, queued, signalled>>
  /\ UNCHANGED vars

StreamInit ==
  /\ Init
  /\ rows \in Files /\ loopFile \in BOOLEAN
  /\ reader = "open" /\ line = 1 /\ queued = 0
  /\ signalled = FALSE /\ cancelled = FALSE

Reader    == OpenFile \/ ReadRow \/ SendRow \/ CancelReader
Loop      == StreamRecord \/ ChannelEnds
Producing == Send \/ Shutdown \/ Tick \/ StopTicker \/ TickerFlush \/ Flush

StreamNext ==
  \/ Reader \/ Loop \/ Signal \/ CancelContext
  \/ Producing /\ UNCHANGED streamVars

StreamSpec == StreamInit /\ [][StreamNext]_<<vars, streamVars>>

-----------------------------------------------------------------------------
(* Properties.                                                             *)

\* Every variable has its type; the producer's are in TypeOK.
StreamTypeOK ==
  /\ rows \in Files /\ loopFile \in BOOLEAN
  /\ reader \in {"open", "read", "send", "ended"} /\ line \in 1 .. (Len(rows) + 1)
  /\ queued \in 0 .. ChannelLimit /\ signalled \in BOOLEAN /\ cancelled \in BOOLEAN
  /\ reader = "send" => line <= Len(rows)

\* The rows before the first one that cannot be parsed.
Readable == {i \in 1 .. Len(rows) : \A j \in 1 .. i : rows[j]}

\* Without a signal main does not shut down before it has every row of a file
\* that is read once, up to one that cannot be parsed: what is in the channel
\* when the reader ends is taken out first.
StopsWithWholeFile ==
  main # "stream" /\ ~signalled /\ reader = "ended" /\ ~cancelled /\ line > 1
    => read >= Cardinality(Readable)

\* The reader ends after main has, also while it waits for room in the channel
\* that nobody empties (StreamRecords' select on the context).
ReaderEnds == (main = "closed") ~> (reader = "ended")
=============================================================================

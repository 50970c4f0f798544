--------------------------------- MODULE Admin ---------------------------------
(***************************************************************************)
(* The administration command (messagebroker/cmd/admin/main.go): "offsets" *)
(* and "lag" of a group, which ask a broker partition by partition while   *)
(* producers append, the group commits, and the broker may restart; and    *)
(* the commands that show the answer to one call, "show".                  *)
(*                                                                         *)
(* A partition is the first and the next offset of the log of the broker   *)
(* the command is connected to (module Broker: offsets are contiguous).    *)
(* The group may read at another broker, whose logs are its own, and       *)
(* commits at any time: the offset it committed last is any offset.        *)
(***************************************************************************)
EXTENDS Naturals

CONSTANTS
  AdminPartitions,  \* partitions of the topic: they are 0 .. AdminPartitions - 1
  Retained,         \* messages a partition keeps
  LagPage,          \* messages a call returns at most, 1000 in the code
  MaxEnd            \* bound: offsets

ASSUME AdminAssumption ==
  /\ AdminPartitions \in Nat /\ MaxEnd \in Nat
  /\ Retained \in Nat \ {0} /\ LagPage \in Nat \ {0}

AdminIds == 0 .. AdminPartitions - 1
Smaller(a, b) == IF a < b THEN a ELSE b
Larger(a, b)  == IF a < b THEN b ELSE a

VARIABLES
  command,    \* "lag", "offsets" or "show"
  partitions, \* the broker's logs
  admin,      \* where the command is: its stage, partition and the offset it got
  lines,      \* what it printed for each partition
  before,     \* ghost: the ends of the logs when it began
  disturbed   \* ghost: a call failed or the broker restarted

adminVars == <<command, partitions, admin, lines, before, disturbed>>

NoLine   == [shown |-> "nothing", offset |-> 0, end |-> 0]
Error    == [NoLine EXCEPT !.shown = "error"]
Line(o, e) == [shown |-> "offsets", offset |-> o, end |-> e]

\* The command prints a line and goes on to the next partition.
ShowLine(line) ==
  /\ lines' = [lines EXCEPT ![admin.id] = line]
  /\ admin' = [at |-> IF admin.id + 1 = AdminPartitions THEN "total" ELSE "offset",
               id |-> admin.id + 1, offset |-> 0]

-----------------------------------------------------------------------------
(* The broker and its other clients.                                       *)

\* A message is appended; the oldest ones give way.
AppendToLog(p) ==
  /\ partitions[p].to < MaxEnd
  /\ LET to == partitions[p].to + 1 IN
     partitions' = [partitions EXCEPT ![p] =
        [from |-> IF to - @.from > Retained THEN to - Retained ELSE @.from, to |-> to]]
  /\ UNCHANGED <<command, admin, lines, before, disturbed>>

\* The broker restarts and has forgotten its logs.
BrokerForgets ==
  /\ partitions' = [p \in AdminIds |-> [from |-> 0, to |-> 0]]
  /\ partitions' # partitions /\ ~disturbed /\ disturbed' = TRUE
  /\ UNCHANGED <<command, admin, lines, before>>

-----------------------------------------------------------------------------
(* The command.                                                            *)

\* GetTopicMetadata: without it nothing is printed.
AskMetadata ==
  /\ command # "show" /\ admin.at = "metadata"
  /\ \E answered \in BOOLEAN :
       /\ admin' = [admin EXCEPT !.at = IF ~answered THEN "failed"
                                        ELSE IF AdminPartitions = 0 THEN "total" ELSE "offset"]
       /\ disturbed' = (disturbed \/ ~answered)
  /\ before' = [p \in AdminIds |-> partitions[p].to]
  /\ UNCHANGED <<command, partitions, lines>>

\* "partitions", "groups" and "group" ask once and print the answer or the error.
AskOnce ==
  /\ command = "show" /\ admin.at = "metadata"
  /\ \E answered \in BOOLEAN :
       admin' = [admin EXCEPT !.at = IF answered THEN "total" ELSE "failed"]
  /\ UNCHANGED <<command, partitions, lines, before, disturbed>>

\* What the broker's FetchOffset answers: the offset, or 0 when the coordinator fails.
OffsetAnswers == [offset : 0 .. MaxEnd, fails : {FALSE}] \union {[offset |-> 0, fails |-> TRUE]}

\* Fault: the next partition is asked for without a line for this one.
AskOffsetSilently ==
  /\ admin.at = "offset"
  /\ \/ /\ ShowLine(NoLine) /\ disturbed' = TRUE
     \/ \E answer \in OffsetAnswers :
          /\ disturbed' = (disturbed \/ answer.fails)
          /\ IF command = "offsets" THEN ShowLine(Line(answer.offset, answer.offset))
             ELSE admin' = [admin EXCEPT !.at = "end", !.offset = answer.offset]
                  /\ UNCHANGED lines
  /\ UNCHANGED <<command, partitions, before>>

\* FetchOffset for the next partition: the call fails, which is printed, or is
\* answered, which ends the line of "offsets".
AskOffset ==
  /\ admin.at = "offset"
  /\ \/ ShowLine(Error) /\ disturbed' = TRUE
     \/ \E answer \in OffsetAnswers :
          /\ disturbed' = (disturbed \/ answer.fails)
          /\ IF command = "offsets" THEN ShowLine(Line(answer.offset, answer.offset))
             ELSE admin' = [admin EXCEPT !.at = "end", !.offset = answer.offset]
                  /\ UNCHANGED lines
  /\ UNCHANGED <<command, partitions, before>>

\* Fault: the end is the offset of the last message.
EndOfLast(p, offset) ==
  LET first == Larger(offset, partitions[p].from)
  IN IF first < partitions[p].to THEN Smaller(first + LagPage, partitions[p].to) - 1
                                 ELSE offset

\* Fault: the command asks for what follows the committed offset.
EndAfterNext(p, offset) ==
  LET first == Larger(offset + 1, partitions[p].from)
  IN IF first < partitions[p].to THEN Smaller(first + LagPage, partitions[p].to)
                                 ELSE offset

\* The end of the partition as one call for LagPage messages from an offset on shows it.
EndFrom(p, offset) ==
  LET first == Larger(offset, partitions[p].from)
  IN IF first < partitions[p].to THEN Smaller(first + LagPage, partitions[p].to)
                                 ELSE offset

\* ConsumeMessages: an error counts as a partition that has nothing more.
AskEnd ==
  /\ admin.at = "end"
  /\ \/ ShowLine(Line(admin.offset, EndFrom(admin.id, admin.offset))) /\ UNCHANGED disturbed
     \/ ShowLine(Line(admin.offset, admin.offset)) /\ disturbed' = TRUE
  /\ UNCHANGED <<command, partitions, before>>

AdminInit ==
  /\ command \in {"lag", "offsets", "show"}
  /\ partitions = [p \in AdminIds |-> [from |-> 0, to |-> 0]]
  /\ admin = [at |-> "metadata", id |-> 0, offset |-> 0]
  /\ lines = [p \in AdminIds |-> NoLine]
  /\ before = [p \in AdminIds |-> 0] /\ disturbed = FALSE

AdminNext ==
  \/ \E p \in AdminIds : AppendToLog(p)
  \/ BrokerForgets
  \/ AskOnce \/ AskMetadata \/ AskOffset \/ AskEnd

-----------------------------------------------------------------------------
(* Properties.                                                             *)

\* Every variable has its type, and there is a line for exactly the partitions the
\* command has been through (the loops of showOffsets and showConsumerLag).
AdminTypeOK ==
  /\ command \in {"lag", "offsets", "show"}
  /\ \A p \in AdminIds :
       /\ partitions[p].from \in 0 .. partitions[p].to /\ partitions[p].to \in 0 .. MaxEnd
       /\ before[p] \in 0 .. MaxEnd
       /\ lines[p].offset \in 0 .. MaxEnd /\ lines[p].end \in 0 .. MaxEnd
       /\ lines[p].shown \in {"nothing", "offsets", "error"}
       /\ lines[p].shown # "nothing" <=> p < admin.id
  /\ admin.at \in {"metadata", "offset", "end", "total", "failed"}
  /\ admin.id \in 0 .. AdminPartitions /\ disturbed \in BOOLEAN

\* A lag is never negative, and unless something failed it counts at least the
\* messages that were there when the command began, as far as one call shows them
\* (the end read after the offset, by showConsumerLag).
LagCountsWhatWasThere ==
  \A p \in AdminIds :
    lines[p].shown = "offsets" =>
      /\ lines[p].end >= lines[p].offset
      /\ command = "lag" /\ ~disturbed =>
           \/ lines[p].end >= before[p]
           \/ lines[p].end >= lines[p].offset + LagPage

\* "Consumer is caught up" is true: unless something failed, the group had committed
\* everything that was there when the command began, although offsets and ends are
\* read at different times and the other partitions go on meanwhile.
CaughtUpIsTrue ==
  (admin.at = "total" /\ command = "lag" /\ ~disturbed
     /\ \A p \in AdminIds : lines[p].end = lines[p].offset)
  => \A p \in AdminIds : lines[p].offset >= before[p]

\* What showConsumerLag prints of a group can be relied on.
ReportSound == LagCountsWhatWasThere /\ CaughtUpIsTrue
=============================================================================

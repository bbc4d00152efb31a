----------------------------- MODULE LogStream ------------------------------
(***************************************************************************)
(* Following the log of a container across its restarts                    *)
(* (docker/container/logs_stream.go, ContainerLogsStream of                *)
(* docker/handler_containers.go).                                          *)
(*                                                                         *)
(* The daemon ends a follow stream when the container stops; the reader    *)
(* opens another one that resumes after the last line it delivered.  Lines *)
(* go through a bounded channel to the loop that sends them.  A line is    *)
(* its timestamp: line i of the container's log has timestamp i.           *)
(***************************************************************************)
EXTENDS Naturals, Sequences

CONSTANTS
    StreamTail,     \* the lines of history a client asks for
    StreamCount,    \* the containers whose logs the request merges
    TailFloor,      \* mergedTailFloor
    LineBuffer,     \* capacity of the channel between reader and sender
    MaxLines,       \* bound: lines the container writes
    MaxStops        \* bound: stops of the container

ASSUME LogAssumption ==
    /\ {StreamTail, StreamCount, TailFloor, LineBuffer, MaxLines} \subseteq Nat \ {0}
    /\ MaxStops \in Nat

VARIABLES
    gUp,        \* the container runs
    gLog,       \* lines written so far
    gStops,     \* see MaxStops
    gFollow,    \* the client follows
    gAt,        \* the reader: off, open, reading, wait, ended, failed
    gSince,     \* opts.Since: the first timestamp asked for, 0 for none
    gAll,       \* opts.Tail is "all"
    gNext,      \* the next line of the open stream
    gLast,      \* lastNano
    gDelay,     \* reopenDelay in seconds
    gLines,     \* the channel
    gSent,      \* what the client received
    gClient     \* the client is there

logVars == <<gUp, gLog, gStops, gFollow, gAt, gSince, gAll, gNext, gLast, gDelay, gLines, gSent, gClient>>
gBox == <<gUp, gLog, gStops>>
gReader == <<gAt, gSince, gAll, gNext, gLast, gDelay>>

LogInit ==
    /\ gUp \in BOOLEAN /\ gLog \in 0..1 /\ gStops = 0 /\ gFollow \in BOOLEAN
    /\ gAt = "open" /\ gSince = 0 /\ gAll = FALSE /\ gNext = 0 /\ gLast = 0 /\ gDelay = 1
    /\ gLines = <<>> /\ gSent = <<>> /\ gClient = TRUE
-----------------------------------------------------------------------------
(* The container writes a line, stops and starts.                          *)
WriteLine ==
    /\ gUp /\ gLog < MaxLines /\ gLog' = gLog + 1
    /\ UNCHANGED <<gUp, gStops, gFollow, gReader, gLines, gSent, gClient>>

StopBox ==
    /\ gUp /\ gStops < MaxStops /\ gUp' = FALSE /\ gStops' = gStops + 1
    /\ UNCHANGED <<gLog, gFollow, gReader, gLines, gSent, gClient>>

StartAgain ==
    /\ ~gUp /\ gUp' = TRUE
    /\ UNCHANGED <<gLog, gStops, gFollow, gReader, gLines, gSent, gClient>>
-----------------------------------------------------------------------------
(* LogsStream shares the tail between the merged containers.               *)
LogsTail ==
    LET share == StreamTail \div StreamCount
        per == IF share < TailFloor THEN TailFloor ELSE share
    IN IF per < StreamTail THEN per ELSE StreamTail

(* Where a new stream begins: after gSince, and within the tail unless all *)
(* of it is wanted.                                                        *)
StreamStart ==
    LET tail == IF gAll \/ gLog < LogsTail THEN 1 ELSE gLog - LogsTail + 1
    IN IF gSince > tail THEN gSince ELSE tail

(* openContainerLogsOnce: the container is inspected and its log opened;   *)
(* an error ends this container's stream, which the viewer is told.        *)
openContainerLogsOnce ==
    /\ gAt = "open" /\ gClient
    /\ \/ gAt' = "reading" /\ gNext' = StreamStart
       \/ gAt' = "failed" /\ UNCHANGED gNext
    /\ UNCHANGED <<gBox, gFollow, gSince, gAll, gLast, gDelay, gLines, gSent, gClient>>

(* emitTracked: the timestamp is noted, then the line waits for room.      *)
emitTracked ==
    /\ gAt = "reading" /\ gClient /\ gNext <= gLog /\ Len(gLines) < LineBuffer
    /\ gLines' = Append(gLines, gNext) /\ gNext' = gNext + 1
    /\ gLast' = IF gNext > gLast THEN gNext ELSE gLast
    /\ UNCHANGED <<gBox, gFollow, gAt, gSince, gAll, gDelay, gSent, gClient>>

(* A broken connection is an error as well.                                *)
ReadFails ==
    /\ gAt = "reading" /\ gAt' = "failed"
    /\ UNCHANGED <<gBox, gFollow, gSince, gAll, gNext, gLast, gDelay, gLines, gSent, gClient>>

(* Mutant of Resume: the tail is kept.                                     *)
ResumeWithTail == [since |-> gLast + 1, all |-> FALSE]

(* Where the next stream resumes, once a line was delivered.               *)
Resume == [since |-> gLast + 1, all |-> TRUE]

(* streamContainerLogs at the end of a stream, which the daemon sends when *)
(* the container is stopped or the client does not follow.  The delay grows*)
(* while the container stays silent.                                       *)
StreamEnds ==
    /\ gAt = "reading" /\ gNext > gLog /\ (~gUp \/ ~gFollow)
    /\ IF gFollow
         THEN /\ gAt' = "wait"
              /\ gSince' = IF gLast > 0 THEN Resume.since ELSE gSince
              /\ gAll' = IF gLast > 0 THEN Resume.all ELSE gAll
              /\ gDelay' = IF gLast >= gSince /\ gLast > 0 THEN 1
                           ELSE IF gDelay * 2 > 10 THEN 10 ELSE gDelay * 2
         ELSE gAt' = "ended" /\ UNCHANGED <<gSince, gAll, gDelay>>
    /\ UNCHANGED <<gBox, gFollow, gNext, gLast, gLines, gSent, gClient>>

Reopen ==
    /\ gAt = "wait" /\ gAt' = "open"
    /\ UNCHANGED <<gBox, gFollow, gSince, gAll, gNext, gLast, gDelay, gLines, gSent, gClient>>

(* The loop of ContainerLogsStream sends the lines one by one; what is in  *)
(* the channel when the readers end is sent too.                           *)
SendLine ==
    /\ gLines # <<>> /\ gClient
    /\ gSent' = Append(gSent, Head(gLines)) /\ gLines' = Tail(gLines)
    /\ UNCHANGED <<gBox, gFollow, gReader, gClient>>

(* The client leaves: readers are cancelled, the channel is dropped.       *)
ClientCloses ==
    /\ gClient /\ gClient' = FALSE
    /\ gAt' = "ended" /\ gLines' = <<>>
    /\ UNCHANGED <<gBox, gFollow, gSince, gAll, gNext, gLast, gDelay, gSent>>

LogNext ==
    \/ WriteLine \/ StopBox \/ StartAgain
    \/ openContainerLogsOnce \/ emitTracked \/ ReadFails \/ StreamEnds \/ Reopen
    \/ SendLine \/ ClientCloses

LogSpec == LogInit /\ [][LogNext]_logVars
-----------------------------------------------------------------------------
LogTypeOK ==
    /\ gLog \in 0..MaxLines /\ gStops \in 0..MaxStops /\ gLast \in 0..MaxLines
    /\ gAt \in {"open", "reading", "wait", "ended", "failed"} /\ gDelay \in {1, 2, 4, 8, 10}
    /\ Len(gLines) <= LineBuffer

(* From its first line on the viewer misses nothing and repeats nothing:   *)
(* over stops, starts and reopened streams the lines it has are one run of *)
(* the log, and the reader's mark is the last of them                      *)
(* (streamContainerLogs).                                                  *)
LogContiguous ==
    LET seen == gSent \o gLines
    IN /\ \A i \in 2..Len(seen) : seen[i] = seen[i - 1] + 1
       /\ gClient /\ seen # <<>> => seen[Len(seen)] = gLast
=============================================================================

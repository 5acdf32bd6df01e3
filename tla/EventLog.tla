-------------------------------- MODULE EventLog --------------------------------
(* JsonlEventStore (src/src/adapters/persistence/jsonl_event_store.cpp): the file  *)
(* of one task, in the page cache and on the disk, under the processes that append *)
(* to it one after another.                                                        *)
(*                                                                                 *)
(* An event is its sequence number.  A line is written with its newline in one     *)
(* loop of write calls; the file is flushed only when this process has appended    *)
(* FlushEvery events since its last flush.  Killing the process keeps the page     *)
(* cache; losing power keeps what was flushed and any part of the rest.            *)
EXTENDS Naturals, Sequences

CONSTANTS
  FlushEvery,      \* the flush threshold (32)
  MaxEvents,       \* bound: lines of the file
  MaxProcesses,    \* bound: processes that open the log
  MaxPowerLosses,  \* bound: power losses
  MaxShortWrites,  \* bound: writes that stop inside a line
  MaxFlushFaults   \* bound: fsyncs that fail

ASSUME LogParameters ==
  /\ FlushEvery \in Nat \ {0}
  /\ MaxEvents \in Nat /\ MaxProcesses \in Nat
  /\ MaxPowerLosses \in Nat /\ MaxShortWrites \in Nat /\ MaxFlushFaults \in Nat

VARIABLES
  exists,     \* the file has a directory entry
  lines,      \* its complete lines: a sequence number, or Garbage
  tail,       \* what follows the last newline
  flushed,    \* how many lines the last fsync covered
  pc,         \* where the process is
  last,       \* last_sequence in the memory of the process
  pending,    \* pending_counts_ of this process
  committed,  \* committed_through_ of this process
  processes, losses, short, faults  \* how often each bounded thing happened

file == <<exists, lines, tail, flushed>>
counts == <<processes, losses, short, faults>>
vars == <<file, pc, last, pending, committed, counts>>

Garbage == 0

(* none: the file ends with a newline; bare: an event without its newline; cut: a  *)
(* part of an event.                                                               *)
Tails == {"none", "bare", "cut"}

(* down: no process; idle: a process that has no task open; ready: an engine runs  *)
(* the task; the others are points of append.                                      *)
Points == {"down", "idle", "ready", "opened", "written", "flush"}

TypeOK ==
  /\ exists \in BOOLEAN
  /\ lines \in Seq(0..MaxEvents) /\ Len(lines) <= MaxEvents
  /\ tail \in Tails
  /\ flushed \in 0..Len(lines)
  /\ pc \in Points
  /\ last \in 0..MaxEvents
  /\ pending \in 0..FlushEvery + MaxFlushFaults
  /\ committed \in 0..MaxEvents
  /\ processes \in 0..MaxProcesses /\ losses \in 0..MaxPowerLosses
  /\ short \in 0..MaxShortWrites /\ faults \in 0..MaxFlushFaults

Init ==
  /\ exists = FALSE /\ lines = <<>> /\ tail = "none" /\ flushed = 0
  /\ pc = "down" /\ last = 0 /\ pending = 0 /\ committed = 0
  /\ processes = 0 /\ losses = 0 /\ short = 0 /\ faults = 0
--------------------------------------------------------------------------------
(* The events a reader finds: getline does not ask for the last newline. *)
Events == IF tail = "bare" THEN Append(lines, Len(lines) + 1) ELSE lines

(* decode_event_stream and read_task: every line parses, the sequences run from 1  *)
(* without a gap, and there is at least one.                                       *)
Readable ==
  /\ tail # "cut"
  /\ Events # <<>>
  /\ \A i \in DOMAIN Events : Events[i] = i

(* A new process; its store has counted nothing yet. *)
Launch ==
  /\ pc = "down"
  /\ processes < MaxProcesses /\ processes' = processes + 1
  /\ pc' = "idle"
  /\ pending' = 0 /\ committed' = 0
  /\ UNCHANGED <<file, last, losses, short, faults>>

(* Mutant: recovery continues from the committed index. *)
OpenAtCommitted ==
  /\ pc = "idle"
  /\ IF exists THEN Readable /\ last' = committed ELSE last' = 0
  /\ pc' = "ready"
  /\ UNCHANGED <<file, pending, committed, counts>>

(* load_task: no file starts the task, a file that reads resumes it after its last *)
(* event, one that does not is an error and the task stays where it is.            *)
Open ==
  /\ pc = "idle"
  /\ IF exists THEN Readable /\ last' = Len(Events) ELSE last' = 0
  /\ pc' = "ready"
  /\ UNCHANGED <<file, pending, committed, counts>>

(* Mutant: the file is opened to be written from its beginning. *)
OpenForAppendTruncates ==
  /\ pc = "ready" /\ last < MaxEvents
  /\ exists' = TRUE
  /\ lines' = (IF last = 0 \/ processes > 1 THEN <<>> ELSE lines)
  /\ flushed' = (IF last = 0 \/ processes > 1 THEN 0 ELSE flushed)
  /\ pc' = "opened"
  /\ UNCHANGED <<tail, last, pending, committed, counts>>

(* append, up to the open file: O_CREAT makes it, empty, if it is not there. *)
OpenForAppend ==
  /\ pc = "ready" /\ last < MaxEvents
  /\ exists' = TRUE
  /\ pc' = "opened"
  /\ UNCHANGED <<lines, tail, flushed, last, pending, committed, counts>>

(* The whole line is written at the end of the file.  After a bare event it        *)
(* continues that event's line, which no longer parses.                            *)
Write ==
  /\ pc = "opened"
  /\ lines' = Append(lines, IF tail = "none" THEN last + 1 ELSE Garbage)
  /\ tail' = "none"
  /\ last' = last + 1
  /\ pc' = "written"
  /\ UNCHANGED <<exists, flushed, pending, committed, counts>>

(* A write stops inside the line or just before its newline; append fails and the  *)
(* engine gives the task up.                                                       *)
ShortWrite ==
  /\ pc = "opened" /\ tail = "none"
  /\ short < MaxShortWrites /\ short' = short + 1
  /\ tail' \in {"bare", "cut"}
  /\ pc' = "idle"
  /\ UNCHANGED <<exists, lines, flushed, last, pending, committed, processes,
                 losses, faults>>

(* append counts the line; below the threshold that is all. *)
Count ==
  /\ pc = "written"
  /\ pending' = pending + 1
  /\ pc' = IF pending + 1 >= FlushEvery THEN "flush" ELSE "ready"
  /\ UNCHANGED <<file, last, committed, counts>>

(* flush_pending: fsync, then the index advances by what was counted. *)
Flush ==
  /\ pc = "flush"
  /\ flushed' = Len(lines)
  /\ committed' = committed + pending
  /\ pending' = 0
  /\ pc' = "ready"
  /\ UNCHANGED <<exists, lines, tail, last, counts>>

(* Mutant: the index advances before fsync has answered. *)
FlushFaultCommits ==
  /\ pc = "flush"
  /\ faults < MaxFlushFaults /\ faults' = faults + 1
  /\ committed' = committed + pending
  /\ pending' = 0
  /\ pc' = "idle"
  /\ UNCHANGED <<file, last, processes, losses, short>>

(* fsync fails: append fails although the line is in the file, and the engine      *)
(* gives the task up; the count stays, so the next append tries again.             *)
FlushFault ==
  /\ pc = "flush"
  /\ faults < MaxFlushFaults /\ faults' = faults + 1
  /\ pc' = "idle"
  /\ UNCHANGED <<file, last, pending, committed, processes, losses, short>>

(* The process is killed: the kernel still has every byte it was given. *)
Kill ==
  /\ pc # "down"
  /\ pc' = "down"
  /\ UNCHANGED <<file, last, pending, committed, counts>>

(* The machine stops.  Of the bytes after the last flush some first part is on the *)
(* disk; without any flush, not even the directory entry has to be.                *)
PowerLoss ==
  /\ losses < MaxPowerLosses /\ losses' = losses + 1
  /\ pc' = "down"
  /\ \/ \E n \in flushed..Len(lines) :
          /\ lines' = SubSeq(lines, 1, n)
          /\ IF n < Len(lines) /\ lines[n + 1] # Garbage
             THEN tail' \in Tails
             ELSE tail' = (IF n < Len(lines) THEN "cut" ELSE tail)
          /\ UNCHANGED exists
     \/ /\ flushed = 0
        /\ exists' = FALSE /\ lines' = <<>> /\ tail' = "none"
  /\ UNCHANGED <<flushed, last, pending, committed, processes, short, faults>>

Next ==
  \/ Launch \/ Open \/ OpenForAppend \/ Write \/ Count \/ Flush
  \/ ShortWrite \/ FlushFault \/ Kill \/ PowerLoss

Spec == Init /\ [][Next]_vars
--------------------------------------------------------------------------------
(* committed_through never claims more than an fsync has confirmed, through failed *)
(* flushes and restarts.  It may claim less: a process counts its own events only. *)
CommittedIsDurable == pc # "down" => committed <= flushed

(* Killing processes, however often and at whatever point of an append, leaves a   *)
(* log that resumes, or a file with no event at all.                               *)
KillKeepsLog ==
  losses = 0 /\ short = 0 => Readable \/ (lines = <<>> /\ tail = "none")

(* Only a power loss takes a line back: every other step, of this process or a     *)
(* later one, leaves the complete lines of the file as they are or adds one.  (A   *)
(* bare event has no such protection: the next append runs into it.)               *)
EventsStay ==
  [][losses' = losses =>
       /\ Len(lines) <= Len(lines')
       /\ SubSeq(lines', 1, Len(lines)) = lines]_vars
================================================================================

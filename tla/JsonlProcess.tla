-------------------------------- MODULE JsonlProcess --------------------------------
(* ReprocJsonlProcess (src/src/adapters/process/reproc_jsonl_process.cpp): a child *)
(* process that is talked to in lines.  One thread calls start, exchange and stop; *)
(* a reader thread moves lines between the pipes and two queues; the child does    *)
(* what it likes.                                                                  *)
(*                                                                                 *)
(* A call begins in one action and ends when `op` is idle again, with its result   *)
(* in `reply`.  A line is a value of the module that extends this one; Bad is a    *)
(* line that valid_line refuses.                                                   *)
EXTENDS Naturals, Sequences

CONSTANT Bad

VARIABLES
  child,     \* the child process: whether it runs, and what it was started with
  stdin,     \* lines in its stdin pipe
  stdout,    \* lines in its stdout pipe
  proc,      \* started_, exited_, protocol_failed_, reader_stop_
  lines,     \* stdout_lines_
  outbound,  \* outbound_lines_
  reader,    \* the reader thread
  op,        \* where the calling thread is
  reply      \* result of the last call

pipes == <<stdin, stdout>>
processVars == <<child, stdin, stdout, proc, lines, outbound, reader, op, reply>>

NoChild == [alive |-> FALSE, load |-> [revision |-> "none"]]
Clear == [started |-> FALSE, exited |-> FALSE, failed |-> FALSE, stopping |-> FALSE]

Line(l) == [ok |-> TRUE, line |-> l]
Error(e) == [ok |-> FALSE, error |-> e]
Done == [ok |-> TRUE, line |-> [op |-> "none"]]

Running == proc.started /\ ~proc.exited /\ ~proc.failed

ProcessInit ==
  /\ child = NoChild /\ stdin = <<>> /\ stdout = <<>>
  /\ proc = Clear /\ lines = <<>> /\ outbound = <<>>
  /\ reader = "none" /\ op = "idle" /\ reply = Done

(* ------------------------------ the calling thread ----------------------------- *)

(* start: both queues are emptied, nothing of an earlier child is left in them.    *)
(* The calling thread goes on to wait for the first line.                          *)
Start(load) ==
  /\ op = "idle" /\ ~Running
  /\ lines' = <<>> /\ outbound' = <<>> /\ stdin' = <<>> /\ stdout' = <<>>
  /\ proc' = [Clear EXCEPT !.started = TRUE]
  /\ child' = [alive |-> TRUE, load |-> load]
  /\ reader' = "running" /\ op' = "waiting" /\ UNCHANGED reply

(* The child cannot be spawned, or not be put into its job: then it is killed at   *)
(* once, before there is a reader.                                                 *)
StartFails ==
  /\ op = "idle" /\ ~Running
  /\ lines' = <<>> /\ outbound' = <<>> /\ stdin' = <<>> /\ stdout' = <<>>
  /\ \/ proc' = Clear
     \/ proc' = [Clear EXCEPT !.exited = TRUE, !.stopping = TRUE]
  /\ child' = NoChild /\ reader' = "none"
  /\ reply' = Error("unavailable") /\ UNCHANGED op

Exchange(l) ==
  /\ op = "idle"
  /\ IF Running
     THEN outbound' = Append(outbound, l) /\ op' = "waiting" /\ UNCHANGED reply
     ELSE reply' = Error("unavailable") /\ UNCHANGED <<outbound, op>>
  /\ UNCHANGED <<child, pipes, proc, lines, reader>>

(* wait_line looks at the queue first: a line that is there is taken even when the *)
(* child has failed or gone since.                                                 *)
TakeLine ==
  /\ op = "waiting" /\ lines # <<>>
  /\ reply' = Line(Head(lines)) /\ lines' = Tail(lines)
  /\ op' = "idle"
  /\ UNCHANGED <<child, pipes, proc, outbound, reader>>

ForceStop(error) ==
  /\ proc' = [proc EXCEPT !.stopping = TRUE]
  /\ reply' = Error(error) /\ op' = "joining"
  /\ UNCHANGED <<child, pipes, lines, outbound, reader>>

NoLineComes ==
  /\ op = "waiting" /\ lines = <<>>
  /\ proc.failed \/ proc.exited
  /\ ForceStop(IF proc.failed THEN "protocol" ELSE "unavailable")

(* Mutant: a line that is late fails the call and leaves the process. *)
WaitTimesOutOnly ==
  /\ op = "waiting" /\ lines = <<>> /\ ~proc.failed /\ ~proc.exited
  /\ reply' = Error("timeout") /\ op' = "idle"
  /\ UNCHANGED <<child, pipes, proc, lines, outbound, reader>>

WaitTimesOut ==
  /\ op = "waiting" /\ lines = <<>> /\ ~proc.failed /\ ~proc.exited
  /\ ForceStop("timeout")

(* stop: a process that was never started, or was stopped, is left alone. *)
Stop ==
  /\ op = "idle"
  /\ IF proc.started
     THEN proc' = [proc EXCEPT !.stopping = TRUE] /\ op' = "joining"
     ELSE UNCHANGED <<proc, op>>
  /\ reply' = Done
  /\ UNCHANGED <<child, pipes, lines, outbound, reader>>

(* The reader is joined without a bound; the child is then waited for and killed.  *)
(* What is left in its pipes is lost, what is left in the queues stays.            *)
Reap ==
  /\ op = "joining" /\ reader # "running"
  /\ reader' = "none" /\ child' = NoChild /\ stdin' = <<>> /\ stdout' = <<>>
  /\ proc' = [proc EXCEPT !.started = FALSE, !.exited = TRUE]
  /\ op' = "idle"
  /\ UNCHANGED <<lines, outbound, reply>>

Caller == TakeLine \/ NoLineComes \/ WaitTimesOut \/ Reap

(* ------------------------------ the reader thread ------------------------------ *)

ReaderIs(state) == reader' = state /\ UNCHANGED <<child, op, reply>>

(* append_stdout of a whole line. *)
ReadLine ==
  /\ reader = "running" /\ ~proc.failed /\ stdout # <<>>
  /\ stdout' = Tail(stdout)
  /\ IF Head(stdout) = Bad
     THEN proc' = [proc EXCEPT !.failed = TRUE] /\ UNCHANGED lines
     ELSE lines' = Append(lines, Head(stdout)) /\ UNCHANGED proc
  /\ UNCHANGED <<stdin, outbound>> /\ ReaderIs("running")

WriteLine ==
  /\ reader = "running" /\ outbound # <<>>
  /\ IF child.alive
     THEN /\ stdin' = Append(stdin, Head(outbound)) /\ outbound' = Tail(outbound)
          /\ UNCHANGED proc /\ ReaderIs("running")
     ELSE /\ proc' = [proc EXCEPT !.exited = TRUE]
          /\ UNCHANGED <<stdin, outbound>> /\ ReaderIs("done")
  /\ UNCHANGED <<stdout, lines>>

(* One read of 4096 bytes precedes the look at the exit: a line that ends later in *)
(* the pipe is lost.                                                               *)
SeeExit ==
  /\ reader = "running" /\ ~child.alive
  /\ proc' = [proc EXCEPT !.exited = TRUE]
  /\ UNCHANGED <<pipes, lines, outbound>> /\ ReaderIs("done")

(* Mutant: the loop waits in its poll until the child fails or ends. *)
ReaderLeavesOnFailure ==
  /\ reader = "running" /\ proc.failed
  /\ UNCHANGED <<proc, pipes, lines, outbound>> /\ ReaderIs("done")

(* The loop ends on a protocol failure, and when it is told to stop. *)
ReaderLeaves ==
  /\ reader = "running" /\ (proc.failed \/ proc.stopping)
  /\ UNCHANGED <<proc, pipes, lines, outbound>> /\ ReaderIs("done")

Reader == ReadLine \/ WriteLine \/ SeeExit \/ ReaderLeaves

(* ---------------------------------- the child ---------------------------------- *)

Writes(l) == stdout' = Append(stdout, l)

(* It writes a line nobody asked for. *)
ChildWrites(l) ==
  /\ child.alive /\ Writes(l)
  /\ UNCHANGED <<child, stdin, proc, lines, outbound, reader, op, reply>>

(* It reads a request and writes a line. *)
ChildAnswers(l) ==
  /\ child.alive /\ stdin # <<>>
  /\ stdin' = Tail(stdin) /\ Writes(l)
  /\ UNCHANGED <<child, proc, lines, outbound, reader, op, reply>>

ChildExits ==
  /\ child.alive
  /\ child' = [child EXCEPT !.alive = FALSE]
  /\ UNCHANGED <<pipes, proc, lines, outbound, reader, op, reply>>
================================================================================

------------------------------- MODULE DirectProcess -------------------------------
(* DirectProcessRunner::run: a command in a job object, with threads that feed its *)
(* standard input and collect its output                                           *)
(* (src/src/adapters/process/direct_process_runner.cpp, the Windows implementation:*)
(* the other one declares argument_storage twice and does not compile).            *)
(* One stream stands for standard output and standard error, which are treated     *)
(* alike.                                                                          *)
EXTENDS Naturals, Sequences, FiniteSets

CONSTANTS
  OutputBudget,  \* max_stdout_bytes
  Bytes,         \* what the command writes: bytes, Broken for one that is not UTF-8
  ExitCodes,     \* exit codes of the command
  MaxWritten,    \* bound: bytes it writes
  MaxMembers     \* bound: processes of the job at once

ASSUME ProcessParameters ==
  /\ OutputBudget \in Nat \ {0} /\ MaxWritten \in Nat /\ MaxMembers \in Nat \ {0}

Broken == "broken"
ReplacementBytes == 3   \* U+FFFD in UTF-8

VARIABLES
  run,      \* where run_native is: idle, starting, waiting, killing, joining, returned
  job,      \* the job: its main process, how many descendants hold the pipes, how many do not
  pipe,     \* bytes written and not yet read
  written,  \* history: every byte the job wrote
  kept,     \* what the collector was given
  reading,  \* the collecting thread still reads
  feeding,  \* the feeding thread still writes
  exit,     \* what the wait returned: "none", "timed_out", "failed" or an exit code
  output    \* what the last run returned

processVars == <<run, job, pipe, written, kept, reading, feeding, exit, output>>

NoJob == [main |-> "none", descendants |-> 0, detached |-> 0]
NoOutput == [kind |-> "none"]
Failed(code) == [kind |-> "error", code |-> code]

ProcessInit ==
  /\ run = "idle" /\ job = NoJob /\ pipe = <<>> /\ written = <<>> /\ kept = <<>>
  /\ reading = FALSE /\ feeding = FALSE /\ exit = "none" /\ output = NoOutput

(* ------------------------------- the collector --------------------------------- *)

(* The first quarter of the budget and as much of the end as the rest holds. *)
HeadLimit == IF OutputBudget \div 4 > 1 THEN OutputBudget \div 4 ELSE 1
TailLimit == OutputBudget - HeadLimit

Collected(bytes) ==
  IF Len(bytes) <= OutputBudget THEN bytes
  ELSE SubSeq(bytes, 1, HeadLimit) \o SubSeq(bytes, Len(bytes) - TailLimit + 1, Len(bytes))

Cost(byte) == IF byte = Broken THEN ReplacementBytes ELSE 1

(* A byte that is not UTF-8 becomes the replacement character, which is longer: the *)
(* text that no longer fits is cut, wherever the cut falls.                         *)
normalized_utf8(bytes) ==
  LET size[n \in 0..Len(bytes)] == IF n = 0 THEN 0 ELSE size[n - 1] + Cost(bytes[n])
      Fitting == {n \in 0..Len(bytes) : size[n] <= OutputBudget}
      last == CHOOSE n \in Fitting : \A m \in Fitting : m <= n
  IN [text |-> SubSeq(bytes, 1, last), truncated |-> last < Len(bytes)]

(* ---------------------------------- the run ------------------------------------ *)

HoldsPipes == job.main = "running" \/ job.descendants > 0
Alive == HoldsPipes \/ job.detached > 0

(* A suspended process is put into the job before it runs its first instruction;   *)
(* when that fails it is ended.  The feeding thread has something to write.        *)
StartRun ==
  /\ run \in {"idle", "returned"}
  /\ run' = "waiting"
  /\ job' = [NoJob EXCEPT !.main = "running"]
  /\ pipe' = <<>> /\ written' = <<>> /\ kept' = <<>>
  /\ reading' = TRUE /\ feeding' = TRUE /\ exit' = "none" /\ output' = NoOutput

RefuseRun(code) ==
  /\ run \in {"idle", "returned"}
  /\ run' = "returned" /\ output' = Failed(code)
  /\ job' = NoJob /\ pipe' = <<>> /\ written' = <<>> /\ kept' = <<>>
  /\ reading' = FALSE /\ feeding' = FALSE /\ exit' = "none"

WaitSeesExit ==
  /\ run = "waiting" /\ job.main \notin {"none", "running"}
  /\ exit' = job.main /\ run' = "killing"
  /\ UNCHANGED <<job, pipe, written, kept, reading, feeding, output>>

WaitFails ==
  /\ run = "waiting"
  /\ exit' = "failed" /\ run' = "killing"
  /\ UNCHANGED <<job, pipe, written, kept, reading, feeding, output>>

WaitTimesOut ==
  /\ run = "waiting"
  /\ exit' = "timed_out" /\ run' = "killing"
  /\ UNCHANGED <<job, pipe, written, kept, reading, feeding, output>>

(* Mutants: only the main process is ended; the job is ended on a timeout only. *)
EndedMain == [job EXCEPT !.main = IF @ = "running" THEN "killed" ELSE @]
EndedOnTimeout == IF exit = "timed_out" THEN [EndedMain EXCEPT !.descendants = 0, !.detached = 0] ELSE job

(* The job is ended whatever the wait returned: nothing in it outlives the run.    *)
EndedJob == [EndedMain EXCEPT !.descendants = 0, !.detached = 0]

KillJob ==
  /\ run = "killing"
  /\ job' = EndedJob /\ run' = "joining"
  /\ UNCHANGED <<pipe, written, kept, reading, feeding, exit, output>>

(* The threads: what the pipe holds is read until it is empty and closed by all.   *)
CollectOutput ==
  /\ reading /\ pipe # <<>>
  /\ kept' = Append(kept, Head(pipe)) /\ pipe' = Tail(pipe)
  /\ UNCHANGED <<run, job, written, reading, feeding, exit, output>>

CollectorEnds ==
  /\ reading /\ pipe = <<>> /\ ~HoldsPipes
  /\ reading' = FALSE
  /\ UNCHANGED <<run, job, pipe, written, kept, feeding, exit, output>>

(* Nobody is left to read the input. *)
FeederEnds ==
  /\ feeding /\ ~HoldsPipes
  /\ feeding' = FALSE
  /\ UNCHANGED <<run, job, pipe, written, kept, reading, exit, output>>

(* Mutant: the collecting thread is not waited for. *)
JoinedFeeder == ~feeding

Joined == ~reading /\ ~feeding

RunOutput ==
  LET text == normalized_utf8(Collected(kept))
  IN IF exit = "failed" THEN Failed("execution")
     ELSE [kind |-> "output", timed_out |-> exit = "timed_out",
           exit_code |-> IF exit = "timed_out" THEN "-1" ELSE exit,
           text |-> text.text,
           truncated |-> Len(kept) > OutputBudget \/ text.truncated]

ReturnFromRun ==
  /\ run = "joining" /\ Joined
  /\ run' = "returned" /\ output' = RunOutput
  /\ UNCHANGED <<job, pipe, written, kept, reading, feeding, exit>>

ProcessStep ==
  \/ WaitSeesExit \/ WaitTimesOut \/ WaitFails \/ KillJob
  \/ CollectOutput \/ CollectorEnds \/ FeederEnds \/ ReturnFromRun

(* --------------------------------- the command --------------------------------- *)

CommandWrites(byte) ==
  /\ HoldsPipes /\ Len(written) < MaxWritten
  /\ pipe' = Append(pipe, byte) /\ written' = Append(written, byte)
  /\ UNCHANGED <<run, job, kept, reading, feeding, exit, output>>

CommandReadsInput ==
  /\ feeding /\ HoldsPipes
  /\ feeding' = FALSE
  /\ UNCHANGED <<run, job, pipe, written, kept, reading, exit, output>>

CommandForks ==
  /\ HoldsPipes /\ job.descendants + job.detached < MaxMembers - 1
  /\ \/ job' = [job EXCEPT !.descendants = @ + 1]
     \/ job' = [job EXCEPT !.detached = @ + 1]
  /\ UNCHANGED <<run, pipe, written, kept, reading, feeding, exit, output>>

CommandExits(code) ==
  /\ job.main = "running"
  /\ job' = [job EXCEPT !.main = code]
  /\ UNCHANGED <<run, pipe, written, kept, reading, feeding, exit, output>>

DescendantExits ==
  /\ \/ job.descendants > 0 /\ job' = [job EXCEPT !.descendants = @ - 1]
     \/ job.detached > 0 /\ job' = [job EXCEPT !.detached = @ - 1]
  /\ UNCHANGED <<run, pipe, written, kept, reading, feeding, exit, output>>

CommandStep ==
  \/ \E byte \in Bytes : CommandWrites(byte)
  \/ CommandReadsInput \/ CommandForks
  \/ \E code \in ExitCodes : CommandExits(code)
  \/ DescendantExits

(* -------------------------------- properties ----------------------------------- *)

(* Nothing the command started is alive once run has returned. *)
NothingOutlivesTheRun == run = "returned" => ~Alive

(* What run returns holds every byte the job wrote, those written just before it   *)
(* ended included, or says that it was truncated; a longer output keeps its        *)
(* beginning and its end.                                                          *)
OutputIsWhole ==
  run = "returned" /\ output.kind = "output" =>
    /\ ~output.truncated => output.text = written
    /\ output.truncated => \E n \in 0..Len(written) : output.text = SubSeq(Collected(written), 1, n)
================================================================================

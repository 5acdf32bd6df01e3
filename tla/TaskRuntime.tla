------------------------------- MODULE TaskRuntime -------------------------------
(* RuntimeEngine (src/src/application/runtime_engine.cpp) driving one task over   *)
(* its durable event log, through process crashes, failing appends and recovery.  *)
(*                                                                                *)
(* durable is replay_events of the events whose bytes are in the log on disk, and  *)
(* log says whether read_task can read the file; task is the TaskState the running *)
(* process holds.  pc is the point of the engine at which another actor can step  *)
(* in: an append, or an external call that is out.  What happens between two such *)
(* points only reads local data and is one action.                                *)
EXTENDS StateReducer, FiniteSets

CONSTANTS
  Answers,          \* tool-call lists a model answer may carry
  ConcurrencySafe,  \* tool_is_concurrency_safe
  Permitted,        \* Permission::check answers Allow
  HookDenied,       \* a preToolUse hook denies the call
  Dangerous,        \* match_dangerous_pattern hits
  MaxParallel,      \* RuntimeBudgets::max_parallel_tools
  MaxCrashes,       \* bound: process crashes
  MaxStoreFaults    \* bound: appends the event store reports as failed

ASSUME EngineParameters ==
  /\ Answers \subseteq Seq(Tools) \ {<<>>}
  /\ \A a \in Answers : Len(a) <= MaxAnswer
  /\ ConcurrencySafe \subseteq Tools
  /\ Permitted \subseteq Tools
  /\ HookDenied \subseteq Tools
  /\ Dangerous \subseteq Tools
  /\ MaxParallel \in Nat \ {0}
  /\ MaxCrashes \in Nat
  /\ MaxStoreFaults \in Nat

VARIABLES
  durable,      \* the task state the events written to the log replay to
  log,          \* the log's file, as read_task would find it
  task,         \* the TaskState in the memory of the running process
  pc,           \* where the engine is
  window,       \* the open dispatch window: first call, size, slot cursor
  running,      \* slots of the window whose tool is executing
  outcome,      \* results[] of the window, by slot
  dryRun,       \* RunRequest::dry_run of this process
  cancelled,    \* the shared cancellation flag
  expired,      \* max_task_time_ms has passed since started_at_ms
  exit,         \* how the last process left run() or resume()
  crashes,      \* number of crashes so far
  storeFaults,  \* number of failed appends so far
  plan,         \* history: was the turn submitted as a dry run
  attempts      \* history: executions started, by call of the pending answer

vars == <<durable, log, task, pc, window, running, outcome, dryRun, cancelled,
          expired, exit, crashes, storeFaults, plan, attempts>>

Points ==
  {"down", "begin", "loop", "retrieve", "model", "accepted", "recover",
   "recovering", "start", "screen", "execute", "complete"}
Exits ==
  {"none", "returned", "crash", "persistence", "invalid_transition",
   "invariant", "exception"}
Slots == 1..MaxAnswer
(* sound: no file yet, or whole lines only.  bare: the last line has no newline    *)
(* (it is still read).  broken: a file read_task refuses, an empty one included.  *)
LogFiles == {"sound", "bare", "broken"}
NoWindow == [first |-> 0, size |-> 0, slot |-> 0]
Untried == [i \in Slots |-> 0]
NoOutcome == [i \in Slots |-> "none"]

Up == pc # "down"

TypeOK ==
  /\ durable \in TaskState
  /\ log \in LogFiles
  /\ task \in TaskState
  /\ pc \in Points
  /\ window \in [first : Nat, size : 0..MaxAnswer, slot : Nat]
  /\ running \subseteq Slots
  /\ outcome \in [Slots -> {"none", "ok", "failed", "denied"}]
  /\ dryRun \in BOOLEAN /\ cancelled \in BOOLEAN /\ expired \in BOOLEAN
  /\ exit \in Exits
  /\ crashes \in 0..MaxCrashes
  /\ storeFaults \in 0..MaxStoreFaults
  /\ plan \in {"unsubmitted", "plan", "act"}
  /\ attempts \in [Slots -> Nat]

Init ==
  /\ durable = NoTask
  /\ log = "sound"
  /\ task = NoTask
  /\ pc = "down"
  /\ window = NoWindow
  /\ running = {}
  /\ outcome = NoOutcome
  /\ dryRun = FALSE /\ cancelled = FALSE /\ expired = FALSE
  /\ exit = "none"
  /\ crashes = 0
  /\ storeFaults = 0
  /\ plan = "unsubmitted"
  /\ attempts = Untried
--------------------------------------------------------------------------------
(* The process leaves run() or resume() for the stated reason; nothing of its    *)
(* memory is used again.                                                         *)
Leave(reason) ==
  /\ pc' = "down"
  /\ exit' = reason
  /\ window' = NoWindow
  /\ running' = {}
  /\ outcome' = NoOutcome

Stay == UNCHANGED <<exit, window, running, outcome>>

(* continue_task returns once the task is terminal and loops otherwise. *)
Continue(after) ==
  IF IsTerminal(after)
  THEN Leave("returned")
  ELSE /\ pc' = "loop"
       /\ exit' = exit
       /\ window' = NoWindow
       /\ running' = {}
       /\ outcome' = NoOutcome

(* append_event: the reducer first, then the store, then memory.  A rejected      *)
(* event is the fatal InvalidTransition.                                          *)
AppendRejected(legal) ==
  /\ ~legal
  /\ Leave("invalid_transition")
  /\ UNCHANGED <<durable, log, task, storeFaults>>

(* The file after one more line, with its newline or without: a line that follows *)
(* a bare one runs into it.                                                       *)
LogWith(end) == IF log = "sound" THEN end ELSE "broken"

(* A store that reports failure leaves memory behind.  Nothing may have been      *)
(* written (but the first append has then created the file), a part of the line,  *)
(* all but its newline, or the line (the flush failed).                           *)
AppendFailed(legal, after) ==
  /\ legal
  /\ storeFaults < MaxStoreFaults
  /\ storeFaults' = storeFaults + 1
  /\ \/ durable' = durable /\ log' \in {log, "broken"}
     \/ durable' = after /\ log' \in {LogWith("bare"), LogWith("sound")}
  /\ Leave("persistence")
  /\ UNCHANGED task

Appended(legal, after) ==
  /\ legal
  /\ durable' = after
  /\ log' = LogWith("sound")
  /\ task' = after
  /\ UNCHANGED storeFaults

(* append_event whose success goes back to continue_task. *)
AppendThenLoop(legal, after) ==
  \/ Appended(legal, after) /\ Continue(after)
  \/ AppendFailed(legal, after)
  \/ AppendRejected(legal)

(* append_event whose success goes on inside the handler, at point. *)
AppendThen(legal, after, point) ==
  \/ Appended(legal, after) /\ pc' = point /\ Stay
  \/ AppendFailed(legal, after)
  \/ AppendRejected(legal)

(* guard_external_call: cancellation, then wall-clock time, then the count.       *)
GuardVerdict(budget, used, limit) ==
  IF cancelled THEN "cancelled"
  ELSE IF expired THEN "max_task_time_ms"
  ELSE IF budget # "none" /\ used >= limit THEN budget
  ELSE "none"

StopAtGuard(verdict) ==
  IF verdict = "cancelled"
  THEN AppendThenLoop(CanCancel(task), CancelTask(task, "cancelled"))
  ELSE AppendThenLoop(CanExceed(task, verdict), Exceed(task, verdict))

Environment == <<dryRun, cancelled, expired, crashes, plan>>
--------------------------------------------------------------------------------
(* The session layer calls run() for a new turn; /plan submits it as a dry run. *)
Submit ==
  /\ plan = "unsubmitted"
  /\ \E p \in {"plan", "act"} :
       /\ plan' = p
       /\ dryRun' = (p = "plan")
  /\ pc' = "begin"
  /\ UNCHANGED <<durable, log, task, window, running, outcome, cancelled, expired,
                 exit, crashes, storeFaults, attempts>>

(* run(): TaskStarted is the first event of the log. *)
Begin ==
  /\ pc = "begin"
  /\ AppendThen(CanStartTask(task), StartTask(task), "loop")
  /\ UNCHANGED <<Environment, attempts>>

(* recover_pending_turn: no task log means run() again, otherwise resume(); both *)
(* build a request whose dry_run is false.  A terminal task is not run again.  A *)
(* log that exists and cannot be read is an error, each time it is tried.        *)
Recover ==
  /\ pc = "down" /\ plan # "unsubmitted" /\ ~IsTerminal(durable)
  /\ log # "broken"
  /\ task' = durable
  /\ pc' = IF durable.status = "Absent" THEN "begin" ELSE "loop"
  /\ dryRun' = FALSE
  /\ cancelled' = FALSE
  /\ expired' = FALSE
  /\ exit' = "none"
  /\ UNCHANGED <<durable, log, window, running, outcome, crashes, storeFaults,
                 plan, attempts>>
--------------------------------------------------------------------------------
HandleCreated ==
  /\ pc = "loop" /\ task.status = "Created"
  /\ AppendThenLoop(CanPrepareContext(task), PrepareContext(task))
  /\ UNCHANGED <<Environment, attempts>>

(* handle_preparing_context up to knowledge_.retrieve. *)
RetrieveContext ==
  /\ pc = "loop" /\ task.status = "PreparingContext"
  /\ LET verdict == GuardVerdict("none", 0, 0) IN
       IF verdict # "none"
       THEN StopAtGuard(verdict)
       ELSE pc' = "retrieve" /\ Stay /\ UNCHANGED <<durable, log, task, storeFaults>>
  /\ UNCHANGED <<Environment, attempts>>

(* The knowledge provider answers: an error (a cancelled retrieval is one too),   *)
(* nothing to cite, cited articles (which forbid tools), or an authoritative      *)
(* no-match.                                                                      *)
ContextRetrieved ==
  /\ pc = "retrieve"
  /\ \/ AppendThenLoop(CanContextFailed(task), ContextFailed(task))
     \/ \E forbidden, noMatch \in BOOLEAN :
          /\ ~(forbidden /\ noMatch)
          /\ AppendThenLoop(CanContextPrepared(task),
                            ContextPrepared(task, forbidden, noMatch))
  /\ UNCHANGED <<Environment, attempts>>

AnswerNoMatch ==
  /\ pc = "loop" /\ task.status = "AwaitingModel" /\ task.noMatch
  /\ AppendThenLoop(CanNoMatch(task), NoMatch(task))
  /\ UNCHANGED <<Environment, attempts>>

AtModel == pc = "loop" /\ task.status = "AwaitingModel" /\ ~task.noMatch

TerminalForStop(stop) ==
  CASE stop = "EndTurn" ->
         AppendThenLoop(CanCompleteTask(task), CompleteTask(task))
    [] stop = "MaxTokens" ->
         AppendThenLoop(CanExceed(task, "max_tokens"),
                        Exceed(task, "max_tokens"))
    [] OTHER -> Leave("invariant") /\ UNCHANGED <<durable, log, task, storeFaults>>

(* Mutant: an accepted answer found on resume is an error. *)
FinishAcceptedAnswerRefuses ==
  /\ AtModel /\ ~task.inFlight /\ task.stop # "none"
  /\ Leave("invariant")
  /\ UNCHANGED <<durable, log, task, storeFaults, Environment, attempts>>

(* A resumed task whose accepted answer is durable but whose terminal is not. *)
FinishAcceptedAnswer ==
  /\ AtModel /\ ~task.inFlight /\ task.stop # "none"
  /\ TerminalForStop(task.stop)
  /\ UNCHANGED <<Environment, attempts>>

(* An in-flight call found on resume is sent again as it was: no new start event, *)
(* no count guard.                                                                *)
ReissueModelCall ==
  /\ AtModel /\ task.inFlight
  /\ LET verdict == GuardVerdict("none", 0, 0) IN
       IF verdict # "none"
       THEN StopAtGuard(verdict)
       ELSE pc' = "model" /\ Stay /\ UNCHANGED <<durable, log, task, storeFaults>>
  /\ UNCHANGED <<Environment, attempts>>

(* Definitions are stripped when evidence forbids tools and in a dry run. *)
IssueModelCall ==
  /\ AtModel /\ ~task.inFlight /\ task.stop = "none"
  /\ LET verdict == GuardVerdict("max_model_rounds", task.rounds, MaxModelRounds)
         tools == IF task.forbidden \/ dryRun THEN "plain" ELSE "tools" IN
       IF verdict # "none"
       THEN StopAtGuard(verdict)
       ELSE AppendThen(CanStartModelCall(task, tools),
                       StartModelCall(task, tools), "model")
  /\ UNCHANGED <<Environment, attempts>>

(* model_.complete reports the cancellation itself. *)
ModelCancelled ==
  /\ pc = "model" /\ cancelled
  /\ AppendThenLoop(CanCancel(task), CancelTask(task, "cancelled"))
  /\ UNCHANGED <<Environment, attempts>>

(* The model fails, or answers something the protocol checks refuse. *)
ModelFailed ==
  /\ pc = "model"
  /\ LET verdict == GuardVerdict("none", 0, 0) IN
       IF verdict # "none"
       THEN StopAtGuard(verdict)
       ELSE AppendThenLoop(CanFailModelCall(task), FailModelCall(task))
  /\ UNCHANGED <<Environment, attempts>>

(* The model gives a well-formed answer; the guard before its acceptance is the   *)
(* last one.  A model asks only for tools its request offered.                    *)
ModelAnswered(stop, asked) ==
  /\ pc = "model"
  /\ ValidAnswer(stop, asked)
  /\ asked # <<>> => task.offered = "tools"
  /\ GuardVerdict("none", 0, 0) = "none"
  /\ ~(task.forbidden /\ asked # <<>>)
  /\ AppendThen(CanAcceptAnswer(task, stop, asked),
                AcceptAnswer(task, stop, asked),
                IF asked = <<>> THEN "accepted" ELSE "loop")
  /\ attempts' = IF durable'.pending # durable.pending THEN Untried ELSE attempts
  /\ UNCHANGED Environment

ModelAnswers ==
  \E stop \in StopReasons, asked \in Answers \cup {<<>>} :
    ModelAnswered(stop, asked)

(* The terminal of an accepted answer is a second append, with no guard between. *)
FinishAnswer ==
  /\ pc = "accepted"
  /\ TerminalForStop(task.stop)
  /\ UNCHANGED <<Environment, attempts>>
--------------------------------------------------------------------------------
AtTools == pc = "loop" /\ task.status = "AwaitingTool"

(* Every call has its result: the results become the next user message. *)
CloseRound ==
  /\ AtTools /\ task.active = 0 /\ task.next = Len(task.pending)
  /\ AppendThenLoop(CanPrepareContext(task), PrepareContext(task))
  /\ UNCHANGED <<Environment, attempts>>

(* An active call on entry was started and never finished by an earlier process   *)
(* (or by a window that was left): it alone is executed again.                    *)
ResumeCall ==
  /\ AtTools /\ task.active # 0
  /\ LET verdict == GuardVerdict("none", 0, 0) IN
       IF task.active # task.next + 1
       THEN Leave("invariant") /\ UNCHANGED <<durable, log, task, storeFaults>>
       ELSE IF verdict # "none"
       THEN StopAtGuard(verdict)
       ELSE pc' = "recover" /\ Stay /\ UNCHANGED <<durable, log, task, storeFaults>>
  /\ UNCHANGED <<Environment, attempts>>

Resumed == task.pending[task.active]

(* The recovery path asks the hooks, then the permission, then the patterns. *)
RecoverScreen ==
  /\ pc = "recover"
  /\ UNCHANGED Environment
  /\ IF Resumed \in HookDenied \/ Resumed \notin Permitted
     THEN /\ AppendThenLoop(CanCompleteCall(task, task.active),
                            CompleteCall(task, task.active))
          /\ UNCHANGED attempts
     ELSE IF Resumed \in Dangerous
     THEN /\ AppendThenLoop(CanCancel(task),
                            CancelTask(task, "dangerous_pattern"))
          /\ UNCHANGED attempts
     ELSE /\ pc' = "recovering" /\ Stay
          /\ attempts' = [attempts EXCEPT ![task.active] = @ + 1]
          /\ UNCHANGED <<durable, log, task, storeFaults>>

(* Mutant: a failed re-execution is tried again without a record. *)
RecoverFinishRetries ==
  /\ pc = "recovering"
  /\ \/ AppendThenLoop(CanCompleteCall(task, task.active),
                       CompleteCall(task, task.active))
     \/ pc' = "loop" /\ Stay /\ UNCHANGED <<durable, log, task, storeFaults>>
  /\ UNCHANGED <<Environment, attempts>>

RecoverFinish ==
  /\ pc = "recovering"
  /\ \/ AppendThenLoop(CanCompleteCall(task, task.active),
                       CompleteCall(task, task.active))
     \/ AppendThenLoop(CanFailCall(task, task.active),
                       FailCall(task))
  /\ UNCHANGED <<Environment, attempts>>
--------------------------------------------------------------------------------
(* Mutant: batches what the permission allows. *)
SafeWhenPermitted(i) == task.pending[i] \in Permitted

(* The window: a contiguous run of concurrency-safe calls, or one other call,     *)
(* clamped to what is left of max_tool_calls.                                     *)
Safe(i) == task.pending[i] \in ConcurrencySafe

Batch(n) ==
  /\ n \in 1..Len(task.pending) - task.next
  /\ n = 1 \/ (n <= MaxParallel /\ \A i \in task.next + 1..task.next + n : Safe(i))

(* Mutant: the window is not clamped to the remaining allowance. *)
WindowSizeUnclamped(n) ==
  Batch(n) /\ \A m \in 1..MaxAnswer : Batch(m) => m <= n

Allowed(n) == Batch(n) /\ task.calls + n <= MaxToolCalls
WindowSize(n) == Allowed(n) /\ \A m \in 1..MaxAnswer : Allowed(m) => m <= n

OpenWindow ==
  /\ AtTools /\ task.active = 0 /\ task.next < Len(task.pending)
  /\ LET verdict == GuardVerdict("max_tool_calls", task.calls, MaxToolCalls) IN
       IF verdict # "none"
       THEN StopAtGuard(verdict)
       ELSE /\ \E n \in 1..MaxAnswer :
                 /\ WindowSize(n)
                 /\ window' = [first |-> task.next + 1, size |-> n, slot |-> 0]
            /\ pc' = "start"
            /\ UNCHANGED <<durable, log, task, running, outcome, exit, storeFaults>>
  /\ UNCHANGED <<Environment, attempts>>

CallOf(slot) == window.first + slot - 1
WindowSlots == 1..window.size

(* All ToolCallStarted events of the window precede the first execution. *)
StartNext ==
  /\ pc = "start"
  /\ LET call == task.next + window.slot + 1
         last == window.slot + 1 = window.size IN
       \/ /\ Appended(CanStartCall(task, call), StartCall(task, call))
          /\ pc' = IF last THEN "screen" ELSE "start"
          /\ window' = [window EXCEPT !.slot = IF last THEN 0 ELSE @ + 1]
          /\ UNCHANGED <<running, outcome, exit>>
       \/ AppendFailed(CanStartCall(task, call), StartCall(task, call))
       \/ AppendRejected(CanStartCall(task, call))
  /\ UNCHANGED <<Environment, attempts>>

HookStops(slot) == task.pending[CallOf(slot)] \in HookDenied
PatternHits(slot) ==
  ~HookStops(slot) /\ task.pending[CallOf(slot)] \in Dangerous
(* Mutant: only the parallel calls ask the permission. *)
PermissionStopsReads(slot) ==
  Safe(CallOf(slot)) /\ task.pending[CallOf(slot)] \notin Permitted

PermissionStops(slot) == task.pending[CallOf(slot)] \notin Permitted

(* The window asks the hooks, then the patterns (a hit cancels the task), then    *)
(* the permission; what is left is launched, in parallel when concurrency-safe.   *)
ScreenWindow ==
  /\ pc = "screen"
  /\ UNCHANGED Environment
  /\ IF \E slot \in WindowSlots : PatternHits(slot)
     THEN /\ AppendThenLoop(CanCancel(task),
                            CancelTask(task, "dangerous_pattern"))
          /\ UNCHANGED attempts
     ELSE LET denied == {slot \in WindowSlots :
                           HookStops(slot) \/ PermissionStops(slot)} IN
          /\ running' = WindowSlots \ denied
          /\ outcome' = [slot \in Slots |->
                           IF slot \in denied THEN "denied" ELSE "none"]
          /\ attempts' = [i \in Slots |->
                            IF \E slot \in running' : i = CallOf(slot)
                            THEN attempts[i] + 1 ELSE attempts[i]]
          /\ pc' = "execute"
          /\ UNCHANGED <<durable, log, task, window, exit, storeFaults>>

(* A tool of the window ends, in any order.  A gateway error, an exception in     *)
(* the future and a result with a foreign id are all "failed".                    *)
ToolEnds(slot) ==
  /\ pc = "execute" /\ slot \in running
  /\ running' = running \ {slot}
  /\ \E result \in {"ok", "failed"} :
       outcome' = [outcome EXCEPT ![slot] = result]
  /\ UNCHANGED <<durable, log, task, pc, window, exit, storeFaults, Environment,
                 attempts>>

AllEnded ==
  /\ pc = "execute" /\ running = {}
  /\ pc' = "complete"
  /\ UNCHANGED <<durable, log, task, window, running, outcome, exit, storeFaults,
                 Environment, attempts>>

(* The completions.  The loop reads pending_tool_calls at next_tool_index +       *)
(* offset although every completion has already moved next_tool_index: past the   *)
(* first slot it names a later call than the one the result belongs to.  It does  *)
(* not stop at a failed slot either.                                              *)
CompletedCall == task.next + window.slot + 1

CompleteSlot ==
  /\ pc = "complete"
  /\ UNCHANGED <<Environment, attempts>>
  /\ LET call  == CompletedCall
         slot  == window.slot + 1
         owner == CallOf(slot)
         good  == outcome[slot] # "failed" /\ owner = call
         legal == IF good THEN CanCompleteCall(task, owner)
                  ELSE CanFailCall(task, call)
         after == IF good THEN CompleteCall(task, owner) ELSE FailCall(task) IN
       IF call > Len(task.pending)
       THEN Leave("exception") /\ UNCHANGED <<durable, log, task, storeFaults>>
       ELSE \/ /\ Appended(legal, after)
               /\ IF slot = window.size
                  THEN Continue(after)
                  ELSE /\ pc' = "complete"
                       /\ window' = [window EXCEPT !.slot = slot]
                       /\ UNCHANGED <<running, outcome, exit>>
            \/ AppendFailed(legal, after)
            \/ AppendRejected(legal)
--------------------------------------------------------------------------------
(* The process is killed, between two system calls.  In the first append that may *)
(* be after the file was created and before its first byte was written.           *)
Crash ==
  /\ Up /\ crashes < MaxCrashes
  /\ crashes' = crashes + 1
  /\ Leave("crash")
  /\ log' \in IF pc = "begin" THEN {log, "broken"} ELSE {log}
  /\ UNCHANGED <<durable, task, dryRun, cancelled, expired, storeFaults, plan,
                 attempts>>

(* Ctrl+C, or a display failure: the flag is set while the turn runs. *)
Cancel ==
  /\ Up /\ ~cancelled
  /\ cancelled' = TRUE
  /\ UNCHANGED <<durable, log, task, pc, window, running, outcome, dryRun,
                 expired, exit, crashes, storeFaults, plan, attempts>>

TimePasses ==
  /\ Up /\ ~expired
  /\ expired' = TRUE
  /\ UNCHANGED <<durable, log, task, pc, window, running, outcome, dryRun,
                 cancelled, exit, crashes, storeFaults, plan, attempts>>

(* One step of the thread that runs the task, external calls included. *)
EngineStep ==
  \/ Begin \/ HandleCreated \/ RetrieveContext \/ ContextRetrieved
  \/ AnswerNoMatch \/ FinishAcceptedAnswer \/ ReissueModelCall \/ IssueModelCall
  \/ ModelCancelled \/ ModelFailed \/ ModelAnswers \/ FinishAnswer
  \/ CloseRound \/ ResumeCall \/ RecoverScreen \/ RecoverFinish
  \/ OpenWindow \/ StartNext \/ ScreenWindow
  \/ (\E slot \in Slots : ToolEnds(slot)) \/ AllEnded \/ CompleteSlot

Next ==
  \/ Submit \/ Recover \/ EngineStep \/ Crash \/ Cancel \/ TimePasses

Spec == Init /\ [][Next]_vars

(* The engine thread runs and external calls return (model, tool and retrieval    *)
(* calls all carry deadlines); the session layer recovers a pending turn.         *)
FairSpec == Spec /\ WF_vars(EngineStep) /\ WF_vars(Recover)
--------------------------------------------------------------------------------
(* Properties. *)

(* Calls with a durable start and no durable completion: what a recovery finds. *)
Open(s) == s.next + 1 .. s.dispatch

(* A crash inside a window never leaves several mutating calls started without    *)
(* results: a started, unfinished mutation is the only started, unfinished call   *)
(* (the window construction of handle_awaiting_tool and the reducer's cursors).   *)
MutationsOpenAlone ==
  \A i, j \in Open(durable) :
    i # j => durable.pending[i] \in ConcurrencySafe

(* The budgets hold over the whole life of the task, across every recovery: what  *)
(* the log counts never exceeds them, and no started call escapes the count.      *)
BudgetsHold ==
  /\ durable.rounds <= MaxModelRounds
  /\ durable.calls <= MaxToolCalls
  /\ durable.dispatch <= durable.calls

(* A mutating call runs again only after a crash or a failed append, once for     *)
(* each: neither the recovery path nor a window that was left repeats it.         *)
MutationsRunOnce ==
  \A i \in 1..Len(durable.pending) :
    durable.pending[i] \notin ConcurrencySafe =>
      attempts[i] <= 1 + crashes + storeFaults

(* Neither path, window or recovery, executes a call that a hook denied, the      *)
(* permission did not allow, or a dangerous pattern matches.                      *)
NothingRefusedRuns ==
  \A i \in 1..Len(durable.pending) :
    attempts[i] > 0 =>
      durable.pending[i] \in Permitted \ (HookDenied \cup Dangerous)

(* The transcript stays one a provider accepts: a user message, then pairs of a   *)
(* tool request and its results, then at most one text; the results collected     *)
(* for the open request are exactly its first calls, in order.                    *)
TranscriptWellFormed ==
  LET t == durable.transcript IN
  /\ \A i \in 1..Len(t) :
       /\ (t[i] = "user") <=> (i = 1)
       /\ t[i] = "results" => t[i - 1] = "tool_use"
       /\ t[i] = "tool_use" /\ i < Len(t) => t[i + 1] = "results"
       /\ t[i] = "text" => i = Len(t)
  /\ EndsWith(durable, "tool_use") <=> durable.pending # <<>>
  /\ durable.results = [i \in 1..durable.next |-> i]

Faults == {"invalid_transition", "invariant", "exception"}

(* Everywhere but past the first completion of a window wider than one, the       *)
(* engine only appends events its reducer accepts and reaches no broken state,    *)
(* whatever earlier processes left in the log.                                    *)
FaultsOnlyInWideWindows ==
  [][exit' # exit /\ exit' \in Faults =>
       pc = "complete" /\ window.size > 1 /\ window.slot > 0]_vars

(* The log is a write-ahead journal of the effects: what a recovery reads off it  *)
(* (calls started, calls finished) follows ToolJournal at every step, crashes     *)
(* and failed appends included.                                                   *)
Journal == INSTANCE ToolJournal WITH
  Lists <- Answers, Shared <- ConcurrencySafe, MaxUsed <- MaxToolCalls,
  calls <- durable.pending, started <- durable.dispatch,
  finished <- durable.next, used <- durable.calls, runs <- attempts,
  over <- IsTerminal(durable)

JournalSpec == Journal!Spec

(* The log is past recovery: a failed append left a file that cannot be read (an   *)
(* empty one, a torn line, or a line the next append ran into), or a kill in the  *)
(* very first append left an empty one.                                           *)
LogLost ==
  /\ log = "broken"
  /\ storeFaults > 0 \/ (crashes > 0 /\ durable.status = "Absent")

(* A submitted turn ends with a readable terminal, over crashes, failed appends and *)
(* recoveries, unless its log is past recovery; a kill after the first event of    *)
(* the task never brings that about, nor does anything without a kill or a fault.  *)
TaskDecided ==
  (plan # "unsubmitted") ~> (IsTerminal(durable) /\ log # "broken") \/ LogLost

(* What a comment of the repository says and the code does not do (the run that   *)
(* checks it expects a violation):                                                *)
(* "the batched window marks every concurrency-safe call of a window as started   *)
(* before the first of them succeeds" and its completions follow in order: a      *)
(* window never ends run() with a rejected event or an exception.                 *)
NeverFaults == exit \notin Faults
================================================================================

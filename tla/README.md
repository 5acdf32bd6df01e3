# Verification of the agent runtime

TLA+ models of the parts of this repository that keep state across steps, crashes
and processes, the TLC runs that check them on small instances, and TLAPS proofs of
what holds for every instance. The reference is the C++ under `src/src`; each
definition is mapped to its lines in `PROJECT.json`.

    tlc -workers 2 -config MCTaskRuntime.cfg MCTaskRuntime.tla     # one run
    tlapm TaskRuntimeProofs.tla                                    # one proof module

## The system

A CLI process runs one *turn* of a *session* at a time. A turn is a *task*: a loop of
context preparation, model call and tool calls, driven by `RuntimeEngine` and recorded
as events in a log of its own. The session has a second log (which turns were started,
committed, failed or compacted), and long-term memories have a third, which background
workers also write. State is always the replay of a log; nothing spans two logs.

| Component | State | Operations | Talks to |
|---|---|---|---|
| State reducer (`application/state_reducer.cpp`) | `TaskState`: status, budgets used, pending calls with two cursors (started, finished) and the active call, transcript | one acceptance rule and one effect per event kind | called by the engine before each append, and by replay |
| Runtime engine (`application/runtime_engine.cpp`) | the `TaskState` of the running process, the open dispatch window | run, resume, one handler per status | event store, model, tools, hooks, permission, knowledge provider, clock, cancellation |
| Task event store (`jsonl_event_store.cpp`) | one JSONL file per task, per-process flush count and commit index | append, flush_pending, read_task | the file system; no lock between processes |
| Session reducer and engine (`session_reducer.cpp`, `session_engine.cpp`) | `SessionState`: sequence, pending turn, committed turns, compaction point | create, submit_turn, recover_pending_turn, compaction | session store, runtime engine, event store |
| Session store (`jsonl_session_store.cpp`) | one JSONL file per session | append under a lock with revalidation, read, list | the file system |
| Memory scheduler (`memory_maintenance_scheduler.cpp`) | queue, one record per session (cached checkpoint, pending request, cancel flag), worker threads | request, forget, preempt, drain, destructor | memory engine, from two threads |
| Memory engine, reducer and store (`memory_engine.cpp`, `memory_reducer.cpp`, `jsonl_memory_store.cpp`) | active entries, one checkpoint per session | remember, forget, read transcript, build batches, extract, commit | memory log, session log, a model |
| RAG provider (`persistent_rag_knowledge_provider.cpp`) | side process (Stopped, Starting, Ready, Broken), request number, evidence cache, lease on the knowledge pack | ensure_ready, retrieve, break, close | a Python process over JSON lines, with a reader thread; the pack's files |
| Tool gateways and workspace (`workspace_tool_gateway.cpp`, `workspace_file_ops.cpp`, `cmake_tool_gateway.cpp`) | none between calls; the files of the workspace | list, read, search, write, replace; configure, build, test | the engine; other programs on the same files; the process runner |
| Process runners (`direct_process_runner.cpp`, `reproc_jsonl_process.cpp`) | a job with its pipes and threads; a process with two queues and a reader | run; start, exchange, stop | build tools; RAG provider |
| Anthropic client (`anthropic_messages_client.cpp`, `sse_decoder.cpp`, `anthropic_stream_assembler.cpp`, `retry_with_backoff.h`) | decoder and assembler of the answer being read, attempt number | make_request, one call with its retries | HTTP; the observer of the stream |
| Interactive CLI and display (`interactive_cli.cpp`, `terminal_presenter.cpp`) | the session on screen, a bounded channel between the turn's thread and the display, what is on the screen | commands, Ctrl+C, recovery at start and on `/resume` | all of the above |
| Configuration (`runtime_config.cpp`, `setting_source.cpp`) | none | layers, load, discovery of .env files and of the pack | `main.cpp`, before anything is constructed |

`PROJECT.json` lists every component with its status, the Python side process and the
tooling included.

**What is hard here.** A process may die between any two appends, and whatever it was
doing is finished by another one that has the log only. An append may be reported as
failed with its line in the file. Tools have effects outside the log, so starts are
logged before they run and a window of several reads is started before any is finished.
Two CLIs can be open on the same session; the session log is locked, the task log is
not, and every decision is made on a state read earlier. Cancellation and the deadline
strike between any two guards. Memory workers overlap with each other, with `/forget`
and with the exit of the process. A side process answers late, twice or never. Another
program rewrites files between a check and the use of what was checked. A build leaves
descendants that hold its pipes. A turn's thread, the display and Ctrl+C meet at a
bounded channel, and a failed attempt has already shown part of its answer when the
next one begins. `PROJECT.json` lists these hazards line by line.

**What makes each part correct.** The engine: a write-ahead journal of tool effects,
budgets that hold over all recoveries, nothing executed that was refused, a durable
terminal that is final, and a terminal for every turn. The session: no process acts on
a history that is not the log's, no answer lost, doubled or settled otherwise than its
task ended. The event store: what is acknowledged, committed and flushed, and what a
kill or a power loss may take. Memory: no turn skipped, no entry doubled by a retry, no
request dropped, forgotten things stay forgotten. Knowledge: evidence belongs to the
question and to the revision in use, and the side process runs from verified files.
Tools: nothing is overwritten that the caller did not name, answers say what happened
and what they leave out, nothing outlives a run. The turn: whatever happens it ends,
the screen ends with the committed answer, and a Ctrl+C is heard. The start: the
strongest layer decides and an accepted configuration is one the engine can rely on.

## Modules

| Module | Models | Its shape |
|---|---|---|
| `StateReducer` | `TaskState` and `reduce_event` | a record and, per event kind, `CanX` (accepted) and `X` (effect). A message is its kind, a tool call its position and shape |
| `TaskRuntime` | `RuntimeEngine` over a durable log | `durable` is the replay of the events in the log, `log` whether the file can be read (whole lines, a last line without its newline, or broken: empty, torn, or one line run into another), `task` the state in memory, `pc` the point of the engine where another actor can step in: an append or an outstanding call. Crash, failed append (nothing, a part of the line, all but its newline or the line is in the file), cancellation, deadline, `Submit`, `Recover` |
| `ToolJournal` | abstract: a write-ahead journal of calls | `TaskRuntime` implements it (`JournalSpec`), reading calls, starts and finishes off the durable state |
| `SessionReducer` | `SessionState` and its reducer | as `StateReducer` |
| `SessionTurns` | `SessionEngine` and the session store, several processes | `session` is the replay of the session log, `torn` its incomplete last line, `view` what each process last read, `log` the task logs: number of events, terminals written, and the file (absent, empty, whole, without its last newline, torn, or not a history). Inside a task only event count and end are kept; `TaskRuntime` has the rest |
| `EventLog` | one task log file | complete lines, what follows the last newline, what the last fsync covered; append split into open, write, count, flush; kill, power loss, torn write, failing fsync |
| `MemoryMaintenance` | scheduler, worker runs and the memory engine's steps | `copies` and `checkpoint` are the memory log, `sched` the scheduler's records, one `pc` per worker at each point where the CLI or another worker can step in |
| `RetrievalPolicy` | `decide_retrieval` | which question needs evidence, a text being the set of marks found in it |
| `RagProtocol` | the frames of the side process, `evidence_validation.cpp` | what is decoded and accepted, field by field |
| `JsonlProcess` | `ReprocJsonlProcess` | pipes, two queues, a reader thread and a calling thread; the child does what it likes |
| `PackVerifier` | `NativeRagPackVerifier` and its lease | lock and hash file by file, beside a program that rewrites them |
| `RagProvider` | `PersistentRagKnowledgeProvider` over the four above | `pc` is where the calling thread is when the reader, the side process or a rewriter can act |
| `WorkspaceText`, `WorkspacePaths` | UTF-8, lines, pages and fragments; the path policy | operators over bytes and over a tree of nodes |
| `WorkspaceFiles` | `replace_text` and `write_file` | one action per look at the file system, beside another program and a kill |
| `WorkspaceScan` | `list_files`, `read_file`, `search_text` and their budgets | functions of a tree that stands still |
| `DirectProcess` | `DirectProcessRunner::run` (Windows) | job, pipe, collecting and feeding threads, timeout; the command forks, writes and exits at will |
| `ToolGateways` | the composite gateway over `WorkspaceFiles` and the build tools over `DirectProcess` | one call at a time; `Next` interleaves the engine's side with the other program and the job |
| `BuildOutput` | what a build tool shows of a long output | a text is what its characters take up in JSON |
| `ModelRequest` | `make_request` | messages, evidence between its marks |
| `ModelStream` | event decoder, stream assembler, decoder of a whole answer | functions of tokens and events |
| `ModelCall` | one `complete` with transport and retries | `call` is the attempt and how far its reply was read, `outbox` what the observer was told and has not passed on |
| `TerminalText` | how text is escaped for the terminal, whole and piece by piece | functions of bytes |
| `TurnDisplay` | channel, display loop and presenter | events are merged, cut, taken in batches and shown; the screen is the text since the last mark and the last line |
| `InteractiveCli` | the CLI over `ModelCall` and `TurnDisplay` | `cli.pc` is the command loop, `worker` the turn's thread, `flag` and `handler` those of Ctrl+C |
| `Configuration` | settings layers, `load_runtime_config`, discovery | functions of environment, files and a tree |
| `Algorithms` | the stateless parts: `WorkspaceScan`, `BuildOutput`, `ModelRequest`, the event decoder of `ModelStream`, `Configuration` | a question and the code's answer to it, one action per kind of question |
| `MC...` | instances | constants for TLC |
| `...Proofs` | theorems and lemmas | `TaskRuntimeProofs` (lemmas on the reducer, types, budgets; transcript, executions, the refinement of `ToolJournal`), `SessionTurnsProofs`, `EventLogProofs`, `RagProviderProofs`, `ToolGatewaysProofs`, `MemoryMaintenanceProofs`, `InteractiveCliProofs`, `AlgorithmsProofs` |

`TaskRuntime` extends `StateReducer` and `SessionTurns` extends `SessionReducer`, so
that what the engine appends is what the reducer accepts. `SessionTurns` sees a task as
`TaskRuntime` leaves it: a growing log with a terminal. `EventLog` is the file both
stand on: that a killed process leaves a log with a line as it was (`KillKeepsLog`) is what
`TaskRuntime` assumes of a crash after the first event; a crash before it may leave an
empty file in both. Power loss is in `EventLog` only. A tool call of
`TaskRuntime`, which returns a result, an error or nothing, is `ToolGateways` in
detail; a retrieval is `RagProvider`; a model call is `ModelCall`. `InteractiveCli` has
the turn as the CLI sees it (rounds of the model, tools, an end, a commit) and takes
what `SessionTurns` shows of the logs as given.

Definitions marked *Mutant* are the code with a plausible bug, at least one for each property of
each passing run; replacing the definition after it by the mutant makes TLC report
the property.

## Runs

| Run | Instance | Shows |
|---|---|---|
| `task_runtime` | 5 tool shapes (read, permitted mutation, mutation that needs asking, one that is also dangerous, read a hook denies), answers of 2-3 calls, 2 rounds, 4 calls, 3 in parallel, 2 crashes, 1 failed append | journal (refinement of `ToolJournal`, which includes that every effect is started in the log first and that a terminal is final), budgets, refusals, transcript, the absence of faults outside wide windows, and `TaskDecided`: a submitted turn gets a readable terminal unless its log is lost (113,431 states) |
| `task_faults` | one round of two reads | expected violation, see Findings |
| `session_turns` | 2 processes, 3 turns, 1 retained turn, 1 crash, 1 fault | `ViewsAreHistory`, `ContextKept`, `AnswersKept`, `OutcomesFollowTasks` |
| `session_liveness` | 2 processes, 2 turns, tasks of 2 events, 1 crash, 2 faults | `TurnsSettle` (318,738 states) |
| `session_marker` | 1 process, 1 turn, no fault | expected violation |
| `event_log` | threshold 2, 6 lines, 3 processes, 1 power loss, 1 torn write, 1 failing fsync | `CommittedIsDurable`, `KillKeepsLog`, `EventsStay` |
| `memory_maintenance` | 1 session, 2 turns, 2 workers (the default of the code), 1 content, 2 user edits, 1 fault, any log left by earlier processes | `NothingSkipped`, `NoTwins`, `PendingIsCovered`, `ForgetReachesWorkers` |
| `rag_provider` | 2 retrievals of 4 texts (with a citation, with vocabulary, ordinary, opting out), 2 revisions of the index, answers of either revision, 1 line unasked for, 1 rewritten file, two executables | `EvidenceIsCurrent`, `NoStrayProcess`, `ServesVerifiedPack`, `EveryCallReturns` |
| `tools` | 2 calls out of 5 of the file tools and 2 of the build tools, both hosts, 1 edit by another program, 1 kill; a command with 2 processes that writes 3 bytes, into a budget of 2 | `OnlyLateChangesAreLost`, `AnswersAreTrue`, `NoTemporaryLeft`, `NothingOutlivesTheRun`, `OutputIsWhole`, `EveryToolCallReturns` |
| `turn_stream` | 1 command with its turns, 2 rounds, 2 attempts, 4 replies (streamed, cut short, a tool, one document), a channel of 2 events, pieces of 1 byte, 1 of Ctrl+C, failing terminal, session that cannot be loaded, turn not begun or failing commit (its line in the file or not); with and without a pending turn at the start; output that is no terminal (678,873 states) | `NothingIsLost`, `AnswerIsShown`, `CancelIsHeard`, `LeftIsCaughtUp`, `EveryTurnEnds` |
| `algorithms` | 5 workspaces, every path, query and budget of a small set; all files of up to 3 lines; searches of lines with characters of 1 and of 4 bytes, for a text longer than what is shown of a line too; outputs of up to 4 characters; requests with evidence made of parts of its own marks; streams of two or three lines with every line end, cut anywhere; starts over combinations of 4 layers, .env files and 10 arrangements of pointers | `ToolAnswersAreWhole`, `ModelTalkIsFramed`, `StrongestLayerDecides`, `AcceptedStartIsSound` |
| `settings_documented` | one start, with an empty prompt and a permission mode in the project's file | expected violation of `FirstValueDecides`, see Findings |

**Why the bounds are enough to be interesting.** A window of three with four calls left
for a task of two rounds meets every clamp of the window size, full, partial and
exhausted; two crashes let a recovery crash itself, and one failed append on top gives
a log that is ahead of what the process believed. Three turns with one retained make
compaction happen twice and leave a turn on either side; two processes are enough for
every race of a shared file here, since each append is checked against the last state.
Six lines with threshold two cross the threshold three times, in up to three processes.
Two turns split into one or two batches. The memory run starts from every combination
of turns, checkpoint and entry a killed process can leave, so that one process after
it stands for any number of crashes. Two retrievals are what a stale answer, a stale
cache slot and a restart in between need. Two tool calls let the second meet what the
first left behind. With a channel of two events a turn of one word fills it, and with
pieces of one byte every event of the answer is cut and merged; two attempts and two
rounds give a preview of each kind that must not be taken for the answer. The limits of
`Algorithms` are small enough that each of them cuts something in some question and
leaves it whole in another. Every bound is a constant named in its module and guards
one action; faults bounded by a counter may strike at any point. A kill falls between two
system calls: one event is one line and one `write`, so that a kill leaves it out or
whole, and what a `write` does in part is a failed append, which the process lives to see.
The display's end line is checked for an output that is no terminal (`Dynamic`), where a
turn without a preview gets none; the theorem has both.

`CHECK_DEADLOCK FALSE`: every system may come to rest (task terminal, nothing pending,
bounds used up).

**Symmetry** is used where processes or workers are interchangeable and only safety is
checked (`session_turns`, `memory_maintenance`).

**Fairness.** Weak fairness of the engine's steps: the thread runs, and model, tool and
retrieval calls all carry deadlines, so an outstanding call returns. Weak fairness of
recovery: the CLI recovers a pending turn by itself when it opens or resumes a session
(`cli/interactive_cli.cpp:449` and `:611`), so this says that somebody opens the session
again. Crashes, faults, cancellation and submissions are never fair. No fairness is
assumed of the memory workers; `PendingIsCovered` states as an invariant what keeps a
request from being lost. Of the RAG provider: the calling thread runs, its waits have
deadlines, the reader's poll returns after 50 ms; nothing of the side process. Of the
tools: the calling thread and the collecting and feeding threads run, a wait with a
limit ends; nothing of the command, which may write and live for ever. Of a turn: its
threads run, a transfer is bounded by its timeout and a sleep ends; the user and Ctrl+C
owe nothing. The display's fairness is stated on the variable `display` alone: it takes
a batch, shows it, notices a failure or joins, and a spinner frame is none of these.

## Findings

Where the code disagrees with a comment, a document or itself; each is a run that
expects a violation.

- `task_faults`: the completion loop of a window re-reads the cursor that each
  completion moved (`runtime_engine.cpp:1136`). Two parallel reads end `run()` with an
  exception. `FaultsOnlyInWideWindows` shows that this is the only place where the engine
  faults, and `TaskDecided` that recovery still brings such a task to its end.
- `session_marker`: an answer with a compaction marker completes its task but is not a
  valid conversation, so its turn can never be committed and the session stays pending.
- `settings_documented`: an empty value of a stronger layer decides
  (`setting_source.cpp:40`, on purpose, as `:31` says); `setting_source.h:49` says "the
  first non-empty value".
- `settings_documented`: the permission mode is read from the environment alone
  (`main.cpp:327`), although `main.cpp:320` says it can be given "via .agentrc.json". The
  report of settings names the layer that would have decided.

What the models show, too, and no text of the repository contradicts in so many words:

- Dry run is not durable: an interrupted plan is recovered with tools.
- The recovery of a single call asks the permission first and scans for dangerous
  patterns second, the window the other way round.
- A kill between the creation of a task's log and its first line leaves an empty file
  that no later read accepts (`jsonl_event_store.cpp:451`, `:691`): the turn stays pending
  for ever. A short write (`:470`) leaves such a log too, and so does one in the session's
  log (`jsonl_session_store.cpp:610`, `:714`), after which the session can be neither read
  nor written. `EventLog`, `TaskRuntime` and `SessionTurns` model them. No property
  forbids what the code does here; `TaskDecided` and `TurnsSettle` name it as their
  exception (`LogLost`, `TaskLogLost`, `torn`), so that they tell how narrow it is: a kill
  after the first event of a task never costs it its end. `KillKeepsLog` speaks of logs with a
  line. One unreadable session also makes `list_sessions` fail (`:864`), and with it the
  start of the CLI, which is not modelled.
- Before the first turn of a process `/forget` does not reach the scheduler, because
  `current_session_id` is empty, and a catch-up run may bring a deleted memory back.
- A successful `/plan` does not take over the session it returned: `/session` and the
  next request of maintenance see the count of turns before it. The same holds after a
  last event that is in the file although its append was reported failed: the result has
  the session before the turn. `LeftIsCaughtUp` leaves out these sessions, as long as
  nothing has renewed the program's copy (`behind`).
- A write whose answer would exceed 64 KiB is reported as `limit_exceeded` although the
  file was written (`AnswersAreTrue` leaves it out).
- A file changed between the second look at its hash and the move is lost
  (`OnlyLateChangesAreLost` says that this is the only way).
- A cancelled model call sleeps out its delay and sends one more request
  (`CancelIsHeard` bounds it by one).
- `AGENT_MAX_PARALLEL_TOOLS` and `AGENT_PERMISSION_RULES` are known settings that nothing
  reads. An integer of JSON that only fits 64 bits without a sign is read as negative
  (`setting_source.cpp:95`) and so refused. An unreadable
  policy file is skipped like any other. `--show-effective-config` reports before any
  .env file is read, and fails when a key is also the beginning of a dotted key.
- The POSIX half of `direct_process_runner.cpp` declares `argument_storage` twice
  (lines 727 and 742) and does not compile; the model has the Windows half.

## Proofs

Each theorem holds for every value of the constants under the named assumptions of the
modules: that bounds are naturals and sets are what their comments say
(`EngineParameters`, `BudgetsPositive`, `SessionParameters`, `TasksAreNumbers`,
`LogParameters`, `MaintenanceParameters`, `ProviderParameters`, `VerifierParameters`,
`FilesParameters`, `ProcessParameters`, `CliParameters`, `DisplayLimits`, `DynamicIsKnown`,
`AttemptBound`, `ContentBounds`, `Widths`, `StreamLimits`, `Marks`), and some about what
comes from outside: what the side process answers under a request's id it found for that
request's text (`AnswersNameTheirRequest`), a tree maps paths to nodes
(`TreesHoldNodes`), a reply is a sequence of chunks of stream events or a document made
of blocks (`RepliesAreStreams`), and a question of `Algorithms` has the form its code is
called with (`RequestsAreMessages`, `WiresAreBytes`, `TextsAreBytes`, `FilesAreLines`,
`OutputsAreTexts`, `CallsNameTools`, `ScanLimits`), with a tree that stands still during a
call and directories that give each child once (`TreesAreListed`). The part of a line
that is shown has room for a character, 4 bytes (`FragmentParameter`; the code has room
for 1024). TLC evaluates each of them in a passing run. None of the invariants below is inductive alone; what is added to make it
so, and why it is needed, is the argument. Every step of a system is a lemma, and a
property follows from the invariant. The added parts were checked by TLC on the runs'
instances before they were proved.

*Task, state* (`TaskRuntimeProofs`). One lemma per event says that what the reducer
accepts leads from a task state to a task state; `TypeCorrect` follows. `IInv` adds
`CallsOK`, which ties the two cursors and the active call of the log together, and
`PointOK`, which says for each control point what window and cursors look like and that
`task = durable` while a process is up. (An append that is reported as failed with its
line in the file ends the process, so the two differ only when it is down.) From it
`BudgetSafety` and `MutationSafety`: that a window starts no more than the budget
allows, or that a mutation is alone in it, depends on where the engine is.

*Task, record* (`TaskRuntimeProofs`). `LogInv` adds `RecordOK`, what the transcript is
in each status of the log, and `PointMore`, what the engine knows where it appends
without asking again. Every step then either leaves the log or appends an event that is
accepted in the state it replays to (`LogGrowsByAcceptedEvents`), except past the first
completion of a wide window, which is `FaultsConfined`; `TranscriptSafety` follows.
`RunInv` counts executions: what has run is started in the log and refused by nobody
(`RefusedNeverRun`), and a mutation that is neither finished nor running has used up at
most one execution per crash and failed append (`RepeatsAreFaults`). With it every step
is a step of the journal or leaves it (`ImplementsJournal`).

*Session* (`SessionTurnsProofs`). `SInv` is `TypeOK`, `Held` (what the view of a process
contains at each point), `Open` (a task that has not ended has room for its end) and
`ViewsAreHistory`: an append succeeds only from a view equal to the log and increases
the sequence, so that an older view stays strictly behind. `HistoryInv` adds that
endings are in the files, that task ids are handed out once, that whoever knows the
pending turn knows the whole state, and that the session's turns are the committed ones
after the compacted prefix. A step is first shown to start, settle or compact a turn or
to leave the history, and the parts are kept for each of these four:
`ContextSafety`, `OutcomeSafety`, `AnswerSafety`.

*Event log* (`EventLogProofs`). `IInv` is `TypeOK`, `Counted` (a process counts only
lines that are in the file, so that an fsync covers them), `Threshold`, `Room` and
`Clean` (without power loss and torn writes the file is `1, ..., n`).

*Memory* (`MemoryMaintenanceProofs`). `MemoryInv` adds that a run goes on from a turn
up to which every one was handled (`CheckpointSafety`), that until two runs have
overlapped there is one at a time, which put back nothing it had found
(`TwinSafety`), and that a run told of a forget in time is cancelled (`ForgetSafety`, an
action property). `PendingIsCovered` is inductive with the types (`PendingSafety`).

*Knowledge* (`RagProviderProofs`). `RagInv` says which side process and which locked
files there can be at each point of the calling thread (`ProcessSafety`, `PackSafety`),
and that whatever is in either pipe, in the reader or in hand has no id of a request
that was not made and, with the id of the request in progress, is about its text
(`EvidenceSafety`, with what a cached pack was made for).

*Tools* (`ToolGatewaysProofs`). For the files: the temporary file is this call's from
its creation to the move, nobody else may name it, and at the move the target is what
the caller saw or has changed since the second look. For a command: nothing is alive
but in a run that waits or kills, and what the job wrote is what the collector was given
followed by what is in the pipe. The theorem on the output needs that the cut text is
the beginning of the normalized one, which is a fact about the sum of the sizes of its
parts.

*Turn* (`InteractiveCliProofs`). `LeftInv`: the program's copy of a session is as new as
the log unless a finished plan or an append wrongly reported failed left it behind, and so
is the session in the result of a turn (`LeftSafety`). `HeardInv`: the flag stays raised
until the turn is over, and the way to another request leads past it (`CancelSafety`).
`LostInv`: what is owed to the display is what is in its batch followed by what is in
the channel, which merging, cutting and batching keep (`DisplaySafety`). It rests on
lemmas about the assembler (whatever the chunks, what it notifies is an event of the
display) and about the pieces of a text, whose bytes are the text. `AnswerInv`: until
the turn is over, the text under the last mark is the preview the presenter remembers,
or nothing; and what a call hands over is made of blocks, so that the worker's answer is
a text (`ScreenSafety`). What is shown at the end then does not depend on how the text
was cut: the presenter goes on from the preview only when it is the beginning of the
whole answer as it is rendered, and starts anew under a mark of its own otherwise; the end line
is written if there was a preview or the output is a terminal. The
lemmas below it give the types of the rendering, whole and piece by piece, whose
recursive functions go from a place to a later one.

*Algorithms* (`AlgorithmsProofs`). A lemma says that an answer is the code's answer to
what was asked, which holds by the shape of the module; the work is about the functions.

- Start: the configuration depends on its layers through `resolve` alone, so a layer
  below the strongest one that holds a key can be left out, while the permission mode is
  the environment's (`StrongestDecides`).
  `StartIsSound` follows each check of `load_runtime_config`; that the pack is the one of
  the nearest pointer is a minimum over the places of pointers. The attempt to prove an
  earlier form of it failed for a good reason: the property looked for the pack's name in
  the layers of the environment and the files and forgot the .env file, which may name
  one too. `StartLayers` now has it, and the run has hosts with such a file.
- Request: in the encoded evidence no character is left that a mark begins with, so that
  a mark can only stand where `make_request` put it (`EvidenceIsQuoted`).
- Events: after n bytes the decoder has dispatched the events of the lines ended so far
  and keeps the unfinished one, or has stopped at a limit; the two chunks are one
  sequence of bytes to it (`EventsComeWhole`).
- Lists: in each round of the traversal every path is in a directory that was read, still
  to be read, or both seen and an entry; the stack gets shorter or a directory is read
  that no earlier round read, so as many rounds as the tree has paths are enough. That
  every visible path is reached is an induction on its length (`FilesAreListed`).
- Pages: each page goes on where the one before it ended. The function that reads them
  calls itself on a later line, so the induction goes from the last line back
  (`FilesAreReadWhole`).
- Search: a byte of a text begins a character unless it is a continuation byte, so that a
  well-formed query is found at the beginnings of characters only, and what `line_fragment`
  cuts, from either end, is whole characters. The lines of a text are a recursion from its
  end; the scan is an invariant over the files read so far (`FilesAreSearched`). That a
  shown match is a part of the line needs the bound to hold a whole character: with 3, TLC
  finds two characters of 4 bytes of which nothing can be shown.
- Output: what is retained of a text is a first and a last part of it, the number of
  characters kept falls until the text fits, and the two budgets exhaust the room
  (`OutputIsShownAsWritten`). The four parts together are `ToolsTellAll`.

*Induction over data.* The induction theorems of the library cannot be instantiated, but
every set of naturals with an element has a least one, which is provable in first-order
terms (`LeastElement`, `SetInduction`). The set of lengths or bounds at which a claim
holds then takes the place of the predicate. In this way the modules prove that the
recursive functions behind a filtered queue, `FlattenSeq` and the sums of sizes exist,
and what they return; for the rendering, whose functions call themselves further on, the
induction is over the bytes that are left. An operator that takes an operator, as
`SelectSeq` does, is out of reach of this too, which is why the queue is filtered by a
function of its own.

*Only model-checked.* The liveness properties (`TaskDecided`, `TurnsSettle`,
`EveryCallReturns`, `EveryToolCallReturns`, `EveryTurnEnds`): the prover has neither
ENABLED nor fairness.

## Plan

Done, in this order: `StateReducer`, `TaskRuntime`, `ToolJournal`; `SessionReducer`,
`SessionTurns`; `EventLog`; `MemoryMaintenance`; types and first safety of each but the
last; `RagProvider` with its parts; `ToolGateways` with its parts; `InteractiveCli` with
its parts; `Algorithms` with its parts.

Proved: every safety and every action property of the runs, and the refinement of
`ToolJournal`.

## Not modelled

- Text: what messages, patterns and policies contain, the JSON of logs and answers,
  cost and latency figures. Verdicts are nondeterministic or given by constants. Where
  a property is about text (UTF-8, lines, what the terminal shows, the quotation of
  evidence, settings) it is modelled as bytes or tokens.
- Time, except as "the deadline has passed"; the waits of drain and retry.
- A listing or a search over a tree that changes meanwhile; SHA-256 (a content is its
  own hash); the unified diff of an answer.
- Windows halves of the stores, the POSIX half of the runner, path hardening of the
  stores, sandboxing.
- The SDK composition (`composition/engine.cpp`), whose parts refer to temporaries of
  `build_engine`, and with it MCP. `main.cpp` uses neither.
- `preempt`, the streaming tool scheduler and the chain of compaction stages, which only
  tests call; the synchronous `MemoryEngine::consolidate` and the Markdown memory store,
  which no composition uses.
- The memory log's own file protocol, which is that of the session store; the codecs of
  events; the RAG side process, which may write anything.
- Commands that only show something (`/status`, `/memories`, `/tasks`, `/permissions`,
  `/help` and the stubs of the registry), the one-shot commands of `cli_app.cpp`, the
  picker, spinner, cursor and colours.
- A failing listing at the start or in `/tasks`; in `InteractiveCli` listings succeed, a
  session cannot be loaded at the beginning of a turn only, and the recovery of a turn
  whose task has already ended may make rounds of the model (the code makes none, so the
  module allows more than the code does).
- Two processes inside one task at the grain of `TaskRuntime`: `SessionTurns` has them at
  the grain of the log.

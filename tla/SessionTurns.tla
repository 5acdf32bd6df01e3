------------------------------ MODULE SessionTurns ------------------------------
(* SessionEngine (src/src/application/session_engine.cpp) over the session store   *)
(* and the task logs, with several CLI processes on the same session.              *)
(*                                                                                 *)
(* A turn is three writes to two files: TurnStarted in the session log, the events *)
(* of the task in a log of its own, and TurnCommitted or TurnFailed in the session *)
(* log.  Nothing spans them but the pending turn; a process may die or lose an     *)
(* append anywhere, and the process that finds the turn pending finishes it.  The  *)
(* session log is locked and revalidated for each append; a task log is not.       *)
(*                                                                                 *)
(* What the engine does inside a task is TaskRuntime's; here a task is the number  *)
(* of its events and how it ends.                                                  *)
EXTENDS SessionReducer, FiniteSets

CONSTANTS
  Procs,         \* CLI processes open on the session
  RetainTurns,   \* SessionContextSettings::retain_turns
  MaxEvents,     \* bound: events of a task, TaskStarted and the terminal included
  MaxTurns,      \* bound: turns submitted
  MaxCrashes,    \* bound: process crashes
  MaxFaults      \* bound: failed appends, busy logs, refused contexts

ASSUME SessionParameters ==
  /\ Tasks = 1..MaxTurns
  /\ RetainTurns \in Nat \ {0}
  /\ MaxEvents \in Nat \ {0, 1}
  /\ MaxTurns \in Nat /\ MaxCrashes \in Nat /\ MaxFaults \in Nat

VARIABLES
  session,   \* the state the whole lines of the session log replay to
  torn,      \* its last line is incomplete: the log can be neither read nor written
  log,       \* the task logs
  pc,        \* where each process is
  view,      \* the SessionState in the memory of each process
  known,     \* events of the task in the memory of each process
  ended,     \* how the task ended in the memory of each process
  issued,    \* task ids handed out
  crashes,   \* number of crashes so far
  faults,    \* number of faults so far
  record     \* history: the settled turns, as [task, how]

vars == <<session, torn, log, pc, view, known, ended, issued, crashes, faults,
          record>>

Points == {"idle", "compact", "start", "inspect", "run", "finish"}

(* completed: the answer can be committed; unsound: the task is Completed but its  *)
(* answer carries a CompactRequestBlock, which no valid conversation contains;     *)
(* failed: Failed, BudgetExceeded or Cancelled.                                    *)
Endings == {"completed", "unsound", "failed"}

(* sound: no file yet, or whole lines that replay.  bare: they do, but the last     *)
(* one has no newline.  empty: created, nothing written.  torn: a line is not one   *)
(* event, a part of one or two in one.  clash: the lines are not a history.  Only   *)
(* the first two can be read.                                                       *)
TaskFiles == {"sound", "bare", "empty", "torn", "clash"}

TaskLog ==
  [events  : 0..MaxEvents,                \* lines of the replayable prefix
   file    : TaskFiles,
   ending  : Endings \cup {"none"},       \* the terminal replay finds
   ends    : SUBSET Endings,              \* the terminals ever written
   context : Seq(Turn),                   \* TaskStarted's initial_messages
   writers : SUBSET Procs]                \* history: who appended

NoLog ==
  [events |-> 0, file |-> "sound", ending |-> "none", ends |-> {},
   context |-> <<>>, writers |-> {}]

TypeOK ==
  /\ session \in SessionState /\ torn \in BOOLEAN
  /\ log \in [Tasks -> TaskLog]
  /\ pc \in [Procs -> Points]
  /\ view \in [Procs -> SessionState]
  /\ known \in [Procs -> 0..MaxEvents]
  /\ ended \in [Procs -> Endings \cup {"none"}]
  /\ issued \in 0..MaxTurns
  /\ crashes \in 0..MaxCrashes
  /\ faults \in 0..MaxFaults
  /\ record \in Seq([task : Tasks, how : {"committed", "failed"}])

(* create_session has written SessionStarted; no process is in the session yet. *)
Init ==
  /\ session = Created /\ torn = FALSE
  /\ log = [t \in Tasks |-> NoLog]
  /\ pc = [p \in Procs |-> "idle"]
  /\ view = [p \in Procs |-> Created]
  /\ known = [p \in Procs |-> 0]
  /\ ended = [p \in Procs |-> "none"]
  /\ issued = 0 /\ crashes = 0 /\ faults = 0
  /\ record = <<>>
--------------------------------------------------------------------------------
(* submit_turn or recover_pending_turn returns; its session state is dropped. *)
Return(p) ==
  /\ pc' = [pc EXCEPT ![p] = "idle"]
  /\ view' = [view EXCEPT ![p] = Created]
  /\ known' = [known EXCEPT ![p] = 0]
  /\ ended' = [ended EXCEPT ![p] = "none"]

Goto(p, point) ==
  /\ pc' = [pc EXCEPT ![p] = point]
  /\ UNCHANGED <<view, known, ended>>

(* load_session: read under a shared lock and replayed.  A load that fails (the    *)
(* log is busy, or torn) returns an error and changes nothing.                     *)
Load(p, point) ==
  /\ ~torn
  /\ view' = [view EXCEPT ![p] = session]
  /\ pc' = [pc EXCEPT ![p] = point]
  /\ UNCHANGED <<known, ended>>

(* Mutant: the store trusts the caller's validation. *)
StoreAcceptsAll(e) == e.kind # "none"

(* JsonlSessionStore::append: under an exclusive lock the whole log is read,       *)
(* replayed and the event validated against it.                                    *)
StoreAccepts(e) == ~torn /\ Reducible(session, e)

Settled(e) ==
  CASE e.kind = "TurnCommitted" ->
         Append(record, [task |-> e.turn.task, how |-> "committed"])
    [] e.kind = "TurnFailed" ->
         Append(record, [task |-> e.turn.task, how |-> "failed"])
    [] OTHER -> record

(* SessionEngine::append_event: the reducer on the caller's state first, then the  *)
(* store.  A fault is a busy lock or a write that fails at once, which leave the   *)
(* log alone, a short write, which tears it (a line without its newline is torn    *)
(* too), or a failed fsync, reported although the line is in the file.             *)
AppendOk(p, e) ==
  /\ Reducible(view[p], e) /\ StoreAccepts(e)
  /\ session' = Reduced(session, e)
  /\ record' = Settled(e)
  /\ UNCHANGED <<torn, faults>>

AppendRefused(p, e) ==
  \/ /\ ~(Reducible(view[p], e) /\ StoreAccepts(e))
     /\ UNCHANGED <<session, torn, record, faults>>
  \/ /\ Reducible(view[p], e)
     /\ faults < MaxFaults /\ faults' = faults + 1
     /\ \/ UNCHANGED <<session, torn, record>>
        \/ StoreAccepts(e) /\ torn' = TRUE /\ UNCHANGED <<session, record>>
        \/ /\ StoreAccepts(e)
           /\ session' = Reduced(session, e)
           /\ record' = Settled(e)
           /\ UNCHANGED torn
--------------------------------------------------------------------------------
(* submit_turn up to the compaction decision.  A pending turn is an error.         *)
Submit(p) ==
  /\ pc[p] = "idle"
  /\ session.pending = NoTurn
  /\ issued < MaxTurns
  /\ \/ Load(p, "start")
     \/ Len(session.turns) > RetainTurns /\ Load(p, "compact")
  /\ UNCHANGED <<session, torn, log, issued, crashes, faults, record>>

(* The turns a compaction covers: all but the last RetainTurns. *)
Coverage(s) == s.turns[Len(s.turns) - RetainTurns].index

(* Mutant: the compacted state is used although its append was refused. *)
CompactRegardless(p) ==
  /\ pc[p] = "compact"
  /\ LET e == SessionCompacted(view[p], Coverage(view[p]))
     IN  /\ AppendOk(p, e) \/ AppendRefused(p, e)
         /\ view' = [view EXCEPT ![p] = Reduced(view[p], e)]
  /\ pc' = [pc EXCEPT ![p] = "start"]
  /\ UNCHANGED <<log, known, ended, issued, crashes>>

(* The compaction of submit_turn.  If the compactor or the append fails, the turn  *)
(* goes on with the exact history the process has.                                 *)
Compact(p) ==
  /\ pc[p] = "compact"
  /\ LET e == SessionCompacted(view[p], Coverage(view[p]))
     IN  \/ /\ AppendOk(p, e)
            /\ view' = [view EXCEPT ![p] = Reduced(view[p], e)]
         \/ /\ AppendRefused(p, e)
            /\ UNCHANGED view
  /\ pc' = [pc EXCEPT ![p] = "start"]
  /\ UNCHANGED <<log, known, ended, issued, crashes>>

(* The context is at its hard limit, the memories cannot be retrieved or the task  *)
(* log cannot be read: the operation returns before it writes.                     *)
Refuse(p) ==
  /\ pc[p] \in {"start", "inspect"}
  /\ faults < MaxFaults /\ faults' = faults + 1
  /\ Return(p)
  /\ UNCHANGED <<session, torn, log, issued, crashes, record>>

(* TurnStarted with a fresh task id, then the task is run from the view. *)
Start(p) ==
  /\ pc[p] = "start"
  /\ issued < MaxTurns
  /\ issued' = issued + 1
  /\ LET e == TurnStarted(view[p], issued + 1)
     IN  \/ /\ AppendOk(p, e)
            /\ view' = [view EXCEPT ![p] = Reduced(view[p], e)]
            /\ pc' = [pc EXCEPT ![p] = "run"]
            /\ UNCHANGED <<known, ended>>
         \/ AppendRefused(p, e) /\ Return(p)
  /\ UNCHANGED <<log, crashes>>

(* recover_pending_turn: the CLI calls it when it opens a session, or resumes one, *)
(* whose turn is pending; it does not know whether another process is at work.     *)
Recover(p) ==
  /\ pc[p] = "idle"
  /\ session.pending # NoTurn
  /\ Load(p, "inspect")
  /\ UNCHANGED <<session, torn, log, issued, crashes, faults, record>>

Absent(l) == l.file = "sound" /\ l.events = 0
Readable(l) == l.file \in {"sound", "bare"}

(* Mutant: a finished task is an error on recovery. *)
InspectRefusesTerminal(p) ==
  /\ pc[p] = "inspect"
  /\ LET l == log[view[p].pending.task]
     IN  \/ Absent(l) /\ Goto(p, "run")
         \/ /\ ~Absent(l)
            /\ ~Readable(l) \/ l.context # view[p].turns \/ l.ending # "none"
            /\ Return(p)
         \/ /\ ~Absent(l) /\ Readable(l) /\ l.context = view[p].turns
            /\ l.ending = "none"
            /\ known' = [known EXCEPT ![p] = l.events]
            /\ pc' = [pc EXCEPT ![p] = "run"]
            /\ UNCHANGED <<view, ended>>
  /\ UNCHANGED <<session, torn, log, issued, crashes, faults, record>>

(* load_task, replay_events and validate_recovery_task on the pending task's log:  *)
(* no file runs the task again; one that cannot be read (an empty one is such a    *)
(* file), does not replay or does not extend the session is an error; a terminal   *)
(* log is finished, another one is resumed.                                        *)
Inspect(p) ==
  /\ pc[p] = "inspect"
  /\ LET l == log[view[p].pending.task]
     IN  \/ Absent(l) /\ Goto(p, "run")
         \/ /\ ~Absent(l)
            /\ ~Readable(l) \/ l.context # view[p].turns
            /\ Return(p)
         \/ /\ ~Absent(l) /\ Readable(l) /\ l.context = view[p].turns
            /\ known' = [known EXCEPT ![p] = l.events]
            /\ ended' = [ended EXCEPT ![p] = l.ending]
            /\ pc' = [pc EXCEPT ![p] =
                        IF l.ending = "none" THEN "run" ELSE "finish"]
            /\ UNCHANGED view
  /\ UNCHANGED <<session, torn, log, issued, crashes, faults, record>>
--------------------------------------------------------------------------------
(* JsonlEventStore::append by p, in the course of run() or resume(): the line goes *)
(* to the end of the file whatever the file holds, into the last one if that has   *)
(* no newline.  Its sequence follows the events p knows of; if the file has more,  *)
(* the log no longer replays.  end: sound, or bare when the newline was lost.      *)
Written(l, p, ending, end) ==
  LET fits == l.file \in {"sound", "empty"} /\ l.events = known[p]
  IN  [events  |-> IF fits THEN l.events + 1 ELSE l.events,
       file    |-> IF fits THEN end
                   ELSE IF l.file \in {"bare", "torn"} THEN "torn" ELSE "clash",
       ending  |-> IF fits THEN ending ELSE l.ending,
       ends    |-> l.ends \cup ({ending} \ {"none"}),
       context |-> IF l.events = 0 THEN view[p].turns ELSE l.context,
       writers |-> l.writers \cup {p}]

(* The file is created, or opened, and nothing is written to it. *)
Opened(l) == [l EXCEPT !.file = IF Absent(l) THEN "empty" ELSE @]

(* A part of a line is written. *)
Torn(l) == [l EXCEPT !.file = IF @ = "clash" THEN @ ELSE "torn"]

(* A next event: TaskStarted first, a terminal at the bound at the latest. *)
NextEndings(p) ==
  IF known[p] = 0 THEN {"none"}
  ELSE IF known[p] + 1 = MaxEvents THEN Endings
  ELSE Endings \cup {"none"}

(* The engine appends one more event of the task; a terminal one returns.  The     *)
(* TurnStarted's own index is the session link of the task.                        *)
TaskStep(p) ==
  /\ pc[p] = "run"
  /\ \E ending \in NextEndings(p) :
       /\ log' = [log EXCEPT ![view[p].pending.task] =
                     Written(@, p, ending, "sound")]
       /\ known' = [known EXCEPT ![p] = @ + 1]
       /\ ended' = [ended EXCEPT ![p] = ending]
       /\ pc' = [pc EXCEPT ![p] = IF ending = "none" THEN "run" ELSE "finish"]
  /\ UNCHANGED <<session, torn, view, issued, crashes, faults, record>>

(* The engine's append fails, or the engine throws: nothing is written, a part of   *)
(* the line, all but its newline, or the line.  finalize_turn returns the fatal     *)
(* error, or is not reached.                                                        *)
TaskFault(p) ==
  /\ pc[p] = "run"
  /\ faults < MaxFaults /\ faults' = faults + 1
  /\ \/ UNCHANGED log
     \/ log' = [log EXCEPT ![view[p].pending.task] = Opened(@)]
     \/ log' = [log EXCEPT ![view[p].pending.task] = Torn(@)]
     \/ \E ending \in NextEndings(p), end \in {"sound", "bare"} :
          log' = [log EXCEPT ![view[p].pending.task] = Written(@, p, ending, end)]
  /\ Return(p)
  /\ UNCHANGED <<session, torn, issued, crashes, record>>

(* Mutant: a task that ended without an answer is committed as an empty turn. *)
VerdictAlwaysCommits(p) == TurnCommitted(view[p], ended[p] # "unsound")

(* finalize_turn: a Completed task is committed with the messages it adds, any     *)
(* other terminal is recorded as a failed turn.  Its comparison of the transcript  *)
(* with the session is the one Inspect made, or compares the view with itself.     *)
Verdict(p) ==
  IF ended[p] = "failed"
  THEN TurnFailed(view[p])
  ELSE TurnCommitted(view[p], ended[p] = "completed")

Finish(p) ==
  /\ pc[p] = "finish"
  /\ AppendOk(p, Verdict(p)) \/ AppendRefused(p, Verdict(p))
  /\ Return(p)
  /\ UNCHANGED <<log, issued, crashes>>

(* The process dies, between two system calls; what it wrote stays.  In the task's *)
(* first append that may be after the file was created and before its first byte.  *)
Crash(p) ==
  /\ pc[p] # "idle"
  /\ crashes < MaxCrashes /\ crashes' = crashes + 1
  /\ \/ UNCHANGED log
     \/ /\ pc[p] = "run" /\ known[p] = 0
        /\ log' = [log EXCEPT ![view[p].pending.task] = Opened(@)]
  /\ Return(p)
  /\ UNCHANGED <<session, torn, issued, faults, record>>

Work(p) ==
  \/ Compact(p)
  \/ Start(p)
  \/ Inspect(p)
  \/ TaskStep(p)
  \/ Finish(p)

Next ==
  \E p \in Procs :
    \/ Submit(p) \/ Recover(p)
    \/ Compact(p) \/ Start(p) \/ Inspect(p) \/ TaskStep(p) \/ Finish(p)
    \/ Refuse(p) \/ TaskFault(p) \/ Crash(p)

Spec == Init /\ [][Next]_vars

(* A process that is in an operation is scheduled; somebody reopens a session      *)
(* whose turn is pending.  Nobody has to submit, and nothing has to fail.          *)
FairSpec ==
  /\ Spec
  /\ \A p \in Procs : WF_vars(Work(p))
  /\ WF_vars(\E p \in Procs : Recover(p))
--------------------------------------------------------------------------------
Pending(t) == session.pending # NoTurn /\ session.pending.task = t

(* A process in an operation holds a state of the session's own history: never     *)
(* ahead of the log, and the log's state itself when the sequences agree, however  *)
(* the appends of several processes interleave (append_event's returned state      *)
(* against JsonlSessionStore::append's revalidation).                              *)
ViewsAreHistory ==
  \A p \in Procs :
    pc[p] # "idle" =>
      /\ view[p].seq <= session.seq
      /\ view[p].seq = session.seq => view[p] = session

(* The task of the pending turn was started from exactly the conversation the      *)
(* session still has, so validate_recovery_task never refuses it: no compaction    *)
(* and no other turn slips between a turn's start and its task.                    *)
ContextKept ==
  \A t \in Tasks :
    Pending(t) /\ log[t].events > 0 => log[t].context = session.turns

(* The session has every answer it ever committed, once and in order: those after  *)
(* the compacted prefix are in committed_turns, and nothing else is.               *)
Committed(after) ==
  {i \in DOMAIN record : record[i].how = "committed" /\ i > after}

AnswersKept ==
  /\ Len(record) = session.completed
  /\ Len(session.turns) = Cardinality(Committed(session.through))
  /\ \A k \in DOMAIN session.turns :
       LET turn == session.turns[k]
       IN  /\ turn.index \in Committed(session.through)
           /\ record[turn.index].task = turn.task
           /\ Cardinality(Committed(turn.index)) = Len(session.turns) - k

(* A turn is settled only as its task ended: a terminal of that kind is in the     *)
(* task's log before the session says so, and a turn is settled once.              *)
OutcomesFollowTasks ==
  \A i \in DOMAIN record :
    /\ IF record[i].how = "committed"
       THEN "completed" \in log[record[i].task].ends
       ELSE "failed" \in log[record[i].task].ends
    /\ \A j \in DOMAIN record : record[i].task = record[j].task => i = j

(* A task's log is past recovery: the file was created and nothing written to it    *)
(* (a kill, or a failed first append), a failed append left an incomplete line, or  *)
(* two processes wrote to it out of turn.                                           *)
TaskLogLost(l) ==
  l.file \in {"empty", "torn"} \/ (l.file = "clash" /\ Cardinality(l.writers) > 1)

(* A started turn is settled in the end.  What stands in its way for good is a      *)
(* session log a short write has torn, a task log past recovery (one process alone  *)
(* never writes one that does not replay, wherever it dies and whatever fails), or  *)
(* an answer that cannot be committed.                                              *)
TurnsSettle ==
  \A t \in Tasks :
    Pending(t) ~> \/ ~Pending(t)
                  \/ torn
                  \/ TaskLogLost(log[t])
                  \/ "unsound" \in log[t].ends

(* What the compaction marker promises: the turn whose answer asks for one goes    *)
(* on, and is settled like any other.                                              *)
EveryTurnSettles == \A t \in Tasks : Pending(t) ~> ~Pending(t)
================================================================================

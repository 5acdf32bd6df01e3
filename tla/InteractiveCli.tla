------------------------------ MODULE InteractiveCli -------------------------------
(* The interactive program: its commands, the turns it runs on a thread of their   *)
(* own, Ctrl+C, and what reaches the screen (src/src/cli/interactive_cli.cpp,      *)
(* src/src/adapters/system/signal_cancellation.cpp, the closures of main.cpp).     *)
(*                                                                                 *)
(* The turn's thread runs rounds of the runtime engine: a call of the model, then  *)
(* a tool or the end.  TaskRuntime and SessionTurns have what a round and a turn   *)
(* do to the logs; here they only count.                                           *)
EXTENDS ModelCall, TurnDisplay

CONSTANTS
  Sessions,     \* session identifiers
  Existing,     \* what may be durable at the start: sessions, their turns, a pending turn
  First(_),     \* the session a listing puts first
  MaxRounds,    \* max_model_rounds
  MaxCommands,  \* bound: commands typed
  MaxTroubles   \* bound: Ctrl+C, failing terminals, turns not begun, failing commits

Session == [turns : Nat, pending : BOOLEAN]

ASSUME CliParameters ==
  /\ \A sessions \in Existing :
       DOMAIN sessions \subseteq Sessions /\ sessions \in [DOMAIN sessions -> Session]
  /\ \A sessions \in SUBSET Sessions \ {{}} : First(sessions) \in sessions
  /\ {MaxRounds, MaxCommands, MaxTroubles} \subseteq Nat

VARIABLES
  cli,     \* where the main thread is, memory_on_, current and the kind of turn
  store,   \* durable: the sessions, their completed turns, a pending turn
  asked,   \* history: the turn each session's maintenance was requested through
  left,    \* history: sessions left with the memory on
  behind,  \* history: sessions of which the program's copy lacks a durable turn
  worker,  \* the thread of the turn
  handler, \* Ctrl+C is handled
  counts   \* how often each bounded thing happened

cliVars == <<cli, store, asked, left, behind>>
turnVars == <<callVars, late, displayVars, worker>>
vars == <<cliVars, turnVars, flag, handler, counts>>

NoSession == "none"
NoTurn == [kind |-> "none"]
Unloaded == -1

(* session: completed_turns of result.session, or that it has no value.  commit:   *)
(* whether the turn's last event was reported durable ("made"), or is in the file  *)
(* although its append was reported failed ("unheard").                            *)
NoWorker == [pc |-> "none", round |-> 0, outcome |-> "none", answer |-> <<>>,
             session |-> Unloaded, commit |-> "no", interrupted |-> FALSE]

Init ==
  /\ cli = [pc |-> "start", memory |-> TRUE, id |-> NoSession, turns |-> 0, turn |-> NoTurn]
  /\ store \in Existing
  /\ asked = [s \in Sessions |-> 0] /\ left = {} /\ behind = {}
  /\ CallInit /\ DisplayInit /\ worker = NoWorker
  /\ flag = FALSE /\ handler = FALSE
  /\ counts = [commands |-> 0, troubles |-> 0]

Counted(what, limit) == counts[what] < limit /\ counts' = [counts EXCEPT ![what] = @ + 1]

(* -------------------------------- commands -------------------------------------- *)

Larger(a, b) == IF a > b THEN a ELSE b

(* consolidate: through the turns of the copy the program holds.                   *)
Consolidated(requests, id, turns) ==
  IF cli.memory THEN [requests EXCEPT ![id] = Larger(@, turns)] ELSE requests
ConsolidateCurrent == asked' = Consolidated(asked, cli.id, cli.turns)

Leaves == left' = IF cli.memory THEN left \cup {cli.id} ELSE left \ {cli.id}

(* The session becomes the current one; a pending turn is recovered at once.       *)
Enters(s) ==
  cli' = [cli EXCEPT !.id = s, !.turns = store[s].turns,
                     !.pc = IF store[s].pending THEN "begin" ELSE "prompt",
                     !.turn = IF store[s].pending THEN [kind |-> "recover"] ELSE NoTurn]

Creates(s) ==
  /\ s \in Sessions \ DOMAIN store
  /\ store' = [x \in DOMAIN store \cup {s} |->
                 IF x = s THEN [turns |-> 0, pending |-> FALSE] ELSE store[x]]
  /\ cli' = [cli EXCEPT !.id = s, !.turns = 0, !.pc = "prompt"]

(* The start: every listed session is caught up before the first prompt.           *)
Start ==
  /\ cli.pc = "start" /\ DOMAIN store # {}
  /\ asked' = [s \in Sessions |-> IF s \in DOMAIN store /\ cli.memory THEN store[s].turns ELSE asked[s]]
  /\ Enters(First(DOMAIN store))
  /\ UNCHANGED <<store, left, behind, turnVars, flag, handler, counts>>

StartFresh(s) ==
  /\ cli.pc = "start" /\ DOMAIN store = {}
  /\ Creates(s)
  /\ UNCHANGED <<asked, left, behind, turnVars, flag, handler, counts>>

Reads == cli.pc = "prompt" /\ Counted("commands", MaxCommands)

SwitchMemory ==
  /\ Reads
  /\ cli' = [cli EXCEPT !.memory = ~@]
  /\ UNCHANGED <<store, asked, left, behind, turnVars, flag, handler>>

(* A mutant of NewSession: what was left is not caught up.                         *)
NewSessionSilent(s) ==
  /\ Reads /\ Leaves
  /\ Creates(s)
  /\ UNCHANGED <<asked, behind, turnVars, flag, handler>>

NewSession(s) ==
  /\ Reads /\ ConsolidateCurrent /\ Leaves
  /\ Creates(s)
  /\ UNCHANGED <<behind, turnVars, flag, handler>>

(* The session is loaded first: one that cannot be loaded leaves all as it was.    *)
Resume(s) ==
  /\ Reads /\ s \in DOMAIN store
  /\ ConsolidateCurrent /\ Leaves /\ Enters(s)
  /\ behind' = behind \ {s}
  /\ UNCHANGED <<store, turnVars, flag, handler>>

Asks(kind) ==
  /\ Reads
  /\ cli' = [cli EXCEPT !.pc = "begin", !.turn = [kind |-> kind]]
  /\ UNCHANGED <<store, asked, left, behind, turnVars, flag, handler>>

(* The end of the input leaves the program as /exit does.                          *)
Exit ==
  /\ cli.pc = "prompt"
  /\ ConsolidateCurrent /\ Leaves
  /\ cli' = [cli EXCEPT !.pc = "exited"]
  /\ UNCHANGED <<store, behind, turnVars, flag, handler, counts>>

(* confirm_plan_buffer: the plan, or what the user made of it, is asked as a turn; *)
(* a plan refused and an empty edit are not.                                       *)
Confirm(accepted) ==
  /\ cli.pc = "confirm"
  /\ cli' = [cli EXCEPT !.pc = IF accepted THEN "begin" ELSE "prompt",
                        !.turn = IF accepted THEN [kind |-> "prompt"] ELSE NoTurn]
  /\ UNCHANGED <<store, asked, left, behind, turnVars, flag, handler, counts>>

(* ------------------------------ a turn begins ----------------------------------- *)

(* begin_turn clears the flag, then installs the handler.                          *)
ClearFlag ==
  /\ cli.pc = "begin"
  /\ flag' = FALSE
  /\ cli' = [cli EXCEPT !.pc = "install"]
  /\ UNCHANGED <<store, asked, left, behind, turnVars, handler, counts>>

StartTurn ==
  /\ cli.pc = "install"
  /\ handler' = TRUE
  /\ cli' = [cli EXCEPT !.pc = "turn"]
  /\ display' = [NewDisplay EXCEPT !.pc = "waiting"]
  /\ worker' = [NoWorker EXCEPT !.pc = "start"]
  /\ UNCHANGED <<store, asked, left, behind, callVars, late, channel, presenter, owed, flag, counts>>

(* ---------------------------- the thread of the turn ---------------------------- *)

InTurn == cli.pc = "turn"
Rest == UNCHANGED <<cli, asked, left, behind, handler, counts>>

(* What the session engine announces before the task begins.                       *)
Announced(compacts) ==
  (IF compacts THEN <<Phase("Compacting context...")>> ELSE <<>>) \o
  (IF cli.memory THEN <<Phase("Retrieving memory")>> ELSE <<>>)

Loaded == store[cli.id]
IsRefused == Loaded.pending /\ cli.turn.kind # "recover"
Refused(session) ==
  worker' = [worker EXCEPT !.pc = "over", !.outcome = "refused", !.session = session]

(* A pending turn refuses a new one; otherwise the turn is durable before its task *)
(* begins.  Only a new turn compacts.                                              *)
Begins(compacts) ==
  /\ worker.pc = "start" /\ (compacts => cli.turn.kind # "recover")
  /\ IF IsRefused
     THEN Refused(Loaded.turns) /\ UNCHANGED <<store, outbox>>
     ELSE /\ store' = [store EXCEPT ![cli.id].pending = TRUE]
          /\ worker' = [worker EXCEPT !.pc = "round"]
          /\ outbox' = Announced(compacts)
  /\ UNCHANGED <<call, late, displayVars, flag>> /\ Rest

(* The session cannot be loaded: the result has none.                              *)
LoadFails ==
  /\ worker.pc = "start" /\ Counted("troubles", MaxTroubles)
  /\ worker' = [worker EXCEPT !.pc = "over", !.outcome = "refused"]
  /\ UNCHANGED <<store, callVars, late, displayVars, flag, cli, asked, left, behind, handler>>

(* The turn is too large, its first event is reported not appended, in the file or *)
(* not, or the log of a pending turn's task cannot be read: the result has the     *)
(* session as it was loaded.                                                       *)
BeginFails(compacts, started) ==
  /\ worker.pc = "start" /\ ~IsRefused
  /\ compacts \/ started => cli.turn.kind # "recover"
  /\ Counted("troubles", MaxTroubles)
  /\ Refused(Loaded.turns)
  /\ store' = IF started THEN [store EXCEPT ![cli.id].pending = TRUE] ELSE store
  /\ outbox' = Announced(compacts)
  /\ UNCHANGED <<call, late, displayVars, flag, cli, asked, left, behind, handler>>

Ended(outcome) == worker' = [worker EXCEPT !.pc = "settle", !.outcome = outcome]

(* A round prepares its context, then meets the guards: cancellation and the       *)
(* budget, before the call is logged.                                              *)
Round ==
  LET prepares == Progress("ContextPreparationStarted")
      GivesUp(outcome) == Ended(outcome) /\ outbox' = <<prepares>>
  IN  /\ worker.pc = "round" /\ outbox = <<>>
      /\ IF flag THEN GivesUp("cancelled")
         ELSE IF worker.round = MaxRounds THEN GivesUp("failed")
         ELSE /\ worker' = [worker EXCEPT !.pc = "ask", !.round = @ + 1]
              /\ outbox' = <<prepares, Progress("ModelCallStarted")>>
      /\ UNCHANGED <<store, call, late, displayVars, flag>> /\ Rest

(* The stream is watched unless the answer rests on evidence: that one is shown    *)
(* when the session has it.                                                        *)
Calls(observed) ==
  /\ worker.pc = "ask" /\ outbox = <<>>
  /\ call' = Begun(observed)
  /\ worker' = [worker EXCEPT !.pc = "calling"]
  /\ UNCHANGED <<store, outbox, late, displayVars, flag>> /\ Rest

(* A mutant of HearsAnswer: an answer is accepted without asking for cancellation. *)
HearsAnswerAnyway ==
  /\ worker.pc = "calling" /\ call.pc = "over"
  /\ call' = Idle
  /\ LET result == call.result
     IN  CASE ~result.ok -> Ended(IF result.code = "Cancelled" THEN "cancelled" ELSE "failed")
           [] result.ok /\ result.reason = "ToolUse" -> worker' = [worker EXCEPT !.pc = "tool"]
           [] OTHER -> worker' = [worker EXCEPT !.pc = "settle", !.outcome = "completed",
                                                !.answer = concatenate_text(result.content)]
  /\ UNCHANGED <<store, outbox, late, displayVars, flag>> /\ Rest

(* The outcome of the call, then the guard again: only a call nobody cancelled     *)
(* makes an answer.                                                                *)
HearsAnswer ==
  /\ worker.pc = "calling" /\ call.pc = "over"
  /\ call' = Idle
  /\ LET result == call.result
     IN  CASE flag \/ (~result.ok /\ result.code = "Cancelled") -> Ended("cancelled")
           [] ~flag /\ ~result.ok /\ result.code # "Cancelled"  -> Ended("failed")
           [] ~flag /\ result.ok /\ result.reason = "ToolUse" ->
                worker' = [worker EXCEPT !.pc = "tool"]
           [] ~flag /\ result.ok /\ result.reason \in {"EndTurn", "StopSequence"} ->
                worker' = [worker EXCEPT !.pc = "settle", !.outcome = "completed",
                                         !.answer = concatenate_text(result.content)]
           [] OTHER -> Ended("failed")
  /\ UNCHANGED <<store, outbox, late, displayVars, flag>> /\ Rest

UsesTool(verdict) ==
  /\ worker.pc = "tool" /\ outbox = <<>>
  /\ IF flag THEN Ended("cancelled") /\ UNCHANGED outbox
     ELSE /\ worker' = [worker EXCEPT !.pc = "round"]
          /\ outbox' = <<Progress("ToolCallStarted"), Progress(verdict)>>
  /\ UNCHANGED <<store, call, late, displayVars, flag>> /\ Rest

(* The turn's thread hands on one event, or waits until there is room.             *)
Says ==
  LET said == Head(outbox)
      events == IF said.kind \in {"Progress", "Phase", "Text"} THEN <<said>>
                ELSE Pieces(TextEvent(worker.round, said))
  IN  /\ outbox # <<>>
      /\ push(Head(events))
      /\ outbox' = Tail(events) \o Tail(outbox)
      /\ owed' = owed \o Atoms(Head(events))
      /\ UNCHANGED <<store, call, late, display, presenter, worker, flag>> /\ Rest

(* finalize_turn: the session's event is durable, and the result has the session   *)
(* after it.                                                                       *)
Committed == [store EXCEPT ![cli.id] = [turns |-> @.turns + 1, pending |-> FALSE]]

Settles ==
  /\ worker.pc = "settle" /\ outbox = <<>>
  /\ store' = Committed
  /\ worker' = [worker EXCEPT !.pc = "over", !.commit = "made", !.session = Loaded.turns + 1]
  /\ UNCHANGED <<callVars, late, displayVars, flag>> /\ Rest

(* The append is reported failed, its line in the file or not, or the engine ended *)
(* with an error: the result has the session before the turn.                      *)
CommitFails(inFile) ==
  /\ worker.pc = "settle" /\ outbox = <<>>
  /\ Counted("troubles", MaxTroubles)
  /\ store' = IF inFile THEN Committed ELSE store
  /\ worker' = [worker EXCEPT !.pc = "over", !.session = Loaded.turns,
                              !.commit = IF inFile THEN "unheard" ELSE @]
  /\ UNCHANGED <<callVars, late, displayVars, flag, cli, asked, left, behind, handler>>

Ends ==
  /\ worker.pc = "over" /\ outbox = <<>>
  /\ worker' = [worker EXCEPT !.pc = "done"]
  /\ channel' = [channel EXCEPT !.done = TRUE]
  /\ UNCHANGED <<store, callVars, late, display, presenter, owed, flag>> /\ Rest

Request == CallStep /\ UNCHANGED <<store, displayVars, worker>> /\ Rest

WorkerStep ==
  \/ \E compacts \in BOOLEAN : Begins(compacts)
  \/ Round \/ HearsAnswer \/ Says \/ Settles \/ Ends
  \/ \E observed \in BOOLEAN : Calls(observed)
  \/ \E verdict \in {"ToolCallSucceeded", "ToolCallFailed"} : UsesTool(verdict)

TurnFails ==
  \/ LoadFails
  \/ \E compacts, started \in BOOLEAN : BeginFails(compacts, started)
  \/ \E inFile \in BOOLEAN : CommitFails(inFile)

(* -------------------------------- the main thread ------------------------------- *)

Shown == UNCHANGED <<store, callVars, late, worker, flag>> /\ Rest

(* After a failed terminal the turn is cancelled; the channel is closed already.   *)
CancelTurn ==
  /\ CancelsNow /\ flag' = TRUE
  /\ UNCHANGED <<store, callVars, late, channel, presenter, owed, worker>> /\ Rest

TerminalFails ==
  /\ OutputFails /\ Counted("troubles", MaxTroubles)
  /\ UNCHANGED <<store, callVars, late, worker, flag, cli, asked, left, behind, handler>>

Success == worker.commit = "made" /\ worker.outcome = "completed"

Joins == worker.pc = "done" /\ Finishes(Success, worker.answer) /\ Shown

(* execute_turn returns.  Every turn but a finished plan is rendered: the session  *)
(* of the result, if it has one, becomes the program's copy.  A plan is shown and  *)
(* waits for its confirmation, with the copy as it was before.  The turn's channel,*)
(* presenter and thread are gone.                                                  *)
IsPlanned == cli.turn.kind = "plan" /\ worker.outcome = "completed"
Copied == IF worker.session = Unloaded THEN cli.turns ELSE worker.session

EndsTurn ==
  /\ display.pc = "finished"
  /\ handler' = FALSE
  /\ display' = NewDisplay /\ channel' = NewChannel /\ presenter' = NewPresenter /\ owed' = <<>>
  /\ worker' = NoWorker /\ late' = 0
  /\ cli' = IF IsPlanned THEN [cli EXCEPT !.pc = "confirm"]
            ELSE [cli EXCEPT !.pc = "prompt", !.turn = NoTurn, !.turns = Copied]
  /\ behind' = CASE worker.commit = "unheard" \/ (IsPlanned /\ worker.commit = "made") ->
                     behind \cup {cli.id}
                [] ~IsPlanned /\ worker.session # Unloaded /\ worker.commit # "unheard" ->
                     behind \ {cli.id}
                [] OTHER -> behind
  /\ UNCHANGED <<store, asked, left, callVars, flag, counts>>

DisplayStep ==
  \/ (Takes \/ Shows(flag) \/ Frame(flag)) /\ Shown
  \/ CancelTurn \/ Joins

(* Ctrl+C: the flag while the handler is installed, the end of the program         *)
(* otherwise.                                                                      *)
Interrupt ==
  /\ cli.pc \in {"prompt", "begin", "install", "turn", "confirm"}
  /\ Counted("troubles", MaxTroubles)
  /\ IF handler
     THEN /\ flag' = TRUE /\ UNCHANGED cli
          /\ worker' = [worker EXCEPT !.interrupted =
                          @ \/ worker.pc \in {"start", "round", "ask", "calling", "tool"}]
     ELSE cli' = [cli EXCEPT !.pc = "killed"] /\ UNCHANGED <<flag, worker>>
  /\ UNCHANGED <<store, asked, left, behind, callVars, late, displayVars, handler>>

Next ==
  \/ Start \/ SwitchMemory \/ Exit \/ ClearFlag \/ StartTurn
  \/ \E s \in Sessions : StartFresh(s) \/ NewSession(s) \/ Resume(s)
  \/ \E kind \in {"prompt", "plan"} : Asks(kind)
  \/ \E accepted \in BOOLEAN : Confirm(accepted)
  \/ InTurn /\ (WorkerStep \/ Request \/ TurnFails \/ DisplayStep \/ TerminalFails
                \/ EndsTurn)
  \/ Interrupt

(* The threads run, a transfer is bounded by its timeout, and a sleep ends.  The   *)
(* user owes nothing.  Of the display it is enough that it moves.                  *)
DisplayMoves == TakesNow \/ ShowsNow \/ CancelsNow \/ (worker.pc = "done" /\ JoinsNow)

Fairness ==
  /\ WF_vars(ClearFlag) /\ WF_vars(StartTurn) /\ WF_vars(InTurn /\ WorkerStep)
  /\ WF_vars(InTurn /\ Request) /\ WF_display(InTurn /\ DisplayMoves) /\ WF_vars(InTurn /\ EndsTurn)

Spec == Init /\ [][Next]_vars /\ Fairness
--------------------------------------------------------------------------------

(* Whatever the turn's thread was told to show has been shown when the display     *)
(* waits for that thread: bytes, ends of blocks and progress, in their order, none *)
(* twice, unless the terminal is gone (interactive_cli.cpp:92, :263).              *)
NothingIsLost ==
  display.pc \in {"joining", "finished"} /\ ~display.failed => owed = <<>>

(* When a turn was reported committed, the text under the last mark of the screen  *)
(* is the answer and nothing else, whatever earlier rounds and failed attempts had *)
(* streamed, and a preview or a terminal gets the line that says so; when it was   *)
(* not, no preview is left without the line that says it is no answer              *)
(* (terminal_presenter.cpp:259, :275, anthropic_messages_client.cpp:401).          *)
AnswerIsShown ==
  display.pc = "finished" /\ ~display.failed =>
    IF Success
    THEN /\ presenter.shown = render_terminal_text(worker.answer)
         /\ presenter.any \/ Dynamic => presenter.banner = "[Turn complete]"
    ELSE presenter.any => presenter.banner = "[Incomplete; turn was not committed]"

(* A Ctrl+C that arrives before the answer is accepted keeps the turn from         *)
(* completing, and at most one request leaves after it                             *)
(* (signal_cancellation.cpp:30, retry_with_backoff.h:66, runtime_engine.cpp:593).  *)
CancelIsHeard ==
  late <= 1 /\ (worker.interrupted => worker.outcome # "completed")

(* A session that was left with the memory on has had its maintenance requested    *)
(* through its last turn, unless the program's copy of it lacked that turn: after  *)
(* a finished plan the result's session is not taken over, and a last event that   *)
(* is in the file although its append was reported failed leaves the result        *)
(* without it.  A turn that was not begun, failed, or could not load its session   *)
(* is no excuse (interactive_cli.cpp:369, :417, :588, :608, :625,                  *)
(* session_engine.cpp:378, jsonl_session_store.cpp:616).                           *)
LeftIsCaughtUp ==
  \A s \in left \ (IF cli.pc = "exited" THEN {} ELSE {cli.id}) :
    asked[s] >= store[s].turns \/ s \in behind

(* A turn comes to its end, whatever the provider, the terminal and the user do:   *)
(* a full channel, a failed display and a sleeping retry hold nobody for good      *)
(* (interactive_cli.cpp:292).                                                      *)
EveryTurnEnds ==
  cli.pc \in {"begin", "install", "turn"} ~> cli.pc \in {"prompt", "confirm", "killed"}
================================================================================

------------------------------ MODULE StateReducer ------------------------------
(* The task state and its event reducer: src/src/domain/task_state.h and        *)
(* src/src/application/state_reducer.cpp.  The reducer is pure: each kind of     *)
(* event has a condition under which it is accepted (CanX) and the state it      *)
(* leads to (X).  Both the live engine (append_event) and recovery               *)
(* (replay_events) go through it, so it is what a durable task log can say.      *)
(*                                                                               *)
(* A tool call is named by its position in the answer that requested it (ids     *)
(* are unique inside an answer) and described by its shape, a member of Tools.   *)
(* An answer that carries a compact_request block is outside this module: it     *)
(* completes its task like a text, and what it does to the session is the        *)
(* "unsound" ending of SessionTurns.                                             *)
(* A message of the transcript is reduced to its kind.                           *)
EXTENDS Naturals, Sequences

CONSTANTS
  Tools,            \* shapes of tool calls a model can ask for
  MaxAnswer,        \* bound: tool-use blocks in one model answer
  MaxModelRounds,   \* RuntimeBudgets::max_model_rounds
  MaxToolCalls      \* RuntimeBudgets::max_tool_calls

ASSUME BudgetsPositive ==
  /\ MaxAnswer \in Nat \ {0}
  /\ MaxModelRounds \in Nat \ {0}
  /\ MaxToolCalls \in Nat \ {0}

Terminal == {"Completed", "Failed", "BudgetExceeded", "Cancelled"}
Statuses ==
  {"Absent", "Created", "PreparingContext", "AwaitingModel", "AwaitingTool"}
    \cup Terminal

IsTerminal(s) == s.status \in Terminal

StopReasons == {"EndTurn", "ToolUse", "MaxTokens"}
MessageKinds == {"user", "text", "tool_use", "results"}
Verdicts ==
  {"none", "answered", "no_match", "context_failed", "model_failed",
   "tool_failed", "max_tokens", "max_task_time_ms", "max_model_rounds",
   "max_tool_calls", "cancelled", "dangerous_pattern"}

(* "Absent" is std::optional<TaskState> with no value: no event is durable.      *)
(* offered stands for last_model_request: none sent yet, or whether the last     *)
(* one carried tool definitions.                                                 *)
TaskState ==
  [status     : Statuses,
   rounds     : Nat,                      \* usage.model_rounds
   calls      : Nat,                      \* usage.tool_calls
   inFlight   : BOOLEAN,                  \* model_call_in_flight
   offered    : {"none", "plain", "tools"},
   stop       : StopReasons \cup {"none"},
   transcript : Seq(MessageKinds),        \* messages
   forbidden  : BOOLEAN,                  \* evidence.tool_use_forbidden
   noMatch    : BOOLEAN,                  \* evidence.authoritative_no_match
   pending    : Seq(Tools),               \* pending_tool_calls
   next       : Nat,                      \* next_tool_index: completions
   dispatch   : Nat,                      \* tool_dispatch_index: starts
   active     : Nat,                      \* active_tool_call_id, 0 when empty
   results    : Seq(Nat),                 \* pending_tool_results, by call
   verdict    : Verdicts]                 \* terminal_error or final_text

NoTask ==
  [status |-> "Absent", rounds |-> 0, calls |-> 0, inFlight |-> FALSE,
   offered |-> "none", stop |-> "none", transcript |-> <<>>,
   forbidden |-> FALSE, noMatch |-> FALSE, pending |-> <<>>, next |-> 0,
   dispatch |-> 0, active |-> 0, results |-> <<>>, verdict |-> "none"]

LastMessage(s) == s.transcript[Len(s.transcript)]
EndsWith(s, kind) == s.transcript # <<>> /\ LastMessage(s) = kind
--------------------------------------------------------------------------------
(* TaskStarted, the only event an empty log accepts. *)
CanStartTask(s) == s.status = "Absent"
StartTask(s) == [NoTask EXCEPT !.status = "Created", !.transcript = <<"user">>]

ToolsComplete(s) ==
  /\ s.status = "AwaitingTool"
  /\ s.pending # <<>>
  /\ s.active = 0
  /\ s.next = Len(s.pending)
  /\ Len(s.results) = Len(s.pending)

(* Mutant: the closed round keeps its results. *)
PrepareContextKeepsResults(s) ==
  IF ToolsComplete(s)
  THEN [s EXCEPT !.status = "PreparingContext", !.stop = "none",
                 !.transcript = Append(@, "results"), !.pending = <<>>,
                 !.next = 0, !.dispatch = 0, !.active = 0]
  ELSE [s EXCEPT !.status = "PreparingContext", !.stop = "none"]

(* Mutant: the dispatch cursor is not reset with the completion cursor. *)
PrepareContextKeepsDispatch(s) ==
  IF ToolsComplete(s)
  THEN [s EXCEPT !.status = "PreparingContext", !.stop = "none",
                 !.transcript = Append(@, "results"), !.pending = <<>>,
                 !.results = <<>>, !.next = 0, !.active = 0]
  ELSE [s EXCEPT !.status = "PreparingContext", !.stop = "none"]

CanPrepareContext(s) == s.status = "Created" \/ ToolsComplete(s)
PrepareContext(s) ==
  IF ToolsComplete(s)
  THEN [s EXCEPT !.status = "PreparingContext", !.stop = "none",
                 !.transcript = Append(@, "results"), !.pending = <<>>,
                 !.results = <<>>, !.next = 0, !.dispatch = 0, !.active = 0]
  ELSE [s EXCEPT !.status = "PreparingContext", !.stop = "none"]

CanContextPrepared(s) == s.status = "PreparingContext"
ContextPrepared(s, forbidden, noMatch) ==
  [s EXCEPT !.status = "AwaitingModel", !.forbidden = forbidden,
            !.noMatch = noMatch]

CanContextFailed(s) == s.status = "PreparingContext"
ContextFailed(s) ==
  [s EXCEPT !.status = "Failed", !.verdict = "context_failed"]

(* The transcript plus the answer must be a valid conversation: the message     *)
(* before the answer is a user message, typed or carrying tool results.         *)
CanNoMatch(s) ==
  /\ s.status = "AwaitingModel"
  /\ ~s.inFlight
  /\ s.noMatch
  /\ EndsWith(s, "user") \/ EndsWith(s, "results")
NoMatch(s) ==
  [s EXCEPT !.status = "Completed", !.verdict = "no_match",
            !.transcript = Append(@, "text")]
--------------------------------------------------------------------------------
CanStartModelCall(s, tools) ==
  /\ s.status = "AwaitingModel"
  /\ ~s.inFlight
  /\ s.stop = "none"
  /\ s.forbidden => tools = "plain"
StartModelCall(s, tools) ==
  [s EXCEPT !.inFlight = TRUE, !.offered = tools, !.rounds = @ + 1]

(* validate_model_response: tool-use blocks exactly when the stop reason says so. *)
ValidAnswer(stop, asked) == (stop = "ToolUse") <=> (asked # <<>>)

CanAcceptAnswer(s, stop, asked) ==
  /\ s.status = "AwaitingModel"
  /\ s.inFlight
  /\ ValidAnswer(stop, asked)
  /\ s.forbidden => asked = <<>>
AcceptAnswer(s, stop, asked) ==
  IF asked = <<>>
  THEN [s EXCEPT !.inFlight = FALSE, !.stop = stop,
                 !.transcript = Append(@, "text")]
  ELSE [s EXCEPT !.inFlight = FALSE, !.stop = stop,
                 !.transcript = Append(@, "tool_use"),
                 !.status = "AwaitingTool", !.pending = asked, !.next = 0,
                 !.dispatch = 0, !.active = 0, !.results = <<>>]

CanFailModelCall(s) == s.status = "AwaitingModel" /\ s.inFlight
FailModelCall(s) ==
  [s EXCEPT !.inFlight = FALSE, !.stop = "none", !.status = "Failed",
            !.verdict = "model_failed"]
--------------------------------------------------------------------------------
(* A start addresses the next slot nothing was started for; it runs ahead of    *)
(* the completions, and names the active call only at the head.                 *)
CanStartCall(s, call) ==
  /\ s.status = "AwaitingTool"
  /\ s.dispatch < Len(s.pending)
  /\ call = s.dispatch + 1
StartCall(s, call) ==
  [s EXCEPT !.active = IF s.dispatch = s.next THEN call ELSE @,
            !.dispatch = @ + 1, !.calls = @ + 1]

AtHead(s, call) ==
  /\ s.status = "AwaitingTool"
  /\ s.next < Len(s.pending)
  /\ call = s.next + 1

(* Mutant: the last completion leaves the active call set. *)
CompleteCallKeepsActive(s, call) ==
  [s EXCEPT !.results = Append(@, call),
            !.next = @ + 1,
            !.active = IF s.dispatch > s.next + 1 THEN s.next + 2 ELSE @]

CanCompleteCall(s, call) == AtHead(s, call)
CompleteCall(s, call) ==
  [s EXCEPT !.results = Append(@, call),
            !.next = @ + 1,
            !.active = IF s.dispatch > s.next + 1 /\ s.calls < MaxToolCalls
                       THEN s.next + 2 ELSE 0]

CanFailCall(s, call) == AtHead(s, call)
FailCall(s) ==
  [s EXCEPT !.active = 0, !.status = "Failed", !.verdict = "tool_failed"]
--------------------------------------------------------------------------------
CanCompleteTask(s) ==
  /\ s.status = "AwaitingModel"
  /\ ~s.inFlight
  /\ s.pending = <<>>
  /\ EndsWith(s, "text")
  /\ s.stop = "EndTurn"
CompleteTask(s) ==
  [s EXCEPT !.status = "Completed", !.verdict = "answered"]

(* TaskBudgetExceeded: max_tokens follows an accepted truncated answer; the      *)
(* other three are the verdicts of the guard before an external call.            *)
TokensSpent(s) ==
  /\ s.status = "AwaitingModel"
  /\ ~s.inFlight
  /\ s.stop = "MaxTokens"
  /\ EndsWith(s, "text")

GuardStatus(s) ==
  \/ s.status \in {"PreparingContext", "AwaitingModel"}
  \/ s.status = "AwaitingTool" /\ s.next < Len(s.pending)

CanExceed(s, budget) ==
  CASE budget = "max_tokens" -> TokensSpent(s)
    [] budget = "max_task_time_ms" ->
         /\ s.stop \notin {"EndTurn", "MaxTokens"}
         /\ GuardStatus(s)
    [] budget = "max_model_rounds" ->
         /\ s.status = "AwaitingModel"
         /\ ~s.inFlight /\ s.active = 0
         /\ s.stop = "none"
         /\ s.rounds >= MaxModelRounds
    [] OTHER ->
         /\ s.status = "AwaitingTool"
         /\ ~s.inFlight /\ s.active = 0
         /\ s.stop = "ToolUse"
         /\ s.next < Len(s.pending)
         /\ s.calls >= MaxToolCalls
Exceed(s, budget) ==
  [s EXCEPT !.status = "BudgetExceeded", !.verdict = budget]

(* Mutant: the reason lands in the status. *)
CancelTaskSwapped(s, reason) ==
  [s EXCEPT !.status = reason, !.verdict = "cancelled"]

CanCancel(s) == s.status # "Absent" /\ ~IsTerminal(s)
CancelTask(s, reason) ==
  [s EXCEPT !.status = "Cancelled", !.verdict = reason]
================================================================================

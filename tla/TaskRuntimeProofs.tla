---------------------------- MODULE TaskRuntimeProofs ----------------------------
(* Theorems about TaskRuntime, for every set of tools, every answer a model may   *)
(* give and every value of the budgets and bounds: its types, and an inductive    *)
(* invariant that relates the durable log, the engine's memory and its control    *)
(* point, with what follows from it; then what the log says and that the engine   *)
(* obeys it.                                                                      *)
EXTENDS TaskRuntime, TLAPS

(* ---------------------------------- the reducer --------------------------------- *)

(* The names of the statuses and verdicts the events write. *)
LEMMA Names ==
  /\ {"Absent", "Created", "PreparingContext", "AwaitingModel", "AwaitingTool",
      "Completed", "Failed", "BudgetExceeded", "Cancelled"} \subseteq Statuses
  /\ {"none", "answered", "no_match", "context_failed", "model_failed",
      "tool_failed"} \subseteq Verdicts
  /\ {"user", "text", "tool_use", "results"} \subseteq MessageKinds
  /\ "none" \in StopReasons \cup {"none"}
BY DEF Statuses, Terminal, Verdicts, MessageKinds

(* No task is a task state: what replay of an empty log stands for. *)
LEMMA NoTaskType == NoTask \in TaskState
BY Names DEF NoTask, TaskState

LEMMA StartTaskType ==
  ASSUME NEW s
  PROVE  StartTask(s) \in TaskState
<1>1. <<"user">> \in Seq(MessageKinds)
  BY Names
<1> QED
  BY <1>1, NoTaskType, Names, Zenon DEF StartTask, TaskState

LEMMA PrepareContextType ==
  ASSUME NEW s \in TaskState
  PROVE  PrepareContext(s) \in TaskState
<1>1. Append(s.transcript, "results") \in Seq(MessageKinds)
  BY Names DEF TaskState
<1>2. CASE ToolsComplete(s)
  <2>1. <<>> \in Seq(Tools) /\ <<>> \in Seq(Nat) /\ 0 \in Nat
    OBVIOUS
  <2> QED
    BY <1>1, <1>2, <2>1, Names, Zenon DEF PrepareContext, TaskState
<1>3. CASE ~ToolsComplete(s)
  BY <1>3, Names DEF PrepareContext, TaskState
<1> QED
  BY <1>2, <1>3

LEMMA ContextPreparedType ==
  ASSUME NEW s \in TaskState, NEW forbidden \in BOOLEAN, NEW noMatch \in BOOLEAN
  PROVE  ContextPrepared(s, forbidden, noMatch) \in TaskState
BY Names DEF ContextPrepared, TaskState

LEMMA ContextFailedType ==
  ASSUME NEW s \in TaskState
  PROVE  ContextFailed(s) \in TaskState
BY Names DEF ContextFailed, TaskState

LEMMA NoMatchType ==
  ASSUME NEW s \in TaskState
  PROVE  NoMatch(s) \in TaskState
<1>1. Append(s.transcript, "text") \in Seq(MessageKinds)
  BY Names DEF TaskState
<1> QED
  BY <1>1, Names DEF NoMatch, TaskState

LEMMA StartModelCallType ==
  ASSUME NEW s \in TaskState, NEW tools \in {"plain", "tools"}
  PROVE  StartModelCall(s, tools) \in TaskState
<1>1. s.rounds + 1 \in Nat
  BY DEF TaskState
<1>2. tools \in {"none", "plain", "tools"}
  OBVIOUS
<1> QED
  BY <1>1, <1>2, Zenon DEF StartModelCall, TaskState

LEMMA AcceptAnswerType ==
  ASSUME NEW s \in TaskState, NEW stop \in StopReasons, NEW asked \in Seq(Tools)
  PROVE  AcceptAnswer(s, stop, asked) \in TaskState
<1>1. /\ Append(s.transcript, "text") \in Seq(MessageKinds)
      /\ Append(s.transcript, "tool_use") \in Seq(MessageKinds)
  BY Names DEF TaskState
<1>2. CASE asked = <<>>
  BY <1>1, <1>2 DEF AcceptAnswer, TaskState
<1>3. CASE asked # <<>>
  <2>1. <<>> \in Seq(Nat) /\ 0 \in Nat /\ stop \in StopReasons \cup {"none"}
    OBVIOUS
  <2> QED
    BY <1>1, <1>3, <2>1, Names, Zenon DEF AcceptAnswer, TaskState
<1> QED
  BY <1>2, <1>3

LEMMA FailModelCallType ==
  ASSUME NEW s \in TaskState
  PROVE  FailModelCall(s) \in TaskState
BY Names DEF FailModelCall, TaskState

LEMMA StartCallType ==
  ASSUME NEW s \in TaskState, NEW call \in Nat
  PROVE  StartCall(s, call) \in TaskState
<1>0. s.dispatch + 1 \in Nat /\ s.calls + 1 \in Nat
  BY DEF TaskState
<1>1. CASE s.dispatch = s.next
  BY <1>0, <1>1, Zenon DEF StartCall, TaskState
<1>2. CASE s.dispatch # s.next
  BY <1>0, <1>2, Zenon DEF StartCall, TaskState
<1> QED
  BY <1>1, <1>2

LEMMA CompleteCallType ==
  ASSUME NEW s \in TaskState, NEW call \in Nat
  PROVE  CompleteCall(s, call) \in TaskState
<1> DEFINE head == IF s.dispatch > s.next + 1 /\ s.calls < MaxToolCalls
                   THEN s.next + 2 ELSE 0
<1>1. Append(s.results, call) \in Seq(Nat) /\ s.next + 1 \in Nat
  BY DEF TaskState
<1>2. head \in Nat
  BY DEF TaskState
<1>3. CompleteCall(s, call) =
        [s EXCEPT !.results = Append(@, call), !.next = @ + 1, !.active = head]
  BY DEF CompleteCall
<1> HIDE DEF head
<1> QED
  BY <1>1, <1>2, <1>3, Zenon DEF TaskState

LEMMA FailCallType ==
  ASSUME NEW s \in TaskState
  PROVE  FailCall(s) \in TaskState
BY Names DEF FailCall, TaskState

LEMMA CompleteTaskType ==
  ASSUME NEW s \in TaskState
  PROVE  CompleteTask(s) \in TaskState
BY Names DEF CompleteTask, TaskState

LEMMA ExceedType ==
  ASSUME NEW s \in TaskState, NEW budget \in Verdicts
  PROVE  Exceed(s, budget) \in TaskState
BY Names DEF Exceed, TaskState

LEMMA CancelTaskType ==
  ASSUME NEW s \in TaskState, NEW reason \in Verdicts
  PROVE  CancelTask(s, reason) \in TaskState
BY Names DEF CancelTask, TaskState

(* ---------------------------------- the runtime --------------------------------- *)

(* What the engine's own steps change, and what the environment changes. *)
EngineType ==
  /\ durable \in TaskState
  /\ log \in LogFiles
  /\ task \in TaskState
  /\ pc \in Points
  /\ window \in [first : Nat, size : 0..MaxAnswer, slot : Nat]
  /\ running \subseteq Slots
  /\ outcome \in [Slots -> {"none", "ok", "failed", "denied"}]
  /\ exit \in Exits
  /\ storeFaults \in 0..MaxStoreFaults
EnvironmentType ==
  /\ dryRun \in BOOLEAN /\ cancelled \in BOOLEAN /\ expired \in BOOLEAN
  /\ crashes \in 0..MaxCrashes
  /\ plan \in {"unsubmitted", "plan", "act"}
AttemptsType == attempts \in [Slots -> Nat]

LEMMA TypeParts ==
  /\ TypeOK => EngineType /\ EnvironmentType /\ AttemptsType
  /\ EngineType' /\ EnvironmentType' /\ AttemptsType' => TypeOK'
BY DEF TypeOK, EngineType, EnvironmentType, AttemptsType

LEMMA EnvironmentStays ==
  ASSUME EnvironmentType, UNCHANGED Environment
  PROVE  EnvironmentType'
BY DEF EnvironmentType, Environment

LEMMA NoWindowType ==
  /\ NoWindow \in [first : Nat, size : 0..MaxAnswer, slot : Nat]
  /\ NoOutcome \in [Slots -> {"none", "ok", "failed", "denied"}]
  /\ Untried \in [Slots -> Nat]
BY BudgetsPositive DEF NoWindow, NoOutcome, Untried, Slots

LEMMA StayType ==
  ASSUME EngineType, NEW point \in Points, pc' = point, Stay,
         UNCHANGED <<durable, log, task, storeFaults>>
  PROVE  EngineType'
BY DEF EngineType, Stay

LEMMA LeaveType ==
  ASSUME EngineType, NEW reason \in Exits, Leave(reason),
         UNCHANGED <<durable, log, task, storeFaults>>
  PROVE  EngineType'
BY NoWindowType DEF EngineType, Leave, Points

(* The file stays one of its kinds, whatever is written to it. *)
LEMMA LogFilesType ==
  /\ {"sound", "bare", "broken"} = LogFiles
  /\ LogWith("sound") \in LogFiles /\ LogWith("bare") \in LogFiles
BY DEF LogFiles, LogWith

(* append_event keeps the types whatever it is asked to append. *)
LEMMA AppendThenLoopType ==
  ASSUME EngineType, NEW STATE legal, NEW STATE after, after \in TaskState,
         AppendThenLoop(legal, after)
  PROVE  EngineType'
<1>1. CASE Appended(legal, after) /\ Continue(after)
  BY <1>1, NoWindowType, LogFilesType
     DEF EngineType, Appended, Continue, Leave, Points, Exits
<1>2. CASE AppendFailed(legal, after)
  BY <1>2, NoWindowType, LogFilesType, EngineParameters
     DEF EngineType, AppendFailed, Leave, Points, Exits
<1>3. CASE AppendRejected(legal)
  BY <1>3, NoWindowType DEF EngineType, AppendRejected, Leave, Points, Exits
<1> QED
  BY <1>1, <1>2, <1>3 DEF AppendThenLoop

LEMMA AppendThenType ==
  ASSUME EngineType, NEW STATE legal, NEW STATE after, after \in TaskState,
         NEW point \in Points, AppendThen(legal, after, point)
  PROVE  EngineType'
<1>1. CASE Appended(legal, after) /\ pc' = point /\ Stay
  BY <1>1, LogFilesType DEF EngineType, Appended, Stay
<1>2. CASE AppendFailed(legal, after)
  BY <1>2, NoWindowType, LogFilesType, EngineParameters
     DEF EngineType, AppendFailed, Leave, Points, Exits
<1>3. CASE AppendRejected(legal)
  BY <1>3, NoWindowType DEF EngineType, AppendRejected, Leave, Points, Exits
<1> QED
  BY <1>1, <1>2, <1>3 DEF AppendThen

LEMMA StopAtGuardType ==
  ASSUME EngineType, NEW STATE verdict, verdict \in Verdicts, StopAtGuard(verdict)
  PROVE  EngineType'
<1>0. task \in TaskState /\ "cancelled" \in Verdicts
  BY DEF EngineType, Verdicts
<1>1. CASE verdict = "cancelled"
  <2>1. CancelTask(task, "cancelled") \in TaskState
    BY <1>0, CancelTaskType
  <2> QED
    BY <1>1, <2>1, AppendThenLoopType DEF StopAtGuard
<1>2. CASE verdict # "cancelled"
  <2>1. Exceed(task, verdict) \in TaskState
    BY <1>0, ExceedType
  <2> QED
    BY <1>2, <2>1, AppendThenLoopType DEF StopAtGuard
<1> QED
  BY <1>1, <1>2
--------------------------------------------------------------------------------
(* Type correctness of each group of actions. *)

LEMMA VerdictOfGuard ==
  ASSUME NEW STATE budget, NEW STATE used, NEW STATE limit,
         budget \in {"none", "max_model_rounds", "max_tool_calls"}
  PROVE  GuardVerdict(budget, used, limit) \in Verdicts
BY DEF GuardVerdict, Verdicts

LEMMA SmallNames ==
  /\ Points = {"down", "begin", "loop", "retrieve", "model", "accepted",
               "recover", "recovering", "start", "screen", "execute", "complete"}
  /\ {"none", "returned", "crash", "persistence", "invalid_transition",
      "invariant", "exception"} = Exits
  /\ {"cancelled", "dangerous_pattern", "max_tokens"} \subseteq Verdicts
BY DEF Points, Exits, Verdicts

LEMMA TerminalForStopType ==
  ASSUME EngineType, NEW STATE stop, TerminalForStop(stop)
  PROVE  EngineType'
<1>0. task \in TaskState /\ "max_tokens" \in Verdicts /\ "invariant" \in Exits
  BY SmallNames DEF EngineType
<1>1. CASE stop = "EndTurn"
  <2>1. CompleteTask(task) \in TaskState
    BY <1>0, CompleteTaskType
  <2> QED
    BY <1>1, <2>1, AppendThenLoopType DEF TerminalForStop
<1>2. CASE stop = "MaxTokens"
  <2>1. Exceed(task, "max_tokens") \in TaskState
    BY <1>0, ExceedType
  <2> QED
    BY <1>2, <2>1, AppendThenLoopType DEF TerminalForStop
<1>3. CASE stop \notin {"EndTurn", "MaxTokens"}
  BY <1>0, <1>3, LeaveType DEF TerminalForStop
<1> QED
  BY <1>1, <1>2, <1>3

LEMMA StartType == TypeOK /\ (Submit \/ Begin \/ Recover) => TypeOK'
<1> SUFFICES ASSUME TypeOK, Submit \/ Begin \/ Recover
             PROVE  TypeOK'
  OBVIOUS
<1>0. EngineType /\ EnvironmentType /\ AttemptsType
  BY TypeParts
<1>1. CASE Submit
  BY <1>1 DEF TypeOK, Submit, Points
<1>2. CASE Begin
  <2>1. EngineType'
    <3>1. StartTask(task) \in TaskState /\ "loop" \in Points
      BY StartTaskType, SmallNames
    <3> QED
      BY <1>0, <1>2, <3>1, AppendThenType DEF Begin
  <2>2. EnvironmentType' /\ AttemptsType'
    BY <1>0, <1>2, EnvironmentStays DEF Begin, AttemptsType
  <2> QED
    BY <2>1, <2>2, TypeParts
<1>3. CASE Recover
  BY <1>3 DEF TypeOK, Recover, Points, Exits
<1> QED
  BY <1>1, <1>2, <1>3

LEMMA ContextType ==
  TypeOK /\ (HandleCreated \/ RetrieveContext \/ ContextRetrieved \/ CloseRound)
    => TypeOK'
<1> SUFFICES ASSUME TypeOK,
                    HandleCreated \/ RetrieveContext \/ ContextRetrieved
                      \/ CloseRound
             PROVE  TypeOK'
  OBVIOUS
<1>0. EngineType /\ EnvironmentType /\ AttemptsType /\ task \in TaskState
  BY TypeParts DEF TypeOK
<1>1. PrepareContext(task) \in TaskState /\ ContextFailed(task) \in TaskState
  BY <1>0, PrepareContextType, ContextFailedType
<1>2. EngineType'
  <2>1. CASE HandleCreated
    BY <1>0, <1>1, <2>1, AppendThenLoopType DEF HandleCreated
  <2>2. CASE RetrieveContext
    <3> DEFINE verdict == GuardVerdict("none", 0, 0)
    <3>1. verdict \in Verdicts
      BY VerdictOfGuard
    <3>2. CASE verdict # "none"
      BY <1>0, <2>2, <3>1, <3>2, StopAtGuardType DEF RetrieveContext
    <3>3. CASE verdict = "none"
      BY <1>0, <2>2, <3>3, StayType, SmallNames DEF RetrieveContext
    <3> QED
      BY <3>2, <3>3
  <2>3. CASE ContextRetrieved
    <3>1. CASE AppendThenLoop(CanContextFailed(task), ContextFailed(task))
      BY <1>0, <1>1, <3>1, AppendThenLoopType
    <3>2. ASSUME NEW forbidden \in BOOLEAN, NEW noMatch \in BOOLEAN,
                 AppendThenLoop(CanContextPrepared(task),
                                ContextPrepared(task, forbidden, noMatch))
          PROVE  EngineType'
      <4>1. ContextPrepared(task, forbidden, noMatch) \in TaskState
        BY <1>0, ContextPreparedType
      <4> QED
        BY <1>0, <3>2, <4>1, AppendThenLoopType
    <3> QED
      BY <2>3, <3>1, <3>2 DEF ContextRetrieved
  <2>4. CASE CloseRound
    BY <1>0, <1>1, <2>4, AppendThenLoopType DEF CloseRound
  <2> QED
    BY <2>1, <2>2, <2>3, <2>4
<1>3. EnvironmentType' /\ AttemptsType'
  BY <1>0, EnvironmentStays
     DEF HandleCreated, RetrieveContext, ContextRetrieved, CloseRound, AttemptsType
<1> QED
  BY <1>2, <1>3, TypeParts

LEMMA ModelType ==
  TypeOK /\ (AnswerNoMatch \/ FinishAcceptedAnswer \/ ReissueModelCall
             \/ IssueModelCall \/ ModelCancelled \/ ModelFailed \/ FinishAnswer)
    => TypeOK'
<1> SUFFICES ASSUME TypeOK,
                    AnswerNoMatch \/ FinishAcceptedAnswer \/ ReissueModelCall
                      \/ IssueModelCall \/ ModelCancelled \/ ModelFailed
                      \/ FinishAnswer
             PROVE  TypeOK'
  OBVIOUS
<1>0. EngineType /\ EnvironmentType /\ AttemptsType /\ task \in TaskState
  BY TypeParts DEF TypeOK
<1>1. EngineType'
  <2>1. CASE AnswerNoMatch
    BY <1>0, <2>1, NoMatchType, AppendThenLoopType DEF AnswerNoMatch
  <2>2. CASE FinishAcceptedAnswer
    BY <1>0, <2>2, TerminalForStopType DEF FinishAcceptedAnswer
  <2>3. CASE ReissueModelCall
    <3> DEFINE verdict == GuardVerdict("none", 0, 0)
    <3>1. verdict \in Verdicts
      BY VerdictOfGuard
    <3>2. CASE verdict # "none"
      BY <1>0, <2>3, <3>1, <3>2, StopAtGuardType DEF ReissueModelCall
    <3>3. CASE verdict = "none"
      BY <1>0, <2>3, <3>3, StayType, SmallNames DEF ReissueModelCall
    <3> QED
      BY <3>2, <3>3
  <2>4. CASE IssueModelCall
    <3> DEFINE verdict ==
                 GuardVerdict("max_model_rounds", task.rounds, MaxModelRounds)
               tools == IF task.forbidden \/ dryRun THEN "plain" ELSE "tools"
    <3>1. verdict \in Verdicts
      BY VerdictOfGuard
    <3>2. CASE verdict # "none"
      BY <1>0, <2>4, <3>1, <3>2, StopAtGuardType DEF IssueModelCall
    <3>3. CASE verdict = "none"
      <4>1. tools \in {"plain", "tools"}
        OBVIOUS
      <4>2. StartModelCall(task, tools) \in TaskState /\ "model" \in Points
        BY <1>0, <4>1, StartModelCallType, SmallNames
      <4>3. AppendThen(CanStartModelCall(task, tools),
                       StartModelCall(task, tools), "model")
        BY <2>4, <3>3 DEF IssueModelCall
      <4> QED
        BY <1>0, <4>2, <4>3, AppendThenType
    <3> QED
      BY <3>2, <3>3
  <2>5. CASE ModelCancelled
    <3>1. CancelTask(task, "cancelled") \in TaskState
      BY <1>0, CancelTaskType, SmallNames
    <3> QED
      BY <1>0, <2>5, <3>1, AppendThenLoopType DEF ModelCancelled
  <2>6. CASE ModelFailed
    <3> DEFINE verdict == GuardVerdict("none", 0, 0)
    <3>1. verdict \in Verdicts
      BY VerdictOfGuard
    <3>2. CASE verdict # "none"
      BY <1>0, <2>6, <3>1, <3>2, StopAtGuardType DEF ModelFailed
    <3>3. CASE verdict = "none"
      BY <1>0, <2>6, <3>3, FailModelCallType, AppendThenLoopType DEF ModelFailed
    <3> QED
      BY <3>2, <3>3
  <2>7. CASE FinishAnswer
    BY <1>0, <2>7, TerminalForStopType DEF FinishAnswer
  <2> QED
    BY <2>1, <2>2, <2>3, <2>4, <2>5, <2>6, <2>7
<1>2. EnvironmentType' /\ AttemptsType'
  BY <1>0, EnvironmentStays
     DEF AnswerNoMatch, FinishAcceptedAnswer, ReissueModelCall, IssueModelCall,
         ModelCancelled, ModelFailed, FinishAnswer, AttemptsType
<1> QED
  BY <1>1, <1>2, TypeParts

LEMMA AnswerType == TypeOK /\ ModelAnswers => TypeOK'
<1> SUFFICES ASSUME TypeOK, NEW stop \in StopReasons,
                    NEW asked \in Answers \cup {<<>>}, ModelAnswered(stop, asked)
             PROVE  TypeOK'
  BY DEF ModelAnswers
<1>0. EngineType /\ EnvironmentType /\ AttemptsType /\ task \in TaskState
  BY TypeParts DEF TypeOK
<1>1. EngineType'
  <2> DEFINE point == IF asked = <<>> THEN "accepted" ELSE "loop"
  <2>1. asked \in Seq(Tools)
    <3>1. <<>> \in Seq(Tools)
      OBVIOUS
    <3>2. CASE asked \in Answers
      BY <3>2, EngineParameters, Zenon
    <3> QED
      BY <3>1, <3>2
  <2>2. AcceptAnswer(task, stop, asked) \in TaskState /\ point \in Points
    BY <1>0, <2>1, AcceptAnswerType, SmallNames
  <2>3. AppendThen(CanAcceptAnswer(task, stop, asked),
                   AcceptAnswer(task, stop, asked), point)
    BY DEF ModelAnswered
  <2> HIDE DEF point
  <2> QED
    BY <1>0, <2>2, <2>3, AppendThenType
<1>2. AttemptsType'
  BY <1>0, NoWindowType DEF ModelAnswered, AttemptsType
<1>3. EnvironmentType'
  BY <1>0, EnvironmentStays DEF ModelAnswered
<1> QED
  BY <1>1, <1>2, <1>3, TypeParts

LEMMA RecoveryType ==
  TypeOK /\ (ResumeCall \/ RecoverScreen \/ RecoverFinish) => TypeOK'
<1> SUFFICES ASSUME TypeOK, ResumeCall \/ RecoverScreen \/ RecoverFinish
             PROVE  TypeOK'
  OBVIOUS
<1>0. /\ EngineType /\ EnvironmentType /\ AttemptsType
      /\ task \in TaskState /\ task.active \in Nat
  BY TypeParts DEF TypeOK, TaskState
<1>1. /\ CompleteCall(task, task.active) \in TaskState
      /\ FailCall(task) \in TaskState
      /\ CancelTask(task, "dangerous_pattern") \in TaskState
  BY <1>0, CompleteCallType, FailCallType, CancelTaskType, SmallNames
<1>2. EngineType'
  <2>1. CASE ResumeCall
    <3> DEFINE verdict == GuardVerdict("none", 0, 0)
    <3>1. verdict \in Verdicts
      BY VerdictOfGuard
    <3>2. CASE task.active # task.next + 1
      BY <1>0, <2>1, <3>2, LeaveType, SmallNames DEF ResumeCall
    <3>3. CASE task.active = task.next + 1 /\ verdict # "none"
      BY <1>0, <2>1, <3>1, <3>3, StopAtGuardType DEF ResumeCall
    <3>4. CASE task.active = task.next + 1 /\ verdict = "none"
      BY <1>0, <2>1, <3>4, StayType, SmallNames DEF ResumeCall
    <3> QED
      BY <3>2, <3>3, <3>4
  <2>2. CASE RecoverScreen
    <3>1. CASE Resumed \in HookDenied \/ Resumed \notin Permitted
      BY <1>0, <1>1, <2>2, <3>1, AppendThenLoopType DEF RecoverScreen
    <3>2. CASE /\ ~(Resumed \in HookDenied \/ Resumed \notin Permitted)
               /\ Resumed \in Dangerous
      BY <1>0, <1>1, <2>2, <3>2, AppendThenLoopType DEF RecoverScreen
    <3>3. CASE /\ ~(Resumed \in HookDenied \/ Resumed \notin Permitted)
               /\ Resumed \notin Dangerous
      BY <1>0, <2>2, <3>3, StayType, SmallNames DEF RecoverScreen
    <3> QED
      BY <3>1, <3>2, <3>3
  <2>3. CASE RecoverFinish
    BY <1>0, <1>1, <2>3, AppendThenLoopType DEF RecoverFinish
  <2> QED
    BY <2>1, <2>2, <2>3
<1>3. AttemptsType'
  BY <1>0 DEF ResumeCall, RecoverScreen, RecoverFinish, AttemptsType
<1>4. EnvironmentType'
  BY <1>0, EnvironmentStays DEF ResumeCall, RecoverScreen, RecoverFinish
<1> QED
  BY <1>2, <1>3, <1>4, TypeParts

LEMMA WindowType ==
  TypeOK /\ (OpenWindow \/ StartNext \/ ScreenWindow \/ AllEnded) => TypeOK'
<1> SUFFICES ASSUME TypeOK, OpenWindow \/ StartNext \/ ScreenWindow \/ AllEnded
             PROVE  TypeOK'
  OBVIOUS
<1>0. /\ EngineType /\ EnvironmentType /\ AttemptsType
      /\ task \in TaskState /\ task.next \in Nat
      /\ window \in [first : Nat, size : 0..MaxAnswer, slot : Nat]
  BY TypeParts DEF TypeOK, TaskState
<1>1. CASE OpenWindow
  <2> DEFINE verdict == GuardVerdict("max_tool_calls", task.calls, MaxToolCalls)
  <2>1. verdict \in Verdicts
    BY VerdictOfGuard
  <2>2. EngineType'
    <3>1. CASE verdict # "none"
      BY <1>0, <1>1, <2>1, <3>1, StopAtGuardType DEF OpenWindow
    <3>2. CASE verdict = "none"
      <4>1. PICK n \in 1..MaxAnswer :
               window' = [first |-> task.next + 1, size |-> n, slot |-> 0]
        BY <1>1, <3>2 DEF OpenWindow
      <4>2. window' \in [first : Nat, size : 0..MaxAnswer, slot : Nat]
        BY <1>0, <4>1, BudgetsPositive
      <4>3. /\ pc' = "start"
            /\ UNCHANGED <<durable, log, task, running, outcome, exit, storeFaults>>
        BY <1>1, <3>2 DEF OpenWindow
      <4> QED
        BY <1>0, <4>2, <4>3 DEF EngineType, Points
    <3> QED
      BY <3>1, <3>2
  <2>3. EnvironmentType' /\ AttemptsType'
    BY <1>0, <1>1, EnvironmentStays DEF OpenWindow, AttemptsType
  <2> QED
    BY <2>2, <2>3, TypeParts
<1>2. CASE StartNext
  <2> DEFINE call == task.next + window.slot + 1
             last == window.slot + 1 = window.size
  <2>1. call \in Nat
    BY <1>0
  <2>2. StartCall(task, call) \in TaskState
    BY <1>0, <2>1, StartCallType
  <2>3. EngineType'
    <3>1. CASE /\ Appended(CanStartCall(task, call), StartCall(task, call))
               /\ pc' = IF last THEN "screen" ELSE "start"
               /\ window' = [window EXCEPT !.slot = IF last THEN 0 ELSE @ + 1]
               /\ UNCHANGED <<running, outcome, exit>>
      <4>1. window' \in [first : Nat, size : 0..MaxAnswer, slot : Nat]
        BY <1>0, <3>1
      <4>2. pc' \in Points
        BY <3>1, SmallNames
      <4> QED
        BY <1>0, <2>2, <3>1, <4>1, <4>2, LogFilesType DEF EngineType, Appended
    <3>2. CASE \/ AppendFailed(CanStartCall(task, call), StartCall(task, call))
               \/ AppendRejected(CanStartCall(task, call))
      <4>1. AppendThenLoop(CanStartCall(task, call), StartCall(task, call))
        BY <3>2 DEF AppendThenLoop
      <4> QED
        BY <1>0, <2>2, <4>1, AppendThenLoopType
    <3> QED
      BY <1>2, <3>1, <3>2 DEF StartNext
  <2>4. EnvironmentType' /\ AttemptsType'
    BY <1>0, <1>2, EnvironmentStays DEF StartNext, AttemptsType
  <2> QED
    BY <2>3, <2>4, TypeParts
<1>3. CASE ScreenWindow
  <2>1. EnvironmentType'
    BY <1>0, <1>3, EnvironmentStays DEF ScreenWindow
  <2>2. CASE \E slot \in WindowSlots : PatternHits(slot)
    <3>1. /\ AppendThenLoop(CanCancel(task), CancelTask(task, "dangerous_pattern"))
          /\ UNCHANGED attempts
      BY <1>3, <2>2 DEF ScreenWindow
    <3>2. CancelTask(task, "dangerous_pattern") \in TaskState
      BY <1>0, CancelTaskType, SmallNames
    <3>3. EngineType' /\ AttemptsType'
      BY <1>0, <3>1, <3>2, AppendThenLoopType DEF AttemptsType
    <3> QED
      BY <2>1, <3>3, TypeParts
  <2>3. CASE ~\E slot \in WindowSlots : PatternHits(slot)
    <3> DEFINE denied == {slot \in WindowSlots :
                            HookStops(slot) \/ PermissionStops(slot)}
    <3>1. /\ running' = WindowSlots \ denied
          /\ outcome' = [slot \in Slots |->
                           IF slot \in denied THEN "denied" ELSE "none"]
          /\ attempts' = [i \in Slots |->
                            IF \E slot \in running' : i = CallOf(slot)
                            THEN attempts[i] + 1 ELSE attempts[i]]
          /\ pc' = "execute"
          /\ UNCHANGED <<durable, log, task, window, exit, storeFaults>>
      BY <1>3, <2>3 DEF ScreenWindow
    <3>2. running' \subseteq Slots
      BY <1>0, <3>1, BudgetsPositive DEF WindowSlots, Slots
    <3>3. AttemptsType'
      BY <1>0, <3>1 DEF AttemptsType
    <3>4. outcome' \in [Slots -> {"none", "ok", "failed", "denied"}]
      BY <3>1
    <3>5. EngineType'
      BY <1>0, <3>1, <3>2, <3>4 DEF EngineType, Points
    <3> QED
      BY <2>1, <3>3, <3>5, TypeParts
  <2> QED
    BY <2>2, <2>3
<1>4. CASE AllEnded
  BY <1>4 DEF TypeOK, AllEnded, Points, Environment
<1> QED
  BY <1>1, <1>2, <1>3, <1>4

LEMMA CompletionType ==
  TypeOK /\ ((\E slot \in Slots : ToolEnds(slot)) \/ CompleteSlot) => TypeOK'
<1> SUFFICES ASSUME TypeOK, (\E slot \in Slots : ToolEnds(slot)) \/ CompleteSlot
             PROVE  TypeOK'
  OBVIOUS
<1>0. /\ EngineType /\ EnvironmentType /\ AttemptsType
      /\ task \in TaskState /\ task.next \in Nat
      /\ window \in [first : Nat, size : 0..MaxAnswer, slot : Nat]
  BY TypeParts DEF TypeOK, TaskState
<1>1. ASSUME NEW slot \in Slots, ToolEnds(slot)
      PROVE  TypeOK'
  BY <1>1 DEF TypeOK, ToolEnds, Environment
<1>2. CASE CompleteSlot
  <2> DEFINE call  == CompletedCall
             slot  == window.slot + 1
             owner == CallOf(slot)
             good  == outcome[slot] # "failed" /\ owner = call
             legal == IF good THEN CanCompleteCall(task, owner)
                      ELSE CanFailCall(task, call)
             after == IF good THEN CompleteCall(task, owner) ELSE FailCall(task)
  <2>1. call \in Nat
    BY <1>0 DEF CompletedCall
  <2>2. after \in TaskState
    <3>1. CASE good
      BY <1>0, <2>1, <3>1, CompleteCallType
    <3>2. CASE ~good
      BY <1>0, <3>2, FailCallType
    <3> QED
      BY <3>1, <3>2
  <2>3. EngineType'
    <3>1. CASE call > Len(task.pending)
      BY <1>0, <1>2, <3>1, LeaveType, SmallNames DEF CompleteSlot
    <3>2. CASE /\ Appended(legal, after)
               /\ slot = window.size
               /\ Continue(after)
      <4>1. AppendThenLoop(legal, after)
        BY <3>2 DEF AppendThenLoop
      <4> HIDE DEF legal, after
      <4> QED
        BY <1>0, <2>2, <4>1, AppendThenLoopType
    <3>3. CASE /\ Appended(legal, after)
               /\ pc' = "complete"
               /\ window' = [window EXCEPT !.slot = slot]
               /\ UNCHANGED <<running, outcome, exit>>
      <4>1. window' \in [first : Nat, size : 0..MaxAnswer, slot : Nat]
        BY <1>0, <3>3
      <4> HIDE DEF legal, after
      <4> QED
        BY <1>0, <2>2, <3>3, <4>1, LogFilesType DEF EngineType, Appended, Points
    <3>4. CASE AppendFailed(legal, after) \/ AppendRejected(legal)
      <4>1. AppendThenLoop(legal, after)
        BY <3>4 DEF AppendThenLoop
      <4> HIDE DEF legal, after
      <4> QED
        BY <1>0, <2>2, <4>1, AppendThenLoopType
    <3> QED
      BY <1>2, <3>1, <3>2, <3>3, <3>4 DEF CompleteSlot
  <2>4. EnvironmentType' /\ AttemptsType'
    BY <1>0, <1>2, EnvironmentStays DEF CompleteSlot, AttemptsType
  <2> QED
    BY <2>3, <2>4, TypeParts
<1> QED
  BY <1>1, <1>2

LEMMA OutsideType == TypeOK /\ (Crash \/ Cancel \/ TimePasses) => TypeOK'
<1> SUFFICES ASSUME TypeOK, Crash \/ Cancel \/ TimePasses
             PROVE  TypeOK'
  OBVIOUS
<1>0. EngineType /\ EnvironmentType /\ AttemptsType
  BY TypeParts
<1>1. CASE Crash
  <2>1. EngineType'
    <3>1. log' \in LogFiles
      BY <1>0, <1>1, LogFilesType DEF Crash, EngineType
    <3> QED
      BY <1>0, <1>1, <3>1, NoWindowType, SmallNames DEF Crash, Leave, EngineType
  <2>2. EnvironmentType' /\ AttemptsType'
    BY <1>0, <1>1, EngineParameters DEF Crash, EnvironmentType, AttemptsType
  <2> QED
    BY <2>1, <2>2, TypeParts
<1>2. CASE Cancel
  BY <1>2 DEF TypeOK, Cancel
<1>3. CASE TimePasses
  BY <1>3 DEF TypeOK, TimePasses
<1> QED
  BY <1>1, <1>2, <1>3

(* Every step keeps the types. *)
LEMMA TypeStep == TypeOK /\ [Next]_vars => TypeOK'
<1> SUFFICES ASSUME TypeOK, [Next]_vars
             PROVE  TypeOK'
  OBVIOUS
<1>1. CASE Submit \/ Begin \/ Recover
  BY <1>1, StartType
<1>2. CASE HandleCreated \/ RetrieveContext \/ ContextRetrieved \/ CloseRound
  BY <1>2, ContextType
<1>3. CASE \/ AnswerNoMatch \/ FinishAcceptedAnswer \/ ReissueModelCall
           \/ IssueModelCall \/ ModelCancelled \/ ModelFailed \/ FinishAnswer
  BY <1>3, ModelType
<1>4. CASE ModelAnswers
  BY <1>4, AnswerType
<1>5. CASE ResumeCall \/ RecoverScreen \/ RecoverFinish
  BY <1>5, RecoveryType
<1>6. CASE OpenWindow \/ StartNext \/ ScreenWindow \/ AllEnded
  BY <1>6, WindowType
<1>7. CASE (\E slot \in Slots : ToolEnds(slot)) \/ CompleteSlot
  BY <1>7, CompletionType
<1>8. CASE Crash \/ Cancel \/ TimePasses
  BY <1>8, OutsideType
<1>9. CASE UNCHANGED vars
  BY <1>9 DEF TypeOK, vars
<1> QED
  BY <1>1, <1>2, <1>3, <1>4, <1>5, <1>6, <1>7, <1>8, <1>9
     DEF Next, EngineStep

(* Type correctness: no step, whatever the answers, faults and crashes, leaves    *)
(* the domain of a variable; in particular the durable log always replays to a    *)
(* task state.                                                                    *)
THEOREM TypeCorrect == Spec => []TypeOK
<1>1. Init => TypeOK
  <2> SUFFICES ASSUME Init PROVE TypeOK
    OBVIOUS
  <2>1. 0 \in 0..MaxCrashes /\ 0 \in 0..MaxStoreFaults
    BY EngineParameters
  <2>2. durable \in TaskState /\ task \in TaskState
    BY NoTaskType DEF Init
  <2>3. pc \in Points /\ exit \in Exits /\ log \in LogFiles
    BY SmallNames, LogFilesType DEF Init
  <2> QED
    BY <2>1, <2>2, <2>3, NoWindowType DEF Init, TypeOK
<1>2. TypeOK /\ [Next]_vars => TypeOK'
  BY TypeStep
<1> QED
  BY <1>1, <1>2, PTL DEF Spec
--------------------------------------------------------------------------------


(* The cursors of the open answer: completions never pass starts, the active call *)
(* is the first unfinished started one, the budgets cover what was started, and a *)
(* started, unfinished mutation is alone.  active may be empty with starts left   *)
(* unfinished only when the call budget is spent (the next guard ends the task).  *)
CallsOK(s) ==
  /\ Len(s.pending) <= MaxAnswer
  /\ s.next <= s.dispatch
  /\ s.dispatch <= Len(s.pending)
  /\ s.dispatch <= s.calls
  /\ s.calls <= MaxToolCalls
  /\ s.rounds <= MaxModelRounds
  /\ s.active = 0 \/ (s.active = s.next + 1 /\ s.next < s.dispatch)
  /\ s.status = "AwaitingTool" /\ s.active = 0 /\ s.next < s.dispatch =>
       s.calls = MaxToolCalls
  /\ s.status = "AwaitingTool" => s.pending # <<>>
  /\ s.status \in {"Absent", "Created", "PreparingContext", "AwaitingModel"} =>
       s.pending = <<>>
  /\ \A i, j \in Open(s) : i # j => s.pending[i] \in ConcurrencySafe

(* What the engine knows at each of its points. *)
AtStart ==
  /\ task.status = "AwaitingTool"
  /\ window.first = task.next + 1
  /\ window.slot < window.size
  /\ task.dispatch = task.next + window.slot
  /\ task.next + window.size <= Len(task.pending)
  /\ task.calls + window.size <= MaxToolCalls + window.slot
  /\ window.size = 1 \/ \A i \in task.next + 1 .. task.next + window.size : Safe(i)

AtScreen ==
  /\ task.status = "AwaitingTool"
  /\ window.first = task.next + 1
  /\ window.slot = 0
  /\ window.size > 0
  /\ task.dispatch = task.next + window.size

AtCompletion ==
  /\ task.status # "Absent"
  /\ window.slot < window.size
  /\ window.first + window.size = task.dispatch + 1
  /\ window.slot = 0 => /\ task.status = "AwaitingTool"
                        /\ window.first = task.next + 1

PointOK ==
  /\ pc # "down" => task = durable
  /\ plan = "unsubmitted" =>
       pc = "down" /\ task = durable /\ durable.status = "Absent"
  /\ pc = "begin" => task.status = "Absent"
  /\ pc = "loop" => task.status \notin Terminal /\ task.status # "Absent"
  /\ pc = "retrieve" => task.status = "PreparingContext"
  /\ pc \in {"model", "accepted"} => task.status = "AwaitingModel"
  /\ pc \in {"recover", "recovering"} =>
       task.status = "AwaitingTool" /\ task.active # 0
  /\ pc = "start" => AtStart
  /\ pc \in {"screen", "execute"} => AtScreen
  /\ pc = "complete" => AtCompletion

IInv == TypeOK /\ CallsOK(durable) /\ PointOK

LEMMA FieldTypes ==
  ASSUME NEW STATE s, s \in TaskState
  PROVE  /\ s.pending \in Seq(Tools) /\ Len(s.pending) \in Nat
         /\ s.next \in Nat /\ s.dispatch \in Nat /\ s.active \in Nat
         /\ s.calls \in Nat /\ s.rounds \in Nat
BY DEF TaskState

(* An event that touches no cursor keeps the cursors sound. *)
LEMMA SameCursors ==
  ASSUME NEW STATE s, NEW STATE t, CallsOK(s),
         t.pending = s.pending, t.next = s.next, t.dispatch = s.dispatch,
         t.calls = s.calls, t.rounds = s.rounds,
         \/ t.active = s.active
         \/ t.active = 0 /\ t.status # "AwaitingTool",
         t.status \in {"AwaitingTool", s.status} => t.status = s.status,
         t.status \in {"Absent", "Created", "PreparingContext", "AwaitingModel"} =>
           s.pending = <<>>
  PROVE  CallsOK(t)
BY DEF CallsOK, Open

LEMMA CallsTerminal ==
  ASSUME NEW STATE s, s \in TaskState, CallsOK(s),
         NEW STATE budget, NEW STATE reason
  PROVE  /\ CallsOK(ContextFailed(s)) /\ CallsOK(NoMatch(s))
         /\ CallsOK(FailModelCall(s)) /\ CallsOK(FailCall(s))
         /\ CallsOK(CompleteTask(s)) /\ CallsOK(Exceed(s, budget))
         /\ CallsOK(CancelTask(s, reason))
<1>1. CallsOK(ContextFailed(s))
  BY SameCursors DEF ContextFailed, TaskState
<1>2. CallsOK(NoMatch(s))
  BY SameCursors DEF NoMatch, TaskState
<1>3. CallsOK(FailModelCall(s))
  <2> DEFINE t == FailModelCall(s)
  <2>1. /\ t.pending = s.pending /\ t.next = s.next /\ t.dispatch = s.dispatch
        /\ t.calls = s.calls /\ t.rounds = s.rounds /\ t.active = s.active
        /\ t.status = "Failed"
    BY DEF FailModelCall, TaskState
  <2> QED
    BY <2>1, SameCursors
<1>4. CallsOK(FailCall(s))
  BY SameCursors, ZenonT(30) DEF FailCall, TaskState
<1>5. CallsOK(CompleteTask(s))
  BY SameCursors DEF CompleteTask, TaskState
<1>6. CallsOK(Exceed(s, budget))
  BY SameCursors DEF Exceed, TaskState
<1>7. CallsOK(CancelTask(s, reason))
  BY SameCursors DEF CancelTask, TaskState
<1> QED
  BY <1>1, <1>2, <1>3, <1>4, <1>5, <1>6, <1>7

LEMMA CallsStartTask == ASSUME NEW STATE s PROVE CallsOK(StartTask(s))
<1> DEFINE t == StartTask(s)
<1>1. /\ t.pending = <<>> /\ t.next = 0 /\ t.dispatch = 0 /\ t.calls = 0
      /\ t.rounds = 0 /\ t.active = 0 /\ t.status = "Created"
  BY DEF StartTask, NoTask
<1> QED
  BY <1>1, BudgetsPositive DEF CallsOK, Open

LEMMA CallsPrepareContext ==
  ASSUME NEW STATE s, s \in TaskState, CallsOK(s), CanPrepareContext(s)
  PROVE  CallsOK(PrepareContext(s))
<1> DEFINE t == PrepareContext(s)
<1>1. CASE ToolsComplete(s)
  <2>1. /\ t.pending = <<>> /\ t.next = 0 /\ t.dispatch = 0 /\ t.active = 0
        /\ t.calls = s.calls /\ t.rounds = s.rounds
        /\ t.status = "PreparingContext"
    BY <1>1 DEF PrepareContext, TaskState
  <2> QED
    BY <2>1, FieldTypes, BudgetsPositive DEF CallsOK, Open
<1>2. CASE ~ToolsComplete(s)
  <2>1. /\ t.pending = s.pending /\ t.next = s.next /\ t.dispatch = s.dispatch
        /\ t.active = s.active /\ t.calls = s.calls /\ t.rounds = s.rounds
        /\ t.status = "PreparingContext"
    BY <1>2 DEF PrepareContext, TaskState
  <2>2. s.pending = <<>>
    BY <1>2 DEF CallsOK, CanPrepareContext
  <2> QED
    BY <2>1, <2>2, SameCursors
<1> QED
  BY <1>1, <1>2

LEMMA CallsContextPrepared ==
  ASSUME NEW STATE s, s \in TaskState, CallsOK(s), CanContextPrepared(s),
         NEW forbidden, NEW noMatch
  PROVE  CallsOK(ContextPrepared(s, forbidden, noMatch))
<1> DEFINE t == ContextPrepared(s, forbidden, noMatch)
<1>1. /\ t.pending = s.pending /\ t.next = s.next /\ t.dispatch = s.dispatch
      /\ t.active = s.active /\ t.calls = s.calls /\ t.rounds = s.rounds
      /\ t.status = "AwaitingModel"
  BY DEF ContextPrepared, TaskState
<1>2. s.pending = <<>> /\ s.status = "PreparingContext"
  BY DEF CallsOK, CanContextPrepared
<1> QED
  BY <1>1, <1>2, SameCursors

(* The guard before the call leaves room for one more round. *)
LEMMA CallsStartModelCall ==
  ASSUME NEW STATE s, s \in TaskState, CallsOK(s), s.rounds < MaxModelRounds,
         NEW STATE tools
  PROVE  CallsOK(StartModelCall(s, tools))
<1> DEFINE t == StartModelCall(s, tools)
<1>1. /\ t.pending = s.pending /\ t.next = s.next /\ t.dispatch = s.dispatch
      /\ t.active = s.active /\ t.calls = s.calls /\ t.rounds = s.rounds + 1
      /\ t.status = s.status
  BY DEF StartModelCall, TaskState
<1>2. Open(t) = Open(s) /\ s.rounds + 1 <= MaxModelRounds
  BY <1>1, FieldTypes, BudgetsPositive DEF Open
<1> HIDE DEF t
<1>3. CallsOK(t)
  BY <1>1, <1>2 DEF CallsOK
<1> QED
  BY <1>3 DEF t

LEMMA CallsAcceptAnswer ==
  ASSUME NEW STATE s, s \in TaskState, CallsOK(s), NEW stop,
         NEW asked \in Answers \cup {<<>>}, CanAcceptAnswer(s, stop, asked)
  PROVE  CallsOK(AcceptAnswer(s, stop, asked))
<1> DEFINE t == AcceptAnswer(s, stop, asked)
<1>0. s.status = "AwaitingModel" /\ s.pending = <<>>
  BY DEF CallsOK, CanAcceptAnswer
<1>1. CASE asked = <<>>
  <2>1. /\ t.pending = s.pending /\ t.next = s.next /\ t.dispatch = s.dispatch
        /\ t.active = s.active /\ t.calls = s.calls /\ t.rounds = s.rounds
        /\ t.status = s.status
    BY <1>1 DEF AcceptAnswer, TaskState
  <2> QED
    BY <1>0, <2>1, SameCursors
<1>2. CASE asked # <<>>
  <2>1. /\ t.pending = asked /\ t.next = 0 /\ t.dispatch = 0 /\ t.active = 0
        /\ t.calls = s.calls /\ t.rounds = s.rounds
        /\ t.status = "AwaitingTool"
    BY <1>2 DEF AcceptAnswer, TaskState
  <2>2. asked \in Answers /\ Len(asked) <= MaxAnswer /\ Len(asked) \in Nat
    BY <1>2, EngineParameters
  <2> QED
    BY <1>2, <2>1, <2>2, FieldTypes DEF CallsOK, Open
<1> QED
  BY <1>1, <1>2

(* A start is sound when the allowance covers it and it joins no mutation.       *)
LEMMA CallsStartCall ==
  ASSUME NEW STATE s, s \in TaskState, CallsOK(s), NEW STATE call,
         CanStartCall(s, call), s.calls < MaxToolCalls,
         \/ s.dispatch = s.next
         \/ \A i \in s.next + 1 .. s.dispatch + 1 : s.pending[i] \in ConcurrencySafe
  PROVE  CallsOK(StartCall(s, call))
<1> DEFINE t == StartCall(s, call)
<1>0. /\ s.status = "AwaitingTool" /\ s.dispatch < Len(s.pending)
      /\ call = s.dispatch + 1
  BY DEF CanStartCall
<1>1. /\ t.pending = s.pending /\ t.next = s.next /\ t.dispatch = s.dispatch + 1
      /\ t.calls = s.calls + 1 /\ t.rounds = s.rounds
      /\ t.status = "AwaitingTool"
      /\ t.active = IF s.dispatch = s.next THEN call ELSE s.active
  BY <1>0 DEF StartCall, TaskState
<1>2. \A i, j \in Open(t) : i # j => t.pending[i] \in ConcurrencySafe
  BY <1>1, FieldTypes DEF Open
<1>3. t.active = t.next + 1 /\ t.next < t.dispatch
  BY <1>0, <1>1, FieldTypes, BudgetsPositive DEF CallsOK
<1>4. /\ t.next <= t.dispatch /\ t.dispatch <= Len(t.pending)
      /\ t.dispatch <= t.calls /\ t.calls <= MaxToolCalls
      /\ t.rounds <= MaxModelRounds /\ Len(t.pending) <= MaxAnswer
      /\ t.pending # <<>>
  BY <1>0, <1>1, FieldTypes, BudgetsPositive, SMTT(20) DEF CallsOK
<1>5. t.active # 0
  BY <1>1, <1>3, FieldTypes
<1> QED
  BY <1>1, <1>2, <1>3, <1>4, <1>5 DEF CallsOK

LEMMA CallsCompleteCall ==
  ASSUME NEW STATE s, s \in TaskState, CallsOK(s), NEW STATE call,
         CanCompleteCall(s, call), s.next < s.dispatch
  PROVE  CallsOK(CompleteCall(s, call))
<1> DEFINE t == CompleteCall(s, call)
<1>0. s.status = "AwaitingTool" /\ s.next < Len(s.pending)
  BY DEF CanCompleteCall, AtHead
<1>1. /\ t.pending = s.pending /\ t.next = s.next + 1 /\ t.dispatch = s.dispatch
      /\ t.calls = s.calls /\ t.rounds = s.rounds
      /\ t.status = "AwaitingTool"
      /\ t.active = IF s.dispatch > s.next + 1 /\ s.calls < MaxToolCalls
                    THEN s.next + 2 ELSE 0
  BY <1>0 DEF CompleteCall, TaskState
<1>2. \A i, j \in Open(t) : i # j => t.pending[i] \in ConcurrencySafe
  BY <1>1, FieldTypes DEF CallsOK, Open
<1>3. /\ t.active = 0 \/ (t.active = t.next + 1 /\ t.next < t.dispatch)
      /\ t.active = 0 /\ t.next < t.dispatch => t.calls = MaxToolCalls
  BY <1>0, <1>1, FieldTypes, BudgetsPositive DEF CallsOK
<1>4. /\ t.next <= t.dispatch /\ t.dispatch <= Len(t.pending)
      /\ t.dispatch <= t.calls /\ t.calls <= MaxToolCalls
      /\ t.rounds <= MaxModelRounds /\ Len(t.pending) <= MaxAnswer
      /\ t.pending # <<>>
  BY <1>0, <1>1, FieldTypes, BudgetsPositive DEF CallsOK
<1> QED
  BY <1>1, <1>2, <1>3, <1>4 DEF CallsOK

--------------------------------------------------------------------------------
(* How the points of the engine keep their facts. *)

LEMMA SubmittedWhileUp == ASSUME PointOK, pc # "down" PROVE plan # "unsubmitted"
BY DEF PointOK

LEMMA DownOK ==
  ASSUME pc' = "down", plan' # "unsubmitted"
  PROVE  PointOK'
BY DEF PointOK

LEMMA LoopOK ==
  ASSUME pc' = "loop", plan' # "unsubmitted", task' = durable',
         task'.status \notin Terminal, task'.status # "Absent"
  PROVE  PointOK'
BY DEF PointOK

(* The log is replaced by what the event leads to. *)
LEMMA CallsWritten ==
  ASSUME NEW STATE after, CallsOK(after), durable' = after
  PROVE  CallsOK(durable)'
BY DEF CallsOK, Open

(* Any append: the log is what it was or what the event leads to. *)
LEMMA AppendThenLoopOK ==
  ASSUME IInv, pc # "down", UNCHANGED plan,
         NEW STATE legal, NEW STATE after, legal => CallsOK(after),
         after.status # "Absent", AppendThenLoop(legal, after)
  PROVE  CallsOK(durable)' /\ PointOK'
<1>0. CallsOK(durable) /\ plan' # "unsubmitted"
  BY SubmittedWhileUp DEF IInv
<1>1. CASE Appended(legal, after) /\ Continue(after)
  <2>1. legal /\ durable' = after /\ task' = after
    BY <1>1 DEF Appended
  <2>2. CallsOK(durable)'
    BY <2>1, CallsWritten
  <2>3. CASE IsTerminal(after)
    BY <1>0, <1>1, <2>2, <2>3, DownOK DEF Continue, Leave
  <2>4. CASE ~IsTerminal(after)
    BY <1>0, <1>1, <2>1, <2>2, <2>4, LoopOK DEF Continue, IsTerminal
  <2> QED
    BY <2>2, <2>3, <2>4
<1>2. CASE AppendFailed(legal, after)
  <2>1. CallsOK(durable)'
    BY <1>0, <1>2 DEF AppendFailed, CallsOK, Open
  <2> QED
    BY <1>0, <1>2, <2>1, DownOK DEF AppendFailed, Leave
<1>3. CASE AppendRejected(legal)
  <2>1. CallsOK(durable)'
    BY <1>0, <1>3 DEF AppendRejected, CallsOK, Open
  <2> QED
    BY <1>0, <1>3, <2>1, DownOK DEF AppendRejected, Leave
<1> QED
  BY <1>1, <1>2, <1>3 DEF AppendThenLoop

LEMMA AppendThenOK ==
  ASSUME IInv, pc # "down", UNCHANGED plan,
         NEW STATE legal, NEW STATE after, legal => CallsOK(after),
         NEW point, AppendThen(legal, after, point),
         legal /\ task' = after /\ durable' = after /\ pc' = point => PointOK'
  PROVE  CallsOK(durable)' /\ PointOK'
<1>0. CallsOK(durable) /\ plan' # "unsubmitted"
  BY SubmittedWhileUp DEF IInv
<1>1. CASE Appended(legal, after) /\ pc' = point /\ Stay
  <2>1. legal /\ durable' = after /\ task' = after /\ pc' = point
    BY <1>1 DEF Appended
  <2>2. CallsOK(durable)'
    BY <2>1, CallsWritten
  <2> QED
    BY <2>1, <2>2
<1>2. CASE AppendFailed(legal, after)
  <2>1. CallsOK(durable)'
    BY <1>0, <1>2 DEF AppendFailed, CallsOK, Open
  <2> QED
    BY <1>0, <1>2, <2>1, DownOK DEF AppendFailed, Leave
<1>3. CASE AppendRejected(legal)
  <2>1. CallsOK(durable)'
    BY <1>0, <1>3 DEF AppendRejected, CallsOK, Open
  <2> QED
    BY <1>0, <1>3, <2>1, DownOK DEF AppendRejected, Leave
<1> QED
  BY <1>1, <1>2, <1>3 DEF AppendThen

(* The log is not written and the process stays or leaves. *)
LEMMA DurableStays ==
  ASSUME IInv, UNCHANGED durable
  PROVE  CallsOK(durable)'
BY DEF IInv, CallsOK, Open

(* No event leads back to an empty log. *)
LEMMA Present ==
  ASSUME NEW STATE s, s \in TaskState, NEW STATE x, NEW y, NEW z
  PROVE  /\ StartTask(s).status = "Created"
         /\ PrepareContext(s).status = "PreparingContext"
         /\ ContextPrepared(s, y, z).status = "AwaitingModel"
         /\ ContextFailed(s).status = "Failed"
         /\ NoMatch(s).status = "Completed"
         /\ StartModelCall(s, x).status = s.status
         /\ FailModelCall(s).status = "Failed"
         /\ StartCall(s, x).status = s.status
         /\ CompleteCall(s, x).status = s.status
         /\ FailCall(s).status = "Failed"
         /\ CompleteTask(s).status = "Completed"
         /\ Exceed(s, x).status = "BudgetExceeded"
         /\ CancelTask(s, x).status = "Cancelled"
<1>1. /\ StartTask(s).status = "Created"
      /\ PrepareContext(s).status = "PreparingContext"
  BY DEF StartTask, NoTask, PrepareContext, TaskState
<1>2. /\ ContextPrepared(s, y, z).status = "AwaitingModel"
      /\ ContextFailed(s).status = "Failed"
      /\ NoMatch(s).status = "Completed"
  BY DEF ContextPrepared, ContextFailed, NoMatch, TaskState
<1>3. /\ StartModelCall(s, x).status = s.status
      /\ FailModelCall(s).status = "Failed"
  BY DEF StartModelCall, FailModelCall, TaskState
<1>4. /\ StartCall(s, x).status = s.status
      /\ CompleteCall(s, x).status = s.status
      /\ FailCall(s).status = "Failed"
  BY DEF StartCall, CompleteCall, FailCall, TaskState
<1>5. /\ CompleteTask(s).status = "Completed"
      /\ Exceed(s, x).status = "BudgetExceeded"
      /\ CancelTask(s, x).status = "Cancelled"
  BY DEF CompleteTask, Exceed, CancelTask, TaskState
<1> QED
  BY <1>1, <1>2, <1>3, <1>4, <1>5

LEMMA GuardStopOK ==
  ASSUME IInv, pc # "down", UNCHANGED plan, NEW STATE verdict, StopAtGuard(verdict)
  PROVE  CallsOK(durable)' /\ PointOK'
<1>0. task \in TaskState /\ CallsOK(task) /\ task = durable
  BY DEF IInv, TypeOK, PointOK
<1>1. CASE verdict = "cancelled"
  <2>1. /\ CallsOK(CancelTask(task, "cancelled"))
        /\ CancelTask(task, "cancelled").status # "Absent"
    BY <1>0, CallsTerminal, Present
  <2> QED
    BY <1>1, <2>1, AppendThenLoopOK DEF StopAtGuard
<1>2. CASE verdict # "cancelled"
  <2>1. CallsOK(Exceed(task, verdict)) /\ Exceed(task, verdict).status # "Absent"
    BY <1>0, CallsTerminal, Present
  <2> QED
    BY <1>2, <2>1, AppendThenLoopOK DEF StopAtGuard
<1> QED
  BY <1>1, <1>2

LEMMA TerminalForStopOK ==
  ASSUME IInv, pc # "down", UNCHANGED plan, NEW STATE stop, TerminalForStop(stop)
  PROVE  CallsOK(durable)' /\ PointOK'
<1>0. task \in TaskState /\ CallsOK(task) /\ task = durable
  BY DEF IInv, TypeOK, PointOK
<1>1. /\ CallsOK(CompleteTask(task)) /\ CompleteTask(task).status # "Absent"
      /\ CallsOK(Exceed(task, "max_tokens"))
      /\ Exceed(task, "max_tokens").status # "Absent"
  BY <1>0, CallsTerminal, Present
<1>2. CASE stop = "EndTurn"
  BY <1>1, <1>2, AppendThenLoopOK DEF TerminalForStop
<1>3. CASE stop = "MaxTokens"
  BY <1>1, <1>3, AppendThenLoopOK DEF TerminalForStop
<1>4. CASE stop \notin {"EndTurn", "MaxTokens"}
  <2>1. pc' = "down" /\ UNCHANGED <<durable, task>>
    BY <1>4 DEF TerminalForStop, Leave
  <2>2. plan' # "unsubmitted"
    BY SubmittedWhileUp DEF IInv
  <2> QED
    BY <2>1, <2>2, DownOK, DurableStays
<1> QED
  BY <1>2, <1>3, <1>4

LEMMA StartSafe ==
  IInv /\ (Submit \/ Begin \/ Recover) => CallsOK(durable)' /\ PointOK'
<1> SUFFICES ASSUME IInv, Submit \/ Begin \/ Recover
             PROVE  CallsOK(durable)' /\ PointOK'
  OBVIOUS
<1>0. PointOK
  BY DEF IInv
<1>1. CASE Submit
  <2>1. UNCHANGED <<durable, task>> /\ pc' = "begin" /\ plan' \in {"plan", "act"}
    BY <1>1 DEF Submit
  <2>2. task = durable /\ durable.status = "Absent"
    BY <1>0, <1>1 DEF PointOK, Submit
  <2>3. PointOK'
    BY <2>1, <2>2 DEF PointOK
  <2> QED
    BY <2>1, <2>3, DurableStays
<1>2. CASE Begin
  <2>1. /\ pc = "begin" /\ UNCHANGED plan
        /\ AppendThen(CanStartTask(task), StartTask(task), "loop")
    BY <1>2 DEF Begin, Environment
  <2>2. CallsOK(StartTask(task)) /\ StartTask(task).status = "Created"
    BY CallsStartTask, Present DEF IInv, TypeOK
  <2>3. plan' # "unsubmitted"
    BY <1>0, <2>1, SubmittedWhileUp
  <2>4. ASSUME task' = StartTask(task), durable' = StartTask(task), pc' = "loop"
        PROVE  PointOK'
    BY <2>2, <2>3, <2>4, LoopOK DEF Terminal
  <2> QED
    BY <2>1, <2>2, <2>4, AppendThenOK
<1>3. CASE Recover
  <2>1. /\ UNCHANGED <<durable, plan>> /\ plan # "unsubmitted" /\ task' = durable
        /\ ~IsTerminal(durable)
        /\ pc' = IF durable.status = "Absent" THEN "begin" ELSE "loop"
    BY <1>3 DEF Recover
  <2>2. PointOK'
    BY <2>1 DEF PointOK, IsTerminal
  <2> QED
    BY <2>1, <2>2, DurableStays
<1> QED
  BY <1>1, <1>2, <1>3

LEMMA ContextSafe ==
  IInv /\ (HandleCreated \/ RetrieveContext \/ ContextRetrieved \/ CloseRound)
    => CallsOK(durable)' /\ PointOK'
<1> SUFFICES ASSUME IInv,
                    HandleCreated \/ RetrieveContext \/ ContextRetrieved
                      \/ CloseRound
             PROVE  CallsOK(durable)' /\ PointOK'
  OBVIOUS
<1>0. /\ PointOK /\ pc # "down" /\ UNCHANGED plan
      /\ task \in TaskState /\ task = durable /\ CallsOK(task)
  BY DEF IInv, TypeOK, PointOK, HandleCreated, RetrieveContext, ContextRetrieved,
         CloseRound, AtTools, Environment
<1>1. /\ CanPrepareContext(task) => CallsOK(PrepareContext(task))
      /\ PrepareContext(task).status # "Absent"
  BY <1>0, CallsPrepareContext, Present
<1>2. CASE HandleCreated
  BY <1>0, <1>1, <1>2, AppendThenLoopOK DEF HandleCreated
<1>3. CASE RetrieveContext
  <2> DEFINE verdict == GuardVerdict("none", 0, 0)
  <2>1. CASE verdict # "none"
    BY <1>0, <1>3, <2>1, GuardStopOK DEF RetrieveContext
  <2>2. CASE verdict = "none"
    <3>1. /\ pc' = "retrieve" /\ UNCHANGED <<durable, task, plan>>
          /\ task.status = "PreparingContext"
      BY <1>0, <1>3, <2>2 DEF RetrieveContext
    <3>2. PointOK'
      BY <1>0, <3>1, SubmittedWhileUp DEF PointOK
    <3> QED
      BY <3>1, <3>2, DurableStays
  <2> QED
    BY <2>1, <2>2
<1>4. CASE ContextRetrieved
  <2>1. CASE AppendThenLoop(CanContextFailed(task), ContextFailed(task))
    <3>1. CallsOK(ContextFailed(task)) /\ ContextFailed(task).status # "Absent"
      BY <1>0, CallsTerminal, Present
    <3> QED
      BY <1>0, <2>1, <3>1, AppendThenLoopOK
  <2>2. ASSUME NEW forbidden \in BOOLEAN, NEW noMatch \in BOOLEAN,
               AppendThenLoop(CanContextPrepared(task),
                              ContextPrepared(task, forbidden, noMatch))
        PROVE  CallsOK(durable)' /\ PointOK'
    <3>1. /\ CanContextPrepared(task) =>
               CallsOK(ContextPrepared(task, forbidden, noMatch))
          /\ ContextPrepared(task, forbidden, noMatch).status # "Absent"
      BY <1>0, CallsContextPrepared, Present
    <3> QED
      BY <1>0, <2>2, <3>1, AppendThenLoopOK
  <2> QED
    BY <1>4, <2>1, <2>2 DEF ContextRetrieved
<1>5. CASE CloseRound
  BY <1>0, <1>1, <1>5, AppendThenLoopOK DEF CloseRound
<1> QED
  BY <1>2, <1>3, <1>4, <1>5


LEMMA ModelPointOK ==
  ASSUME pc' \in {"model", "accepted"}, plan' # "unsubmitted", task' = durable',
         task'.status = "AwaitingModel"
  PROVE  PointOK'
BY DEF PointOK

LEMMA ModelSafe ==
  IInv /\ (AnswerNoMatch \/ FinishAcceptedAnswer \/ ReissueModelCall
           \/ IssueModelCall \/ ModelCancelled \/ ModelFailed \/ FinishAnswer)
    => CallsOK(durable)' /\ PointOK'
<1> SUFFICES ASSUME IInv,
                    AnswerNoMatch \/ FinishAcceptedAnswer \/ ReissueModelCall
                      \/ IssueModelCall \/ ModelCancelled \/ ModelFailed
                      \/ FinishAnswer
             PROVE  CallsOK(durable)' /\ PointOK'
  OBVIOUS
<1>0. /\ PointOK /\ pc # "down" /\ UNCHANGED plan
      /\ task \in TaskState /\ task = durable /\ CallsOK(task)
  BY DEF IInv, TypeOK, PointOK, AnswerNoMatch, FinishAcceptedAnswer,
         ReissueModelCall, IssueModelCall, ModelCancelled, ModelFailed,
         FinishAnswer, AtModel, Environment
<1>1. /\ CallsOK(NoMatch(task)) /\ NoMatch(task).status # "Absent"
      /\ CallsOK(FailModelCall(task)) /\ FailModelCall(task).status # "Absent"
      /\ CallsOK(CancelTask(task, "cancelled"))
      /\ CancelTask(task, "cancelled").status # "Absent"
      /\ plan' # "unsubmitted"
  BY <1>0, CallsTerminal, Present, SubmittedWhileUp
<1>2. CASE AnswerNoMatch
  BY <1>0, <1>1, <1>2, AppendThenLoopOK DEF AnswerNoMatch
<1>3. CASE FinishAcceptedAnswer
  BY <1>0, <1>3, TerminalForStopOK DEF FinishAcceptedAnswer
<1>4. CASE ReissueModelCall
  <2> DEFINE verdict == GuardVerdict("none", 0, 0)
  <2>1. CASE verdict # "none"
    BY <1>0, <1>4, <2>1, GuardStopOK DEF ReissueModelCall
  <2>2. CASE verdict = "none"
    <3>1. /\ pc' = "model" /\ UNCHANGED <<durable, task>>
          /\ task.status = "AwaitingModel"
      BY <1>4, <2>2 DEF ReissueModelCall, AtModel
    <3> QED
      BY <1>0, <1>1, <3>1, ModelPointOK, DurableStays
  <2> QED
    BY <2>1, <2>2
<1>5. CASE IssueModelCall
  <2> DEFINE verdict ==
               GuardVerdict("max_model_rounds", task.rounds, MaxModelRounds)
             tools == IF task.forbidden \/ dryRun THEN "plain" ELSE "tools"
  <2>1. CASE verdict # "none"
    BY <1>0, <1>5, <2>1, GuardStopOK DEF IssueModelCall
  <2>2. CASE verdict = "none"
    <3>1. /\ AppendThen(CanStartModelCall(task, tools),
                        StartModelCall(task, tools), "model")
          /\ task.status = "AwaitingModel"
      BY <1>5, <2>2 DEF IssueModelCall, AtModel
    <3>2. task.rounds < MaxModelRounds
      BY <1>0, <2>2, FieldTypes, BudgetsPositive DEF GuardVerdict
    <3>3. CallsOK(StartModelCall(task, tools))
      BY <1>0, <3>2, CallsStartModelCall
    <3>4. StartModelCall(task, tools).status = "AwaitingModel"
      BY <1>0, <3>1, Present
    <3> HIDE DEF tools
    <3>5. ASSUME task' = StartModelCall(task, tools),
                 durable' = StartModelCall(task, tools), pc' = "model"
          PROVE  PointOK'
      BY <1>1, <3>4, <3>5, ModelPointOK
    <3> QED
      BY <1>0, <3>1, <3>3, <3>5, AppendThenOK
  <2> QED
    BY <2>1, <2>2
<1>6. CASE ModelCancelled
  BY <1>0, <1>1, <1>6, AppendThenLoopOK DEF ModelCancelled
<1>7. CASE ModelFailed
  <2> DEFINE verdict == GuardVerdict("none", 0, 0)
  <2>1. CASE verdict # "none"
    BY <1>0, <1>7, <2>1, GuardStopOK DEF ModelFailed
  <2>2. CASE verdict = "none"
    BY <1>0, <1>1, <1>7, <2>2, AppendThenLoopOK DEF ModelFailed
  <2> QED
    BY <2>1, <2>2
<1>8. CASE FinishAnswer
  BY <1>0, <1>8, TerminalForStopOK DEF FinishAnswer
<1> QED
  BY <1>2, <1>3, <1>4, <1>5, <1>6, <1>7, <1>8

LEMMA AnswerSafe == IInv /\ ModelAnswers => CallsOK(durable)' /\ PointOK'
<1> SUFFICES ASSUME IInv, NEW stop \in StopReasons,
                    NEW asked \in Answers \cup {<<>>}, ModelAnswered(stop, asked)
             PROVE  CallsOK(durable)' /\ PointOK'
  BY DEF ModelAnswers
<1> DEFINE after == AcceptAnswer(task, stop, asked)
           legal == CanAcceptAnswer(task, stop, asked)
           point == IF asked = <<>> THEN "accepted" ELSE "loop"
<1>0. /\ pc # "down" /\ UNCHANGED plan /\ AppendThen(legal, after, point)
      /\ task \in TaskState /\ task = durable /\ CallsOK(task)
      /\ task.status = "AwaitingModel"
  BY DEF IInv, TypeOK, PointOK, ModelAnswered, Environment
<1>1. plan' # "unsubmitted"
  BY <1>0, SubmittedWhileUp DEF IInv
<1>2. legal => CallsOK(after)
  BY <1>0, CallsAcceptAnswer
<1>3. after.status = IF asked = <<>> THEN "AwaitingModel" ELSE "AwaitingTool"
  BY <1>0 DEF AcceptAnswer, TaskState
<1>4. ASSUME task' = after, durable' = after, pc' = point PROVE PointOK'
  <2>1. CASE asked = <<>>
    BY <1>1, <1>3, <1>4, <2>1, ModelPointOK
  <2>2. CASE asked # <<>>
    BY <1>1, <1>3, <1>4, <2>2, LoopOK DEF Terminal
  <2> QED
    BY <2>1, <2>2
<1> HIDE DEF after, legal, point
<1> QED
  BY <1>0, <1>2, <1>4, AppendThenOK

LEMMA RecoverySafe ==
  IInv /\ (ResumeCall \/ RecoverScreen \/ RecoverFinish)
    => CallsOK(durable)' /\ PointOK'
<1> SUFFICES ASSUME IInv, ResumeCall \/ RecoverScreen \/ RecoverFinish
             PROVE  CallsOK(durable)' /\ PointOK'
  OBVIOUS
<1>0. /\ PointOK /\ pc # "down" /\ UNCHANGED plan
      /\ task \in TaskState /\ task = durable /\ CallsOK(task)
      /\ task.status = "AwaitingTool" /\ task.active # 0
  BY DEF IInv, TypeOK, PointOK, ResumeCall, RecoverScreen, RecoverFinish, AtTools,
         Environment
<1>1. /\ CanCompleteCall(task, task.active) =>
           CallsOK(CompleteCall(task, task.active))
      /\ CompleteCall(task, task.active).status # "Absent"
  <2>1. task.next < task.dispatch
    BY <1>0 DEF CallsOK
  <2>2. CompleteCall(task, task.active).status = task.status
    BY <1>0, Present
  <2> QED
    BY <1>0, <2>1, <2>2, CallsCompleteCall
<1>2. /\ CallsOK(FailCall(task)) /\ FailCall(task).status # "Absent"
      /\ CallsOK(CancelTask(task, "dangerous_pattern"))
      /\ CancelTask(task, "dangerous_pattern").status # "Absent"
      /\ plan' # "unsubmitted"
  BY <1>0, CallsTerminal, Present, SubmittedWhileUp
<1>3. ASSUME pc' \in {"recover", "recovering"}, UNCHANGED <<durable, task>>
      PROVE  CallsOK(durable)' /\ PointOK'
  BY <1>0, <1>2, <1>3, DurableStays DEF PointOK
<1>4. CASE ResumeCall
  <2> DEFINE verdict == GuardVerdict("none", 0, 0)
  <2>1. task.active = task.next + 1
    BY <1>0 DEF CallsOK
  <2>2. CASE verdict # "none"
    BY <1>0, <1>4, <2>1, <2>2, GuardStopOK DEF ResumeCall
  <2>3. CASE verdict = "none"
    BY <1>3, <1>4, <2>1, <2>3 DEF ResumeCall
  <2> QED
    BY <2>2, <2>3
<1>5. CASE RecoverScreen
  <2>1. CASE AppendThenLoop(CanCompleteCall(task, task.active),
                            CompleteCall(task, task.active))
    BY <1>0, <1>1, <2>1, AppendThenLoopOK
  <2>2. CASE AppendThenLoop(CanCancel(task), CancelTask(task, "dangerous_pattern"))
    BY <1>0, <1>2, <2>2, AppendThenLoopOK
  <2>3. CASE pc' = "recovering" /\ UNCHANGED <<durable, task>>
    BY <1>3, <2>3
  <2> QED
    BY <1>5, <2>1, <2>2, <2>3 DEF RecoverScreen
<1>6. CASE RecoverFinish
  <2>1. CASE AppendThenLoop(CanCompleteCall(task, task.active),
                            CompleteCall(task, task.active))
    BY <1>0, <1>1, <2>1, AppendThenLoopOK
  <2>2. CASE AppendThenLoop(CanFailCall(task, task.active), FailCall(task))
    BY <1>0, <1>2, <2>2, AppendThenLoopOK
  <2> QED
    BY <1>6, <2>1, <2>2 DEF RecoverFinish
<1> QED
  BY <1>4, <1>5, <1>6

(* The window opens on calls nothing was started for, within the allowance. *)
LEMMA OpenSafe == IInv /\ OpenWindow => CallsOK(durable)' /\ PointOK'
<1> SUFFICES ASSUME IInv, OpenWindow
             PROVE  CallsOK(durable)' /\ PointOK'
  OBVIOUS
<1> DEFINE verdict == GuardVerdict("max_tool_calls", task.calls, MaxToolCalls)
<1>0. /\ PointOK /\ pc # "down" /\ UNCHANGED plan
      /\ task \in TaskState /\ task = durable /\ CallsOK(task)
      /\ task.status = "AwaitingTool" /\ task.active = 0
  BY DEF IInv, TypeOK, PointOK, OpenWindow, AtTools, Environment
<1>1. CASE verdict # "none"
  BY <1>0, <1>1, GuardStopOK DEF OpenWindow
<1>2. CASE verdict = "none"
  <2>1. PICK n \in 1..MaxAnswer :
          /\ WindowSize(n)
          /\ window' = [first |-> task.next + 1, size |-> n, slot |-> 0]
    BY <1>2 DEF OpenWindow
  <2>2. pc' = "start" /\ UNCHANGED <<durable, task>>
    BY <1>2 DEF OpenWindow
  <2>3. task.calls < MaxToolCalls
    BY <1>0, <1>2, FieldTypes, BudgetsPositive DEF GuardVerdict
  <2>4. task.dispatch = task.next
    BY <1>0, <2>3, FieldTypes, BudgetsPositive DEF CallsOK
  <2>5. /\ n \in Nat /\ n <= Len(task.pending) - task.next
        /\ task.calls + n <= MaxToolCalls
        /\ n = 1 \/ \A i \in task.next + 1 .. task.next + n : Safe(i)
    BY <1>0, <2>1, FieldTypes, BudgetsPositive DEF WindowSize, Allowed, Batch
  <2>6. window'.first = task.next + 1 /\ window'.size = n /\ window'.slot = 0
    BY <2>1
  <2>7. \A i : Safe(i)' <=> Safe(i)
    BY <2>2 DEF Safe
  <2>8. AtStart'
    BY <1>0, <2>1, <2>2, <2>4, <2>5, <2>6, <2>7, FieldTypes, BudgetsPositive
       DEF AtStart
  <2>9. plan' # "unsubmitted"
    BY <1>0, SubmittedWhileUp
  <2> QED
    BY <1>0, <2>2, <2>8, <2>9, DurableStays DEF PointOK
<1> QED
  BY <1>1, <1>2

LEMMA StartNextSafe == IInv /\ StartNext => CallsOK(durable)' /\ PointOK'
<1> SUFFICES ASSUME IInv, StartNext
             PROVE  CallsOK(durable)' /\ PointOK'
  OBVIOUS
<1> DEFINE call == task.next + window.slot + 1
           last == window.slot + 1 = window.size
           after == StartCall(task, call)
           legal == CanStartCall(task, call)
<1>0. /\ PointOK /\ pc # "down" /\ UNCHANGED plan /\ AtStart
      /\ task \in TaskState /\ task = durable /\ CallsOK(task)
      /\ window \in [first : Nat, size : 0..MaxAnswer, slot : Nat]
      /\ plan' # "unsubmitted"
  BY SubmittedWhileUp DEF IInv, TypeOK, PointOK, StartNext, Environment
<1>1. /\ task.calls < MaxToolCalls
      /\ \/ task.dispatch = task.next
         \/ \A i \in task.next + 1 .. task.dispatch + 1 :
              task.pending[i] \in ConcurrencySafe
  <2>1. task.calls < MaxToolCalls
    BY <1>0, FieldTypes, BudgetsPositive DEF AtStart
  <2>2. CASE window.size = 1
    BY <1>0, <2>1, <2>2, FieldTypes, BudgetsPositive DEF AtStart
  <2>3. CASE \A i \in task.next + 1 .. task.next + window.size : Safe(i)
    BY <1>0, <2>1, <2>3, FieldTypes, BudgetsPositive DEF AtStart, Safe
  <2> QED
    BY <1>0, <2>2, <2>3 DEF AtStart
<1>2. legal => CallsOK(after)
  BY <1>0, <1>1, CallsStartCall
<1>3. /\ after.status = "AwaitingTool" /\ after.next = task.next
      /\ after.dispatch = task.dispatch + 1 /\ after.pending = task.pending
      /\ after.calls = task.calls + 1
  BY <1>0 DEF StartCall, TaskState, AtStart
<1>4. CASE /\ Appended(legal, after)
           /\ pc' = IF last THEN "screen" ELSE "start"
           /\ window' = [window EXCEPT !.slot = IF last THEN 0 ELSE @ + 1]
           /\ UNCHANGED <<running, outcome, exit>>
  <2>1. legal /\ durable' = after /\ task' = after
    BY <1>4 DEF Appended
  <2>2. CallsOK(durable)'
    BY <1>2, <2>1, CallsWritten
  <2>3. /\ window'.first = window.first /\ window'.size = window.size
        /\ window'.slot = IF last THEN 0 ELSE window.slot + 1
    BY <1>0, <1>4
  <2>4. /\ task'.status = "AwaitingTool" /\ task'.next = task.next
        /\ task'.dispatch = task.dispatch + 1 /\ task'.pending = task.pending
        /\ task'.calls = task.calls + 1 /\ task' = durable'
    BY <1>3, <2>1
  <2>. /\ window.first \in Nat /\ window.size \in Nat /\ window.slot \in Nat
       /\ task.next \in Nat /\ task.dispatch \in Nat /\ task.calls \in Nat
       /\ Len(task.pending) \in Nat /\ MaxToolCalls \in Nat
    <3>1. window.size \in 0..MaxAnswer /\ MaxAnswer \in Nat
      BY <1>0, BudgetsPositive
    <3> QED
      BY <1>0, <3>1, FieldTypes, BudgetsPositive
  <2>7. /\ window.first = task.next + 1
        /\ window.slot < window.size
        /\ task.dispatch = task.next + window.slot
        /\ task.next + window.size <= Len(task.pending)
        /\ task.calls + window.size <= MaxToolCalls + window.slot
    BY <1>0 DEF AtStart
  <2>5. CASE last
    <3>1. pc' = "screen" /\ window'.slot = 0
      BY <1>4, <2>3, <2>5
    <3>2. /\ task'.status = "AwaitingTool"
          /\ window'.first = task'.next + 1
          /\ window'.size > 0
          /\ task'.dispatch = task'.next + window'.size
      <4>1. task'.dispatch = task'.next + window'.size
        <5>1. window.slot + 1 = window.size
          BY <2>5
        <5>2. task.dispatch + 1 = task.next + window.size
          BY <2>7, <5>1
        <5>3. window'.size = window.size
          BY <2>3
        <5>4. task'.dispatch = task.dispatch + 1 /\ task'.next = task.next
          BY <2>4
        <5> QED
          BY <5>2, <5>3, <5>4
      <4>2. window'.first = task'.next + 1
        BY <2>3, <2>4, <2>7
      <4>3. window'.size > 0
        BY <2>3, <2>7
      <4>4. task'.status = "AwaitingTool"
        BY <2>4
      <4> QED
        BY <4>1, <4>2, <4>3, <4>4
    <3>3. AtScreen'
      BY <3>1, <3>2 DEF AtScreen
    <3> QED
      BY <1>0, <2>2, <2>4, <3>1, <3>3 DEF PointOK
  <2>6. CASE ~last
    <3>1. \A i : Safe(i)' <=> Safe(i)
      BY <2>4 DEF Safe
    <3>2. /\ window'.first = task'.next + 1
          /\ window'.slot < window'.size
          /\ task'.dispatch = task'.next + window'.slot
          /\ task'.next + window'.size <= Len(task'.pending)
          /\ task'.calls + window'.size <= MaxToolCalls + window'.slot
      <4>1. window'.slot = window.slot + 1
        BY <2>3, <2>6
      <4>2. window.slot + 1 < window.size
        BY <2>6, <2>7
      <4>3. /\ task'.dispatch = task.dispatch + 1 /\ task'.next = task.next
            /\ task'.calls = task.calls + 1
            /\ Len(task'.pending) = Len(task.pending)
        BY <2>4
      <4>4. window'.first = window.first /\ window'.size = window.size
        BY <2>3
      <4>5. window'.first = task'.next + 1 /\ window'.slot < window'.size
        BY <2>7, <4>1, <4>2, <4>3, <4>4
      <4>6. task'.dispatch = task'.next + window'.slot
        <5>1. task.dispatch + 1 = task.next + (window.slot + 1)
          BY <2>7
        <5> QED
          BY <4>1, <4>3, <5>1
      <4>7. task'.next + window'.size <= Len(task'.pending)
        BY <2>7, <4>3, <4>4
      <4>8. task'.calls + window'.size <= MaxToolCalls + window'.slot
        <5>0. \A a, b, c, d \in Nat :
                a + b <= c + d => (a + 1) + b <= c + (d + 1)
          OBVIOUS
        <5>1. (task.calls + 1) + window.size <= MaxToolCalls + (window.slot + 1)
          BY <2>7, <5>0
        <5> QED
          BY <4>1, <4>3, <4>4, <5>1
      <4> QED
        BY <4>5, <4>6, <4>7, <4>8
    <3>3. \/ window'.size = 1
          \/ \A i \in task'.next + 1 .. task'.next + window'.size : Safe(i)'
      BY <1>0, <2>3, <2>4, <3>1 DEF AtStart
    <3>4. AtStart' /\ pc' = "start"
      BY <1>4, <2>4, <2>6, <3>2, <3>3 DEF AtStart
    <3> QED
      BY <1>0, <2>2, <2>4, <3>4 DEF PointOK
  <2> QED
    BY <2>5, <2>6
<1>5. CASE AppendFailed(legal, after) \/ AppendRejected(legal)
  <2>1. AppendThenLoop(legal, after)
    BY <1>5 DEF AppendThenLoop
  <2>2. after.status # "Absent"
    BY <1>3
  <2> HIDE DEF legal, after
  <2> QED
    BY <1>0, <1>2, <2>1, <2>2, AppendThenLoopOK
<1> QED
  BY <1>4, <1>5 DEF StartNext

LEMMA ScreenSafe ==
  IInv /\ (ScreenWindow \/ AllEnded) => CallsOK(durable)' /\ PointOK'
<1> SUFFICES ASSUME IInv, ScreenWindow \/ AllEnded
             PROVE  CallsOK(durable)' /\ PointOK'
  OBVIOUS
<1>0. /\ PointOK /\ pc # "down" /\ UNCHANGED plan /\ AtScreen
      /\ task \in TaskState /\ task = durable /\ CallsOK(task)
      /\ window \in [first : Nat, size : 0..MaxAnswer, slot : Nat]
      /\ plan' # "unsubmitted"
  BY SubmittedWhileUp
     DEF IInv, TypeOK, PointOK, ScreenWindow, AllEnded, Environment
<1>1. CASE ScreenWindow
  <2>1. CASE \E slot \in WindowSlots : PatternHits(slot)
    <3>1. AppendThenLoop(CanCancel(task), CancelTask(task, "dangerous_pattern"))
      BY <1>1, <2>1 DEF ScreenWindow
    <3>2. /\ CallsOK(CancelTask(task, "dangerous_pattern"))
          /\ CancelTask(task, "dangerous_pattern").status # "Absent"
      BY <1>0, CallsTerminal, Present
    <3> QED
      BY <1>0, <3>1, <3>2, AppendThenLoopOK
  <2>2. CASE ~\E slot \in WindowSlots : PatternHits(slot)
    <3>1. pc' = "execute" /\ UNCHANGED <<durable, task, window>>
      BY <1>1, <2>2 DEF ScreenWindow
    <3>2. PointOK'
      BY <1>0, <3>1 DEF PointOK, AtScreen
    <3> QED
      BY <3>1, <3>2, DurableStays
  <2> QED
    BY <2>1, <2>2
<1>2. CASE AllEnded
  <2>1. pc' = "complete" /\ UNCHANGED <<durable, task, window>>
    BY <1>2 DEF AllEnded
  <2>2. AtCompletion'
    BY <1>0, <2>1, FieldTypes, BudgetsPositive, SMTT(20) DEF AtScreen, AtCompletion
  <2>3. PointOK'
    BY <1>0, <2>1, <2>2 DEF PointOK
  <2> QED
    BY <2>1, <2>3, DurableStays
<1> QED
  BY <1>1, <1>2

(* Only the first slot of a window can append a completion: past it the call the  *)
(* loop names is not the one the result belongs to.                               *)
LEMMA CompletionSafe ==
  IInv /\ ((\E slot \in Slots : ToolEnds(slot)) \/ CompleteSlot)
    => CallsOK(durable)' /\ PointOK'
<1> SUFFICES ASSUME IInv, (\E slot \in Slots : ToolEnds(slot)) \/ CompleteSlot
             PROVE  CallsOK(durable)' /\ PointOK'
  OBVIOUS
<1>0. /\ PointOK /\ pc # "down" /\ UNCHANGED plan
      /\ task \in TaskState /\ task = durable /\ CallsOK(task)
      /\ window \in [first : Nat, size : 0..MaxAnswer, slot : Nat]
      /\ plan' # "unsubmitted"
  BY SubmittedWhileUp
     DEF IInv, TypeOK, PointOK, ToolEnds, CompleteSlot, Environment
<1>1. ASSUME NEW slot \in Slots, ToolEnds(slot)
      PROVE  CallsOK(durable)' /\ PointOK'
  <2>1. pc = "execute" /\ UNCHANGED <<durable, task, pc, window>>
    BY <1>1 DEF ToolEnds
  <2>2. PointOK'
    BY <1>0, <2>1 DEF PointOK, AtScreen
  <2> QED
    BY <2>1, <2>2, DurableStays
<1>2. CASE CompleteSlot
  <2> DEFINE call  == CompletedCall
             slot  == window.slot + 1
             owner == CallOf(slot)
             good  == outcome[slot] # "failed" /\ owner = call
             legal == IF good THEN CanCompleteCall(task, owner)
                      ELSE CanFailCall(task, call)
             after == IF good THEN CompleteCall(task, owner) ELSE FailCall(task)
  <2>0. AtCompletion
    BY <1>0, <1>2 DEF PointOK, CompleteSlot
  <2>1. legal => CallsOK(after)
    <3>1. CASE good
      <4>1. ASSUME legal PROVE task.next < task.dispatch
        <5>1. call = task.next + 1
          BY <3>1, <4>1 DEF CanCompleteCall, AtHead
        <5>2. window.slot = 0
          BY <1>0, <5>1, FieldTypes, BudgetsPositive DEF CompletedCall
        <5> QED
          BY <1>0, <2>0, <5>2, FieldTypes, BudgetsPositive DEF AtCompletion
      <4> QED
        BY <1>0, <3>1, <4>1, CallsCompleteCall
    <3>2. CASE ~good
      BY <1>0, <3>2, CallsTerminal
    <3> QED
      BY <3>1, <3>2
  <2>2. after.status # "Absent"
    BY <1>0, <2>0, Present DEF AtCompletion
  <2>3. ASSUME AppendThenLoop(legal, after)
        PROVE  CallsOK(durable)' /\ PointOK'
    <3> HIDE DEF legal, after
    <3> QED
      BY <1>0, <2>1, <2>2, <2>3, AppendThenLoopOK
  <2>4. CASE call > Len(task.pending)
    <3>1. pc' = "down" /\ UNCHANGED durable
      BY <1>2, <2>4 DEF CompleteSlot, Leave
    <3> QED
      BY <1>0, <3>1, DownOK, DurableStays
  <2>5. CASE Appended(legal, after) /\ slot = window.size /\ Continue(after)
    BY <2>3, <2>5 DEF AppendThenLoop
  <2>6. CASE /\ Appended(legal, after)
             /\ slot # window.size
             /\ pc' = "complete"
             /\ window' = [window EXCEPT !.slot = slot]
    <3>1. legal /\ durable' = after /\ task' = after
      BY <2>6 DEF Appended
    <3>2. CallsOK(durable)'
      BY <2>1, <3>1, CallsWritten
    <3>3. /\ window'.first = window.first /\ window'.size = window.size
          /\ window'.slot = window.slot + 1
      BY <1>0, <2>6
    <3>4. task'.dispatch = task.dispatch
      BY <1>0, <3>1 DEF CompleteCall, FailCall, TaskState
    <3>5. AtCompletion'
      BY <1>0, <2>0, <2>2, <2>6, <3>1, <3>3, <3>4, FieldTypes, BudgetsPositive
         DEF AtCompletion
    <3> QED
      BY <1>0, <2>6, <3>1, <3>2, <3>5 DEF PointOK
  <2>7. CASE AppendFailed(legal, after) \/ AppendRejected(legal)
    BY <2>3, <2>7 DEF AppendThenLoop
  <2> QED
    BY <1>2, <2>4, <2>5, <2>6, <2>7 DEF CompleteSlot
<1> QED
  BY <1>1, <1>2

LEMMA OutsideSafe ==
  IInv /\ (Crash \/ Cancel \/ TimePasses) => CallsOK(durable)' /\ PointOK'
<1> SUFFICES ASSUME IInv, Crash \/ Cancel \/ TimePasses
             PROVE  CallsOK(durable)' /\ PointOK'
  OBVIOUS
<1>0. PointOK
  BY DEF IInv
<1>1. CASE Crash
  BY <1>0, <1>1, SubmittedWhileUp, DownOK, DurableStays DEF Crash, Leave, Up
<1>2. CASE Cancel \/ TimePasses
  <2>1. UNCHANGED <<durable, task, pc, window, plan>>
    BY <1>2 DEF Cancel, TimePasses
  <2>2. \A i : Safe(i)' <=> Safe(i)
    BY <2>1 DEF Safe
  <2>3. AtStart => AtStart'
    BY <2>1, <2>2 DEF AtStart
  <2>4. (AtScreen => AtScreen') /\ (AtCompletion => AtCompletion')
    BY <2>1 DEF AtScreen, AtCompletion
  <2>5. PointOK'
    BY <1>0, <2>1, <2>3, <2>4 DEF PointOK
  <2> QED
    BY <2>1, <2>5, DurableStays
<1> QED
  BY <1>1, <1>2

LEMMA StutterSafe == IInv /\ UNCHANGED vars => CallsOK(durable)' /\ PointOK'
<1> SUFFICES ASSUME IInv, UNCHANGED vars
             PROVE  CallsOK(durable)' /\ PointOK'
  OBVIOUS
<1>1. UNCHANGED <<durable, task, pc, window, plan>>
  BY DEF vars
<1>2. \A i : Safe(i)' <=> Safe(i)
  BY <1>1 DEF Safe
<1>3. AtStart => AtStart'
  BY <1>1, <1>2 DEF AtStart
<1>4. (AtScreen => AtScreen') /\ (AtCompletion => AtCompletion')
  BY <1>1 DEF AtScreen, AtCompletion
<1>5. PointOK'
  BY <1>1, <1>3, <1>4 DEF IInv, PointOK
<1> QED
  BY <1>1, <1>5, DurableStays
--------------------------------------------------------------------------------
LEMMA InitSafe == Init => CallsOK(durable) /\ PointOK
<1> SUFFICES ASSUME Init PROVE CallsOK(durable) /\ PointOK
  OBVIOUS
<1>1. /\ durable.status = "Absent" /\ durable.pending = <<>> /\ durable.next = 0
      /\ durable.dispatch = 0 /\ durable.calls = 0 /\ durable.rounds = 0
      /\ durable.active = 0
  BY DEF Init, NoTask
<1>2. CallsOK(durable)
  BY <1>1, BudgetsPositive DEF CallsOK, Open
<1>3. PointOK
  BY <1>1 DEF Init, PointOK
<1> QED
  BY <1>2, <1>3

LEMMA StepSafe == IInv /\ [Next]_vars => CallsOK(durable)' /\ PointOK'
<1> SUFFICES ASSUME IInv, [Next]_vars
             PROVE  CallsOK(durable)' /\ PointOK'
  OBVIOUS
<1>1. CASE Submit \/ Begin \/ Recover
  BY <1>1, StartSafe
<1>2. CASE HandleCreated \/ RetrieveContext \/ ContextRetrieved \/ CloseRound
  BY <1>2, ContextSafe
<1>3. CASE \/ AnswerNoMatch \/ FinishAcceptedAnswer \/ ReissueModelCall
           \/ IssueModelCall \/ ModelCancelled \/ ModelFailed \/ FinishAnswer
  BY <1>3, ModelSafe
<1>4. CASE ModelAnswers
  BY <1>4, AnswerSafe
<1>5. CASE ResumeCall \/ RecoverScreen \/ RecoverFinish
  BY <1>5, RecoverySafe
<1>6. CASE OpenWindow
  BY <1>6, OpenSafe
<1>7. CASE StartNext
  BY <1>7, StartNextSafe
<1>8. CASE ScreenWindow \/ AllEnded
  BY <1>8, ScreenSafe
<1>9. CASE (\E slot \in Slots : ToolEnds(slot)) \/ CompleteSlot
  BY <1>9, CompletionSafe
<1>10. CASE Crash \/ Cancel \/ TimePasses
  BY <1>10, OutsideSafe
<1>11. CASE UNCHANGED vars
  BY <1>11, StutterSafe
<1> QED
  BY <1>1, <1>2, <1>3, <1>4, <1>5, <1>6, <1>7, <1>8, <1>9, <1>10, <1>11
     DEF Next, EngineStep

(* The inductive invariant: what the log says of starts, completions and budgets, *)
(* and what the engine knows at each of its points, holds in every state,         *)
(* crashes, failed appends and recoveries included.                               *)
THEOREM Inductive == Spec => []IInv
<1>1. Init => CallsOK(durable) /\ PointOK
  BY InitSafe
<1>2. TypeOK /\ CallsOK(durable) /\ PointOK /\ [Next]_vars =>
        (CallsOK(durable) /\ PointOK)'
  BY StepSafe DEF IInv
<1>3. Spec => []TypeOK
  BY TypeCorrect
<1>4. TypeOK /\ CallsOK(durable) /\ PointOK => IInv
  BY DEF IInv
<1> QED
  BY <1>1, <1>2, <1>3, <1>4, PTL DEF Spec

(* For every budget: the rounds and calls the log counts never exceed the         *)
(* configured maxima over the whole life of the task, and no started call escapes *)
(* the count, however often the task is recovered.                                *)
THEOREM BudgetSafety == Spec => []BudgetsHold
<1>1. IInv => BudgetsHold
  BY DEF IInv, CallsOK, BudgetsHold
<1> QED
  BY <1>1, Inductive, PTL

(* For every answer: the log never holds two started, unfinished calls of which   *)
(* one is a mutation, so a recovery never finds a mutation among others.          *)
THEOREM MutationSafety == Spec => []MutationsOpenAlone
<1>1. IInv => MutationsOpenAlone
  BY DEF IInv, CallsOK, MutationsOpenAlone
<1> QED
  BY <1>1, Inductive, PTL

(* ------------------------------- the durable record ----------------------------- *)

(* What the durable log of a task says, that the engine obeys it, and how the     *)
(* executions of the tools follow it: the transcript a recovery sends back to the *)
(* provider, the legality of every event the engine appends, what runs and how    *)
(* often it runs again, and that the log is the write-ahead journal ToolJournal   *)
(* promises.                                                                      *)

(* The provider is to speak next. *)
Asks(s) == EndsWith(s, "user") \/ EndsWith(s, "results")

Conversation(t) ==
  \A i \in 1..Len(t) :
    /\ (t[i] = "user") <=> (i = 1)
    /\ t[i] = "results" => t[i - 1] = "tool_use"
    /\ t[i] = "tool_use" /\ i < Len(t) => t[i + 1] = "results"
    /\ t[i] = "text" => i = Len(t)

(* The transcript follows the status: a request that is out, or still to be sent, *)
(* ends with what the provider answers to; an accepted text waits for its         *)
(* terminal; a tool request waits for the results of its first calls.  An         *)
(* authoritative no-match never sends a request.                                  *)
RecordOK(s) ==
  /\ s.status = "Absent" => s = NoTask
  /\ Conversation(s.transcript)
  /\ EndsWith(s, "tool_use") <=> s.pending # <<>>
  /\ Len(s.results) = s.next
  /\ \A i \in 1..s.next : s.results[i] = i
  /\ s.status \in {"Created", "PreparingContext"} =>
       ~s.inFlight /\ s.stop = "none" /\ Asks(s)
  /\ s.status = "AwaitingTool" => ~s.inFlight /\ s.stop = "ToolUse"
  /\ s.status = "AwaitingModel" =>
       \/ s.stop = "none" /\ Asks(s) /\ (s.inFlight => ~s.noMatch)
       \/ /\ s.stop \in {"EndTurn", "MaxTokens"} /\ EndsWith(s, "text")
          /\ ~s.inFlight /\ ~s.noMatch
--------------------------------------------------------------------------------
(* Every event the reducer accepts keeps the record sound. *)

LEMMA RecordTypes ==
  ASSUME NEW STATE s, s \in TaskState
  PROVE  /\ s.transcript \in Seq(MessageKinds) /\ Len(s.transcript) \in Nat
         /\ s.results \in Seq(Nat) /\ Len(s.results) \in Nat
         /\ s.inFlight \in BOOLEAN /\ s.noMatch \in BOOLEAN
         /\ s.stop \in StopReasons \cup {"none"}
BY DEF TaskState

LEMMA LastOfAppend ==
  ASSUME NEW STATE s, NEW STATE t, s \in TaskState, NEW kind \in MessageKinds,
         t.transcript = Append(s.transcript, kind)
  PROVE  \A k : EndsWith(t, k) <=> k = kind
<1>1. /\ Len(t.transcript) = Len(s.transcript) + 1
      /\ t.transcript[Len(s.transcript) + 1] = kind
      /\ Len(s.transcript) \in Nat /\ t.transcript \in Seq(MessageKinds)
  BY RecordTypes
<1>2. t.transcript # <<>>
  <2>1. t.transcript = <<>> => Len(t.transcript) = 0
    OBVIOUS
  <2> QED
    BY <1>1, <2>1
<1> QED
  BY <1>1, <1>2 DEF EndsWith, LastMessage

LEMMA ConversationGrows ==
  ASSUME NEW STATE s, s \in TaskState, Conversation(s.transcript),
         NEW kind \in MessageKinds,
         \/ Asks(s) /\ kind \in {"text", "tool_use"}
         \/ EndsWith(s, "tool_use") /\ kind = "results"
  PROVE  Conversation(Append(s.transcript, kind))
<1> DEFINE t == s.transcript
           n == Len(t)
           u == Append(t, kind)
<1>1. /\ t \in Seq(MessageKinds) /\ n \in Nat /\ n > 0
      /\ Len(u) = n + 1 /\ u[n + 1] = kind
      /\ \A i \in 1..n : u[i] = t[i]
  BY RecordTypes DEF EndsWith, Asks
<1>2. \/ t[n] \in {"user", "results"} /\ kind \in {"text", "tool_use"}
      \/ t[n] = "tool_use" /\ kind = "results"
  BY DEF Asks, EndsWith, LastMessage
<1> HIDE DEF t, n, u
<1>3. \A i \in 1..n :
        /\ (t[i] = "user") <=> (i = 1)
        /\ t[i] = "results" => t[i - 1] = "tool_use"
        /\ t[i] = "tool_use" /\ i < n => t[i + 1] = "results"
        /\ t[i] = "text" => i = n
  BY DEF Conversation, t, n
<1>4. \A i \in 1..n + 1 :
        /\ (u[i] = "user") <=> (i = 1)
        /\ u[i] = "results" => u[i - 1] = "tool_use"
        /\ u[i] = "tool_use" /\ i < n + 1 => u[i + 1] = "results"
        /\ u[i] = "text" => i = n + 1
  <2>1. ASSUME NEW i \in 1..n + 1, i = n + 1
        PROVE  /\ (u[i] = "user") <=> (i = 1)
               /\ u[i] = "results" => u[i - 1] = "tool_use"
               /\ u[i] = "tool_use" /\ i < n + 1 => u[i + 1] = "results"
               /\ u[i] = "text" => i = n + 1
    BY <1>1, <1>2, <2>1
  <2>2. ASSUME NEW i \in 1..n
        PROVE  /\ (u[i] = "user") <=> (i = 1)
               /\ u[i] = "results" => u[i - 1] = "tool_use"
               /\ u[i] = "tool_use" /\ i < n + 1 => u[i + 1] = "results"
               /\ u[i] = "text" => i = n + 1
    <3>1. i < n => i + 1 \in 1..n
      BY <1>1
    <3>2. i > 1 => i - 1 \in 1..n
      BY <1>1
    <3>3. u[i] = "tool_use" => u[i + 1] = "results"
      BY <1>1, <1>2, <1>3, <3>1
    <3>4. u[i] = "results" => u[i - 1] = "tool_use"
      BY <1>1, <1>3, <3>2
    <3>5. u[i] # "text"
      BY <1>1, <1>2, <1>3
    <3> QED
      BY <1>1, <1>3, <3>3, <3>4, <3>5
  <2> QED
    BY <1>1, <2>1, <2>2
<1> QED
  BY <1>1, <1>4 DEF Conversation, t, u

(* An event that ends the task leaves the record as it is. *)
LEMMA RecordEnds ==
  ASSUME NEW STATE s, NEW STATE t, RecordOK(s), t.status \in Terminal,
         t.transcript = s.transcript, t.pending = s.pending, t.next = s.next,
         t.results = s.results
  PROVE  RecordOK(t)
BY DEF RecordOK, EndsWith, LastMessage, Terminal
LEMMA RecordTerminal ==
  ASSUME NEW STATE s, s \in TaskState, RecordOK(s),
         NEW STATE budget, NEW STATE reason
  PROVE  /\ RecordOK(ContextFailed(s)) /\ RecordOK(FailModelCall(s))
         /\ RecordOK(FailCall(s)) /\ RecordOK(CompleteTask(s))
         /\ RecordOK(Exceed(s, budget)) /\ RecordOK(CancelTask(s, reason))
<1>1. RecordOK(ContextFailed(s))
  BY RecordEnds DEF ContextFailed, TaskState, Terminal
<1>2. RecordOK(FailModelCall(s))
  <2> DEFINE t == FailModelCall(s)
  <2>1. /\ t.transcript = s.transcript /\ t.pending = s.pending
        /\ t.next = s.next /\ t.results = s.results /\ t.status = "Failed"
    BY DEF FailModelCall, TaskState
  <2> QED
    BY <2>1, RecordEnds DEF Terminal
<1>3. RecordOK(FailCall(s))
  BY RecordEnds DEF FailCall, TaskState, Terminal
<1>4. RecordOK(CompleteTask(s))
  BY RecordEnds DEF CompleteTask, TaskState, Terminal
<1>5. RecordOK(Exceed(s, budget))
  BY RecordEnds DEF Exceed, TaskState, Terminal
<1>6. RecordOK(CancelTask(s, reason))
  BY RecordEnds DEF CancelTask, TaskState, Terminal
<1> QED
  BY <1>1, <1>2, <1>3, <1>4, <1>5, <1>6

LEMMA RecordStartTask == ASSUME NEW STATE s PROVE RecordOK(StartTask(s))
<1> DEFINE t == StartTask(s)
<1>1. /\ t.transcript = <<"user">> /\ t.pending = <<>> /\ t.next = 0
      /\ t.results = <<>> /\ t.status = "Created" /\ t.stop = "none"
      /\ t.inFlight = FALSE
  BY DEF StartTask, NoTask
<1>2. \A k : EndsWith(t, k) <=> k = "user"
  BY <1>1 DEF EndsWith, LastMessage
<1>3. Conversation(t.transcript)
  BY <1>1 DEF Conversation
<1> HIDE DEF t
<1>4. RecordOK(t)
  BY <1>1, <1>2, <1>3 DEF RecordOK, Asks
<1> QED
  BY <1>4 DEF t

LEMMA RecordPrepareContext ==
  ASSUME NEW STATE s, s \in TaskState, RecordOK(s), CanPrepareContext(s)
  PROVE  RecordOK(PrepareContext(s))
<1> DEFINE t == PrepareContext(s)
<1>1. CASE ToolsComplete(s)
  <2>1. /\ t.transcript = Append(s.transcript, "results") /\ t.pending = <<>>
        /\ t.next = 0 /\ t.results = <<>> /\ t.status = "PreparingContext"
        /\ t.stop = "none" /\ t.inFlight = s.inFlight
    BY <1>1 DEF PrepareContext, TaskState
  <2>2. ~s.inFlight /\ EndsWith(s, "tool_use") /\ Conversation(s.transcript)
    BY <1>1 DEF RecordOK, ToolsComplete
  <2> HIDE DEF t
  <2>3. \A k : EndsWith(t, k) <=> k = "results"
    BY <2>1, LastOfAppend DEF MessageKinds
  <2>4. Conversation(t.transcript)
    BY <2>1, <2>2, ConversationGrows DEF MessageKinds
  <2>5. RecordOK(t)
    BY <2>1, <2>2, <2>3, <2>4 DEF RecordOK, Asks
  <2> QED
    BY <2>5 DEF t
<1>2. CASE ~ToolsComplete(s)
  <2>1. /\ t.transcript = s.transcript /\ t.pending = s.pending
        /\ t.next = s.next /\ t.results = s.results
        /\ t.status = "PreparingContext" /\ t.stop = "none"
        /\ t.inFlight = s.inFlight
    BY <1>2 DEF PrepareContext, TaskState
  <2>2. s.status = "Created"
    BY <1>2 DEF CanPrepareContext
  <2> HIDE DEF t
  <2>3. RecordOK(t)
    BY <2>1, <2>2 DEF RecordOK, Asks, EndsWith, LastMessage
  <2> QED
    BY <2>3 DEF t
<1> QED
  BY <1>1, <1>2

LEMMA RecordContextPrepared ==
  ASSUME NEW STATE s, s \in TaskState, RecordOK(s), CanContextPrepared(s),
         NEW forbidden, NEW noMatch
  PROVE  RecordOK(ContextPrepared(s, forbidden, noMatch))
<1> DEFINE t == ContextPrepared(s, forbidden, noMatch)
<1>1. /\ t.transcript = s.transcript /\ t.pending = s.pending
      /\ t.next = s.next /\ t.results = s.results
      /\ t.status = "AwaitingModel" /\ t.stop = s.stop
      /\ t.inFlight = s.inFlight
  BY DEF ContextPrepared, TaskState
<1>2. s.status = "PreparingContext"
  BY DEF CanContextPrepared
<1> HIDE DEF t
<1>3. RecordOK(t)
  BY <1>1, <1>2 DEF RecordOK, Asks, EndsWith, LastMessage
<1> QED
  BY <1>3 DEF t

LEMMA RecordNoMatch ==
  ASSUME NEW STATE s, s \in TaskState, RecordOK(s), CanNoMatch(s)
  PROVE  RecordOK(NoMatch(s))
<1> DEFINE t == NoMatch(s)
<1>1. /\ t.transcript = Append(s.transcript, "text") /\ t.pending = s.pending
      /\ t.next = s.next /\ t.results = s.results /\ t.status = "Completed"
  BY DEF NoMatch, TaskState
<1>2. Asks(s) /\ Conversation(s.transcript) /\ s.pending = <<>>
  BY DEF CanNoMatch, RecordOK, Asks, EndsWith
<1> HIDE DEF t
<1>3. \A k : EndsWith(t, k) <=> k = "text"
  BY <1>1, LastOfAppend DEF MessageKinds
<1>4. Conversation(t.transcript)
  BY <1>1, <1>2, ConversationGrows DEF MessageKinds
<1>5. RecordOK(t)
  BY <1>1, <1>2, <1>3, <1>4 DEF RecordOK
<1> QED
  BY <1>5 DEF t

LEMMA RecordStartModelCall ==
  ASSUME NEW STATE s, s \in TaskState, RecordOK(s), NEW STATE tools,
         CanStartModelCall(s, tools), ~s.noMatch
  PROVE  RecordOK(StartModelCall(s, tools))
<1> DEFINE t == StartModelCall(s, tools)
<1>1. /\ t.transcript = s.transcript /\ t.pending = s.pending
      /\ t.next = s.next /\ t.results = s.results
      /\ t.status = s.status /\ t.stop = s.stop /\ t.noMatch = s.noMatch
  BY DEF StartModelCall, TaskState
<1>2. s.status = "AwaitingModel" /\ s.stop = "none"
  BY DEF CanStartModelCall
<1> HIDE DEF t
<1>3. RecordOK(t)
  BY <1>1, <1>2 DEF RecordOK, Asks, EndsWith, LastMessage
<1> QED
  BY <1>3 DEF t

LEMMA RecordAcceptAnswer ==
  ASSUME NEW STATE s, s \in TaskState, RecordOK(s), NEW stop \in StopReasons,
         NEW asked \in Answers \cup {<<>>}, CanAcceptAnswer(s, stop, asked)
  PROVE  RecordOK(AcceptAnswer(s, stop, asked))
<1> DEFINE t == AcceptAnswer(s, stop, asked)
<1>0. /\ Conversation(s.transcript) /\ ValidAnswer(stop, asked)
      /\ s.status = "AwaitingModel" /\ s.inFlight
      /\ Asks(s) /\ ~s.noMatch
  BY DEF CanAcceptAnswer, RecordOK
<1>a. s.pending = <<>>
  BY <1>0 DEF RecordOK, Asks, EndsWith
<1>1. CASE asked = <<>>
  <2>1. /\ t.transcript = Append(s.transcript, "text") /\ t.pending = s.pending
        /\ t.next = s.next /\ t.results = s.results /\ t.status = s.status
        /\ t.stop = stop /\ t.inFlight = FALSE /\ t.noMatch = s.noMatch
    BY <1>1 DEF AcceptAnswer, TaskState
  <2>2. stop \in {"EndTurn", "MaxTokens"}
    BY <1>0, <1>1 DEF ValidAnswer, StopReasons
  <2> HIDE DEF t
  <2>3. \A k : EndsWith(t, k) <=> k = "text"
    BY <2>1, LastOfAppend DEF MessageKinds
  <2>4. Conversation(t.transcript)
    BY <1>0, <2>1, ConversationGrows DEF MessageKinds
  <2>5. RecordOK(t)
    BY <1>0, <1>a, <2>1, <2>2, <2>3, <2>4 DEF RecordOK
  <2> QED
    BY <2>5 DEF t
<1>2. CASE asked # <<>>
  <2>1. /\ t.transcript = Append(s.transcript, "tool_use") /\ t.pending = asked
        /\ t.next = 0 /\ t.results = <<>> /\ t.status = "AwaitingTool"
        /\ t.stop = stop /\ t.inFlight = FALSE
    BY <1>2 DEF AcceptAnswer, TaskState
  <2>2. stop = "ToolUse"
    BY <1>0, <1>2 DEF ValidAnswer
  <2> HIDE DEF t
  <2>3. \A k : EndsWith(t, k) <=> k = "tool_use"
    BY <2>1, LastOfAppend DEF MessageKinds
  <2>4. Conversation(t.transcript)
    BY <1>0, <2>1, ConversationGrows DEF MessageKinds
  <2>5. RecordOK(t)
    BY <1>2, <2>1, <2>2, <2>3, <2>4 DEF RecordOK
  <2> QED
    BY <2>5 DEF t
<1> QED
  BY <1>1, <1>2

LEMMA RecordStartCall ==
  ASSUME NEW STATE s, s \in TaskState, RecordOK(s), NEW STATE call,
         CanStartCall(s, call)
  PROVE  RecordOK(StartCall(s, call))
<1> DEFINE t == StartCall(s, call)
<1>1. /\ t.transcript = s.transcript /\ t.pending = s.pending
      /\ t.next = s.next /\ t.results = s.results
      /\ t.status = s.status /\ t.stop = s.stop /\ t.inFlight = s.inFlight
  BY DEF StartCall, TaskState
<1>2. s.status = "AwaitingTool"
  BY DEF CanStartCall
<1> HIDE DEF t
<1>3. RecordOK(t)
  BY <1>1, <1>2 DEF RecordOK, EndsWith, LastMessage
<1> QED
  BY <1>3 DEF t

LEMMA RecordCompleteCall ==
  ASSUME NEW STATE s, s \in TaskState, RecordOK(s), NEW STATE call,
         CanCompleteCall(s, call)
  PROVE  RecordOK(CompleteCall(s, call))
<1> DEFINE t == CompleteCall(s, call)
<1>1. /\ t.transcript = s.transcript /\ t.pending = s.pending
      /\ t.next = s.next + 1 /\ t.results = Append(s.results, call)
      /\ t.status = s.status /\ t.stop = s.stop /\ t.inFlight = s.inFlight
  BY DEF CompleteCall, TaskState
<1>2. s.status = "AwaitingTool" /\ call = s.next + 1
  BY DEF CanCompleteCall, AtHead
<1>3. Len(s.results) = s.next /\ \A i \in 1..s.next : s.results[i] = i
  BY DEF RecordOK
<1> HIDE DEF t
<1>4. Len(t.results) = t.next /\ \A i \in 1..t.next : t.results[i] = i
  BY <1>1, <1>2, <1>3, RecordTypes, FieldTypes
<1>5. RecordOK(t)
  BY <1>1, <1>2, <1>4 DEF RecordOK, EndsWith, LastMessage
<1> QED
  BY <1>5 DEF t

--------------------------------------------------------------------------------
(* The events the engine appends, with what it guarantees of each beyond the      *)
(* reducer's own condition: a request is sent only when the evidence leaves       *)
(* something to ask, a call is started within the allowance and beside no         *)
(* mutation, and only a started call is completed.                                *)
Logged(s, t) ==
  \/ CanStartTask(s) /\ t = StartTask(s)
  \/ CanPrepareContext(s) /\ t = PrepareContext(s)
  \/ \E forbidden, noMatch \in BOOLEAN :
       CanContextPrepared(s) /\ t = ContextPrepared(s, forbidden, noMatch)
  \/ CanContextFailed(s) /\ t = ContextFailed(s)
  \/ CanNoMatch(s) /\ t = NoMatch(s)
  \/ \E tools \in {"plain", "tools"} :
       CanStartModelCall(s, tools) /\ ~s.noMatch /\ t = StartModelCall(s, tools)
  \/ \E stop \in StopReasons, asked \in Answers \cup {<<>>} :
       CanAcceptAnswer(s, stop, asked) /\ t = AcceptAnswer(s, stop, asked)
  \/ CanFailModelCall(s) /\ t = FailModelCall(s)
  \/ /\ CanStartCall(s, s.dispatch + 1)
     /\ s.calls < MaxToolCalls
     /\ \/ s.dispatch = s.next
        \/ \A i \in s.next + 1 .. s.dispatch + 1 : s.pending[i] \in ConcurrencySafe
     /\ t = StartCall(s, s.dispatch + 1)
  \/ /\ CanCompleteCall(s, s.next + 1)
     /\ s.next < s.dispatch
     /\ t = CompleteCall(s, s.next + 1)
  \/ CanFailCall(s, s.next + 1) /\ t = FailCall(s)
  \/ CanCompleteTask(s) /\ t = CompleteTask(s)
  \/ \E budget \in Verdicts \ {"none"} :
       CanExceed(s, budget) /\ t = Exceed(s, budget)
  \/ \E reason \in Verdicts : CanCancel(s) /\ t = CancelTask(s, reason)

LEMMA RecordLogged ==
  ASSUME NEW STATE s, NEW STATE t, s \in TaskState, RecordOK(s), Logged(s, t)
  PROVE  RecordOK(t)
<1>1. CASE CanStartTask(s) /\ t = StartTask(s)
  BY <1>1, RecordStartTask
<1>2. CASE CanPrepareContext(s) /\ t = PrepareContext(s)
  BY <1>2, RecordPrepareContext
<1>3. CASE \E forbidden, noMatch \in BOOLEAN :
             CanContextPrepared(s) /\ t = ContextPrepared(s, forbidden, noMatch)
  BY <1>3, RecordContextPrepared
<1>4. CASE CanNoMatch(s) /\ t = NoMatch(s)
  BY <1>4, RecordNoMatch
<1>5. CASE \E tools \in {"plain", "tools"} :
             /\ CanStartModelCall(s, tools) /\ ~s.noMatch
             /\ t = StartModelCall(s, tools)
  BY <1>5, RecordStartModelCall
<1>6. CASE \E stop \in StopReasons, asked \in Answers \cup {<<>>} :
             CanAcceptAnswer(s, stop, asked) /\ t = AcceptAnswer(s, stop, asked)
  BY <1>6, RecordAcceptAnswer
<1>7. CASE CanStartCall(s, s.dispatch + 1) /\ t = StartCall(s, s.dispatch + 1)
  BY <1>7, RecordStartCall
<1>8. CASE CanCompleteCall(s, s.next + 1) /\ t = CompleteCall(s, s.next + 1)
  BY <1>8, RecordCompleteCall
<1>9. CASE \/ t = ContextFailed(s) \/ t = FailModelCall(s) \/ t = FailCall(s)
           \/ t = CompleteTask(s)
           \/ \E budget \in Verdicts : t = Exceed(s, budget)
           \/ \E reason \in Verdicts : t = CancelTask(s, reason)
  BY <1>9, RecordTerminal
<1> QED
  BY <1>1, <1>2, <1>3, <1>4, <1>5, <1>6, <1>7, <1>8, <1>9 DEF Logged

(* What an event does to the calls, as ToolJournal sees it. *)
SameCalls(s, t) ==
  /\ t.pending = s.pending /\ t.dispatch = s.dispatch /\ t.next = s.next
  /\ t.calls = s.calls
Starts(s, t) ==
  /\ s.dispatch < Len(s.pending) /\ s.calls < MaxToolCalls
  /\ \/ s.dispatch = s.next
     \/ \A i \in s.next + 1 .. s.dispatch + 1 : s.pending[i] \in ConcurrencySafe
  /\ t.pending = s.pending /\ t.next = s.next
  /\ t.dispatch = s.dispatch + 1 /\ t.calls = s.calls + 1
Finishes(s, t) ==
  /\ s.next < s.dispatch
  /\ t.pending = s.pending /\ t.dispatch = s.dispatch /\ t.calls = s.calls
  /\ t.next = s.next + 1
Closes(s, t) ==
  /\ s.pending # <<>> /\ s.next = Len(s.pending)
  /\ t.pending = <<>> /\ t.dispatch = 0 /\ t.next = 0 /\ t.calls = s.calls
Opens(s, t) ==
  /\ s.pending = <<>> /\ s.dispatch = 0 /\ s.next = 0
  /\ t.pending \in Answers /\ t.dispatch = 0 /\ t.next = 0 /\ t.calls = s.calls

LEMMA CallsLogged ==
  ASSUME NEW STATE s, NEW STATE t, s \in TaskState, CallsOK(s), RecordOK(s),
         Logged(s, t)
  PROVE  /\ ~IsTerminal(s)
         /\ \/ SameCalls(s, t)
            \/ /\ ~IsTerminal(t)
               /\ Starts(s, t) \/ Finishes(s, t) \/ Closes(s, t) \/ Opens(s, t)
<1>1. CASE CanStartTask(s) /\ t = StartTask(s)
  <2>1. s = NoTask /\ s.status = "Absent"
    BY <1>1 DEF CanStartTask, RecordOK
  <2>2. SameCalls(s, t)
    BY <1>1, <2>1 DEF SameCalls, StartTask, NoTask
  <2> QED
    BY <2>1, <2>2 DEF IsTerminal, Terminal
<1>2. CASE CanPrepareContext(s) /\ t = PrepareContext(s)
  <2>1. CASE ToolsComplete(s)
    <3>1. Closes(s, t) /\ t.status = "PreparingContext"
      BY <1>2, <2>1 DEF PrepareContext, TaskState, Closes, ToolsComplete
    <3> QED
      BY <2>1, <3>1 DEF IsTerminal, Terminal, ToolsComplete
  <2>2. CASE ~ToolsComplete(s)
    <3>1. SameCalls(s, t) /\ s.status = "Created"
      BY <1>2, <2>2 DEF PrepareContext, TaskState, SameCalls, CanPrepareContext
    <3> QED
      BY <3>1 DEF IsTerminal, Terminal
  <2> QED
    BY <2>1, <2>2
<1>3. CASE \E forbidden, noMatch \in BOOLEAN :
             CanContextPrepared(s) /\ t = ContextPrepared(s, forbidden, noMatch)
  BY <1>3 DEF ContextPrepared, CanContextPrepared, TaskState, SameCalls,
              IsTerminal, Terminal
<1>4. CASE CanNoMatch(s) /\ t = NoMatch(s)
  BY <1>4 DEF NoMatch, CanNoMatch, TaskState, SameCalls, IsTerminal, Terminal
<1>5. CASE \E tools \in {"plain", "tools"} :
             /\ CanStartModelCall(s, tools) /\ ~s.noMatch
             /\ t = StartModelCall(s, tools)
  BY <1>5 DEF StartModelCall, CanStartModelCall, TaskState, SameCalls,
              IsTerminal, Terminal
<1>6. CASE \E stop \in StopReasons, asked \in Answers \cup {<<>>} :
             CanAcceptAnswer(s, stop, asked) /\ t = AcceptAnswer(s, stop, asked)
  <2>1. PICK stop \in StopReasons, asked \in Answers \cup {<<>>} :
          CanAcceptAnswer(s, stop, asked) /\ t = AcceptAnswer(s, stop, asked)
    BY <1>6
  <2>2. s.status = "AwaitingModel" /\ s.pending = <<>>
    BY <2>1 DEF CanAcceptAnswer, CallsOK
  <2>3. s.dispatch = 0 /\ s.next = 0
    <3>1. Len(s.pending) = 0
      BY <2>2
    <3> QED
      BY <3>1, FieldTypes DEF CallsOK
  <2>4. CASE asked = <<>>
    <3>1. SameCalls(s, t)
      BY <2>1, <2>4 DEF AcceptAnswer, TaskState, SameCalls
    <3> QED
      BY <2>2, <3>1 DEF IsTerminal, Terminal
  <2>5. CASE asked # <<>>
    <3>1. Opens(s, t) /\ t.status = "AwaitingTool"
      BY <2>1, <2>2, <2>3, <2>5 DEF AcceptAnswer, TaskState, Opens
    <3> QED
      BY <2>2, <3>1 DEF IsTerminal, Terminal
  <2> QED
    BY <2>4, <2>5
<1>7. CASE /\ CanStartCall(s, s.dispatch + 1)
           /\ s.calls < MaxToolCalls
           /\ \/ s.dispatch = s.next
              \/ \A i \in s.next + 1 .. s.dispatch + 1 :
                   s.pending[i] \in ConcurrencySafe
           /\ t = StartCall(s, s.dispatch + 1)
  <2>1. /\ t.pending = s.pending /\ t.next = s.next /\ t.status = s.status
        /\ t.dispatch = s.dispatch + 1 /\ t.calls = s.calls + 1
        /\ s.status = "AwaitingTool" /\ s.dispatch < Len(s.pending)
    BY <1>7 DEF StartCall, TaskState, CanStartCall
  <2> QED
    BY <1>7, <2>1 DEF Starts, IsTerminal, Terminal
<1>8. CASE /\ CanCompleteCall(s, s.next + 1) /\ s.next < s.dispatch
           /\ t = CompleteCall(s, s.next + 1)
  <2>1. /\ t.pending = s.pending /\ t.dispatch = s.dispatch
        /\ t.calls = s.calls /\ t.next = s.next + 1 /\ t.status = s.status
        /\ s.status = "AwaitingTool"
    BY <1>8 DEF CompleteCall, TaskState, CanCompleteCall, AtHead
  <2> QED
    BY <1>8, <2>1 DEF Finishes, IsTerminal, Terminal
<1>9. CASE CanContextFailed(s) /\ t = ContextFailed(s)
  BY <1>9 DEF ContextFailed, CanContextFailed, TaskState, SameCalls,
              IsTerminal, Terminal
<1>10. CASE CanFailModelCall(s) /\ t = FailModelCall(s)
  <2>1. SameCalls(s, t)
    BY <1>10 DEF FailModelCall, TaskState, SameCalls
  <2> QED
    BY <1>10, <2>1 DEF CanFailModelCall, IsTerminal, Terminal
<1>11. CASE CanFailCall(s, s.next + 1) /\ t = FailCall(s)
  BY <1>11 DEF FailCall, CanFailCall, AtHead, TaskState, SameCalls,
               IsTerminal, Terminal
<1>12. CASE CanCompleteTask(s) /\ t = CompleteTask(s)
  BY <1>12 DEF CompleteTask, CanCompleteTask, TaskState, SameCalls,
               IsTerminal, Terminal
<1>13. CASE \E budget \in Verdicts \ {"none"} :
              CanExceed(s, budget) /\ t = Exceed(s, budget)
  <2>1. PICK budget \in Verdicts \ {"none"} :
          CanExceed(s, budget) /\ t = Exceed(s, budget)
    BY <1>13
  <2>2. SameCalls(s, t)
    BY <2>1 DEF Exceed, TaskState, SameCalls
  <2>3. s.status \in {"PreparingContext", "AwaitingModel", "AwaitingTool"}
    BY <2>1 DEF CanExceed, TokensSpent, GuardStatus
  <2> QED
    BY <2>2, <2>3 DEF IsTerminal, Terminal
<1>14. CASE \E reason \in Verdicts : CanCancel(s) /\ t = CancelTask(s, reason)
  BY <1>14 DEF CancelTask, CanCancel, TaskState, SameCalls
<1> QED
  BY <1>1, <1>2, <1>3, <1>4, <1>5, <1>6, <1>7, <1>8, <1>9, <1>10, <1>11, <1>12,
     <1>13, <1>14 DEF Logged
--------------------------------------------------------------------------------
(* The engine keeps to the record: every event it appends is accepted, except     *)
(* past the first completion of a window wider than one.                          *)

(* What the engine knows, beyond PointOK, at the points where it appends without  *)
(* asking again, and of the window it runs. *)
PointMore ==
  /\ pc = "model" => task.inFlight
  /\ pc = "accepted" => ~task.inFlight /\ task.stop # "none"
  /\ pc \in {"screen", "execute", "complete"} =>
       window.size = 1 \/ \A slot \in WindowSlots : Safe(CallOf(slot))
  /\ pc = "complete" => window.first <= task.next + 1

LogInv == RecordOK(durable) /\ PointMore

WideWindow == pc = "complete" /\ window.size > 1 /\ window.slot > 0

StepOK ==
  /\ durable' = durable \/ Logged(durable, durable')
  /\ exit' # exit /\ exit' \in Faults => WideWindow
  /\ PointMore'

LEMMA QuietStep ==
  ASSUME durable' = durable, exit' = exit \/ exit' \notin Faults,
         pc' \notin {"model", "accepted", "screen", "execute", "complete"}
  PROVE  StepOK
BY DEF StepOK, PointMore

LEMMA LoopStep ==
  ASSUME NEW STATE legal, NEW STATE after, legal, Logged(durable, after),
         AppendThenLoop(legal, after)
  PROVE  StepOK
<1>1. CASE Appended(legal, after) /\ Continue(after)
  <2>1. durable' = after /\ pc' \in {"down", "loop"} /\ exit' \in {exit, "returned"}
    BY <1>1 DEF Appended, Continue, Leave
  <2> QED
    BY <2>1 DEF StepOK, PointMore, Faults
<1>2. CASE AppendFailed(legal, after)
  <2>1. durable' \in {durable, after} /\ pc' = "down" /\ exit' = "persistence"
    BY <1>2 DEF AppendFailed, Leave
  <2> QED
    BY <2>1 DEF StepOK, PointMore, Faults
<1>3. CASE AppendRejected(legal)
  BY <1>3 DEF AppendRejected
<1> QED
  BY <1>1, <1>2, <1>3 DEF AppendThenLoop

LEMMA ThenStep ==
  ASSUME NEW STATE legal, NEW STATE after, NEW point,
         legal, Logged(durable, after), AppendThen(legal, after, point),
         task' = after /\ pc' = point => PointMore'
  PROVE  StepOK
<1>1. CASE Appended(legal, after) /\ pc' = point /\ Stay
  <2>1. durable' = after /\ task' = after /\ pc' = point /\ exit' = exit
    BY <1>1 DEF Appended, Stay
  <2> QED
    BY <2>1 DEF StepOK
<1>2. CASE AppendFailed(legal, after)
  <2>1. durable' \in {durable, after} /\ pc' = "down" /\ exit' = "persistence"
    BY <1>2 DEF AppendFailed, Leave
  <2> QED
    BY <2>1 DEF StepOK, PointMore, Faults
<1>3. CASE AppendRejected(legal)
  BY <1>3 DEF AppendRejected
<1> QED
  BY <1>1, <1>2, <1>3 DEF AppendThen

LEMMA TimeVerdict ==
  GuardVerdict("none", 0, 0) \in {"none", "cancelled", "max_task_time_ms"}
BY DEF GuardVerdict

LEMMA CancelStep ==
  ASSUME task = durable, CanCancel(task), NEW STATE reason, reason \in Verdicts,
         AppendThenLoop(CanCancel(task), CancelTask(task, reason))
  PROVE  StepOK
<1>1. Logged(durable, CancelTask(task, reason))
  BY DEF Logged
<1> QED
  BY <1>1, LoopStep

LEMMA GuardStopStep ==
  ASSUME task = durable, CanCancel(task), NEW STATE verdict,
         verdict \in Verdicts \ {"none"},
         verdict # "cancelled" => CanExceed(task, verdict),
         StopAtGuard(verdict)
  PROVE  StepOK
<1>1. CASE verdict = "cancelled"
  BY <1>1, CancelStep DEF StopAtGuard, Verdicts
<1>2. CASE verdict # "cancelled"
  <2>1. Logged(durable, Exceed(task, verdict))
    BY <1>2 DEF Logged
  <2> QED
    BY <1>2, <2>1, LoopStep DEF StopAtGuard
<1> QED
  BY <1>1, <1>2

LEMMA AcceptedStep ==
  ASSUME IInv, LogInv, pc # "down", task.status = "AwaitingModel",
         ~task.inFlight, task.stop # "none", TerminalForStop(task.stop)
  PROVE  StepOK
<1>1. /\ task = durable /\ CallsOK(task) /\ RecordOK(task) /\ task.pending = <<>>
  BY DEF IInv, PointOK, LogInv, CallsOK
<1>2. task.stop \in {"EndTurn", "MaxTokens"} /\ EndsWith(task, "text")
  BY <1>1 DEF RecordOK
<1>3. CASE task.stop = "EndTurn"
  <2>1. CanCompleteTask(task)
    BY <1>1, <1>2, <1>3 DEF CanCompleteTask
  <2>2. Logged(durable, CompleteTask(task))
    BY <1>1, <2>1 DEF Logged
  <2> QED
    BY <1>3, <2>1, <2>2, LoopStep DEF TerminalForStop
<1>4. CASE task.stop = "MaxTokens"
  <2>1. CanExceed(task, "max_tokens")
    BY <1>1, <1>2, <1>4 DEF CanExceed, TokensSpent
  <2>2. Logged(durable, Exceed(task, "max_tokens"))
    BY <1>1, <2>1 DEF Logged, Verdicts
  <2> QED
    BY <1>4, <2>1, <2>2, LoopStep DEF TerminalForStop
<1> QED
  BY <1>2, <1>3, <1>4

LEMMA StartStep == IInv /\ LogInv /\ (Submit \/ Begin \/ Recover) => StepOK
<1> SUFFICES ASSUME IInv, LogInv, Submit \/ Begin \/ Recover
             PROVE  StepOK
  OBVIOUS
<1>1. CASE Submit
  BY <1>1, QuietStep DEF Submit
<1>2. CASE Begin
  <2>1. task = durable /\ CanStartTask(task)
    BY <1>2 DEF Begin, IInv, PointOK, CanStartTask
  <2>2. Logged(durable, StartTask(task))
    BY <2>1 DEF Logged
  <2>3. pc' = "loop" => PointMore'
    BY DEF PointMore
  <2> QED
    BY <1>2, <2>1, <2>2, <2>3, ThenStep DEF Begin
<1>3. CASE Recover
  BY <1>3, QuietStep DEF Recover, Faults
<1> QED
  BY <1>1, <1>2, <1>3

LEMMA ContextStep ==
  IInv /\ LogInv /\ (HandleCreated \/ RetrieveContext \/ ContextRetrieved \/ CloseRound)
    => StepOK
<1> SUFFICES ASSUME IInv, LogInv,
                    HandleCreated \/ RetrieveContext \/ ContextRetrieved
                      \/ CloseRound
             PROVE  StepOK
  OBVIOUS
<1>0. /\ pc # "down" /\ task = durable /\ RecordOK(task)
      /\ task.status \in {"Created", "PreparingContext", "AwaitingTool"}
  BY DEF IInv, PointOK, LogInv, HandleCreated, RetrieveContext, ContextRetrieved,
         CloseRound, AtTools
<1>1. CanCancel(task)
  BY <1>0 DEF CanCancel, IsTerminal, Terminal
<1>2. CASE HandleCreated
  <2>1. CanPrepareContext(task)
    BY <1>2 DEF HandleCreated, CanPrepareContext
  <2>2. Logged(durable, PrepareContext(task))
    BY <1>0, <2>1 DEF Logged
  <2> QED
    BY <1>2, <2>1, <2>2, LoopStep DEF HandleCreated
<1>3. CASE RetrieveContext
  <2> DEFINE verdict == GuardVerdict("none", 0, 0)
  <2>1. CASE verdict # "none"
    <3>1. verdict \in {"cancelled", "max_task_time_ms"}
      BY <2>1, TimeVerdict
    <3>2. task.status = "PreparingContext" /\ task.stop = "none"
      BY <1>0, <1>3 DEF RetrieveContext, RecordOK
    <3>3. CanExceed(task, "max_task_time_ms")
      BY <3>2 DEF CanExceed, GuardStatus
    <3>4. StopAtGuard(verdict)
      BY <1>3, <2>1 DEF RetrieveContext
    <3> HIDE DEF verdict
    <3> QED
      BY <1>0, <1>1, <3>1, <3>3, <3>4, GuardStopStep DEF Verdicts
  <2>2. CASE verdict = "none"
    BY <1>3, <2>2, QuietStep DEF RetrieveContext, Stay
  <2> QED
    BY <2>1, <2>2
<1>4. CASE ContextRetrieved
  <2>0. task.status = "PreparingContext"
    BY <1>4 DEF ContextRetrieved, IInv, PointOK
  <2>1. CASE AppendThenLoop(CanContextFailed(task), ContextFailed(task))
    <3>1. CanContextFailed(task)
      BY <2>0 DEF CanContextFailed
    <3>2. Logged(durable, ContextFailed(task))
      BY <1>0, <3>1 DEF Logged
    <3> QED
      BY <2>1, <3>1, <3>2, LoopStep
  <2>2. ASSUME NEW forbidden \in BOOLEAN, NEW noMatch \in BOOLEAN,
               AppendThenLoop(CanContextPrepared(task),
                              ContextPrepared(task, forbidden, noMatch))
        PROVE  StepOK
    <3>1. CanContextPrepared(task)
      BY <2>0 DEF CanContextPrepared
    <3>2. Logged(durable, ContextPrepared(task, forbidden, noMatch))
      BY <1>0, <3>1 DEF Logged
    <3> QED
      BY <2>2, <3>1, <3>2, LoopStep
  <2> QED
    BY <1>4, <2>1, <2>2 DEF ContextRetrieved
<1>5. CASE CloseRound
  <2>1. /\ task.status = "AwaitingTool" /\ task.active = 0
        /\ task.next = Len(task.pending) /\ task.pending # <<>>
    BY <1>0, <1>5 DEF CloseRound, AtTools, IInv, CallsOK
  <2>2. CanPrepareContext(task)
    BY <1>0, <2>1 DEF CanPrepareContext, ToolsComplete, RecordOK
  <2>3. Logged(durable, PrepareContext(task))
    BY <1>0, <2>2 DEF Logged
  <2> QED
    BY <1>5, <2>2, <2>3, LoopStep DEF CloseRound
<1> QED
  BY <1>2, <1>3, <1>4, <1>5

LEMMA ModelStep ==
  IInv /\ LogInv /\ (AnswerNoMatch \/ FinishAcceptedAnswer \/ ReissueModelCall
                     \/ IssueModelCall \/ ModelCancelled \/ ModelFailed
                     \/ FinishAnswer)
    => StepOK
<1> SUFFICES ASSUME IInv, LogInv,
                    AnswerNoMatch \/ FinishAcceptedAnswer \/ ReissueModelCall
                      \/ IssueModelCall \/ ModelCancelled \/ ModelFailed
                      \/ FinishAnswer
             PROVE  StepOK
  OBVIOUS
<1>0. /\ pc # "down" /\ task = durable /\ RecordOK(task) /\ CallsOK(task)
      /\ task \in TaskState /\ task.status = "AwaitingModel"
  BY DEF IInv, TypeOK, PointOK, LogInv, AnswerNoMatch, FinishAcceptedAnswer,
         ReissueModelCall, IssueModelCall, ModelCancelled, ModelFailed,
         FinishAnswer, AtModel
<1>1. CanCancel(task)
  BY <1>0 DEF CanCancel, IsTerminal, Terminal
<1>2. task.pending = <<>> /\ task.active = 0
  <2>1. task.pending = <<>>
    BY <1>0 DEF CallsOK
  <2>2. Len(task.pending) = 0
    BY <2>1
  <2> QED
    BY <1>0, <2>1, <2>2, FieldTypes DEF CallsOK
<1>3. ASSUME task.stop = "none",
             NEW STATE verdict, verdict \in {"cancelled", "max_task_time_ms"},
             StopAtGuard(verdict)
      PROVE  StepOK
  <2>1. CanExceed(task, "max_task_time_ms")
    BY <1>0, <1>3 DEF CanExceed, GuardStatus
  <2> QED
    BY <1>0, <1>1, <1>3, <2>1, GuardStopStep DEF Verdicts
<1>4. CASE AnswerNoMatch
  <2>1. task.noMatch
    BY <1>4 DEF AnswerNoMatch
  <2>2. CanNoMatch(task)
    BY <1>0, <2>1 DEF CanNoMatch, RecordOK, Asks
  <2>3. Logged(durable, NoMatch(task))
    BY <1>0, <2>2 DEF Logged
  <2> QED
    BY <1>4, <2>2, <2>3, LoopStep DEF AnswerNoMatch
<1>5. CASE FinishAcceptedAnswer
  BY <1>0, <1>5, AcceptedStep DEF FinishAcceptedAnswer
<1>6. CASE ReissueModelCall
  <2> DEFINE verdict == GuardVerdict("none", 0, 0)
  <2>0. task.inFlight /\ task.stop = "none"
    BY <1>0, <1>6 DEF ReissueModelCall, RecordOK
  <2>1. CASE verdict # "none"
    BY <1>3, <1>6, <2>0, <2>1, TimeVerdict DEF ReissueModelCall
  <2>2. CASE verdict = "none"
    <3>1. pc' = "model" /\ UNCHANGED <<durable, task, exit>>
      BY <1>6, <2>2 DEF ReissueModelCall, Stay
    <3> QED
      BY <2>0, <3>1 DEF StepOK, PointMore
  <2> QED
    BY <2>1, <2>2
<1>7. CASE IssueModelCall
  <2> DEFINE verdict ==
               GuardVerdict("max_model_rounds", task.rounds, MaxModelRounds)
             tools == IF task.forbidden \/ dryRun THEN "plain" ELSE "tools"
  <2>0. ~task.inFlight /\ task.stop = "none" /\ ~task.noMatch
    BY <1>7 DEF IssueModelCall, AtModel
  <2>1. CASE verdict # "none"
    <3>0. StopAtGuard(verdict)
      BY <1>7, <2>1 DEF IssueModelCall
    <3>1. CASE verdict \in {"cancelled", "max_task_time_ms"}
      BY <1>3, <2>0, <3>0, <3>1
    <3>2. CASE verdict \notin {"cancelled", "max_task_time_ms"}
      <4>1. verdict = "max_model_rounds" /\ task.rounds >= MaxModelRounds
        BY <2>1, <3>2 DEF GuardVerdict
      <4>2. CanExceed(task, verdict)
        BY <1>0, <1>2, <2>0, <4>1 DEF CanExceed
      <4> HIDE DEF verdict
      <4> QED
        BY <1>0, <1>1, <3>0, <4>1, <4>2, GuardStopStep DEF Verdicts
    <3> QED
      BY <3>1, <3>2
  <2>2. CASE verdict = "none"
    <3>1. AppendThen(CanStartModelCall(task, tools),
                     StartModelCall(task, tools), "model")
      BY <1>7, <2>2 DEF IssueModelCall
    <3>2. CanStartModelCall(task, tools) /\ tools \in {"plain", "tools"}
      BY <1>0, <2>0 DEF CanStartModelCall
    <3>3. StartModelCall(task, tools).inFlight
      BY <1>0 DEF StartModelCall, TaskState
    <3> HIDE DEF tools
    <3>4. Logged(durable, StartModelCall(task, tools))
      BY <1>0, <2>0, <3>2 DEF Logged
    <3>5. task' = StartModelCall(task, tools) /\ pc' = "model" => PointMore'
      BY <3>3 DEF PointMore
    <3> QED
      BY <3>1, <3>2, <3>4, <3>5, ThenStep
  <2> QED
    BY <2>1, <2>2
<1>8. CASE ModelCancelled
  BY <1>0, <1>1, <1>8, CancelStep DEF ModelCancelled, Verdicts
<1>9. CASE ModelFailed
  <2> DEFINE verdict == GuardVerdict("none", 0, 0)
  <2>0. task.inFlight /\ task.stop = "none"
    BY <1>0, <1>9 DEF ModelFailed, RecordOK, LogInv, PointMore
  <2>1. CASE verdict # "none"
    BY <1>3, <1>9, <2>0, <2>1, TimeVerdict DEF ModelFailed
  <2>2. CASE verdict = "none"
    <3>1. CanFailModelCall(task)
      BY <1>0, <2>0 DEF CanFailModelCall
    <3>2. Logged(durable, FailModelCall(task))
      BY <1>0, <3>1 DEF Logged
    <3> QED
      BY <1>9, <2>2, <3>1, <3>2, LoopStep DEF ModelFailed
  <2> QED
    BY <2>1, <2>2
<1>10. CASE FinishAnswer
  BY <1>0, <1>10, AcceptedStep DEF FinishAnswer, LogInv, PointMore
<1> QED
  BY <1>4, <1>5, <1>6, <1>7, <1>8, <1>9, <1>10

LEMMA AnswerStep == IInv /\ LogInv /\ ModelAnswers => StepOK
<1> SUFFICES ASSUME IInv, LogInv, NEW stop \in StopReasons,
                    NEW asked \in Answers \cup {<<>>}, ModelAnswered(stop, asked)
             PROVE  StepOK
  BY DEF ModelAnswers
<1> DEFINE after == AcceptAnswer(task, stop, asked)
           legal == CanAcceptAnswer(task, stop, asked)
           point == IF asked = <<>> THEN "accepted" ELSE "loop"
<1>0. /\ pc = "model" /\ AppendThen(legal, after, point)
      /\ task \in TaskState /\ task = durable
      /\ task.status = "AwaitingModel" /\ task.inFlight
      /\ ValidAnswer(stop, asked) /\ (task.forbidden => asked = <<>>)
  BY DEF IInv, TypeOK, PointOK, LogInv, PointMore, ModelAnswered
<1>1. legal
  BY <1>0 DEF CanAcceptAnswer
<1>2. Logged(durable, after)
  BY <1>0, <1>1 DEF Logged
<1>3. after.inFlight = FALSE /\ after.stop = stop
  BY <1>0 DEF AcceptAnswer, TaskState
<1>4. task' = after /\ pc' = point => PointMore'
  BY <1>3 DEF PointMore, StopReasons
<1> HIDE DEF after, legal, point
<1> QED
  BY <1>0, <1>1, <1>2, <1>4, ThenStep

LEMMA RecoveryStep ==
  IInv /\ LogInv /\ (ResumeCall \/ RecoverScreen \/ RecoverFinish) => StepOK
<1> SUFFICES ASSUME IInv, LogInv, ResumeCall \/ RecoverScreen \/ RecoverFinish
             PROVE  StepOK
  OBVIOUS
<1>0. /\ pc # "down" /\ task = durable /\ RecordOK(task) /\ CallsOK(task)
      /\ task \in TaskState
      /\ task.status = "AwaitingTool" /\ task.active # 0
  BY DEF IInv, TypeOK, PointOK, LogInv, ResumeCall, RecoverScreen, RecoverFinish,
         AtTools
<1>1. /\ CanCancel(task) /\ task.active = task.next + 1
      /\ task.next < task.dispatch /\ task.next < Len(task.pending)
  <2>1. task.active = task.next + 1 /\ task.next < task.dispatch
    BY <1>0 DEF CallsOK
  <2>2. task.next < Len(task.pending)
    BY <1>0, <2>1, FieldTypes DEF CallsOK
  <2> QED
    BY <1>0, <2>1, <2>2 DEF CanCancel, IsTerminal, Terminal
<1>2. ASSUME AppendThenLoop(CanCompleteCall(task, task.active),
                            CompleteCall(task, task.active))
      PROVE  StepOK
  <2>1. CanCompleteCall(task, task.active)
    BY <1>0, <1>1 DEF CanCompleteCall, AtHead
  <2>2. Logged(durable, CompleteCall(task, task.active))
    BY <1>0, <1>1, <2>1 DEF Logged
  <2> QED
    BY <1>2, <2>1, <2>2, LoopStep
<1>3. CASE ResumeCall
  <2> DEFINE verdict == GuardVerdict("none", 0, 0)
  <2>1. CASE verdict # "none"
    <3>1. CanExceed(task, "max_task_time_ms")
      BY <1>0, <1>1 DEF CanExceed, GuardStatus, RecordOK
    <3>2. StopAtGuard(verdict) /\ verdict \in {"cancelled", "max_task_time_ms"}
      BY <1>1, <1>3, <2>1, TimeVerdict DEF ResumeCall
    <3> HIDE DEF verdict
    <3> QED
      BY <1>0, <1>1, <3>1, <3>2, GuardStopStep DEF Verdicts
  <2>2. CASE verdict = "none"
    BY <1>1, <1>3, <2>2, QuietStep DEF ResumeCall, Stay
  <2> QED
    BY <2>1, <2>2
<1>4. CASE RecoverScreen
  <2>1. CASE AppendThenLoop(CanCancel(task), CancelTask(task, "dangerous_pattern"))
    BY <1>0, <1>1, <2>1, CancelStep DEF Verdicts
  <2>2. CASE pc' = "recovering" /\ Stay /\ UNCHANGED <<durable, task>>
    BY <2>2, QuietStep DEF Stay
  <2> QED
    BY <1>2, <1>4, <2>1, <2>2 DEF RecoverScreen
<1>5. CASE RecoverFinish
  <2>1. CASE AppendThenLoop(CanFailCall(task, task.active), FailCall(task))
    <3>1. CanFailCall(task, task.active)
      BY <1>0, <1>1 DEF CanFailCall, AtHead
    <3>2. Logged(durable, FailCall(task))
      BY <1>0, <1>1, <3>1 DEF Logged
    <3> QED
      BY <2>1, <3>1, <3>2, LoopStep
  <2> QED
    BY <1>2, <1>5, <2>1 DEF RecoverFinish
<1> QED
  BY <1>3, <1>4, <1>5

LEMMA OpenStep == IInv /\ LogInv /\ OpenWindow => StepOK
<1> SUFFICES ASSUME IInv, LogInv, OpenWindow
             PROVE  StepOK
  OBVIOUS
<1> DEFINE verdict == GuardVerdict("max_tool_calls", task.calls, MaxToolCalls)
<1>0. /\ pc # "down" /\ task = durable /\ RecordOK(task)
      /\ task.status = "AwaitingTool" /\ task.active = 0
      /\ task.next < Len(task.pending)
  BY DEF IInv, PointOK, LogInv, OpenWindow, AtTools
<1>1. CASE verdict # "none"
  <2>1. CanCancel(task) /\ StopAtGuard(verdict)
    BY <1>0, <1>1 DEF CanCancel, IsTerminal, Terminal, OpenWindow
  <2>2. ~task.inFlight /\ task.stop = "ToolUse"
    BY <1>0 DEF RecordOK
  <2>3. CASE verdict = "cancelled"
    BY <1>0, <2>1, <2>3, GuardStopStep DEF Verdicts
  <2>4. CASE verdict = "max_task_time_ms"
    <3>1. CanExceed(task, verdict)
      BY <1>0, <2>2, <2>4 DEF CanExceed, GuardStatus
    <3> HIDE DEF verdict
    <3> QED
      BY <1>0, <2>1, <2>4, <3>1, GuardStopStep DEF Verdicts
  <2>5. CASE verdict \notin {"cancelled", "max_task_time_ms"}
    <3>1. verdict = "max_tool_calls" /\ task.calls >= MaxToolCalls
      BY <1>1, <2>5 DEF GuardVerdict
    <3>2. CanExceed(task, verdict)
      BY <1>0, <2>2, <3>1 DEF CanExceed
    <3> HIDE DEF verdict
    <3> QED
      BY <1>0, <2>1, <3>1, <3>2, GuardStopStep DEF Verdicts
  <2> QED
    BY <2>3, <2>4, <2>5
<1>2. CASE verdict = "none"
  BY <1>2, QuietStep DEF OpenWindow
<1> QED
  BY <1>1, <1>2

LEMMA StartNextStep == IInv /\ LogInv /\ StartNext => StepOK
<1> SUFFICES ASSUME IInv, LogInv, StartNext
             PROVE  StepOK
  OBVIOUS
<1> DEFINE call == task.next + window.slot + 1
           last == window.slot + 1 = window.size
           after == StartCall(task, call)
           legal == CanStartCall(task, call)
<1>0. /\ pc = "start" /\ AtStart /\ task = durable /\ task \in TaskState
      /\ window \in [first : Nat, size : 0..MaxAnswer, slot : Nat]
  BY DEF IInv, TypeOK, PointOK, StartNext
<1>a. /\ window.first \in Nat /\ window.size \in Nat /\ window.slot \in Nat
      /\ task.next \in Nat /\ task.dispatch \in Nat /\ task.calls \in Nat
      /\ Len(task.pending) \in Nat /\ MaxToolCalls \in Nat
  <2>1. window.size \in 0..MaxAnswer /\ MaxAnswer \in Nat
    BY <1>0, BudgetsPositive
  <2> QED
    BY <1>0, <2>1, FieldTypes, BudgetsPositive
<1>b. /\ task.status = "AwaitingTool" /\ window.first = task.next + 1
      /\ window.slot < window.size
      /\ task.dispatch = task.next + window.slot
      /\ task.next + window.size <= Len(task.pending)
      /\ task.calls + window.size <= MaxToolCalls + window.slot
      /\ window.size = 1
           \/ \A i \in task.next + 1 .. task.next + window.size : Safe(i)
  BY <1>0 DEF AtStart
<1>1. call = task.dispatch + 1 /\ task.dispatch < Len(task.pending)
  BY <1>a, <1>b
<1>2. legal
  BY <1>1, <1>b DEF CanStartCall
<1>3. task.calls < MaxToolCalls
  BY <1>a, <1>b
<1>4. \/ task.dispatch = task.next
      \/ \A i \in task.next + 1 .. task.dispatch + 1 :
           task.pending[i] \in ConcurrencySafe
  <2>1. CASE window.size = 1
    BY <1>a, <1>b, <2>1
  <2>2. CASE \A i \in task.next + 1 .. task.next + window.size : Safe(i)
    BY <1>a, <1>b, <2>2 DEF Safe
  <2> QED
    BY <1>b, <2>1, <2>2
<1>5. Logged(durable, after)
  BY <1>0, <1>1, <1>2, <1>3, <1>4 DEF Logged
<1>6. CASE /\ Appended(legal, after)
           /\ pc' = IF last THEN "screen" ELSE "start"
           /\ window' = [window EXCEPT !.slot = IF last THEN 0 ELSE @ + 1]
           /\ UNCHANGED <<running, outcome, exit>>
  <2>1. /\ durable' = after /\ task' = after /\ exit' = exit
        /\ pc' \in {"start", "screen"}
    BY <1>6 DEF Appended
  <2>2. task'.pending = task.pending
    BY <1>0, <2>1 DEF StartCall, TaskState
  <2>3. window'.first = window.first /\ window'.size = window.size
    BY <1>0, <1>6
  <2>4. window'.size = 1 \/ \A slot \in WindowSlots' : Safe(CallOf(slot))'
    <3>1. CASE window.size = 1
      BY <2>3, <3>1
    <3>2. CASE \A i \in task.next + 1 .. task.next + window.size : Safe(i)
      <4>1. ASSUME NEW slot \in 1..window.size
            PROVE  task.pending[window.first + slot - 1] \in ConcurrencySafe
        <5>1. window.first + slot - 1 \in task.next + 1 .. task.next + window.size
          BY <1>a, <1>b
        <5> QED
          BY <3>2, <5>1 DEF Safe
      <4> QED
        BY <2>2, <2>3, <4>1 DEF WindowSlots, Safe, CallOf
    <3> QED
      BY <1>b, <3>1, <3>2
  <2>5. PointMore'
    BY <2>1, <2>4 DEF PointMore
  <2> HIDE DEF after
  <2> QED
    BY <1>5, <2>1, <2>5 DEF StepOK
<1>7. CASE AppendFailed(legal, after) \/ AppendRejected(legal)
  <2>1. AppendThenLoop(legal, after)
    BY <1>7 DEF AppendThenLoop
  <2> HIDE DEF legal, after
  <2> QED
    BY <1>2, <1>5, <2>1, LoopStep
<1> QED
  BY <1>6, <1>7 DEF StartNext

LEMMA ScreenStep ==
  IInv /\ LogInv /\ (ScreenWindow \/ AllEnded \/ \E slot \in Slots : ToolEnds(slot))
    => StepOK
<1> SUFFICES ASSUME IInv, LogInv,
                    ScreenWindow \/ AllEnded \/ \E slot \in Slots : ToolEnds(slot)
             PROVE  StepOK
  OBVIOUS
<1>a. /\ pc \in {"screen", "execute"} /\ task = durable /\ task \in TaskState
      /\ task.status = "AwaitingTool" /\ window.first = task.next + 1
      /\ window.size = 1 \/ \A slot \in WindowSlots : Safe(CallOf(slot))
  BY DEF IInv, TypeOK, PointOK, AtScreen, LogInv, PointMore, ScreenWindow,
         AllEnded, ToolEnds
<1>b. window.first <= task.next + 1
  BY <1>a, FieldTypes
<1>0. /\ task = durable /\ task.status = "AwaitingTool"
      /\ window.size = 1 \/ \A slot \in WindowSlots : Safe(CallOf(slot))
      /\ window.first <= task.next + 1
  BY <1>a, <1>b
<1>1. ASSUME UNCHANGED <<durable, task, window, exit>>,
             pc' \in {"execute", "complete"}
      PROVE  StepOK
  BY <1>0, <1>1 DEF StepOK, PointMore, WindowSlots, Safe, CallOf
<1>2. CASE AppendThenLoop(CanCancel(task), CancelTask(task, "dangerous_pattern"))
  <2>1. CanCancel(task)
    BY <1>0 DEF CanCancel, IsTerminal, Terminal
  <2> QED
    BY <1>0, <1>2, <2>1, CancelStep DEF Verdicts
<1>3. CASE ScreenWindow
  BY <1>1, <1>2, <1>3 DEF ScreenWindow
<1>4. CASE AllEnded
  BY <1>1, <1>4 DEF AllEnded
<1>5. ASSUME NEW slot \in Slots, ToolEnds(slot) PROVE StepOK
  BY <1>1, <1>5 DEF ToolEnds
<1> QED
  BY <1>3, <1>4, <1>5

(* The first completion of a window is always accepted; past it the call the loop *)
(* names is refused, or lies past the last one, only in a window wider than one.  *)
LEMMA CompletionStep == IInv /\ LogInv /\ CompleteSlot => StepOK
<1> SUFFICES ASSUME IInv, LogInv, CompleteSlot
             PROVE  StepOK
  OBVIOUS
<1> DEFINE call  == CompletedCall
           slot  == window.slot + 1
           owner == CallOf(slot)
           good  == outcome[slot] # "failed" /\ owner = call
           legal == IF good THEN CanCompleteCall(task, owner)
                    ELSE CanFailCall(task, call)
           after == IF good THEN CompleteCall(task, owner) ELSE FailCall(task)
<1>0. /\ pc = "complete" /\ AtCompletion /\ task = durable /\ task \in TaskState
      /\ CallsOK(task) /\ window \in [first : Nat, size : 0..MaxAnswer, slot : Nat]
      /\ window.size = 1 \/ \A i \in WindowSlots : Safe(CallOf(i))
      /\ window.first <= task.next + 1
  BY DEF IInv, TypeOK, PointOK, LogInv, PointMore, CompleteSlot
<1>a. /\ window.first \in Nat /\ window.size \in Nat /\ window.slot \in Nat
      /\ task.next \in Nat /\ task.dispatch \in Nat /\ Len(task.pending) \in Nat
  <2>1. window.size \in 0..MaxAnswer /\ MaxAnswer \in Nat
    BY <1>0, BudgetsPositive
  <2> QED
    BY <1>0, <2>1, FieldTypes, BudgetsPositive
<1>1. window.slot = 0 => /\ task.status = "AwaitingTool"
                         /\ call = task.next + 1 /\ owner = task.next + 1
                         /\ task.next < task.dispatch
                         /\ task.next < Len(task.pending)
  BY <1>0, <1>a DEF AtCompletion, CompletedCall, CallOf, CallsOK
<1>2. window.slot > 0 => WideWindow
  BY <1>0, <1>a DEF AtCompletion, WideWindow
<1>3. legal => Logged(durable, after)
  <2>1. CASE good
    <3>1. ASSUME legal PROVE owner = task.next + 1 /\ task.next < task.dispatch
      <4>1. call = task.next + 1
        BY <2>1, <3>1 DEF CanCompleteCall, AtHead
      <4>2. window.slot = 0
        BY <1>a, <4>1 DEF CompletedCall
      <4> QED
        BY <1>1, <4>2
    <3> QED
      BY <1>0, <2>1, <3>1 DEF Logged
  <2>2. CASE ~good
    <3>1. legal => call = task.next + 1
      BY <2>2 DEF CanFailCall, AtHead
    <3> QED
      BY <1>0, <2>2, <3>1 DEF Logged
  <2> QED
    BY <2>1, <2>2
<1>4. window.slot = 0 => legal
  <2>1. CASE good
    BY <1>1, <2>1 DEF CanCompleteCall, AtHead
  <2>2. CASE ~good
    BY <1>1, <2>2 DEF CanFailCall, AtHead
  <2> QED
    BY <2>1, <2>2
<1>5. after.pending = task.pending /\ after.next \in {task.next, task.next + 1}
  BY <1>0 DEF CompleteCall, FailCall, TaskState
<1> HIDE DEF legal, after, owner, good
<1>6. CASE call > Len(task.pending)
  <2>1. pc' = "down" /\ UNCHANGED durable
    BY <1>6 DEF CompleteSlot, Leave
  <2>2. window.slot > 0
    BY <1>1, <1>6, <1>a
  <2> QED
    BY <1>2, <2>1, <2>2 DEF StepOK, PointMore
<1>7. CASE /\ Appended(legal, after)
           /\ slot # window.size
           /\ pc' = "complete"
           /\ window' = [window EXCEPT !.slot = slot]
           /\ UNCHANGED <<running, outcome, exit>>
  <2>1. legal /\ durable' = after /\ task' = after /\ exit' = exit
    BY <1>7 DEF Appended
  <2>2. window'.first = window.first /\ window'.size = window.size
    BY <1>0, <1>7
  <2>3. task'.pending = task.pending
    BY <1>5, <2>1
  <2>5. window'.first <= task'.next + 1
    BY <1>0, <1>5, <1>a, <2>1, <2>2
  <2>4. PointMore'
    BY <1>0, <1>7, <2>2, <2>3, <2>5 DEF PointMore, WindowSlots, Safe, CallOf
  <2> QED
    BY <1>3, <2>1, <2>4 DEF StepOK
<1>8. CASE Appended(legal, after) /\ Continue(after)
  <2>1. legal /\ AppendThenLoop(legal, after)
    BY <1>8 DEF AppendThenLoop, Appended
  <2> QED
    BY <1>3, <2>1, LoopStep
<1>9. CASE AppendFailed(legal, after)
  <2>1. legal /\ AppendThenLoop(legal, after)
    BY <1>9 DEF AppendThenLoop, AppendFailed
  <2> QED
    BY <1>3, <2>1, LoopStep
<1>10. CASE AppendRejected(legal)
  <2>1. ~legal /\ pc' = "down" /\ UNCHANGED durable
    BY <1>10 DEF AppendRejected, Leave
  <2>2. window.slot > 0
    BY <1>4, <1>a, <2>1
  <2> QED
    BY <1>2, <2>1, <2>2 DEF StepOK, PointMore
<1> QED
  BY <1>6, <1>7, <1>8, <1>9, <1>10
     DEF CompleteSlot, legal, after, good, owner

LEMMA OutsideStep ==
  IInv /\ LogInv /\ (Crash \/ Cancel \/ TimePasses \/ UNCHANGED vars) => StepOK
<1> SUFFICES ASSUME IInv, LogInv, Crash \/ Cancel \/ TimePasses \/ UNCHANGED vars
             PROVE  StepOK
  OBVIOUS
<1>1. CASE Crash
  BY <1>1, QuietStep DEF Crash, Leave, Faults
<1>2. CASE Cancel \/ TimePasses \/ UNCHANGED vars
  <2>1. UNCHANGED <<durable, task, pc, window, exit>>
    BY <1>2 DEF Cancel, TimePasses, vars
  <2> QED
    BY <2>1 DEF LogInv, StepOK, PointMore, WindowSlots, Safe, CallOf
<1> QED
  BY <1>1, <1>2

LEMMA EveryStep == IInv /\ LogInv /\ [Next]_vars => StepOK
<1> SUFFICES ASSUME IInv, LogInv, [Next]_vars
             PROVE  StepOK
  OBVIOUS
<1>1. CASE Submit \/ Begin \/ Recover
  BY <1>1, StartStep
<1>2. CASE HandleCreated \/ RetrieveContext \/ ContextRetrieved \/ CloseRound
  BY <1>2, ContextStep
<1>3. CASE \/ AnswerNoMatch \/ FinishAcceptedAnswer \/ ReissueModelCall
           \/ IssueModelCall \/ ModelCancelled \/ ModelFailed \/ FinishAnswer
  BY <1>3, ModelStep
<1>4. CASE ModelAnswers
  BY <1>4, AnswerStep
<1>5. CASE ResumeCall \/ RecoverScreen \/ RecoverFinish
  BY <1>5, RecoveryStep
<1>6. CASE OpenWindow
  BY <1>6, OpenStep
<1>7. CASE StartNext
  BY <1>7, StartNextStep
<1>8. CASE ScreenWindow \/ AllEnded \/ \E slot \in Slots : ToolEnds(slot)
  BY <1>8, ScreenStep
<1>9. CASE CompleteSlot
  BY <1>9, CompletionStep
<1>10. CASE Crash \/ Cancel \/ TimePasses \/ UNCHANGED vars
  BY <1>10, OutsideStep
<1> QED
  BY <1>1, <1>2, <1>3, <1>4, <1>5, <1>6, <1>7, <1>8, <1>9, <1>10
     DEF Next, EngineStep
--------------------------------------------------------------------------------
LEMMA LogInit == Init => LogInv
<1> SUFFICES ASSUME Init PROVE LogInv
  OBVIOUS
<1>1. durable = NoTask /\ pc = "down"
  BY DEF Init
<1>2. /\ durable.transcript = <<>> /\ durable.pending = <<>>
      /\ durable.results = <<>> /\ durable.next = 0 /\ durable.status = "Absent"
  BY <1>1 DEF NoTask
<1>3. RecordOK(durable)
  BY <1>1, <1>2 DEF RecordOK, Conversation, EndsWith
<1> QED
  BY <1>1, <1>3 DEF LogInv, PointMore

LEMMA LogStep == IInv /\ LogInv /\ [Next]_vars => LogInv'
<1> SUFFICES ASSUME IInv, LogInv, [Next]_vars
             PROVE  LogInv'
  OBVIOUS
<1>1. StepOK
  BY EveryStep
<1>2. durable \in TaskState /\ RecordOK(durable)
  BY DEF IInv, TypeOK, LogInv
<1>3. CASE durable' = durable
  BY <1>1, <1>2, <1>3 DEF StepOK, LogInv
<1>4. CASE Logged(durable, durable')
  BY <1>1, <1>2, <1>4, RecordLogged DEF StepOK, LogInv
<1> QED
  BY <1>1, <1>3, <1>4 DEF StepOK

(* The record of the log and what the engine knows where it appends hold in every *)
(* state, relative to the invariant of TaskRuntimeProofs.                         *)
THEOREM RecordInductive == Spec => [](IInv /\ LogInv)
<1>1. Init => LogInv
  BY LogInit
<1>2. IInv /\ LogInv /\ [Next]_vars => LogInv'
  BY LogStep
<1>3. Spec => []IInv
  BY Inductive
<1> QED
  BY <1>1, <1>2, <1>3, PTL DEF Spec

(* The durable log only ever grows by events its reducer accepts in the state it  *)
(* replays to, with the engine's own conditions on requests, starts and           *)
(* completions: so every recovery replays it without an error.                    *)
THEOREM LogGrowsByAcceptedEvents ==
  Spec => [][durable' = durable \/ Logged(durable, durable')]_vars
<1>1. IInv /\ LogInv /\ [Next]_vars =>
        [durable' = durable \/ Logged(durable, durable')]_vars
  BY EveryStep DEF StepOK
<1> QED
  BY <1>1, RecordInductive, PTL DEF Spec

(* For every answer and every history of crashes, failed appends and recoveries:  *)
(* the transcript of the log stays one a provider accepts, and the results        *)
(* collected for the open request are those of its first calls, in order.         *)
THEOREM TranscriptSafety == Spec => []TranscriptWellFormed
<1>1. IInv /\ LogInv => TranscriptWellFormed
  <2> SUFFICES ASSUME IInv, LogInv PROVE TranscriptWellFormed
    OBVIOUS
  <2>1. /\ durable \in TaskState /\ Conversation(durable.transcript)
        /\ EndsWith(durable, "tool_use") <=> durable.pending # <<>>
        /\ Len(durable.results) = durable.next
        /\ \A i \in 1..durable.next : durable.results[i] = i
    BY DEF IInv, TypeOK, LogInv, RecordOK
  <2>2. durable.results = [i \in 1..durable.next |-> i]
    <3>1. durable.results = [i \in 1..durable.next |-> durable.results[i]]
      BY <2>1, RecordTypes
    <3> QED
      BY <2>1, <3>1
  <2> QED
    BY <2>1, <2>2 DEF TranscriptWellFormed, Conversation
<1> QED
  BY <1>1, RecordInductive, PTL

(* The engine appends an event the reducer refuses, or reaches a broken state,    *)
(* only past the first completion of a window wider than one.                     *)
THEOREM FaultsConfined == Spec => FaultsOnlyInWideWindows
<1>1. IInv /\ LogInv /\ [Next]_vars =>
        [exit' # exit /\ exit' \in Faults =>
           pc = "complete" /\ window.size > 1 /\ window.slot > 0]_vars
  BY EveryStep DEF StepOK, WideWindow
<1> QED
  BY <1>1, RecordInductive, PTL DEF Spec, FaultsOnlyInWideWindows
--------------------------------------------------------------------------------
(* How the executions follow the log. *)


(* Calls the hooks, the permission and the patterns let through. *)
Fit == Permitted \ (HookDenied \cup Dangerous)

(* Only a call the log has started, and nothing refuses, has run in this round. *)
StartedBeforeRun ==
  durable.pending # <<>> =>
    \A i \in Slots :
      attempts[i] > 0 => i <= durable.dispatch /\ durable.pending[i] \in Fit

(* Points with an execution whose outcome the log does not hold yet. *)
Busy == {"recovering", "execute", "complete"}

(* A mutation that is neither finished nor running has used up no more than one   *)
(* execution for each crash and each failed append. *)
RunsPaidFor ==
  \A i \in 1..Len(durable.pending) :
    durable.pending[i] \notin ConcurrencySafe =>
      /\ attempts[i] <= 1 + crashes + storeFaults
      /\ i > durable.next /\ ~IsTerminal(durable) /\ pc \notin Busy =>
           attempts[i] <= crashes + storeFaults

RunInv == StartedBeforeRun /\ RunsPaidFor
--------------------------------------------------------------------------------
(* What a step does to the executions. *)

(* Some started, unfinished, fit calls are launched. *)
Launches ==
  /\ pc \notin Busy /\ pc' \in Busy
  /\ UNCHANGED <<durable, crashes, storeFaults>>
  /\ ~IsTerminal(durable)
  /\ \E S \in SUBSET (Slots \cap Open(durable)) :
       /\ \A i \in S : durable.pending[i] \in Fit
       /\ attempts' = [i \in Slots |-> IF i \in S THEN attempts[i] + 1
                                       ELSE attempts[i]]

(* A new round starts with nothing run. *)
Renews ==
  /\ durable.pending = <<>> /\ durable'.pending # <<>>
  /\ attempts' = Untried

(* Nothing is launched and no round is opened. *)
Rests == UNCHANGED attempts /\ durable'.pending \in {durable.pending, <<>>}

RunStep == Rests \/ Launches \/ Renews

(* No event but an accepted answer fills the open round. *)
LEMMA PendingKept ==
  ASSUME NEW STATE s, s \in TaskState, NEW STATE x, NEW y, NEW z
  PROVE  /\ StartTask(s).pending = <<>>
         /\ PrepareContext(s).pending \in {s.pending, <<>>}
         /\ ContextPrepared(s, y, z).pending = s.pending
         /\ ContextFailed(s).pending = s.pending
         /\ NoMatch(s).pending = s.pending
         /\ StartModelCall(s, x).pending = s.pending
         /\ FailModelCall(s).pending = s.pending
         /\ StartCall(s, x).pending = s.pending
         /\ CompleteCall(s, x).pending = s.pending
         /\ FailCall(s).pending = s.pending
         /\ CompleteTask(s).pending = s.pending
         /\ Exceed(s, x).pending = s.pending
         /\ CancelTask(s, x).pending = s.pending
<1>1. /\ StartTask(s).pending = <<>>
      /\ PrepareContext(s).pending \in {s.pending, <<>>}
  BY DEF StartTask, NoTask, PrepareContext, TaskState
<1>2. /\ ContextPrepared(s, y, z).pending = s.pending
      /\ ContextFailed(s).pending = s.pending
      /\ NoMatch(s).pending = s.pending
  BY DEF ContextPrepared, ContextFailed, NoMatch, TaskState
<1>3. /\ StartModelCall(s, x).pending = s.pending
      /\ FailModelCall(s).pending = s.pending
  BY DEF StartModelCall, FailModelCall, TaskState
<1>4. /\ StartCall(s, x).pending = s.pending
      /\ CompleteCall(s, x).pending = s.pending
      /\ FailCall(s).pending = s.pending
  BY DEF StartCall, CompleteCall, FailCall, TaskState
<1>5. /\ CompleteTask(s).pending = s.pending
      /\ Exceed(s, x).pending = s.pending
      /\ CancelTask(s, x).pending = s.pending
  BY DEF CompleteTask, Exceed, CancelTask, TaskState
<1> QED
  BY <1>1, <1>2, <1>3, <1>4, <1>5

LEMMA LoopRests ==
  ASSUME UNCHANGED attempts, NEW STATE legal, NEW STATE after,
         after.pending \in {durable.pending, <<>>}, AppendThenLoop(legal, after)
  PROVE  Rests
<1>1. durable' \in {durable, after}
  BY DEF AppendThenLoop, Appended, AppendFailed, AppendRejected
<1> QED
  BY <1>1 DEF Rests

LEMMA ThenRests ==
  ASSUME UNCHANGED attempts, NEW STATE legal, NEW STATE after, NEW point,
         after.pending \in {durable.pending, <<>>}, AppendThen(legal, after, point)
  PROVE  Rests
<1>1. durable' \in {durable, after}
  BY DEF AppendThen, Appended, AppendFailed, AppendRejected
<1> QED
  BY <1>1 DEF Rests

LEMMA CancelRests ==
  ASSUME task = durable, task \in TaskState, UNCHANGED attempts, NEW STATE reason,
         AppendThenLoop(CanCancel(task), CancelTask(task, reason))
  PROVE  Rests
<1>1. CancelTask(task, reason).pending = durable.pending
  BY PendingKept
<1> QED
  BY <1>1, LoopRests

LEMMA ExceedRests ==
  ASSUME task = durable, task \in TaskState, UNCHANGED attempts, NEW STATE budget,
         AppendThenLoop(CanExceed(task, budget), Exceed(task, budget))
  PROVE  Rests
<1>1. Exceed(task, budget).pending = durable.pending
  BY PendingKept
<1> QED
  BY <1>1, LoopRests

LEMMA StopRests ==
  ASSUME task = durable, task \in TaskState, UNCHANGED attempts, NEW STATE verdict,
         StopAtGuard(verdict)
  PROVE  Rests
BY CancelRests, ExceedRests DEF StopAtGuard

LEMMA TerminalRests ==
  ASSUME task = durable, task \in TaskState, UNCHANGED attempts, NEW STATE stop,
         TerminalForStop(stop)
  PROVE  Rests
<1>1. CASE stop = "EndTurn"
  BY <1>1, PendingKept, LoopRests DEF TerminalForStop
<1>2. CASE stop = "MaxTokens"
  BY <1>2, ExceedRests DEF TerminalForStop
<1>3. CASE stop \notin {"EndTurn", "MaxTokens"}
  BY <1>3 DEF TerminalForStop, Rests
<1> QED
  BY <1>1, <1>2, <1>3

LEMMA StillRests == ASSUME UNCHANGED <<durable, attempts>> PROVE Rests
BY DEF Rests

LEMMA ContextRests ==
  IInv /\ (Begin \/ HandleCreated \/ RetrieveContext \/ ContextRetrieved \/ CloseRound)
    => Rests
<1> SUFFICES ASSUME IInv,
                    Begin \/ HandleCreated \/ RetrieveContext \/ ContextRetrieved
                      \/ CloseRound
             PROVE  Rests
  OBVIOUS
<1>0. task = durable /\ task \in TaskState /\ UNCHANGED attempts
  BY DEF IInv, TypeOK, PointOK, Begin, HandleCreated, RetrieveContext,
         ContextRetrieved, CloseRound, AtTools
<1>1. CASE Begin
  BY <1>0, <1>1, PendingKept, ThenRests DEF Begin
<1>2. CASE HandleCreated
  BY <1>0, <1>2, PendingKept, LoopRests DEF HandleCreated
<1>3. CASE RetrieveContext
  <2>1. StopAtGuard(GuardVerdict("none", 0, 0)) \/ UNCHANGED durable
    BY <1>3 DEF RetrieveContext
  <2> QED
    BY <1>0, <2>1, StopRests, StillRests
<1>4. CASE ContextRetrieved
  <2>1. CASE AppendThenLoop(CanContextFailed(task), ContextFailed(task))
    BY <1>0, <2>1, PendingKept, LoopRests
  <2>2. ASSUME NEW forbidden \in BOOLEAN, NEW noMatch \in BOOLEAN,
               AppendThenLoop(CanContextPrepared(task),
                              ContextPrepared(task, forbidden, noMatch))
        PROVE  Rests
    <3>1. ContextPrepared(task, forbidden, noMatch).pending = durable.pending
      BY <1>0, PendingKept
    <3> QED
      BY <1>0, <2>2, <3>1, LoopRests
  <2> QED
    BY <1>4, <2>1, <2>2 DEF ContextRetrieved
<1>5. CASE CloseRound
  BY <1>0, <1>5, PendingKept, LoopRests DEF CloseRound
<1> QED
  BY <1>1, <1>2, <1>3, <1>4, <1>5

LEMMA ModelRests ==
  IInv /\ (AnswerNoMatch \/ FinishAcceptedAnswer \/ ReissueModelCall
           \/ IssueModelCall \/ ModelCancelled \/ ModelFailed \/ FinishAnswer)
    => Rests
<1> SUFFICES ASSUME IInv,
                    AnswerNoMatch \/ FinishAcceptedAnswer \/ ReissueModelCall
                      \/ IssueModelCall \/ ModelCancelled \/ ModelFailed
                      \/ FinishAnswer
             PROVE  Rests
  OBVIOUS
<1>0. task = durable /\ task \in TaskState /\ UNCHANGED attempts
  BY DEF IInv, TypeOK, PointOK, AnswerNoMatch, FinishAcceptedAnswer,
         ReissueModelCall, IssueModelCall, ModelCancelled, ModelFailed,
         FinishAnswer, AtModel
<1>1. CASE AnswerNoMatch
  BY <1>0, <1>1, PendingKept, LoopRests DEF AnswerNoMatch
<1>2. CASE FinishAcceptedAnswer \/ FinishAnswer
  BY <1>0, <1>2, TerminalRests DEF FinishAcceptedAnswer, FinishAnswer
<1>3. CASE ReissueModelCall
  <2>1. StopAtGuard(GuardVerdict("none", 0, 0)) \/ UNCHANGED durable
    BY <1>3 DEF ReissueModelCall
  <2> QED
    BY <1>0, <2>1, StopRests, StillRests
<1>4. CASE IssueModelCall
  <2> DEFINE verdict ==
               GuardVerdict("max_model_rounds", task.rounds, MaxModelRounds)
             tools == IF task.forbidden \/ dryRun THEN "plain" ELSE "tools"
  <2>1. \/ StopAtGuard(verdict)
        \/ AppendThen(CanStartModelCall(task, tools),
                      StartModelCall(task, tools), "model")
    BY <1>4 DEF IssueModelCall
  <2> HIDE DEF verdict, tools
  <2>2. StartModelCall(task, tools).pending = durable.pending
    BY <1>0, PendingKept
  <2> QED
    BY <1>0, <2>1, <2>2, StopRests, ThenRests
<1>5. CASE ModelCancelled
  BY <1>0, <1>5, CancelRests DEF ModelCancelled
<1>6. CASE ModelFailed
  <2>1. \/ StopAtGuard(GuardVerdict("none", 0, 0))
        \/ AppendThenLoop(CanFailModelCall(task), FailModelCall(task))
    BY <1>6 DEF ModelFailed
  <2> QED
    BY <1>0, <2>1, StopRests, PendingKept, LoopRests
<1> QED
  BY <1>1, <1>2, <1>3, <1>4, <1>5, <1>6

LEMMA AnswerRuns == IInv /\ ModelAnswers => Rests \/ Renews
<1> SUFFICES ASSUME IInv, NEW stop \in StopReasons,
                    NEW asked \in Answers \cup {<<>>}, ModelAnswered(stop, asked)
             PROVE  Rests \/ Renews
  BY DEF ModelAnswers
<1> DEFINE after == AcceptAnswer(task, stop, asked)
           legal == CanAcceptAnswer(task, stop, asked)
           point == IF asked = <<>> THEN "accepted" ELSE "loop"
<1>0. /\ AppendThen(legal, after, point)
      /\ task = durable /\ durable.pending = <<>> /\ task \in TaskState
      /\ attempts' = IF durable'.pending # durable.pending
                     THEN Untried ELSE attempts
  BY DEF IInv, TypeOK, PointOK, CallsOK, ModelAnswered
<1> HIDE DEF legal, point
<1>1. durable' \in {durable, after}
  BY <1>0 DEF AppendThen, Appended, AppendFailed, AppendRejected
<1> HIDE DEF after
<1>2. CASE durable'.pending = durable.pending
  BY <1>0, <1>2 DEF Rests
<1>3. CASE durable'.pending # durable.pending
  BY <1>0, <1>3 DEF Renews
<1> QED
  BY <1>2, <1>3

LEMMA RecoveryRuns ==
  IInv /\ (ResumeCall \/ RecoverScreen \/ RecoverFinish) => Rests \/ Launches
<1> SUFFICES ASSUME IInv, ResumeCall \/ RecoverScreen \/ RecoverFinish
             PROVE  Rests \/ Launches
  OBVIOUS
<1>0. /\ task = durable /\ task \in TaskState /\ CallsOK(task)
      /\ task.status = "AwaitingTool" /\ task.active # 0
      /\ attempts \in [Slots -> Nat]
  BY DEF IInv, TypeOK, PointOK, ResumeCall, RecoverScreen, RecoverFinish, AtTools
<1>1. /\ task.active \in Slots \cap Open(durable)
      /\ task.pending[task.active] \in Tools
  <2>1. task.active = task.next + 1 /\ task.next < task.dispatch
    BY <1>0 DEF CallsOK
  <2>2. task.active \in 1..Len(task.pending) /\ Len(task.pending) <= MaxAnswer
    BY <1>0, <2>1, FieldTypes DEF CallsOK
  <2> QED
    BY <1>0, <2>1, <2>2, FieldTypes, BudgetsPositive DEF Slots, Open
<1>2. CompleteCall(task, task.active).pending = durable.pending
      /\ FailCall(task).pending = durable.pending
  BY <1>0, PendingKept
<1>3. CASE ResumeCall
  <2>1. UNCHANGED attempts
        /\ (StopAtGuard(GuardVerdict("none", 0, 0)) \/ UNCHANGED durable)
    BY <1>3 DEF ResumeCall
  <2> QED
    BY <1>0, <2>1, StopRests, StillRests
<1>4. CASE RecoverScreen
  <2>1. CASE Resumed \in HookDenied \/ Resumed \notin Permitted
    BY <1>2, <1>4, <2>1, LoopRests DEF RecoverScreen
  <2>2. CASE Resumed \in Permitted \ HookDenied /\ Resumed \in Dangerous
    BY <1>0, <1>4, <2>2, CancelRests DEF RecoverScreen
  <2>3. CASE Resumed \in Fit
    <3>1. /\ pc = "recover" /\ pc' = "recovering"
          /\ UNCHANGED <<durable, storeFaults, crashes>>
          /\ attempts' = [attempts EXCEPT ![task.active] = @ + 1]
      BY <1>4, <2>3 DEF RecoverScreen, Fit, Environment
    <3>2. attempts' = [i \in Slots |-> IF i \in {task.active} THEN attempts[i] + 1
                                       ELSE attempts[i]]
      BY <1>0, <1>1, <3>1
    <3>3. {task.active} \in SUBSET (Slots \cap Open(durable))
      BY <1>1
    <3>4. \A i \in {task.active} : durable.pending[i] \in Fit
      BY <1>0, <2>3 DEF Resumed
    <3>5. ~IsTerminal(durable)
      BY <1>0 DEF IsTerminal, Terminal
    <3>6. pc \notin Busy /\ pc' \in Busy
      BY <3>1 DEF Busy
    <3> QED
      BY <3>1, <3>2, <3>3, <3>4, <3>5, <3>6 DEF Launches
  <2> QED
    BY <2>1, <2>2, <2>3 DEF Fit
<1>5. CASE RecoverFinish
  <2>1. UNCHANGED attempts
    BY <1>5 DEF RecoverFinish
  <2>2. CASE AppendThenLoop(CanCompleteCall(task, task.active),
                            CompleteCall(task, task.active))
    BY <1>2, <2>1, <2>2, LoopRests
  <2>3. CASE AppendThenLoop(CanFailCall(task, task.active), FailCall(task))
    BY <1>2, <2>1, <2>3, LoopRests
  <2> QED
    BY <1>5, <2>2, <2>3 DEF RecoverFinish
<1> QED
  BY <1>3, <1>4, <1>5

LEMMA WindowRests ==
  IInv /\ (OpenWindow \/ StartNext \/ AllEnded \/ (\E slot \in Slots : ToolEnds(slot))
           \/ CompleteSlot)
    => Rests
<1> SUFFICES ASSUME IInv,
                    \/ OpenWindow \/ StartNext \/ AllEnded \/ CompleteSlot
                    \/ \E slot \in Slots : ToolEnds(slot)
             PROVE  Rests
  OBVIOUS
<1>0. task = durable /\ task \in TaskState
  BY DEF IInv, TypeOK, PointOK, OpenWindow, StartNext, AllEnded, ToolEnds,
         CompleteSlot, AtTools
<1>1. CASE OpenWindow
  <2> DEFINE verdict == GuardVerdict("max_tool_calls", task.calls, MaxToolCalls)
  <2>1. UNCHANGED attempts /\ (StopAtGuard(verdict) \/ UNCHANGED durable)
    BY <1>1 DEF OpenWindow
  <2> HIDE DEF verdict
  <2> QED
    BY <1>0, <2>1, StopRests, StillRests
<1>2. CASE StartNext
  <2> DEFINE after == StartCall(task, task.next + window.slot + 1)
  <2>1. UNCHANGED attempts /\ durable' \in {durable, after}
    BY <1>2 DEF StartNext, Appended, AppendFailed, AppendRejected
  <2>2. after.pending = durable.pending
    BY <1>0, PendingKept
  <2> HIDE DEF after
  <2> QED
    BY <2>1, <2>2 DEF Rests
<1>3. CASE AllEnded \/ \E slot \in Slots : ToolEnds(slot)
  BY <1>3, StillRests DEF AllEnded, ToolEnds
<1>4. CASE CompleteSlot
  <2> DEFINE owner == CallOf(window.slot + 1)
  <2>1. /\ UNCHANGED attempts
        /\ durable' \in {durable, CompleteCall(task, owner), FailCall(task)}
    BY <1>4 DEF CompleteSlot, Appended, AppendFailed, AppendRejected
  <2>2. CompleteCall(task, owner).pending = durable.pending
        /\ FailCall(task).pending = durable.pending
    BY <1>0, PendingKept
  <2> HIDE DEF owner
  <2> QED
    BY <2>1, <2>2 DEF Rests
<1> QED
  BY <1>1, <1>2, <1>3, <1>4

LEMMA ScreenRuns == IInv /\ ScreenWindow => Rests \/ Launches
<1> SUFFICES ASSUME IInv, ScreenWindow
             PROVE  Rests \/ Launches
  OBVIOUS
<1>0. /\ task = durable /\ task \in TaskState /\ CallsOK(task) /\ AtScreen
      /\ window \in [first : Nat, size : 0..MaxAnswer, slot : Nat]
      /\ pc = "screen"
  BY DEF IInv, TypeOK, PointOK, ScreenWindow
<1>1. CASE \E slot \in WindowSlots : PatternHits(slot)
  BY <1>0, <1>1, CancelRests DEF ScreenWindow
<1>2. CASE ~\E slot \in WindowSlots : PatternHits(slot)
  <2> DEFINE denied == {slot \in WindowSlots :
                          HookStops(slot) \/ PermissionStops(slot)}
             S == {CallOf(slot) : slot \in WindowSlots \ denied}
  <2>1. /\ running' = WindowSlots \ denied
        /\ attempts' = [i \in Slots |->
                          IF \E slot \in running' : i = CallOf(slot)
                          THEN attempts[i] + 1 ELSE attempts[i]]
        /\ pc' = "execute" /\ UNCHANGED <<durable, storeFaults, crashes>>
    BY <1>2 DEF ScreenWindow, Environment
  <2>2. ASSUME NEW slot \in WindowSlots \ denied
        PROVE  /\ CallOf(slot) \in Slots \cap Open(durable)
               /\ durable.pending[CallOf(slot)] \in Fit
    <3>1. /\ window.first \in Nat /\ window.size \in Nat
          /\ task.next \in Nat /\ task.dispatch \in Nat
          /\ Len(task.pending) \in Nat /\ MaxAnswer \in Nat
      <4>1. window.size \in 0..MaxAnswer /\ MaxAnswer \in Nat
        BY <1>0, BudgetsPositive
      <4> QED
        BY <1>0, <4>1, FieldTypes
    <3>2. /\ window.first = task.next + 1
          /\ task.dispatch = task.next + window.size
          /\ task.dispatch <= Len(task.pending)
          /\ Len(task.pending) <= MaxAnswer
      BY <1>0 DEF AtScreen, CallsOK
    <3>3. /\ CallOf(slot) \in task.next + 1 .. task.dispatch
          /\ CallOf(slot) \in 1..MaxAnswer
          /\ CallOf(slot) \in 1..Len(task.pending)
      BY <3>1, <3>2, SMTT(20) DEF WindowSlots, CallOf
    <3>4. task.pending[CallOf(slot)] \in Fit
      BY <1>2, <3>3 DEF PatternHits, HookStops, PermissionStops, Fit
    <3> QED
      BY <1>0, <3>3, <3>4 DEF Slots, Open
  <2>3. S \in SUBSET (Slots \cap Open(durable)) /\ \A i \in S : durable.pending[i] \in Fit
    BY <2>2
  <2>4. attempts' = [i \in Slots |-> IF i \in S THEN attempts[i] + 1 ELSE attempts[i]]
    <3>1. \A i : (\E slot \in running' : i = CallOf(slot)) <=> i \in S
      BY <2>1
    <3> HIDE DEF S
    <3> QED
      BY <2>1, <3>1
  <2>5. ~IsTerminal(durable)
    BY <1>0 DEF AtScreen, IsTerminal, Terminal
  <2>6. pc \notin Busy /\ pc' \in Busy
    BY <1>0, <2>1 DEF Busy
  <2> HIDE DEF S
  <2> QED
    BY <2>1, <2>3, <2>4, <2>5, <2>6 DEF Launches
<1> QED
  BY <1>1, <1>2

LEMMA EveryRun == IInv /\ [Next]_vars => RunStep
<1> SUFFICES ASSUME IInv, [Next]_vars
             PROVE  RunStep
  OBVIOUS
<1>1. CASE \/ Begin \/ HandleCreated \/ RetrieveContext \/ ContextRetrieved
           \/ CloseRound
  BY <1>1, ContextRests DEF RunStep
<1>2. CASE \/ AnswerNoMatch \/ FinishAcceptedAnswer \/ ReissueModelCall
           \/ IssueModelCall \/ ModelCancelled \/ ModelFailed \/ FinishAnswer
  BY <1>2, ModelRests DEF RunStep
<1>3. CASE ModelAnswers
  BY <1>3, AnswerRuns DEF RunStep
<1>4. CASE ResumeCall \/ RecoverScreen \/ RecoverFinish
  BY <1>4, RecoveryRuns DEF RunStep
<1>5. CASE \/ OpenWindow \/ StartNext \/ AllEnded \/ CompleteSlot
           \/ \E slot \in Slots : ToolEnds(slot)
  BY <1>5, WindowRests DEF RunStep
<1>6. CASE ScreenWindow
  BY <1>6, ScreenRuns DEF RunStep
<1>7. CASE Submit \/ Recover \/ Crash \/ Cancel \/ TimePasses \/ UNCHANGED vars
  <2>1. UNCHANGED <<durable, attempts>>
    BY <1>7 DEF Submit, Recover, Crash, Cancel, TimePasses, vars
  <2> QED
    BY <2>1, StillRests DEF RunStep
<1> QED
  BY <1>1, <1>2, <1>3, <1>4, <1>5, <1>6, <1>7 DEF Next, EngineStep
--------------------------------------------------------------------------------
(* Faults are only counted up. *)
LEMMA FaultsCounted ==
  TypeOK /\ [Next]_vars =>
    /\ crashes \in Nat /\ crashes' \in {crashes, crashes + 1}
    /\ storeFaults \in Nat /\ storeFaults' \in {storeFaults, storeFaults + 1}
<1> SUFFICES ASSUME TypeOK, [Next]_vars
             PROVE  /\ crashes \in Nat /\ crashes' \in {crashes, crashes + 1}
                    /\ storeFaults \in Nat
                    /\ storeFaults' \in {storeFaults, storeFaults + 1}
  OBVIOUS
<1>0. crashes \in Nat /\ storeFaults \in Nat
  BY EngineParameters DEF TypeOK
<1>1. ASSUME NEW STATE legal, NEW STATE after,
             \/ AppendThenLoop(legal, after)
             \/ Appended(legal, after) \/ AppendFailed(legal, after)
             \/ AppendRejected(legal)
      PROVE  storeFaults' \in {storeFaults, storeFaults + 1}
  BY <1>1 DEF AppendThenLoop, Appended, AppendFailed, AppendRejected
<1>a. ASSUME NEW STATE legal, NEW STATE after, NEW point,
             AppendThen(legal, after, point)
      PROVE  storeFaults' \in {storeFaults, storeFaults + 1}
  BY <1>a DEF AppendThen, Appended, AppendFailed, AppendRejected
<1>2. ASSUME NEW STATE verdict, StopAtGuard(verdict)
      PROVE  storeFaults' \in {storeFaults, storeFaults + 1}
  BY <1>1, <1>2 DEF StopAtGuard
<1>3. ASSUME NEW STATE stop, TerminalForStop(stop)
      PROVE  storeFaults' \in {storeFaults, storeFaults + 1}
  BY <1>1, <1>3 DEF TerminalForStop
<1>4. CASE EngineStep
  <2>1. crashes' = crashes
    BY <1>4
       DEF EngineStep, Begin, HandleCreated, RetrieveContext, ContextRetrieved,
           AnswerNoMatch, FinishAcceptedAnswer, ReissueModelCall, IssueModelCall,
           ModelCancelled, ModelFailed, ModelAnswers, ModelAnswered, FinishAnswer,
           CloseRound, ResumeCall, RecoverScreen, RecoverFinish, OpenWindow,
           StartNext, ScreenWindow, ToolEnds, AllEnded, CompleteSlot, Environment
  <2> SUFFICES storeFaults' \in {storeFaults, storeFaults + 1}
    BY <1>0, <2>1
  <2>2. CASE \/ Begin \/ HandleCreated \/ RetrieveContext \/ ContextRetrieved
             \/ CloseRound
    <3>1. CASE Begin \/ HandleCreated \/ CloseRound
      BY <1>1, <1>a, <3>1 DEF Begin, HandleCreated, CloseRound
    <3>2. CASE RetrieveContext
      BY <1>2, <3>2 DEF RetrieveContext
    <3>3. CASE ContextRetrieved
      BY <1>1, <3>3 DEF ContextRetrieved
    <3> QED
      BY <2>2, <3>1, <3>2, <3>3
  <2>3. CASE \/ AnswerNoMatch \/ FinishAcceptedAnswer \/ ReissueModelCall
             \/ IssueModelCall \/ ModelCancelled \/ ModelFailed \/ FinishAnswer
             \/ ModelAnswers
    <3>1. CASE AnswerNoMatch \/ ModelCancelled
      BY <1>1, <3>1 DEF AnswerNoMatch, ModelCancelled
    <3>2. CASE FinishAcceptedAnswer \/ FinishAnswer
      BY <1>3, <3>2 DEF FinishAcceptedAnswer, FinishAnswer
    <3>3. CASE ReissueModelCall
      BY <1>2, <3>3 DEF ReissueModelCall
    <3>4. CASE ModelFailed
      BY <1>1, <1>2, <3>4 DEF ModelFailed
    <3>5. CASE IssueModelCall
      BY <1>a, <1>2, <3>5 DEF IssueModelCall
    <3>6. CASE ModelAnswers
      BY <1>a, <3>6 DEF ModelAnswers, ModelAnswered
    <3> QED
      BY <2>3, <3>1, <3>2, <3>3, <3>4, <3>5, <3>6
  <2>4. CASE ResumeCall \/ RecoverScreen \/ RecoverFinish
    <3>1. CASE ResumeCall
      BY <1>2, <3>1 DEF ResumeCall
    <3>2. CASE RecoverScreen \/ RecoverFinish
      BY <1>1, <3>2 DEF RecoverScreen, RecoverFinish
    <3> QED
      BY <2>4, <3>1, <3>2
  <2>5. CASE \/ OpenWindow \/ StartNext \/ ScreenWindow \/ AllEnded
             \/ CompleteSlot \/ \E slot \in Slots : ToolEnds(slot)
    <3>1. CASE OpenWindow
      BY <1>2, <3>1 DEF OpenWindow
    <3>2. CASE StartNext
      BY <1>1, <3>2 DEF StartNext
    <3>3. CASE ScreenWindow
      BY <1>1, <3>3 DEF ScreenWindow
    <3>4. CASE AllEnded \/ \E slot \in Slots : ToolEnds(slot)
      BY <3>4 DEF AllEnded, ToolEnds
    <3>5. CASE CompleteSlot
      BY <3>5 DEF CompleteSlot, Appended, AppendFailed, AppendRejected
    <3> QED
      BY <2>5, <3>1, <3>2, <3>3, <3>4, <3>5
  <2> QED
    BY <1>0, <1>4, <2>1, <2>2, <2>3, <2>4, <2>5 DEF EngineStep
<1>5. CASE Submit \/ Recover \/ Crash \/ Cancel \/ TimePasses \/ UNCHANGED vars
  BY <1>0, <1>5 DEF Submit, Recover, Crash, Cancel, TimePasses, vars
<1> QED
  BY <1>4, <1>5 DEF Next

(* An execution ends with its outcome in the log, with a terminal, or at the      *)
(* price of a crash or a failed append; a wide window runs no mutation.           *)
LEMMA BusyEnds ==
  ASSUME IInv, LogInv, [Next]_vars, pc \in Busy, pc' \notin Busy
  PROVE  \/ crashes' = crashes + 1 \/ storeFaults' = storeFaults + 1
         \/ IsTerminal(durable')
         \/ durable.next < durable.dispatch /\ durable'.next = durable.next + 1
         \/ \A i \in Open(durable) : durable.pending[i] \in ConcurrencySafe
<1>0. /\ task = durable /\ task \in TaskState /\ CallsOK(task)
      /\ plan # "unsubmitted"
      /\ window \in [first : Nat, size : 0..MaxAnswer, slot : Nat]
  BY DEF IInv, TypeOK, PointOK, Busy
<1>1. ASSUME NEW STATE legal, NEW STATE after, legal,
             \/ AppendThenLoop(legal, after) \/ Appended(legal, after)
             \/ AppendFailed(legal, after) \/ AppendRejected(legal)
      PROVE  durable' = after \/ storeFaults' = storeFaults + 1
  BY <1>1 DEF AppendThenLoop, Appended, AppendFailed, AppendRejected
<1>2. /\ \A call : CompleteCall(task, call).next = task.next + 1
      /\ IsTerminal(FailCall(task))
  BY <1>0 DEF CompleteCall, FailCall, TaskState, IsTerminal, Terminal
<1>3. CASE RecoverFinish
  <2>1. /\ task.active = task.next + 1 /\ task.next < task.dispatch
        /\ task.next < Len(task.pending) /\ task.status = "AwaitingTool"
    <3>1. /\ task.status = "AwaitingTool"
          /\ task.active = task.next + 1 /\ task.next < task.dispatch
      BY <1>0, <1>3 DEF RecoverFinish, IInv, PointOK, CallsOK
    <3> QED
      BY <1>0, <3>1, FieldTypes DEF CallsOK
  <2>2. CASE AppendThenLoop(CanCompleteCall(task, task.active),
                            CompleteCall(task, task.active))
    <3>1. CanCompleteCall(task, task.active)
      BY <2>1 DEF CanCompleteCall, AtHead
    <3> QED
      BY <1>0, <1>1, <1>2, <2>1, <2>2, <3>1
  <2>3. CASE AppendThenLoop(CanFailCall(task, task.active), FailCall(task))
    <3>1. CanFailCall(task, task.active)
      BY <2>1 DEF CanFailCall, AtHead
    <3> QED
      BY <1>1, <1>2, <2>3, <3>1
  <2> QED
    BY <1>3, <2>2, <2>3 DEF RecoverFinish
<1>4. CASE CompleteSlot
  <2> DEFINE call  == CompletedCall
             slot  == window.slot + 1
             owner == CallOf(slot)
             good  == outcome[slot] # "failed" /\ owner = call
             legal == IF good THEN CanCompleteCall(task, owner)
                      ELSE CanFailCall(task, call)
             after == IF good THEN CompleteCall(task, owner) ELSE FailCall(task)
  <2>0. /\ AtCompletion /\ window.first <= task.next + 1
        /\ window.size = 1 \/ \A i \in WindowSlots : Safe(CallOf(i))
    BY <1>4 DEF IInv, PointOK, LogInv, PointMore, CompleteSlot
  <2>a. /\ window.first \in Nat /\ window.size \in Nat /\ window.slot \in Nat
        /\ task.next \in Nat /\ task.dispatch \in Nat
        /\ Len(task.pending) \in Nat
    <3>1. window.size \in 0..MaxAnswer /\ MaxAnswer \in Nat
      BY <1>0, BudgetsPositive
    <3> QED
      BY <1>0, <3>1, FieldTypes, BudgetsPositive
  <2>1. CASE window.slot = 0
    <3>1. /\ task.status = "AwaitingTool"
          /\ call = task.next + 1 /\ owner = task.next + 1
          /\ task.next < task.dispatch
          /\ task.next < Len(task.pending)
      BY <1>0, <2>0, <2>1, <2>a DEF AtCompletion, CompletedCall, CallOf, CallsOK
    <3>2. legal
      <4>1. CASE good
        BY <3>1, <4>1 DEF CanCompleteCall, AtHead
      <4>2. CASE ~good
        BY <3>1, <4>2 DEF CanFailCall, AtHead
      <4> QED
        BY <4>1, <4>2
    <3>3. after.next = task.next + 1 \/ IsTerminal(after)
      BY <1>2
    <3>4. ~(call > Len(task.pending))
      BY <2>a, <3>1
    <3> HIDE DEF legal, after, owner, good
    <3>5. Appended(legal, after) \/ AppendFailed(legal, after) \/ AppendRejected(legal)
      BY <1>4, <3>4 DEF CompleteSlot, legal, after, owner, good
    <3>6. durable' = after \/ storeFaults' = storeFaults + 1
      BY <1>1, <3>2, <3>5
    <3> QED
      BY <1>0, <3>1, <3>3, <3>6
  <2>2. CASE window.slot # 0
    <3>1. window.size # 1 /\ window.first + window.size = task.dispatch + 1
      BY <2>0, <2>2, <2>a DEF AtCompletion
    <3>2. ASSUME NEW i \in Open(durable)
          PROVE  durable.pending[i] \in ConcurrencySafe
      <4>1. i \in task.next + 1 .. task.dispatch
        BY <1>0 DEF Open
      <4>2. i - window.first + 1 \in WindowSlots
        BY <2>0, <2>a, <3>1, <4>1, SMTT(20) DEF WindowSlots
      <4>3. CallOf(i - window.first + 1) = i
        BY <2>a, <4>1 DEF CallOf
      <4> QED
        BY <1>0, <2>0, <3>1, <4>2, <4>3 DEF Safe
    <3> QED
      BY <3>2
  <2> QED
    BY <2>1, <2>2
<1>5. CASE Crash
  BY <1>5 DEF Crash
<1> QED
  BY <1>0, <1>3, <1>4, <1>5
     DEF Next, vars, EngineStep, Busy, Submit, Recover, Cancel, TimePasses, Begin,
         HandleCreated, RetrieveContext, ContextRetrieved, AnswerNoMatch,
         FinishAcceptedAnswer, ReissueModelCall, IssueModelCall, ModelCancelled,
         ModelFailed, ModelAnswers, ModelAnswered, FinishAnswer, CloseRound,
         ResumeCall, RecoverScreen, OpenWindow, StartNext, ScreenWindow, ToolEnds,
         AllEnded, AtModel, AtTools

(* What a step that launches nothing and opens no round does to the log's calls. *)
LEMMA CallsRest ==
  ASSUME IInv, LogInv, [Next]_vars, Rests
  PROVE  \/ durable' = durable
         \/ /\ ~IsTerminal(durable)
            /\ \/ SameCalls(durable, durable')
               \/ /\ ~IsTerminal(durable')
                  /\ \/ Starts(durable, durable') \/ Finishes(durable, durable')
                     \/ Closes(durable, durable')
<1>1. /\ durable \in TaskState /\ CallsOK(durable) /\ RecordOK(durable)
  BY DEF IInv, TypeOK, LogInv
<1>2. durable' = durable \/ Logged(durable, durable')
  BY EveryStep DEF StepOK
<1>3. ~Opens(durable, durable')
  BY EngineParameters DEF Opens, Rests
<1> QED
  BY <1>1, <1>2, <1>3, CallsLogged

LEMMA StartedStays ==
  IInv /\ LogInv /\ RunInv /\ [Next]_vars => StartedBeforeRun'
<1> SUFFICES ASSUME IInv, LogInv, RunInv, [Next]_vars
             PROVE  StartedBeforeRun'
  OBVIOUS
<1>0. /\ durable \in TaskState /\ attempts \in [Slots -> Nat]
      /\ StartedBeforeRun /\ CallsOK(durable)
  BY DEF IInv, TypeOK, RunInv
<1>1. CASE Rests
  <2>1. CASE durable'.pending = <<>>
    BY <2>1 DEF StartedBeforeRun
  <2>2. CASE durable'.pending = durable.pending /\ durable.pending # <<>>
    <3>1. durable.dispatch <= durable'.dispatch /\ durable'.dispatch \in Nat
      <4>1. CASE durable' = durable
        BY <1>0, <4>1, FieldTypes
      <4>2. CASE SameCalls(durable, durable')
        BY <1>0, <4>2, FieldTypes DEF SameCalls
      <4>3. CASE Starts(durable, durable')
        BY <1>0, <4>3, FieldTypes DEF Starts
      <4>4. CASE Finishes(durable, durable')
        BY <1>0, <4>4, FieldTypes DEF Finishes
      <4>5. CASE Closes(durable, durable')
        BY <2>2, <4>5 DEF Closes
      <4> QED
        BY <1>1, <4>1, <4>2, <4>3, <4>4, <4>5, CallsRest
    <3>2. \A i \in Slots : attempts'[i] > 0 =>
            i <= durable.dispatch /\ durable'.pending[i] \in Fit
      BY <1>0, <1>1, <2>2 DEF StartedBeforeRun, Rests
    <3>3. \A i \in Slots : i <= durable.dispatch => i <= durable'.dispatch
      BY <1>0, <3>1, FieldTypes, BudgetsPositive DEF Slots
    <3> QED
      BY <3>2, <3>3 DEF StartedBeforeRun
  <2> QED
    BY <1>1, <2>1, <2>2 DEF Rests
<1>2. CASE Launches
  <2>1. PICK S \in SUBSET (Slots \cap Open(durable)) :
          /\ \A i \in S : durable.pending[i] \in Fit
          /\ attempts' = [i \in Slots |-> IF i \in S THEN attempts[i] + 1
                                          ELSE attempts[i]]
    BY <1>2 DEF Launches
  <2>2. UNCHANGED durable
    BY <1>2 DEF Launches
  <2>3. ASSUME NEW i \in Slots, attempts'[i] > 0, durable.pending # <<>>
        PROVE  i <= durable.dispatch /\ durable.pending[i] \in Fit
    <3>1. CASE i \in S
      <4>1. i \in durable.next + 1 .. durable.dispatch
        BY <2>1, <3>1 DEF Open
      <4> QED
        BY <1>0, <2>1, <3>1, <4>1, FieldTypes
    <3>2. CASE i \notin S
      BY <1>0, <2>1, <2>3, <3>2 DEF StartedBeforeRun
    <3> QED
      BY <3>1, <3>2
  <2> QED
    BY <2>2, <2>3 DEF StartedBeforeRun
<1>3. CASE Renews
  BY <1>3 DEF Renews, Untried, StartedBeforeRun
<1> QED
  BY <1>1, <1>2, <1>3, EveryRun DEF RunStep

(* Faults are only ever added to. *)
LEMMA Arrears ==
  ASSUME NEW c \in Nat, NEW d \in {c, c + 1}, NEW f \in Nat, NEW g \in {f, f + 1}
  PROVE  /\ c + f \in Nat /\ d + g \in Nat
         /\ c + f <= d + g
         /\ (d = c + 1 \/ g = f + 1 => 1 + c + f <= d + g)
<1>1. d \in Nat /\ g \in Nat /\ (d = c \/ d = c + 1) /\ (g = f \/ g = f + 1)
  OBVIOUS
<1> QED
  BY <1>1

LEMMA PaidStays ==
  IInv /\ LogInv /\ RunInv /\ [Next]_vars => RunsPaidFor'
<1> SUFFICES ASSUME IInv, LogInv, RunInv, [Next]_vars
             PROVE  RunsPaidFor'
  OBVIOUS
<1>0. /\ durable \in TaskState /\ attempts \in [Slots -> Nat]
      /\ StartedBeforeRun /\ RunsPaidFor /\ CallsOK(durable)
      /\ MaxAnswer \in Nat
  BY BudgetsPositive DEF IInv, TypeOK, RunInv
<1>a. /\ crashes \in Nat /\ crashes' \in {crashes, crashes + 1}
      /\ storeFaults \in Nat /\ storeFaults' \in {storeFaults, storeFaults + 1}
  BY FaultsCounted DEF IInv
<1>b. /\ crashes + storeFaults \in Nat /\ crashes' + storeFaults' \in Nat
      /\ crashes + storeFaults <= crashes' + storeFaults'
      /\ (crashes' = crashes + 1 \/ storeFaults' = storeFaults + 1
           => 1 + crashes + storeFaults <= crashes' + storeFaults')
  BY <1>a, Arrears
<1>1. CASE Rests
  <2> SUFFICES ASSUME NEW i \in 1..Len(durable'.pending),
                      durable'.pending[i] \notin ConcurrencySafe
               PROVE  /\ attempts'[i] <= 1 + crashes' + storeFaults'
                      /\ /\ i > durable'.next /\ ~IsTerminal(durable')
                         /\ pc' \notin Busy
                         => attempts'[i] <= crashes' + storeFaults'
    BY <1>b DEF RunsPaidFor
  <2>1. durable'.pending = durable.pending /\ attempts' = attempts
    BY <1>1 DEF Rests
  <2>2. /\ i \in Nat /\ i \in Slots /\ attempts[i] \in Nat
        /\ i \in 1..Len(durable.pending)
    BY <1>0, <2>1, FieldTypes DEF CallsOK, Slots
  <2>3. attempts[i] <= 1 + crashes + storeFaults
    BY <1>0, <1>a, <2>1, <2>2 DEF RunsPaidFor
  <2>4. ASSUME i > durable'.next, ~IsTerminal(durable'), pc' \notin Busy
        PROVE  attempts[i] <= crashes' + storeFaults'
    <3>0. /\ durable.next \in Nat /\ durable.dispatch \in Nat
          /\ durable'.next \in {durable.next, durable.next + 1}
          /\ ~IsTerminal(durable)
      <4>1. ~Closes(durable, durable')
        BY <2>1 DEF Closes
      <4>2. durable' = durable \/ ~IsTerminal(durable)
        BY <1>1, CallsRest
      <4>3. durable'.next \in {durable.next, durable.next + 1}
        BY <1>1, <4>1, CallsRest DEF SameCalls, Starts, Finishes
      <4> QED
        BY <1>0, <2>4, <4>2, <4>3, FieldTypes
    <3>1. i > durable.next
      BY <2>2, <2>4, <3>0
    <3>2. CASE pc \notin Busy
      <4>1. attempts[i] <= crashes + storeFaults
        BY <1>0, <1>a, <2>1, <2>2, <3>0, <3>1, <3>2 DEF RunsPaidFor
      <4> QED
        BY <1>b, <2>2, <4>1
    <3>3. CASE pc \in Busy
      <4>1. CASE crashes' = crashes + 1 \/ storeFaults' = storeFaults + 1
        BY <1>a, <1>b, <2>2, <2>3, <4>1
      <4>2. CASE /\ durable.next < durable.dispatch
                 /\ durable'.next = durable.next + 1
        <5>1. CASE i <= durable.dispatch
          <6>1. /\ i \in Open(durable) /\ durable.next + 1 \in Open(durable)
                /\ i # durable.next + 1
            BY <2>2, <2>4, <3>0, <3>1, <4>2, <5>1 DEF Open
          <6> QED
            BY <1>0, <2>1, <6>1 DEF CallsOK
        <5>2. CASE ~(i <= durable.dispatch)
          <6>1. durable.pending # <<>>
            BY <2>2
          <6>2. ~(attempts[i] > 0)
            BY <1>0, <2>2, <5>2, <6>1 DEF StartedBeforeRun
          <6> QED
            BY <1>b, <2>2, <6>2
        <5> QED
          BY <5>1, <5>2
      <4>3. CASE \A j \in Open(durable) : durable.pending[j] \in ConcurrencySafe
        <5>1. i \notin Open(durable)
          BY <2>1, <4>3
        <5>2. ~(i <= durable.dispatch)
          BY <2>2, <3>0, <3>1, <5>1 DEF Open
        <5>3. durable.pending # <<>>
          BY <2>2
        <5>4. ~(attempts[i] > 0)
          BY <1>0, <2>2, <5>2, <5>3 DEF StartedBeforeRun
        <5> QED
          BY <1>b, <2>2, <5>4
      <4> QED
        BY <2>4, <3>3, <4>1, <4>2, <4>3, BusyEnds
    <3> QED
      BY <3>2, <3>3
  <2>5. attempts[i] <= 1 + crashes' + storeFaults'
    BY <1>a, <1>b, <2>2, <2>3
  <2> QED
    BY <2>1, <2>4, <2>5
<1>2. CASE Launches
  <2>1. PICK S \in SUBSET (Slots \cap Open(durable)) :
          attempts' = [i \in Slots |-> IF i \in S THEN attempts[i] + 1
                                       ELSE attempts[i]]
    BY <1>2 DEF Launches
  <2>2. /\ UNCHANGED <<durable, crashes, storeFaults>> /\ pc' \in Busy
        /\ pc \notin Busy /\ ~IsTerminal(durable)
    BY <1>2 DEF Launches
  <2>3. ASSUME NEW i \in 1..Len(durable.pending),
               durable.pending[i] \notin ConcurrencySafe
        PROVE  attempts'[i] <= 1 + crashes + storeFaults
    <3>1. i \in Nat /\ i \in Slots /\ attempts[i] \in Nat
      BY <1>0, FieldTypes DEF CallsOK, Slots
    <3>2. CASE i \in S
      <4>1. i > durable.next
        <5>1. i \in durable.next + 1 .. durable.dispatch
          BY <3>2 DEF Open
        <5> QED
          BY <1>0, <3>1, <5>1, FieldTypes
      <4>2. attempts[i] <= crashes + storeFaults
        BY <1>0, <2>2, <2>3, <4>1 DEF RunsPaidFor
      <4>3. attempts'[i] = attempts[i] + 1
        BY <2>1, <3>1, <3>2
      <4> QED
        BY <1>a, <3>1, <4>2, <4>3
    <3>3. CASE i \notin S
      <4>1. attempts'[i] = attempts[i]
        BY <2>1, <3>1, <3>3
      <4> QED
        BY <1>0, <2>3, <4>1 DEF RunsPaidFor
    <3> QED
      BY <3>2, <3>3
  <2> QED
    BY <2>2, <2>3 DEF RunsPaidFor
<1>3. CASE Renews
  <2>1. \A i \in Slots : attempts'[i] = 0
    BY <1>3 DEF Renews, Untried
  <2>2. durable' \in TaskState /\ CallsOK(durable')
    <3>1. IInv'
      BY StepSafe, TypeStep DEF IInv
    <3> QED
      BY <3>1 DEF IInv, TypeOK
  <2>3. \A i \in 1..Len(durable'.pending) : i \in Slots
    <3>1. Len(durable'.pending) <= MaxAnswer /\ Len(durable'.pending) \in Nat
      BY <2>2 DEF CallsOK, TaskState
    <3> QED
      BY <1>0, <3>1 DEF Slots
  <2> QED
    BY <1>a, <2>1, <2>3 DEF RunsPaidFor
<1> QED
  BY <1>1, <1>2, <1>3, EveryRun DEF RunStep

LEMMA RunInit == Init => RunInv
<1> SUFFICES ASSUME Init PROVE RunInv
  OBVIOUS
<1>1. durable.pending = <<>> /\ Len(durable.pending) = 0
  BY DEF Init, NoTask
<1> QED
  BY <1>1 DEF RunInv, StartedBeforeRun, RunsPaidFor

(* What is known of the log and of the engine's points, extended by what ties the  *)
(* executions to them.                                                            *)
THEOREM RunInductive == Spec => [](IInv /\ LogInv /\ RunInv)
<1>1. IInv /\ LogInv /\ RunInv /\ [Next]_vars => RunInv'
  BY StartedStays, PaidStays DEF RunInv
<1> QED
  BY <1>1, RunInit, RecordInductive, PTL DEF Spec

(* Neither a window nor a recovery executes a call that a hook denied, the        *)
(* permission did not allow, or a dangerous pattern matches: handle_awaiting_tool *)
(* and the recovery path screen every call they launch, whatever crashed between. *)
THEOREM RefusedNeverRun == Spec => []NothingRefusedRuns
<1>1. IInv /\ RunInv => NothingRefusedRuns
  <2> SUFFICES ASSUME IInv, RunInv, NEW i \in 1..Len(durable.pending),
                      attempts[i] > 0
               PROVE  durable.pending[i] \in Permitted \ (HookDenied \cup Dangerous)
    BY DEF NothingRefusedRuns
  <2>1. durable \in TaskState /\ CallsOK(durable) /\ StartedBeforeRun
        /\ MaxAnswer \in Nat
    BY BudgetsPositive DEF IInv, TypeOK, RunInv
  <2>2. i \in Slots /\ durable.pending # <<>>
    BY <2>1, FieldTypes DEF CallsOK, Slots
  <2> QED
    BY <2>1, <2>2 DEF StartedBeforeRun, Fit
<1> QED
  BY <1>1, RunInductive, PTL

(* A mutating call runs again only after a crash or a failed append, once for     *)
(* each, over every sequence of windows and recoveries the engine can go through. *)
THEOREM RepeatsAreFaults == Spec => []MutationsRunOnce
<1>1. RunInv => MutationsRunOnce
  BY DEF RunInv, RunsPaidFor, MutationsRunOnce
<1> QED
  BY <1>1, RunInductive, PTL
--------------------------------------------------------------------------------
(* The refinement: every step of the engine is a step of the journal or none. *)

LEMMA JournalInit == Init => Journal!Init
<1> SUFFICES ASSUME Init PROVE Journal!Init
  OBVIOUS
<1>1. /\ durable.pending = <<>> /\ durable.dispatch = 0 /\ durable.next = 0
      /\ durable.calls = 0 /\ ~IsTerminal(durable) /\ attempts = Untried
  BY DEF Init, NoTask, IsTerminal, Terminal
<1> QED
  BY <1>1 DEF Journal!Init, Journal!Never, Untried

(* A step that launches nothing and opens no round. *)
LEMMA JournalRests ==
  ASSUME IInv, LogInv, [Next]_vars, Rests
  PROVE  [Journal!Next]_(Journal!journal)
<1>0. /\ durable.next \in Nat /\ durable.dispatch \in Nat
      /\ UNCHANGED attempts
  BY FieldTypes DEF IInv, TypeOK, Rests
<1>1. CASE durable' = durable
  BY <1>0, <1>1 DEF Journal!journal, IsTerminal
<1>2. CASE ~IsTerminal(durable) /\ SameCalls(durable, durable')
  <2>1. CASE IsTerminal(durable')
    <3>1. IsTerminal(durable)' = TRUE
      BY <2>1 DEF IsTerminal
    <3>2. Journal!End
      BY <1>0, <1>2, <3>1 DEF Journal!End, SameCalls
    <3> QED
      BY <3>2 DEF Journal!Next
  <2>2. CASE ~IsTerminal(durable')
    <3>1. IsTerminal(durable)' = IsTerminal(durable)
      BY <1>2, <2>2 DEF IsTerminal
    <3> QED
      BY <1>0, <1>2, <3>1 DEF Journal!journal, SameCalls
  <2> QED
    BY <2>1, <2>2
<1>3. CASE ~IsTerminal(durable) /\ ~IsTerminal(durable') /\ Starts(durable, durable')
  <2>1. IsTerminal(durable)' = IsTerminal(durable)
    BY <1>3 DEF IsTerminal
  <2>2. \/ Journal!Unfinished = {}
        \/ \A i \in Journal!Unfinished \cup {durable.dispatch + 1} :
             durable.pending[i] \in ConcurrencySafe
    BY <1>0, <1>3 DEF Starts, Journal!Unfinished
  <2>3. Journal!Start
    BY <1>0, <1>3, <2>1, <2>2 DEF Journal!Start, Starts
  <2> QED
    BY <2>3 DEF Journal!Next
<1>4. CASE ~IsTerminal(durable) /\ ~IsTerminal(durable') /\ Finishes(durable, durable')
  <2>1. IsTerminal(durable)' = IsTerminal(durable)
    BY <1>4 DEF IsTerminal
  <2>2. durable.next + 1 \in Journal!Unfinished
    BY <1>0, <1>4 DEF Finishes, Journal!Unfinished
  <2>3. Journal!Finish
    BY <1>0, <1>4, <2>1, <2>2 DEF Journal!Finish, Finishes
  <2> QED
    BY <2>3 DEF Journal!Next
<1>5. CASE ~IsTerminal(durable) /\ ~IsTerminal(durable') /\ Closes(durable, durable')
  <2>1. IsTerminal(durable)' = IsTerminal(durable)
    BY <1>5 DEF IsTerminal
  <2>2. Journal!CloseRound
    BY <1>0, <1>5, <2>1 DEF Journal!CloseRound, Closes
  <2> QED
    BY <2>2 DEF Journal!Next
<1> QED
  BY <1>1, <1>2, <1>3, <1>4, <1>5, CallsRest

(* Launching is running started, unfinished calls. *)
LEMMA JournalRuns == Launches => Journal!Run
<1> SUFFICES ASSUME Launches PROVE Journal!Run
  OBVIOUS
<1>1. UNCHANGED durable /\ ~IsTerminal(durable)
  BY DEF Launches
<1>2. IsTerminal(durable)' = IsTerminal(durable)
  BY <1>1 DEF IsTerminal
<1>3. \E S \in SUBSET (Slots \cap Journal!Unfinished) :
        attempts' = [i \in Slots |-> IF i \in S THEN attempts[i] + 1
                                     ELSE attempts[i]]
  BY DEF Launches, Journal!Unfinished, Open
<1> QED
  BY <1>1, <1>2, <1>3 DEF Journal!Run

(* An accepted answer opens a round in which nothing has run. *)
LEMMA JournalOpens ==
  ASSUME IInv, LogInv, [Next]_vars, Renews
  PROVE  Journal!OpenRound
<1>1. /\ durable \in TaskState /\ CallsOK(durable) /\ RecordOK(durable)
  BY DEF IInv, TypeOK, LogInv
<1>2. Logged(durable, durable')
  <2>1. durable' # durable
    BY DEF Renews
  <2> QED
    BY <2>1, EveryStep DEF StepOK
<1>3. /\ ~SameCalls(durable, durable') /\ ~Starts(durable, durable')
      /\ ~Finishes(durable, durable') /\ ~Closes(durable, durable')
  BY DEF Renews, SameCalls, Starts, Finishes, Closes
<1>4. ~IsTerminal(durable) /\ ~IsTerminal(durable') /\ Opens(durable, durable')
  BY <1>1, <1>2, <1>3, CallsLogged
<1>5. IsTerminal(durable)' = IsTerminal(durable)
  BY <1>4 DEF IsTerminal
<1> QED
  BY <1>4, <1>5 DEF Journal!OpenRound, Journal!Never, Renews, Opens, Untried

(* The log is a write-ahead journal of the effects, for every set of tools, every *)
(* answer and every number of crashes and failed appends: what a recovery reads   *)
(* off it follows ToolJournal at every step.                                      *)
THEOREM ImplementsJournal == Spec => JournalSpec
<1>1. IInv /\ LogInv /\ [Next]_vars => [Journal!Next]_(Journal!journal)
  <2> SUFFICES ASSUME IInv, LogInv, [Next]_vars
               PROVE  [Journal!Next]_(Journal!journal)
    OBVIOUS
  <2>1. CASE Rests
    BY <2>1, JournalRests
  <2>2. CASE Launches
    BY <2>2, JournalRuns DEF Journal!Next
  <2>3. CASE Renews
    BY <2>3, JournalOpens DEF Journal!Next
  <2> QED
    BY <2>1, <2>2, <2>3, EveryRun DEF RunStep
<1> QED
  BY <1>1, JournalInit, RecordInductive, PTL DEF Spec, JournalSpec, Journal!Spec
=================================================================================

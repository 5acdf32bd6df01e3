------------------------------- MODULE ToolJournal -------------------------------
(* What the durable log promises about the tools a task runs: a write-ahead       *)
(* journal.  An answer asks for a list of calls.  A call is started in the        *)
(* journal before it runs, runs only while it is started and unfinished, and is   *)
(* finished in order.  Calls that are not shared run alone: such a call is        *)
(* started only when every earlier one is finished, and nothing is started past   *)
(* it until it is finished.  A crash may make a started call run again; once the  *)
(* task is over nothing is started and nothing runs.                              *)
(*                                                                                *)
(* TaskRuntime implements it: calls, started and finished are read off the task   *)
(* state the log replays to.                                                      *)
EXTENDS Naturals, Sequences

CONSTANTS
  Lists,   \* call lists an answer may carry
  Shared,  \* calls that may run together
  Slots,   \* positions in a list
  MaxUsed  \* calls the task may start

VARIABLES
  calls,     \* the list of the open round, empty between rounds
  started,   \* how many of them the journal has started
  finished,  \* how many of them the journal has finished
  used,      \* starts over the whole task
  runs,      \* times each call of the round has run
  over       \* the task has a terminal

journal == <<calls, started, finished, used, runs, over>>

Never == [i \in Slots |-> 0]
Unfinished == finished + 1 .. started

Init ==
  /\ calls = <<>>
  /\ started = 0 /\ finished = 0 /\ used = 0
  /\ runs = Never
  /\ over = FALSE

OpenRound ==
  /\ ~over /\ calls = <<>>
  /\ calls' \in Lists
  /\ runs' = Never
  /\ UNCHANGED <<started, finished, used, over>>

Start ==
  /\ ~over /\ started < Len(calls) /\ used < MaxUsed
  /\ \/ Unfinished = {}
     \/ \A i \in Unfinished \cup {started + 1} : calls[i] \in Shared
  /\ started' = started + 1
  /\ used' = used + 1
  /\ UNCHANGED <<calls, finished, runs, over>>

Run ==
  /\ ~over
  /\ \E S \in SUBSET (Slots \cap Unfinished) :
       runs' = [i \in Slots |-> IF i \in S THEN runs[i] + 1 ELSE runs[i]]
  /\ UNCHANGED <<calls, started, finished, used, over>>

Finish ==
  /\ ~over /\ Unfinished # {}
  /\ finished' = finished + 1
  /\ UNCHANGED <<calls, started, used, runs, over>>

CloseRound ==
  /\ ~over /\ calls # <<>> /\ finished = Len(calls)
  /\ calls' = <<>>
  /\ started' = 0 /\ finished' = 0
  /\ UNCHANGED <<used, runs, over>>

End ==
  /\ ~over
  /\ over' = TRUE
  /\ UNCHANGED <<calls, started, finished, used, runs>>

Next == OpenRound \/ Start \/ Run \/ Finish \/ CloseRound \/ End

Spec == Init /\ [][Next]_journal
================================================================================

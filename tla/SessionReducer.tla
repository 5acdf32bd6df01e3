----------------------------- MODULE SessionReducer -----------------------------
(* reduce_session_event (src/src/application/session_reducer.cpp): what a session  *)
(* event needs of the state it is applied to, and what it does to it.              *)
(*                                                                                 *)
(* A turn is its index and its task; the messages it adds to the conversation are  *)
(* identified with it, so the flattened message list is the sequence of committed  *)
(* turns.  Identities, timestamps, texts and the summary's wording are left out.   *)
EXTENDS Naturals, Sequences

CONSTANT Tasks  \* task ids

ASSUME TasksAreNumbers == Tasks \subseteq Nat \ {0}

Turn == [index : Nat, task : Tasks]
NoTurn == [index |-> 0, task |-> 0]

SessionState ==
  [seq       : Nat,                   \* last_sequence
   completed : Nat,                   \* completed_turns
   turns     : Seq(Turn),             \* committed_turns not yet compacted
   through   : Nat,                   \* compacted_through_turn
   pending   : Turn \cup {NoTurn}]    \* pending_turn, an optional

(* What SessionStarted leaves, as the first event of a log. *)
Created ==
  [seq |-> 1, completed |-> 0, turns |-> <<>>, through |-> 0, pending |-> NoTurn]

(* The events; seq is the sequence number the engine gives from its own state.    *)
(* sound: the messages of the turn keep the conversation valid                     *)
(* (conversation_history_is_valid).                                                *)
TurnStarted(s, t) ==
  [kind |-> "TurnStarted", seq |-> s.seq + 1,
   turn |-> [index |-> s.completed + 1, task |-> t]]

TurnCommitted(s, sound) ==
  [kind |-> "TurnCommitted", seq |-> s.seq + 1, turn |-> s.pending,
   sound |-> sound]

TurnFailed(s) ==
  [kind |-> "TurnFailed", seq |-> s.seq + 1, turn |-> s.pending]

SessionCompacted(s, through) ==
  [kind |-> "SessionCompacted", seq |-> s.seq + 1, through |-> through]

(* The coverage of a compaction names a committed turn that is not the last one. *)
Covers(s, through) ==
  \E i \in 1..Len(s.turns) : s.turns[i].index = through /\ i < Len(s.turns)

Reducible(s, e) ==
  /\ e.seq = s.seq + 1
  /\ \/ /\ e.kind = "TurnStarted"
        /\ s.pending = NoTurn
        /\ e.turn.index = s.completed + 1
     \/ /\ e.kind = "TurnCommitted"
        /\ s.pending # NoTurn /\ s.pending = e.turn
        /\ e.sound
     \/ /\ e.kind = "TurnFailed"
        /\ s.pending # NoTurn /\ s.pending = e.turn
     \/ /\ e.kind = "SessionCompacted"
        /\ s.pending = NoTurn
        /\ e.through > s.through
        /\ Covers(s, e.through)

(* committed_turns without the covered turn and everything before it. *)
AfterCoverage(turns, through) ==
  LET first == CHOOSE i \in 1..Len(turns) : turns[i].index = through
  IN  SubSeq(turns, first + 1, Len(turns))

Reduced(s, e) ==
  CASE e.kind = "TurnStarted" ->
         [s EXCEPT !.seq = e.seq, !.pending = e.turn]
    [] e.kind = "TurnCommitted" ->
         [s EXCEPT !.seq = e.seq, !.pending = NoTurn, !.completed = e.turn.index,
                   !.turns = Append(@, e.turn)]
    [] e.kind = "TurnFailed" ->
         [s EXCEPT !.seq = e.seq, !.pending = NoTurn, !.completed = e.turn.index]
    [] e.kind = "SessionCompacted" ->
         [s EXCEPT !.seq = e.seq, !.through = e.through,
                   !.turns = AfterCoverage(@, e.through)]
================================================================================

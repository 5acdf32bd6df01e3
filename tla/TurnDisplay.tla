------------------------------- MODULE TurnDisplay --------------------------------
(* The bounded channel between the thread of a turn and the display, the display   *)
(* loop and the presenter (src/src/cli/interactive_cli.cpp,                        *)
(* src/src/cli/terminal_presenter.cpp).                                            *)
(*                                                                                 *)
(* Of what is on the screen the model keeps what the reader is to take as the      *)
(* answer: the text since the last mark, and the line the turn ended with.  Status *)
(* lines, spinner, cursor and colours are left out.                                *)
EXTENDS TerminalText, TLC

CONSTANTS
  MaxEvents,  \* 256 in TurnChannel::push
  MaxBytes,   \* 262144
  MergeBytes, \* 16384
  PieceBytes, \* 4096 in execute_turn's text observer
  Dynamic     \* dynamic_: both ends are terminals, for the life of the program

ASSUME DisplayLimits ==
  {MaxEvents, MaxBytes, MergeBytes, PieceBytes} \subseteq Nat /\ PieceBytes > 0
ASSUME DynamicIsKnown == Dynamic \in BOOLEAN

VARIABLES
  channel,   \* events, closed and done of TurnChannel
  display,   \* where the display loop is and the events it has taken
  presenter, \* round_, preview_, any_preview_, rendered_, phase_ and the screen
  owed       \* history: what the turn's thread pushed and the presenter was not given yet

displayVars == <<channel, display, presenter, owed>>

(* --------------------------------- events -------------------------------------- *)

TextEvent(round, notice) ==
  [kind |-> "Text", round |-> round, what |-> notice.kind, block |-> notice.block,
   text |-> notice.text]
Progress(what) == [kind |-> "Progress", what |-> what, text |-> <<>>]
Phase(label) == [kind |-> "Phase", what |-> label, text |-> <<>>]

(* The observer cuts a long delta into pieces.                                     *)
Pieces(event) ==
  LET n == (Len(event.text) + PieceBytes - 1) \div PieceBytes
      Piece(i) == SubSeq(event.text, (i - 1) * PieceBytes + 1,
                         IF i = n THEN Len(event.text) ELSE i * PieceBytes)
  IN  IF event.kind # "Text" \/ event.what = "TextBlockEnd" THEN <<event>>
      ELSE [i \in 1..n |-> [event EXCEPT !.text = Piece(i)]]

(* What an event asks to show, byte by byte: merging and cutting leave it alone.   *)
Atoms(event) ==
  CASE event.kind = "Phase"            -> <<>>
    [] event.kind = "Progress"         -> <<<<event.what>>>>
    [] event.kind = "Text" /\ event.what = "TextBlockEnd" -> <<<<"end", event.round, event.block>>>>
    [] event.kind = "Text" /\ event.what = "TextDelta" ->
         [i \in DOMAIN event.text |-> <<event.text[i], event.round, event.block>>]

(* --------------------------------- the channel --------------------------------- *)

NewChannel == [events |-> <<>>, closed |-> FALSE, done |-> FALSE]
Queued == FoldLeft(LAMBDA sum, e : sum + Len(e.text), 0, channel.events)

HasRoom(event) ==
  \/ channel.closed
  \/ Len(channel.events) < MaxEvents /\ Queued + Len(event.text) <= MaxBytes

Merges(event) ==
  /\ event.kind = "Text" /\ event.what = "TextDelta" /\ channel.events # <<>>
  /\ LET last == Last(channel.events)
     IN  /\ last.kind = "Text" /\ last.what = "TextDelta"
         /\ last.round = event.round /\ last.block = event.block
         /\ Len(last.text) + Len(event.text) <= MergeBytes

(* Only a phase replaces the last event, and only another phase.                   *)
Replaces(event) ==
  event.kind = "Phase" /\ channel.events # <<>> /\ Last(channel.events).kind = "Phase"

Pushed(event) ==
  LET events == channel.events
      last == Last(events)
      after == IF Merges(event)
               THEN Append(Front(events), [last EXCEPT !.text = last.text \o event.text])
               ELSE Append(IF Replaces(event) THEN Front(events) ELSE events, event)
  IN  IF channel.closed THEN channel ELSE [channel EXCEPT !.events = after]

push(event) == HasRoom(event) /\ channel' = Pushed(event)

Closed == [channel EXCEPT !.closed = TRUE, !.events = <<>>]

(* -------------------------------- the presenter -------------------------------- *)

NoRound == 0
NewPresenter ==
  [round |-> NoRound, preview |-> FALSE, any |-> FALSE, rendered |-> <<>>, phase |-> "",
   sanitizer |-> NewStreaming, mark |-> "", shown |-> <<>>, banner |-> ""]

phase(p, label) == [p EXCEPT !.phase = label]

(* A mark begins the text anew for the reader.                                     *)
Marked(p, mark) == [p EXCEPT !.mark = mark, !.shown = <<>>]
write_text(p, bytes) == [p EXCEPT !.shown = @ \o bytes]
Previewed(p) ==
  IF p.preview THEN p ELSE [Marked(p, "[Generating; provisional]") EXCEPT !.preview = TRUE, !.any = TRUE]

(* The line is ended: what follows is a text of its own.                           *)
Restarted(p, round) ==
  [Marked(p, "") EXCEPT !.round = round, !.sanitizer = NewStreaming, !.rendered = <<>>,
                        !.preview = FALSE]

(* What the round still holds back is written, and is a preview as the rest is.    *)
Flushed(p) ==
  LET With(out) == IF out = <<>> THEN p ELSE write_text(Previewed(p), out)
  IN  With(finish(p.sanitizer).out)

(* The pending bytes of the round before are shown, then the round is forgotten:   *)
(* no answer is reconciled with the text before a tool.                            *)
CallStarted(p) == phase(Restarted(Flushed(p), NoRound), "Thinking...")

progress(p, what) ==
  CASE what = "ContextPreparationStarted" -> phase(p, "Preparing context...")
    [] what = "ModelCallStarted"          -> CallStarted(p)
    [] what = "ToolCallStarted"           -> phase(p, "Running tool")
    [] what = "ToolCallSucceeded"         -> phase(p, "Tool completed")
    [] what = "ToolCallFailed"            -> phase(p, "Tool failed")
    [] OTHER                              -> p

Entered(p, round) ==
  IF p.round = round THEN p
  ELSE Restarted(IF p.round = NoRound THEN p ELSE write_text(p, finish(p.sanitizer).out), round)

(* The sanitized bytes of a piece are shown as a preview and remembered.           *)
Previews(p, safe) ==
  LET kept == [p EXCEPT !.sanitizer = safe.next]
  IN  IF safe.out = <<>> THEN kept
      ELSE [write_text(Previewed(kept), safe.out) EXCEPT !.rendered = @ \o safe.out]

ShowText(p, event) ==
  LET Shown(now) == Previews(now, Streamed(now.sanitizer, event.text, event.what = "TextBlockEnd"))
  IN  Shown(Entered(p, event.round))

Present(p, event) ==
  CASE event.kind = "Text"     -> ShowText(p, event)
    [] event.kind = "Progress" -> progress(p, event.what)
    [] event.kind = "Phase"    -> phase(p, event.what)

(* The events of a batch, one after the other. *)
Presented(p, events) ==
  LET after[n \in 0..Len(events)] == IF n = 0 THEN p ELSE Present(after[n - 1], events[n])
  IN  after[Len(events)]

(* The line of a finished turn closes a preview; a pipe that saw none gets only    *)
(* the answer.                                                                     *)
Concluded(p) == IF p.any \/ Dynamic THEN [p EXCEPT !.banner = "[Turn complete]"] ELSE p

(* A mutant of Reconciled: the preview is taken for the beginning of any answer.   *)
ReconciledSuffix(p, whole) ==
  Concluded(write_text(p, IF p.preview THEN SubSeq(whole, Len(p.rendered) + 1, Len(whole)) ELSE whole))

(* finish of the presenter: a preview that the answer begins with is completed,    *)
(* any other is followed by the whole answer under a mark of its own.              *)
Reconciled(p, whole) ==
  Concluded(
    IF ~p.preview THEN write_text(p, whole)
    ELSE IF IsPrefix(p.rendered, whole)
      THEN write_text(p, SubSeq(whole, Len(p.rendered) + 1, Len(whole)))
    ELSE write_text(Marked(p, "[Final answer]"), whole))

Abandoned(p) ==
  IF p.any THEN [p EXCEPT !.banner = "[Incomplete; turn was not committed]"] ELSE p

Finished(success, final) ==
  IF success THEN Reconciled(presenter, render_terminal_text(final))
  ELSE Abandoned(Flushed(presenter))

(* ------------------------------- the display loop ------------------------------ *)

NewDisplay == [pc |-> "idle", batch |-> <<>>, done |-> FALSE, failed |-> FALSE]

DisplayInit ==
  channel = NewChannel /\ display = NewDisplay /\ presenter = NewPresenter /\ owed = <<>>

(* Every step of the loop is a move of `display` and what comes of it.             *)
Moves(from, to) == display.pc = from /\ display' = to

TakesNow ==
  /\ channel.done \/ channel.events # <<>>
  /\ Moves("waiting", [display EXCEPT !.pc = "showing", !.batch = channel.events,
                                      !.done = channel.done])

(* One critical section takes the events and reads `done`: nothing can be pushed   *)
(* between the two, so the last round of the loop shows everything.                *)
Takes ==
  /\ TakesNow
  /\ channel' = [channel EXCEPT !.events = <<>>]
  /\ UNCHANGED <<presenter, owed>>

(* What is given to the presenter is what was owed first; anything else stays owed *)
(* for ever.                                                                       *)
Paid == LET given == FlattenSeq([i \in DOMAIN display.batch |-> Atoms(display.batch[i])])
        IN  IF IsPrefix(given, owed) THEN SubSeq(owed, Len(given) + 1, Len(owed)) ELSE <<<<"lost">>>>

(* A mutant of ShowsNow: `done` is read when the events have been shown.           *)
ShowsNowLate ==
  Moves("showing", [display EXCEPT !.pc = IF channel.done THEN "joining" ELSE "waiting",
                                   !.batch = <<>>])

ShowsNow ==
  Moves("showing", [display EXCEPT !.pc = IF display.done THEN "joining" ELSE "waiting",
                                   !.batch = <<>>])

Shows(cancelled) ==
  LET told == Presented(presenter, display.batch)
  IN  /\ ShowsNow
      /\ presenter' = IF cancelled THEN phase(told, "Cancelling...") ELSE told
      /\ owed' = Paid
      /\ UNCHANGED channel

(* A frame is due and nothing was pushed: the loop only looks at the flag.         *)
Frame(cancelled) ==
  /\ display.pc = "waiting" /\ cancelled /\ presenter.phase # "Cancelling..."
  /\ presenter' = phase(presenter, "Cancelling...")
  /\ UNCHANGED <<channel, display, owed>>

(* A mutant of OutputFails: the channel stays open until the thread is joined.     *)
OutputFailsOpen ==
  /\ \E pc \in {"waiting", "showing"} :
       Moves(pc, [display EXCEPT !.pc = "cancelling", !.batch = <<>>, !.failed = TRUE])
  /\ UNCHANGED <<channel, presenter, owed>>

(* The terminal is gone, at the first line or at any later one: the channel is     *)
(* closed before the turn's thread is waited for.                                  *)
OutputFails ==
  /\ \E pc \in {"waiting", "showing"} :
       Moves(pc, [display EXCEPT !.pc = "cancelling", !.batch = <<>>, !.failed = TRUE])
  /\ channel' = Closed
  /\ UNCHANGED <<presenter, owed>>

CancelsNow == Moves("cancelling", [display EXCEPT !.pc = "joining"])

(* The thread has ended: the display is closed and the turn's last line written.   *)
JoinsNow == Moves("joining", [display EXCEPT !.pc = "finished"])

Finishes(success, final) ==
  /\ JoinsNow
  /\ channel' = Closed
  /\ presenter' = IF display.failed THEN presenter ELSE Finished(success, final)
  /\ UNCHANGED owed
================================================================================

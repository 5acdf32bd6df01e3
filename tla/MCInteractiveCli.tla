----------------------------- MODULE MCInteractiveCli ------------------------------
EXTENDS InteractiveCli

A == 97
B == 98

Ev(type, kind, text) ==
  [name |-> type, type |-> type, index |-> 0, kind |-> kind, text |-> text, id |-> "",
   wellFormed |-> TRUE, input |-> 0, output |-> 0, stop |-> "null", size |-> 0]

MessageStarts == Ev("message_start", "", <<>>)
TextStarts    == Ev("content_block_start", "text", <<>>)
Delta(text)   == Ev("content_block_delta", "text_delta", text)
ToolStarts    == [Ev("content_block_start", "tool_use", <<>>) EXCEPT !.id = "t1"]
BlockStops    == Ev("content_block_stop", "", <<>>)
Stops(reason) == [Ev("message_delta", "", <<>>) EXCEPT !.stop = reason]
MessageStops  == Ev("message_stop", "", <<>>)

NoMessage == [empty |-> TRUE, content |-> <<>>, stop |-> "null", usage |-> FALSE]

Reply(headers, status, chunks, end, message) ==
  [headers |-> headers, status |-> status, chunks |-> chunks, end |-> end, framed |-> TRUE,
   message |-> message]

Stream(chunks, end) == Reply("event-stream", "2xx", chunks, end, NoMessage)

(* An answer in two pieces, the same cut short after its first chunk, a tool, and  *)
(* an answer that is one document and begins as the other one does.                *)
MCReplies ==
  {Stream(<<<<MessageStarts, TextStarts, Delta(<<A, B>>)>>,
            <<BlockStops, Stops("end_turn"), MessageStops>>>>, "ok"),
   Stream(<<<<MessageStarts, TextStarts, Delta(<<A, B>>)>>>>, "TransportFailure"),
   Stream(<<<<MessageStarts, ToolStarts, BlockStops, Stops("tool_use"), MessageStops>>>>, "ok"),
   Reply("json", "2xx", <<>>, "ok",
         [empty |-> FALSE, content |-> <<[type |-> "text", text |-> <<A, B, A>>]>>,
          stop |-> "end_turn", usage |-> TRUE])}

MCParses(json) == TRUE

MCExisting == {<<>>, "s1" :> [turns |-> 1, pending |-> TRUE]}
MCFirst(sessions) == IF "s1" \in sessions THEN "s1" ELSE CHOOSE s \in sessions : TRUE
================================================================================

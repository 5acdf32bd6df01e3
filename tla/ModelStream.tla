------------------------------- MODULE ModelStream --------------------------------
(* What a model's answer goes through before the runtime sees it: the decoder of   *)
(* server-sent events, the assembler of a streamed message and the decoder of a    *)
(* whole one (src/src/adapters/anthropic/sse_decoder.cpp,                          *)
(* anthropic_stream_assembler.cpp, anthropic_messages_client.cpp).                 *)
(*                                                                                 *)
(* The wire is a sequence of tokens: a line end, a colon, a space, the name of a   *)
(* field or a letter of a value; every token counts as one byte.  JSON is given as *)
(* the record it parses to.                                                        *)
EXTENDS Integers, Sequences, SequencesExt

CONSTANTS
  MaxLineBytes, MaxEventBytes, MaxWireBytes,   \* of sse_decoder.cpp
  MaxContentBytes, MaxToolBytes, MaxBlocks,    \* of anthropic_stream_assembler.cpp
  ParsesToObject(_)                            \* a tool's pieces of JSON make an object

ASSUME StreamLimits ==
  {MaxLineBytes, MaxEventBytes, MaxWireBytes, MaxContentBytes, MaxToolBytes, MaxBlocks} \subseteq Nat

(* --------------------------- server-sent events -------------------------------- *)

NewDecoder == [line |-> <<>>, name |-> <<>>, data |-> <<>>, has |-> FALSE,
               cr |-> FALSE, wire |-> 0, error |-> FALSE, out |-> <<>>]

fail(d) == [d EXCEPT !.error = TRUE]

FieldOf(line) ==
  LET colons == {i \in DOMAIN line : line[i] = ":"}
      cut    == IF colons = {} THEN Len(line) ELSE Min(colons) - 1
      rest   == IF colons = {} THEN <<>> ELSE SubSeq(line, cut + 2, Len(line))
  IN  [field |-> SubSeq(line, 1, cut),
       value |-> IF rest # <<>> /\ Head(rest) = " " THEN Tail(rest) ELSE rest]

(* An empty line ends an event; the pieces of its data are joined by line ends and *)
(* the last one is dropped.                                                        *)
Dispatch(d) ==
  [d EXCEPT !.out = IF d.has THEN Append(@, [name |-> d.name, data |-> Front(d.data)]) ELSE @,
            !.name = <<>>, !.data = <<>>, !.has = FALSE]

consume_line(d) ==
  LET parsed == FieldOf(d.line)
      kept   == [d EXCEPT !.line = <<>>]
  IN  IF d.line = <<>> THEN Dispatch(d)
      ELSE IF Head(d.line) = ":" THEN kept
      ELSE IF parsed.field = <<"data">>
        THEN IF Len(parsed.value) + 1 > MaxEventBytes - Len(d.data) THEN fail(d)
             ELSE [kept EXCEPT !.data = @ \o Append(parsed.value, "lf"), !.has = TRUE]
      ELSE IF parsed.field = <<"event">> THEN [kept EXCEPT !.name = parsed.value]
      ELSE kept

(* Mutant: a line feed after a carriage return ends one more line. *)
FeedByteTwice(d, byte) ==
  IF d.error THEN d
  ELSE IF byte \in {"cr", "lf"} THEN consume_line(d)
  ELSE IF Len(d.line) = MaxLineBytes THEN fail(d)
  ELSE [d EXCEPT !.line = Append(@, byte)]

(* One byte.  A line feed right after a carriage return belongs to it, also when a *)
(* chunk ended between the two.                                                    *)
FeedByte(d, byte) ==
  LET seen  == [d EXCEPT !.cr = FALSE]
      ended == consume_line(seen)
  IN  IF d.error THEN d
      ELSE IF d.cr /\ byte = "lf" THEN seen
      ELSE IF byte \in {"cr", "lf"}
        THEN IF ended.error THEN ended ELSE [ended EXCEPT !.cr = byte = "cr"]
      ELSE IF Len(d.line) = MaxLineBytes THEN fail(seen)
      ELSE [seen EXCEPT !.line = Append(@, byte)]

feed(d, bytes) ==
  LET begun == [d EXCEPT !.wire = @ + Len(bytes)]
      fed[n \in 0..Len(bytes)] == IF n = 0 THEN begun ELSE FeedByte(fed[n - 1], bytes[n])
  IN  IF d.error THEN d
      ELSE IF Len(bytes) > MaxWireBytes - d.wire THEN fail(d)
      ELSE fed[Len(bytes)]

(* The stream may not end inside an event.                                         *)
Framed(d) == ~d.error /\ d.line = <<>> /\ ~d.has /\ d.name = <<>>

(* --------------------------- the streamed message ------------------------------ *)

NoBlock == [type |-> "none"]

NewAssembler == [started |-> FALSE, block |-> NoBlock, index |-> 0, deltas |-> FALSE,
                 final |-> FALSE, stopped |-> FALSE, output |-> 0, input |-> 0,
                 content |-> <<>>, stop |-> "null", bytes |-> 0, error |-> FALSE,
                 notified |-> <<>>]

Known == {"message_start", "content_block_start", "content_block_delta",
          "content_block_stop", "message_delta", "message_stop"}

notify(a, kind, text) ==
  [a EXCEPT !.notified = Append(@, [kind |-> kind, block |-> a.index, text |-> text])]

NotifyText(a, text) == IF text = <<>> THEN a ELSE notify(a, "TextDelta", text)

MessageStart(a, e) ==
  [ok |-> ~a.started /\ e.wellFormed,
   next |-> [a EXCEPT !.started = TRUE, !.input = e.input, !.output = e.output]]

BlockStart(a, e) ==
  [ok |-> /\ a.started /\ a.block = NoBlock /\ ~a.deltas
          /\ e.index = a.index /\ a.index < MaxBlocks
          /\ e.kind \in {"text", "tool_use"} /\ e.wellFormed,
   next |-> IF e.kind = "text"
              THEN NotifyText([a EXCEPT !.block = [type |-> "text", text |-> e.text]], e.text)
              ELSE [a EXCEPT !.block = [type |-> "tool_use", id |-> e.id, json |-> <<>>]]]

BlockDelta(a, e) ==
  LET open == a.started /\ a.block # NoBlock /\ ~a.final /\ e.index = a.index
  IN  IF open /\ a.block.type = "text"
      THEN [ok |-> e.kind = "text_delta",
            next |-> NotifyText([a EXCEPT !.block.text = @ \o e.text], e.text)]
      ELSE [ok |-> /\ open /\ e.kind = "input_json_delta"
                   /\ Len(e.text) <= MaxToolBytes - Len(a.block.json),
            next |-> IF open THEN [a EXCEPT !.block.json = @ \o e.text] ELSE a]

(* A tool without any piece of JSON keeps its empty input.                         *)
BlockStop(a, e) ==
  LET open   == a.started /\ a.block # NoBlock /\ ~a.final /\ e.index = a.index
      told   == IF open /\ a.block.type = "text" THEN notify(a, "TextBlockEnd", <<>>) ELSE a
  IN  [ok |-> /\ open
              /\ a.block.type = "text" \/ a.block.json = <<>> \/ ParsesToObject(a.block.json),
       next |-> [told EXCEPT !.content = Append(@, a.block), !.block = NoBlock, !.index = @ + 1]]

(* Usage is cumulative: it may not go back.  The input may be left out.            *)
MessageDelta(a, e) ==
  LET input == IF e.input = -1 THEN a.input ELSE e.input
  IN  [ok |-> /\ a.started /\ a.block = NoBlock /\ ~a.final
              /\ e.output >= a.output /\ input >= a.input
              /\ e.stop \in {"null", "end_turn", "stop_sequence", "tool_use", "max_tokens"},
       next |-> [a EXCEPT !.deltas = TRUE, !.output = e.output, !.input = input,
                          !.stop = e.stop, !.final = e.stop # "null"]]

MessageStop(a) ==
  [ok |-> a.started /\ a.block = NoBlock /\ a.final, next |-> [a EXCEPT !.stopped = TRUE]]

StepOf(a, e) ==
  CASE e.type = "message_start"       -> MessageStart(a, e)
    [] e.type = "content_block_start" -> BlockStart(a, e)
    [] e.type = "content_block_delta" -> BlockDelta(a, e)
    [] e.type = "content_block_stop"  -> BlockStop(a, e)
    [] e.type = "message_delta"       -> MessageDelta(a, e)
    [] e.type = "message_stop"        -> MessageStop(a)

(* consume: an error stays; an event of a type nobody knows is passed over, at any *)
(* place; after the last event of a message no other one may come.  An event that  *)
(* fails has told nobody anything: what is required of it comes before its notice. *)
consume(a, e) ==
  LET counted == [a EXCEPT !.bytes = @ + e.size]
      failed  == [a EXCEPT !.error = TRUE]
      step    == StepOf(counted, e)
  IN  IF a.error THEN a
      ELSE IF e.size > MaxContentBytes - a.bytes \/ e.type = "malformed" THEN failed
      ELSE IF e.name \notin {"", "message", e.type} \/ e.type = "error" THEN failed
      ELSE IF e.type \notin Known THEN counted
      ELSE IF a.stopped \/ ~step.ok THEN failed
      ELSE step.next

Assembled(a) == ~a.error /\ a.stopped

MessageOf(a) == [empty |-> FALSE, content |-> a.content, stop |-> a.stop, usage |-> TRUE]

(* ----------------------------- the whole message ------------------------------- *)

StopReasons == [end_turn |-> "EndTurn", tool_use |-> "ToolUse", max_tokens |-> "MaxTokens",
                stop_sequence |-> "StopSequence"]

decode_stop_reason(raw) == IF raw \in DOMAIN StopReasons THEN StopReasons[raw] ELSE "Unknown"

BlocksOf(content, type) == SelectSeq(content, LAMBDA block : block.type = type)

HasText(content) == \E b \in ToSet(BlocksOf(content, "text")) : b.text # <<>>
HasTool(content) == BlocksOf(content, "tool_use") # <<>>

response_text_blocks_are_valid(content, reason) ==
  reason = "MaxTokens" \/ \A b \in ToSet(BlocksOf(content, "text")) : b.text # <<>>

(* Two calls of one answer may not share an identifier.                            *)
response_tool_uses_are_valid(content) ==
  LET ids == [i \in DOMAIN BlocksOf(content, "tool_use") |-> BlocksOf(content, "tool_use")[i].id]
  IN  IsInjective(ids)

StopMatches(content, reason) ==
  CASE reason \in {"EndTurn", "StopSequence"} -> HasText(content) /\ ~HasTool(content)
    [] reason = "ToolUse"   -> HasTool(content)
    [] reason = "MaxTokens" -> ~HasTool(content)
    [] reason = "Unknown"   -> HasText(content) \/ HasTool(content)

(* decode_response; `usage` says the counts and the identifier are what they must  *)
(* be.  Every block is well formed.                                                *)
Decodes(message) ==
  LET reason == decode_stop_reason(message.stop)
  IN  /\ ~message.empty /\ message.stop # "null" /\ message.usage
      /\ \A b \in ToSet(message.content) : b.type \in {"text", "tool_use", "compact_request"}
      /\ response_text_blocks_are_valid(message.content, reason)
      /\ response_tool_uses_are_valid(message.content)
      /\ StopMatches(message.content, reason)

concatenate_text(content) ==
  FlattenSeq([i \in DOMAIN content |-> IF content[i].type = "text" THEN content[i].text ELSE <<>>])
================================================================================

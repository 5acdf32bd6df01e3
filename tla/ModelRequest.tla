------------------------------- MODULE ModelRequest -------------------------------
(* The request the client sends for one model call (make_request and its helpers   *)
(* in src/src/adapters/anthropic/anthropic_messages_client.cpp).                   *)
(*                                                                                 *)
(* A text is a sequence of tokens; Open and Close are the two marks around the     *)
(* evidence, which have "<" at their beginning and ">" at their end only.          *)
EXTENDS Integers, Sequences, SequencesExt

CONSTANTS Open, Close, Instructions

ASSUME Marks ==
  /\ Open # Close /\ Instructions \in Seq(STRING)
  /\ \A mark \in {Open, Close} :
       /\ mark \in Seq(STRING) /\ Len(mark) > 1
       /\ \A i \in 1..Len(mark) : (mark[i] = "<" <=> i = 1) /\ (mark[i] = ">" <=> i = Len(mark))

InvalidInput == [ok |-> FALSE, code |-> "InvalidInput"]

outgoing_block(block) ==
  IF block.type = "compact_request"
  THEN [type |-> "text", text |-> <<"[compact_request: ">> \o block.reason \o <<"]">>]
  ELSE block

outgoing_message(message) ==
  [role |-> message.role,
   content |-> [i \in DOMAIN message.content |-> outgoing_block(message.content[i])]]

(* The characters that could end the quotation are written as escapes of JSON, one *)
(* token each.                                                                     *)
Escaped(token) ==
  CASE token = "<" -> "u003c"
    [] token = ">" -> "u003e"
    [] token = "&" -> "u0026"
    [] OTHER       -> token

evidence_array(items) == FlattenSeq([i \in DOMAIN items |-> items[i].content])

(* Mutant: the evidence is put between the marks as it is. *)
verbatim_evidence_json(items) == Open \o evidence_array(items) \o Close

isolated_evidence_json(items) ==
  LET encoded == evidence_array(items)
  IN  Open \o [i \in DOMAIN encoded |-> Escaped(encoded[i])] \o Close

System(request) ==
  LET apart == IF request.system # <<>> /\ request.evidence # <<>> THEN <<"lf", "lf">> ELSE <<>>
      told  == IF request.evidence # <<>> THEN Instructions ELSE <<>>
  IN  request.system \o apart \o told

EvidenceMessage(items) ==
  [role |-> "User", content |-> <<[type |-> "text", text |-> isolated_evidence_json(items)]>>]

(* The evidence goes first, as a message of the user; a message of the role System *)
(* cannot be encoded.                                                              *)
make_request(request, stream) ==
  LET quoted == IF request.evidence = <<>> THEN <<>> ELSE <<EvidenceMessage(request.evidence)>>
      told   == [i \in DOMAIN request.messages |-> outgoing_message(request.messages[i])]
  IN  IF request.timeout <= 0 \/ \E i \in DOMAIN request.messages : request.messages[i].role = "System"
      THEN InvalidInput
      ELSE [ok |-> TRUE, stream |-> stream, system |-> System(request),
            messages |-> quoted \o told, tools |-> request.tools, timeout |-> request.timeout]
================================================================================

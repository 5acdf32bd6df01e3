-------------------------------- MODULE ModelCall ---------------------------------
(* One call of the model at a time: AnthropicMessagesClient::complete with its     *)
(* retries and the transport (src/src/adapters/anthropic/                          *)
(* anthropic_messages_client.cpp, cpr_http_transport.cpp,                          *)
(* src/src/util/retry_with_backoff.h).                                             *)
(*                                                                                 *)
(* A reply is what the provider and the network make of one request: how its       *)
(* headers read, the events of every chunk, and how the transfer ends.  `outbox`   *)
(* holds what the observer of the stream was told and has not handed on yet: the   *)
(* callback does so before the next byte is read.                                  *)
EXTENDS ModelStream

CONSTANTS
  Replies,     \* what a provider may answer
  MaxAttempts  \* BackoffPolicy::max_attempts

ASSUME AttemptBound == MaxAttempts \in Nat \ {0}

(* What the assembler is given of a server-sent event; a text is a sequence of bytes. *)
StreamEvent ==
  [name : STRING, type : STRING, index : Nat, kind : STRING, text : Seq(Nat), id : STRING,
   wellFormed : BOOLEAN, input : Int, output : Int, stop : STRING, size : Nat]

(* The blocks of a message, of which those of text hold bytes. *)
AreBlocks(content) ==
  /\ Len(content) \in Nat /\ DOMAIN content = 1..Len(content)
  /\ \A i \in DOMAIN content : content[i].type = "text" => content[i].text \in Seq(Nat)

ASSUME RepliesAreStreams ==
  \A reply \in Replies :
    reply.chunks \in Seq(Seq(StreamEvent)) /\ AreBlocks(reply.message.content)

VARIABLES
  call,   \* where the call is, its attempt, its reply and how far it was read
  outbox, \* notices of the stream the observer is handing on
  flag,   \* the cancellation flag
  late    \* requests sent after the flag was raised

callVars == <<call, outbox>>

NoReply == [headers |-> "none"]
NoResult == [ok |-> FALSE, code |-> "none", retryable |-> FALSE]
Error(code, retryable) == [ok |-> FALSE, code |-> code, retryable |-> retryable]
Response(message) ==
  [ok |-> TRUE, reason |-> decode_stop_reason(message.stop), content |-> message.content]

Idle == [pc |-> "idle", attempt |-> 0, reply |-> NoReply, at |-> 0,
         outcome |-> "none", result |-> NoResult, observed |-> FALSE]

CallInit == call = Idle /\ outbox = <<>> /\ late = 0

(* complete: a call that is already cancelled sends nothing.  The configuration and *)
(* the request are valid here: the runtime's budgets are positive and its messages  *)
(* have no system role (ModelRequest has what make_request refuses).                *)
Begun(observed) ==
  IF flag THEN [Idle EXCEPT !.pc = "over", !.result = Error("Cancelled", FALSE)]
  ELSE [Idle EXCEPT !.pc = "attempt", !.observed = observed]

(* ------------------------------- one attempt ----------------------------------- *)

Returned(outcome) == call' = [call EXCEPT !.pc = "returned", !.outcome = outcome]

Fed(a, events) ==
  LET after[n \in 0..Len(events)] ==
        IF n = 0 THEN a ELSE consume(after[n - 1], events[n])
  IN  after[Len(events)]

(* The assembler of an attempt is a fresh one: where it stands after so many chunks *)
(* of a reply.                                                                     *)
Standing(chunks, at) ==
  LET after[n \in 0..at] == IF n = 0 THEN NewAssembler ELSE Fed(after[n - 1], chunks[n])
  IN  after[at]

Assemblers == [reply \in Replies |-> [at \in 0..Len(reply.chunks) |-> Standing(reply.chunks, at)]]

Assembler(at) == Assemblers[call.reply][at]

(* perform looks at the flag before it posts.                                      *)
Prepares ==
  /\ call.pc = "attempt"
  /\ IF flag THEN Returned("Cancelled")
     ELSE call' = [call EXCEPT !.pc = "ready", !.attempt = @ + 1]
  /\ UNCHANGED <<outbox, flag, late>>

Posts ==
  /\ call.pc = "ready"
  /\ call' = [call EXCEPT !.pc = "posted"]
  /\ late' = IF flag THEN late + 1 ELSE late
  /\ UNCHANGED <<outbox, flag>>

(* The headers arrive.  Too many of them are the consumer's failure, a status line *)
(* without a status only ends the transfer.                                        *)
Hears(reply) ==
  /\ call.pc = "posted"
  /\ CASE flag -> Returned("Cancelled")
       [] ~flag /\ reply.headers = "too long" -> Returned("ProtocolFailure")
       [] ~flag /\ reply.headers = "broken"   -> Returned("TransportFailure")
       [] OTHER -> call' = [call EXCEPT !.pc = "reading", !.reply = reply, !.at = 0]
  /\ UNCHANGED <<outbox, flag, late>>

Streams == call.reply.headers = "event-stream" /\ call.reply.status = "2xx"

Notices(at) ==
  SubSeq(Assembler(at).notified, Len(Assembler(at - 1).notified) + 1, Len(Assembler(at).notified))

(* A chunk of events goes through the decoder and the assembler up to the first    *)
(* one that is refused; the body of an answer that is not 2xx is ignored.          *)
Chunk ==
  /\ call.pc = "reading" /\ outbox = <<>> /\ call.at < Len(call.reply.chunks)
  /\ IF flag THEN Returned("Cancelled") /\ UNCHANGED outbox
     ELSE IF ~Streams
       THEN call' = [call EXCEPT !.at = @ + 1] /\ UNCHANGED outbox
     ELSE LET refused == Assembler(call.at + 1).error
          IN  /\ call' = [call EXCEPT !.at = @ + 1,
                                      !.pc = IF refused THEN "returned" ELSE @,
                                      !.outcome = IF refused THEN "refused" ELSE @]
              /\ outbox' = IF call.observed THEN Notices(call.at + 1) ELSE <<>>
  /\ UNCHANGED <<flag, late>>

Transferred ==
  /\ call.pc = "reading" /\ outbox = <<>> /\ call.at = Len(call.reply.chunks)
  /\ Returned(IF flag THEN "Cancelled" ELSE call.reply.end)
  /\ UNCHANGED <<outbox, flag, late>>

(* A provider that cannot be reached, or answers nothing in time.                  *)
Unanswered(outcome) ==
  /\ call.pc = "posted"
  /\ Returned(IF flag THEN "Cancelled" ELSE outcome)
  /\ UNCHANGED <<outbox, flag, late>>

(* ----------------------- what becomes of an attempt ----------------------------- *)

Decoded(message) ==
  IF Decodes(message) THEN Response(message) ELSE Error("ProtocolFailure", FALSE)

Answered ==
  CASE call.reply.status = "5xx" -> Error("HttpFailure", TRUE)
    [] call.reply.status = "4xx" -> Error("HttpFailure", FALSE)
    [] call.reply.status = "2xx" /\ ~Streams -> Decoded(call.reply.message)
    [] OTHER -> IF call.reply.framed /\ Assembled(Assembler(call.at))
                THEN Decoded(MessageOf(Assembler(call.at))) ELSE Error("ProtocolFailure", FALSE)

(* Cancellation is asked for once more, and wins over every other outcome; a       *)
(* refused event over the transport's.                                             *)
Classified ==
  IF flag \/ call.outcome = "Cancelled" THEN Error("Cancelled", FALSE)
  ELSE CASE call.outcome = "refused"          -> Error("ProtocolFailure", FALSE)
         [] call.outcome = "RequestTimeout"   -> Error("RequestTimeout", TRUE)
         [] call.outcome = "ProtocolFailure"  -> Error("ProtocolFailure", FALSE)
         [] call.outcome = "TransportFailure" -> Error("TransportFailure", TRUE)
         [] OTHER                             -> Answered

Classifies ==
  /\ call.pc = "returned" /\ outbox = <<>>
  /\ call' = [call EXCEPT !.pc = "classified", !.result = Classified, !.reply = NoReply, !.at = 0,
                          !.outcome = "none"]
  /\ UNCHANGED <<outbox, flag, late>>

Final == call.result.ok \/ ~call.result.retryable \/ call.attempt >= MaxAttempts

(* The flag is looked at before the sleep and not after it; a call cancelled while *)
(* it sleeps sleeps on, and its next attempt finds the flag.                       *)
Decides ==
  /\ call.pc = "classified"
  /\ call' = [call EXCEPT !.pc = IF Final \/ flag THEN "over" ELSE "sleeping"]
  /\ UNCHANGED <<outbox, flag, late>>

Wakes ==
  /\ call.pc = "sleeping"
  /\ call' = [call EXCEPT !.pc = "attempt"]
  /\ UNCHANGED <<outbox, flag, late>>

Outcomes == {"RequestTimeout", "TransportFailure"}

CallStep ==
  \/ Prepares \/ Posts \/ Chunk \/ Transferred \/ Classifies \/ Decides \/ Wakes
  \/ \E reply \in Replies : Hears(reply)
  \/ \E outcome \in Outcomes : Unanswered(outcome)
================================================================================

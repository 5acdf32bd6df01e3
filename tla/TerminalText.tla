------------------------------- MODULE TerminalText -------------------------------
(* How text reaches the terminal, whole or piece by piece                          *)
(* (src/src/cli/terminal_text.cpp, src/src/cli/streaming_terminal_text.cpp).       *)
(*                                                                                 *)
(* A text is a sequence of bytes.                                                  *)
EXTENDS Integers, Sequences, SequencesExt

CONSTANT RenderedLimit   \* kRenderedLimit, 8192 in both files

ASSUME RenderedLimitIsNatural == RenderedLimit \in Nat

LineFeed == 10
Tab == 9
Digit(value) == IF value < 10 THEN 48 + value ELSE 55 + value

byte_escape(byte) == <<92, 120, Digit(byte \div 16), Digit(byte % 16)>>
control_escape(code) == <<92, 117, 48, 48, Digit((code \div 16) % 16), Digit(code % 16)>>

(* "\n[output truncated]", as one mark that no rendered byte equals.               *)
Marker == <<256>>

Continuation(byte) == byte \in 128..191

(* The second byte that may follow `first`.                                        *)
SecondOf(first) ==
  CASE first = 224 -> 160..191
    [] first = 237 -> 128..159
    [] first = 240 -> 144..191
    [] first = 244 -> 128..143
    [] OTHER       -> 128..191

(* unit_length, by the first byte alone.                                           *)
UnitLength(first) ==
  CASE first \in 194..223 -> 2
    [] first \in 224..239 -> 3
    [] first \in 240..244 -> 4
    [] OTHER              -> 1

(* decode_utf8_unit: how long the character at the head is, 0 when it is none.     *)
DecodedUnit(text) ==
  LET n == UnitLength(text[1])
  IN  IF text[1] <= 127 THEN 1
      ELSE IF /\ n > 1 /\ n <= Len(text) /\ text[2] \in SecondOf(text[1])
              /\ \A i \in 3..n : Continuation(text[i])
           THEN n ELSE 0

Code2(text) == (text[1] % 32) * 64 + (text[2] % 64)

(* The bytes written for the character of n bytes at the head; n is 0 for none.    *)
TokenOf(text, n) ==
  CASE n = 0 -> byte_escape(text[1])
    [] n = 1 /\ text[1] \in (0..31 \cup {127}) \ {LineFeed, Tab} -> control_escape(text[1])
    [] n = 2 /\ Code2(text) \in 128..159 -> control_escape(Code2(text))
    [] OTHER -> SubSeq(text, 1, n)

From(text, at) == SubSeq(text, at, Len(text))

Tokens(text) ==
  LET step[at \in 1..Len(text) + 1] ==
        LET Cut(rest, n) == <<TokenOf(rest, n)>> \o step[at + Max({1, n})]
            rest == From(text, at)
        IN  IF at > Len(text) THEN <<>> ELSE Cut(rest, DecodedUnit(rest))
  IN  step[1]

(* As many tokens as the limit allows, and the mark when that is not all of them.  *)
Fitted(tokens) ==
  LET size[i \in 0..Len(tokens)] == IF i = 0 THEN 0 ELSE size[i - 1] + Len(tokens[i])
      kept == Max({i \in 0..Len(tokens) : size[i] <= RenderedLimit})
  IN  FlattenSeq(SubSeq(tokens, 1, kept)) \o (IF kept < Len(tokens) THEN Marker ELSE <<>>)

(* render_terminal_text: the whole text, up to the limit.                          *)
render_terminal_text(text) == Fitted(Tokens(text))

(* --------------------------- piece by piece ------------------------------------ *)

NewStreaming == [pending |-> <<>>, bytes |-> 0, truncated |-> FALSE]

possible_prefix(text, count) ==
  \A i \in 2..count : text[i] \in (IF i = 2 THEN SecondOf(text[1]) ELSE 128..191)

(* How many of the bytes at hand are one unit; 0 when the unit may still grow.     *)
Taken(rest, final) ==
  LET n == UnitLength(rest[1])
  IN  IF ~possible_prefix(rest, Min({n, Len(rest)})) THEN 1
      ELSE IF Len(rest) >= n THEN n
      ELSE IF final THEN 1 ELSE 0

Outcome(out, pending, bytes, truncated) ==
  [out |-> out, next |-> [pending |-> pending, bytes |-> bytes, truncated |-> truncated]]

(* consume: what is written for a piece, and what is kept for the next one.        *)
Consumed(joined, start, final) ==
  LET run[at \in 1..Len(joined) + 1] ==
        LET rest == From(joined, at)
            Written(bytes, token, to) ==
              IF bytes + Len(token) > RenderedLimit THEN Outcome(Marker, <<>>, bytes, TRUE)
              ELSE [run[to][bytes + Len(token)] EXCEPT !.out = token \o @]
            Step(bytes, taken) ==
              IF taken = 0 THEN Outcome(<<>>, rest, bytes, FALSE)
              ELSE Written(bytes, render_terminal_text(SubSeq(rest, 1, taken)), at + taken)
        IN  [bytes \in 0..RenderedLimit |->
               IF at > Len(joined) THEN Outcome(<<>>, <<>>, bytes, FALSE)
               ELSE Step(bytes, Taken(rest, final))]
  IN  run[1][start]

Streamed(t, piece, final) ==
  IF t.truncated THEN [out |-> <<>>, next |-> t]
  ELSE Consumed(t.pending \o piece, t.bytes, final)

append(t, piece) == Streamed(t, piece, FALSE)
finish(t) == Streamed(t, <<>>, TRUE)
================================================================================

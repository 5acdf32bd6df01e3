------------------------------- MODULE BuildOutput --------------------------------
(* What a build tool shows of a command's output when the answer would be too long *)
(* (bounded_process_result in src/src/adapters/build/cmake_tool_gateway.cpp).      *)
(* A text is the sequence of what its characters take up in JSON; 0 stands for     *)
(* bytes that are no UTF-8.                                                        *)
EXTENDS Integers, Sequences

CONSTANTS
  MaxContent,      \* kMaxResultBytes without what the answer needs besides the output
  RetainedPrefix   \* kRetainedPrefixCodePoints

ASSUME ContentBounds == MaxContent \in Nat /\ RetainedPrefix \in Nat

encoded_payload_size(text) ==
  LET size[n \in 0..Len(text)] == IF n = 0 THEN 0 ELSE size[n - 1] + text[n]
  IN  size[Len(text)]

(* The first characters and the last ones; only the last when few are kept. *)
retain_prefix_and_tail(text, kept) ==
  LET prefix == IF kept > RetainedPrefix THEN RetainedPrefix ELSE 0
      tail == kept - prefix
  IN  IF kept >= Len(text) THEN text
      ELSE SubSeq(text, 1, prefix) \o SubSeq(text, Len(text) - tail + 1, Len(text))

(* The number of characters is reduced in proportion until they fit. *)
fit_encoded_payload(text, budget) ==
  LET Candidate(kept) == retain_prefix_and_tail(text, kept)
      Scaled(kept) == (kept * budget) \div encoded_payload_size(Candidate(kept))
      fit[kept \in 0..Len(text)] ==
        IF kept = 0 THEN <<>>
        ELSE IF encoded_payload_size(Candidate(kept)) <= budget THEN Candidate(kept)
        ELSE fit[IF Scaled(kept) < kept THEN Scaled(kept) ELSE kept - 1]
  IN  IF encoded_payload_size(text) <= budget THEN text ELSE fit[Len(text)]

Unavailable == [ok |-> FALSE]

Cut(text, budget, already) ==
  IF encoded_payload_size(text) > budget
  THEN [text |-> fit_encoded_payload(text, budget), truncated |-> TRUE]
  ELSE [text |-> text, truncated |-> already]

(* Each stream may have half of the room, and what the other one leaves. *)
OutBudget(out, err) ==
  LET half == MaxContent \div 2
  IN  IF out < half THEN out
      ELSE IF err < MaxContent - half THEN MaxContent - err ELSE half

bounded_process_result(output) ==
  LET out == encoded_payload_size(output.stdout)
      err == encoded_payload_size(output.stderr)
      fits == out + err <= MaxContent
      budget == OutBudget(out, err)
  IN  IF \E i \in DOMAIN output.stdout : output.stdout[i] = 0 THEN Unavailable
      ELSE IF \E i \in DOMAIN output.stderr : output.stderr[i] = 0 THEN Unavailable
      ELSE [ok |-> TRUE,
            stdout |-> Cut(output.stdout, IF fits THEN out ELSE budget, output.truncated),
            stderr |-> Cut(output.stderr, IF fits THEN err ELSE MaxContent - budget, FALSE),
            is_error |-> output.timed_out \/ output.exit_code # 0]
================================================================================

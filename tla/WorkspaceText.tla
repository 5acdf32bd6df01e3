------------------------------- MODULE WorkspaceText -------------------------------
(* Text as the workspace tools see it: strict UTF-8, pages of lines, literal       *)
(* matches (src/src/adapters/workspace/workspace_text.cpp and the fragments of     *)
(* workspace_file_ops.cpp).  A text is a sequence of bytes; offsets count from 1.  *)
EXTENDS Naturals, Sequences, FiniteSets

CONSTANTS
  MaxFragmentBytes \* kMaxLineFragmentBytes

(* A character fits. *)
ASSUME FragmentParameter == MaxFragmentBytes \in Nat /\ MaxFragmentBytes >= 4

Nul == 0

continuation(byte) == byte \in 128..191   \* 0x80..0xBF

(* The bytes of the character that begins at `at`, 0 when there is no valid one.   *)
(* Overlong forms, surrogates and values past U+10FFFF are refused by the range of *)
(* the second byte.                                                                *)
CharacterBytes(text, at) ==
  LET first == text[at]
      Has(n) == at + n <= Len(text)
      Tail2(n) == \A i \in 2..n : continuation(text[at + i])
      Second == text[at + 1]
  IN IF first \in 1..127 THEN 1
     ELSE IF first \in 194..223 /\ Has(1) /\ continuation(text[at + 1]) THEN 2
     ELSE IF /\ first \in 224..239 /\ Has(2) /\ continuation(Second) /\ Tail2(2)
             /\ first = 224 => Second >= 160
             /\ first = 237 => Second <= 159
          THEN 3
     ELSE IF /\ first \in 240..244 /\ Has(3) /\ continuation(Second) /\ Tail2(3)
             /\ first = 240 => Second >= 144
             /\ first = 244 => Second <= 143
          THEN 4
     ELSE 0

is_strict_utf8_text(text) ==
  LET valid[at \in 1..Len(text) + 1] ==
        \/ at = Len(text) + 1
        \/ CharacterBytes(text, at) > 0 /\ valid[at + CharacterBytes(text, at)]
  IN valid[1]

(* A page of a file, the file being the sequence of its lines' lengths.  A page    *)
(* never splits a line, and a line longer than the whole budget is a fault.        *)
NoLine == 0

Page(start, end, total) ==
  [fault |-> "", start |-> start, end |-> end, total |-> total,
   next |-> IF end < total THEN end + 1 ELSE NoLine]

PageFault(code) == [fault |-> code]

line_page(lines, start, max_lines, budget) ==
  LET Length(i) == lines[i]
      bytes[end \in start - 1..Len(lines)] ==
        IF end < start THEN 0 ELSE bytes[end - 1] + Length(end)
      Fitting == {end \in start..Len(lines) : end < start + max_lines /\ bytes[end] <= budget}
  IN IF lines = <<>>
     THEN IF start = 1 THEN Page(1, 0, 0) ELSE PageFault("invalid_arguments")
     ELSE IF start > Len(lines) THEN PageFault("invalid_arguments")
     ELSE IF Length(start) > budget THEN PageFault("limit_exceeded")
     ELSE Page(start, CHOOSE end \in Fitting : \A e \in Fitting : e <= end, Len(lines))

ascii_fold(byte) == IF byte \in 65..90 THEN byte + 32 ELSE byte

(* Non-overlapping occurrences, from the left. *)
literal_matches(line, query, case_sensitive) ==
  LET Fold(byte) == IF case_sensitive THEN byte ELSE ascii_fold(byte)
      Equal(at) == \A i \in 1..Len(query) : Fold(line[at + i - 1]) = Fold(query[i])
      from[at \in 1..Len(line) + 1] ==
        IF at + Len(query) > Len(line) + 1 THEN <<>>
        ELSE IF Equal(at) THEN <<at>> \o from[at + Len(query)]
        ELSE from[at + 1]
  IN IF query = <<>> \/ Len(query) > Len(line) THEN <<>> ELSE from[1]

(* replace_text: the text with `new` at each position instead of `size` bytes. *)
Replaced(text, positions, size, new) ==
  LET upto[k \in 0..Len(positions)] ==
        IF k = 0 THEN <<>>
        ELSE LET copied == IF k = 1 THEN 1 ELSE positions[k - 1] + size
             IN upto[k - 1] \o SubSeq(text, copied, positions[k] - 1) \o new
      rest == IF positions = <<>> THEN 1 ELSE positions[Len(positions)] + size
  IN upto[Len(positions)] \o SubSeq(text, rest, Len(text))

utf8_column(line, at) == 1 + Cardinality({i \in 1..at - 1 : ~continuation(line[i])})

(* The part of a long line that is shown around a match: first and last byte.  A   *)
(* bound that falls inside a character moves inwards.                              *)
line_fragment(line, at, query_bytes) ==
  LET Size == Len(line)
      Least(a, b) == IF a < b THEN a ELSE b
      offset == at - 1
      near == IF offset > MaxFragmentBytes \div 3 THEN offset - MaxFragmentBytes \div 3 ELSE 0
      far == Least(Size, near + MaxFragmentBytes)
      late == offset + query_bytes > far
      end == IF late THEN Least(Size, offset + query_bytes) ELSE far
      begin == IF ~late THEN near ELSE IF end > MaxFragmentBytes THEN end - MaxFragmentBytes ELSE 0
      first == CHOOSE b \in begin..end :
                 /\ b = end \/ ~continuation(line[b + 1])
                 /\ \A c \in begin..b - 1 : continuation(line[c + 1])
      last == IF end = Size THEN end
              ELSE CHOOSE e \in first..end :
                     /\ e = first \/ ~continuation(line[e + 1])
                     /\ \A c \in e + 1..end : continuation(line[c + 1])
  IN IF Size <= MaxFragmentBytes THEN [first |-> 1, last |-> Size, cut |-> FALSE]
     ELSE [first |-> first + 1, last |-> last, cut |-> TRUE]
================================================================================

------------------------------ MODULE RetrievalPolicy ------------------------------
(* decide_retrieval (src/src/application/retrieval_policy.cpp): does a question    *)
(* need evidence, and of which kind.  A text is the set of the marks found in it,  *)
(* a mark being a phrase of one of the lists of the source.                        *)

CjkMarks == {"cjk", "omission_cjk", "followup_cjk", "vocabulary_cjk"}

(* command: the text begins with a slash; optout: it asks not to use the knowledge *)
(* base.  Both are read by the provider, not by the policy.                        *)
Marks == CjkMarks \cup
  {"cfr", "usc", "section", "omission_en", "followup_en", "vocabulary_en",
   "artifact", "build_word", "command", "optout"}

Policies == {"Auto", "Always", "Off"}
Needs == {"None", "ExactReference", "Semantic"}

contains_cjk(text) == text \cap CjkMarks # {}

has_citation_marker(text) == text \cap {"cfr", "usc", "section"} # {}

(* The lists of one language only are scanned: a single CJK character turns the    *)
(* English lists off.                                                              *)
has_omission_marker(text) ==
  IF contains_cjk(text) THEN "omission_cjk" \in text ELSE "omission_en" \in text

has_followup_marker(text) ==
  IF contains_cjk(text) THEN "followup_cjk" \in text ELSE "followup_en" \in text

(* "cfr" and "section" are words of the English vocabulary too. *)
has_regulatory_vocabulary(text) ==
  IF contains_cjk(text)
  THEN "vocabulary_cjk" \in text
  ELSE text \cap {"vocabulary_en", "cfr", "section"} # {}

has_programming_artifact(text) == text \cap {"artifact", "build_word"} # {}

regulatory_signal(text) ==
  \/ has_citation_marker(text)
  \/ has_omission_marker(text)
  \/ has_followup_marker(text)
  \/ has_regulatory_vocabulary(text)

(* The reason code of a need the heuristic found; the order is that of the code. *)
reason_code(text) ==
  CASE has_citation_marker(text) -> "regulatory_citation"
    [] ~has_citation_marker(text) /\ has_followup_marker(text) -> "regulatory_followup"
    [] ~has_citation_marker(text) /\ ~has_followup_marker(text)
         /\ has_omission_marker(text) -> "regulatory_omission"
    [] OTHER -> IF has_regulatory_vocabulary(text) /\ has_programming_artifact(text)
                THEN "regulatory_code_mixed_question"
                ELSE "no_regulatory_signal"

decide_retrieval(text, policy, carried) ==
  CASE policy = "Off" -> [need |-> "None", reason |-> "user_opted_out"]
    [] policy = "Always" ->
         [need |-> IF has_citation_marker(text) THEN "ExactReference" ELSE "Semantic",
          reason |-> "user_explicit_always"]
    [] policy = "Auto" /\ regulatory_signal(text) ->
         [need |-> IF has_citation_marker(text) THEN "ExactReference" ELSE "Semantic",
          reason |-> reason_code(text)]
    [] policy = "Auto" /\ ~regulatory_signal(text) ->
         IF carried
         THEN [need |-> "Semantic", reason |-> "session_always_required"]
         ELSE [need |-> "None", reason |-> "no_regulatory_signal"]
================================================================================

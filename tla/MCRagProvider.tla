------------------------------- MODULE MCRagProvider -------------------------------
EXTENDS RagProvider

(* Two texts that need evidence, one of them with a citation, one ordinary text,   *)
(* one that opts out.                                                              *)
MCAsks == {[task |-> "t1", text |-> {"cfr"}], [task |-> "t1", text |-> {"vocabulary_en"}],
           [task |-> "t1", text |-> {}], [task |-> "t1", text |-> {"optout"}]}

Item(source, revision, bytes) ==
  [source |-> source, sha |-> source, revision |-> revision, bytes |-> bytes,
   neighbor |-> FALSE, parent |-> NoParent, ranked |-> TRUE]

MCAnswers(id, text, revision) ==
  {QueryResult(id, text, "matched", <<Item("s1", revision, 1)>>),
   QueryResult(id, text, "matched", <<Item("s1", "stale", 1)>>),
   QueryResult(id, text, "authoritative_no_match", <<>>)}
================================================================================

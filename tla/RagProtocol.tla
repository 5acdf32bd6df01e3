-------------------------------- MODULE RagProtocol --------------------------------
(* The frames of the RAG side process and what the client accepts of them          *)
(* (src/src/adapters/rag/rag_protocol.cpp, src/src/domain/evidence_validation.cpp).*)
(* A line that is not JSON, has a duplicate or an unknown key or a field of the    *)
(* wrong type or format is "malformed"; what decides between well-formed frames is *)
(* modelled field by field.                                                        *)
EXTENDS Naturals, Sequences, FiniteSets

CONSTANTS
  TopK,           \* config.top_k (at most 20)
  MaxTotalBytes,  \* config.max_total_bytes (at most 32768)
  MaxItemBytes    \* the largest content of one item (8192)

ASSUME ProtocolParameters ==
  TopK \in Nat \ {0} /\ MaxTotalBytes \in Nat \ {0} /\ MaxItemBytes \in Nat \ {0}

ServerId == 0           \* kServerRequestId: the id of the ready frame
NoParent == "none"      \* neighbor_of is null
Versions == {2, 3}      \* kProtocolVersionV2, kProtocolVersionV3

Malformed == [op |-> "malformed"]

(* A ready frame.  Only schema 3 has the capability fields; schema 2 is read as    *)
(* both ready.                                                                     *)
Ready(version, revision, index, embedding) ==
  [op |-> "ready", id |-> ServerId, version |-> version, revision |-> revision,
   index |-> index, embedding |-> embedding]

ReadyFrames(revision) ==
  {Ready(v, revision, i, e) : v \in Versions, i \in BOOLEAN, e \in BOOLEAN}

(* text is the question the side process answered: no field of the frame, it is    *)
(* there for the properties.                                                       *)
QueryResult(id, text, outcome, items) ==
  [op |-> "query_result", id |-> id, version |-> 2, text |-> text,
   outcome |-> outcome, items |-> items]

decode_v2_ready(line) == [ok |-> TRUE, revision |-> line.revision, index |-> TRUE, embedding |-> TRUE]

decode_v3_ready(line) ==
  IF line.index \/ line.embedding
  THEN [ok |-> TRUE, revision |-> line.revision, index |-> line.index, embedding |-> line.embedding]
  ELSE [ok |-> FALSE]

decode_ready(line) ==
  IF line.op # "ready" THEN [ok |-> FALSE]
  ELSE IF line.id # ServerId \/ line.version \notin Versions THEN [ok |-> FALSE]
  ELSE IF line.version = 2 THEN decode_v2_ready(line) ELSE decode_v3_ready(line)

(* An item is retrieved, with a rank and a score, or the neighbour of another one. *)
valid_item(item) ==
  /\ item.bytes \in 1..MaxItemBytes
  /\ item.neighbor <=> item.parent # NoParent
  /\ item.neighbor <=> ~item.ranked

BytesUpTo(items, n) ==
  LET sum[i \in 0..Len(items)] == IF i = 0 THEN 0 ELSE sum[i - 1] + items[i].bytes
  IN sum[n]

Distinct(items) ==
  \A i, j \in 1..Len(items) :
    i # j => items[i].source # items[j].source /\ items[i].sha # items[j].sha

(* The loop over the items keeps the bytes used so far and refuses the first item  *)
(* that does not fit in what is left.                                              *)
items_are_acceptable(items, revision) ==
  /\ \A i \in 1..Len(items) :
       /\ valid_item(items[i])
       /\ items[i].revision = revision
       /\ items[i].bytes <= MaxTotalBytes - BytesUpTo(items, i - 1)
  /\ Distinct(items)

neighbors_are_anchored(items) ==
  \A i \in 1..Len(items) :
    items[i].neighbor => \E j \in 1..Len(items) : items[j].source = items[i].parent

evidence_pack_is_valid(pack) ==
  /\ pack.authoritative => pack.items = <<>>
  /\ Len(pack.items) <= 20
  /\ \A i, j \in 1..Len(pack.items) : i # j => pack.items[i].source # pack.items[j].source

(* The pack a frame stands for. *)
evidence(line) ==
  [authoritative |-> line.outcome = "authoritative_no_match",
   forbidden |-> line.items # <<>>,
   items |-> line.items,
   text |-> line.text]

decode_query_result(line, id, revision) ==
  IF line.op # "query_result" THEN [ok |-> FALSE]
  ELSE IF /\ line.version \in Versions
          /\ line.id = id
          /\ Len(line.items) <= TopK
          /\ line.outcome \in {"matched", "no_match", "authoritative_no_match"}
          /\ line.outcome = "matched" <=> line.items # <<>>
          /\ items_are_acceptable(line.items, revision)
          /\ neighbors_are_anchored(line.items)
          /\ evidence_pack_is_valid(evidence(line))
       THEN [ok |-> TRUE, pack |-> evidence(line)]
       ELSE [ok |-> FALSE]
================================================================================

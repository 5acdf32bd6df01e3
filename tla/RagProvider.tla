-------------------------------- MODULE RagProvider --------------------------------
(* PersistentRagKnowledgeProvider with the process, the verifier, the protocol,    *)
(* the retrieval policy and the evidence cache it uses                             *)
(* (src/src/adapters/rag/persistent_rag_knowledge_provider.cpp,                    *)
(* task_evidence_cache.cpp).                                                       *)
(*                                                                                 *)
(* retrieve holds the provider's mutex from its first line to its last, so there   *)
(* is one calling thread; `pc` is where it is whenever the reader thread, the side *)
(* process or a writer of the pack can act.                                        *)
EXTENDS JsonlProcess, PackVerifier, RagProtocol, RetrievalPolicy

CONSTANTS
  Asks,         \* questions: a task and a text
  Revisions,    \* revisions of the retrieval index
  Policy,       \* config.retrieval_policy
  Answers(_, _, _), \* frames the side process may write for a request, by id, text and revision
  CacheBytes,   \* kMaxEvidenceBytes
  MaxAsks,      \* bound: questions
  MaxExtra      \* bound: lines the side process writes unasked

ASSUME ProviderParameters == Policy \in Policies /\ MaxAsks \in Nat /\ MaxExtra \in Nat

(* The side process answers a request under the request's id, with a result that   *)
(* it found for the request's text, or not in this protocol.  What the result      *)
(* holds is open.                                                                  *)
ASSUME AnswersNameTheirRequest ==
  \A id \in 0..MaxAsks, a \in Asks, r \in Revisions :
    \A l \in Answers(id, a.text, r) :
      \/ l.op \notin {"ready", "query_result"}
      \/ /\ l = QueryResult(id, a.text, l.outcome, l.items)
         /\ l.items \in Seq({l.items[i] : i \in 1..Len(l.items)})

VARIABLES
  pc,       \* where the calling thread is
  prov,     \* state_, retrieval_revision_, index_ready_, embedding_ready_
  sequence, \* request_sequence_
  context,  \* session_regulatory_context_
  cache,    \* the slot of evidence_cache_
  ask,      \* the question being answered
  result,   \* what the last retrieve returned
  asked, extra \* how often each bounded thing happened

providerVars == <<prov, sequence, context, cache, ask, result, asked, extra>>
ragVars == <<processVars, packVars, pc, providerVars>>

NoRevision == "none"
NoAsk == [task |-> "none", text |-> {}]
NoSlot == [full |-> FALSE]
Stopped == [state |-> "Stopped", revision |-> NoRevision, index |-> FALSE, embedding |-> FALSE]

Failure(code) == [kind |-> "error", code |-> code]
Empty == [kind |-> "empty"]
Evidence(pack) == [kind |-> "evidence", pack |-> pack]

Init ==
  /\ ProcessInit /\ VerifierInit
  /\ pc = "idle" /\ prov = Stopped /\ sequence = ServerId /\ context = FALSE
  /\ cache = NoSlot /\ ask = NoAsk /\ result = Empty
  /\ asked = 0 /\ extra = 0

Need(text) == decide_retrieval(text, Policy, context).need

should_skip(text) == text \cap {"command", "optout"} # {}

(* ------------------------------ retrieve and ensure_ready ---------------------- *)

Returns(r) == pc' = "idle" /\ result' = r

(* The first lines of retrieve: cancelled, not wanted, not needed.  Only a decision *)
(* changes the context.                                                             *)
ReturnAtOnce(a) ==
  /\ pc = "idle" /\ asked < MaxAsks
  /\ asked' = asked + 1 /\ ask' = a
  /\ \/ Returns(Failure("cancelled")) /\ UNCHANGED context
     \/ should_skip(a.text) /\ Returns(Empty) /\ UNCHANGED context
     \/ /\ ~should_skip(a.text) /\ Need(a.text) = "None"
        /\ Returns(Empty) /\ context' = FALSE
  /\ UNCHANGED <<processVars, packVars, prov, sequence, cache, extra>>

Wanted(a) ==
  /\ pc = "idle" /\ asked < MaxAsks
  /\ ~should_skip(a.text) /\ Need(a.text) # "None"
  /\ asked' = asked + 1 /\ ask' = a /\ context' = TRUE
  /\ UNCHANGED <<sequence, cache, result, extra>>

(* ensure_ready with a process that runs. *)
FindReady(a) ==
  /\ Wanted(a) /\ prov.state = "Ready" /\ Running
  /\ pc' = "lookup"
  /\ UNCHANGED <<processVars, packVars, prov>>

(* ensure_ready without one: what is left of the old one is stopped first, before  *)
(* the pack is verified.                                                           *)
FindNotReady(a) ==
  /\ Wanted(a) /\ ~(prov.state = "Ready" /\ Running)
  /\ IF prov.state = "Stopped" THEN UNCHANGED processVars ELSE Stop
  /\ pc' = "stopping"
  /\ UNCHANGED <<packVars, prov>>

Verify ==
  /\ pc = "stopping" /\ op = "idle"
  /\ prov' = [prov EXCEPT !.state = "Starting"]
  /\ BeginVerify
  /\ pc' = "verifying"
  /\ UNCHANGED <<processVars, sequence, context, cache, ask, result, asked, extra>>

VerifyFile ==
  /\ pc = "verifying" /\ VerifierStep
  /\ UNCHANGED <<processVars, pc, providerVars>>

VerifyRefuses ==
  /\ pc = "verifying" /\ VerifyFails
  /\ prov' = [prov EXCEPT !.state = "Broken"]
  /\ Returns(Failure("dependency"))
  /\ UNCHANGED <<processVars, sequence, context, cache, ask, asked, extra>>

VerifySeals ==
  /\ pc = "verifying" /\ Seal
  /\ pc' = "sealed"
  /\ UNCHANGED <<processVars, providerVars>>

Launch ==
  /\ pc = "sealed"
  /\ \/ \E r \in Revisions : Start([revision |-> r])
     \/ StartFails
  /\ pc' = "starting"
  /\ UNCHANGED <<packVars, providerVars>>

StartReturnsError ==
  /\ pc = "starting" /\ op = "idle" /\ ~reply.ok
  /\ prov' = [prov EXCEPT !.state = "Broken"]
  /\ Returns(Failure(reply.error))
  /\ UNCHANGED <<processVars, packVars, sequence, context, cache, ask, asked, extra>>

StartReturnsReady ==
  /\ pc = "starting" /\ op = "idle" /\ reply.ok
  /\ LET ready == decode_ready(reply.line)
     IN /\ ready.ok
        /\ prov' = [state |-> "Ready", revision |-> ready.revision,
                    index |-> ready.index, embedding |-> ready.embedding]
  /\ pc' = "lookup"
  /\ UNCHANGED <<processVars, packVars, sequence, context, cache, ask, result, asked, extra>>

(* ------------------------------------ the query -------------------------------- *)

Capable(need) == need = "None" \/ (IF need = "Semantic" THEN prov.embedding ELSE prov.index)

(* The need was decided before the context was set; a question with a signal has   *)
(* the same need with it, one without got here by the context alone.               *)
CurrentNeed == Need(ask.text)

NotCapable ==
  /\ pc = "lookup" /\ ~Capable(CurrentNeed)
  /\ Returns(Failure("dependency"))
  /\ UNCHANGED <<processVars, packVars, prov, sequence, context, cache, ask, asked, extra>>

(* Mutant: the key of a slot has no revision. *)
CacheKeyOfAnyRevision == [task |-> ask.task, text |-> ask.text]

(* mode, top_k and max_total_bytes are constants of the configuration. *)
CacheKey == [task |-> ask.task, text |-> ask.text, revision |-> prov.revision]

Hit == cache.full /\ cache.key = CacheKey

Lookup ==
  /\ pc = "lookup" /\ Capable(CurrentNeed) /\ Hit
  /\ Returns(Evidence(cache.pack))
  /\ UNCHANGED <<processVars, packVars, prov, sequence, context, cache, ask, asked, extra>>

Query ==
  /\ pc = "lookup" /\ Capable(CurrentNeed) /\ ~Hit
  /\ sequence' = sequence + 1
  /\ Exchange([op |-> "query", id |-> sequence', text |-> ask.text])
  /\ pc' = "querying"
  /\ UNCHANGED <<packVars, prov, context, cache, ask, result, asked, extra>>

(* The slot holds the last evidence that is not too large; a larger one empties it. *)
Store(pack) ==
  cache' = IF BytesUpTo(pack.items, Len(pack.items)) > CacheBytes
           THEN NoSlot
           ELSE [full |-> TRUE, key |-> CacheKey, pack |-> pack]

(* authoritative_no_match is believed after a citation lookup only. *)
Decoded == decode_query_result(reply.line, sequence, prov.revision)
Believed == reply.ok /\ Decoded.ok /\ (Decoded.pack.authoritative => CurrentNeed = "ExactReference")

QueryReturns ==
  /\ pc = "querying" /\ op = "idle" /\ Believed
  /\ Store(Decoded.pack)
  /\ prov' = [prov EXCEPT !.state = "Ready"]
  /\ Returns(Evidence(Decoded.pack))
  /\ UNCHANGED <<processVars, packVars, sequence, context, ask, asked, extra>>

(* break_process, after a frame that cannot be decoded or believed, and after an   *)
(* exchange that failed.                                                           *)
Break ==
  /\ op = "idle"
  /\ \/ pc = "starting" /\ reply.ok /\ ~decode_ready(reply.line).ok
     \/ pc = "querying" /\ ~Believed
  /\ prov' = [Stopped EXCEPT !.state = "Broken"]
  /\ Stop
  /\ pc' = "breaking"
  /\ result' = Failure(IF reply.ok THEN "protocol" ELSE reply.error)
  /\ UNCHANGED <<packVars, sequence, context, cache, ask, asked, extra>>

Broken ==
  /\ pc = "breaking" /\ op = "idle"
  /\ pc' = "idle"
  /\ UNCHANGED <<processVars, packVars, providerVars>>

(* The destructor. *)
Close ==
  /\ pc = "idle"
  /\ IF prov.state # "Stopped" \/ Running THEN Stop ELSE UNCHANGED processVars
  /\ pc' = "closing"
  /\ UNCHANGED <<packVars, providerVars>>

Closed ==
  /\ pc = "closing" /\ op = "idle"
  /\ prov' = [prov EXCEPT !.state = "Stopped"]
  /\ pc' = "closed"
  /\ UNCHANGED <<processVars, packVars, sequence, context, cache, ask, result, asked, extra>>

Provider ==
  \/ Verify \/ VerifyFile \/ VerifyRefuses \/ VerifySeals
  \/ Launch \/ StartReturnsError \/ StartReturnsReady
  \/ NotCapable \/ Lookup \/ Query \/ QueryReturns \/ Break \/ Broken \/ Closed

Environs == UNCHANGED <<packVars, pc, providerVars>>

(* --------------------------------- the side process ----------------------------- *)

(* What it writes unasked: its ready frame, that of an older protocol, an answer   *)
(* to an earlier request once more, or something that is no line of the protocol.  *)
Unasked ==
  {Bad, Malformed}
    \cup ReadyFrames(child.load.revision)
    \cup UNION {Answers(p[1], p[2].text, child.load.revision) :
                  p \in {q \in (1..sequence) \X Asks :
                          q[1] = sequence /\ pc = "querying" => q[2] = ask}}

SideProcessChatters ==
  /\ extra < MaxExtra /\ child.alive
  /\ \E l \in Unasked : ChildWrites(l)
  /\ extra' = extra + 1
  /\ UNCHANGED <<packVars, pc, prov, sequence, context, cache, ask, result, asked>>

(* The first line of a side process that does its work. *)
SideProcessIsReady ==
  /\ pc = "starting" /\ child.alive /\ stdout = <<>> /\ lines = <<>> /\ op = "waiting"
  /\ \E l \in ReadyFrames(child.load.revision) : l.version = 3 /\ l.index /\ ChildWrites(l)
  /\ Environs

SideProcessAnswers ==
  /\ child.alive /\ stdin # <<>>
  /\ \E l \in Answers(Head(stdin).id, Head(stdin).text, child.load.revision) : ChildAnswers(l)
  /\ Environs

Outside ==
  \/ SideProcessChatters \/ SideProcessIsReady \/ SideProcessAnswers
  \/ ChildExits /\ Environs
  \/ \E f \in Files : Rewrite(f) /\ UNCHANGED <<processVars, pc, providerVars>>

Next ==
  \/ \E a \in Asks : ReturnAtOnce(a) \/ FindReady(a) \/ FindNotReady(a)
  \/ Close
  \/ Provider
  \/ (Caller \/ Reader) /\ Environs
  \/ Outside

(* The calling thread runs, its waits have deadlines, and the reader's poll returns *)
(* after 50 ms.  Nothing is assumed of the side process.                            *)
Fairness ==
  /\ WF_ragVars(Provider)
  /\ WF_ragVars(Caller /\ Environs)
  /\ WF_ragVars(Reader /\ Environs)

Spec == Init /\ [][Next]_ragVars /\ Fairness

TypeOK ==
  /\ pc \in {"idle", "stopping", "verifying", "sealed", "starting", "lookup", "querying",
             "breaking", "closing", "closed"}
  /\ op \in {"idle", "waiting", "joining"} /\ reader \in {"none", "running", "done"}
  /\ proc \in [started : BOOLEAN, exited : BOOLEAN, failed : BOOLEAN, stopping : BOOLEAN]
  /\ child.alive \in BOOLEAN
  /\ prov \in [state : {"Stopped", "Starting", "Ready", "Broken"},
               revision : Revisions \cup {NoRevision}, index : BOOLEAN, embedding : BOOLEAN]
  /\ sequence \in 0..MaxAsks /\ asked \in 0..MaxAsks /\ extra \in 0..MaxExtra
  /\ context \in BOOLEAN /\ ask \in Asks \cup {NoAsk}
  /\ result.kind \in {"error", "empty", "evidence"}
  /\ content \in [Files -> {"good", "other"}] /\ locked \subseteq Files
  /\ lease \in BOOLEAN /\ checked \subseteq Files

(* The evidence of a question answers that question and is of the revision the     *)
(* provider works with, however late or often the side process wrote it, and       *)
(* whichever process or cache slot it comes from (persistent_rag_knowledge_        *)
(* provider.cpp:254: "a stale entry cannot leak across pack rotations").  An        *)
(* authoritative "no such article" answers a question with a citation only, from   *)
(* the cache too, whose key has no need (line 300).                                *)
EvidenceIsCurrent ==
  pc = "idle" /\ result.kind = "evidence" =>
    /\ result.pack.text = ask.text
    /\ \A i \in 1..Len(result.pack.items) : result.pack.items[i].revision = prov.revision
    /\ BytesUpTo(result.pack.items, Len(result.pack.items)) <= MaxTotalBytes
    /\ result.pack.authoritative => has_citation_marker(ask.text)

(* Between two questions a side process is alive only if the provider counts on    *)
(* it, and none is alive behind a closed provider: every failing path of start,    *)
(* exchange, ensure_ready and retrieve stops what it started.                      *)
NoStrayProcess ==
  /\ pc = "idle" /\ child.alive => prov.state = "Ready"
  /\ pc = "closed" => ~child.alive

(* As long as a side process runs, the files it runs from are the verified ones:   *)
(* they are locked before they are hashed and stay locked until the next           *)
(* verification, before which the process is stopped.                              *)
ServesVerifiedPack ==
  Locking /\ child.alive => \A f \in Executables : content[f] = "good"

(* Every retrieve returns, and every close ends, whatever the side process does:   *)
(* each wait has a deadline and each join a reader that leaves.                    *)
EveryCallReturns == pc \notin {"idle", "closed"} ~> pc \in {"idle", "closed"}
================================================================================

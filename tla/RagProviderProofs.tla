----------------------------- MODULE RagProviderProofs -----------------------------
(* What holds of the provider and its side process for every pack, every index and *)
(* whatever the side process writes under the ids it was asked with.               *)
EXTENDS RagProvider, FiniteSetTheorems, TLAPS

(* --------------------------- which process and which files ---------------------- *)

Points == {"idle", "stopping", "verifying", "sealed", "starting", "lookup", "querying",
           "breaking", "closing", "closed"}

ProcessType ==
  /\ pc \in Points
  /\ op \in {"idle", "waiting", "joining"} /\ reader \in {"none", "running", "done"}
  /\ proc \in [started : BOOLEAN, exited : BOOLEAN, failed : BOOLEAN, stopping : BOOLEAN]
  /\ child \in [alive : BOOLEAN, load : [revision : Revisions \cup {NoRevision}]]
  /\ child.alive => child.load.revision \in Revisions

(* Where the calling thread is decides what can be left of a side process: while   *)
(* it stops one, the child is alive only until it is joined, and from then to the  *)
(* next launch there is none.                                                      *)
Stopping == op \in {"idle", "joining"} /\ (child.alive => op = "joining")

Owned ==
  /\ child.alive => proc.started
  /\ pc = "idle" => op = "idle" /\ (child.alive => prov.state = "Ready")
  /\ pc = "lookup" => op = "idle" /\ prov.state = "Ready"
  /\ pc \in {"stopping", "breaking", "closing"} => Stopping
  /\ pc \in {"verifying", "sealed", "closed"} => op = "idle" /\ ~child.alive
  /\ pc = "starting" /\ op = "idle" /\ ~reply.ok => ~child.alive

(* Where there are locks, what was checked is locked and good, and the lease       *)
(* outlives every child.                                                           *)
Leased ==
  /\ locked \subseteq Files /\ checked \subseteq Files
  /\ content \in [Files -> {"good", "other"}] /\ lease \in BOOLEAN
  /\ Locking => \A f \in checked : f \in locked /\ content[f] = "good"
  /\ Locking /\ lease => \A f \in Files : f \in locked /\ content[f] = "good"
  /\ child.alive \/ pc = "sealed" => lease

(* --------------------------------- what is said to whom ------------------------- *)

Texts == {a.text : a \in Asks}

Requests == [op : {"query"}, id : 0..MaxAsks, text : Texts]

FramesOf(r) == ReadyFrames(r) \cup UNION {Answers(id, a.text, r) : id \in 0..MaxAsks, a \in Asks}

Frames == {Malformed} \cup UNION {FramesOf(r) : r \in Revisions}

(* Nothing has the id of a request that was not made, and while a request is in    *)
(* progress what has its id is about its text.                                     *)
Names(id, text, last, asking, a) ==
  id \in 0..last /\ (id = last /\ asking => text = a.text)

Asked(last, asking, a) == {q \in Requests : Names(q.id, q.text, last, asking, a)}

Answered(last, asking, a) ==
  {l \in Frames : l.op = "query_result" => Names(l.id, l.text, last, asking, a)}

Querying == pc = "querying"

Counted ==
  /\ sequence \in 0..asked /\ asked \in 0..MaxAsks
  /\ pc \in {"stopping", "verifying", "sealed", "starting", "lookup"} => sequence < asked
  /\ ask \in Asks \cup {NoAsk}
  /\ pc \notin {"idle", "breaking", "closing", "closed"} => ask \in Asks

Carried ==
  /\ stdin \in Seq(Asked(sequence, Querying, ask))
  /\ outbound \in Seq(Asked(sequence, Querying, ask))
  /\ stdout \in Seq({Bad} \cup Answered(sequence, Querying, ask))
  /\ lines \in Seq(Answered(sequence, Querying, ask))

Heard ==
  pc \in {"starting", "querying"} /\ reply.ok =>
    op = "waiting" \/ reply.line \in {Done.line} \cup Answered(sequence, Querying, ask)

Correlated == Counted /\ Carried /\ Heard

(* -------------------------------- what is handed out ---------------------------- *)

(* A pack that answers this text from this revision. *)
Fits(pack, text, revision) ==
  /\ pack.text = text
  /\ \A i \in 1..Len(pack.items) : pack.items[i].revision = revision
  /\ BytesUpTo(pack.items, Len(pack.items)) <= MaxTotalBytes
  /\ pack.authoritative => has_citation_marker(text)

Remembered ==
  /\ prov \in [state : {"Stopped", "Starting", "Ready", "Broken"},
               revision : Revisions \cup {NoRevision}, index : BOOLEAN, embedding : BOOLEAN]
  /\ context \in BOOLEAN
  /\ cache.full => Fits(cache.pack, cache.key.text, cache.key.revision)
  /\ pc = "breaking" => result.kind = "error"

RagInv == ProcessType /\ Owned /\ Leased /\ Correlated /\ Remembered /\ EvidenceIsCurrent

(* --------------------------- induction over a sum ------------------------------- *)

(* Every set of naturals that has an element has a least one. *)
LEMMA LeastElement ==
  ASSUME NEW T, T \subseteq Nat, T # {}
  PROVE  \E x \in T : \A y \in T : ~(y < x)
<1> DEFINE R == StrictSubsetOrdering(Nat)
           Fin == FiniteSubsetsOf(Nat)
           Below == {1..n : n \in T}
<1>1. IsWellFoundedOn(R, Fin)
  BY FS_StrictSubsetOrderingWellFounded
<1>2. Below \subseteq Fin /\ Below # {}
  <2>1. \A n \in Nat : IsFiniteSet(1..n)
    BY FS_Interval
  <2>2. \A n \in Nat : 1..n \in Fin
    BY <2>1 DEF FiniteSubsetsOf
  <2> QED
    BY <2>2
<1>3. \A m, n \in Nat : m < n => <<1..m, 1..n>> \in R
  <2> SUFFICES ASSUME NEW m \in Nat, NEW n \in Nat, m < n PROVE <<1..m, 1..n>> \in R
    OBVIOUS
  <2>1. n \in 1..n /\ n \notin 1..m /\ 1..m \subseteq 1..n /\ 1..n \subseteq Nat
    OBVIOUS
  <2>2. 1..m # 1..n
    BY <2>1
  <2> QED
    BY <2>1, <2>2 DEF StrictSubsetOrdering
<1> HIDE DEF R, Fin
<1>4. PICK X \in Below : \A Y \in Below : ~(<<Y, X>> \in R)
  BY <1>1, <1>2, WFMin
<1>5. PICK x \in T : X = 1..x
  OBVIOUS
<1>6. \A y \in T : ~(<<1..y, 1..x>> \in R)
  BY <1>4, <1>5
<1> QED
  BY <1>3, <1>6

(* Induction, for the members of a set: first order, so that it can be cited. *)
LEMMA SetInduction ==
  ASSUME NEW S, 0 \in S, \A n \in Nat : n \in S => n + 1 \in S
  PROVE  \A n \in Nat : n \in S
<1> SUFFICES ASSUME Nat \ S # {} PROVE FALSE
  OBVIOUS
<1>1. PICK x \in Nat \ S : \A y \in Nat \ S : ~(y < x)
  BY LeastElement
<1>2. x # 0 /\ x - 1 \in Nat /\ x - 1 < x /\ (x - 1) + 1 = x
  BY <1>1
<1>3. x - 1 \in S
  BY <1>1, <1>2
<1> QED
  BY <1>1, <1>2, <1>3

(* The recursive function of BytesUpTo. *)
IsSum(f, items, n) ==
  f = [i \in 0..n |-> IF i = 0 THEN 0 ELSE f[i - 1] + items[i].bytes]

(* There is such a function for every number of items. *)
LEMMA SumExists ==
  ASSUME NEW items, NEW N \in Nat
  PROVE  \E f : IsSum(f, items, N)
<1> DEFINE S == {n \in Nat : \E f : IsSum(f, items, n)}
<1>1. 0 \in S
  <2>1. IsSum([i \in 0..0 |-> 0], items, 0)
    BY DEF IsSum
  <2> QED
    BY <2>1
<1>2. ASSUME NEW n \in Nat, n \in S PROVE n + 1 \in S
  <2>1. PICK f : IsSum(f, items, n)
    BY <1>2
  <2> DEFINE g == [i \in 0..n + 1 |-> IF i = n + 1 THEN f[n] + items[n + 1].bytes ELSE f[i]]
  <2>2. \A i \in 0..n + 1 : g[i] = IF i = 0 THEN 0 ELSE g[i - 1] + items[i].bytes
    <3> SUFFICES ASSUME NEW i \in 0..n + 1
                 PROVE g[i] = IF i = 0 THEN 0 ELSE g[i - 1] + items[i].bytes
      OBVIOUS
    <3>1. CASE i = n + 1
      BY <3>1
    <3>2. CASE i \in 0..n
      <4>1. g[i] = f[i] /\ (i # 0 => g[i - 1] = f[i - 1])
        BY <3>2
      <4>2. f[i] = IF i = 0 THEN 0 ELSE f[i - 1] + items[i].bytes
        BY <2>1, <3>2 DEF IsSum
      <4> QED
        BY <4>1, <4>2
    <3> QED
      BY <3>1, <3>2
  <2>3. g = [i \in 0..n + 1 |-> g[i]]
    OBVIOUS
  <2>4. IsSum(g, items, n + 1)
    <3> HIDE DEF g
    <3> QED
      BY <2>2, <2>3 DEF IsSum
  <2> QED
    BY <2>4
<1> HIDE DEF S
<1>3. N \in S
  BY <1>1, <1>2, SetInduction
<1> QED
  BY <1>3 DEF S

(* What the bytes of the first items come to. *)
LEMMA BytesSum ==
  ASSUME NEW items, Len(items) \in Nat
  PROVE  \A n \in 0..Len(items) :
           BytesUpTo(items, n) =
             IF n = 0 THEN 0 ELSE BytesUpTo(items, n - 1) + items[n].bytes
<1> DEFINE sum == CHOOSE f : IsSum(f, items, Len(items))
<1>1. IsSum(sum, items, Len(items))
  BY SumExists
<1>2. \A n : BytesUpTo(items, n) = sum[n]
  BY DEF BytesUpTo, IsSum
<1> HIDE DEF sum
<1>3. \A n \in 0..Len(items) : sum[n] = IF n = 0 THEN 0 ELSE sum[n - 1] + items[n].bytes
  BY <1>1 DEF IsSum
<1> QED
  BY <1>2, <1>3

(* The loop's test of each item against what is left bounds the sum of them all.   *)
LEMMA BytesBounded ==
  ASSUME NEW items, NEW revision, Len(items) \in Nat,
         items_are_acceptable(items, revision)
  PROVE  BytesUpTo(items, Len(items)) <= MaxTotalBytes
<1> DEFINE S == {n \in Nat : n <= Len(items) =>
                   BytesUpTo(items, n) \in Nat /\ BytesUpTo(items, n) <= MaxTotalBytes}
<1>1. 0 \in S
  BY BytesSum, ProtocolParameters
<1>2. ASSUME NEW n \in Nat, n \in S PROVE n + 1 \in S
  <2> SUFFICES ASSUME n + 1 <= Len(items)
               PROVE  /\ BytesUpTo(items, n + 1) \in Nat
                      /\ BytesUpTo(items, n + 1) <= MaxTotalBytes
    OBVIOUS
  <2> DEFINE sofar == BytesUpTo(items, n)
             more == items[n + 1].bytes
  <2>1. sofar \in Nat
    BY <1>2
  <2>2. more \in Nat /\ more <= MaxTotalBytes - sofar
    <3>1. n + 1 \in 1..Len(items) /\ (n + 1) - 1 = n
      OBVIOUS
    <3> QED
      BY <3>1, ProtocolParameters DEF items_are_acceptable, valid_item
  <2>3. BytesUpTo(items, n + 1) = sofar + more
    <3>1. n + 1 \in 0..Len(items) /\ (n + 1) - 1 = n /\ n + 1 # 0
      OBVIOUS
    <3> QED
      BY <3>1, BytesSum
  <2> HIDE DEF sofar, more
  <2> QED
    BY <2>1, <2>2, <2>3, ProtocolParameters
<1> HIDE DEF S
<1>3. Len(items) \in S
  BY <1>1, <1>2, SetInduction
<1> QED
  BY <1>3 DEF S

(* ------------------------------- which process runs ----------------------------- *)

LEMMA Nothing ==
  /\ NoChild \in [alive : BOOLEAN, load : [revision : Revisions \cup {NoRevision}]]
  /\ NoChild.alive = FALSE
  /\ Clear \in [started : BOOLEAN, exited : BOOLEAN, failed : BOOLEAN, stopping : BOOLEAN]
BY DEF NoChild, NoRevision, Clear

LEMMA InitInv == Init => ProcessType /\ Owned /\ Leased
<1> SUFFICES ASSUME Init PROVE ProcessType /\ Owned /\ Leased
  OBVIOUS
<1>1. ProcessType /\ Owned
  BY Nothing DEF Init, ProcessInit, ProcessType, Owned, Points
<1>2. content \in [Files -> {"good", "other"}]
  BY DEF Init, VerifierInit
<1>3. checked = {} /\ locked = {} /\ lease = FALSE /\ pc = "idle" /\ child.alive = FALSE
  BY Nothing DEF Init, ProcessInit, VerifierInit
<1>4. Leased
  BY <1>2, <1>3 DEF Leased
<1> QED
  BY <1>1, <1>4

LEMMA ProcessStep ==
  ASSUME ProcessType, Owned, [Next]_ragVars
  PROVE  ProcessType' /\ Owned'
<1> USE DEF ProcessType, Owned, Points, Stopping, Environs
<1>1. CASE UNCHANGED ragVars
  BY <1>1 DEF ragVars, processVars, providerVars
<1>2. ASSUME NEW a \in Asks, ReturnAtOnce(a) PROVE ProcessType' /\ Owned'
  BY <1>2 DEF ReturnAtOnce, Returns, processVars
<1>3. ASSUME NEW a \in Asks, FindReady(a) PROVE ProcessType' /\ Owned'
  BY <1>3 DEF FindReady, Wanted, processVars
<1>4. ASSUME NEW a \in Asks, FindNotReady(a) PROVE ProcessType' /\ Owned'
  BY <1>4 DEF FindNotReady, Wanted, Stop, processVars
<1>5. CASE Close
  BY <1>5 DEF Close, Stop, Running, processVars, providerVars
<1>6. CASE Verify
  BY <1>6 DEF Verify, processVars
<1>7. CASE VerifyFile
  BY <1>7 DEF VerifyFile, processVars, providerVars
<1>8. CASE VerifyRefuses
  BY <1>8 DEF VerifyRefuses, Returns, processVars
<1>9. CASE VerifySeals
  BY <1>9 DEF VerifySeals, processVars, providerVars
<1>10. CASE Launch
  <2>1. ASSUME NEW r \in Revisions, pc = "sealed", pc' = "starting", Start([revision |-> r])
        PROVE  ProcessType' /\ Owned'
    BY <2>1 DEF Start, Clear
  <2>2. ASSUME pc = "sealed", pc' = "starting", StartFails PROVE ProcessType' /\ Owned'
    <3>1. child' = NoChild /\ op' = "idle" /\ reader' = "none"
      BY <2>2 DEF StartFails
    <3>2. proc' \in [started : BOOLEAN, exited : BOOLEAN, failed : BOOLEAN, stopping : BOOLEAN]
      BY <2>2, Nothing DEF StartFails
    <3> QED
      BY <2>2, <3>1, <3>2, Nothing
  <2> QED
    BY <1>10, <2>1, <2>2 DEF Launch
<1>11. CASE StartReturnsError
  BY <1>11 DEF StartReturnsError, Returns, processVars
<1>12. CASE StartReturnsReady
  BY <1>12 DEF StartReturnsReady, processVars
<1>13. CASE NotCapable
  BY <1>13 DEF NotCapable, Returns, processVars
<1>14. CASE Lookup
  BY <1>14 DEF Lookup, Returns, processVars
<1>15. CASE Query
  BY <1>15 DEF Query, Exchange
<1>16. CASE QueryReturns
  BY <1>16 DEF QueryReturns, Returns, processVars
<1>17. CASE Break
  BY <1>17 DEF Break, Stop
<1>18. CASE Broken
  BY <1>18 DEF Broken, processVars, providerVars
<1>19. CASE Closed
  BY <1>19 DEF Closed, processVars
<1>20. CASE Caller /\ Environs
  <2> USE DEF providerVars
  <2>1. CASE TakeLine
    BY <1>20, <2>1 DEF TakeLine, Line
  <2>2. CASE NoLineComes
    BY <1>20, <2>2 DEF NoLineComes, ForceStop, Error
  <2>3. CASE WaitTimesOut
    BY <1>20, <2>3 DEF WaitTimesOut, ForceStop, Error
  <2>4. CASE Reap
    BY <1>20, <2>4 DEF Reap, NoChild, NoRevision
  <2> QED
    BY <1>20, <2>1, <2>2, <2>3, <2>4 DEF Caller
<1>21. CASE Reader /\ Environs
  <2> USE DEF providerVars, ReaderIs
  <2>1. CASE ReadLine
    BY <1>21, <2>1 DEF ReadLine
  <2>2. CASE WriteLine
    BY <1>21, <2>2 DEF WriteLine
  <2>3. CASE SeeExit
    BY <1>21, <2>3 DEF SeeExit
  <2>4. CASE ReaderLeaves
    BY <1>21, <2>4 DEF ReaderLeaves
  <2> QED
    BY <1>21, <2>1, <2>2, <2>3, <2>4 DEF Reader
<1>22. CASE Outside
  <2> USE DEF providerVars
  <2>1. CASE SideProcessChatters
    BY <2>1 DEF SideProcessChatters, ChildWrites
  <2>2. CASE SideProcessIsReady
    BY <2>2 DEF SideProcessIsReady, ChildWrites
  <2>3. CASE SideProcessAnswers
    BY <2>3 DEF SideProcessAnswers, ChildAnswers
  <2>4. CASE ChildExits /\ Environs
    BY <2>4 DEF ChildExits
  <2>5. CASE \E f \in Files : Rewrite(f) /\ UNCHANGED <<processVars, pc, providerVars>>
    BY <2>5 DEF processVars
  <2> QED
    BY <1>22, <2>1, <2>2, <2>3, <2>4, <2>5 DEF Outside
<1> QED
  BY <1>1, <1>2, <1>3, <1>4, <1>5, <1>6, <1>7, <1>8, <1>9, <1>10, <1>11, <1>12, <1>13,
     <1>14, <1>15, <1>16, <1>17, <1>18, <1>19, <1>20, <1>21, <1>22 DEF Next, Provider

(* A step that leaves the pack and its lease alone. *)
LEMMA PackRests ==
  ASSUME Leased, UNCHANGED packVars, child'.alive \/ pc' = "sealed" => child.alive \/ pc = "sealed"
  PROVE  Leased'
BY DEF Leased, packVars

LEMMA LeaseStep ==
  ASSUME ProcessType, Owned, Leased, [Next]_ragVars
  PROVE  Leased'
<1>1. CASE UNCHANGED ragVars
  BY <1>1, PackRests DEF ragVars, processVars
<1>2. ASSUME NEW a \in Asks, ReturnAtOnce(a) \/ FindReady(a) PROVE Leased'
  BY <1>2, PackRests DEF ReturnAtOnce, FindReady, Returns, processVars
<1>3. ASSUME NEW a \in Asks, FindNotReady(a) PROVE Leased'
  BY <1>3, PackRests DEF FindNotReady, Stop, processVars
<1>4. CASE Close \/ Break
  BY <1>4, PackRests DEF Close, Break, Stop, processVars
<1>5. CASE Verify
  BY <1>5 DEF Verify, BeginVerify, Leased, Owned, Stopping, processVars
<1>6. CASE VerifyFile
  <2>1. /\ UNCHANGED <<processVars, pc>> /\ lease' = lease /\ content' = content
        /\ locked' \subseteq Files /\ checked' \subseteq Files
    BY <1>6 DEF VerifyFile, VerifierStep, Hold, HashMatches, providerVars, Leased
  <2>2. Locking => /\ locked \subseteq locked'
                   /\ \A f \in checked' \ checked : f \in locked /\ content[f] = "good"
    BY <1>6 DEF VerifyFile, VerifierStep, Hold, HashMatches, Held, Leased
  <2> QED
    BY <2>1, <2>2 DEF Leased, processVars
<1>7. CASE VerifyRefuses
  BY <1>7 DEF VerifyRefuses, VerifyFails, Returns, Leased, Owned, processVars
<1>8. CASE VerifySeals
  BY <1>8 DEF VerifySeals, Seal, Leased, processVars
<1>9. CASE Launch
  BY <1>9, PackRests DEF Launch
<1>10. CASE StartReturnsError \/ StartReturnsReady \/ NotCapable \/ Lookup \/ QueryReturns
  BY <1>10, PackRests DEF StartReturnsError, StartReturnsReady, NotCapable, Lookup, QueryReturns,
                          Returns, processVars
<1>11. CASE Query
  BY <1>11, PackRests DEF Query, Exchange
<1>12. CASE Broken \/ Closed
  BY <1>12, PackRests DEF Broken, Closed, processVars
<1>13. CASE Caller /\ Environs
  <2>1. child' = child \/ child' = NoChild
    BY <1>13 DEF Caller, TakeLine, NoLineComes, WaitTimesOut, ForceStop, Reap
  <2> QED
    BY <1>13, <2>1, PackRests, Nothing DEF Environs
<1>14. CASE Reader /\ Environs
  <2>1. child' = child
    BY <1>14 DEF Reader, ReadLine, WriteLine, SeeExit, ReaderLeaves, ReaderIs
  <2> QED
    BY <1>14, <2>1, PackRests DEF Environs
<1>15. CASE SideProcessChatters \/ SideProcessIsReady \/ SideProcessAnswers
  BY <1>15, PackRests DEF SideProcessChatters, SideProcessIsReady, SideProcessAnswers,
                          ChildWrites, ChildAnswers, Environs
<1>16. CASE ChildExits /\ Environs
  <2>1. child.alive
    BY <1>16 DEF ChildExits
  <2> QED
    BY <1>16, <2>1, PackRests DEF Environs
<1>17. ASSUME NEW f \in Files, Rewrite(f), UNCHANGED <<processVars, pc, providerVars>>
       PROVE  Leased'
  <2>1. content' \in [Files -> {"good", "other"}]
    BY <1>17 DEF Rewrite, Leased
  <2>2. f \notin locked /\ \A g \in Files : g # f => content'[g] = content[g]
    BY <1>17 DEF Rewrite, Leased
  <2>3. UNCHANGED <<locked, lease, checked, child, pc>>
    BY <1>17 DEF Rewrite, processVars
  <2> QED
    BY <2>1, <2>2, <2>3 DEF Leased
<1> QED
  BY <1>1, <1>2, <1>3, <1>4, <1>5, <1>6, <1>7, <1>8, <1>9, <1>10, <1>11, <1>12, <1>13,
     <1>14, <1>15, <1>16, <1>17 DEF Next, Provider, Outside

(* -------------------------------- what is said to whom -------------------------- *)

LEMMA SeqMono ==
  ASSUME NEW S, NEW T, S \subseteq T, NEW s \in Seq(S)
  PROVE  s \in Seq(T)
OBVIOUS

LEMMA SeqOps ==
  ASSUME NEW S, NEW s \in Seq(S)
  PROVE  /\ \A x \in S : Append(s, x) \in Seq(S)
         /\ s # <<>> => Head(s) \in S /\ Tail(s) \in Seq(S)
OBVIOUS

(* What the client reads in a frame it may be sent. *)
LEMMA FrameFacts ==
  ASSUME NEW l \in Frames
  PROVE  /\ l.op = "ready" => l.revision \in Revisions /\ l.index \in BOOLEAN /\ l.embedding \in BOOLEAN
         /\ l.op = "query_result" => Len(l.items) \in Nat
<1>1. CASE l = Malformed
  BY <1>1 DEF Malformed
<1>2. ASSUME NEW r \in Revisions, l \in ReadyFrames(r)
      PROVE  /\ l.op # "query_result"
             /\ l.revision \in Revisions /\ l.index \in BOOLEAN /\ l.embedding \in BOOLEAN
  BY <1>2 DEF ReadyFrames, Ready
<1>3. ASSUME NEW id \in 0..MaxAsks, NEW a \in Asks, NEW r \in Revisions, l \in Answers(id, a.text, r)
      PROVE  /\ l.op # "ready"
             /\ l.op = "query_result" => Len(l.items) \in Nat
  <2>1. CASE l.op \notin {"ready", "query_result"}
    BY <2>1
  <2>2. CASE /\ l = QueryResult(id, a.text, l.outcome, l.items)
             /\ l.items \in Seq({l.items[i] : i \in 1..Len(l.items)})
    <3>1. l.op = "query_result"
      BY <2>2 DEF QueryResult
    <3>2. Len(l.items) \in Nat
      BY <2>2
    <3> QED
      BY <3>1, <3>2
  <2> QED
    BY <1>3, <2>1, <2>2, AnswersNameTheirRequest
<1> QED
  <2>1. CASE \E r \in Revisions : l \in FramesOf(r)
    BY <1>2, <1>3, <2>1 DEF FramesOf
  <2> QED
    BY <1>1, <2>1 DEF Frames

(* An answer to a request that was made is about the request's text. *)
LEMMA AnswersCorrelate ==
  ASSUME NEW last \in 0..MaxAsks, NEW asking \in BOOLEAN, NEW now,
         NEW id \in 0..last, NEW a \in Asks, id = last /\ asking => a.text = now.text,
         NEW r \in Revisions, NEW l \in Answers(id, a.text, r)
  PROVE  l \in Answered(last, asking, now)
<1>1. id \in 0..MaxAsks
  BY ProviderParameters
<1>2. l \in Frames
  <2>1. l \in FramesOf(r)
    BY <1>1 DEF FramesOf
  <2> QED
    BY <2>1 DEF Frames
<1>3. l.op = "query_result" => l.id = id /\ l.text = a.text
  <2>1. CASE l = QueryResult(id, a.text, l.outcome, l.items)
    BY <2>1 DEF QueryResult
  <2> QED
    BY <1>1, <2>1, AnswersNameTheirRequest
<1> QED
  BY <1>2, <1>3 DEF Answered, Names

(* What was about the requests made so far stays so when a request is over, and    *)
(* when one with the next id begins.                                               *)
LEMMA TrafficStays ==
  ASSUME NEW last \in Nat, NEW asking \in BOOLEAN, NEW now,
         NEW last2 \in Nat, NEW asking2 \in BOOLEAN, NEW now2, last <= last2,
         asking2 => last < last2 \/ (asking /\ last = last2 /\ now.text = now2.text)
  PROVE  /\ Asked(last, asking, now) \subseteq Asked(last2, asking2, now2)
         /\ Answered(last, asking, now) \subseteq Answered(last2, asking2, now2)
BY DEF Asked, Answered, Names

(* A step that moves no line: the queues and the pipes stay what they were. *)
LEMMA LinesRest ==
  ASSUME Correlated, sequence' \in Nat, sequence <= sequence',
         Querying' => sequence < sequence' \/ (Querying /\ sequence = sequence' /\ ask'.text = ask.text)
  PROVE  /\ stdin' = stdin => stdin' \in Seq(Asked(sequence, Querying, ask)')
         /\ outbound' = outbound => outbound' \in Seq(Asked(sequence, Querying, ask)')
         /\ stdout' = stdout => stdout' \in Seq({Bad} \cup Answered(sequence, Querying, ask)')
         /\ lines' = lines => lines' \in Seq(Answered(sequence, Querying, ask)')
<1>1. sequence \in Nat /\ Querying \in BOOLEAN /\ Querying' \in BOOLEAN
  BY DEF Correlated, Counted, Querying
<1>2. SUFFICES ASSUME NEW Q, NEW Q2, NEW A, NEW A2, Q \subseteq Q2, A \subseteq A2,
                      Q = Asked(sequence, Querying, ask), Q2 = Asked(sequence', Querying', ask'),
                      A = Answered(sequence, Querying, ask), A2 = Answered(sequence', Querying', ask')
               PROVE  /\ stdin' = stdin => stdin' \in Seq(Q2)
                      /\ outbound' = outbound => outbound' \in Seq(Q2)
                      /\ stdout' = stdout => stdout' \in Seq({Bad} \cup A2)
                      /\ lines' = lines => lines' \in Seq(A2)
  <2>1. /\ Asked(sequence, Querying, ask) \subseteq Asked(sequence', Querying', ask')
        /\ Answered(sequence, Querying, ask) \subseteq Answered(sequence', Querying', ask')
    BY <1>1, TrafficStays
  <2> QED
    BY <2>1, <1>2
<1>3. stdin \in Seq(Q) /\ outbound \in Seq(Q) /\ stdout \in Seq({Bad} \cup A) /\ lines \in Seq(A)
  BY <1>2 DEF Correlated, Carried
<1>4. {Bad} \cup A \subseteq {Bad} \cup A2
  BY <1>2
<1>5. stdout \in Seq({Bad} \cup A2)
  BY <1>3, <1>4, SeqMono
<1> QED
  BY <1>2, <1>3, <1>5, SeqMono

LEMMA CountStep ==
  ASSUME ProcessType, Counted, [Next]_ragVars
  PROVE  Counted'
<1> USE ProviderParameters DEF Counted
<1>1. CASE UNCHANGED ragVars
  BY <1>1 DEF ragVars, providerVars
<1>2. ASSUME NEW a \in Asks, ReturnAtOnce(a) \/ FindReady(a) \/ FindNotReady(a) PROVE Counted'
  BY <1>2 DEF ReturnAtOnce, FindReady, FindNotReady, Wanted, Returns
<1>3. CASE Close \/ Broken
  BY <1>3 DEF Close, Broken, providerVars
<1>4. CASE Verify \/ VerifyFile \/ VerifyRefuses \/ VerifySeals \/ Launch
  BY <1>4 DEF Verify, VerifyFile, VerifyRefuses, VerifySeals, Launch, Returns, providerVars
<1>5. CASE StartReturnsError \/ StartReturnsReady \/ NotCapable \/ Lookup
  BY <1>5 DEF StartReturnsError, StartReturnsReady, NotCapable, Lookup, Returns
<1>6. CASE Query
  BY <1>6 DEF Query
<1>7. CASE QueryReturns \/ Break \/ Closed
  BY <1>7 DEF QueryReturns, Break, Closed, Returns
<1>8. CASE (Caller \/ Reader) /\ Environs
  BY <1>8 DEF Environs, providerVars
<1>9. CASE Outside
  BY <1>9 DEF Outside, SideProcessChatters, SideProcessIsReady, SideProcessAnswers, Environs,
              providerVars
<1> QED
  BY <1>1, <1>2, <1>3, <1>4, <1>5, <1>6, <1>7, <1>8, <1>9 DEF Next, Provider

(* A step that moves no line and begins no request. *)
LEMMA NothingMoves ==
  ASSUME Correlated, sequence' = sequence, UNCHANGED <<stdin, outbound, stdout, lines>>,
         Querying' => Querying /\ ask' = ask
  PROVE  Carried'
<1>1. sequence \in Nat
  BY DEF Correlated, Counted
<1> QED
  BY <1>1, LinesRest DEF Carried

(* A step of the side process, of the reader or of the wait: the request stays. *)
LEMMA SameRequest ==
  ASSUME UNCHANGED <<pc, sequence, ask>>
  PROVE  /\ Asked(sequence, Querying, ask)' = Asked(sequence, Querying, ask)
         /\ Answered(sequence, Querying, ask)' = Answered(sequence, Querying, ask)
BY DEF Asked, Answered, Querying

LEMMA ChannelStep ==
  ASSUME ProcessType, Owned, Correlated, Counted', [Next]_ragVars
  PROVE  Carried' /\ Heard'
<1>0. sequence \in Nat /\ sequence \in 0..MaxAsks
  BY ProviderParameters DEF Correlated, Counted
<1>1. CASE UNCHANGED ragVars
  <2>1. UNCHANGED <<pc, sequence, ask, stdin, outbound, stdout, lines, op, reply>>
    BY <1>1 DEF ragVars, processVars, pipes, providerVars
  <2>2. Carried'
    BY <2>1, NothingMoves DEF Querying
  <2> QED
    BY <2>1, <2>2, SameRequest DEF Correlated, Heard
<1>2. CASE pc' \notin {"starting", "querying"} /\ UNCHANGED <<stdin, outbound, stdout, lines, sequence>>
  BY <1>2, NothingMoves DEF Querying, Heard
<1>3. ASSUME NEW a \in Asks, ReturnAtOnce(a) \/ FindReady(a) \/ FindNotReady(a)
      PROVE  Carried' /\ Heard'
  <2>1. pc' \in {"idle", "lookup", "stopping"} /\ UNCHANGED <<stdin, outbound, stdout, lines, sequence>>
    BY <1>3 DEF ReturnAtOnce, FindReady, FindNotReady, Wanted, Returns, Stop, processVars, pipes
  <2> QED
    BY <1>2, <2>1
<1>4. CASE Close \/ Broken \/ Break \/ Closed \/ Verify \/ VerifySeals \/ VerifyRefuses
  <2>1. pc' \notin {"starting", "querying"} /\ UNCHANGED <<stdin, outbound, stdout, lines, sequence>>
    BY <1>4 DEF Close, Broken, Break, Closed, Verify, VerifySeals, VerifyRefuses, Stop, Returns,
                processVars, pipes, providerVars
  <2> QED
    BY <1>2, <2>1
<1>5. CASE VerifyFile \/ StartReturnsError \/ StartReturnsReady \/ NotCapable \/ Lookup \/ QueryReturns
  <2>1. pc' \notin {"starting", "querying"} /\ UNCHANGED <<stdin, outbound, stdout, lines, sequence>>
    BY <1>5 DEF VerifyFile, StartReturnsError, StartReturnsReady, NotCapable, Lookup,
                QueryReturns, Returns, processVars, pipes, providerVars
  <2> QED
    BY <1>2, <2>1
<1>6. CASE Launch
  <2>1. /\ stdin' = <<>> /\ outbound' = <<>> /\ stdout' = <<>> /\ lines' = <<>>
        /\ op' = "waiting" \/ reply' = Error("unavailable")
    BY <1>6 DEF Launch, Start, StartFails
  <2>2. \A S : <<>> \in Seq(S)
    OBVIOUS
  <2>3. Carried'
    BY <2>1, <2>2 DEF Carried
  <2>4. Heard'
    BY <2>1 DEF Heard, Error
  <2> QED
    BY <2>3, <2>4
<1>7. CASE Query
  <2> DEFINE request == [op |-> "query", id |-> sequence', text |-> ask.text]
  <2>1. sequence' = sequence + 1 /\ UNCHANGED <<stdin, stdout, lines>> /\ ask' = ask
    BY <1>7 DEF Query, Exchange, pipes
  <2>2. sequence' \in Nat /\ sequence <= sequence' /\ sequence < sequence'
    BY <1>0, <2>1
  <2>3. request \in Asked(sequence', Querying', ask')
    <3>1. sequence' \in 0..MaxAsks /\ ask \in Asks
      BY <1>7, <2>1, ProviderParameters DEF Counted, Correlated, Query
    <3>2. request \in Requests
      BY <3>1 DEF Requests, Texts
    <3> QED
      BY <2>1, <2>2, <3>2 DEF Asked, Names
  <2>4. Carried' /\ (op' = "waiting" \/ reply' = Error("unavailable"))
    <3>1. CASE outbound' = outbound /\ reply' = Error("unavailable")
      BY <2>1, <2>2, <3>1, LinesRest DEF Carried
    <3>2. CASE outbound' = Append(outbound, request) /\ op' = "waiting"
      <4>1. SUFFICES ASSUME NEW Q, NEW Q2, Q \subseteq Q2, request \in Q2, outbound \in Seq(Q),
                            Q2 = Asked(sequence', Querying', ask')
                     PROVE  outbound' \in Seq(Q2)
        <5>1. Asked(sequence, Querying, ask) \subseteq Asked(sequence', Querying', ask')
          <6>1. Querying \in BOOLEAN /\ Querying' \in BOOLEAN
            BY DEF Querying
          <6>2. sequence \in Nat /\ sequence' \in Nat /\ sequence <= sequence' /\ sequence < sequence'
            BY <1>0, <2>1, <2>2
          <6> QED
            BY <6>1, <6>2, TrafficStays
        <5>2. outbound \in Seq(Asked(sequence, Querying, ask))
          BY DEF Correlated, Carried
        <5>3. outbound' \in Seq(Asked(sequence, Querying, ask)')
          BY <2>3, <4>1, <5>1, <5>2
        <5> QED
          BY <2>1, <2>2, <3>2, <5>3, LinesRest DEF Carried
      <4>2. outbound \in Seq(Q2)
        BY <4>1, SeqMono
      <4> QED
        BY <3>2, <4>1, <4>2
    <3> QED
      BY <1>7, <3>1, <3>2 DEF Query, Exchange
  <2> QED
    BY <2>4 DEF Heard, Error
<1>8. ASSUME UNCHANGED <<pc, sequence, ask>>, NEW Q, NEW A,
             Q = Asked(sequence, Querying, ask), A = Answered(sequence, Querying, ask),
             \/ (Caller \/ Reader) /\ Environs
             \/ SideProcessChatters \/ SideProcessIsReady \/ SideProcessAnswers
             \/ ChildExits /\ Environs
             \/ \E f \in Files : Rewrite(f) /\ UNCHANGED <<processVars, pc, providerVars>>
      PROVE  Carried' /\ Heard'
  <2>1. /\ stdin \in Seq(Q) /\ outbound \in Seq(Q) /\ stdout \in Seq({Bad} \cup A) /\ lines \in Seq(A)
        /\ pc \in {"starting", "querying"} /\ reply.ok =>
             op = "waiting" \/ reply.line \in {Done.line} \cup A
    BY <1>8 DEF Correlated, Carried, Heard
  <2>2. SUFFICES
          /\ stdin' \in Seq(Q) /\ outbound' \in Seq(Q) /\ stdout' \in Seq({Bad} \cup A)
          /\ lines' \in Seq(A)
          /\ pc \in {"starting", "querying"} /\ reply'.ok =>
               op' = "waiting" \/ reply'.line \in {Done.line} \cup A
    BY <1>8, SameRequest DEF Carried, Heard
  <2>3. CASE TakeLine
    BY <2>1, <2>3 DEF TakeLine, Line, pipes
  <2>4. CASE NoLineComes \/ WaitTimesOut
    BY <2>1, <2>4 DEF NoLineComes, WaitTimesOut, ForceStop, Error, pipes
  <2>5. CASE Reap
    BY <2>1, <2>5 DEF Reap
  <2>6. CASE ReadLine
    <3>1. stdout' = Tail(stdout) /\ UNCHANGED <<stdin, outbound, op, reply>>
      BY <2>6 DEF ReadLine, ReaderIs
    <3>2. Head(stdout) \in {Bad} \cup A /\ Tail(stdout) \in Seq({Bad} \cup A)
      BY <2>1, <2>6 DEF ReadLine
    <3>3. lines' = lines \/ (Head(stdout) # Bad /\ lines' = Append(lines, Head(stdout)))
      BY <2>6 DEF ReadLine
    <3>4. lines' \in Seq(A)
      <4>1. lines \in Seq(A)
        BY <2>1
      <4> QED
        BY <3>2, <3>3, <4>1, SeqOps
    <3> QED
      BY <2>1, <3>1, <3>2, <3>4
  <2>7. CASE WriteLine
    <3>1. UNCHANGED <<stdout, lines, op, reply>>
      BY <2>7 DEF WriteLine, ReaderIs
    <3>2. Head(outbound) \in Q /\ Tail(outbound) \in Seq(Q)
      BY <2>1, <2>7 DEF WriteLine
    <3>3. \/ UNCHANGED <<stdin, outbound>>
          \/ stdin' = Append(stdin, Head(outbound)) /\ outbound' = Tail(outbound)
      BY <2>7 DEF WriteLine
    <3>4. stdin' \in Seq(Q) /\ outbound' \in Seq(Q)
      <4>1. stdin \in Seq(Q) /\ outbound \in Seq(Q)
        BY <2>1
      <4> QED
        BY <3>2, <3>3, <4>1, SeqOps
    <3> QED
      BY <2>1, <3>1, <3>4
  <2>8. CASE SeeExit \/ ReaderLeaves
    BY <2>1, <2>8 DEF SeeExit, ReaderLeaves, ReaderIs, pipes
  <2>13. child.alive => child.load.revision \in Revisions
    BY DEF ProcessType
  <2>14. ASSUME NEW l \in {Bad} \cup A, stdout' = Append(stdout, l),
                stdin' = stdin \/ (stdin # <<>> /\ stdin' = Tail(stdin)),
                UNCHANGED <<lines, outbound, op, reply>>
         PROVE  /\ stdin' \in Seq(Q) /\ outbound' \in Seq(Q) /\ stdout' \in Seq({Bad} \cup A)
                /\ lines' \in Seq(A)
                /\ pc \in {"starting", "querying"} /\ reply'.ok =>
                     op' = "waiting" \/ reply'.line \in {Done.line} \cup A
    <3>1. stdin' \in Seq(Q)
      <4>1. stdin \in Seq(Q)
        BY <2>1
      <4> QED
        BY <2>14, <4>1, SeqOps
    <3>2. stdout' \in Seq({Bad} \cup A)
      BY <2>1, <2>14
    <3> QED
      BY <2>1, <2>14, <3>1, <3>2
  <2>15. \A r \in Revisions : ReadyFrames(r) \subseteq A
    <3>1. ASSUME NEW r \in Revisions, NEW l \in ReadyFrames(r) PROVE l \in A
      <4>1. l \in Frames
        BY <3>1 DEF Frames, FramesOf
      <4>2. l.op = "ready"
        BY <3>1 DEF ReadyFrames, Ready
      <4> QED
        BY <1>8, <4>1, <4>2 DEF Answered
    <3> QED
      BY <3>1
  <2>9. CASE SideProcessChatters
    <3>1. PICK l \in Unasked : ChildWrites(l)
      BY <2>9 DEF SideProcessChatters
    <3>2. child.alive /\ stdout' = Append(stdout, l) /\ UNCHANGED <<stdin, lines, outbound, op, reply>>
      BY <3>1 DEF ChildWrites, Writes
    <3>3. Malformed \in A
      BY <1>8 DEF Answered, Frames, Malformed
    <3>4. ReadyFrames(child.load.revision) \subseteq A
      BY <2>13, <2>15, <3>2
    <3>5. ASSUME NEW id \in 1..sequence, NEW a \in Asks, id = sequence /\ pc = "querying" => a = ask,
                 l \in Answers(id, a.text, child.load.revision)
          PROVE  l \in A
      <4>1. id \in 0..sequence /\ Querying \in BOOLEAN
        BY <1>0 DEF Querying
      <4>2. id = sequence /\ Querying => a.text = ask.text
        BY <3>5 DEF Querying
      <4> QED
        BY <1>0, <1>8, <2>13, <3>2, <3>5, <4>1, <4>2, AnswersCorrelate
    <3>6. l \in {Bad} \cup A
      <4>1. CASE \E p \in {q \in (1..sequence) \X Asks :
                            q[1] = sequence /\ pc = "querying" => q[2] = ask} :
                   l \in Answers(p[1], p[2].text, child.load.revision)
        BY <3>5, <4>1
      <4> QED
        BY <3>1, <3>3, <3>4, <4>1 DEF Unasked
    <3> QED
      BY <2>14, <3>2, <3>6
  <2>10. CASE SideProcessIsReady
    <3>1. PICK l \in ReadyFrames(child.load.revision) : ChildWrites(l)
      BY <2>10 DEF SideProcessIsReady
    <3>2. l \in A
      BY <2>10, <2>13, <2>15, <3>1 DEF SideProcessIsReady
    <3> QED
      BY <2>14, <3>1, <3>2 DEF ChildWrites, Writes
  <2>11. CASE SideProcessAnswers
    <3>1. PICK l \in Answers(Head(stdin).id, Head(stdin).text, child.load.revision) : ChildAnswers(l)
      BY <2>11 DEF SideProcessAnswers
    <3>2. Head(stdin) \in Q
      BY <2>1, <2>11 DEF SideProcessAnswers
    <3>3. PICK a \in Asks : Head(stdin).text = a.text
      BY <1>8, <3>2 DEF Asked, Requests, Texts
    <3>4. Head(stdin).id \in 0..sequence /\ (Head(stdin).id = sequence /\ Querying => a.text = ask.text)
      BY <1>8, <3>2, <3>3 DEF Asked, Names
    <3>5. l \in A
      <4>1. child.load.revision \in Revisions /\ Querying \in BOOLEAN
        BY <2>11, <2>13 DEF SideProcessAnswers, Querying
      <4> QED
        BY <1>0, <1>8, <3>1, <3>3, <3>4, <4>1, AnswersCorrelate
    <3> QED
      BY <2>14, <3>1, <3>5 DEF ChildAnswers, Writes
  <2>12. CASE ChildExits \/ UNCHANGED processVars
    BY <2>1, <2>12 DEF ChildExits, processVars, pipes
  <2> QED
    BY <1>8, <2>3, <2>4, <2>5, <2>6, <2>7, <2>8, <2>9, <2>10, <2>11, <2>12 DEF Caller, Reader
<1>9. CASE \/ (Caller \/ Reader) /\ Environs
           \/ SideProcessChatters \/ SideProcessIsReady \/ SideProcessAnswers
           \/ ChildExits /\ Environs
           \/ \E f \in Files : Rewrite(f) /\ UNCHANGED <<processVars, pc, providerVars>>
  <2>1. UNCHANGED <<pc, sequence, ask>>
    BY <1>9 DEF SideProcessChatters, SideProcessIsReady, SideProcessAnswers, Environs, providerVars
  <2> QED
    BY <1>8, <1>9, <2>1
<1> QED
  BY <1>1, <1>3, <1>4, <1>5, <1>6, <1>7, <1>9 DEF Next, Provider, Outside

(* -------------------------------- what is handed out ---------------------------- *)

LEMMA DoneLine == Done.line.op = "none"
BY DEF Done

(* The need of a citation lookup is found in the text alone. *)
LEMMA ExactNeedsCitation ==
  ASSUME NEW text, NEW carried, decide_retrieval(text, Policy, carried).need = "ExactReference"
  PROVE  has_citation_marker(text)
<1>1. Policy \in {"Auto", "Always", "Off"}
  BY ProviderParameters DEF Policies
<1>2. CASE Policy = "Off"
  BY <1>2 DEF decide_retrieval
<1>3. CASE Policy = "Always"
  BY <1>3 DEF decide_retrieval
<1>4. CASE Policy = "Auto" /\ regulatory_signal(text)
  BY <1>4 DEF decide_retrieval
<1>5. CASE Policy = "Auto" /\ ~regulatory_signal(text)
  BY <1>5 DEF decide_retrieval
<1> QED
  BY <1>1, <1>2, <1>3, <1>4, <1>5

(* A result that is decoded answers the request it was decoded for, and fits. *)
LEMMA DecodedFits ==
  ASSUME NEW last, NEW revision, NEW line,
         line.op = "query_result" /\ line.id = last => Len(line.items) \in Nat,
         decode_query_result(line, last, revision).ok
  PROVE  /\ decode_query_result(line, last, revision).pack = evidence(line)
         /\ line.op = "query_result" /\ line.id = last
         /\ \A i \in 1..Len(line.items) : line.items[i].revision = revision
         /\ BytesUpTo(line.items, Len(line.items)) <= MaxTotalBytes
<1>1. /\ line.op = "query_result" /\ line.id = last
      /\ items_are_acceptable(line.items, revision)
      /\ decode_query_result(line, last, revision).pack = evidence(line)
  BY DEF decode_query_result
<1>2. Len(line.items) \in Nat
  BY <1>1
<1>3. BytesUpTo(line.items, Len(line.items)) <= MaxTotalBytes
  BY <1>1, <1>2, BytesBounded
<1>4. \A i \in 1..Len(line.items) : line.items[i].revision = revision
  BY <1>1 DEF items_are_acceptable
<1> QED
  BY <1>1, <1>3, <1>4

LEMMA BelievedFits ==
  ASSUME Correlated, pc = "querying", op = "idle", Believed
  PROVE  Fits(Decoded.pack, ask.text, prov.revision)
<1>1. Querying /\ reply.line \in {Done.line} \cup Answered(sequence, Querying, ask)
  BY DEF Correlated, Heard, Believed, Querying
<1>2. Decoded.ok /\ (Decoded.pack.authoritative => has_citation_marker(ask.text))
  BY ExactNeedsCitation DEF Believed, CurrentNeed, Need
<1>3. reply.line.op = "query_result" /\ reply.line.id = sequence =>
        reply.line.text = ask.text /\ Len(reply.line.items) \in Nat
  BY <1>1, DoneLine, FrameFacts DEF Answered, Names
<1>4. /\ Decoded.pack = evidence(reply.line)
      /\ reply.line.op = "query_result" /\ reply.line.id = sequence
      /\ \A i \in 1..Len(reply.line.items) : reply.line.items[i].revision = prov.revision
      /\ BytesUpTo(reply.line.items, Len(reply.line.items)) <= MaxTotalBytes
  <2>1. decode_query_result(reply.line, sequence, prov.revision).ok
    BY <1>2 DEF Decoded
  <2> QED
    BY <1>3, <2>1, DecodedFits DEF Decoded
<1>5. /\ Decoded.pack.text = reply.line.text /\ Decoded.pack.items = reply.line.items
      /\ reply.line.text = ask.text
  BY <1>3, <1>4 DEF evidence
<1> QED
  BY <1>2, <1>4, <1>5 DEF Fits

(* What a ready frame makes of the provider. *)
LEMMA ReadyProvider ==
  ASSUME Correlated, pc = "starting", op = "idle", reply.ok, decode_ready(reply.line).ok
  PROVE  /\ decode_ready(reply.line).revision \in Revisions
         /\ decode_ready(reply.line).index \in BOOLEAN
         /\ decode_ready(reply.line).embedding \in BOOLEAN
<1>1. reply.line \in {Done.line} \cup Frames
  BY DEF Correlated, Heard, Answered
<1>2. reply.line.op = "ready"
  BY DEF decode_ready
<1>3. /\ reply.line.revision \in Revisions
      /\ reply.line.index \in BOOLEAN /\ reply.line.embedding \in BOOLEAN
  BY <1>1, <1>2, DoneLine, FrameFacts
<1> QED
  BY <1>2, <1>3 DEF decode_ready, decode_v2_ready, decode_v3_ready

LEMMA RememberStep ==
  ASSUME ProcessType, Correlated, Remembered, [Next]_ragVars
  PROVE  Remembered'
<1> USE DEF Remembered
<1>1. CASE UNCHANGED ragVars
  BY <1>1 DEF ragVars, providerVars
<1>2. ASSUME NEW a \in Asks, ReturnAtOnce(a) \/ FindReady(a) \/ FindNotReady(a)
      PROVE  Remembered'
  BY <1>2 DEF ReturnAtOnce, FindReady, FindNotReady, Wanted, Returns
<1>3. CASE Close \/ Broken
  BY <1>3 DEF Close, Broken, providerVars
<1>4. CASE Verify \/ VerifyFile \/ VerifyRefuses \/ VerifySeals \/ Launch
  BY <1>4 DEF Verify, VerifyFile, VerifyRefuses, VerifySeals, Launch, Returns, providerVars
<1>5. CASE StartReturnsError \/ NotCapable \/ Lookup
  BY <1>5 DEF StartReturnsError, NotCapable, Lookup, Returns
<1>6. CASE StartReturnsReady
  BY <1>6, ReadyProvider DEF StartReturnsReady
<1>7. CASE Query
  BY <1>7 DEF Query
<1>8. CASE QueryReturns
  <2>1. Fits(Decoded.pack, ask.text, prov.revision)
    BY <1>8, BelievedFits DEF QueryReturns
  <2>2. cache'.full => cache'.pack = Decoded.pack /\ cache'.key.text = ask.text
                       /\ cache'.key.revision = prov.revision
    BY <1>8 DEF QueryReturns, Store, NoSlot, CacheKey
  <2>3. cache'.full => Fits(cache'.pack, cache'.key.text, cache'.key.revision)
    BY <2>1, <2>2
  <2>4. prov' = [prov EXCEPT !.state = "Ready"] /\ context' = context /\ pc' = "idle"
    BY <1>8 DEF QueryReturns, Returns
  <2> QED
    BY <2>3, <2>4
<1>9. CASE Break
  BY <1>9 DEF Break, Stopped, NoRevision, Failure
<1>10. CASE Closed
  BY <1>10 DEF Closed
<1>11. CASE (Caller \/ Reader) /\ Environs
  BY <1>11 DEF Environs, providerVars
<1>12. CASE Outside
  BY <1>12 DEF Outside, SideProcessChatters, SideProcessIsReady, SideProcessAnswers, Environs,
               providerVars
<1> QED
  BY <1>1, <1>2, <1>3, <1>4, <1>5, <1>6, <1>7, <1>8, <1>9, <1>10, <1>11, <1>12 DEF Next, Provider

(* What is shown is a pack that was just decoded, or the one in the slot. *)
LEMMA EvidenceStep ==
  ASSUME ProcessType, Correlated, Remembered, EvidenceIsCurrent, [Next]_ragVars
  PROVE  EvidenceIsCurrent'
<1>1. SUFFICES ASSUME pc' = "idle", result'.kind = "evidence"
               PROVE  Fits(result'.pack, ask'.text, prov'.revision)
  BY DEF EvidenceIsCurrent, Fits
<1>2. CASE UNCHANGED <<pc, result, ask, prov>>
  BY <1>1, <1>2 DEF EvidenceIsCurrent, Fits
<1>3. CASE Lookup
  <2>1. result'.pack = cache.pack /\ Hit /\ UNCHANGED <<ask, prov>>
    BY <1>3 DEF Lookup, Returns, Evidence
  <2> QED
    BY <2>1 DEF Hit, CacheKey, Remembered
<1>4. CASE QueryReturns
  <2>1. result'.pack = Decoded.pack /\ ask' = ask /\ prov'.revision = prov.revision
    BY <1>4 DEF QueryReturns, Returns, Evidence, Remembered
  <2> QED
    BY <1>4, <2>1, BelievedFits DEF QueryReturns
<1>5. CASE Broken
  BY <1>1, <1>5 DEF Broken, providerVars, Remembered
<1>6. ASSUME NEW a \in Asks, ReturnAtOnce(a) \/ FindReady(a) \/ FindNotReady(a) PROVE FALSE
  BY <1>1, <1>6 DEF ReturnAtOnce, FindReady, FindNotReady, Returns, Failure, Empty
<1>7. ASSUME VerifyRefuses \/ StartReturnsError \/ NotCapable PROVE FALSE
  BY <1>1, <1>7 DEF VerifyRefuses, StartReturnsError, NotCapable, Returns, Failure
<1>8. ASSUME Close \/ Verify \/ VerifyFile \/ VerifySeals \/ Launch \/ StartReturnsReady \/ Query
             \/ Break \/ Closed
      PROVE  FALSE
  BY <1>1, <1>8 DEF Close, Verify, VerifyFile, VerifySeals, Launch, StartReturnsReady, Query, Break,
                    Closed
<1>9. CASE (Caller \/ Reader) /\ Environs
  BY <1>2, <1>9 DEF Environs, providerVars
<1>10. CASE Outside
  BY <1>2, <1>10 DEF Outside, SideProcessChatters, SideProcessIsReady, SideProcessAnswers, Environs,
                     providerVars
<1>11. CASE UNCHANGED ragVars
  BY <1>2, <1>11 DEF ragVars, providerVars
<1> QED
  BY <1>3, <1>4, <1>5, <1>6, <1>7, <1>8, <1>9, <1>10, <1>11 DEF Next, Provider

(* ---------------------------------- the theorems -------------------------------- *)

LEMMA RagInit == Init => RagInv
<1> SUFFICES ASSUME Init PROVE RagInv
  OBVIOUS
<1>1. ProcessType /\ Owned /\ Leased
  BY InitInv
<1>2. Counted
  BY ProviderParameters DEF Init, Counted, ServerId
<1>3. Carried /\ Heard
  <2>1. \A S : <<>> \in Seq(S)
    OBVIOUS
  <2> QED
    BY <2>1 DEF Init, ProcessInit, Carried, Heard
<1>4. Remembered /\ EvidenceIsCurrent
  BY DEF Init, Stopped, NoSlot, NoRevision, Empty, Remembered, EvidenceIsCurrent
<1> QED
  BY <1>1, <1>2, <1>3, <1>4 DEF RagInv, Correlated

LEMMA RagStep == RagInv /\ [Next]_ragVars => RagInv'
<1> SUFFICES ASSUME RagInv, [Next]_ragVars PROVE RagInv'
  OBVIOUS
<1>1. ProcessType' /\ Owned'
  BY ProcessStep DEF RagInv
<1>2. Leased'
  BY LeaseStep DEF RagInv
<1>3. Correlated'
  BY CountStep, ChannelStep DEF RagInv, Correlated
<1>4. Remembered' /\ EvidenceIsCurrent'
  BY RememberStep, EvidenceStep DEF RagInv
<1> QED
  BY <1>1, <1>2, <1>3, <1>4 DEF RagInv

(* What ties the calling thread, the child, the lease, the lines under way and the *)
(* evidence together holds in every state (retrieve, ensure_ready, break_process   *)
(* and the destructor of persistent_rag_knowledge_provider.cpp).                   *)
THEOREM RagInductive == Spec => []RagInv
<1> QED
  BY RagInit, RagStep, PTL DEF Spec

(* No failing path of start, exchange, ensure_ready or retrieve leaves a side      *)
(* process behind, and a closed provider has none.                                 *)
THEOREM ProcessSafety == Spec => []NoStrayProcess
<1>1. RagInv => NoStrayProcess
  BY DEF RagInv, Owned, NoStrayProcess
<1> QED
  BY <1>1, RagInductive, PTL

(* Whoever rewrites the pack, and whenever: a side process runs from verified      *)
(* files where the platform has locks.                                             *)
THEOREM PackSafety == Spec => []ServesVerifiedPack
<1>1. RagInv => ServesVerifiedPack
  BY DEF RagInv, Leased, ServesVerifiedPack, Files
<1> QED
  BY <1>1, RagInductive, PTL

(* However late, often or unasked the side process writes, what retrieve returns   *)
(* answers the question it was asked, from the revision it works with, within the  *)
(* byte limit; for any number of questions and any content of the frames.          *)
THEOREM EvidenceSafety == Spec => []EvidenceIsCurrent
<1>1. RagInv => EvidenceIsCurrent
  BY DEF RagInv
<1> QED
  BY <1>1, RagInductive, PTL
================================================================================

--------------------------- MODULE SessionTurnsProofs ---------------------------
(* For every number of processes, turns and faults: the session's states stay      *)
(* well formed, and every process holds a state of the session's one history.      *)
EXTENDS SessionTurns, FiniteSetTheorems, TLAPS

Event ==
  [kind : {"TurnStarted"}, seq : Nat, turn : Turn]
    \cup [kind : {"TurnCommitted"}, seq : Nat, turn : Turn \cup {NoTurn},
          sound : BOOLEAN]
    \cup [kind : {"TurnFailed"}, seq : Nat, turn : Turn \cup {NoTurn}]
    \cup [kind : {"SessionCompacted"}, seq : Nat, through : Nat]

LEMMA TaskIsNumber == Tasks \subseteq Nat \ {0}
  BY TasksAreNumbers

LEMMA NoTurnIsNone == NoTurn \notin Turn
  BY TasksAreNumbers DEF NoTurn, Turn

(* What a coverage leaves of the committed turns is a list of turns. *)
LEMMA AfterCoverageType ==
  ASSUME NEW turns \in Seq(Turn), NEW through \in Nat,
         \E i \in 1..Len(turns) : turns[i].index = through
  PROVE  AfterCoverage(turns, through) \in Seq(Turn)
  <1> DEFINE first == CHOOSE i \in 1..Len(turns) : turns[i].index = through
  <1>1. first \in 1..Len(turns)
    OBVIOUS
  <1>2. SubSeq(turns, first + 1, Len(turns)) \in Seq(Turn)
    <2> HIDE DEF first
    <2> QED
      BY <1>1
  <1> QED
    BY <1>2 DEF AfterCoverage

(* An event that is accepted makes one step in the sequence of a session state. *)
LEMMA ReducedType ==
  ASSUME NEW s \in SessionState, NEW e \in Event, Reducible(s, e)
  PROVE  Reduced(s, e) \in SessionState /\ Reduced(s, e).seq = s.seq + 1
  <1>1. e.seq = s.seq + 1 /\ s.seq \in Nat /\ e.seq \in Nat
    BY DEF Reducible, SessionState
  <1>2. CASE e.kind = "TurnStarted"
    <2>1. e.turn \in Turn
      BY <1>2 DEF Event
    <2>2. Reduced(s, e) = [s EXCEPT !.seq = e.seq, !.pending = e.turn]
      BY <1>2 DEF Reduced
    <2> QED
      BY <1>1, <2>1, <2>2 DEF SessionState
  <1>3. CASE e.kind = "TurnCommitted"
    <2>1. e.turn \in Turn
      BY <1>3 DEF Reducible, SessionState
    <2>2. Reduced(s, e) =
            [s EXCEPT !.seq = e.seq, !.pending = NoTurn,
                      !.completed = e.turn.index, !.turns = Append(@, e.turn)]
      BY <1>3 DEF Reduced
    <2>3. e.turn.index \in Nat /\ Append(s.turns, e.turn) \in Seq(Turn)
      BY <2>1 DEF Turn, SessionState
    <2> QED
      BY <1>1, <2>2, <2>3 DEF SessionState
  <1>4. CASE e.kind = "TurnFailed"
    <2>1. e.turn \in Turn
      BY <1>4 DEF Reducible, SessionState
    <2>2. Reduced(s, e) =
            [s EXCEPT !.seq = e.seq, !.pending = NoTurn,
                      !.completed = e.turn.index]
      BY <1>4 DEF Reduced
    <2>3. e.turn.index \in Nat
      BY <2>1 DEF Turn
    <2> QED
      BY <1>1, <2>2, <2>3 DEF SessionState
  <1>5. CASE e.kind = "SessionCompacted"
    <2>1. e.through \in Nat
      BY <1>5 DEF Event
    <2>2. Covers(s, e.through) /\ s.turns \in Seq(Turn)
      BY <1>5 DEF Reducible, SessionState
    <2>3. AfterCoverage(s.turns, e.through) \in Seq(Turn)
      BY <2>1, <2>2, AfterCoverageType DEF Covers
    <2>4. Reduced(s, e) =
            [s EXCEPT !.seq = e.seq, !.through = e.through,
                      !.turns = AfterCoverage(@, e.through)]
      BY <1>5 DEF Reduced
    <2> QED
      BY <1>1, <2>1, <2>3, <2>4 DEF SessionState
  <1> QED
    BY <1>2, <1>3, <1>4, <1>5 DEF Event

(* The events the engine builds. *)
LEMMA StartedIsEvent ==
  ASSUME NEW s \in SessionState, NEW t \in Tasks
  PROVE  TurnStarted(s, t) \in Event
  <1>1. [index |-> s.completed + 1, task |-> t] \in Turn
    BY DEF SessionState, Turn
  <1> QED
    BY <1>1 DEF TurnStarted, Event, SessionState

LEMMA CommittedIsEvent ==
  ASSUME NEW s \in SessionState, NEW sound \in BOOLEAN
  PROVE  TurnCommitted(s, sound) \in Event
  BY DEF TurnCommitted, Event, SessionState

LEMMA FailedIsEvent ==
  ASSUME NEW s \in SessionState
  PROVE  TurnFailed(s) \in Event
  BY DEF TurnFailed, Event, SessionState

LEMMA CompactedIsEvent ==
  ASSUME NEW s \in SessionState, Len(s.turns) > RetainTurns
  PROVE  SessionCompacted(s, Coverage(s)) \in Event
  <1>1. RetainTurns \in Nat \ {0} /\ s.turns \in Seq(Turn)
    BY SessionParameters DEF SessionState
  <1>2. Len(s.turns) - RetainTurns \in 1..Len(s.turns)
    BY <1>1
  <1>3. s.turns[Len(s.turns) - RetainTurns] \in Turn
    BY <1>1, <1>2
  <1>4. Coverage(s) \in Nat
    BY <1>3 DEF Coverage, Turn
  <1> QED
    BY <1>4 DEF SessionCompacted, Event, SessionState

(* What a process holds at each point. *)
Held ==
  \A p \in Procs :
    /\ pc[p] \in {"inspect", "run", "finish"} => view[p].pending \in Turn
    /\ pc[p] = "compact" => Len(view[p].turns) > RetainTurns
    /\ pc[p] # "finish" => known[p] < MaxEvents

(* A task that has not ended has room for the event that ends it. *)
Open == \A t \in Tasks : log[t].ending = "none" => log[t].events < MaxEvents

SInv == TypeOK /\ Held /\ Open /\ ViewsAreHistory

Records == Seq([task : Tasks, how : {"committed", "failed"}])

LEMMA SettledType ==
  ASSUME record \in Records, NEW e \in Event,
         NEW s \in SessionState, Reducible(s, e)
  PROVE  Settled(e) \in Records
  <1>1. e.kind \in {"TurnCommitted", "TurnFailed"} => e.turn.task \in Tasks
    BY DEF Reducible, SessionState, Turn
  <1>2. CASE e.kind = "TurnCommitted"
    BY <1>1, <1>2 DEF Settled, Records
  <1>3. CASE e.kind = "TurnFailed"
    BY <1>1, <1>3 DEF Settled, Records
  <1>4. CASE e.kind \notin {"TurnCommitted", "TurnFailed"}
    BY <1>4 DEF Settled, Records
  <1> QED
    BY <1>2, <1>3, <1>4

(* An append that succeeds starts from the very state the log has. *)
LEMMA AppendOkFacts ==
  ASSUME SInv, NEW p \in Procs, pc[p] # "idle", NEW e \in Event, AppendOk(p, e)
  PROVE  /\ view[p] = session
         /\ session' \in SessionState /\ session'.seq = session.seq + 1
         /\ Reduced(view[p], e) = session'
         /\ record' \in Records
         /\ faults' \in 0..MaxFaults /\ torn' \in BOOLEAN
  <1>1. session \in SessionState /\ view[p] \in SessionState
    BY DEF SInv, TypeOK
  <1>2. Reducible(view[p], e) /\ Reducible(session, e)
    BY DEF AppendOk, StoreAccepts
  <1>3. view[p].seq = session.seq
    BY <1>1, <1>2 DEF Reducible, SessionState
  <1>4. view[p] = session
    BY <1>3 DEF SInv, ViewsAreHistory
  <1>5. session' = Reduced(session, e)
    BY DEF AppendOk
  <1>6. session' \in SessionState /\ session'.seq = session.seq + 1
    BY <1>1, <1>2, <1>5, ReducedType
  <1>7. record' \in Records
    BY <1>1, <1>2, SettledType DEF AppendOk, SInv, TypeOK, Records
  <1>8. faults' \in 0..MaxFaults /\ torn' \in BOOLEAN
    BY DEF AppendOk, SInv, TypeOK
  <1> QED
    BY <1>4, <1>5, <1>6, <1>7, <1>8

(* One that is refused leaves the log alone or, unknown to the process, ahead. *)
LEMMA AppendRefusedFacts ==
  ASSUME SInv, NEW p \in Procs, NEW e \in Event, AppendRefused(p, e)
  PROVE  /\ session' \in SessionState
         /\ session' = session \/ session'.seq = session.seq + 1
         /\ record' \in Records
         /\ faults' \in 0..MaxFaults /\ torn' \in BOOLEAN
  <1>1. session \in SessionState /\ record \in Records
        /\ faults \in 0..MaxFaults /\ MaxFaults \in Nat /\ torn \in BOOLEAN
    BY SessionParameters DEF SInv, TypeOK, Records
  <1>2. faults' \in 0..MaxFaults /\ torn' \in BOOLEAN
    <2>1. faults' \in 0..MaxFaults
      BY <1>1 DEF AppendRefused
    <2>2. torn' \in {torn, TRUE}
      BY Zenon DEF AppendRefused
    <2> QED
      BY <1>1, <2>1, <2>2
  <1>3. CASE session' = session /\ record' = record
    BY <1>1, <1>2, <1>3
  <1>4. CASE /\ Reducible(session, e)
             /\ session' = Reduced(session, e) /\ record' = Settled(e)
    <2>1. session' \in SessionState /\ session'.seq = session.seq + 1
      BY <1>1, <1>4, ReducedType
    <2>2. record' \in Records
      BY <1>1, <1>4, SettledType
    <2> QED
      BY <1>2, <2>1, <2>2
  <1> QED
    BY <1>3, <1>4 DEF AppendRefused, StoreAccepts

(* One process moves to a point and a state that is the log's or behind it. *)
LEMMA ViewsKeep ==
  ASSUME SInv, NEW p \in Procs, NEW x, NEW v \in SessionState,
         pc' = [pc EXCEPT ![p] = x], view' = [view EXCEPT ![p] = v],
         session' \in SessionState,
         session' = session \/ session'.seq = session.seq + 1,
         x # "idle" => /\ v.seq <= session'.seq
                       /\ v.seq = session'.seq => v = session'
  PROVE  ViewsAreHistory'
  <1>1. pc \in [Procs -> Points] /\ view \in [Procs -> SessionState]
        /\ session \in SessionState
    BY DEF SInv, TypeOK
  <1> SUFFICES ASSUME NEW q \in Procs, pc'[q] # "idle"
               PROVE  /\ view'[q].seq <= session'.seq
                      /\ view'[q].seq = session'.seq => view'[q] = session'
    BY DEF ViewsAreHistory
  <1>2. CASE q = p
    BY <1>1, <1>2
  <1>3. CASE q # p
    <2>1. view'[q] = view[q] /\ pc'[q] = pc[q]
      BY <1>1, <1>3
    <2>2. view[q].seq <= session.seq /\ (view[q].seq = session.seq => view[q] = session)
      BY <2>1 DEF SInv, ViewsAreHistory
    <2>3. view[q].seq \in Nat /\ session.seq \in Nat
      BY <1>1 DEF SessionState
    <2>4. CASE session' = session
      BY <2>1, <2>2, <2>4
    <2>5. CASE session'.seq = session.seq + 1
      BY <2>1, <2>2, <2>3, <2>5
    <2> QED
      BY <2>4, <2>5
  <1> QED
    BY <1>2, <1>3

LEMMA CreatedType == Created \in SessionState
  <1>1. <<>> \in Seq(Turn)
    OBVIOUS
  <1> QED
    BY <1>1 DEF Created, SessionState

(* Returning drops what the process holds; nothing else it needs is left. *)
LEMMA ReturnKeeps ==
  ASSUME SInv, NEW p \in Procs, Return(p),
         session' \in SessionState,
         session' = session \/ session'.seq = session.seq + 1
  PROVE  /\ pc' \in [Procs -> Points]
         /\ view' \in [Procs -> SessionState]
         /\ known' \in [Procs -> 0..MaxEvents]
         /\ ended' \in [Procs -> Endings \cup {"none"}]
         /\ Held'
         /\ ViewsAreHistory'
  <1>1. pc \in [Procs -> Points] /\ view \in [Procs -> SessionState]
        /\ known \in [Procs -> 0..MaxEvents]
        /\ ended \in [Procs -> Endings \cup {"none"}]
    BY DEF SInv, TypeOK
  <1>2. 0 \in 0..MaxEvents /\ 0 < MaxEvents
    BY SessionParameters
  <1>3. /\ pc' = [pc EXCEPT ![p] = "idle"]
        /\ view' = [view EXCEPT ![p] = Created]
        /\ known' = [known EXCEPT ![p] = 0]
        /\ ended' = [ended EXCEPT ![p] = "none"]
    BY DEF Return
  <1>4. pc' \in [Procs -> Points]
    BY <1>1, <1>3 DEF Points
  <1>5. view' \in [Procs -> SessionState]
    BY <1>1, <1>3, CreatedType
  <1>6. known' \in [Procs -> 0..MaxEvents]
    BY <1>1, <1>2, <1>3
  <1>7. ended' \in [Procs -> Endings \cup {"none"}]
    BY <1>1, <1>3
  <1>8. Held'
    <2> SUFFICES ASSUME NEW q \in Procs
                 PROVE  /\ pc'[q] \in {"inspect", "run", "finish"} =>
                              view'[q].pending \in Turn
                        /\ pc'[q] = "compact" => Len(view'[q].turns) > RetainTurns
                        /\ pc'[q] # "finish" => known'[q] < MaxEvents
      BY DEF Held
    <2>1. CASE q = p
      BY <1>1, <1>2, <1>3, <2>1
    <2>2. CASE q # p
      BY <1>1, <1>3, <2>2 DEF SInv, Held
    <2> QED
      BY <2>1, <2>2
  <1>9. ViewsAreHistory'
    BY <1>3, CreatedType, ViewsKeep
  <1> QED
    BY <1>4, <1>5, <1>6, <1>7, <1>8, <1>9

LEMMA InitHolds == Init => SInv
  <1> SUFFICES ASSUME Init PROVE SInv
    OBVIOUS
  <1> USE SessionParameters
  <1>1. session \in SessionState /\ view \in [Procs -> SessionState]
    BY CreatedType DEF Init
  <1>2. <<>> \in Seq(Turn)
    OBVIOUS
  <1>3. NoLog \in TaskLog
    BY <1>2 DEF NoLog, TaskLog, TaskFiles
  <1>4. log \in [Tasks -> TaskLog]
    BY <1>3 DEF Init
  <1>5. pc \in [Procs -> Points] /\ known \in [Procs -> 0..MaxEvents]
        /\ ended \in [Procs -> Endings \cup {"none"}]
    BY DEF Init, Points
  <1>6. issued \in 0..MaxTurns /\ crashes \in 0..MaxCrashes
        /\ faults \in 0..MaxFaults
    BY DEF Init
  <1>6a. torn \in BOOLEAN
    <2>1. torn = FALSE
      BY Zenon DEF Init
    <2> QED
      BY <2>1
  <1>7. record \in Records
    BY DEF Init, Records
  <1>8. TypeOK
    BY <1>1, <1>4, <1>5, <1>6, <1>6a, <1>7 DEF TypeOK, Records
  <1>9. Held /\ ViewsAreHistory
    BY DEF Init, Held, ViewsAreHistory
  <1>10. Open
    BY DEF Init, Open, NoLog
  <1> QED
    BY <1>8, <1>9, <1>10 DEF SInv

(* Reading the session's state, to submit or to recover. *)
LEMMA LoadKeeps ==
  ASSUME SInv, NEW p \in Procs, NEW x \in {"start", "compact", "inspect"},
         pc[p] = "idle", Load(p, x),
         UNCHANGED <<session, torn, log, issued, crashes, faults, record>>,
         x = "compact" => Len(session.turns) > RetainTurns,
         x = "inspect" => session.pending # NoTurn
  PROVE  SInv'
  <1>1. pc \in [Procs -> Points] /\ view \in [Procs -> SessionState]
        /\ session \in SessionState
    BY DEF SInv, TypeOK
  <1>2. /\ pc' = [pc EXCEPT ![p] = x]
        /\ view' = [view EXCEPT ![p] = session]
        /\ known' = known /\ ended' = ended
    BY DEF Load
  <1>3. pc' \in [Procs -> Points] /\ view' \in [Procs -> SessionState]
    BY <1>1, <1>2 DEF Points
  <1>4. TypeOK'
    BY <1>2, <1>3 DEF SInv, TypeOK
  <1>5. session.pending # NoTurn => session.pending \in Turn
    BY <1>1 DEF SessionState
  <1>6. Held'
    <2> SUFFICES ASSUME NEW q \in Procs
                 PROVE  /\ pc'[q] \in {"inspect", "run", "finish"} =>
                              view'[q].pending \in Turn
                        /\ pc'[q] = "compact" => Len(view'[q].turns) > RetainTurns
                        /\ pc'[q] # "finish" => known'[q] < MaxEvents
      BY DEF Held
    <2>1. CASE q = p
      BY <1>1, <1>2, <1>5, <2>1 DEF SInv, Held
    <2>2. CASE q # p
      BY <1>1, <1>2, <2>2 DEF SInv, Held
    <2> QED
      BY <2>1, <2>2
  <1>7. Open'
    BY DEF SInv, Open
  <1>8. ViewsAreHistory'
    <2>1. session' \in SessionState /\ session' = session /\ session.seq \in Nat
      BY <1>1 DEF SessionState
    <2>2. /\ session.seq <= session'.seq
          /\ session.seq = session'.seq => session = session'
      BY <2>1
    <2>3. pc' = [pc EXCEPT ![p] = x] /\ view' = [view EXCEPT ![p] = session]
      BY <1>2
    <2> QED
      BY <1>1, <2>1, <2>2, <2>3, ViewsKeep
  <1> QED
    BY <1>4, <1>6, <1>7, <1>8 DEF SInv

(* The actions that change only the log of the session and return. *)
LEMMA SettleKeeps ==
  ASSUME SInv, NEW p \in Procs, NEW e \in Event, pc[p] # "idle",
         AppendOk(p, e) \/ AppendRefused(p, e), Return(p),
         UNCHANGED <<log, crashes>>, issued' \in 0..MaxTurns
  PROVE  SInv'
  <1>1. /\ session' \in SessionState
        /\ session' = session \/ session'.seq = session.seq + 1
        /\ record' \in Records
        /\ faults' \in 0..MaxFaults /\ torn' \in BOOLEAN
    BY AppendOkFacts, AppendRefusedFacts
  <1>2. /\ pc' \in [Procs -> Points] /\ view' \in [Procs -> SessionState]
        /\ known' \in [Procs -> 0..MaxEvents]
        /\ ended' \in [Procs -> Endings \cup {"none"}]
        /\ Held' /\ ViewsAreHistory'
    BY <1>1, ReturnKeeps
  <1>3. TypeOK'
    BY <1>1, <1>2 DEF SInv, TypeOK, Records
  <1>4. Open'
    BY DEF SInv, Open
  <1> QED
    BY <1>2, <1>3, <1>4 DEF SInv

LEMMA CompactKeeps ==
  ASSUME SInv, NEW p \in Procs, Compact(p)
  PROVE  SInv'
  <1> DEFINE e == SessionCompacted(view[p], Coverage(view[p]))
  <1>1. pc \in [Procs -> Points] /\ view \in [Procs -> SessionState]
        /\ pc[p] = "compact" /\ pc' = [pc EXCEPT ![p] = "start"]
        /\ view[p] \in SessionState
        /\ UNCHANGED <<log, known, ended, issued, crashes>>
    BY DEF SInv, TypeOK, Compact
  <1>2. e \in Event
    BY <1>1, CompactedIsEvent DEF SInv, Held
  <1>3. \/ AppendOk(p, e) /\ view' = [view EXCEPT ![p] = Reduced(view[p], e)]
        \/ AppendRefused(p, e) /\ view' = [view EXCEPT ![p] = view[p]]
    BY <1>1 DEF Compact
  <1> HIDE DEF e
  <1>4. PICK v \in SessionState :
          /\ view' = [view EXCEPT ![p] = v]
          /\ v = session' \/ (v = view[p] /\ AppendRefused(p, e))
    BY <1>1, <1>2, <1>3, AppendOkFacts
  <1>5. /\ session' \in SessionState
        /\ session' = session \/ session'.seq = session.seq + 1
        /\ record' \in Records
        /\ faults' \in 0..MaxFaults /\ torn' \in BOOLEAN
    BY <1>1, <1>2, <1>3, AppendOkFacts, AppendRefusedFacts
  <1>6. v.seq <= session'.seq /\ (v.seq = session'.seq => v = session')
    <2>1. session'.seq \in Nat /\ session.seq \in Nat /\ view[p].seq \in Nat
      BY <1>1, <1>5 DEF SInv, TypeOK, SessionState
    <2>2. view[p].seq <= session.seq /\ (view[p].seq = session.seq => view[p] = session)
      BY <1>1 DEF SInv, ViewsAreHistory
    <2>3. CASE v = session'
      BY <2>1, <2>3
    <2>4. CASE v = view[p]
      BY <1>5, <2>1, <2>2, <2>4
    <2> QED
      BY <1>4, <2>3, <2>4
  <1>7. ViewsAreHistory'
    BY <1>1, <1>4, <1>5, <1>6, ViewsKeep
  <1>8. pc' \in [Procs -> Points] /\ view' \in [Procs -> SessionState]
    BY <1>1, <1>4 DEF Points
  <1>9. TypeOK'
    BY <1>1, <1>5, <1>8 DEF SInv, TypeOK, Records
  <1>10. Held'
    <2> SUFFICES ASSUME NEW q \in Procs
                 PROVE  /\ pc'[q] \in {"inspect", "run", "finish"} =>
                              view'[q].pending \in Turn
                        /\ pc'[q] = "compact" => Len(view'[q].turns) > RetainTurns
                        /\ pc'[q] # "finish" => known'[q] < MaxEvents
      BY DEF Held
    <2>1. CASE q = p
      BY <1>1, <2>1 DEF SInv, Held
    <2>2. CASE q # p
      BY <1>1, <1>4, <2>2 DEF SInv, Held
    <2> QED
      BY <2>1, <2>2
  <1>11. Open'
    BY <1>1 DEF SInv, Open
  <1> QED
    BY <1>7, <1>9, <1>10, <1>11 DEF SInv
(* Starting a turn: the view is the log's new state, with the turn pending. *)
LEMMA StartKeeps ==
  ASSUME SInv, NEW p \in Procs, Start(p)
  PROVE  SInv'
  <1> DEFINE e == TurnStarted(view[p], issued + 1)
  <1>1. pc \in [Procs -> Points] /\ view \in [Procs -> SessionState]
        /\ pc[p] = "start" /\ view[p] \in SessionState
        /\ UNCHANGED <<log, crashes>>
    BY DEF SInv, TypeOK, Start
  <1>2. issued + 1 \in Tasks /\ issued' = issued + 1 /\ issued' \in 0..MaxTurns
    BY SessionParameters DEF SInv, TypeOK, Start
  <1>3. e \in Event
    BY <1>1, <1>2, StartedIsEvent
  <1>4. \/ /\ AppendOk(p, e)
           /\ view' = [view EXCEPT ![p] = Reduced(view[p], e)]
           /\ pc' = [pc EXCEPT ![p] = "run"]
           /\ UNCHANGED <<known, ended>>
        \/ AppendRefused(p, e) /\ Return(p)
    BY DEF Start
  <1>5. Reduced(view[p], e).pending = e.turn /\ e.turn \in Turn
    <2>1. Reduced(view[p], e) =
            [view[p] EXCEPT !.seq = e.seq, !.pending = e.turn]
      BY DEF Reduced, TurnStarted
    <2>2. view[p].completed + 1 \in Nat /\ e.turn =
            [index |-> view[p].completed + 1, task |-> issued + 1]
      BY <1>1 DEF TurnStarted, SessionState
    <2>3. e.turn \in Turn
      BY <1>2, <2>2 DEF Turn
    <2>4. Reduced(view[p], e).pending = e.turn
      <3> HIDE DEF e
      <3> QED
        BY <1>1, <2>1 DEF SessionState
    <2> QED
      BY <2>3, <2>4
  <1> HIDE DEF e
  <1>6. CASE AppendRefused(p, e) /\ Return(p)
    BY <1>1, <1>2, <1>3, <1>6, SettleKeeps
  <1>7. CASE /\ AppendOk(p, e)
             /\ view' = [view EXCEPT ![p] = Reduced(view[p], e)]
             /\ pc' = [pc EXCEPT ![p] = "run"]
             /\ UNCHANGED <<known, ended>>
    <2>1. /\ session' \in SessionState /\ session'.seq = session.seq + 1
          /\ Reduced(view[p], e) = session'
          /\ record' \in Records /\ faults' \in 0..MaxFaults
          /\ torn' \in BOOLEAN
      BY <1>1, <1>3, <1>7, AppendOkFacts
    <2>2. view' = [view EXCEPT ![p] = session']
          /\ pc' = [pc EXCEPT ![p] = "run"]
          /\ known' = known /\ ended' = ended
      BY <1>7, <2>1
    <2>3. session'.seq <= session'.seq
      BY <2>1 DEF SessionState
    <2>4. ViewsAreHistory'
      BY <2>1, <2>2, <2>3, ViewsKeep
    <2>5. pc' \in [Procs -> Points] /\ view' \in [Procs -> SessionState]
      BY <1>1, <2>1, <2>2 DEF Points
    <2>6. TypeOK'
      BY <1>1, <1>2, <2>1, <2>2, <2>5 DEF SInv, TypeOK, Records
    <2>7. Held'
      <3> SUFFICES ASSUME NEW q \in Procs
                   PROVE  /\ pc'[q] \in {"inspect", "run", "finish"} =>
                                view'[q].pending \in Turn
                          /\ pc'[q] = "compact" => Len(view'[q].turns) > RetainTurns
                          /\ pc'[q] # "finish" => known'[q] < MaxEvents
        BY DEF Held
      <3>1. CASE q = p
        BY <1>1, <1>5, <2>1, <2>2, <3>1 DEF SInv, Held
      <3>2. CASE q # p
        BY <1>1, <2>2, <3>2 DEF SInv, Held
      <3> QED
        BY <3>1, <3>2
    <2>8. Open'
      BY <1>1 DEF SInv, Open
    <2> QED
      BY <2>4, <2>6, <2>7, <2>8 DEF SInv
  <1> QED
    BY <1>4, <1>6, <1>7

(* An operation that returns without an append of its own. *)
LEMMA LeaveKeeps ==
  ASSUME SInv, NEW p \in Procs, Return(p),
         UNCHANGED <<session, torn, issued, record>>, log' \in [Tasks -> TaskLog], Open',
         crashes' \in 0..MaxCrashes, faults' \in 0..MaxFaults
  PROVE  SInv'
  <1>1. session' \in SessionState /\ session' = session
    BY DEF SInv, TypeOK
  <1>2. /\ pc' \in [Procs -> Points] /\ view' \in [Procs -> SessionState]
        /\ known' \in [Procs -> 0..MaxEvents]
        /\ ended' \in [Procs -> Endings \cup {"none"}]
        /\ Held' /\ ViewsAreHistory'
    BY <1>1, ReturnKeeps
  <1>3. TypeOK'
    BY <1>1, <1>2 DEF SInv, TypeOK
  <1> QED
    BY <1>2, <1>3 DEF SInv

(* A process that goes on with the same view keeps it a state of the history. *)
LEMMA GoOnKeeps ==
  ASSUME SInv, NEW p \in Procs, NEW x \in {"run", "finish"},
         pc[p] \in {"inspect", "run"},
         pc' = [pc EXCEPT ![p] = x],
         UNCHANGED <<session, torn, view, issued, crashes, faults, record>>,
         log' \in [Tasks -> TaskLog], Open',
         NEW n \in 0..MaxEvents, known' = [known EXCEPT ![p] = n],
         x = "run" => n < MaxEvents,
         ended' \in [Procs -> Endings \cup {"none"}]
  PROVE  SInv'
  <1>1. pc \in [Procs -> Points] /\ view \in [Procs -> SessionState]
        /\ known \in [Procs -> 0..MaxEvents] /\ session \in SessionState
    BY DEF SInv, TypeOK
  <1>2. pc' \in [Procs -> Points] /\ known' \in [Procs -> 0..MaxEvents]
    BY <1>1 DEF Points
  <1>3. TypeOK'
    BY <1>1, <1>2 DEF SInv, TypeOK
  <1>4. ViewsAreHistory'
    BY <1>1 DEF SInv, ViewsAreHistory
  <1>5. Held'
    <2> SUFFICES ASSUME NEW q \in Procs
                 PROVE  /\ pc'[q] \in {"inspect", "run", "finish"} =>
                              view'[q].pending \in Turn
                        /\ pc'[q] = "compact" => Len(view'[q].turns) > RetainTurns
                        /\ pc'[q] # "finish" => known'[q] < MaxEvents
      BY DEF Held
    <2>1. CASE q = p
      BY <1>1, <2>1 DEF SInv, Held
    <2>2. CASE q # p
      BY <1>1, <2>2 DEF SInv, Held
    <2> QED
      BY <2>1, <2>2
  <1> QED
    BY <1>3, <1>4, <1>5 DEF SInv

LEMMA InspectKeeps ==
  ASSUME SInv, NEW p \in Procs, Inspect(p)
  PROVE  SInv'
  <1> DEFINE l == log[view[p].pending.task]
  <1>1. pc[p] = "inspect" /\ UNCHANGED <<session, torn, log, issued, crashes, faults, record>>
    BY DEF Inspect
  <1>2. /\ view[p].pending \in Turn /\ l \in TaskLog
        /\ l.ending = "none" => l.events < MaxEvents
    <2>1. view[p].pending \in Turn
      BY <1>1 DEF SInv, Held
    <2>2. view[p].pending.task \in Tasks
      BY <2>1 DEF Turn
    <2> QED
      BY <2>1, <2>2 DEF SInv, TypeOK, Open
  <1>3. /\ log' \in [Tasks -> TaskLog] /\ Open'
        /\ crashes' \in 0..MaxCrashes /\ faults' \in 0..MaxFaults
        /\ ended \in [Procs -> Endings \cup {"none"}]
        /\ known \in [Procs -> 0..MaxEvents]
    BY <1>1 DEF SInv, TypeOK, Open
  <1>4. \/ Goto(p, "run")
        \/ Return(p)
        \/ /\ known' = [known EXCEPT ![p] = l.events]
           /\ ended' = [ended EXCEPT ![p] = l.ending]
           /\ pc' = [pc EXCEPT ![p] = IF l.ending = "none" THEN "run" ELSE "finish"]
           /\ UNCHANGED view
    BY DEF Inspect
  <1>5. l.events \in 0..MaxEvents /\ l.ending \in Endings \cup {"none"}
    BY <1>2 DEF TaskLog
  <1> HIDE DEF l
  <1>6. CASE Goto(p, "run")
    <2>1. /\ pc' = [pc EXCEPT ![p] = "run"] /\ view' = view
          /\ known' = [known EXCEPT ![p] = known[p]] /\ ended' = ended
      BY <1>3, <1>6 DEF Goto
    <2>2. known[p] \in 0..MaxEvents /\ known[p] < MaxEvents
      BY <1>1, <1>3 DEF SInv, Held
    <2>3. ended' \in [Procs -> Endings \cup {"none"}]
      BY <1>3, <2>1
    <2> QED
      BY <1>1, <1>3, <2>1, <2>2, <2>3, GoOnKeeps
  <1>7. CASE Return(p)
    BY <1>1, <1>3, <1>7, LeaveKeeps
  <1>8. CASE /\ known' = [known EXCEPT ![p] = l.events]
             /\ ended' = [ended EXCEPT ![p] = l.ending]
             /\ pc' = [pc EXCEPT ![p] = IF l.ending = "none" THEN "run" ELSE "finish"]
             /\ UNCHANGED view
    <2>1. ended' \in [Procs -> Endings \cup {"none"}]
      BY <1>3, <1>5, <1>8
    <2>2. CASE l.ending = "none"
      <3>1. pc' = [pc EXCEPT ![p] = "run"] /\ l.events < MaxEvents
        BY <1>2, <1>8, <2>2
      <3> QED
        BY <1>1, <1>3, <1>5, <1>8, <2>1, <3>1, GoOnKeeps
    <2>3. CASE l.ending # "none"
      <3>1. pc' = [pc EXCEPT ![p] = "finish"]
        BY <1>8, <2>3
      <3> QED
        BY <1>1, <1>3, <1>5, <1>8, <2>1, <3>1, GoOnKeeps
    <2> QED
      BY <2>2, <2>3
  <1> QED
    BY <1>4, <1>6, <1>7, <1>8

(* What an append of the task's next event does to its log. *)
LEMMA WrittenKeeps ==
  ASSUME SInv, NEW p \in Procs, pc[p] = "run", NEW ending \in NextEndings(p),
         NEW end \in {"sound", "bare"},
         log' = [log EXCEPT ![view[p].pending.task] = Written(@, p, ending, end)]
  PROVE  /\ ending \in Endings \cup {"none"}
         /\ known[p] + 1 \in 0..MaxEvents
         /\ ending = "none" => known[p] + 1 < MaxEvents
         /\ log' \in [Tasks -> TaskLog]
         /\ Open'
  <1> DEFINE t == view[p].pending.task
             l == log[t]
  <1>1. known[p] \in 0..MaxEvents /\ known[p] < MaxEvents
        /\ MaxEvents \in Nat \ {0, 1}
    BY SessionParameters DEF SInv, TypeOK, Held
  <1>2. ending \in Endings \cup {"none"}
    BY DEF NextEndings
  <1>3. ending = "none" => known[p] + 1 < MaxEvents
    BY <1>1 DEF NextEndings, Endings
  <1>4. known[p] + 1 \in 0..MaxEvents
    BY <1>1
  <1>5. view[p].pending \in Turn /\ view[p] \in SessionState
    BY DEF SInv, Held, TypeOK
  <1>6. t \in Tasks /\ view[p].turns \in Seq(Turn)
    BY <1>5 DEF Turn, SessionState
  <1>7. l \in TaskLog /\ log \in [Tasks -> TaskLog]
    BY <1>6 DEF SInv, TypeOK
  <1>8. Written(l, p, ending, end) \in TaskLog
        /\ (Written(l, p, ending, end).ending = "none" =>
              Written(l, p, ending, end).events < MaxEvents)
    <2> DEFINE fits == l.file \in {"sound", "empty"} /\ l.events = known[p]
               events == IF fits THEN l.events + 1 ELSE l.events
               file == IF fits THEN end
                       ELSE IF l.file \in {"bare", "torn"} THEN "torn" ELSE "clash"
               last == IF fits THEN ending ELSE l.ending
               ends == l.ends \cup ({ending} \ {"none"})
               context == IF l.events = 0 THEN view[p].turns ELSE l.context
               writers == l.writers \cup {p}
    <2>1. l.ending = "none" => l.events < MaxEvents
      BY <1>6 DEF SInv, Open
    <2>2. l.events \in 0..MaxEvents /\ l.ending \in Endings \cup {"none"}
          /\ l.ends \in SUBSET Endings /\ l.context \in Seq(Turn)
          /\ l.writers \in SUBSET Procs
      BY <1>7 DEF TaskLog
    <2>3. events \in 0..MaxEvents
      BY <1>4, <2>2
    <2>4. last = "none" => events < MaxEvents
      BY <1>3, <2>1, <2>2
    <2>5. last \in Endings \cup {"none"} /\ ends \in SUBSET Endings
          /\ context \in Seq(Turn) /\ writers \in SUBSET Procs
      BY <1>2, <1>6, <2>2
    <2>6. Written(l, p, ending, end) =
            [events |-> events, file |-> file, ending |-> last, ends |-> ends,
             context |-> context, writers |-> writers]
      BY DEF Written
    <2>7. file \in TaskFiles
      BY <1>7 DEF TaskLog, TaskFiles
    <2> HIDE DEF fits, events, file, last, ends, context, writers
    <2> QED
      BY <2>3, <2>4, <2>5, <2>6, <2>7 DEF TaskLog
  <1>9. log' \in [Tasks -> TaskLog]
    BY <1>6, <1>7, <1>8
  <1>10. Open'
    <2> SUFFICES ASSUME NEW u \in Tasks, log'[u].ending = "none"
                 PROVE  log'[u].events < MaxEvents
      BY DEF Open
    <2>1. CASE u = t
      BY <1>6, <1>7, <1>8, <2>1
    <2>2. CASE u # t
      BY <1>6, <1>7, <2>2 DEF SInv, Open
    <2> QED
      BY <2>1, <2>2
  <1> QED
    BY <1>2, <1>3, <1>4, <1>9, <1>10

(* What an open without a write, or a part of a line, does to it. *)
FilesOnly ==
  \A t \in Tasks :
    /\ log'[t].events = log[t].events /\ log'[t].ending = log[t].ending
    /\ log'[t].ends = log[t].ends /\ log'[t].context = log[t].context

LEMMA TouchedKeeps ==
  ASSUME SInv, NEW p \in Procs, pc[p] = "run",
         \/ UNCHANGED log
         \/ log' = [log EXCEPT ![view[p].pending.task] = Opened(@)]
         \/ log' = [log EXCEPT ![view[p].pending.task] = Torn(@)]
  PROVE  log' \in [Tasks -> TaskLog] /\ Open' /\ FilesOnly
  <1> DEFINE t == view[p].pending.task
  <1>1. log \in [Tasks -> TaskLog] /\ t \in Tasks
    BY DEF SInv, TypeOK, Held, Turn
  <1>2. \/ log' = log
        \/ \E f \in TaskFiles : log' = [log EXCEPT ![t] = [@ EXCEPT !.file = f]]
    <2>1. log[t].file \in TaskFiles
      BY <1>1 DEF TaskLog
    <2>2. CASE log' = [log EXCEPT ![t] = Opened(@)]
      BY <2>1, <2>2 DEF Opened, TaskFiles
    <2>3. CASE log' = [log EXCEPT ![t] = Torn(@)]
      BY <2>1, <2>3 DEF Torn, TaskFiles
    <2> QED
      BY <2>2, <2>3
  <1> HIDE DEF t
  <1>3. log' \in [Tasks -> TaskLog] /\ FilesOnly
    <2>1. CASE log' = log
      BY <1>1, <2>1 DEF FilesOnly
    <2>2. ASSUME NEW f \in TaskFiles, log' = [log EXCEPT ![t] = [@ EXCEPT !.file = f]]
          PROVE  log' \in [Tasks -> TaskLog] /\ FilesOnly
      <3> DEFINE w == [log[t] EXCEPT !.file = f]
      <3>1. /\ w \in TaskLog
            /\ w.events = log[t].events /\ w.ending = log[t].ending
            /\ w.ends = log[t].ends /\ w.context = log[t].context
        BY <1>1, ZenonT(30) DEF TaskLog
      <3>2. log' = [log EXCEPT ![t] = w]
        BY <2>2
      <3> HIDE DEF w
      <3> QED
        BY <1>1, <3>1, <3>2 DEF FilesOnly
    <2> QED
      BY <1>2, <2>1, <2>2
  <1>4. Open'
    BY <1>3 DEF FilesOnly, SInv, Open
  <1> QED
    BY <1>3, <1>4

LEMMA TaskStepKeeps ==
  ASSUME SInv, NEW p \in Procs, TaskStep(p)
  PROVE  SInv'
  <1>1. pc[p] = "run" /\ UNCHANGED <<session, torn, view, issued, crashes, faults, record>>
    BY DEF TaskStep
  <1>2. PICK ending \in NextEndings(p) :
          /\ log' = [log EXCEPT ![view[p].pending.task] =
                              Written(@, p, ending, "sound")]
          /\ known' = [known EXCEPT ![p] = @ + 1]
          /\ ended' = [ended EXCEPT ![p] = ending]
          /\ pc' = [pc EXCEPT ![p] = IF ending = "none" THEN "run" ELSE "finish"]
    BY DEF TaskStep
  <1>3. /\ ending \in Endings \cup {"none"}
        /\ known[p] + 1 \in 0..MaxEvents
        /\ ending = "none" => known[p] + 1 < MaxEvents
        /\ log' \in [Tasks -> TaskLog]
        /\ Open'
    BY <1>1, <1>2, WrittenKeeps
  <1>4. known' = [known EXCEPT ![p] = known[p] + 1]
        /\ ended' \in [Procs -> Endings \cup {"none"}]
    BY <1>2, <1>3 DEF SInv, TypeOK
  <1>5. CASE ending = "none"
    <2>1. pc' = [pc EXCEPT ![p] = "run"]
      BY <1>2, <1>5
    <2> QED
      BY <1>1, <1>3, <1>4, <1>5, <2>1, GoOnKeeps
  <1>6. CASE ending # "none"
    <2>1. pc' = [pc EXCEPT ![p] = "finish"]
      BY <1>2, <1>6
    <2> QED
      BY <1>1, <1>3, <1>4, <2>1, GoOnKeeps
  <1> QED
    BY <1>5, <1>6

(* Every step keeps the invariant. *)
LEMMA NextKeeps == SInv /\ [Next]_vars => SInv'
  <1> SUFFICES ASSUME SInv, [Next]_vars PROVE SInv'
    OBVIOUS
  <1>1. CASE UNCHANGED vars
    BY <1>1 DEF vars, SInv, TypeOK, Held, Open, ViewsAreHistory
  <1>2. CASE Next
    <2> SUFFICES ASSUME NEW p \in Procs,
                        \/ Submit(p) \/ Recover(p)
                        \/ Compact(p) \/ Start(p) \/ Inspect(p) \/ TaskStep(p)
                        \/ Finish(p)
                        \/ Refuse(p) \/ TaskFault(p) \/ Crash(p)
                 PROVE  SInv'
      BY <1>2 DEF Next
    <2>1. CASE Submit(p)
      <3>1. pc[p] = "idle" /\ session.pending = NoTurn
            /\ UNCHANGED <<session, torn, log, issued, crashes, faults, record>>
        BY <2>1 DEF Submit
      <3>2. CASE Load(p, "start")
        BY <3>1, <3>2, LoadKeeps
      <3>3. CASE Len(session.turns) > RetainTurns /\ Load(p, "compact")
        BY <3>1, <3>3, LoadKeeps
      <3> QED
        BY <2>1, <3>2, <3>3 DEF Submit
    <2>2. CASE Recover(p)
      BY <2>2, LoadKeeps DEF Recover
    <2>3. CASE Compact(p)
      BY <2>3, CompactKeeps
    <2>4. CASE Start(p)
      BY <2>4, StartKeeps
    <2>5. CASE Inspect(p)
      BY <2>5, InspectKeeps
    <2>6. CASE TaskStep(p)
      BY <2>6, TaskStepKeeps
    <2>7. CASE Finish(p)
      <3>1. view[p] \in SessionState /\ pc[p] = "finish"
        BY <2>7 DEF SInv, TypeOK, Finish
      <3>2. Verdict(p) \in Event
        <4>1. \E sound \in BOOLEAN : sound = (ended[p] = "completed")
          OBVIOUS
        <4>2. TurnCommitted(view[p], ended[p] = "completed") \in Event
          BY <3>1, <4>1, CommittedIsEvent
        <4>3. TurnFailed(view[p]) \in Event
          BY <3>1, FailedIsEvent
        <4> QED
          BY <4>2, <4>3 DEF Verdict
      <3>3. issued' \in 0..MaxTurns
        BY <2>7 DEF Finish, SInv, TypeOK
      <3> QED
        BY <2>7, <3>1, <3>2, <3>3, SettleKeeps DEF Finish
    <2>8. CASE Refuse(p)
      <3>1. log' \in [Tasks -> TaskLog] /\ Open' /\ crashes' \in 0..MaxCrashes
        BY <2>8 DEF Refuse, SInv, TypeOK, Open
      <3>2. faults' \in 0..MaxFaults
        BY <2>8, SessionParameters DEF Refuse, SInv, TypeOK
      <3> QED
        BY <2>8, <3>1, <3>2, LeaveKeeps DEF Refuse
    <2>9. CASE TaskFault(p)
      <3>1. pc[p] = "run" /\ UNCHANGED <<session, torn, issued, crashes, record>>
            /\ Return(p)
        BY <2>9 DEF TaskFault
      <3>2. crashes' \in 0..MaxCrashes /\ faults' \in 0..MaxFaults
        BY <2>9, SessionParameters, SMTT(20) DEF TaskFault, SInv, TypeOK
      <3>3. log' \in [Tasks -> TaskLog] /\ Open'
        <4>1. CASE \/ UNCHANGED log
                   \/ log' = [log EXCEPT ![view[p].pending.task] = Opened(@)]
                   \/ log' = [log EXCEPT ![view[p].pending.task] = Torn(@)]
          BY <3>1, <4>1, TouchedKeeps
        <4>2. CASE \E ending \in NextEndings(p), end \in {"sound", "bare"} :
                     log' = [log EXCEPT ![view[p].pending.task] =
                               Written(@, p, ending, end)]
          BY <3>1, <4>2, WrittenKeeps
        <4> QED
          BY <2>9, <4>1, <4>2 DEF TaskFault
      <3> QED
        BY <3>1, <3>2, <3>3, LeaveKeeps
    <2>10. CASE Crash(p)
      <3>1. log' \in [Tasks -> TaskLog] /\ Open' /\ faults' \in 0..MaxFaults
        <4>1. CASE UNCHANGED log
          BY <2>10, <4>1 DEF Crash, SInv, TypeOK, Open
        <4>2. CASE /\ pc[p] = "run"
                   /\ log' = [log EXCEPT ![view[p].pending.task] = Opened(@)]
          BY <2>10, <4>2, TouchedKeeps DEF Crash, SInv, TypeOK
        <4> QED
          BY <2>10, <4>1, <4>2 DEF Crash
      <3>2. crashes' \in 0..MaxCrashes
        BY <2>10, SessionParameters DEF Crash, SInv, TypeOK
      <3> QED
        BY <2>10, <3>1, <3>2, LeaveKeeps DEF Crash
    <2> QED
      BY <2>1, <2>2, <2>3, <2>4, <2>5, <2>6, <2>7, <2>8, <2>9, <2>10
  <1> QED
    BY <1>1, <1>2

(* The inductive invariant of a session and the processes open on it. *)
THEOREM SessionInductive == Spec => []SInv
  <1>1. Init => SInv
    BY InitHolds
  <1>2. SInv /\ [Next]_vars => SInv'
    BY NextKeeps
  <1> QED
    BY <1>1, <1>2, PTL DEF Spec

(* The states of a session, its task logs and its processes are well formed,       *)
(* whatever number of processes submit, compact, recover, fail and die             *)
(* (session_engine.cpp, session_reducer.cpp).                                      *)
THEOREM SessionTypeCorrect == Spec => []TypeOK
  <1>1. SInv => TypeOK
    BY DEF SInv
  <1> QED
    BY <1>1, SessionInductive, PTL

(* No process in an operation holds a state ahead of the session log, or one that  *)
(* differs from it at the same sequence, for any number of processes               *)
(* (append_event against JsonlSessionStore::append).                               *)
THEOREM ViewSafety == Spec => []ViewsAreHistory
  <1>1. SInv => ViewsAreHistory
    BY DEF SInv
  <1> QED
    BY <1>1, SessionInductive, PTL
--------------------------------------------------------------------------------
(* What the history needs of every state. *)

(* The terminal a replay finds, and the ending a process knows, are in the file. *)
EndsKnown ==
  /\ \A t \in Tasks : log[t].ending = "none" \/ log[t].ending \in log[t].ends
  /\ \A p \in Procs :
       pc[p] = "finish" => ended[p] \in log[view[p].pending.task].ends

(* Task ids are handed out once: a settled turn's is not the pending turn's, and  *)
(* the log of an id to come is empty.                                              *)
TasksInOrder ==
  /\ session.pending.task <= issued
  /\ \A p \in Procs : view[p].pending.task <= issued
  /\ \A i \in 1..Len(record) :
       /\ record[i].task <= issued
       /\ record[i].task # session.pending.task
  /\ \A t \in Tasks : t > issued => log[t].events = 0

(* Whoever knows the pending turn knows the whole state: nothing is written to the *)
(* session log between a turn's start and its settlement.                          *)
PendingSeenWhole ==
  \A p \in Procs :
    view[p].pending \in Turn /\ view[p].pending.task = session.pending.task =>
      view[p] = session

(* The session's turns are the record's committed turns after the compacted ones,  *)
(* by number and in order.                                                         *)
TurnsAreCommitted ==
  /\ Len(record) = session.completed
  /\ session.through <= session.completed
  /\ session.pending # NoTurn => session.pending.index = session.completed + 1
  /\ \A k \in 1..Len(session.turns) :
       LET turn == session.turns[k]
       IN  /\ session.through < turn.index /\ turn.index <= Len(record)
           /\ record[turn.index] = [task |-> turn.task, how |-> "committed"]
  /\ \A k, m \in 1..Len(session.turns) :
       k < m => session.turns[k].index < session.turns[m].index
  /\ \A i \in 1..Len(record) :
       record[i].how = "committed" /\ i > session.through =>
         \E k \in 1..Len(session.turns) : session.turns[k].index = i

HistoryInv ==
  /\ EndsKnown /\ TasksInOrder /\ PendingSeenWhole /\ TurnsAreCommitted
  /\ ContextKept /\ OutcomesFollowTasks

(* The history: what a step does to the session and its record, to the views of   *)
(* the processes, and to the logs of the tasks.                                    *)

Rests == session' = session /\ record' = record

Starts ==
  /\ session.pending = NoTurn
  /\ session' = [session EXCEPT
                   !.seq = session.seq + 1,
                   !.pending = [index |-> session.completed + 1, task |-> issued + 1]]
  /\ record' = record

Settles(p, how) ==
  /\ pc[p] = "finish" /\ view[p] = session /\ session.pending \in Turn
  /\ how = "committed" => ended[p] = "completed"
  /\ how = "failed" => ended[p] = "failed"
  /\ session' = [session EXCEPT
                   !.seq = session.seq + 1,
                   !.pending = NoTurn,
                   !.completed = session.pending.index,
                   !.turns = IF how = "committed" THEN Append(@, session.pending)
                             ELSE @]
  /\ record' = Append(record, [task |-> session.pending.task, how |-> how])

Compacts ==
  /\ session.pending = NoTurn
  /\ \E first \in 1..Len(session.turns) :
       /\ session.turns[first].index > session.through
       /\ session' = [session EXCEPT
                        !.seq = session.seq + 1,
                        !.through = session.turns[first].index,
                        !.turns = SubSeq(@, first + 1, Len(@))]
  /\ record' = record

SessionStep ==
  \/ Rests /\ issued' \in {issued, issued + 1}
  \/ Starts /\ UNCHANGED log /\ issued' = issued + 1
  \/ /\ \E p \in Procs, how \in {"committed", "failed"} : Settles(p, how)
     /\ UNCHANGED <<log, issued>>
  \/ Compacts /\ UNCHANGED <<log, issued>>

(* One process moves at a time: it returns, holds the log's new state, or keeps   *)
(* its view; it finishes only a task whose log holds the ending it knows.          *)
ViewStep ==
  \A p \in Procs :
    /\ view'[p] \in {view[p], session', Created}
    /\ pc'[p] = "finish" =>
         \/ pc[p] = "finish" /\ view'[p] = view[p] /\ ended'[p] = ended[p]
         \/ ended'[p] \in log'[view'[p].pending.task].ends

(* The events of a task log change only by an append of a process that runs it. *)
TaskLogStep ==
  \/ UNCHANGED log
  \/ Rests /\ UNCHANGED issued /\ FilesOnly
  \/ /\ Rests /\ UNCHANGED issued
     /\ \E p \in Procs, ending \in Endings \cup {"none"}, end \in {"sound", "bare"} :
          /\ pc[p] = "run"
          /\ log' = [log EXCEPT ![view[p].pending.task] =
                              Written(@, p, ending, end)]

HistoryStep == SessionStep /\ ViewStep /\ TaskLogStep

(* An append that reaches the log starts from the log's own state. *)
LEMMA AppendOutcome ==
  ASSUME SInv, NEW p \in Procs, pc[p] # "idle", NEW e \in Event,
         AppendOk(p, e) \/ AppendRefused(p, e)
  PROVE  \/ Rests
         \/ /\ view[p] = session /\ Reducible(session, e)
            /\ session' = Reduced(session, e) /\ record' = Settled(e)
<1>1. session \in SessionState /\ view[p] \in SessionState
  BY DEF SInv, TypeOK
<1>2. CASE /\ Reducible(view[p], e) /\ Reducible(session, e)
           /\ session' = Reduced(session, e) /\ record' = Settled(e)
  <2>1. view[p].seq = session.seq
    BY <1>1, <1>2 DEF Reducible, SessionState
  <2> QED
    BY <1>2, <2>1 DEF SInv, ViewsAreHistory
<1> QED
  BY <1>2 DEF AppendOk, AppendRefused, StoreAccepts, Rests

LEMMA StartStarts ==
  ASSUME SInv, NEW p \in Procs, Start(p)
  PROVE  HistoryStep
<1> DEFINE e == TurnStarted(view[p], issued + 1)
<1>1. /\ pc[p] = "start" /\ view[p] \in SessionState /\ session \in SessionState
      /\ view \in [Procs -> SessionState] /\ pc \in [Procs -> Points]
      /\ ended \in [Procs -> Endings \cup {"none"}]
      /\ UNCHANGED <<log, crashes>> /\ issued' = issued + 1
      /\ AppendOk(p, e) \/ AppendRefused(p, e)
  BY DEF SInv, TypeOK, Start
<1>2. e \in Event
  <2>1. issued + 1 \in Tasks
    BY SessionParameters DEF SInv, TypeOK, Start
  <2> QED
    BY <1>1, <2>1, StartedIsEvent
<1>3. ASSUME Rests PROVE SessionStep
  BY <1>1, <1>3 DEF SessionStep
<1>4. ASSUME view[p] = session, Reducible(session, e),
             session' = Reduced(session, e), record' = Settled(e)
      PROVE  SessionStep
  <2>1. /\ e.kind = "TurnStarted" /\ e.seq = session.seq + 1
        /\ e.turn = [index |-> session.completed + 1, task |-> issued + 1]
    BY <1>4 DEF TurnStarted
  <2>2. Starts
    BY <1>4, <2>1 DEF Starts, Reducible, Reduced, Settled
  <2> QED
    BY <1>1, <2>2 DEF SessionStep
<1>5. SessionStep
  BY <1>1, <1>2, <1>3, <1>4, AppendOutcome
<1>6. \/ /\ AppendOk(p, e)
         /\ view' = [view EXCEPT ![p] = Reduced(view[p], e)]
         /\ pc' = [pc EXCEPT ![p] = "run"]
         /\ UNCHANGED <<known, ended>>
      \/ Return(p)
  BY DEF Start
<1> HIDE DEF e
<1>7. ViewStep
  <2>1. CASE Return(p)
    BY <1>1, <2>1 DEF Return, ViewStep
  <2>2. CASE /\ AppendOk(p, e)
             /\ view' = [view EXCEPT ![p] = Reduced(view[p], e)]
             /\ pc' = [pc EXCEPT ![p] = "run"]
             /\ UNCHANGED <<known, ended>>
    <3>1. Reduced(view[p], e) = session'
      BY <1>1, <1>2, <2>2, AppendOkFacts
    <3> QED
      BY <1>1, <2>2, <3>1 DEF ViewStep
  <2> QED
    BY <1>6, <2>1, <2>2
<1> QED
  BY <1>1, <1>5, <1>7 DEF HistoryStep, TaskLogStep

LEMMA CompactCompacts ==
  ASSUME SInv, NEW p \in Procs, Compact(p)
  PROVE  HistoryStep
<1> DEFINE e == SessionCompacted(view[p], Coverage(view[p]))
<1>1. /\ pc[p] = "compact" /\ view[p] \in SessionState /\ session \in SessionState
      /\ view \in [Procs -> SessionState] /\ pc \in [Procs -> Points]
      /\ pc' = [pc EXCEPT ![p] = "start"]
      /\ UNCHANGED <<log, ended, issued>>
      /\ AppendOk(p, e) \/ AppendRefused(p, e)
  BY DEF SInv, TypeOK, Compact
<1>2. e \in Event
  BY <1>1, CompactedIsEvent DEF SInv, Held
<1>3. ASSUME Rests PROVE SessionStep
  BY <1>1, <1>3 DEF SessionStep
<1>4. ASSUME view[p] = session, Reducible(session, e),
             session' = Reduced(session, e), record' = Settled(e)
      PROVE  SessionStep
  <2>1. /\ e.kind = "SessionCompacted" /\ e.seq = session.seq + 1
    BY <1>4 DEF SessionCompacted
  <2>2. /\ session.pending = NoTurn /\ e.through > session.through
        /\ Covers(session, e.through) /\ record' = record
        /\ session' = [session EXCEPT
                         !.seq = e.seq, !.through = e.through,
                         !.turns = AfterCoverage(@, e.through)]
    <3> HIDE DEF e
    <3> QED
      BY <1>4, <2>1 DEF Reducible, Reduced, Settled
  <2> DEFINE first == CHOOSE i \in 1..Len(session.turns) :
                        session.turns[i].index = e.through
  <2>3. /\ first \in 1..Len(session.turns)
        /\ session.turns[first].index = e.through
    <3> HIDE DEF e
    <3>1. \E i \in 1..Len(session.turns) : session.turns[i].index = e.through
      BY <2>2 DEF Covers
    <3> QED
      BY <3>1
  <2>4. AfterCoverage(session.turns, e.through) =
          SubSeq(session.turns, first + 1, Len(session.turns))
    BY DEF AfterCoverage
  <2>5. Compacts
    <3> HIDE DEF e, first
    <3> QED
      BY <2>1, <2>2, <2>3, <2>4 DEF Compacts
  <2> QED
    BY <1>1, <2>5 DEF SessionStep
<1>5. SessionStep
  BY <1>1, <1>2, <1>3, <1>4, AppendOutcome
<1>6. \/ AppendOk(p, e) /\ view' = [view EXCEPT ![p] = Reduced(view[p], e)]
      \/ UNCHANGED view
  BY DEF Compact
<1> HIDE DEF e
<1>7. ViewStep
  <2>1. AppendOk(p, e) => Reduced(view[p], e) = session'
    BY <1>1, <1>2, AppendOkFacts
  <2> QED
    BY <1>1, <1>6, <2>1 DEF ViewStep
<1> QED
  BY <1>1, <1>5, <1>7 DEF HistoryStep, TaskLogStep

LEMMA FinishSettles ==
  ASSUME SInv, NEW p \in Procs, Finish(p)
  PROVE  HistoryStep
<1> DEFINE e == Verdict(p)
<1>1. /\ pc[p] = "finish" /\ view[p] \in SessionState /\ session \in SessionState
      /\ view \in [Procs -> SessionState] /\ pc \in [Procs -> Points]
      /\ ended \in [Procs -> Endings \cup {"none"}]
      /\ Return(p) /\ UNCHANGED <<log, issued>>
      /\ AppendOk(p, e) \/ AppendRefused(p, e)
  BY DEF SInv, TypeOK, Finish
<1>2. e \in Event
  <2>1. (ended[p] = "completed") \in BOOLEAN
    OBVIOUS
  <2>2. TurnCommitted(view[p], ended[p] = "completed") \in Event
    BY <1>1, <2>1, CommittedIsEvent
  <2> QED
    BY <1>1, <2>2, FailedIsEvent DEF Verdict
<1>3. ASSUME Rests PROVE SessionStep
  BY <1>1, <1>3 DEF SessionStep
<1>4. ASSUME view[p] = session, Reducible(session, e),
             session' = Reduced(session, e), record' = Settled(e)
      PROVE  SessionStep
  <2>0. session.pending # NoTurn => session.pending \in Turn
    BY <1>1 DEF SessionState
  <2>1. CASE ended[p] = "failed"
    <3>1. /\ e.kind = "TurnFailed" /\ e.seq = session.seq + 1
          /\ e.turn = session.pending
      BY <1>4, <2>1 DEF Verdict, TurnFailed
    <3>2. /\ session.pending # NoTurn
          /\ record' = Append(record, [task |-> session.pending.task, how |-> "failed"])
          /\ session' = [session EXCEPT !.seq = e.seq, !.pending = NoTurn,
                                        !.completed = session.pending.index]
      <4> HIDE DEF e
      <4> QED
        BY <1>4, <3>1 DEF Reducible, Reduced, Settled
    <3>3. session' = [session EXCEPT !.seq = session.seq + 1, !.pending = NoTurn,
                                     !.completed = session.pending.index,
                                     !.turns = @]
      BY <1>1, <3>1, <3>2 DEF SessionState
    <3>4. Settles(p, "failed")
      BY <1>1, <1>4, <2>0, <2>1, <3>2, <3>3 DEF Settles
    <3> QED
      BY <1>1, <3>4 DEF SessionStep
  <2>2. CASE ended[p] # "failed"
    <3>1. /\ e.kind = "TurnCommitted" /\ e.seq = session.seq + 1
          /\ e.turn = session.pending /\ e.sound = (ended[p] = "completed")
      BY <1>4, <2>2 DEF Verdict, TurnCommitted
    <3>2. /\ session.pending # NoTurn /\ e.sound
          /\ record' = Append(record, [task |-> session.pending.task, how |-> "committed"])
          /\ session' = [session EXCEPT !.seq = e.seq, !.pending = NoTurn,
                                        !.completed = session.pending.index,
                                        !.turns = Append(@, session.pending)]
      <4> HIDE DEF e
      <4> QED
        BY <1>4, <3>1 DEF Reducible, Reduced, Settled
    <3>3. ended[p] = "completed"
      BY <3>1, <3>2
    <3>4. Settles(p, "committed")
      BY <1>1, <1>4, <2>0, <3>1, <3>2, <3>3 DEF Settles
    <3> QED
      BY <1>1, <3>4 DEF SessionStep
  <2> QED
    BY <2>1, <2>2
<1>5. SessionStep
  BY <1>1, <1>2, <1>3, <1>4, AppendOutcome
<1>6. ViewStep
  BY <1>1 DEF Return, ViewStep
<1> QED
  BY <1>1, <1>5, <1>6 DEF HistoryStep, TaskLogStep

(* What an operation that only reads or returns does. *)
LEMMA OtherSteps ==
  ASSUME SInv, EndsKnown, NEW p \in Procs,
         \/ Submit(p) \/ Recover(p) \/ Inspect(p)
         \/ Refuse(p) \/ Crash(p)
  PROVE  HistoryStep
<1>1. /\ view \in [Procs -> SessionState] /\ pc \in [Procs -> Points]
      /\ ended \in [Procs -> Endings \cup {"none"}]
      /\ UNCHANGED <<session, issued, record>>
      /\ Crash(p) \/ UNCHANGED log
  BY DEF SInv, TypeOK, Submit, Recover, Inspect, Refuse, Crash, Load
<1>2. CASE Submit(p) \/ Recover(p)
  <2>1. PICK x \in {"start", "compact", "inspect"} : Load(p, x)
    BY <1>2 DEF Submit, Recover
  <2>2. ViewStep /\ UNCHANGED log
    BY <1>1, <1>2, <2>1 DEF Load, ViewStep, Submit, Recover
  <2> QED
    BY <1>1, <2>2 DEF HistoryStep, SessionStep, TaskLogStep, Rests
<1>3. CASE Refuse(p) \/ Crash(p)
  <2>1. Return(p)
    BY <1>3 DEF Refuse, Crash
  <2>2. ViewStep
    BY <1>1, <2>1 DEF Return, ViewStep
  <2>3. UNCHANGED log \/ FilesOnly
    <3>1. CASE /\ pc[p] = "run"
               /\ log' = [log EXCEPT ![view[p].pending.task] = Opened(@)]
      BY <3>1, TouchedKeeps
    <3> QED
      BY <1>1, <3>1 DEF Crash
  <2> QED
    BY <1>1, <2>2, <2>3 DEF HistoryStep, SessionStep, TaskLogStep, Rests
<1>4. CASE Inspect(p)
  <2> DEFINE l == log[view[p].pending.task]
  <2>0. UNCHANGED log
    BY <1>4 DEF Inspect
  <2>1. \/ Goto(p, "run")
        \/ Return(p)
        \/ /\ ended' = [ended EXCEPT ![p] = l.ending]
           /\ pc' = [pc EXCEPT ![p] = IF l.ending = "none" THEN "run" ELSE "finish"]
           /\ UNCHANGED view
    BY <1>4 DEF Inspect
  <2>2. l.ending = "none" \/ l.ending \in l.ends
    <3>1. view[p].pending.task \in Tasks
      BY <1>4 DEF Inspect, SInv, Held, Turn
    <3> QED
      BY <3>1 DEF EndsKnown
  <2> HIDE DEF l
  <2>3. log'[view'[p].pending.task] = l \/ Return(p)
    BY <1>1, <2>0, <2>1 DEF Goto, l
  <2>4. ViewStep
    <3>1. CASE Goto(p, "run")
      BY <1>1, <3>1 DEF Goto, ViewStep
    <3>2. CASE Return(p)
      BY <1>1, <3>2 DEF Return, ViewStep
    <3>3. CASE /\ ended' = [ended EXCEPT ![p] = l.ending]
               /\ pc' = [pc EXCEPT ![p] = IF l.ending = "none" THEN "run" ELSE "finish"]
               /\ UNCHANGED view
      <4> SUFFICES ASSUME NEW q \in Procs, pc'[q] = "finish"
                   PROVE  \/ /\ pc[q] = "finish" /\ view'[q] = view[q]
                             /\ ended'[q] = ended[q]
                          \/ ended'[q] \in log'[view'[q].pending.task].ends
        BY <3>3 DEF ViewStep
      <4>1. CASE q = p
        BY <1>1, <2>0, <2>2, <3>3, <4>1 DEF l
      <4>2. CASE q # p
        BY <1>1, <3>3, <4>2
      <4> QED
        BY <4>1, <4>2
    <3> QED
      BY <2>1, <3>1, <3>2, <3>3
  <2> QED
    BY <1>1, <2>0, <2>4 DEF HistoryStep, SessionStep, TaskLogStep, Rests
<1> QED
  BY <1>2, <1>3, <1>4

(* Nothing is ever removed from a file, and the ending a replay finds is in it. *)
LEMMA WrittenEnds ==
  ASSUME NEW l \in TaskLog, NEW p \in Procs, NEW ending \in Endings \cup {"none"},
         NEW end \in {"sound", "bare"},
         l.ending = "none" \/ l.ending \in l.ends
  PROVE  LET w == Written(l, p, ending, end)
         IN  /\ l.ends \subseteq w.ends
             /\ ending = "none" \/ ending \in w.ends
             /\ w.ending = "none" \/ w.ending \in w.ends
BY DEF Written

LEMMA TaskStepSteps ==
  ASSUME SInv, EndsKnown, NEW p \in Procs, TaskStep(p) \/ TaskFault(p)
  PROVE  HistoryStep
<1> DEFINE t == view[p].pending.task
<1>1. /\ view \in [Procs -> SessionState] /\ pc \in [Procs -> Points]
      /\ ended \in [Procs -> Endings \cup {"none"}]
      /\ log \in [Tasks -> TaskLog]
      /\ UNCHANGED <<session, issued, record>> /\ pc[p] = "run"
  BY DEF SInv, TypeOK, TaskStep, TaskFault
<1>2. t \in Tasks
  BY <1>1 DEF SInv, Held, Turn
<1>3. SessionStep
  BY <1>1 DEF SessionStep, Rests
<1>4. NextEndings(p) \subseteq Endings \cup {"none"}
  BY DEF NextEndings
<1>5. TaskLogStep
  <2>1. CASE \/ UNCHANGED log
             \/ log' = [log EXCEPT ![view[p].pending.task] = Opened(@)]
             \/ log' = [log EXCEPT ![view[p].pending.task] = Torn(@)]
    BY <1>1, <2>1, TouchedKeeps DEF TaskLogStep, Rests
  <2>2. CASE \E ending \in NextEndings(p), end \in {"sound", "bare"} :
               log' = [log EXCEPT ![view[p].pending.task] =
                         Written(@, p, ending, end)]
    BY <1>1, <1>4, <2>2 DEF TaskLogStep, Rests
  <2>3. TaskStep(p) =>
          \E ending \in NextEndings(p), end \in {"sound", "bare"} :
             log' = [log EXCEPT ![view[p].pending.task] =
                       Written(@, p, ending, end)]
    BY DEF TaskStep
  <2> QED
    BY <2>1, <2>2, <2>3 DEF TaskFault
<1>6. CASE TaskFault(p)
  <2>1. ViewStep
    BY <1>1, <1>6 DEF TaskFault, Return, ViewStep
  <2> QED
    BY <1>3, <1>5, <2>1 DEF HistoryStep
<1>7. CASE TaskStep(p)
  <2>1. PICK ending \in Endings \cup {"none"} :
          /\ log' = [log EXCEPT ![t] = Written(@, p, ending, "sound")]
          /\ ended' = [ended EXCEPT ![p] = ending]
          /\ pc' = [pc EXCEPT ![p] = IF ending = "none" THEN "run" ELSE "finish"]
          /\ UNCHANGED view
    BY <1>4, <1>7 DEF TaskStep
  <2>2. ending = "none" \/ ending \in log'[t].ends
    <3>1. log'[t] = Written(log[t], p, ending, "sound")
      BY <1>1, <1>2, <2>1
    <3> QED
      BY <1>1, <1>2, <3>1, WrittenEnds DEF EndsKnown
  <2>3. ViewStep
    <3> SUFFICES ASSUME NEW q \in Procs, pc'[q] = "finish"
                 PROVE  \/ /\ pc[q] = "finish" /\ view'[q] = view[q]
                           /\ ended'[q] = ended[q]
                        \/ ended'[q] \in log'[view'[q].pending.task].ends
      BY <2>1 DEF ViewStep
    <3>1. CASE q = p
      BY <1>1, <2>1, <2>2, <3>1
    <3>2. CASE q # p
      BY <1>1, <2>1, <3>2
    <3> QED
      BY <3>1, <3>2
  <2> QED
    BY <1>3, <1>5, <2>3 DEF HistoryStep
<1> QED
  BY <1>6, <1>7

LEMMA EveryHistoryStep ==
  ASSUME SInv, EndsKnown, [Next]_vars
  PROVE  HistoryStep
<1>1. CASE UNCHANGED vars
  BY <1>1 DEF vars, HistoryStep, SessionStep, TaskLogStep, ViewStep, Rests
<1>2. CASE Next
  BY <1>2, StartStarts, CompactCompacts, FinishSettles, OtherSteps, TaskStepSteps
     DEF Next
<1> QED
  BY <1>1, <1>2
--------------------------------------------------------------------------------
(* Every such step keeps the history. *)

(* What a task's log has at its end, after a step. *)
LEMMA EndsStay ==
  ASSUME SInv, EndsKnown, HistoryStep, NEW t \in Tasks
  PROVE  /\ log[t].ends \subseteq log'[t].ends
         /\ log'[t].ending = "none" \/ log'[t].ending \in log'[t].ends
<1>1. log \in [Tasks -> TaskLog]
  BY DEF SInv, TypeOK
<1>2. CASE UNCHANGED log \/ FilesOnly
  BY <1>2 DEF EndsKnown, FilesOnly
<1>3. ASSUME NEW p \in Procs, NEW ending \in Endings \cup {"none"},
             NEW end \in {"sound", "bare"},
             log' = [log EXCEPT ![view[p].pending.task] =
                       Written(@, p, ending, end)]
      PROVE  /\ log[t].ends \subseteq log'[t].ends
             /\ log'[t].ending = "none" \/ log'[t].ending \in log'[t].ends
  <2>1. CASE t = view[p].pending.task
    <3>1. log'[t] = Written(log[t], p, ending, end)
      BY <1>1, <1>3, <2>1
    <3> QED
      BY <1>1, <3>1, WrittenEnds DEF EndsKnown
  <2>2. CASE t # view[p].pending.task
    BY <1>1, <1>3, <2>2 DEF EndsKnown
  <2> QED
    BY <2>1, <2>2
<1> QED
  BY <1>2, <1>3 DEF HistoryStep, TaskLogStep

LEMMA EndsKnownStays ==
  ASSUME SInv, EndsKnown, HistoryStep
  PROVE  EndsKnown'
<1>1. \A t \in Tasks : log'[t].ending = "none" \/ log'[t].ending \in log'[t].ends
  BY EndsStay
<1>2. ASSUME NEW p \in Procs, pc'[p] = "finish"
      PROVE  ended'[p] \in log'[view'[p].pending.task].ends
  <2>1. CASE pc[p] = "finish" /\ view'[p] = view[p] /\ ended'[p] = ended[p]
    <3>1. view[p].pending.task \in Tasks
      BY <2>1 DEF SInv, Held, Turn
    <3> QED
      BY <2>1, <3>1, EndsStay DEF EndsKnown
  <2> QED
    BY <1>2, <2>1 DEF HistoryStep, ViewStep
<1> QED
  BY <1>1, <1>2 DEF EndsKnown

(* The fields of a session state. *)
LEMMA SessionFields ==
  ASSUME NEW STATE s, s \in SessionState
  PROVE  /\ s.seq \in Nat /\ s.completed \in Nat /\ s.through \in Nat
         /\ s.turns \in Seq(Turn) /\ Len(s.turns) \in Nat
         /\ s.pending \in Turn \/ s.pending = NoTurn
         /\ s.pending.task \in Nat /\ s.pending.index \in Nat
         /\ s.pending \in Turn => s.pending.task > 0 /\ s.pending.task \in Tasks
         /\ s.pending.task > 0 => s.pending \in Turn
<1>1. s.pending \in Turn => s.pending.task \in Nat \ {0}
                            /\ s.pending.task \in Tasks /\ s.pending.index \in Nat
  BY TasksAreNumbers DEF Turn
<1> QED
  BY <1>1 DEF SessionState, NoTurn

(* What the four kinds of step leave in the session. *)
LEMMA SettledFields ==
  ASSUME session \in SessionState, NEW p \in Procs, NEW how \in {"committed", "failed"},
         Settles(p, how)
  PROVE  /\ session'.pending = NoTurn /\ session'.pending.task = 0
         /\ session'.completed = session.pending.index
         /\ session'.through = session.through
         /\ session'.turns = IF how = "committed"
                             THEN Append(session.turns, session.pending)
                             ELSE session.turns
BY DEF Settles, SessionState, NoTurn

LEMMA StartedFields ==
  ASSUME session \in SessionState, Starts
  PROVE  /\ session'.pending = [index |-> session.completed + 1, task |-> issued + 1]
         /\ session'.pending.task = issued + 1
         /\ session'.pending.index = session.completed + 1
         /\ session'.completed = session.completed
         /\ session'.through = session.through
         /\ session'.turns = session.turns
BY DEF Starts, SessionState

LEMMA CompactedFields ==
  ASSUME session \in SessionState, Compacts
  PROVE  /\ session.pending = NoTurn
         /\ session'.pending = NoTurn /\ session'.pending.task = 0
         /\ session'.completed = session.completed
         /\ \E first \in 1..Len(session.turns) :
              /\ session.turns[first].index > session.through
              /\ session'.through = session.turns[first].index
              /\ session'.turns = SubSeq(session.turns, first + 1, Len(session.turns))
<1>1. PICK first \in 1..Len(session.turns) :
        /\ session.turns[first].index > session.through
        /\ session' = [session EXCEPT
                         !.seq = session.seq + 1,
                         !.through = session.turns[first].index,
                         !.turns = SubSeq(@, first + 1, Len(@))]
  BY DEF Compacts
<1>2. /\ session'.pending = session.pending
      /\ session'.completed = session.completed
      /\ session'.through = session.turns[first].index
      /\ session'.turns = SubSeq(session.turns, first + 1, Len(session.turns))
  BY <1>1 DEF SessionState
<1>3. session.pending = NoTurn
  BY DEF Compacts
<1>4. session'.pending = NoTurn /\ session'.pending.task = 0
  BY <1>2, <1>3 DEF NoTurn
<1> QED
  BY <1>1, <1>2, <1>3, <1>4

(* The record is a list of settled turns. *)
LEMMA RecordFields ==
  ASSUME SInv
  PROVE  /\ record \in Records
         /\ Len(record) \in Nat /\ DOMAIN record = 1..Len(record)
         /\ \A i \in 1..Len(record) :
              record[i].task \in Tasks /\ record[i].how \in {"committed", "failed"}
<1> DEFINE Settlement == [task : Tasks, how : {"committed", "failed"}]
<1>1. record \in Seq(Settlement) /\ record \in Records
  BY DEF SInv, TypeOK, Records
<1>2. \A x \in Settlement : x.task \in Tasks /\ x.how \in {"committed", "failed"}
  OBVIOUS
<1> HIDE DEF Settlement
<1>3. /\ Len(record) \in Nat /\ DOMAIN record = 1..Len(record)
      /\ \A i \in 1..Len(record) : record[i] \in Settlement
  BY <1>1
<1> QED
  BY <1>1, <1>2, <1>3

LEMMA TasksStayInOrder ==
  ASSUME SInv, TasksInOrder, HistoryStep, TypeOK'
  PROVE  TasksInOrder'
<1>1. /\ session \in SessionState /\ issued \in Nat /\ issued' \in Nat
      /\ record \in Records /\ log \in [Tasks -> TaskLog]
      /\ view \in [Procs -> SessionState]
      /\ session.pending.task \in Nat /\ session'.pending.task \in Nat
  BY SessionFields, SessionParameters DEF SInv, TypeOK, Records
<1>2. issued' = issued \/ issued' = issued + 1
  BY DEF HistoryStep, SessionStep
<1>3. Len(record) \in Nat /\ \A i \in 1..Len(record) : record[i].task \in Tasks
  BY RecordFields
<1>4. \A t \in Tasks : t \in Nat /\ t > 0
  BY TasksAreNumbers
<1>5. /\ session'.pending.task <= issued'
      /\ \A i \in 1..Len(record') :
           record'[i].task <= issued' /\ record'[i].task # session'.pending.task
  <2>1. CASE Rests
    BY <1>1, <1>2, <1>3, <1>4, <2>1 DEF Rests, TasksInOrder
  <2>2. CASE Starts /\ issued' = issued + 1
    <3>1. session'.pending.task = issued + 1 /\ record' = record
      BY <1>1, <2>2, StartedFields DEF Starts
    <3> QED
      BY <1>1, <1>3, <1>4, <2>2, <3>1 DEF TasksInOrder
  <2>3. ASSUME NEW p \in Procs, NEW how \in {"committed", "failed"},
               Settles(p, how), UNCHANGED issued
        PROVE  /\ session'.pending.task <= issued'
               /\ \A i \in 1..Len(record') :
                    /\ record'[i].task <= issued'
                    /\ record'[i].task # session'.pending.task
    <3>1. /\ session'.pending.task = 0
          /\ record' = Append(record, [task |-> session.pending.task, how |-> how])
          /\ session.pending.task \in Tasks
      BY <1>1, <2>3, SettledFields, SessionFields DEF Settles
    <3>2. \A i \in 1..Len(record') :
            record'[i].task \in Tasks /\ record'[i].task <= issued
      BY <1>1, <1>3, <3>1 DEF TasksInOrder, Records
    <3> QED
      BY <1>1, <1>4, <2>3, <3>1, <3>2
  <2>4. CASE Compacts /\ UNCHANGED issued
    <3>1. session'.pending.task = 0 /\ record' = record
      BY <1>1, <2>4, CompactedFields DEF Compacts
    <3> QED
      BY <1>1, <1>3, <1>4, <2>4, <3>1 DEF TasksInOrder
  <2> QED
    BY <2>1, <2>2, <2>3, <2>4 DEF HistoryStep, SessionStep
<1>6. \A p \in Procs : view'[p].pending.task <= issued'
  <2> TAKE p \in Procs
  <2>1. view[p].pending.task \in Nat /\ view[p].pending.task <= issued
    BY <1>1, SessionFields DEF TasksInOrder
  <2>2. Created.pending.task = 0
    BY DEF Created, NoTurn
  <2>3. view'[p] \in {view[p], session', Created}
    BY DEF HistoryStep, ViewStep
  <2> QED
    BY <1>1, <1>2, <1>5, <2>1, <2>2, <2>3
<1>7. \A t \in Tasks : t > issued' => log'[t].events = 0
  <2> SUFFICES ASSUME NEW t \in Tasks, t > issued'
               PROVE  log'[t].events = 0
    OBVIOUS
  <2>1. t > issued
    BY <1>1, <1>2, <1>4
  <2>2. CASE UNCHANGED log \/ FilesOnly
    BY <2>1, <2>2 DEF TasksInOrder, FilesOnly
  <2>3. ASSUME NEW p \in Procs, NEW ending, NEW end,
               log' = [log EXCEPT ![view[p].pending.task] =
                         Written(@, p, ending, end)]
        PROVE  log'[t].events = 0
    <3>1. view[p].pending.task \in Nat /\ view[p].pending.task <= issued
      BY <1>1, SessionFields DEF TasksInOrder
    <3>2. t # view[p].pending.task
      BY <1>1, <1>4, <2>1, <3>1
    <3>3. log'[t] = log[t]
      BY <1>1, <2>3, <3>2
    <3> QED
      BY <2>1, <3>3 DEF TasksInOrder
  <2> QED
    BY <2>2, <2>3 DEF HistoryStep, TaskLogStep
<1> QED
  BY <1>5, <1>6, <1>7 DEF TasksInOrder

LEMMA PendingStaysSeen ==
  ASSUME SInv, TasksInOrder, PendingSeenWhole, HistoryStep
  PROVE  PendingSeenWhole'
<1> SUFFICES ASSUME NEW p \in Procs, view'[p].pending \in Turn,
                    view'[p].pending.task = session'.pending.task
             PROVE  view'[p] = session'
  BY DEF PendingSeenWhole
<1>1. /\ session \in SessionState /\ view[p] \in SessionState /\ issued \in Nat
      /\ view[p].pending.task <= issued
  BY SessionParameters DEF SInv, TypeOK, TasksInOrder
<1>2. Created.pending \notin Turn
  BY NoTurnIsNone DEF Created
<1>3. CASE view'[p] = view[p]
  <2>1. view[p].pending \in Turn /\ view[p].pending.task \in Nat
        /\ view[p].pending.task > 0
    BY <1>1, <1>3, SessionFields
  <2>2. CASE session' = session
    BY <1>3, <2>1, <2>2 DEF PendingSeenWhole
  <2>3. CASE Starts
    <3>1. session'.pending.task = issued + 1
      BY <1>1, <2>3, StartedFields
    <3> QED
      BY <1>1, <1>3, <2>1, <3>1
  <2>4. CASE \E q \in Procs, how \in {"committed", "failed"} : Settles(q, how)
    <3>1. session'.pending.task = 0
      BY <1>1, <2>4, SettledFields
    <3> QED
      BY <1>3, <2>1, <3>1
  <2>5. CASE Compacts
    <3>1. session'.pending.task = 0
      BY <1>1, <2>5, CompactedFields
    <3> QED
      BY <1>3, <2>1, <3>1
  <2> QED
    BY <2>2, <2>3, <2>4, <2>5 DEF HistoryStep, SessionStep, Rests
<1> QED
  BY <1>2, <1>3 DEF HistoryStep, ViewStep

LEMMA ContextStays ==
  ASSUME SInv, TasksInOrder, PendingSeenWhole, ContextKept, HistoryStep, TypeOK'
  PROVE  ContextKept'
<1> SUFFICES ASSUME NEW t \in Tasks, session'.pending # NoTurn,
                    session'.pending.task = t, log'[t].events > 0
             PROVE  log'[t].context = session'.turns
  BY DEF ContextKept, Pending
<1>1. /\ session \in SessionState /\ issued \in Nat
      /\ log \in [Tasks -> TaskLog] /\ log' \in [Tasks -> TaskLog]
      /\ view \in [Procs -> SessionState]
      /\ t \in Nat
  BY SessionParameters, TasksAreNumbers DEF SInv, TypeOK
<1>2. CASE session' = session
  <2>1. CASE UNCHANGED log \/ FilesOnly
    BY <1>2, <2>1 DEF ContextKept, Pending, FilesOnly
  <2>2. ASSUME NEW p \in Procs, NEW ending, NEW end, pc[p] = "run",
               log' = [log EXCEPT ![view[p].pending.task] =
                         Written(@, p, ending, end)]
        PROVE  log'[t].context = session'.turns
    <3>1. CASE t # view[p].pending.task
      BY <1>1, <1>2, <2>2, <3>1 DEF ContextKept, Pending
    <3>2. CASE t = view[p].pending.task
      <4>1. view[p].pending \in Turn
        BY <2>2 DEF SInv, Held
      <4>2. view[p] = session
        BY <1>2, <3>2, <4>1 DEF PendingSeenWhole
      <4>3. log'[t] = Written(log[t], p, ending, end)
        BY <1>1, <2>2, <3>2
      <4>4. log'[t].context =
              IF log[t].events = 0 THEN session.turns ELSE log[t].context
        BY <4>2, <4>3 DEF Written
      <4>5. log[t].events # 0 => log[t].events > 0
        BY <1>1, SessionParameters DEF TaskLog
      <4> QED
        BY <1>2, <4>4, <4>5 DEF ContextKept, Pending
    <3> QED
      BY <3>1, <3>2
  <2> QED
    BY <2>1, <2>2 DEF HistoryStep, TaskLogStep
<1>3. CASE Starts /\ UNCHANGED log
  <2>1. t = issued + 1
    BY <1>1, <1>3, StartedFields
  <2>2. t > issued
    BY <1>1, <2>1
  <2>3. log[t].events = 0
    BY <2>2 DEF TasksInOrder
  <2> QED
    BY <1>3, <2>3
<1>4. CASE \E q \in Procs, how \in {"committed", "failed"} : Settles(q, how)
  BY <1>1, <1>4, SettledFields
<1>5. CASE Compacts
  BY <1>1, <1>5, CompactedFields
<1> QED
  BY <1>2, <1>3, <1>4, <1>5 DEF HistoryStep, SessionStep, Rests

LEMMA OutcomesStay ==
  ASSUME SInv, EndsKnown, TasksInOrder, OutcomesFollowTasks, HistoryStep
  PROVE  OutcomesFollowTasks'
<1>1. /\ session \in SessionState /\ record \in Records
      /\ Len(record) \in Nat /\ DOMAIN record = 1..Len(record)
      /\ \A i \in 1..Len(record) : record[i].task \in Tasks
  BY RecordFields DEF SInv, TypeOK
<1>2. \A i \in DOMAIN record :
        IF record[i].how = "committed"
        THEN "completed" \in log'[record[i].task].ends
        ELSE "failed" \in log'[record[i].task].ends
  BY <1>1, EndsStay DEF OutcomesFollowTasks
<1>3. CASE record' = record
  BY <1>2, <1>3 DEF OutcomesFollowTasks
<1>4. ASSUME NEW p \in Procs, NEW how \in {"committed", "failed"},
             Settles(p, how), UNCHANGED log
      PROVE  OutcomesFollowTasks'
  <2> DEFINE new == [task |-> session.pending.task, how |-> how]
  <2>1. /\ record' = Append(record, new) /\ pc[p] = "finish" /\ view[p] = session
    BY <1>4 DEF Settles
  <2>2. IF how = "committed" THEN "completed" \in log[session.pending.task].ends
        ELSE "failed" \in log[session.pending.task].ends
    BY <1>4, <2>1 DEF EndsKnown, Settles
  <2>3. /\ DOMAIN record' = 1..Len(record) + 1
        /\ record'[Len(record) + 1] = new
        /\ \A i \in DOMAIN record : record'[i] = record[i]
    BY <1>1, <2>1 DEF Records
  <2>4. \A i \in DOMAIN record' : i \in DOMAIN record \/ i = Len(record) + 1
    BY <1>1, <2>3
  <2>5. \A i \in DOMAIN record : record[i].task # new.task
    BY <1>1 DEF TasksInOrder
  <2>6. \A i \in DOMAIN record' :
          IF record'[i].how = "committed"
          THEN "completed" \in log'[record'[i].task].ends
          ELSE "failed" \in log'[record'[i].task].ends
    BY <1>2, <1>4, <2>2, <2>3, <2>4
  <2>7. \A i, j \in DOMAIN record' : record'[i].task = record'[j].task => i = j
    BY <2>3, <2>4, <2>5 DEF OutcomesFollowTasks
  <2> QED
    BY <2>6, <2>7 DEF OutcomesFollowTasks
<1> QED
  BY <1>3, <1>4 DEF HistoryStep, SessionStep, Rests, Starts, Compacts

(* A settled turn joins the record, and a committed one the session's turns. *)
LEMMA TurnSettles ==
  ASSUME SInv, TurnsAreCommitted, NEW p \in Procs,
         NEW how \in {"committed", "failed"}, Settles(p, how)
  PROVE  TurnsAreCommitted'
<1> DEFINE n == Len(record)
           new == [task |-> session.pending.task, how |-> how]
<1>1. /\ session \in SessionState /\ record \in Records /\ n \in Nat
      /\ session.through \in Nat /\ session.completed \in Nat
      /\ session.turns \in Seq(Turn) /\ Len(session.turns) \in Nat
      /\ session.pending \in Turn
  BY RecordFields, SessionFields DEF SInv, TypeOK, Settles
<1>2. session.pending.index = n + 1 /\ session.through <= n
  BY <1>1, NoTurnIsNone DEF TurnsAreCommitted
<1>3. /\ session'.pending = NoTurn /\ session'.completed = n + 1
      /\ session'.through = session.through
      /\ session'.turns = IF how = "committed"
                          THEN Append(session.turns, session.pending)
                          ELSE session.turns
  BY <1>1, <1>2, SettledFields
<1>4. record' = Append(record, new)
  BY DEF Settles
<1>5. /\ Len(record') = n + 1 /\ record'[n + 1] = new
      /\ \A i \in 1..n : record'[i] = record[i]
  BY <1>1, <1>4 DEF Records
<1>6. \A k \in 1..Len(session.turns) :
        /\ session.through < session.turns[k].index /\ session.turns[k].index <= n
        /\ session.turns[k].index \in 1..n
        /\ record[session.turns[k].index] =
             [task |-> session.turns[k].task, how |-> "committed"]
  <2> TAKE k \in 1..Len(session.turns)
  <2>1. session.turns[k] \in Turn
    BY <1>1
  <2>2. session.turns[k].index \in Nat
    BY <2>1 DEF Turn
  <2> QED
    BY <1>1, <2>2 DEF TurnsAreCommitted
<1> HIDE DEF n, new
<1>9. /\ Len(record') = session'.completed /\ session'.through <= session'.completed
      /\ session'.pending = NoTurn
  BY <1>1, <1>2, <1>3, <1>5
<1>7. CASE how = "failed"
  <2>1. session'.turns = session.turns
    BY <1>3, <1>7
  <2>2. new.how # "committed"
    BY <1>7 DEF new
  <2>3. \A k \in 1..Len(session'.turns) :
          /\ session'.through < session'.turns[k].index
          /\ session'.turns[k].index <= Len(record')
          /\ record'[session'.turns[k].index] =
               [task |-> session'.turns[k].task, how |-> "committed"]
    <3> SUFFICES ASSUME NEW k \in 1..Len(session.turns)
                 PROVE  /\ session.through < session.turns[k].index
                        /\ session.turns[k].index <= n + 1
                        /\ record'[session.turns[k].index] =
                             [task |-> session.turns[k].task, how |-> "committed"]
      BY <1>3, <1>5, <2>1
    <3>1. session.turns[k].index \in 1..n /\ session.through < session.turns[k].index
      BY <1>6
    <3>2. record'[session.turns[k].index] = record[session.turns[k].index]
      BY <1>5, <3>1
    <3> QED
      BY <1>1, <1>6, <3>1, <3>2
  <2>4. \A k, m \in 1..Len(session'.turns) :
          k < m => session'.turns[k].index < session'.turns[m].index
    BY <2>1 DEF TurnsAreCommitted
  <2>5. ASSUME NEW i \in 1..Len(record'), record'[i].how = "committed",
               i > session'.through
        PROVE  \E k \in 1..Len(session'.turns) : session'.turns[k].index = i
    <3>1. i # n + 1
      BY <1>5, <2>2, <2>5
    <3>2. i \in 1..n
      BY <1>1, <1>5, <3>1
    <3> QED
      BY <1>3, <1>5, <2>1, <2>5, <3>2 DEF TurnsAreCommitted, n
  <2> QED
    BY <1>9, <2>3, <2>4, <2>5 DEF TurnsAreCommitted
<1>8. CASE how = "committed"
  <2> DEFINE l == Len(session.turns)
  <2>1. session'.turns = Append(session.turns, session.pending)
    BY <1>3, <1>8
  <2>2. /\ Len(session'.turns) = l + 1 /\ session'.turns[l + 1] = session.pending
        /\ \A k \in 1..l : session'.turns[k] = session.turns[k]
        /\ l \in Nat
    BY <1>1, <2>1
  <2>3. new = [task |-> session.pending.task, how |-> "committed"]
    BY <1>8 DEF new
  <2>4. \A k \in 1..l + 1 : k \in 1..l \/ k = l + 1
    BY <2>2
  <2> HIDE DEF l
  <2>5. \A k \in 1..Len(session'.turns) :
          /\ session'.through < session'.turns[k].index
          /\ session'.turns[k].index <= Len(record')
          /\ record'[session'.turns[k].index] =
               [task |-> session'.turns[k].task, how |-> "committed"]
    <3>1. \A k \in 1..l :
            /\ session'.through < session'.turns[k].index
            /\ session'.turns[k].index <= Len(record')
            /\ record'[session'.turns[k].index] =
                 [task |-> session'.turns[k].task, how |-> "committed"]
      BY <1>1, <1>3, <1>5, <1>6, <2>2 DEF l
    <3>2. /\ session'.through < session'.turns[l + 1].index
          /\ session'.turns[l + 1].index <= Len(record')
          /\ record'[session'.turns[l + 1].index] =
               [task |-> session'.turns[l + 1].task, how |-> "committed"]
      BY <1>1, <1>2, <1>3, <1>5, <2>2, <2>3
    <3> QED
      BY <2>2, <2>4, <3>1, <3>2
  <2>6. \A k, m \in 1..Len(session'.turns) :
          k < m => session'.turns[k].index < session'.turns[m].index
    <3> SUFFICES ASSUME NEW k \in 1..l + 1, NEW m \in 1..l + 1, k < m
                 PROVE  session'.turns[k].index < session'.turns[m].index
      BY <2>2
    <3>1. k \in 1..l
      BY <2>2
    <3>2. CASE m \in 1..l
      BY <2>2, <3>1, <3>2 DEF TurnsAreCommitted, l
    <3>3. CASE m = l + 1
      <4>1. session'.turns[m].index = n + 1
        BY <1>2, <2>2, <3>3
      <4>2. session.turns[k].index \in 1..n
        BY <1>6, <3>1 DEF l
      <4>3. session'.turns[k].index = session.turns[k].index
        BY <2>2, <3>1
      <4> QED
        BY <1>1, <4>1, <4>2, <4>3
    <3> QED
      BY <2>4, <3>2, <3>3
  <2>7. ASSUME NEW i \in 1..Len(record'), record'[i].how = "committed",
               i > session'.through
        PROVE  \E k \in 1..Len(session'.turns) : session'.turns[k].index = i
    <3>1. CASE i = n + 1
      BY <1>2, <2>2, <3>1
    <3>2. CASE i # n + 1
      <4>1. i \in 1..n
        BY <1>1, <1>5, <3>2
      <4>2. \E k \in 1..l : session.turns[k].index = i
        BY <1>3, <1>5, <2>7, <4>1 DEF TurnsAreCommitted, n, l
      <4> QED
        BY <2>2, <4>2
    <3> QED
      BY <3>1, <3>2
  <2> QED
    BY <1>9, <2>5, <2>6, <2>7 DEF TurnsAreCommitted
<1> QED
  BY <1>7, <1>8

(* A compaction drops the first turns, and moves the mark past exactly those. *)
LEMMA TurnsCompact ==
  ASSUME SInv, TurnsAreCommitted, Compacts
  PROVE  TurnsAreCommitted'
<1>1. /\ session \in SessionState /\ Len(record) \in Nat
      /\ session.through \in Nat /\ session.completed \in Nat
      /\ session.turns \in Seq(Turn) /\ Len(session.turns) \in Nat
      /\ record' = record
  BY RecordFields, SessionFields DEF SInv, TypeOK, Compacts
<1> DEFINE l == Len(session.turns)
<1>2. PICK first \in 1..l :
        /\ session'.through = session.turns[first].index
        /\ session'.turns = SubSeq(session.turns, first + 1, l)
        /\ session'.pending = NoTurn /\ session'.completed = session.completed
  BY <1>1, CompactedFields
<1>3. /\ first \in Nat /\ l \in Nat /\ first <= l
      /\ Len(session'.turns) = l - first
      /\ \A k \in 1..l - first :
           /\ session'.turns[k] = session.turns[first + k]
           /\ first + k \in 1..l /\ first < first + k
  BY <1>1, <1>2
<1>4. \A k \in 1..l : session.turns[k].index \in Nat
  <2> TAKE k \in 1..l
  <2>1. session.turns[k] \in Turn
    BY <1>1
  <2> QED
    BY <2>1 DEF Turn
<1>5. session'.through <= session'.completed
  BY <1>1, <1>2, <1>4 DEF TurnsAreCommitted
<1>6. \A k \in 1..Len(session'.turns) :
        /\ session'.through < session'.turns[k].index
        /\ session'.turns[k].index <= Len(record)
        /\ record[session'.turns[k].index] =
             [task |-> session'.turns[k].task, how |-> "committed"]
  BY <1>2, <1>3, SMTT(20) DEF TurnsAreCommitted
<1>7. \A k, m \in 1..Len(session'.turns) :
        k < m => session'.turns[k].index < session'.turns[m].index
  <2> SUFFICES ASSUME NEW k \in 1..l - first, NEW m \in 1..l - first, k < m
               PROVE  session'.turns[k].index < session'.turns[m].index
    BY <1>3
  <2>1. first + k \in 1..l /\ first + m \in 1..l /\ first + k < first + m
    BY <1>3
  <2>2. session.turns[first + k].index < session.turns[first + m].index
    BY <2>1 DEF TurnsAreCommitted
  <2> QED
    BY <1>3, <2>2
<1>8. ASSUME NEW i \in 1..Len(record), record[i].how = "committed",
             i > session'.through
      PROVE  \E k \in 1..Len(session'.turns) : session'.turns[k].index = i
  <2>1. i > session.through
    <3>1. session.through < session.turns[first].index
      BY <1>2 DEF TurnsAreCommitted
    <3>2. session.turns[first].index \in Nat /\ i \in Nat
      BY <1>1, <1>2, <1>4
    <3> QED
      BY <1>1, <1>2, <1>8, <3>1, <3>2, SMTT(20)
  <2>2. PICK m \in 1..l : session.turns[m].index = i
    BY <1>8, <2>1 DEF TurnsAreCommitted
  <2>3. m > first
    <3>1. CASE m = first
      BY <1>2, <1>4, <1>8, <2>2, <3>1
    <3>2. CASE m < first
      <4>1. session.turns[m].index < session.turns[first].index
        BY <3>2 DEF TurnsAreCommitted
      <4> QED
        BY <1>2, <1>4, <1>8, <2>2, <4>1
    <3> QED
      BY <1>3, <3>1, <3>2
  <2>4. m - first \in 1..l - first /\ first + (m - first) = m
    BY <1>3, <2>3
  <2> QED
    BY <1>3, <2>2, <2>4
<1> QED
  BY <1>1, <1>2, <1>5, <1>6, <1>7, <1>8 DEF TurnsAreCommitted

LEMMA TurnsStayCommitted ==
  ASSUME SInv, TurnsAreCommitted, HistoryStep
  PROVE  TurnsAreCommitted'
<1>1. CASE Rests
  BY <1>1 DEF Rests, TurnsAreCommitted
<1>2. CASE Starts
  <2>1. session \in SessionState
    BY DEF SInv, TypeOK
  <2>2. record' = record
    BY <1>2 DEF Starts
  <2> QED
    BY <1>2, <2>1, <2>2, StartedFields DEF TurnsAreCommitted
<1> QED
  BY <1>1, <1>2, TurnSettles, TurnsCompact DEF HistoryStep, SessionStep

LEMMA HistoryInit == Init => HistoryInv
<1> SUFFICES ASSUME Init PROVE HistoryInv
  OBVIOUS
<1>1. /\ session = Created /\ record = <<>> /\ issued = 0
      /\ log = [t \in Tasks |-> NoLog] /\ pc = [p \in Procs |-> "idle"]
      /\ view = [p \in Procs |-> Created]
  BY DEF Init
<1>2. /\ session.pending = NoTurn /\ session.pending.task = 0
      /\ session.turns = <<>> /\ session.completed = 0 /\ session.through = 0
      /\ \A p \in Procs : view[p].pending.task = 0 /\ view[p].pending = NoTurn
  BY <1>1 DEF Created, NoTurn
<1>3. \A t \in Tasks : log[t].ending = "none" /\ log[t].events = 0
  BY <1>1 DEF NoLog
<1>4. Len(record) = 0 /\ DOMAIN record = {} /\ Len(session.turns) = 0
  BY <1>1, <1>2
<1>5. EndsKnown /\ TasksInOrder
  BY <1>1, <1>2, <1>3, <1>4 DEF EndsKnown, TasksInOrder
<1>6. PendingSeenWhole /\ ContextKept /\ OutcomesFollowTasks
  BY <1>1, <1>2, <1>4 DEF PendingSeenWhole, ContextKept, Pending, OutcomesFollowTasks
<1>7. TurnsAreCommitted
  BY <1>1, <1>2, <1>4 DEF TurnsAreCommitted
<1> QED
  BY <1>5, <1>6, <1>7 DEF HistoryInv

LEMMA HistoryKept == SInv /\ HistoryInv /\ [Next]_vars => HistoryInv'
<1> SUFFICES ASSUME SInv, HistoryInv, [Next]_vars
             PROVE  HistoryInv'
  OBVIOUS
<1>1. HistoryStep
  BY EveryHistoryStep DEF HistoryInv
<1>2. TypeOK'
  BY NextKeeps DEF SInv
<1> QED
  BY <1>1, <1>2, EndsKnownStays, TasksStayInOrder, PendingStaysSeen, ContextStays,
     OutcomesStay, TurnsStayCommitted
     DEF HistoryInv

(* The history of a session holds in every state, for any number of processes,    *)
(* turns, crashes and faults.                                                      *)
THEOREM HistoryInductive == Spec => [](SInv /\ HistoryInv)
<1> QED
  BY HistoryInit, HistoryKept, SessionInductive, PTL DEF Spec

(* The task of the pending turn was started from the conversation the session      *)
(* still has, whoever started it and whoever resumes it (validate_recovery_task).  *)
THEOREM ContextSafety == Spec => []ContextKept
<1>1. HistoryInv => ContextKept
  BY DEF HistoryInv
<1> QED
  BY <1>1, HistoryInductive, PTL

(* A turn is settled once, and as a terminal in its task's log says                *)
(* (finalize_turn, recover_pending_turn).                                          *)
THEOREM OutcomeSafety == Spec => []OutcomesFollowTasks
<1>1. HistoryInv => OutcomesFollowTasks
  BY DEF HistoryInv
<1> QED
  BY <1>1, HistoryInductive, PTL
--------------------------------------------------------------------------------
(* A list of distinct numbers that names every element of a set counts it. *)
LEMMA CountedByList ==
  ASSUME NEW S, NEW n \in Nat, NEW f, f \in [1..n -> S],
         \A j, k \in 1..n : j # k => f[j] # f[k],
         \A x \in S : \E j \in 1..n : f[j] = x
  PROVE  Cardinality(S) = n
<1>1. f \in Injection(1..n, S)
  BY DEF Injection, IsInjective
<1>2. f \in Surjection(1..n, S)
  BY DEF Surjection
<1>3. ExistsBijection(1..n, S)
  BY <1>1, <1>2 DEF Bijection, ExistsBijection
<1> QED
  BY <1>3, FS_CountingElements

(* The turns after the k first ones are the answers committed after the mark they *)
(* start from. *)
LEMMA AnswersCounted ==
  ASSUME SInv, TurnsAreCommitted, NEW k \in 0..Len(session.turns), NEW after \in Nat,
         after = IF k = 0 THEN session.through ELSE session.turns[k].index
  PROVE  Cardinality(Committed(after)) = Len(session.turns) - k
<1> DEFINE l == Len(session.turns)
           n == l - k
           f == [j \in 1..n |-> session.turns[k + j].index]
<1>1. /\ session.turns \in Seq(Turn) /\ l \in Nat /\ k \in Nat /\ k <= l
      /\ n \in Nat /\ session.through \in Nat
      /\ Len(record) \in Nat /\ DOMAIN record = 1..Len(record)
  BY RecordFields, SessionFields DEF SInv, TypeOK
<1>2. ASSUME NEW m \in 1..l
      PROVE  /\ session.turns[m].index \in Nat
             /\ session.turns[m].index \in 1..Len(record)
             /\ session.through < session.turns[m].index
             /\ record[session.turns[m].index].how = "committed"
  <2>1. session.turns[m] \in Turn
    BY <1>1
  <2>2. session.turns[m].index \in Nat
    BY <2>1 DEF Turn
  <2>3. /\ session.through < session.turns[m].index
        /\ session.turns[m].index <= Len(record)
        /\ record[session.turns[m].index].how = "committed"
    <3>1. /\ session.through < session.turns[m].index
          /\ session.turns[m].index <= Len(record)
          /\ record[session.turns[m].index] =
               [task |-> session.turns[m].task, how |-> "committed"]
      BY DEF TurnsAreCommitted
    <3> QED
      BY <3>1
  <2> QED
    BY <1>1, <2>2, <2>3
<1>3. ASSUME NEW m \in 1..l, m > k
      PROVE  session.turns[m].index > after
  <2>1. CASE k = 0
    BY <1>2, <2>1
  <2>2. CASE k # 0
    <3>1. k \in 1..l /\ k < m
      BY <1>1, <1>3, <2>2
    <3>2. session.turns[k].index < session.turns[m].index
      BY <3>1 DEF TurnsAreCommitted
    <3> QED
      BY <1>2, <2>2, <3>1, <3>2
  <2> QED
    BY <2>1, <2>2
<1>4. after >= session.through
  <2>1. CASE k # 0
    <3>1. k \in 1..l
      BY <1>1, <2>1
    <3> QED
      BY <1>1, <1>2, <2>1, <3>1
  <2> QED
    BY <1>1, <2>1
<1>5. f \in [1..n -> Committed(after)]
  <2> SUFFICES ASSUME NEW j \in 1..n
               PROVE  session.turns[k + j].index \in Committed(after)
    OBVIOUS
  <2>1. k + j \in 1..l /\ k + j > k
    BY <1>1
  <2> QED
    BY <1>1, <1>2, <1>3, <2>1 DEF Committed
<1>6. \A i, j \in 1..n : i # j => f[i] # f[j]
  <2> SUFFICES ASSUME NEW i \in 1..n, NEW j \in 1..n, i < j
               PROVE  f[i] # f[j]
    <3>1. \A i, j \in 1..n : i < j \/ j < i \/ i = j
      BY <1>1
    <3> QED
      BY <3>1
  <2>1. k + i \in 1..l /\ k + j \in 1..l /\ k + i < k + j
    BY <1>1
  <2>2. session.turns[k + i].index < session.turns[k + j].index
    BY <2>1 DEF TurnsAreCommitted
  <2>3. f[i] = session.turns[k + i].index /\ f[j] = session.turns[k + j].index
    OBVIOUS
  <2> HIDE DEF f
  <2> QED
    BY <1>2, <2>1, <2>2, <2>3
<1>7. \A i \in Committed(after) : \E j \in 1..n : f[j] = i
  <2> SUFFICES ASSUME NEW i \in 1..Len(record), record[i].how = "committed", i > after
               PROVE  \E j \in 1..n : f[j] = i
    BY <1>1 DEF Committed
  <2>1. i > session.through
    BY <1>1, <1>4
  <2>2. PICK m \in 1..l : session.turns[m].index = i
    BY <2>1 DEF TurnsAreCommitted
  <2>3. m > k
    <3> SUFFICES ASSUME ~(m > k)
                 PROVE  FALSE
      OBVIOUS
    <3>1. k \in 1..l /\ k # 0 /\ (m = k \/ m < k)
      BY <1>1
    <3>2. m < k => session.turns[m].index < session.turns[k].index
      BY <3>1 DEF TurnsAreCommitted
    <3> QED
      BY <1>2, <2>2, <3>1, <3>2
  <2>4. m - k \in 1..n /\ k + (m - k) = m
    BY <1>1, <2>3
  <2> QED
    BY <2>2, <2>4
<1> HIDE DEF f, n
<1>8. Cardinality(Committed(after)) = n
  <2> SUFFICES ASSUME NEW S, S = Committed(after)
               PROVE  Cardinality(S) = n
    OBVIOUS
  <2>1. /\ n \in Nat /\ f \in [1..n -> S]
        /\ \A i, j \in 1..n : i # j => f[i] # f[j]
        /\ \A x \in S : \E j \in 1..n : f[j] = x
    BY <1>1, <1>5, <1>6, <1>7
  <2> QED
    BY <2>1, CountedByList
<1> QED
  BY <1>8 DEF n

(* The session has every answer it ever committed, once and in order, across all  *)
(* the compactions: those after the compacted prefix are its turns, and nothing    *)
(* else is (reduce_session_event, SessionEngine::append_event).                    *)
THEOREM AnswerSafety == Spec => []AnswersKept
<1>1. SInv /\ HistoryInv => AnswersKept
  <2> SUFFICES ASSUME SInv, TurnsAreCommitted
               PROVE  AnswersKept
    BY DEF HistoryInv
  <2>1. /\ session.turns \in Seq(Turn) /\ Len(session.turns) \in Nat
        /\ session.through \in Nat
        /\ DOMAIN session.turns = 1..Len(session.turns)
        /\ Len(record) \in Nat /\ DOMAIN record = 1..Len(record)
    BY RecordFields, SessionFields DEF SInv, TypeOK
  <2>2. Len(session.turns) = Cardinality(Committed(session.through))
    <3>1. 0 \in 0..Len(session.turns) /\ Len(session.turns) - 0 = Len(session.turns)
      BY <2>1
    <3> QED
      BY <2>1, <3>1, AnswersCounted
  <2>3. ASSUME NEW k \in 1..Len(session.turns)
        PROVE  /\ session.turns[k].index \in Committed(session.through)
               /\ record[session.turns[k].index].task = session.turns[k].task
               /\ Cardinality(Committed(session.turns[k].index)) =
                    Len(session.turns) - k
    <3>1. session.turns[k].index \in Nat
      <4>1. session.turns[k] \in Turn
        BY <2>1
      <4> QED
        BY <4>1 DEF Turn
    <3>2. /\ session.through < session.turns[k].index
          /\ session.turns[k].index <= Len(record)
          /\ record[session.turns[k].index] =
               [task |-> session.turns[k].task, how |-> "committed"]
      BY DEF TurnsAreCommitted
    <3>3. session.turns[k].index \in 1..Len(record)
      BY <2>1, <3>1, <3>2
    <3>4. k \in 0..Len(session.turns) /\ k # 0
      BY <2>1
    <3>5. Cardinality(Committed(session.turns[k].index)) = Len(session.turns) - k
      BY <3>1, <3>4, AnswersCounted
    <3> QED
      BY <2>1, <3>1, <3>2, <3>3, <3>5 DEF Committed
  <2> QED
    BY <2>1, <2>2, <2>3 DEF AnswersKept, TurnsAreCommitted
<1> QED
  BY <1>1, HistoryInductive, PTL
================================================================================

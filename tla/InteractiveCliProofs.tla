--------------------------- MODULE InteractiveCliProofs ----------------------------
(* What holds of the interactive program for every provider, every number of       *)
(* sessions, commands, rounds and attempts, and any size of the channel: that what *)
(* is left has been caught up, that a Ctrl+C is heard, that nothing a turn says is *)
(* lost on its way to the screen, and that the screen ends with the answer.        *)
EXTENDS InteractiveCli, SequenceTheorems, FiniteSetTheorems, WellFoundedInduction, TLAPS

Points == {"start", "prompt", "begin", "install", "turn", "confirm", "exited", "killed"}
Kinds == {"none", "prompt", "plan", "recover"}
WorkerFields == {"pc", "round", "outcome", "answer", "session", "commit", "interrupted"}
CallFields == {"pc", "attempt", "reply", "at", "outcome", "result", "observed"}

(* ------------------------------- what is left ------------------------------------ *)

CliTypes ==
  /\ cli \in [pc : Points, memory : BOOLEAN, id : Sessions \cup {NoSession}, turns : Nat,
              turn : [kind : Kinds]]
  /\ DOMAIN store \subseteq Sessions /\ store \in [DOMAIN store -> Session]
  /\ asked \in [Sessions -> Nat]
  /\ left \subseteq DOMAIN store
  /\ IF cli.pc = "start" THEN left = {} ELSE cli.id \in DOMAIN store
  /\ worker = [x \in WorkerFields |-> worker[x]] /\ worker.session \in Nat \cup {Unloaded}
  /\ worker.commit \in {"no", "made", "unheard"}

(* The session a turn returns is as new as the log, unless the log has an event    *)
(* whose append was reported failed; a turn that returns none wrote none.          *)
ResultIsFresh ==
  cli.pc = "turn" =>
    IF worker.session = Unloaded THEN worker.commit = "no"
    ELSE worker.commit = "unheard" \/ worker.session >= store[cli.id].turns

(* The program's copy of the current session is as new as the log, unless it is    *)
(* known to be behind or the turn's last event has just been written.              *)
CopyIsFresh ==
  /\ cli.pc \notin {"start", "killed"} =>
       \/ cli.turns >= store[cli.id].turns
       \/ cli.id \in behind
       \/ cli.pc = "turn" /\ worker.commit # "no"
  /\ ResultIsFresh

LeftInv == CliTypes /\ CopyIsFresh /\ LeftIsCaughtUp

(* A step of the turn: the session's log may grow, the main thread stays.          *)
TurnGoesOn ==
  /\ cli.pc \notin {"start", "exited"} /\ UNCHANGED <<cli, asked, left, behind>>
  /\ worker' = [x \in WorkerFields |-> worker'[x]]
  /\ \/ /\ store' = store \/ store' = [store EXCEPT ![cli.id].pending = TRUE]
        /\ worker'.commit = worker.commit
        /\ worker'.session \in {worker.session, store[cli.id].turns}
     \/ /\ store' = Committed /\ InTurn
        /\ \/ worker'.commit = "unheard" /\ worker'.session = store[cli.id].turns
           \/ worker'.commit = "made" /\ worker'.session = store[cli.id].turns + 1

LEMMA TurnKeepsLeft ==
  ASSUME LeftInv, TurnGoesOn
  PROVE  LeftInv'
<1>1. cli.id \in DOMAIN store /\ store[cli.id] \in Session /\ store[cli.id].turns \in Nat
  BY DEF TurnGoesOn, InTurn, LeftInv, CliTypes, Session
<1>2. /\ DOMAIN store' = DOMAIN store /\ store' \in [DOMAIN store -> Session]
      /\ \A s \in DOMAIN store : s # cli.id => store'[s] = store[s]
      /\ \/ store'[cli.id].turns = store[cli.id].turns
         \/ store' = Committed /\ store'[cli.id].turns = store[cli.id].turns + 1
  <2>1. CASE store' = store
    BY <1>1, <2>1 DEF LeftInv, CliTypes
  <2>2. CASE store' = [store EXCEPT ![cli.id].pending = TRUE]
    BY <1>1, <2>2 DEF LeftInv, CliTypes, Session
  <2>3. CASE store' = Committed
    BY <1>1, <2>3 DEF LeftInv, CliTypes, Session, Committed
  <2> QED
    BY <2>1, <2>2, <2>3 DEF TurnGoesOn
<1>3. CASE /\ store' = store \/ store' = [store EXCEPT ![cli.id].pending = TRUE]
           /\ worker'.commit = worker.commit
           /\ worker'.session \in {worker.session, store[cli.id].turns}
  <2>1. store'[cli.id].turns = store[cli.id].turns
    BY <1>1, <1>3 DEF LeftInv, CliTypes, Session
  <2>2. worker'.session \in Nat \cup {Unloaded}
    BY <1>1, <1>3 DEF LeftInv, CliTypes
  <2>3. CopyIsFresh'
    BY <1>1, <1>3, <2>1 DEF TurnGoesOn, LeftInv, CliTypes, CopyIsFresh, ResultIsFresh, Unloaded
  <2> QED
    BY <1>1, <1>2, <2>2, <2>3 DEF TurnGoesOn, LeftInv, CliTypes, LeftIsCaughtUp
<1>4. CASE /\ store' = Committed /\ InTurn
           /\ \/ worker'.commit = "unheard" /\ worker'.session = store[cli.id].turns
              \/ worker'.commit = "made" /\ worker'.session = store[cli.id].turns + 1
  <2>1. store'[cli.id].turns = store[cli.id].turns + 1
    BY <1>1, <1>4 DEF LeftInv, CliTypes, Committed
  <2>2. worker'.session \in Nat /\ worker'.session # Unloaded
    BY <1>1, <1>4 DEF Unloaded
  <2>3. CopyIsFresh'
    BY <1>1, <1>4, <2>1, <2>2 DEF TurnGoesOn, InTurn, CopyIsFresh, ResultIsFresh
  <2>4. LeftIsCaughtUp'
    BY <1>1, <1>2, <1>4 DEF TurnGoesOn, InTurn, LeftInv, CliTypes, LeftIsCaughtUp
  <2> QED
    BY <1>1, <1>2, <2>2, <2>3, <2>4 DEF TurnGoesOn, LeftInv, CliTypes
<1> QED
  BY <1>3, <1>4 DEF TurnGoesOn

(* The fields of the worker after a step. *)
LEMMA WorkerStarts ==
  /\ NoWorker.session = Unloaded /\ NoWorker.commit = "no"
  /\ \A p : [NoWorker EXCEPT !.pc = p].session = Unloaded /\ [NoWorker EXCEPT !.pc = p].commit = "no"
  /\ NoWorker = [x \in WorkerFields |-> NoWorker[x]]
  /\ \A p : [NoWorker EXCEPT !.pc = p] = [x \in WorkerFields |-> [NoWorker EXCEPT !.pc = p][x]]
BY DEF NoWorker, WorkerFields

LEMMA ThreadGoesOn ==
  ASSUME LeftInv, InTurn, WorkerStep \/ Request \/ TurnFails \/ DisplayStep \/ TerminalFails
  PROVE  TurnGoesOn
<1> USE DEF InTurn, Rest, WorkerFields
<1>0. worker = [x \in WorkerFields |-> worker[x]]
  BY DEF LeftInv, CliTypes
<1>1. CASE UNCHANGED <<cli, asked, left, behind, store, worker>>
  BY <1>0, <1>1 DEF TurnGoesOn
<1>2. CASE \E compacts \in BOOLEAN : Begins(compacts)
  BY <1>0, <1>2 DEF Begins, Refused, Loaded, TurnGoesOn
<1>3. CASE Round
  BY <1>0, <1>3 DEF Round, Ended, TurnGoesOn
<1>4. CASE \E observed \in BOOLEAN : Calls(observed)
  BY <1>0, <1>4 DEF Calls, TurnGoesOn
<1>5. CASE HearsAnswer
  BY <1>0, <1>5 DEF HearsAnswer, Ended, TurnGoesOn
<1>6. CASE \E verdict \in {"ToolCallSucceeded", "ToolCallFailed"} : UsesTool(verdict)
  BY <1>0, <1>6 DEF UsesTool, Ended, TurnGoesOn
<1>7. CASE Settles
  BY <1>0, <1>7 DEF Settles, Loaded, TurnGoesOn
<1>8. CASE TurnFails
  <2>1. CASE LoadFails
    BY <1>0, <2>1 DEF LoadFails, TurnGoesOn
  <2>2. CASE \E compacts, started \in BOOLEAN : BeginFails(compacts, started)
    BY <1>0, <2>2 DEF BeginFails, Refused, Loaded, TurnGoesOn
  <2>3. CASE CommitFails(TRUE)
    BY <1>0, <2>3 DEF CommitFails, Loaded, TurnGoesOn
  <2>4. CASE CommitFails(FALSE)
    BY <1>0, <2>4 DEF CommitFails, Loaded, TurnGoesOn
  <2> QED
    BY <1>8, <2>1, <2>2, <2>3, <2>4 DEF TurnFails
<1>9. CASE Ends
  BY <1>0, <1>9 DEF Ends, TurnGoesOn
<1>10. CASE Says
  BY <1>1, <1>10 DEF Says
<1>11. CASE Request \/ DisplayStep \/ TerminalFails
  BY <1>1, <1>11 DEF Request, DisplayStep, TerminalFails, CancelTurn, Joins, Shown
<1> QED
  BY <1>2, <1>3, <1>4, <1>5, <1>6, <1>7, <1>8, <1>9, <1>10, <1>11 DEF WorkerStep

LEMMA InterruptKeepsLeft ==
  ASSUME LeftInv, Interrupt
  PROVE  LeftInv'
<1>1. CASE handler
  <2>1. TurnGoesOn
    BY <1>1 DEF Interrupt, TurnGoesOn, LeftInv, CliTypes, WorkerFields
  <2> QED
    BY <2>1, TurnKeepsLeft
<1>2. CASE ~handler
  <2>1. /\ cli' = [cli EXCEPT !.pc = "killed"] /\ cli.pc \notin {"start", "exited"}
        /\ UNCHANGED <<store, asked, left, behind, worker>>
    BY <1>2 DEF Interrupt
  <2>2. CliTypes'
    BY <2>1 DEF LeftInv, CliTypes, Points
  <2> QED
    BY <2>1, <2>2 DEF LeftInv, CliTypes, CopyIsFresh, ResultIsFresh, LeftIsCaughtUp
<1> QED
  BY <1>1, <1>2

(* A session that is left is caught up. *)
LEMMA LeavingCatchesUp ==
  ASSUME LeftInv, cli.pc = "prompt", ConsolidateCurrent, Leaves
  PROVE  /\ asked' \in [Sessions -> Nat] /\ left' \subseteq DOMAIN store
         /\ \A s \in left' : asked'[s] >= store[s].turns \/ s \in behind
<1>1. /\ cli.id \in DOMAIN store /\ DOMAIN store \subseteq Sessions /\ cli.turns \in Nat
      /\ \A s \in DOMAIN store : store[s].turns \in Nat /\ asked[s] \in Nat
  BY DEF LeftInv, CliTypes, Session
<1>2. CASE cli.memory
  <2>1. /\ left' = left \cup {cli.id}
        /\ asked' = [asked EXCEPT ![cli.id] = Larger(asked[cli.id], cli.turns)]
    BY <1>2 DEF Leaves, ConsolidateCurrent, Consolidated
  <2>2. /\ Larger(asked[cli.id], cli.turns) \in Nat
        /\ Larger(asked[cli.id], cli.turns) >= cli.turns
    BY <1>1 DEF Larger
  <2>3. cli.turns >= store[cli.id].turns \/ cli.id \in behind
    BY DEF LeftInv, CopyIsFresh
  <2>4. asked'[cli.id] = Larger(asked[cli.id], cli.turns)
    BY <1>1, <2>1 DEF LeftInv, CliTypes
  <2>5. asked'[cli.id] >= store[cli.id].turns \/ cli.id \in behind
    BY <1>1, <2>2, <2>3, <2>4
  <2>6. \A s \in left : s # cli.id => asked'[s] = asked[s] /\ (asked[s] >= store[s].turns \/ s \in behind)
    BY <1>1, <2>1 DEF LeftInv, CliTypes, LeftIsCaughtUp
  <2> QED
    BY <1>1, <2>1, <2>2, <2>5, <2>6 DEF LeftInv, CliTypes
<1>3. CASE ~cli.memory
  BY <1>3 DEF Leaves, ConsolidateCurrent, Consolidated, LeftInv, CliTypes, LeftIsCaughtUp
<1> QED
  BY <1>2, <1>3 DEF LeftInv, CliTypes

LEMMA CreatesSession ==
  ASSUME CliTypes, NEW s \in Sessions, Creates(s)
  PROVE  /\ DOMAIN store' \subseteq Sessions /\ store' \in [DOMAIN store' -> Session]
         /\ DOMAIN store \subseteq DOMAIN store' /\ s \in DOMAIN store'
         /\ \A x \in DOMAIN store : store'[x] = store[x]
         /\ store'[s].turns = 0
         /\ cli' \in [pc : Points, memory : BOOLEAN, id : Sessions \cup {NoSession}, turns : Nat,
                      turn : [kind : Kinds]]
         /\ cli'.pc = "prompt" /\ cli'.id = s /\ cli'.turns = 0
<1>1. /\ s \notin DOMAIN store
      /\ store' = [x \in DOMAIN store \cup {s} |->
                     IF x = s THEN [turns |-> 0, pending |-> FALSE] ELSE store[x]]
      /\ cli' = [cli EXCEPT !.id = s, !.turns = 0, !.pc = "prompt"]
  BY DEF Creates
<1>2. [turns |-> 0, pending |-> FALSE] \in Session
  BY DEF Session
<1>3. \A x \in DOMAIN store : store[x] \in Session
  BY DEF CliTypes
<1>4. /\ DOMAIN store' = DOMAIN store \cup {s}
      /\ \A x \in DOMAIN store' : store'[x] \in Session
      /\ \A x \in DOMAIN store : store'[x] = store[x]
      /\ store'[s] = [turns |-> 0, pending |-> FALSE]
  BY <1>1, <1>2, <1>3
<1>5. store' \in [DOMAIN store' -> Session]
  BY <1>1, <1>4
<1> QED
  BY <1>1, <1>4, <1>5 DEF CliTypes, Points

LEMMA EntersSession ==
  ASSUME CliTypes, NEW s \in DOMAIN store, Enters(s)
  PROVE  /\ cli' \in [pc : Points, memory : BOOLEAN, id : Sessions \cup {NoSession}, turns : Nat,
                      turn : [kind : Kinds]]
         /\ cli'.pc \in {"prompt", "begin"} /\ cli'.id = s /\ cli'.turns = store[s].turns
<1>1. store[s] \in Session /\ s \in Sessions
  BY DEF CliTypes
<1> DEFINE pc == IF store[s].pending THEN "begin" ELSE "prompt"
           turn == IF store[s].pending THEN [kind |-> "recover"] ELSE NoTurn
<1>2. pc \in Points /\ pc \in {"prompt", "begin"} /\ turn \in [kind : Kinds]
  BY DEF Points, Kinds, NoTurn
<1>3. cli' = [cli EXCEPT !.id = s, !.turns = store[s].turns, !.pc = pc, !.turn = turn]
  BY DEF Enters
<1> HIDE DEF pc, turn
<1> QED
  BY <1>1, <1>2, <1>3 DEF CliTypes, Session

LEMMA CommandsKeepLeft ==
  ASSUME LeftInv,
         \/ Start \/ SwitchMemory \/ Exit \/ ClearFlag \/ StartTurn
         \/ \E s \in Sessions : StartFresh(s) \/ NewSession(s) \/ Resume(s)
         \/ \E kind \in {"prompt", "plan"} : Asks(kind)
         \/ \E accepted \in BOOLEAN : Confirm(accepted)
  PROVE  LeftInv'
<1> USE DEF turnVars, Reads
<1>1. ASSUME NEW pc \in Points, NEW turn \in [kind : Kinds], NEW memory \in BOOLEAN,
             cli' = [cli EXCEPT !.pc = pc, !.turn = turn, !.memory = memory],
             cli.pc \notin {"start", "killed", "exited", "turn"}, pc \notin {"start", "killed", "exited"},
             worker' = [x \in WorkerFields |-> worker'[x]],
             worker'.session \in Nat \cup {Unloaded}, worker'.commit \in {"no", "made", "unheard"},
             pc = "turn" => worker'.session = Unloaded /\ worker'.commit = "no",
             UNCHANGED <<store, asked, left, behind>>
      PROVE  LeftInv'
  <2>1. CliTypes'
    BY <1>1 DEF LeftInv, CliTypes
  <2> QED
    BY <1>1, <2>1 DEF LeftInv, CliTypes, CopyIsFresh, ResultIsFresh, LeftIsCaughtUp
<1>2. /\ worker = [x \in WorkerFields |-> worker[x]]
      /\ worker.session \in Nat \cup {Unloaded} /\ worker.commit \in {"no", "made", "unheard"}
      /\ cli.pc \in Points /\ cli.turn \in [kind : Kinds] /\ cli.memory \in BOOLEAN
      /\ cli = [cli EXCEPT !.turn = cli.turn, !.memory = cli.memory]
  BY DEF LeftInv, CliTypes
<1>3. CASE SwitchMemory
  <2>1. /\ cli' = [cli EXCEPT !.pc = cli.pc, !.turn = cli.turn, !.memory = ~cli.memory]
        /\ cli.pc = "prompt" /\ UNCHANGED <<store, asked, left, behind, worker>>
    BY <1>3 DEF SwitchMemory, LeftInv, CliTypes
  <2>2. (~cli.memory) \in BOOLEAN
    OBVIOUS
  <2> QED
    BY <1>1, <1>2, <2>1, <2>2
<1>4. CASE ClearFlag
  <2>1. cli' = [cli EXCEPT !.pc = "install", !.turn = cli.turn, !.memory = cli.memory]
    BY <1>4 DEF ClearFlag, LeftInv, CliTypes
  <2>2. cli.pc = "begin" /\ UNCHANGED <<store, asked, left, behind, worker>> /\ "install" \in Points
    BY <1>4 DEF ClearFlag, Points
  <2> QED
    BY <1>1, <1>2, <2>1, <2>2, ZenonT(30)
<1>5. CASE StartTurn
  <2>1. cli' = [cli EXCEPT !.pc = "turn", !.turn = cli.turn, !.memory = cli.memory]
    BY <1>5 DEF StartTurn, LeftInv, CliTypes
  <2>2. /\ worker' = [x \in WorkerFields |-> worker'[x]]
        /\ worker'.session = Unloaded /\ worker'.commit = "no"
    BY <1>5, WorkerStarts DEF StartTurn
  <2>3. cli.pc = "install" /\ UNCHANGED <<store, asked, left, behind>> /\ "turn" \in Points
    BY <1>5 DEF StartTurn, Points
  <2> QED
    BY <1>1, <1>2, <2>1, <2>2, <2>3
<1>6. CASE \E kind \in {"prompt", "plan"} : Asks(kind)
  <2>1. PICK kind \in {"prompt", "plan"} : Asks(kind)
    BY <1>6
  <2>2. cli' = [cli EXCEPT !.pc = "begin", !.turn = [kind |-> kind], !.memory = cli.memory]
    BY <2>1 DEF Asks, LeftInv, CliTypes
  <2>3. [kind |-> kind] \in [kind : Kinds]
    BY DEF Kinds
  <2> QED
    <3>1. /\ cli.pc = "prompt" /\ "begin" \in Points
          /\ UNCHANGED <<store, asked, left, behind, worker>>
      BY <2>1 DEF Asks, Points
    <3> QED
      BY <1>1, <1>2, <2>2, <2>3, <3>1, ZenonT(30)
<1>7. CASE \E accepted \in BOOLEAN : Confirm(accepted)
  <2>1. PICK accepted \in BOOLEAN : Confirm(accepted)
    BY <1>7
  <2> DEFINE pc == IF accepted THEN "begin" ELSE "prompt"
             turn == IF accepted THEN [kind |-> "prompt"] ELSE NoTurn
  <2>2. cli' = [cli EXCEPT !.pc = pc, !.turn = turn, !.memory = cli.memory]
    BY <2>1 DEF Confirm, LeftInv, CliTypes
  <2>3. pc \in Points \ {"start", "killed", "exited", "turn"} /\ turn \in [kind : Kinds]
    BY DEF Points, Kinds, NoTurn
  <2> HIDE DEF pc, turn
  <2> QED
    <3>1. cli.pc = "confirm" /\ UNCHANGED <<store, asked, left, behind, worker>>
      BY <2>1 DEF Confirm
    <3> QED
      BY <1>1, <1>2, <2>2, <2>3, <3>1
<1>8. CASE Start
  <2>1. /\ First(DOMAIN store) \in DOMAIN store /\ Enters(First(DOMAIN store))
        /\ cli.pc = "start"
        /\ asked' = [s \in Sessions |-> IF s \in DOMAIN store /\ cli.memory THEN store[s].turns ELSE asked[s]]
        /\ UNCHANGED <<store, left, behind, worker>>
    BY <1>8, CliParameters DEF Start, LeftInv, CliTypes
  <2>2. /\ cli' \in [pc : Points, memory : BOOLEAN, id : Sessions \cup {NoSession}, turns : Nat,
                     turn : [kind : Kinds]]
        /\ cli'.pc \in {"prompt", "begin"} /\ cli'.id \in DOMAIN store /\ cli'.turns = store[cli'.id].turns
    BY <2>1, EntersSession DEF LeftInv
  <2>3. asked' \in [Sessions -> Nat]
    BY <2>1 DEF LeftInv, CliTypes, Session
  <2>4. CliTypes'
    BY <2>1, <2>2, <2>3 DEF LeftInv, CliTypes
  <2>5. CopyIsFresh'
    <3>1. store[cli'.id].turns \in Nat
      BY <2>2 DEF LeftInv, CliTypes, Session
    <3> QED
      BY <2>1, <2>2, <3>1 DEF CopyIsFresh, ResultIsFresh
  <2>6. left = {}
    BY <2>1 DEF LeftInv, CliTypes
  <2> QED
    BY <2>1, <2>4, <2>5, <2>6 DEF LeftInv, LeftIsCaughtUp
<1>9. ASSUME NEW s \in Sessions, StartFresh(s) PROVE LeftInv'
  <2>1. Creates(s) /\ left = {} /\ UNCHANGED <<asked, left, behind, worker>> /\ CliTypes
    BY <1>9 DEF StartFresh, LeftInv, CliTypes
  <2>2. CliTypes'
    BY <2>1, CreatesSession DEF CliTypes
  <2>3. CopyIsFresh' /\ LeftIsCaughtUp'
    BY <2>1, CreatesSession DEF CopyIsFresh, ResultIsFresh, LeftIsCaughtUp
  <2> QED
    BY <2>2, <2>3 DEF LeftInv
<1>10. ASSUME NEW s \in Sessions, NewSession(s) PROVE LeftInv'
  <2>1. /\ cli.pc = "prompt" /\ ConsolidateCurrent /\ Leaves /\ Creates(s) /\ CliTypes
        /\ UNCHANGED <<behind, worker>>
    BY <1>10 DEF NewSession, LeftInv
  <2>2. /\ asked' \in [Sessions -> Nat] /\ left' \subseteq DOMAIN store
        /\ \A x \in left' : asked'[x] >= store[x].turns \/ x \in behind
    BY <2>1, LeavingCatchesUp
  <2>3. CliTypes'
    BY <2>1, <2>2, CreatesSession DEF CliTypes
  <2>4. CopyIsFresh'
    BY <2>1, CreatesSession DEF CopyIsFresh, ResultIsFresh
  <2>5. LeftIsCaughtUp'
    BY <2>1, <2>2, CreatesSession DEF LeftIsCaughtUp
  <2> QED
    BY <2>3, <2>4, <2>5 DEF LeftInv
<1>11. ASSUME NEW s \in Sessions, Resume(s) PROVE LeftInv'
  <2>1. /\ cli.pc = "prompt" /\ ConsolidateCurrent /\ Leaves /\ s \in DOMAIN store /\ Enters(s)
        /\ CliTypes /\ behind' = behind \ {s} /\ UNCHANGED <<store, worker>>
    BY <1>11 DEF Resume, LeftInv
  <2>2. /\ asked' \in [Sessions -> Nat] /\ left' \subseteq DOMAIN store
        /\ \A x \in left' : asked'[x] >= store[x].turns \/ x \in behind
    BY <2>1, LeavingCatchesUp
  <2>3. CliTypes'
    BY <2>1, <2>2, EntersSession DEF CliTypes
  <2>4. CopyIsFresh'
    <3>1. store[s].turns \in Nat
      BY <2>1 DEF CliTypes, Session
    <3> QED
      BY <2>1, <3>1, EntersSession DEF CopyIsFresh, ResultIsFresh
  <2>5. LeftIsCaughtUp'
    BY <2>1, <2>2, EntersSession DEF LeftIsCaughtUp
  <2> QED
    BY <2>3, <2>4, <2>5 DEF LeftInv
<1>12. CASE Exit
  <2>1. /\ cli.pc = "prompt" /\ ConsolidateCurrent /\ Leaves /\ CliTypes
        /\ cli' = [cli EXCEPT !.pc = "exited"] /\ UNCHANGED <<store, behind, worker>>
    BY <1>12 DEF Exit, LeftInv
  <2>2. /\ asked' \in [Sessions -> Nat] /\ left' \subseteq DOMAIN store
        /\ \A x \in left' : asked'[x] >= store[x].turns \/ x \in behind
    BY <2>1, LeavingCatchesUp
  <2>3. CliTypes'
    BY <2>1, <2>2 DEF CliTypes, Points
  <2>4. CopyIsFresh'
    BY <2>1 DEF LeftInv, CliTypes, CopyIsFresh, ResultIsFresh
  <2>5. LeftIsCaughtUp'
    BY <2>1, <2>2 DEF LeftIsCaughtUp
  <2> QED
    BY <2>3, <2>4, <2>5 DEF LeftInv
<1> QED
  BY <1>3, <1>4, <1>5, <1>6, <1>7, <1>8, <1>9, <1>10, <1>11, <1>12

(* The end of a turn: the copy is what the turn returned, or stays behind.         *)
LEMMA EndKeepsLeft ==
  ASSUME LeftInv, InTurn, EndsTurn
  PROVE  LeftInv'
<1>1. /\ cli.pc = "turn" /\ cli.id \in DOMAIN store /\ store[cli.id].turns \in Nat
      /\ NoTurn \in [kind : Kinds] /\ {"prompt", "confirm"} \subseteq Points
      /\ UNCHANGED <<store, asked, left>> /\ worker' = NoWorker
  BY DEF InTurn, EndsTurn, LeftInv, CliTypes, Session, NoTurn, Kinds, Points
<1>2. Copied \in Nat
  BY DEF Copied, LeftInv, CliTypes, Unloaded
<1>3. \/ IsPlanned /\ cli' = [cli EXCEPT !.pc = "confirm"]
      \/ ~IsPlanned /\ cli' = [cli EXCEPT !.pc = "prompt", !.turn = NoTurn, !.turns = Copied]
  BY DEF EndsTurn
<1>4. /\ cli'.id = cli.id /\ cli'.pc \in {"prompt", "confirm"}
      /\ cli'.turns = IF IsPlanned THEN cli.turns ELSE Copied
      /\ cli' \in [pc : Points, memory : BOOLEAN, id : Sessions \cup {NoSession}, turns : Nat,
                   turn : [kind : Kinds]]
  <2>1. CASE IsPlanned /\ cli' = [cli EXCEPT !.pc = "confirm"]
    BY <1>1, <2>1 DEF LeftInv, CliTypes
  <2>2. CASE ~IsPlanned /\ cli' = [cli EXCEPT !.pc = "prompt", !.turn = NoTurn, !.turns = Copied]
    BY <1>1, <1>2, <2>2 DEF LeftInv, CliTypes
  <2> QED
    BY <1>3, <2>1, <2>2
<1>5. /\ worker' = [x \in WorkerFields |-> worker'[x]]
      /\ worker'.session = Unloaded /\ worker'.commit = "no"
  BY <1>1, WorkerStarts
<1>6. CliTypes'
  BY <1>1, <1>4, <1>5 DEF LeftInv, CliTypes
<1>7. behind' \in {behind, behind \cup {cli.id}, behind \ {cli.id}}
  BY DEF EndsTurn
<1>8. cli.turns >= store[cli.id].turns \/ cli.id \in behind \/ worker.commit # "no"
  BY <1>1 DEF LeftInv, CopyIsFresh
<1>9. cli'.turns >= store[cli.id].turns \/ cli.id \in behind'
  <2>1. CASE worker.commit = "unheard" \/ (IsPlanned /\ worker.commit = "made")
    BY <2>1 DEF EndsTurn
  <2>2. CASE worker.commit # "unheard" /\ ~IsPlanned /\ worker.session # Unloaded
    <3>1. worker.session >= store[cli.id].turns
      BY <1>1, <2>2 DEF LeftInv, CopyIsFresh, ResultIsFresh
    <3> QED
      BY <1>4, <2>2, <3>1 DEF Copied
  <2>3. CASE worker.commit # "unheard" /\ ~IsPlanned /\ worker.session = Unloaded
    <3>1. worker.commit = "no" /\ behind' = behind
      BY <1>1, <2>3 DEF EndsTurn, LeftInv, CopyIsFresh, ResultIsFresh
    <3> QED
      BY <1>4, <1>8, <2>3, <3>1 DEF Copied
  <2>4. CASE worker.commit \notin {"unheard", "made"} /\ IsPlanned
    <3>1. behind' = behind
      BY <2>4 DEF EndsTurn
    <3>2. worker.commit = "no"
      BY <2>4 DEF LeftInv, CliTypes
    <3> QED
      BY <1>4, <1>8, <2>4, <3>1, <3>2
  <2> QED
    BY <2>1, <2>2, <2>3, <2>4
<1>10. CopyIsFresh'
  BY <1>1, <1>4, <1>9 DEF CopyIsFresh, ResultIsFresh
<1>11. LeftIsCaughtUp'
  BY <1>1, <1>4, <1>7 DEF LeftInv, LeftIsCaughtUp
<1> QED
  BY <1>6, <1>10, <1>11 DEF LeftInv

LEMMA InitLeft == Init => LeftInv
<1> SUFFICES ASSUME Init PROVE LeftInv
  OBVIOUS
<1>1. DOMAIN store \subseteq Sessions /\ store \in [DOMAIN store -> Session]
  BY CliParameters DEF Init
<1>2. NoTurn \in [kind : Kinds] /\ "start" \in Points
  BY DEF NoTurn, Kinds, Points
<1>3. /\ worker = [x \in WorkerFields |-> worker[x]]
      /\ worker.session = Unloaded /\ worker.commit = "no"
  BY WorkerStarts DEF Init
<1>4. CliTypes
  BY <1>1, <1>2, <1>3 DEF Init, CliTypes
<1> QED
  BY <1>4 DEF Init, LeftInv, CopyIsFresh, ResultIsFresh, LeftIsCaughtUp

LEMMA NextLeft == LeftInv /\ [Next]_vars => LeftInv'
<1> SUFFICES ASSUME LeftInv, [Next]_vars PROVE LeftInv'
  OBVIOUS
<1>1. CASE UNCHANGED vars
  BY <1>1 DEF vars, cliVars, turnVars, LeftInv, CliTypes, CopyIsFresh, ResultIsFresh, LeftIsCaughtUp
<1>2. CASE InTurn /\ EndsTurn
  BY <1>2, EndKeepsLeft
<1>3. CASE InTurn /\ (WorkerStep \/ Request \/ TurnFails \/ DisplayStep \/ TerminalFails)
  BY <1>3, ThreadGoesOn, TurnKeepsLeft
<1>4. CASE Interrupt
  BY <1>4, InterruptKeepsLeft
<1>5. CASE \/ Start \/ SwitchMemory \/ Exit \/ ClearFlag \/ StartTurn
           \/ \E s \in Sessions : StartFresh(s) \/ NewSession(s) \/ Resume(s)
           \/ \E kind \in {"prompt", "plan"} : Asks(kind)
           \/ \E accepted \in BOOLEAN : Confirm(accepted)
  BY <1>5, CommandsKeepLeft
<1> QED
  BY <1>1, <1>2, <1>3, <1>4, <1>5 DEF Next

(* A session that was left with the memory on has had its maintenance requested    *)
(* through its last turn, unless the program's copy of it lacked that turn: after  *)
(* a finished plan the result's session is not taken over, and a last event that   *)
(* is in the file although its append was reported failed leaves the result        *)
(* without it.  A turn that was not begun, failed, or could not load its session   *)
(* is no excuse (interactive_cli.cpp:369, :417, :588, :608, :625,                  *)
(* session_engine.cpp:378, jsonl_session_store.cpp:616).                           *)
THEOREM LeftSafety == Spec => []LeftIsCaughtUp
<1>1. LeftInv => LeftIsCaughtUp
  BY DEF LeftInv
<1> QED
  BY InitLeft, NextLeft, <1>1, PTL DEF Spec

(* ------------------------------- what a Ctrl+C stops ----------------------------- *)

(* Where a turn still works towards its answer. *)
Working == {"start", "round", "ask", "calling", "tool"}

(* The flag stays raised until the turn is over, and a request that leaves after   *)
(* it is the last: the way to another one leads past the flag.                     *)
HeardInv ==
  /\ worker = [x \in WorkerFields |-> worker[x]] /\ call = [x \in CallFields |-> call[x]]
  /\ flag \in BOOLEAN /\ handler \in BOOLEAN /\ worker.interrupted \in BOOLEAN
  /\ late \in {0, 1} /\ (late = 1 => flag /\ call.pc # "ready")
  /\ IF cli.pc = "turn" THEN handler ELSE late = 0 /\ ~worker.interrupted /\ ~handler
  /\ worker.pc \in Working => worker.outcome = "none"
  /\ worker.interrupted => flag /\ worker.outcome # "completed"

LEMMA FieldsOfCall ==
  /\ Idle = [x \in CallFields |-> Idle[x]] /\ Idle.pc = "idle"
  /\ \A observed : /\ Begun(observed) = [x \in CallFields |-> Begun(observed)[x]]
                   /\ Begun(observed).pc # "ready"
BY DEF Idle, Begun, CallFields

(* A step of the request: only a flag that is down lets a request be made ready.   *)
LEMMA RequestKeepsHeard ==
  ASSUME HeardInv, InTurn, Request
  PROVE  HeardInv'
<1>1. UNCHANGED <<cli, worker, handler, flag>> /\ cli.pc = "turn" /\ CallStep
  BY DEF Request, Rest, InTurn, CallStep, Prepares, Posts, Hears, Chunk, Transferred, Unanswered,
         Classifies, Decides, Wakes
<1>2. call = [x \in CallFields |-> call[x]]
  BY DEF HeardInv
<1>3. \A p, a, r, n, o, e, b :
        LET c == [pc |-> p, attempt |-> a, reply |-> r, at |-> n, outcome |-> o, result |-> e,
                  observed |-> b]
        IN  c = [x \in CallFields |-> c[x]]
  BY DEF CallFields
<1>4. CASE Posts
  <2>1. /\ call'.pc = "posted" /\ call' = [x \in CallFields |-> call'[x]]
        /\ call.pc = "ready" /\ late' = IF flag THEN late + 1 ELSE late
    BY <1>2, <1>4 DEF Posts, CallFields
  <2> QED
    BY <1>1, <2>1 DEF HeardInv
<1>5. ASSUME late' = late, call' = [x \in CallFields |-> call'[x]],
             call'.pc = "ready" => ~flag
      PROVE  HeardInv'
  BY <1>1, <1>5 DEF HeardInv
<1>6. CASE Prepares
  BY <1>2, <1>5, <1>6 DEF Prepares, Returned, CallFields
<1>7. CASE \E reply \in Replies : Hears(reply)
  BY <1>2, <1>5, <1>7 DEF Hears, Returned, CallFields
<1>8. CASE Chunk
  <2>1. call.pc = "reading" /\ UNCHANGED late
    BY <1>8 DEF Chunk
  <2>2. \/ \E outcome : Returned(outcome)
        \/ call' = [call EXCEPT !.at = call.at + 1]
        \/ call' = [call EXCEPT !.at = call.at + 1, !.pc = "returned", !.outcome = "refused"]
    BY <1>2, <1>8 DEF Chunk, CallFields
  <2>3. call'.pc \in {"reading", "returned"} /\ call' = [x \in CallFields |-> call'[x]]
    BY <1>2, <2>1, <2>2 DEF Returned, CallFields
  <2> QED
    BY <1>5, <2>1, <2>3
<1>9. CASE Transferred \/ \E outcome \in Outcomes : Unanswered(outcome)
  BY <1>2, <1>5, <1>9 DEF Transferred, Unanswered, Returned, CallFields
<1>10. CASE Classifies
  BY <1>2, <1>5, <1>10 DEF Classifies, CallFields
<1>11. CASE Decides \/ Wakes
  BY <1>2, <1>5, <1>11 DEF Decides, Wakes, CallFields
<1> QED
  BY <1>1, <1>4, <1>6, <1>7, <1>8, <1>9, <1>10, <1>11 DEF CallStep

(* A step of the turn's thread: what it makes of the worker.                       *)
LEMMA ThreadKeepsHeard ==
  ASSUME HeardInv, InTurn, WorkerStep \/ TurnFails \/ DisplayStep \/ TerminalFails
  PROVE  HeardInv'
<1> USE DEF InTurn, Rest, WorkerFields, Working
<1>0. worker = [x \in WorkerFields |-> worker[x]] /\ call = [x \in CallFields |-> call[x]]
  BY DEF HeardInv
<1>1. ASSUME UNCHANGED <<cli, handler, late>>,
             worker' = [x \in WorkerFields |-> worker'[x]], call' = [x \in CallFields |-> call'[x]],
             flag' = flag \/ flag' = TRUE, call'.pc = call.pc \/ call'.pc # "ready",
             worker'.interrupted = worker.interrupted,
             worker'.pc \in Working => worker'.outcome = "none",
             worker'.outcome = "completed" => worker.outcome = "completed" \/ ~flag
      PROVE  HeardInv'
  <2>1. flag' \in BOOLEAN /\ (flag => flag') /\ worker'.interrupted \in BOOLEAN
    <3>1. flag \in BOOLEAN /\ worker.interrupted \in BOOLEAN
      BY DEF HeardInv
    <3>2. worker'.interrupted \in BOOLEAN
      BY <1>1, <3>1
    <3>3. CASE flag' = flag
      BY <3>1, <3>2, <3>3
    <3>4. CASE flag' = TRUE
      BY <3>2, <3>4
    <3> QED
      BY <1>1, <3>3, <3>4
  <2>2. late' \in {0, 1} /\ (late' = 1 => flag' /\ call'.pc # "ready")
    BY <1>1, <2>1 DEF HeardInv
  <2>3. worker'.interrupted => flag' /\ worker'.outcome # "completed"
    BY <1>1, <2>1 DEF HeardInv
  <2>4. cli'.pc = "turn" /\ handler' /\ handler' \in BOOLEAN
    BY <1>1 DEF HeardInv
  <2> QED
    BY <1>1, <2>1, <2>2, <2>3, <2>4 DEF HeardInv
<1>2. CASE \E compacts \in BOOLEAN : Begins(compacts)
  BY <1>0, <1>1, <1>2 DEF Begins, Refused, HeardInv
<1>3. CASE Round
  BY <1>0, <1>1, <1>3 DEF Round, Ended, HeardInv
<1>4. CASE \E observed \in BOOLEAN : Calls(observed)
  <2>1. PICK observed \in BOOLEAN : Calls(observed)
    BY <1>4
  <2>2. call' = [x \in CallFields |-> call'[x]] /\ call'.pc # "ready"
    BY <2>1, FieldsOfCall DEF Calls
  <2>3. /\ worker' = [worker EXCEPT !.pc = "calling"] /\ worker.pc = "ask"
        /\ UNCHANGED <<cli, handler, late, flag>>
    BY <2>1 DEF Calls
  <2> QED
    BY <1>0, <1>1, <2>2, <2>3 DEF HeardInv
<1>5. CASE HearsAnswer
  BY <1>0, <1>1, <1>5, FieldsOfCall DEF HearsAnswer, Ended, HeardInv
<1>6. CASE \E verdict \in {"ToolCallSucceeded", "ToolCallFailed"} : UsesTool(verdict)
  BY <1>0, <1>1, <1>6 DEF UsesTool, Ended, HeardInv
<1>7. CASE Settles \/ Ends
  BY <1>0, <1>1, <1>7 DEF Settles, Ends, callVars, HeardInv
<1>8. CASE TurnFails
  <2>1. CASE LoadFails \/ \E compacts, started \in BOOLEAN : BeginFails(compacts, started)
    BY <1>0, <1>1, <2>1 DEF LoadFails, BeginFails, Refused, callVars, HeardInv
  <2>2. CASE \E inFile \in BOOLEAN : CommitFails(inFile)
    BY <1>0, <1>1, <2>2 DEF CommitFails, callVars, HeardInv
  <2> QED
    BY <1>8, <2>1, <2>2 DEF TurnFails
<1>9. CASE Says
  BY <1>0, <1>1, <1>9 DEF Says, HeardInv
<1>10. CASE DisplayStep \/ TerminalFails
  <2>1. UNCHANGED <<cli, handler, late, call, worker>> /\ (flag' = flag \/ flag' = TRUE)
    BY <1>10 DEF DisplayStep, TerminalFails, CancelTurn, Joins, Shown, callVars
  <2> QED
    BY <1>0, <1>1, <2>1 DEF HeardInv
<1> QED
  BY <1>2, <1>3, <1>4, <1>5, <1>6, <1>7, <1>8, <1>9, <1>10 DEF WorkerStep

LEMMA InterruptKeepsHeard ==
  ASSUME LeftInv, HeardInv, Interrupt
  PROVE  HeardInv'
<1>1. UNCHANGED <<call, late, handler>> /\ counts' = counts' /\ cli.pc # "start"
  BY DEF Interrupt, callVars
<1>2. CASE handler
  <2>1. flag' = TRUE /\ cli' = cli
        /\ worker' = [worker EXCEPT !.interrupted = worker.interrupted \/ worker.pc \in Working]
    BY <1>2 DEF Interrupt, Working
  <2>2. /\ worker' = [x \in WorkerFields |-> worker'[x]] /\ worker'.pc = worker.pc
        /\ worker'.outcome = worker.outcome
        /\ worker'.interrupted = (worker.interrupted \/ worker.pc \in Working)
    BY <2>1 DEF HeardInv, WorkerFields
  <2> QED
    BY <1>1, <1>2, <2>1, <2>2 DEF HeardInv
<1>3. CASE ~handler
  <2>1. cli' = [cli EXCEPT !.pc = "killed"] /\ cli.pc # "turn" /\ UNCHANGED <<flag, worker>>
    BY <1>3 DEF Interrupt, HeardInv
  <2>2. cli'.pc # "turn"
    BY <2>1 DEF LeftInv, CliTypes
  <2> QED
    BY <1>1, <2>1, <2>2 DEF HeardInv
<1> QED
  BY <1>2, <1>3

(* Between turns nothing touches the call, the worker or the handler. *)
LEMMA CommandsKeepHeard ==
  ASSUME LeftInv, HeardInv,
         \/ Start \/ SwitchMemory \/ Exit \/ ClearFlag \/ StartTurn
         \/ \E s \in Sessions : StartFresh(s) \/ NewSession(s) \/ Resume(s)
         \/ \E kind \in {"prompt", "plan"} : Asks(kind)
         \/ \E accepted \in BOOLEAN : Confirm(accepted)
  PROVE  HeardInv'
<1> USE DEF turnVars, callVars, Reads
<1>1. ASSUME UNCHANGED <<call, late, worker, handler>>, flag' = flag \/ flag' = FALSE,
             cli.pc # "turn", cli'.pc # "turn"
      PROVE  HeardInv'
  <2>1. late = 0 /\ ~worker.interrupted /\ ~handler
    BY <1>1 DEF HeardInv
  <2>2. flag' \in BOOLEAN
    <3>1. CASE flag' = flag
      BY <3>1 DEF HeardInv
    <3>2. CASE flag' = FALSE
      BY <3>2
    <3> QED
      BY <1>1, <3>1, <3>2
  <2> QED
    BY <1>1, <2>1, <2>2 DEF HeardInv
<1>2. CASE StartTurn
  <2>1. /\ cli.pc = "install" /\ handler' = TRUE /\ worker' = [NoWorker EXCEPT !.pc = "start"]
        /\ cli' = [cli EXCEPT !.pc = "turn"] /\ UNCHANGED <<call, late, flag>>
    BY <1>2 DEF StartTurn
  <2>2. /\ worker' = [x \in WorkerFields |-> worker'[x]] /\ worker'.pc = "start"
        /\ worker'.outcome = "none" /\ worker'.interrupted = FALSE
    BY <2>1 DEF NoWorker, WorkerFields
  <2>3. cli'.pc = "turn"
    BY <2>1 DEF LeftInv, CliTypes
  <2>4. late = 0
    BY <2>1 DEF HeardInv
  <2> QED
    BY <2>1, <2>2, <2>3, <2>4 DEF HeardInv
<1>3. CASE ClearFlag
  <2>1. /\ cli.pc = "begin" /\ cli' = [cli EXCEPT !.pc = "install"] /\ flag' = FALSE
        /\ UNCHANGED <<call, late, worker, handler>>
    BY <1>3 DEF ClearFlag
  <2>2. cli'.pc # "turn"
    BY <2>1 DEF LeftInv, CliTypes
  <2> QED
    BY <1>1, <2>1, <2>2
<1>4. ASSUME NEW s \in Sessions, StartFresh(s) \/ NewSession(s) PROVE HeardInv'
  <2>1. /\ cli.pc \in {"start", "prompt"} /\ Creates(s)
        /\ UNCHANGED <<call, late, worker, handler, flag>>
    BY <1>4 DEF StartFresh, NewSession
  <2>2. cli'.pc = "prompt"
    BY <2>1, CreatesSession DEF LeftInv
  <2> QED
    BY <1>1, <2>1, <2>2
<1>5. ASSUME NEW s \in DOMAIN store, Enters(s), cli.pc \in {"start", "prompt"},
             UNCHANGED <<call, late, worker, handler, flag>>
      PROVE  HeardInv'
  <2>1. cli'.pc \in {"prompt", "begin"}
    BY <1>5, EntersSession DEF LeftInv
  <2> QED
    BY <1>1, <1>5, <2>1
<1>6. CASE Start
  <2>1. First(DOMAIN store) \in DOMAIN store
    BY <1>6, CliParameters DEF Start, LeftInv, CliTypes
  <2> QED
    BY <1>5, <1>6, <2>1 DEF Start
<1>7. CASE \E s \in Sessions : Resume(s)
  BY <1>5, <1>7 DEF Resume
<1>8. CASE SwitchMemory \/ Exit \/ \E kind \in {"prompt", "plan"} : Asks(kind)
  <2>1. /\ cli.pc = "prompt" /\ UNCHANGED <<call, late, worker, handler, flag>>
        /\ \/ cli' = [cli EXCEPT !.memory = ~cli.memory]
           \/ cli' = [cli EXCEPT !.pc = "exited"]
           \/ \E kind \in {"prompt", "plan"} :
                cli' = [cli EXCEPT !.pc = "begin", !.turn = [kind |-> kind]]
    BY <1>8 DEF SwitchMemory, Exit, Asks
  <2>2. cli'.pc \in {"prompt", "exited", "begin"}
    BY <2>1 DEF LeftInv, CliTypes
  <2> QED
    BY <1>1, <2>1, <2>2
<1>9. ASSUME NEW accepted \in BOOLEAN, Confirm(accepted) PROVE HeardInv'
  <2> DEFINE turn == IF accepted THEN [kind |-> "prompt"] ELSE NoTurn
  <2>1. /\ cli.pc = "confirm" /\ UNCHANGED <<call, late, worker, handler, flag>>
        /\ cli' = [cli EXCEPT !.pc = IF accepted THEN "begin" ELSE "prompt", !.turn = turn]
    BY <1>9 DEF Confirm
  <2> HIDE DEF turn
  <2>2. cli'.pc \in {"begin", "prompt"}
    BY <2>1 DEF LeftInv, CliTypes
  <2> QED
    BY <1>1, <2>1, <2>2
<1> QED
  BY <1>2, <1>3, <1>4, <1>6, <1>7, <1>8, <1>9

LEMMA EndKeepsHeard ==
  ASSUME LeftInv, HeardInv, EndsTurn
  PROVE  HeardInv'
<1>1. /\ handler' = FALSE /\ worker' = NoWorker /\ late' = 0 /\ UNCHANGED <<call, flag>>
      /\ \/ cli' = [cli EXCEPT !.pc = "confirm"]
         \/ cli' = [cli EXCEPT !.pc = "prompt", !.turn = NoTurn, !.turns = Copied]
  BY DEF EndsTurn, callVars
<1>2. cli'.pc \in {"confirm", "prompt"}
  BY <1>1 DEF LeftInv, CliTypes
<1>3. /\ worker' = [x \in WorkerFields |-> worker'[x]] /\ worker'.pc = "none"
      /\ worker'.interrupted = FALSE
  BY <1>1 DEF NoWorker, WorkerFields
<1> QED
  BY <1>1, <1>2, <1>3 DEF HeardInv, Working

LEMMA InitHeard == Init => HeardInv
<1> SUFFICES ASSUME Init PROVE HeardInv
  OBVIOUS
<1>1. late = 0
  BY DEF Init, CallInit
<1>2. flag = FALSE /\ handler = FALSE
  BY DEF Init
<1>3. cli.pc = "start"
  BY DEF Init
<1>4. /\ worker = [x \in WorkerFields |-> worker[x]] /\ worker.pc = "none"
      /\ worker.interrupted = FALSE
  BY DEF Init, NoWorker, WorkerFields
<1>5. call = [x \in CallFields |-> call[x]]
  BY FieldsOfCall DEF Init, CallInit
<1>6. flag \in BOOLEAN /\ handler \in BOOLEAN /\ worker.interrupted \in BOOLEAN
  BY <1>2, <1>4
<1>7. late \in {0, 1} /\ late # 1 /\ ~worker.interrupted /\ ~handler
  BY <1>1, <1>2, <1>4
<1>8. worker.pc \notin Working
  BY <1>4 DEF Working
<1> QED
  BY <1>3, <1>4, <1>5, <1>6, <1>7, <1>8 DEF HeardInv

LEMMA NextHeard == LeftInv /\ HeardInv /\ [Next]_vars => HeardInv'
<1> SUFFICES ASSUME LeftInv, HeardInv, [Next]_vars PROVE HeardInv'
  OBVIOUS
<1>1. CASE UNCHANGED vars
  BY <1>1 DEF vars, cliVars, turnVars, callVars, HeardInv
<1>2. CASE InTurn /\ EndsTurn
  BY <1>2, EndKeepsHeard
<1>3. CASE InTurn /\ (WorkerStep \/ TurnFails \/ DisplayStep \/ TerminalFails)
  BY <1>3, ThreadKeepsHeard
<1>4. CASE InTurn /\ Request
  BY <1>4, RequestKeepsHeard
<1>5. CASE Interrupt
  BY <1>5, InterruptKeepsHeard
<1>6. CASE \/ Start \/ SwitchMemory \/ Exit \/ ClearFlag \/ StartTurn
           \/ \E s \in Sessions : StartFresh(s) \/ NewSession(s) \/ Resume(s)
           \/ \E kind \in {"prompt", "plan"} : Asks(kind)
           \/ \E accepted \in BOOLEAN : Confirm(accepted)
  BY <1>6, CommandsKeepHeard
<1> QED
  BY <1>1, <1>2, <1>3, <1>4, <1>5, <1>6 DEF Next

(* A Ctrl+C that arrives before the answer is accepted keeps the turn from         *)
(* completing, and at most one request leaves after it                             *)
(* (signal_cancellation.cpp:30, retry_with_backoff.h:66, runtime_engine.cpp:593).  *)
THEOREM CancelSafety == Spec => []CancelIsHeard
<1>1. HeardInv => CancelIsHeard
  BY DEF HeardInv, CancelIsHeard
<1> QED
  BY InitLeft, NextLeft, InitHeard, NextHeard, <1>1, PTL DEF Spec

(* ------------------------------ induction over data ------------------------------ *)

(* Every set of naturals that has an element has a least one. *)
LEMMA LeastElement ==
  ASSUME NEW T, T \subseteq Nat, T # {}
  PROVE  \E x \in T : \A y \in T : ~(y < x)
<1> DEFINE R == StrictSubsetOrdering(Nat)
           Fin == FiniteSubsetsOf(Nat)
           Below == {1..n : n \in T}
<1>1. IsWellFoundedOn(R, Fin)
  BY FS_StrictSubsetOrderingWellFounded
<1>2. Below \subseteq Fin /\ Below # {}
  <2>1. \A n \in Nat : IsFiniteSet(1..n)
    BY FS_Interval
  <2>2. \A n \in Nat : 1..n \in Fin
    BY <2>1 DEF FiniteSubsetsOf
  <2> QED
    BY <2>2
<1>3. \A m, n \in Nat : m < n => <<1..m, 1..n>> \in R
  <2> SUFFICES ASSUME NEW m \in Nat, NEW n \in Nat, m < n PROVE <<1..m, 1..n>> \in R
    OBVIOUS
  <2>1. n \in 1..n /\ n \notin 1..m /\ 1..m \subseteq 1..n /\ 1..n \subseteq Nat
    OBVIOUS
  <2>2. 1..m # 1..n
    BY <2>1
  <2> QED
    BY <2>1, <2>2 DEF StrictSubsetOrdering
<1> HIDE DEF R, Fin
<1>4. PICK X \in Below : \A Y \in Below : ~(<<Y, X>> \in R)
  BY <1>1, <1>2, WFMin
<1>5. PICK x \in T : X = 1..x
  OBVIOUS
<1>6. \A y \in T : ~(<<1..y, 1..x>> \in R)
  BY <1>4, <1>5
<1> QED
  BY <1>3, <1>6

(* Induction, for the members of a set: first order, so that it can be cited. *)
LEMMA SetInduction ==
  ASSUME NEW S, 0 \in S, \A n \in Nat : n \in S => n + 1 \in S
  PROVE  \A n \in Nat : n \in S
<1> SUFFICES ASSUME Nat \ S # {} PROVE FALSE
  OBVIOUS
<1>1. PICK x \in Nat \ S : \A y \in Nat \ S : ~(y < x)
  BY LeastElement
<1>2. x # 0 /\ x - 1 \in Nat /\ x - 1 < x /\ (x - 1) + 1 = x
  BY <1>1
<1>3. x - 1 \in S
  BY <1>1, <1>2
<1> QED
  BY <1>1, <1>2, <1>3

(* ------------------------------ sequences in a row ------------------------------- *)

(* The recursive function of FlattenSeq, over the first n sequences. *)
IsFlat(f, seqs, n) ==
  f = [i \in 1..n |-> IF i = 1 THEN seqs[i] ELSE f[i - 1] \o seqs[i]]

LEMMA FlatExists ==
  ASSUME NEW seqs, NEW N \in Nat
  PROVE  \E f : IsFlat(f, seqs, N)
<1> DEFINE S == {n \in Nat : \E f : IsFlat(f, seqs, n)}
<1>1. 0 \in S
  <2>1. IsFlat([i \in 1..0 |-> seqs[i]], seqs, 0)
    BY DEF IsFlat
  <2> QED
    BY <2>1
<1>2. ASSUME NEW n \in Nat, n \in S PROVE n + 1 \in S
  <2>1. PICK f : IsFlat(f, seqs, n)
    BY <1>2
  <2> DEFINE last == IF n = 0 THEN seqs[1] ELSE f[n] \o seqs[n + 1]
             g == [i \in 1..n + 1 |-> IF i = n + 1 THEN last ELSE f[i]]
  <2>2. \A i \in 1..n + 1 : g[i] = IF i = 1 THEN seqs[i] ELSE g[i - 1] \o seqs[i]
    <3> SUFFICES ASSUME NEW i \in 1..n + 1
                 PROVE g[i] = IF i = 1 THEN seqs[i] ELSE g[i - 1] \o seqs[i]
      OBVIOUS
    <3>1. CASE i = n + 1
      BY <3>1
    <3>2. CASE i \in 1..n
      <4>1. g[i] = f[i] /\ (i # 1 => g[i - 1] = f[i - 1])
        BY <3>2
      <4>2. f[i] = IF i = 1 THEN seqs[i] ELSE f[i - 1] \o seqs[i]
        BY <2>1, <3>2 DEF IsFlat
      <4> QED
        BY <4>1, <4>2
    <3> QED
      BY <3>1, <3>2
  <2>3. g = [i \in 1..n + 1 |-> g[i]]
    OBVIOUS
  <2>4. IsFlat(g, seqs, n + 1)
    <3> HIDE DEF g
    <3> QED
      BY <2>2, <2>3 DEF IsFlat
  <2> QED
    BY <2>4
<1> HIDE DEF S
<1>3. N \in S
  BY <1>1, <1>2, SetInduction
<1> QED
  BY <1>3 DEF S

LEMMA FlatTyped ==
  ASSUME NEW T, NEW f, NEW seqs, NEW N \in Nat, IsFlat(f, seqs, N), \A i \in 1..N : seqs[i] \in Seq(T)
  PROVE  \A i \in 1..N : f[i] \in Seq(T)
<1> DEFINE S == {n \in Nat : n \in 1..N => f[n] \in Seq(T)}
<1>1. 0 \in S
  OBVIOUS
<1>2. ASSUME NEW n \in Nat, n \in S PROVE n + 1 \in S
  <2> SUFFICES ASSUME n + 1 \in 1..N PROVE f[n + 1] \in Seq(T)
    OBVIOUS
  <2>1. f[n + 1] = IF n + 1 = 1 THEN seqs[n + 1] ELSE f[(n + 1) - 1] \o seqs[n + 1]
    BY DEF IsFlat
  <2>2. CASE n = 0
    BY <2>1, <2>2
  <2>3. CASE n # 0
    <3>1. f[n] \in Seq(T) /\ seqs[n + 1] \in Seq(T) /\ (n + 1) - 1 = n
      BY <1>2, <2>3
    <3> QED
      BY <2>1, <2>3, <3>1, ConcatProperties
  <2> QED
    BY <2>2, <2>3
<1> HIDE DEF S
<1>3. \A n \in Nat : n \in S
  BY <1>1, <1>2, SetInduction
<1> QED
  BY <1>3 DEF S

LEMMA FlatSame ==
  ASSUME NEW f, NEW s, NEW N \in Nat, IsFlat(f, s, N),
         NEW g, NEW t, NEW M \in Nat, IsFlat(g, t, M), N <= M,
         \A i \in 1..N : s[i] = t[i]
  PROVE  \A i \in 1..N : f[i] = g[i]
<1> DEFINE S == {n \in Nat : n \in 1..N => f[n] = g[n]}
<1>1. 0 \in S
  OBVIOUS
<1>2. ASSUME NEW n \in Nat, n \in S PROVE n + 1 \in S
  <2> SUFFICES ASSUME n + 1 \in 1..N PROVE f[n + 1] = g[n + 1]
    OBVIOUS
  <2>1. f[n + 1] = IF n + 1 = 1 THEN s[n + 1] ELSE f[(n + 1) - 1] \o s[n + 1]
    BY DEF IsFlat
  <2>2. g[n + 1] = IF n + 1 = 1 THEN t[n + 1] ELSE g[(n + 1) - 1] \o t[n + 1]
    <3>1. n + 1 \in 1..M
      OBVIOUS
    <3> QED
      BY <3>1 DEF IsFlat
  <2>3. n # 0 => f[n] = g[n]
    BY <1>2
  <2>4. (n + 1) - 1 = n /\ s[n + 1] = t[n + 1] /\ (n + 1 = 1 <=> n = 0)
    OBVIOUS
  <2> QED
    BY <2>1, <2>2, <2>3, <2>4
<1> HIDE DEF S
<1>3. \A n \in Nat : n \in S
  BY <1>1, <1>2, SetInduction
<1> QED
  BY <1>3 DEF S

LEMMA FlattenIs ==
  ASSUME NEW seqs, Len(seqs) \in Nat, Len(seqs) # 0
  PROVE  \E f : IsFlat(f, seqs, Len(seqs)) /\ FlattenSeq(seqs) = f[Len(seqs)]
<1> DEFINE flatten == CHOOSE f : IsFlat(f, seqs, Len(seqs))
<1>1. IsFlat(flatten, seqs, Len(seqs))
  BY FlatExists
<1>2. FlattenSeq(seqs) = flatten[Len(seqs)]
  BY DEF FlattenSeq, IsFlat
<1> QED
  BY <1>1, <1>2

(* One more sequence comes after all the others. *)
LEMMA FlattenAppend ==
  ASSUME NEW T, NEW seqs \in Seq(Seq(T)), NEW s \in Seq(T)
  PROVE  /\ FlattenSeq(seqs) \in Seq(T)
         /\ FlattenSeq(Append(seqs, s)) = FlattenSeq(seqs) \o s
<1> DEFINE n == Len(seqs)
           more == Append(seqs, s)
<1>1. /\ n \in Nat /\ n + 1 \in Nat /\ n + 1 # 0 /\ Len(more) = n + 1 /\ more[n + 1] = s
      /\ \A i \in 1..n : more[i] = seqs[i] /\ seqs[i] \in Seq(T)
  BY AppendProperties
<1>2. /\ n = 0 => FlattenSeq(seqs) = seqs /\ seqs = <<>>
      /\ n # 0 => \E f : IsFlat(f, seqs, n) /\ FlattenSeq(seqs) = f[n]
  <2>1. CASE n = 0
    BY <2>1 DEF FlattenSeq
  <2>2. CASE n # 0
    BY <1>1, <2>2, FlattenIs
  <2> QED
    BY <2>1, <2>2
<1> HIDE DEF n, more
<1>3. PICK g : IsFlat(g, more, n + 1) /\ FlattenSeq(more) = g[n + 1]
  BY <1>1, FlattenIs
<1>4. g[n + 1] = IF n + 1 = 1 THEN s ELSE g[(n + 1) - 1] \o s
  <2>1. n + 1 \in 1..n + 1
    BY <1>1
  <2> QED
    BY <1>1, <1>3, <2>1 DEF IsFlat
<1>5. CASE n = 0
  <2>1. g[n + 1] = s /\ <<>> \o s = s /\ <<>> \in Seq(T)
    BY <1>4, <1>5, ConcatEmptySeq
  <2> QED
    BY <1>2, <1>3, <1>5, <2>1 DEF more
<1>6. CASE n # 0
  <2>1. PICK f : IsFlat(f, seqs, n) /\ FlattenSeq(seqs) = f[n]
    BY <1>2, <1>6
  <2>2. n \in 1..n /\ (n + 1) - 1 = n /\ n + 1 # 1 /\ n <= n + 1 /\ n + 1 \in Nat
    BY <1>1, <1>6
  <2>3. f[n] \in Seq(T)
    BY <1>1, <2>1, <2>2, FlatTyped
  <2>4. f[n] = g[n]
    <3>1. \A i \in 1..n : seqs[i] = more[i]
      BY <1>1
    <3>2. n \in Nat /\ n + 1 \in Nat /\ n <= n + 1 /\ IsFlat(g, more, n + 1)
      BY <1>1, <1>3, <2>2
    <3>3. \A i \in 1..n : f[i] = g[i]
      BY <2>1, <3>1, <3>2, FlatSame
    <3> QED
      BY <2>2, <3>3
  <2> QED
    BY <1>3, <1>4, <2>1, <2>2, <2>3, <2>4 DEF more
<1> QED
  BY <1>1, <1>5, <1>6

(* ----------------------------- what the observer is told ------------------------- *)

Notice == [kind : {"TextDelta", "TextBlockEnd"}, block : Nat, text : Seq(Nat)]

(* A piece of text is never empty: the observer is not told of one that is. *)
Told == {n \in Notice : n.kind = "TextDelta" => n.text # <<>>}

AssemblerFields ==
  {"started", "block", "index", "deltas", "final", "stopped", "output", "input", "content",
   "stop", "bytes", "error", "notified"}

(* What a message is made of: the block that is open, or was closed. *)
TextBlock == [type : {"text"}, text : Seq(Nat)]
ToolBlock == [type : {"tool_use"}, id : STRING, json : Seq(Nat)]
Block == {NoBlock} \cup TextBlock \cup ToolBlock

AssemblerOK(a) ==
  /\ a = [x \in AssemblerFields |-> a[x]] /\ a.index \in Nat /\ a.notified \in Seq(Told)
  /\ a.block \in Block /\ a.content \in Seq(Block)

LEMMA NotifyOK ==
  ASSUME NEW a, AssemblerOK(a), NEW text \in Seq(Nat)
  PROVE  /\ AssemblerOK(notify(a, "TextBlockEnd", text))
         /\ AssemblerOK(NotifyText(a, text))
<1>1. ASSUME NEW kind \in {"TextDelta", "TextBlockEnd"}, kind = "TextDelta" => text # <<>>
      PROVE  AssemblerOK(notify(a, kind, text))
  <2> DEFINE notice == [kind |-> kind, block |-> a.index, text |-> text]
  <2>1. notice \in Told
    BY <1>1 DEF AssemblerOK, Notice, Told
  <2>2. notify(a, kind, text) = [a EXCEPT !.notified = Append(a.notified, notice)]
    BY DEF notify
  <2> HIDE DEF notice
  <2>3. Append(a.notified, notice) \in Seq(Told)
    BY <2>1 DEF AssemblerOK
  <2> QED
    BY <2>2, <2>3 DEF AssemblerOK, AssemblerFields
<1> QED
  BY <1>1 DEF NotifyText

LEMMA StepOK ==
  ASSUME NEW a, AssemblerOK(a), NEW e \in StreamEvent, e.type \in Known
  PROVE  AssemblerOK(StepOf(a, e).next)
<1>0. /\ a = [x \in AssemblerFields |-> a[x]] /\ a.index \in Nat /\ a.notified \in Seq(Told)
      /\ a.block \in Block /\ a.content \in Seq(Block)
  BY DEF AssemblerOK
<1>1. e.text \in Seq(Nat) /\ <<>> \in Seq(Nat) /\ e.id \in STRING
  BY DEF StreamEvent
<1>2. ASSUME NEW b, b = [x \in AssemblerFields |-> b[x]], b.index = a.index,
             b.notified = a.notified, b.block \in Block, b.content = a.content
      PROVE  AssemblerOK(b)
  BY <1>0, <1>2 DEF AssemblerOK
<1>3. CASE e.type = "message_start"
  <2>1. StepOf(a, e).next = [a EXCEPT !.started = TRUE, !.input = e.input, !.output = e.output]
    BY <1>3 DEF StepOf, MessageStart
  <2> QED
    BY <1>0, <1>2, <2>1 DEF AssemblerFields
<1>4. CASE e.type = "content_block_start"
  <2> DEFINE text == [a EXCEPT !.block = [type |-> "text", text |-> e.text]]
             tool == [a EXCEPT !.block = [type |-> "tool_use", id |-> e.id, json |-> <<>>]]
  <2>1. StepOf(a, e).next = IF e.kind = "text" THEN NotifyText(text, e.text) ELSE tool
    BY <1>4 DEF StepOf, BlockStart
  <2>2. AssemblerOK(text) /\ AssemblerOK(tool)
    <3>1. /\ [type |-> "text", text |-> e.text] \in Block
          /\ [type |-> "tool_use", id |-> e.id, json |-> <<>>] \in Block
      BY <1>1 DEF Block, TextBlock, ToolBlock
    <3> QED
      BY <1>0, <1>2, <3>1 DEF AssemblerFields
  <2> HIDE DEF text, tool
  <2> QED
    BY <1>1, <2>1, <2>2, NotifyOK
<1>5. CASE e.type = "content_block_delta"
  <2> DEFINE text == [a EXCEPT !.block.text = @ \o e.text]
             tool == [a EXCEPT !.block.json = @ \o e.text]
             open == a.block # NoBlock
  <2>1. \/ StepOf(a, e).next = NotifyText(text, e.text) /\ a.block \in TextBlock
        \/ StepOf(a, e).next = tool /\ a.block \in ToolBlock
        \/ StepOf(a, e).next = a
    <3>1. /\ a.block \in ToolBlock => a.block.type = "tool_use"
          /\ a.block \in TextBlock => a.block.type = "text"
          /\ a.block \notin ToolBlock /\ a.block \notin TextBlock => a.block = NoBlock
      BY <1>0 DEF Block, TextBlock, ToolBlock
    <3>2. \/ StepOf(a, e).next = NotifyText(text, e.text) /\ open /\ a.block.type = "text"
          \/ StepOf(a, e).next = tool /\ open /\ a.block.type # "text"
          \/ StepOf(a, e).next = a
      BY <1>5 DEF StepOf, BlockDelta
    <3> HIDE DEF text, tool
    <3> QED
      BY <3>1, <3>2
  <2>2. ASSUME a.block \in TextBlock PROVE AssemblerOK(text)
    <3>1. a.block.text \o e.text \in Seq(Nat)
      BY <1>1, <2>2, ConcatProperties DEF TextBlock
    <3>2. [a.block EXCEPT !.text = a.block.text \o e.text] \in Block
      BY <2>2, <3>1 DEF Block, TextBlock
    <3>3. text = [a EXCEPT !.block = [a.block EXCEPT !.text = a.block.text \o e.text]]
      OBVIOUS
    <3> HIDE DEF text
    <3> QED
      BY <1>0, <1>2, <3>2, <3>3 DEF AssemblerFields
  <2>3. ASSUME a.block \in ToolBlock PROVE AssemblerOK(tool)
    <3>1. a.block.json \o e.text \in Seq(Nat)
      BY <1>1, <2>3, ConcatProperties DEF ToolBlock
    <3>2. [a.block EXCEPT !.json = a.block.json \o e.text] \in Block
      BY <2>3, <3>1 DEF Block, ToolBlock
    <3>3. tool = [a EXCEPT !.block = [a.block EXCEPT !.json = a.block.json \o e.text]]
      OBVIOUS
    <3> HIDE DEF tool
    <3> QED
      BY <1>0, <1>2, <3>2, <3>3 DEF AssemblerFields
  <2> HIDE DEF text, tool
  <2> QED
    BY <1>1, <2>1, <2>2, <2>3, NotifyOK
<1>6. CASE e.type = "content_block_stop"
  <2> DEFINE next(told) == [told EXCEPT !.content = Append(@, a.block), !.block = NoBlock,
                                        !.index = @ + 1]
  <2>1. PICK told \in {notify(a, "TextBlockEnd", <<>>), a} : StepOf(a, e).next = next(told)
    BY <1>6 DEF StepOf, BlockStop
  <2>2. AssemblerOK(told)
    <3>1. AssemblerOK(notify(a, "TextBlockEnd", <<>>))
      BY <1>1, NotifyOK
    <3> HIDE DEF next
    <3> QED
      BY <2>1, <3>1
  <2>3. AssemblerOK(next(told))
    <3> DEFINE b == [told EXCEPT !.content = Append(told.content, a.block), !.block = NoBlock,
                                 !.index = told.index + 1]
    <3>1. /\ b = [x \in AssemblerFields |-> b[x]] /\ b.index = told.index + 1
          /\ b.notified = told.notified /\ b.block = NoBlock
          /\ b.content = Append(told.content, a.block)
      BY <2>2 DEF AssemblerOK, AssemblerFields
    <3>2. next(told) = b
      OBVIOUS
    <3> HIDE DEF b, next
    <3>3. b.block \in Block /\ b.content \in Seq(Block)
      <4>1. told.content \in Seq(Block) /\ a.block \in Block
        BY <1>0, <2>2 DEF AssemblerOK
      <4>2. Append(told.content, a.block) \in Seq(Block) /\ NoBlock \in Block
        BY <4>1 DEF Block
      <4> QED
        BY <3>1, <4>2
    <3> QED
      BY <2>2, <3>1, <3>2, <3>3 DEF AssemblerOK
  <2> QED
    BY <2>1, <2>3
<1>7. CASE e.type = "message_delta"
  <2>1. \E input : StepOf(a, e).next =
                     [a EXCEPT !.deltas = TRUE, !.output = e.output, !.input = input,
                               !.stop = e.stop, !.final = e.stop # "null"]
    BY <1>7 DEF StepOf, MessageDelta
  <2> QED
    BY <1>0, <1>2, <2>1 DEF AssemblerFields
<1>8. CASE e.type = "message_stop"
  <2>1. StepOf(a, e).next = [a EXCEPT !.stopped = TRUE]
    BY <1>8 DEF StepOf, MessageStop
  <2> QED
    BY <1>0, <1>2, <2>1 DEF AssemblerFields
<1> QED
  BY <1>3, <1>4, <1>5, <1>6, <1>7, <1>8 DEF Known

LEMMA ConsumeOK ==
  ASSUME NEW a, AssemblerOK(a), NEW e \in StreamEvent
  PROVE  AssemblerOK(consume(a, e))
<1> DEFINE counted == [a EXCEPT !.bytes = @ + e.size]
           failed == [a EXCEPT !.error = TRUE]
<1>1. AssemblerOK(counted) /\ AssemblerOK(failed)
  BY DEF AssemblerOK, AssemblerFields
<1>2. \/ consume(a, e) \in {a, failed, counted}
      \/ consume(a, e) = StepOf(counted, e).next /\ e.type \in Known
  BY DEF consume
<1> HIDE DEF counted, failed
<1>3. e.type \in Known => AssemblerOK(StepOf(counted, e).next)
  BY <1>1, StepOK
<1> QED
  BY <1>1, <1>2, <1>3

(* The recursive functions of Fed and Standing. *)
IsFed(f, a, events, n) ==
  f = [i \in 0..n |-> IF i = 0 THEN a ELSE consume(f[i - 1], events[i])]
IsStanding(f, chunks, n) ==
  f = [i \in 0..n |-> IF i = 0 THEN NewAssembler ELSE Fed(f[i - 1], chunks[i])]

LEMMA FedExists ==
  ASSUME NEW a, NEW events, NEW N \in Nat
  PROVE  \E f : IsFed(f, a, events, N)
<1> DEFINE S == {n \in Nat : \E f : IsFed(f, a, events, n)}
<1>1. 0 \in S
  <2>1. IsFed([i \in 0..0 |-> a], a, events, 0)
    BY DEF IsFed
  <2> QED
    BY <2>1
<1>2. ASSUME NEW n \in Nat, n \in S PROVE n + 1 \in S
  <2>1. PICK f : IsFed(f, a, events, n)
    BY <1>2
  <2> DEFINE g == [i \in 0..n + 1 |-> IF i = n + 1 THEN consume(f[n], events[n + 1]) ELSE f[i]]
  <2>2. \A i \in 0..n + 1 : g[i] = IF i = 0 THEN a ELSE consume(g[i - 1], events[i])
    <3> SUFFICES ASSUME NEW i \in 0..n + 1
                 PROVE g[i] = IF i = 0 THEN a ELSE consume(g[i - 1], events[i])
      OBVIOUS
    <3>1. CASE i = n + 1
      BY <3>1
    <3>2. CASE i \in 0..n
      <4>1. g[i] = f[i] /\ (i # 0 => g[i - 1] = f[i - 1])
        BY <3>2
      <4>2. f[i] = IF i = 0 THEN a ELSE consume(f[i - 1], events[i])
        BY <2>1, <3>2 DEF IsFed
      <4> QED
        BY <4>1, <4>2
    <3> QED
      BY <3>1, <3>2
  <2>3. g = [i \in 0..n + 1 |-> g[i]]
    OBVIOUS
  <2>4. IsFed(g, a, events, n + 1)
    <3> HIDE DEF g
    <3> QED
      BY <2>2, <2>3 DEF IsFed
  <2> QED
    BY <2>4
<1> HIDE DEF S
<1>3. N \in S
  BY <1>1, <1>2, SetInduction
<1> QED
  BY <1>3 DEF S

LEMMA FedOK ==
  ASSUME NEW a, AssemblerOK(a), NEW events \in Seq(StreamEvent)
  PROVE  AssemblerOK(Fed(a, events))
<1> DEFINE N == Len(events)
           after == CHOOSE f : IsFed(f, a, events, N)
           S == {n \in Nat : n \in 0..N => AssemblerOK(after[n])}
<1>0. N \in Nat
  OBVIOUS
<1>1. IsFed(after, a, events, N) /\ N \in Nat
  BY <1>0, FedExists
<1>2. Fed(a, events) = after[N]
  BY DEF Fed, IsFed
<1> HIDE DEF after
<1>3. \A n \in 0..N : after[n] = IF n = 0 THEN a ELSE consume(after[n - 1], events[n])
  BY <1>1 DEF IsFed
<1>4. 0 \in S
  BY <1>1, <1>3
<1>5. ASSUME NEW n \in Nat, n \in S PROVE n + 1 \in S
  <2> SUFFICES ASSUME n + 1 \in 0..N PROVE AssemblerOK(after[n + 1])
    OBVIOUS
  <2>1. AssemblerOK(after[n]) /\ events[n + 1] \in StreamEvent
    BY <1>1, <1>5
  <2>2. after[n + 1] = consume(after[n], events[n + 1])
    <3>1. n + 1 # 0 /\ (n + 1) - 1 = n
      OBVIOUS
    <3> QED
      BY <1>3, <3>1
  <2> QED
    BY <2>1, <2>2, ConsumeOK
<1> HIDE DEF S
<1>6. N \in S
  BY <1>1, <1>4, <1>5, SetInduction
<1> QED
  BY <1>1, <1>2, <1>6 DEF S

LEMMA StandingExists ==
  ASSUME NEW chunks, NEW N \in Nat
  PROVE  \E f : IsStanding(f, chunks, N)
<1> DEFINE S == {n \in Nat : \E f : IsStanding(f, chunks, n)}
<1>1. 0 \in S
  <2>1. IsStanding([i \in 0..0 |-> NewAssembler], chunks, 0)
    BY DEF IsStanding
  <2> QED
    BY <2>1
<1>2. ASSUME NEW n \in Nat, n \in S PROVE n + 1 \in S
  <2>1. PICK f : IsStanding(f, chunks, n)
    BY <1>2
  <2> DEFINE g == [i \in 0..n + 1 |-> IF i = n + 1 THEN Fed(f[n], chunks[n + 1]) ELSE f[i]]
  <2>2. \A i \in 0..n + 1 : g[i] = IF i = 0 THEN NewAssembler ELSE Fed(g[i - 1], chunks[i])
    <3> SUFFICES ASSUME NEW i \in 0..n + 1
                 PROVE g[i] = IF i = 0 THEN NewAssembler ELSE Fed(g[i - 1], chunks[i])
      OBVIOUS
    <3>1. CASE i = n + 1
      BY <3>1
    <3>2. CASE i \in 0..n
      <4>1. g[i] = f[i] /\ (i # 0 => g[i - 1] = f[i - 1])
        BY <3>2
      <4>2. f[i] = IF i = 0 THEN NewAssembler ELSE Fed(f[i - 1], chunks[i])
        BY <2>1, <3>2 DEF IsStanding
      <4> QED
        BY <4>1, <4>2
    <3> QED
      BY <3>1, <3>2
  <2>3. g = [i \in 0..n + 1 |-> g[i]]
    OBVIOUS
  <2>4. IsStanding(g, chunks, n + 1)
    <3> HIDE DEF g
    <3> QED
      BY <2>2, <2>3 DEF IsStanding
  <2> QED
    BY <2>4
<1> HIDE DEF S
<1>3. N \in S
  BY <1>1, <1>2, SetInduction
<1> QED
  BY <1>3 DEF S

LEMMA StandingOK ==
  ASSUME NEW chunks \in Seq(Seq(StreamEvent)), NEW N \in 0..Len(chunks)
  PROVE  AssemblerOK(Standing(chunks, N))
<1> DEFINE after == CHOOSE f : IsStanding(f, chunks, N)
           S == {n \in Nat : n \in 0..N => AssemblerOK(after[n])}
<1>0. N \in Nat /\ Len(chunks) \in Nat
  OBVIOUS
<1>1. IsStanding(after, chunks, N)
  BY <1>0, StandingExists
<1>2. Standing(chunks, N) = after[N]
  BY DEF Standing, IsStanding
<1> HIDE DEF after
<1>3. \A n \in 0..N : after[n] = IF n = 0 THEN NewAssembler ELSE Fed(after[n - 1], chunks[n])
  BY <1>1 DEF IsStanding
<1>4. 0 \in S
  <2>1. AssemblerOK(NewAssembler)
    BY DEF AssemblerOK, NewAssembler, AssemblerFields, Block
  <2> QED
    BY <1>0, <1>3, <2>1
<1>5. ASSUME NEW n \in Nat, n \in S PROVE n + 1 \in S
  <2> SUFFICES ASSUME n + 1 \in 0..N PROVE AssemblerOK(after[n + 1])
    OBVIOUS
  <2>1. AssemblerOK(after[n]) /\ chunks[n + 1] \in Seq(StreamEvent)
    BY <1>0, <1>5
  <2>2. after[n + 1] = Fed(after[n], chunks[n + 1])
    <3>1. n + 1 # 0 /\ (n + 1) - 1 = n
      OBVIOUS
    <3> QED
      BY <1>3, <3>1
  <2> QED
    BY <2>1, <2>2, FedOK
<1> HIDE DEF S
<1>6. N \in S
  BY <1>0, <1>4, <1>5, SetInduction
<1> QED
  BY <1>0, <1>2, <1>6 DEF S

(* What a chunk tells the observer. *)
LEMMA NoticesAreTold ==
  ASSUME call.reply \in Replies, NEW at \in 1..Len(call.reply.chunks)
  PROVE  Notices(at) \in Seq(Told)
<1> DEFINE chunks == call.reply.chunks
           before == Assembler(at - 1).notified
           now == Assembler(at).notified
<1>1. chunks \in Seq(Seq(StreamEvent))
  BY RepliesAreStreams
<1>2. at \in 0..Len(chunks) /\ at - 1 \in 0..Len(chunks)
  BY <1>1
<1>3. Assembler(at) = Standing(chunks, at) /\ Assembler(at - 1) = Standing(chunks, at - 1)
  BY <1>2 DEF Assembler, Assemblers
<1>4. now \in Seq(Told) /\ before \in Seq(Told)
  BY <1>1, <1>2, <1>3, StandingOK DEF AssemblerOK
<1>5. Notices(at) = SubSeq(now, Len(before) + 1, Len(now))
  BY DEF Notices
<1> HIDE DEF now, before, chunks
<1>6. Len(before) \in Nat /\ Len(now) \in Nat /\ \A i \in Len(before) + 1..Len(now) : now[i] \in Told
  BY <1>4
<1> QED
  BY <1>5, <1>6, SubSeqProperties

(* ------------------------- nothing is lost on the way ---------------------------- *)

TextPiece ==
  [kind : {"Text"}, round : Nat, what : {"TextDelta", "TextBlockEnd"}, block : Nat, text : Seq(Nat)]
Labels ==
  {"ContextPreparationStarted", "ModelCallStarted", "ToolCallStarted", "ToolCallSucceeded",
   "ToolCallFailed", "Compacting context...", "Retrieving memory"}
Event == [kind : {"Progress", "Phase"}, what : Labels, text : {<<>>}] \cup TextPiece
Part == Labels \cup {"end"} \cup Nat
Atom == Seq(Part)

(* What a queue of events asks to show. *)
Flat(events) == FlattenSeq([i \in DOMAIN events |-> Atoms(events[i])])

Channels == [events : Seq(Event), closed : BOOLEAN, done : BOOLEAN]
DisplayPoints == {"idle", "waiting", "showing", "cancelling", "joining", "finished"}
Displays == [pc : DisplayPoints, batch : Seq(Event), done : BOOLEAN, failed : BOOLEAN]

TurnTypes ==
  /\ channel \in Channels
  /\ display \in Displays
  /\ outbox \in Seq(Event \cup Told)
  /\ worker = [x \in WorkerFields |-> worker[x]] /\ worker.round \in Nat
  /\ call = [x \in CallFields |-> call[x]]

(* Which parts of a turn are at rest while another one works. *)
Stages ==
  /\ worker.pc \in {"none", "start", "done"} => outbox = <<>>
  /\ call.pc # "idle" => worker.pc = "calling"
  /\ call.pc = "reading" => call.reply \in Replies /\ call.at \in 0..Len(call.reply.chunks)
  /\ channel.done <=> worker.pc = "done"
  /\ channel.closed => display.failed \/ display.pc = "finished"
  /\ display.done => channel.done /\ channel.events = <<>>
  /\ display.pc # "showing" => display.batch = <<>>
  /\ display.pc \in {"cancelling", "joining", "finished"} => display.done \/ display.failed
  /\ display.pc = "finished" => worker.pc = "done"
  /\ cli.pc \notin {"turn", "killed"} =>
       worker = NoWorker /\ display = NewDisplay /\ channel = NewChannel /\ owed = <<>>

(* What is owed is in the hands of the display or in the channel, in this order. *)
OwedIsUnderway == ~display.failed => owed = Flat(display.batch) \o Flat(channel.events)

LostInv == TurnTypes /\ Stages /\ OwedIsUnderway

LEMMA Triple ==
  ASSUME NEW S, NEW a \in S, NEW b \in S, NEW c \in S
  PROVE  <<a, b, c>> \in Seq(S)
OBVIOUS

LEMMA AtomsAreSeq ==
  ASSUME NEW e \in Event
  PROVE  Atoms(e) \in Seq(Atom)
<1>0. <<>> \in Seq(Atom) /\ \A x \in Atom : <<x>> \in Seq(Atom)
  OBVIOUS
<1>1. CASE e.kind = "Phase"
  <2>1. Atoms(e) = <<>>
    BY <1>1 DEF Atoms
  <2> QED
    BY <1>0, <2>1
<1>2. CASE e.kind = "Progress"
  <2>1. e.what \in Labels
    BY <1>2 DEF Event, TextPiece
  <2>2. <<e.what>> \in Atom
    BY <2>1 DEF Atom, Part
  <2>3. Atoms(e) = <<<<e.what>>>>
    <3>1. e.kind # "Phase"
      BY <1>2
    <3> QED
      BY <1>2, <3>1 DEF Atoms
  <2> QED
    BY <1>0, <2>2, <2>3
<1>3. CASE e \in TextPiece
  <2>1. e.round \in Nat /\ e.block \in Nat /\ e.text \in Seq(Nat) /\ e.kind = "Text"
    BY <1>3 DEF TextPiece
  <2>2. CASE e.what = "TextBlockEnd"
    <3>1. "end" \in Part /\ e.round \in Part /\ e.block \in Part
      BY <2>1 DEF Part
    <3>2. <<"end", e.round, e.block>> \in Atom
      BY <3>1, Triple DEF Atom
    <3>3. Atoms(e) = <<<<"end", e.round, e.block>>>>
      BY <2>1, <2>2 DEF Atoms
    <3> QED
      BY <1>0, <3>2, <3>3
  <2>3. CASE e.what # "TextBlockEnd"
    <3>1. \A n \in Nat : <<n, e.round, e.block>> \in Atom
      <4>1. e.round \in Part /\ e.block \in Part /\ Nat \subseteq Part
        BY <2>1 DEF Part
      <4> QED
        BY <4>1, Triple DEF Atom
    <3>2. Atoms(e) = [i \in 1..Len(e.text) |-> <<e.text[i], e.round, e.block>>]
      <4>1. e.what = "TextDelta"
        BY <1>3, <2>3 DEF TextPiece
      <4>2. DOMAIN e.text = 1..Len(e.text)
        BY <2>1
      <4>3. Atoms(e) = [i \in DOMAIN e.text |-> <<e.text[i], e.round, e.block>>]
        BY <2>1, <4>1 DEF Atoms
      <4> QED
        BY <4>2, <4>3
    <3>3. \A i \in 1..Len(e.text) : e.text[i] \in Nat
      BY <2>1
    <3>4. [i \in 1..Len(e.text) |-> <<e.text[i], e.round, e.block>>] \in Seq(Atom)
      BY <2>1, <3>1, <3>3
    <3> QED
      BY <3>2, <3>4
  <2> QED
    BY <2>2, <2>3
<1> QED
  BY <1>1, <1>2, <1>3 DEF Event

(* Bytes that are merged are the same bytes. *)
LEMMA MergedAtoms ==
  ASSUME NEW e \in TextPiece, NEW f \in TextPiece, e.what = "TextDelta", f.what = "TextDelta",
         e.round = f.round, e.block = f.block
  PROVE  /\ [e EXCEPT !.text = e.text \o f.text] \in TextPiece
         /\ Atoms([e EXCEPT !.text = e.text \o f.text]) = Atoms(e) \o Atoms(f)
<1> DEFINE both == e.text \o f.text
           g == [e EXCEPT !.text = both]
<1>1. e.text \in Seq(Nat) /\ f.text \in Seq(Nat)
  BY DEF TextPiece
<1>t. Len(e.text) \in Nat /\ Len(f.text) \in Nat
  BY <1>1
<1>2. /\ both \in Seq(Nat) /\ Len(both) = Len(e.text) + Len(f.text)
      /\ \A i \in 1..Len(e.text) + Len(f.text) :
           both[i] = IF i <= Len(e.text) THEN e.text[i] ELSE f.text[i - Len(e.text)]
  BY <1>1, ConcatProperties
<1> HIDE DEF both
<1>3. g \in TextPiece /\ g.text = both /\ g.what = "TextDelta" /\ g.kind = "Text"
      /\ g.round = e.round /\ g.block = e.block /\ e.kind = "Text" /\ f.kind = "Text"
  BY <1>2 DEF TextPiece
<1> HIDE DEF g
<1>4. /\ Atoms(g) = [i \in 1..Len(both) |-> <<both[i], e.round, e.block>>]
      /\ Atoms(e) = [i \in 1..Len(e.text) |-> <<e.text[i], e.round, e.block>>]
      /\ Atoms(f) = [i \in 1..Len(f.text) |-> <<f.text[i], e.round, e.block>>]
  BY <1>1, <1>2, <1>3 DEF Atoms
<1>5. Atoms(g) \in Seq(Atom) /\ Atoms(e) \in Seq(Atom) /\ Atoms(f) \in Seq(Atom)
  BY <1>3, AtomsAreSeq DEF Event
<1>6. Len(Atoms(e)) = Len(e.text) /\ Len(Atoms(f)) = Len(f.text) /\ Len(Atoms(g)) = Len(both)
  BY <1>1, <1>2, <1>4, <1>5
<1>7. /\ Atoms(e) \o Atoms(f) \in Seq(Atom)
      /\ Len(Atoms(e) \o Atoms(f)) = Len(both)
      /\ \A i \in 1..Len(both) : (Atoms(e) \o Atoms(f))[i] =
           IF i <= Len(e.text) THEN Atoms(e)[i] ELSE Atoms(f)[i - Len(e.text)]
  <2>1. /\ Atoms(e) \o Atoms(f) \in Seq(Atom)
        /\ Len(Atoms(e) \o Atoms(f)) = Len(Atoms(e)) + Len(Atoms(f))
        /\ \A i \in 1..Len(Atoms(e)) + Len(Atoms(f)) : (Atoms(e) \o Atoms(f))[i] =
             IF i <= Len(Atoms(e)) THEN Atoms(e)[i] ELSE Atoms(f)[i - Len(Atoms(e))]
    BY <1>5, ConcatProperties
  <2> QED
    BY <1>2, <1>6, <2>1
<1> DEFINE joined == Atoms(e) \o Atoms(f)
<1>8. \A i \in 1..Len(both) : Atoms(g)[i] = joined[i]
  <2> SUFFICES ASSUME NEW i \in 1..Len(both) PROVE Atoms(g)[i] = joined[i]
    OBVIOUS
  <2> DEFINE m == Len(e.text)
             k == Len(f.text)
  <2>0. m \in Nat /\ k \in Nat /\ i \in 1..m + k /\ both[i] = IF i <= m THEN e.text[i] ELSE f.text[i - m]
    BY <1>t, <1>2
  <2>1. Atoms(g)[i] = <<both[i], e.round, e.block>>
    BY <1>4
  <2>2. CASE i <= Len(e.text)
    <3>1. i \in 1..Len(e.text) /\ both[i] = e.text[i]
      <4> HIDE DEF m, k
      <4>1. i \in 1..m /\ both[i] = e.text[i]
        BY <2>0, <2>2 DEF m
      <4> QED
        BY <4>1 DEF m
    <3>2. joined[i] = Atoms(e)[i]
      BY <1>7, <2>2
    <3> QED
      BY <1>4, <2>1, <3>1, <3>2
  <2>3. CASE ~(i <= Len(e.text))
    <3>1. i - Len(e.text) \in 1..Len(f.text) /\ both[i] = f.text[i - Len(e.text)]
      <4> HIDE DEF m, k
      <4>1. ~(i <= m)
        BY <2>3 DEF m
      <4>2. i - m \in 1..k /\ both[i] = f.text[i - m]
        BY <2>0, <4>1
      <4> QED
        BY <4>2 DEF m, k
    <3>2. joined[i] = Atoms(f)[i - Len(e.text)]
      BY <1>7, <2>3
    <3> QED
      BY <1>4, <2>1, <3>1, <3>2
  <2> QED
    BY <2>2, <2>3
<1> HIDE DEF joined
<1>9. Atoms(g) = joined
  <2>1. joined \in Seq(Atom) /\ Len(joined) = Len(both)
    BY <1>7 DEF joined
  <2> QED
    BY <1>5, <1>6, <1>8, <2>1, SeqEqual
<1> QED
  BY <1>3, <1>9 DEF g, both, joined

LEMMA FlatOK ==
  ASSUME NEW events \in Seq(Event), NEW e \in Event
  PROVE  /\ Flat(events) \in Seq(Atom)
         /\ Flat(Append(events, e)) = Flat(events) \o Atoms(e)
         /\ Flat(<<>>) = <<>>
<1> DEFINE seqs == [i \in 1..Len(events) |-> Atoms(events[i])]
           more == [i \in 1..Len(events) + 1 |-> Atoms(Append(events, e)[i])]
<1>1. seqs \in Seq(Seq(Atom)) /\ Len(seqs) = Len(events)
  <2>1. \A i \in 1..Len(events) : Atoms(events[i]) \in Seq(Atom)
    BY AtomsAreSeq
  <2> QED
    BY <2>1
<1>2. /\ Len(Append(events, e)) = Len(events) + 1 /\ Append(events, e) \in Seq(Event)
      /\ Append(events, e)[Len(events) + 1] = e
      /\ \A i \in 1..Len(events) : Append(events, e)[i] = events[i]
  BY AppendProperties
<1>3. Flat(events) = FlattenSeq(seqs) /\ Flat(Append(events, e)) = FlattenSeq(more)
  BY <1>2 DEF Flat
<1>4. Atoms(e) \in Seq(Atom)
  BY AtomsAreSeq
<1>5. more = Append(seqs, Atoms(e))
  <2>1. Append(seqs, Atoms(e)) \in Seq(Seq(Atom)) /\ Len(Append(seqs, Atoms(e))) = Len(events) + 1
        /\ \A i \in 1..Len(events) + 1 : Append(seqs, Atoms(e))[i] =
             IF i <= Len(events) THEN seqs[i] ELSE Atoms(e)
    BY <1>1, <1>4, AppendProperties
  <2>2. \A i \in 1..Len(events) + 1 : more[i] = IF i <= Len(events) THEN seqs[i] ELSE Atoms(e)
    BY <1>2
  <2>3. more \in Seq(Seq(Atom)) /\ Len(more) = Len(events) + 1
    <3>1. \A i \in 1..Len(events) + 1 : more[i] \in Seq(Atom)
      BY <1>1, <1>4, <2>2
    <3> QED
      BY <3>1
  <2> HIDE DEF more, seqs
  <2> QED
    BY <2>1, <2>2, <2>3, SeqEqual
<1> HIDE DEF seqs, more
<1>6. FlattenSeq(seqs) \in Seq(Atom) /\ FlattenSeq(more) = FlattenSeq(seqs) \o Atoms(e)
  BY <1>1, <1>4, <1>5, FlattenAppend
<1>7. Flat(<<>>) = <<>>
  BY DEF Flat, FlattenSeq
<1> QED
  BY <1>3, <1>6, <1>7

LEMMA FrontLast ==
  ASSUME NEW S, NEW s \in Seq(S), s # <<>>
  PROVE  Front(s) \in Seq(S) /\ Last(s) \in S /\ s = Append(Front(s), Last(s))
<1>1. Len(s) \in Nat /\ Len(s) # 0
  OBVIOUS
<1>2. Last(s) = s[Len(s)] /\ Last(s) \in S
  BY <1>1 DEF Last
<1>3. Front(s) = SubSeq(s, 1, Len(s) - 1)
  BY DEF Front
<1>4. Front(s) \in Seq(S) /\ Len(Front(s)) = Len(s) - 1
      /\ \A i \in 1..Len(s) - 1 : Front(s)[i] = s[i]
  <2> DEFINE n == Len(s) - 1
  <2>1. n \in Nat /\ n \in Int /\ \A i \in 1..n : s[i] \in S
    BY <1>1
  <2> HIDE DEF n
  <2>2. /\ SubSeq(s, 1, n) \in Seq(S) /\ Len(SubSeq(s, 1, n)) = IF 1 <= n THEN n - 1 + 1 ELSE 0
        /\ \A i \in 1..n - 1 + 1 : SubSeq(s, 1, n)[i] = s[1 + i - 1]
    BY <2>1, SubSeqProperties
  <2>3. /\ n - 1 + 1 = n /\ (~(1 <= n) => n = 0)
        /\ \A i \in 1..n : 1 + i - 1 = i
    BY <2>1
  <2> HIDE DEF Front
  <2> QED
    BY <1>3, <2>2, <2>3 DEF n
<1>5. /\ Append(Front(s), Last(s)) \in Seq(S)
      /\ Len(Append(Front(s), Last(s))) = Len(s)
      /\ \A i \in 1..Len(s) : Append(Front(s), Last(s))[i] = s[i]
  BY <1>1, <1>2, <1>4, AppendProperties
<1> QED
  BY <1>5, SeqEqual

(* What is pushed comes after all that is in the channel: merging and replacing    *)
(* lose nothing.                                                                   *)
LEMMA PushedOK ==
  ASSUME channel \in Channels, ~channel.closed,
         NEW e \in Event
  PROVE  /\ Pushed(e) \in Channels
         /\ Pushed(e).closed = channel.closed /\ Pushed(e).done = channel.done
         /\ Flat(Pushed(e).events) = Flat(channel.events) \o Atoms(e)
<1> DEFINE events == channel.events
           last == Last(events)
           merged == [last EXCEPT !.text = last.text \o e.text]
           next == IF Merges(e) THEN Append(Front(events), merged)
                   ELSE Append(IF Replaces(e) THEN Front(events) ELSE events, e)
<1>1. events \in Seq(Event)
  BY DEF Channels
<1>2. Pushed(e) = [channel EXCEPT !.events = next]
  BY DEF Pushed
<1>3. next \in Seq(Event) /\ Flat(next) = Flat(events) \o Atoms(e)
  <2>1. CASE ~Merges(e) /\ ~Replaces(e)
    <3>1. next = Append(events, e) /\ Append(events, e) \in Seq(Event)
      BY <1>1, <2>1, AppendProperties
    <3> HIDE DEF next
    <3>2. Flat(Append(events, e)) = Flat(events) \o Atoms(e)
      BY <1>1, FlatOK
    <3> QED
      BY <3>1, <3>2
  <2>2. CASE Merges(e) \/ Replaces(e)
    <3>1. events # <<>>
      BY <2>2 DEF Merges, Replaces
    <3>2. Front(events) \in Seq(Event) /\ last \in Event /\ events = Append(Front(events), last)
      BY <1>1, <3>1, FrontLast
    <3>3. Flat(Front(events)) \in Seq(Atom) /\ Flat(events) = Flat(Front(events)) \o Atoms(last)
      BY <3>2, FlatOK
    <3>4. Atoms(last) \in Seq(Atom) /\ Atoms(e) \in Seq(Atom)
      BY <3>2, AtomsAreSeq
    <3>5. Flat(events) \o Atoms(e) = Flat(Front(events)) \o (Atoms(last) \o Atoms(e))
      BY <3>3, <3>4, ConcatAssociative
    <3>6. CASE Merges(e)
      <4>1. e \in TextPiece /\ last \in TextPiece /\ e.what = "TextDelta" /\ last.what = "TextDelta"
            /\ last.round = e.round /\ last.block = e.block
        BY <3>2, <3>6 DEF Merges, Event
      <4>2. merged \in TextPiece /\ Atoms(merged) = Atoms(last) \o Atoms(e)
        BY <4>1, MergedAtoms
      <4>3. next = Append(Front(events), merged) /\ merged \in Event
        BY <3>6, <4>2 DEF Event
      <4> HIDE DEF merged, next, last
      <4>4. Flat(next) = Flat(Front(events)) \o Atoms(merged)
        BY <3>2, <4>3, FlatOK
      <4> QED
        BY <3>2, <3>5, <4>2, <4>3, <4>4
    <3>7. CASE ~Merges(e)
      <4>1. Replaces(e) /\ next = Append(Front(events), e)
        BY <2>2, <3>7
      <4>2. Atoms(e) = <<>> /\ Atoms(last) = <<>>
        BY <4>1 DEF Replaces, Atoms
      <4>3. Flat(next) = Flat(Front(events)) \o Atoms(e)
        BY <3>2, <4>1, FlatOK
      <4>4. Atoms(last) \o Atoms(e) = Atoms(e)
        BY <4>2
      <4> HIDE DEF next, last
      <4> QED
        BY <3>2, <3>5, <4>1, <4>3, <4>4
    <3> QED
      BY <3>6, <3>7
  <2> QED
    BY <2>1, <2>2
<1> HIDE DEF next
<1> QED
  BY <1>2, <1>3 DEF Channels

(* A piece of a delta is a delta; there is at least one. *)
LEMMA PiecesTyped ==
  ASSUME NEW round \in Nat, NEW said \in Told
  PROVE  Pieces(TextEvent(round, said)) \in Seq(Event) /\ Pieces(TextEvent(round, said)) # <<>>
<1> DEFINE event == TextEvent(round, said)
<1>1. /\ event \in TextPiece /\ event.kind = "Text" /\ event.what = said.kind
      /\ event.text = said.text /\ (said.kind = "TextDelta" => said.text # <<>>)
  BY DEF TextEvent, TextPiece, Told, Notice
<1> HIDE DEF event
<1>2. CASE said.kind = "TextBlockEnd"
  <2>1. Pieces(event) = <<event>> /\ event \in Event
    BY <1>1, <1>2 DEF Pieces, Event
  <2> QED
    BY <2>1 DEF event
<1>3. CASE said.kind # "TextBlockEnd"
  <2> DEFINE L == Len(event.text)
             n == (L + PieceBytes - 1) \div PieceBytes
             Piece(i) == SubSeq(event.text, (i - 1) * PieceBytes + 1, IF i = n THEN L ELSE i * PieceBytes)
  <2>1. event.text \in Seq(Nat) /\ L \in Nat /\ L >= 1 /\ PieceBytes \in Nat /\ PieceBytes >= 1
    <3>1. event.text \in Seq(Nat) /\ event.text # <<>>
      BY <1>1, <1>3 DEF TextPiece, Told, Notice
    <3> QED
      BY <3>1, DisplayLimits
  <2>2. Pieces(event) = [i \in 1..n |-> [event EXCEPT !.text = Piece(i)]]
    BY <1>1, <1>3 DEF Pieces
  <2> HIDE DEF L
  <2>3. n \in Nat /\ n >= 1 /\ n * PieceBytes <= L + PieceBytes - 1
    BY <2>1
  <2> HIDE DEF n
  <2>4. ASSUME NEW i \in 1..n PROVE Piece(i) \in Seq(Nat)
    <3> DEFINE from == (i - 1) * PieceBytes + 1
               to == IF i = n THEN L ELSE i * PieceBytes
    <3>1. from \in Nat /\ from >= 1 /\ to \in Nat /\ to <= L
      <4>1. i - 1 \in Nat /\ (i - 1) * PieceBytes \in Nat /\ i * PieceBytes \in Nat
        BY <2>1, <2>3
      <4>2. i # n => i * PieceBytes <= L
        <5>1. SUFFICES ASSUME i # n PROVE i * PieceBytes <= L
          OBVIOUS
        <5>2. n - i - 1 \in Nat /\ n - i - 1 >= 0
          BY <2>3, <5>1
        <5>3. (n - i - 1) * PieceBytes >= 0
          BY <2>1, <5>2
        <5>4. (n - i - 1) * PieceBytes = n * PieceBytes - i * PieceBytes - PieceBytes
          BY <2>1, <2>3
        <5> QED
          BY <2>1, <2>3, <4>1, <5>3, <5>4
      <4> QED
        BY <2>1, <4>1, <4>2
    <3>2. Piece(i) = SubSeq(event.text, from, to)
      OBVIOUS
    <3> HIDE DEF from, to, Piece
    <3>3. from \in Int /\ to \in Int /\ \A j \in from..to : event.text[j] \in Nat
      BY <2>1, <3>1 DEF L
    <3> QED
      BY <3>2, <3>3, SubSeqProperties
  <2> HIDE DEF Piece
  <2>5. ASSUME NEW i \in 1..n PROVE [event EXCEPT !.text = Piece(i)] \in Event
    BY <1>1, <2>4 DEF TextPiece, Event
  <2>6. Pieces(event) \in Seq(Event) /\ Len(Pieces(event)) = n
    <3> DEFINE g(i) == [event EXCEPT !.text = Piece(i)]
    <3>1. \A i \in 1..n : g(i) \in Event
      BY <2>5
    <3>2. Pieces(event) = [i \in 1..n |-> g(i)]
      BY <2>2
    <3> HIDE DEF g
    <3> QED
      BY <2>3, <3>1, <3>2
  <2> QED
    BY <2>3, <2>6 DEF event
<1> QED
  BY <1>2, <1>3

LEMMA FirstPart ==
  ASSUME NEW S, NEW s, NEW n \in Nat, \A i \in 1..n : s[i] \in S
  PROVE  /\ SubSeq(s, 1, n) \in Seq(S) /\ Len(SubSeq(s, 1, n)) = n
         /\ \A i \in 1..n : SubSeq(s, 1, n)[i] = s[i]
<1>1. n \in Int
  OBVIOUS
<1>2. /\ SubSeq(s, 1, n) \in Seq(S) /\ Len(SubSeq(s, 1, n)) = IF 1 <= n THEN n - 1 + 1 ELSE 0
      /\ \A i \in 1..n - 1 + 1 : SubSeq(s, 1, n)[i] = s[1 + i - 1]
  BY <1>1, SubSeqProperties
<1>3. n - 1 + 1 = n /\ (~(1 <= n) => n = 0) /\ \A i \in 1..n : 1 + i - 1 = i
  OBVIOUS
<1> QED
  BY <1>2, <1>3

LEMMA LastPart ==
  ASSUME NEW S, NEW s, NEW m \in Nat, NEW k \in Nat, \A i \in m + 1..m + k : s[i] \in S
  PROVE  /\ SubSeq(s, m + 1, m + k) \in Seq(S) /\ Len(SubSeq(s, m + 1, m + k)) = k
         /\ \A i \in 1..k : SubSeq(s, m + 1, m + k)[i] = s[m + i]
<1> DEFINE first == m + 1
           end == m + k
<1>1. first \in Int /\ end \in Int
  OBVIOUS
<1>2. /\ end - first + 1 = k /\ (first <= end <=> k # 0)
      /\ \A i \in 1..k : first + i - 1 = m + i
  OBVIOUS
<1>3. \A i \in first..end : s[i] \in S
  OBVIOUS
<1> HIDE DEF first, end
<1>4. /\ SubSeq(s, first, end) \in Seq(S)
      /\ Len(SubSeq(s, first, end)) = IF first <= end THEN end - first + 1 ELSE 0
      /\ \A i \in 1..end - first + 1 : SubSeq(s, first, end)[i] = s[first + i - 1]
  BY <1>1, <1>3, SubSeqProperties
<1>5. /\ SubSeq(s, first, end) \in Seq(S)
      /\ Len(SubSeq(s, first, end)) = k
      /\ \A i \in 1..k : SubSeq(s, first, end)[i] = s[m + i]
  BY <1>2, <1>4
<1> QED
  BY <1>5 DEF first, end

(* What was owed first has been paid. *)
LEMMA PaidIs ==
  ASSUME NEW rest \in Seq(Atom), display.batch \in Seq(Event),
         owed = Flat(display.batch) \o rest
  PROVE  Paid = rest
<1> DEFINE given == Flat(display.batch)
           m == Len(given)
           k == Len(rest)
<1>1. given \in Seq(Atom)
  <2>1. CASE display.batch = <<>>
    BY <2>1 DEF Flat, FlattenSeq
  <2>2. CASE display.batch # <<>>
    <3>1. display.batch[1] \in Event
      BY <2>2
    <3> QED
      BY <3>1, FlatOK
  <2> QED
    BY <2>1, <2>2
<1>2. Paid = IF IsPrefix(given, owed) THEN SubSeq(owed, Len(given) + 1, Len(owed)) ELSE <<<<"lost">>>>
  BY DEF Paid, Flat
<1> HIDE DEF given
<1>3. m \in Nat /\ k \in Nat /\ owed \in Seq(Atom) /\ Len(owed) = m + k
      /\ \A i \in 1..m + k : owed[i] = IF i <= m THEN given[i] ELSE rest[i - m]
  BY <1>1, ConcatProperties DEF given
<1> HIDE DEF m, k
<1>4. IsPrefix(given, owed)
  <2>1. m <= m + k /\ m \in Int /\ 1 \in Int
    BY <1>3
  <2>2. SubSeq(owed, 1, m) = given
    <3>0. \A i \in 1..m : owed[i] \in Atom
      BY <1>3
    <3>1. \A i \in 1..m : owed[i] = given[i]
      BY <1>3
    <3>2. /\ SubSeq(owed, 1, m) \in Seq(Atom) /\ Len(SubSeq(owed, 1, m)) = m
          /\ \A i \in 1..m : SubSeq(owed, 1, m)[i] = owed[i]
      BY <1>3, <3>0, FirstPart
    <3> DEFINE s == SubSeq(owed, 1, m)
    <3>3. s \in Seq(Atom) /\ Len(s) = Len(given) /\ \A i \in 1..Len(s) : s[i] = given[i]
      <4>1. Len(s) = m /\ m = Len(given)
        BY <3>2 DEF m
      <4> HIDE DEF m
      <4> QED
        BY <3>1, <3>2, <4>1
    <3> HIDE DEF s
    <3> QED
      BY <1>1, <3>3, SeqEqual DEF s
  <2> QED
    BY <1>3, <2>1, <2>2 DEF IsPrefix, m
<1>5. SubSeq(owed, m + 1, m + k) = rest
  <2> DEFINE s == SubSeq(owed, m + 1, m + k)
  <2>1. \A i \in m + 1..m + k : owed[i] \in Atom
    BY <1>3
  <2>2. /\ s \in Seq(Atom) /\ Len(s) = k
        /\ \A i \in 1..k : s[i] = owed[m + i]
    BY <1>3, <2>1, LastPart
  <2>4. \A i \in 1..k : m + i \in 1..m + k /\ ~(m + i <= m) /\ (m + i) - m = i
    BY <1>3
  <2>5. Len(s) = k /\ \A i \in 1..k : s[i] = rest[i]
    BY <1>3, <2>2, <2>4
  <2> HIDE DEF s
  <2> QED
    BY <2>2, <2>5, SeqEqual DEF s, k
<1> QED
  BY <1>2, <1>3, <1>4, <1>5 DEF m

LEMMA FlatEmpty == Flat(<<>>) = <<>>
BY DEF Flat, FlattenSeq

LEMMA FlatTypes ==
  ASSUME NEW events \in Seq(Event)
  PROVE  Flat(events) \in Seq(Atom)
<1>1. CASE events = <<>>
  <2>1. <<>> \in Seq(Atom)
    OBVIOUS
  <2> QED
    BY <1>1, <2>1, FlatEmpty
<1>2. CASE events # <<>>
  <2>1. events[1] \in Event
    BY <1>2
  <2> QED
    BY <2>1, FlatOK
<1> QED
  BY <1>1, <1>2

(* A step that is none of the turn's. *)
LEMMA TurnIsUntouched ==
  ASSUME LostInv, UNCHANGED <<call, outbox, channel, display, owed, worker>>,
         cli.pc \notin {"turn", "killed"} \/ cli'.pc \in {"turn", "killed"}
  PROVE  LostInv'
<1>1. TurnTypes'
  BY DEF LostInv, TurnTypes
<1>2. Stages'
  BY DEF LostInv, Stages
<1>3. OwedIsUnderway'
  BY DEF LostInv, OwedIsUnderway
<1> QED
  BY <1>1, <1>2, <1>3 DEF LostInv

LEMMA RequestKeepsLost ==
  ASSUME LostInv, InTurn, Request
  PROVE  LostInv'
<1>1. UNCHANGED <<cli, worker, channel, display, owed>> /\ CallStep /\ cli.pc = "turn"
  BY DEF Request, Rest, InTurn, displayVars
<1>2. call = [x \in CallFields |-> call[x]] /\ outbox \in Seq(Event \cup Told)
  BY DEF LostInv, TurnTypes
<1>3. ASSUME call' = [x \in CallFields |-> call'[x]], outbox' \in Seq(Event \cup Told),
             call.pc # "idle",
             call'.pc = "reading" => call'.reply \in Replies /\ call'.at \in 0..Len(call'.reply.chunks)
      PROVE  LostInv'
  <2>1. worker.pc = "calling"
    BY <1>3 DEF LostInv, Stages
  <2>2. TurnTypes'
    BY <1>1, <1>3 DEF LostInv, TurnTypes
  <2>3. Stages'
    BY <1>1, <1>3, <2>1 DEF LostInv, Stages
  <2>4. OwedIsUnderway'
    BY <1>1 DEF LostInv, OwedIsUnderway
  <2> QED
    BY <2>2, <2>3, <2>4 DEF LostInv
<1>4. ASSUME UNCHANGED outbox, call' = [x \in CallFields |-> call'[x]], call.pc # "idle",
             call'.pc # "reading"
      PROVE  LostInv'
  BY <1>2, <1>3, <1>4
<1>5. CASE \/ Prepares \/ Posts \/ Transferred \/ Classifies \/ Decides \/ Wakes
           \/ \E outcome \in Outcomes : Unanswered(outcome)
  <2>1. UNCHANGED outbox /\ call.pc # "idle"
    BY <1>5 DEF Prepares, Posts, Transferred, Classifies, Decides, Wakes, Unanswered
  <2>2. call' = [x \in CallFields |-> call'[x]] /\ call'.pc # "reading"
    <3>1. CASE Prepares \/ Posts \/ Transferred
      BY <1>2, <3>1 DEF Prepares, Posts, Transferred, Returned, CallFields
    <3>2. CASE Classifies
      BY <1>2, <3>2 DEF Classifies, CallFields
    <3>3. CASE Decides \/ Wakes
      BY <1>2, <3>3 DEF Decides, Wakes, CallFields
    <3>4. CASE \E outcome \in Outcomes : Unanswered(outcome)
      BY <1>2, <3>4 DEF Unanswered, Returned, CallFields
    <3> QED
      BY <1>5, <3>1, <3>2, <3>3, <3>4
  <2> QED
    BY <1>4, <2>1, <2>2
<1>6. ASSUME NEW reply \in Replies, Hears(reply) PROVE LostInv'
  <2>1. call.pc = "posted" /\ UNCHANGED outbox
    BY <1>6 DEF Hears
  <2>2. Len(reply.chunks) \in Nat
    BY RepliesAreStreams
  <2>3. \/ \E outcome : Returned(outcome)
        \/ call' = [call EXCEPT !.pc = "reading", !.reply = reply, !.at = 0]
    BY <1>6 DEF Hears
  <2>4. /\ call' = [x \in CallFields |-> call'[x]]
        /\ call'.pc = "reading" => call'.reply = reply /\ call'.at = 0
    BY <1>2, <2>3 DEF Returned, CallFields
  <2>5. call'.pc = "reading" => call'.reply \in Replies /\ call'.at \in 0..Len(call'.reply.chunks)
    BY <1>6, <2>2, <2>4
  <2> QED
    BY <1>2, <1>3, <2>1, <2>4, <2>5
<1>7. CASE Chunk
  <2>1. /\ call.pc = "reading" /\ call.reply \in Replies /\ call.at \in 0..Len(call.reply.chunks)
        /\ call.at < Len(call.reply.chunks) /\ Len(call.reply.chunks) \in Nat
    BY <1>7, RepliesAreStreams DEF Chunk, LostInv, Stages
  <2>2. \/ \E outcome : Returned(outcome)
        \/ call' = [call EXCEPT !.at = call.at + 1]
        \/ call' = [call EXCEPT !.at = call.at + 1, !.pc = "returned", !.outcome = "refused"]
    BY <1>2, <1>7 DEF Chunk, CallFields
  <2>3. /\ call' = [x \in CallFields |-> call'[x]]
        /\ call'.pc = "reading" => call'.reply = call.reply /\ call'.at = call.at + 1
    BY <1>2, <2>2 DEF Returned, CallFields
  <2>4. call'.pc = "reading" => call'.reply \in Replies /\ call'.at \in 0..Len(call'.reply.chunks)
    BY <2>1, <2>3
  <2>5. outbox' \in Seq(Event \cup Told)
    <3>1. Notices(call.at + 1) \in Seq(Told)
      <4>1. call.at + 1 \in 1..Len(call.reply.chunks)
        BY <2>1
      <4> QED
        BY <2>1, <4>1, NoticesAreTold
    <3>2. outbox' = outbox \/ outbox' = Notices(call.at + 1) \/ outbox' = <<>>
      BY <1>7 DEF Chunk
    <3>3. ASSUME NEW s \in Seq(Told) PROVE s \in Seq(Event \cup Told)
      OBVIOUS
    <3>4. Notices(call.at + 1) \in Seq(Event \cup Told) /\ <<>> \in Seq(Event \cup Told)
      BY <3>1, <3>3
    <3> HIDE DEF Notices
    <3> QED
      BY <1>2, <3>2, <3>4
  <2> QED
    BY <1>3, <2>1, <2>3, <2>4, <2>5
<1> QED
  BY <1>1, <1>5, <1>6, <1>7 DEF CallStep

(* What the turn's thread announces. *)
LEMMA Announcements ==
  /\ \A what \in Labels : Progress(what) \in Event /\ Phase(what) \in Event
  /\ \A compacts : Announced(compacts) \in Seq(Event \cup Told)
  /\ <<Progress("ContextPreparationStarted")>> \in Seq(Event \cup Told)
  /\ <<Progress("ContextPreparationStarted"), Progress("ModelCallStarted")>> \in Seq(Event \cup Told)
  /\ \A verdict \in {"ToolCallSucceeded", "ToolCallFailed"} :
       <<Progress("ToolCallStarted"), Progress(verdict)>> \in Seq(Event \cup Told)
<1>1. \A what \in Labels : Progress(what) \in Event /\ Phase(what) \in Event
  BY DEF Progress, Phase, Event
<1>2. /\ Progress("ContextPreparationStarted") \in Event \cup Told
      /\ Progress("ModelCallStarted") \in Event \cup Told
      /\ Progress("ToolCallStarted") \in Event \cup Told
      /\ Progress("ToolCallSucceeded") \in Event \cup Told
      /\ Progress("ToolCallFailed") \in Event \cup Told
      /\ Phase("Compacting context...") \in Event \cup Told
      /\ Phase("Retrieving memory") \in Event \cup Told
  BY <1>1 DEF Labels
<1>3. ASSUME NEW compacts PROVE Announced(compacts) \in Seq(Event \cup Told)
  <2> DEFINE first == IF compacts THEN <<Phase("Compacting context...")>> ELSE <<>>
             second == IF cli.memory THEN <<Phase("Retrieving memory")>> ELSE <<>>
  <2>0. <<>> \in Seq(Event \cup Told) /\ \A x \in Event \cup Told : <<x>> \in Seq(Event \cup Told)
    OBVIOUS
  <2>1. first \in Seq(Event \cup Told) /\ second \in Seq(Event \cup Told)
    <3>1. /\ <<Phase("Compacting context...")>> \in Seq(Event \cup Told)
          /\ <<Phase("Retrieving memory")>> \in Seq(Event \cup Told)
      BY <1>2, <2>0
    <3> QED
      BY <2>0, <3>1, Zenon
  <2>2. Announced(compacts) = first \o second
    BY DEF Announced
  <2> HIDE DEF first, second
  <2> QED
    BY <2>1, <2>2, ConcatProperties
<1>4. \A a, b \in Event \cup Told : <<a>> \in Seq(Event \cup Told) /\ <<a, b>> \in Seq(Event \cup Told)
  OBVIOUS
<1>5. \A verdict \in {"ToolCallSucceeded", "ToolCallFailed"} : Progress(verdict) \in Event \cup Told
  BY <1>2
<1> QED
  BY <1>1, <1>2, <1>3, <1>4, <1>5

(* The turn's thread goes on without a word to the channel. *)
LEMMA SilentStep ==
  ASSUME LostInv, InTurn, UNCHANGED <<cli, channel, display, owed>>,
         outbox' \in Seq(Event \cup Told),
         worker' = [x \in WorkerFields |-> worker'[x]], worker'.round \in Nat,
         call' = [x \in CallFields |-> call'[x]],
         worker.pc # "done", worker'.pc # "done",
         worker'.pc \in {"none", "start"} => outbox' = <<>>,
         call'.pc # "idle" => worker'.pc = "calling", call'.pc # "reading"
  PROVE  LostInv'
<1>1. TurnTypes'
  BY DEF LostInv, TurnTypes
<1>2. Stages'
  BY DEF LostInv, Stages, InTurn
<1>3. OwedIsUnderway'
  BY DEF LostInv, OwedIsUnderway
<1> QED
  BY <1>1, <1>2, <1>3 DEF LostInv

LEMMA ThreadKeepsLost ==
  ASSUME LostInv, InTurn,
         \/ \E compacts \in BOOLEAN : Begins(compacts)
         \/ Round \/ HearsAnswer \/ Settles \/ TurnFails
         \/ \E observed \in BOOLEAN : Calls(observed)
         \/ \E verdict \in {"ToolCallSucceeded", "ToolCallFailed"} : UsesTool(verdict)
  PROVE  LostInv'
<1>1. /\ UNCHANGED <<cli, channel, display, owed>>
      /\ worker = [x \in WorkerFields |-> worker[x]] /\ worker.round \in Nat
      /\ call = [x \in CallFields |-> call[x]] /\ outbox \in Seq(Event \cup Told)
      /\ worker.pc # "calling" => call.pc = "idle"
  BY DEF Begins, Round, HearsAnswer, Settles, TurnFails, LoadFails, BeginFails, CommitFails, Calls,
         UsesTool, Rest, displayVars, callVars, LostInv, TurnTypes, Stages
<1>2. CASE \E compacts \in BOOLEAN : Begins(compacts)
  <2>1. PICK compacts \in BOOLEAN : Begins(compacts)
    BY <1>2
  <2>2. worker.pc = "start" /\ UNCHANGED call /\ outbox = <<>>
    BY <2>1 DEF Begins, LostInv, Stages
  <2>3. \/ Refused(store[cli.id].turns) /\ UNCHANGED outbox
        \/ worker' = [worker EXCEPT !.pc = "round"] /\ outbox' = Announced(compacts)
    BY <2>1 DEF Begins, Loaded
  <2>4. outbox' \in Seq(Event \cup Told)
    BY <1>1, <2>3, Announcements
  <2>5. /\ worker' = [x \in WorkerFields |-> worker'[x]] /\ worker'.round \in Nat
        /\ worker'.pc = "round" \/ (worker'.pc = "over" /\ outbox' = <<>>)
    <3>1. CASE worker' = [worker EXCEPT !.pc = "round"]
      BY <1>1, <3>1 DEF WorkerFields
    <3>2. CASE Refused(store[cli.id].turns) /\ UNCHANGED outbox
      BY <1>1, <2>2, <3>2 DEF Refused, WorkerFields
    <3> QED
      BY <2>3, <3>1, <3>2
  <2> QED
    BY <1>1, <2>2, <2>4, <2>5, SilentStep
<1>3. CASE Round
  <2>1. worker.pc = "round" /\ UNCHANGED call
    BY <1>3 DEF Round
  <2>2. \/ /\ \E outcome : worker' = [worker EXCEPT !.pc = "settle", !.outcome = outcome]
           /\ outbox' = <<Progress("ContextPreparationStarted")>>
        \/ /\ worker' = [worker EXCEPT !.pc = "ask", !.round = worker.round + 1]
           /\ outbox' = <<Progress("ContextPreparationStarted"), Progress("ModelCallStarted")>>
    BY <1>1, <1>3 DEF Round, Ended, WorkerFields
  <2>3. outbox' \in Seq(Event \cup Told)
    BY <2>2, Announcements
  <2>4. /\ worker' = [x \in WorkerFields |-> worker'[x]] /\ worker'.round \in Nat
        /\ worker'.pc \in {"settle", "ask"}
    <3>1. CASE \E outcome : worker' = [worker EXCEPT !.pc = "settle", !.outcome = outcome]
      BY <1>1, <3>1 DEF WorkerFields
    <3>2. CASE worker' = [worker EXCEPT !.pc = "ask", !.round = worker.round + 1]
      <4> DEFINE n == worker.round + 1
      <4>1. n \in Nat
        BY <1>1
      <4>2. worker' = [worker EXCEPT !.pc = "ask", !.round = n]
        BY <3>2
      <4> HIDE DEF n
      <4> QED
        BY <1>1, <4>1, <4>2 DEF WorkerFields
    <3> QED
      BY <2>2, <3>1, <3>2
  <2> QED
    BY <1>1, <2>1, <2>3, <2>4, SilentStep
<1>4. CASE HearsAnswer
  <2>1. worker.pc = "calling" /\ call' = Idle /\ UNCHANGED outbox
    BY <1>4 DEF HearsAnswer
  <2>2. \/ \E outcome : worker' = [worker EXCEPT !.pc = "settle", !.outcome = outcome]
        \/ worker' = [worker EXCEPT !.pc = "tool"]
        \/ \E answer : worker' = [worker EXCEPT !.pc = "settle", !.outcome = "completed", !.answer = answer]
    BY <1>4 DEF HearsAnswer, Ended
  <2>3. /\ worker' = [x \in WorkerFields |-> worker'[x]] /\ worker'.round \in Nat
        /\ worker'.pc \in {"settle", "tool"}
    BY <1>1, <2>2 DEF WorkerFields
  <2> QED
    BY <1>1, <2>1, <2>3, FieldsOfCall, SilentStep
<1>5. CASE Settles \/ TurnFails
  <2>1. /\ worker.pc \in {"start", "settle"} /\ UNCHANGED call
        /\ \E w : w = [x \in WorkerFields |-> w[x]] /\ w.round = worker.round /\ w.pc = "over"
                 /\ worker' = w
    <3>1. CASE Settles
      BY <1>1, <3>1 DEF Settles, callVars, WorkerFields
    <3>2. CASE LoadFails
      BY <1>1, <3>2 DEF LoadFails, callVars, WorkerFields
    <3>3. CASE \E compacts, started \in BOOLEAN : BeginFails(compacts, started)
      BY <1>1, <3>3 DEF BeginFails, Refused, WorkerFields
    <3>4. CASE \E inFile \in BOOLEAN : CommitFails(inFile)
      BY <1>1, <3>4 DEF CommitFails, callVars, WorkerFields
    <3> QED
      BY <1>5, <3>1, <3>2, <3>3, <3>4 DEF TurnFails
  <2>2. outbox' \in Seq(Event \cup Told)
    <3>1. UNCHANGED outbox \/ \E compacts : outbox' = Announced(compacts)
      BY <1>5 DEF Settles, TurnFails, LoadFails, BeginFails, CommitFails, callVars
    <3> QED
      BY <1>1, <3>1, Announcements
  <2> QED
    BY <1>1, <2>1, <2>2, SilentStep
<1>6. CASE \E observed \in BOOLEAN : Calls(observed)
  <2>1. PICK observed \in BOOLEAN : Calls(observed)
    BY <1>6
  <2>2. /\ worker.pc = "ask" /\ call' = Begun(observed) /\ UNCHANGED outbox
        /\ worker' = [worker EXCEPT !.pc = "calling"]
    BY <2>1 DEF Calls
  <2>3. /\ worker' = [x \in WorkerFields |-> worker'[x]] /\ worker'.round \in Nat
        /\ worker'.pc = "calling"
    BY <1>1, <2>2 DEF WorkerFields
  <2>4. Begun(observed).pc # "reading"
    BY DEF Begun, Idle
  <2> QED
    BY <1>1, <2>2, <2>3, <2>4, FieldsOfCall, SilentStep
<1>7. CASE \E verdict \in {"ToolCallSucceeded", "ToolCallFailed"} : UsesTool(verdict)
  <2>1. PICK verdict \in {"ToolCallSucceeded", "ToolCallFailed"} : UsesTool(verdict)
    BY <1>7
  <2>2. /\ worker.pc = "tool" /\ UNCHANGED call
        /\ \/ worker' = [worker EXCEPT !.pc = "settle", !.outcome = "cancelled"] /\ UNCHANGED outbox
           \/ /\ worker' = [worker EXCEPT !.pc = "round"]
              /\ outbox' = <<Progress("ToolCallStarted"), Progress(verdict)>>
    BY <2>1 DEF UsesTool, Ended
  <2>3. outbox' \in Seq(Event \cup Told)
    BY <1>1, <2>2, Announcements
  <2>4. /\ worker' = [x \in WorkerFields |-> worker'[x]] /\ worker'.round \in Nat
        /\ worker'.pc \in {"settle", "round"}
    BY <1>1, <2>2 DEF WorkerFields
  <2> QED
    BY <1>1, <2>2, <2>3, <2>4, SilentStep
<1> QED
  BY <1>2, <1>3, <1>4, <1>5, <1>6, <1>7

(* What the turn's thread hands on comes last of what is owed. *)
LEMMA SaysKeepsLost ==
  ASSUME LostInv, InTurn, Says
  PROVE  LostInv'
<1> DEFINE said == Head(outbox)
           events == IF said.kind \in {"Progress", "Phase", "Text"} THEN <<said>>
                     ELSE Pieces(TextEvent(worker.round, said))
           e == Head(events)
<1>1. /\ channel' = Pushed(e) /\ outbox # <<>> /\ outbox' = Tail(events) \o Tail(outbox)
      /\ owed' = owed \o Atoms(e) /\ UNCHANGED <<cli, call, display, worker>>
  BY DEF Says, push, Rest
<1>2. /\ channel \in Channels /\ display \in Displays
      /\ outbox \in Seq(Event \cup Told) /\ worker.round \in Nat
  BY DEF LostInv, TurnTypes
<1>3. said \in Event \cup Told /\ Tail(outbox) \in Seq(Event \cup Told)
  BY <1>1, <1>2, HeadTailProperties
<1> HIDE DEF said
<1>4. events \in Seq(Event) /\ events # <<>>
  <2>1. CASE said.kind \in {"Progress", "Phase", "Text"}
    <3>1. said \in Event
      BY <1>3, <2>1 DEF Told, Notice
    <3>2. events = <<said>>
      BY <2>1
    <3> HIDE DEF events
    <3> QED
      BY <3>1, <3>2
  <2>2. CASE said.kind \notin {"Progress", "Phase", "Text"}
    <3>1. said \in Told
      BY <1>3, <2>2 DEF Event, TextPiece
    <3>2. events = Pieces(TextEvent(worker.round, said))
      BY <2>2
    <3> HIDE DEF events
    <3> QED
      BY <1>2, <3>1, <3>2, PiecesTyped
  <2> QED
    BY <2>1, <2>2
<1> HIDE DEF events
<1>5. e \in Event /\ Tail(events) \in Seq(Event)
  BY <1>4, HeadTailProperties
<1> HIDE DEF e
<1>6. outbox' \in Seq(Event \cup Told)
  <2>1. ASSUME NEW s \in Seq(Event) PROVE s \in Seq(Event \cup Told)
    OBVIOUS
  <2>2. Tail(events) \in Seq(Event \cup Told)
    BY <1>5, <2>1
  <2> QED
    BY <1>1, <1>3, <2>2, ConcatProperties
<1>7. /\ channel' \in Channels
      /\ channel'.closed = channel.closed /\ channel'.done = channel.done
      /\ channel.closed => channel' = channel
      /\ ~channel.closed => Flat(channel'.events) = Flat(channel.events) \o Atoms(e)
  <2>1. CASE channel.closed
    <3>1. channel' = channel
      BY <1>1, <2>1 DEF Pushed
    <3> QED
      BY <1>2, <2>1, <3>1
  <2>2. CASE ~channel.closed
    BY <1>1, <1>2, <1>5, <2>2, PushedOK DEF Channels
  <2> QED
    BY <2>1, <2>2
<1>8. worker.pc \notin {"none", "start", "done"} /\ ~channel.done /\ ~display.done
      /\ display.pc # "finished" /\ cli.pc = "turn"
  BY <1>1 DEF LostInv, Stages, InTurn
<1>9. TurnTypes'
  BY <1>1, <1>6, <1>7 DEF LostInv, TurnTypes
<1>10. Stages'
  BY <1>1, <1>7, <1>8 DEF LostInv, Stages
<1>11. OwedIsUnderway'
  <2> SUFFICES ASSUME ~display.failed
               PROVE  owed' = Flat(display.batch) \o Flat(channel'.events)
    BY <1>1 DEF OwedIsUnderway
  <2>1. ~channel.closed /\ owed = Flat(display.batch) \o Flat(channel.events)
    BY <1>8 DEF LostInv, Stages, OwedIsUnderway
  <2>2. Flat(display.batch) \in Seq(Atom) /\ Flat(channel.events) \in Seq(Atom) /\ Atoms(e) \in Seq(Atom)
    <3>1. display.batch \in Seq(Event) /\ channel.events \in Seq(Event)
      BY <1>2 DEF Displays, Channels
    <3> QED
      BY <1>5, <3>1, FlatTypes, AtomsAreSeq
  <2>3. owed' = Flat(display.batch) \o (Flat(channel.events) \o Atoms(e))
    <3>1. (Flat(display.batch) \o Flat(channel.events)) \o Atoms(e) =
            Flat(display.batch) \o (Flat(channel.events) \o Atoms(e))
      BY <2>2, ConcatAssociative
    <3> QED
      BY <1>1, <2>1, <3>1
  <2> QED
    BY <1>7, <2>1, <2>3
<1> QED
  BY <1>9, <1>10, <1>11 DEF LostInv

LEMMA EndsKeepsLost ==
  ASSUME LostInv, InTurn, Ends
  PROVE  LostInv'
<1>1. /\ worker.pc = "over" /\ outbox = <<>> /\ worker' = [worker EXCEPT !.pc = "done"]
      /\ channel' = [channel EXCEPT !.done = TRUE]
      /\ UNCHANGED <<cli, call, outbox, display, owed>>
  BY DEF Ends, Rest, callVars
<1>2. /\ worker' = [x \in WorkerFields |-> worker'[x]] /\ worker'.pc = "done"
      /\ worker'.round = worker.round
  BY <1>1 DEF LostInv, TurnTypes, WorkerFields
<1>3. /\ channel' \in Channels
      /\ channel'.events = channel.events /\ channel'.closed = channel.closed /\ channel'.done
  BY <1>1 DEF LostInv, TurnTypes, Channels
<1>4. TurnTypes'
  BY <1>1, <1>2, <1>3 DEF LostInv, TurnTypes
<1>5. Stages'
  BY <1>1, <1>2, <1>3 DEF LostInv, Stages, InTurn
<1>6. OwedIsUnderway'
  BY <1>1, <1>3 DEF LostInv, OwedIsUnderway
<1> QED
  BY <1>4, <1>5, <1>6 DEF LostInv

(* The display takes what is in the channel, shows what it took, and ends. *)
LEMMA DisplayKeepsLost ==
  ASSUME LostInv, InTurn, DisplayStep \/ TerminalFails
  PROVE  LostInv'
<1>1. UNCHANGED <<cli, call, outbox, worker>> /\ cli.pc = "turn"
  BY DEF DisplayStep, TerminalFails, CancelTurn, Joins, Shown, Rest, callVars, InTurn
<1>2. channel \in Channels /\ display \in Displays
  BY DEF LostInv, TurnTypes
<1>3. ASSUME channel' \in Channels, display' \in Displays, channel'.done = channel.done,
             channel'.closed => channel.closed \/ display'.failed \/ display'.pc = "finished",
             display.failed => display'.failed,
             display.pc = "finished" => display'.pc = "finished",
             display'.done => channel.done /\ channel'.events = <<>>,
             display'.pc # "showing" => display'.batch = <<>>,
             display'.pc \in {"cancelling", "joining", "finished"} => display'.done \/ display'.failed,
             display'.pc = "finished" => worker.pc = "done",
             ~display'.failed => owed' = Flat(display'.batch) \o Flat(channel'.events)
      PROVE  LostInv'
  <2>1. TurnTypes'
    BY <1>1, <1>3 DEF LostInv, TurnTypes
  <2>2. Stages'
    BY <1>1, <1>3 DEF LostInv, Stages
  <2>3. OwedIsUnderway'
    BY <1>3 DEF OwedIsUnderway
  <2> QED
    BY <2>1, <2>2, <2>3 DEF LostInv
<1>4. /\ channel.events \in Seq(Event) /\ display.batch \in Seq(Event)
      /\ Flat(channel.events) \in Seq(Atom) /\ Flat(display.batch) \in Seq(Atom)
      /\ <<>> \in Seq(Event)
  BY <1>2, FlatTypes DEF Channels, Displays
<1>5. /\ Flat(channel.events) \o <<>> = Flat(channel.events)
      /\ <<>> \o Flat(channel.events) = Flat(channel.events)
  BY <1>4, ConcatEmptySeq
<1>6. CASE Takes
  <2>1. /\ display.pc = "waiting" /\ channel' = [channel EXCEPT !.events = <<>>] /\ UNCHANGED owed
        /\ display' = [display EXCEPT !.pc = "showing", !.batch = channel.events, !.done = channel.done]
    BY <1>6 DEF Takes, TakesNow, Moves
  <2>2. channel' \in Channels /\ channel'.events = <<>> /\ channel'.done = channel.done
        /\ channel'.closed = channel.closed
    BY <1>2, <1>4, <2>1 DEF Channels
  <2>3. display' \in Displays /\ display'.pc = "showing" /\ display'.batch = channel.events
        /\ display'.done = channel.done /\ display'.failed = display.failed
    BY <1>2, <1>4, <2>1 DEF Channels, Displays, DisplayPoints
  <2>4. ~display.failed => owed' = Flat(display'.batch) \o Flat(channel'.events)
    <3>1. display.batch = <<>>
      BY <2>1 DEF LostInv, Stages
    <3>2. ~display.failed => owed = Flat(channel.events)
      BY <1>5, <3>1, FlatEmpty DEF LostInv, OwedIsUnderway
    <3> QED
      BY <1>5, <2>1, <2>2, <2>3, <3>2, FlatEmpty
  <2> QED
    BY <1>3, <2>1, <2>2, <2>3, <2>4
<1>7. CASE Shows(flag)
  <2>1. /\ display.pc = "showing" /\ UNCHANGED channel /\ owed' = Paid
        /\ display' = [display EXCEPT !.pc = IF display.done THEN "joining" ELSE "waiting", !.batch = <<>>]
    BY <1>7 DEF Shows, ShowsNow, Moves
  <2>2. display' \in Displays /\ display'.pc \in {"joining", "waiting"} /\ display'.batch = <<>>
        /\ display'.done = display.done /\ display'.failed = display.failed
        /\ (display'.pc = "joining" => display.done)
    BY <1>2, <1>4, <2>1 DEF Displays, DisplayPoints
  <2>3. display.done => channel.done /\ channel.events = <<>>
    BY DEF LostInv, Stages
  <2>4. ~display.failed => owed' = Flat(display'.batch) \o Flat(channel'.events)
    <3>1. ~display.failed => Paid = Flat(channel.events)
      BY <1>4, PaidIs DEF LostInv, OwedIsUnderway
    <3> QED
      BY <1>5, <2>1, <2>2, <3>1, FlatEmpty
  <2> QED
    BY <1>2, <1>3, <2>1, <2>2, <2>3, <2>4
<1>8. CASE Frame(flag)
  <2>1. UNCHANGED <<channel, display, owed>>
    BY <1>8 DEF Frame
  <2> QED
    BY <1>1, <2>1, TurnIsUntouched
<1>9. CASE CancelTurn
  <2>1. /\ display.pc = "cancelling" /\ UNCHANGED <<channel, owed>>
        /\ display' = [display EXCEPT !.pc = "joining"]
    BY <1>9 DEF CancelTurn, CancelsNow, Moves
  <2>2. display' \in Displays /\ display'.pc = "joining" /\ display'.batch = display.batch
        /\ display'.done = display.done /\ display'.failed = display.failed
    BY <1>2, <2>1 DEF Displays, DisplayPoints
  <2> QED
    BY <1>2, <1>3, <2>1, <2>2 DEF LostInv, Stages, OwedIsUnderway
<1>10. CASE Joins
  <2>1. /\ display.pc = "joining" /\ UNCHANGED owed /\ worker.pc = "done"
        /\ display' = [display EXCEPT !.pc = "finished"]
        /\ channel' = [channel EXCEPT !.closed = TRUE, !.events = <<>>]
    BY <1>10 DEF Joins, Finishes, JoinsNow, Moves, Closed
  <2>2. display' \in Displays /\ display'.pc = "finished" /\ display'.batch = display.batch
        /\ display'.done = display.done /\ display'.failed = display.failed
    BY <1>2, <2>1 DEF Displays, DisplayPoints
  <2>3. channel' \in Channels /\ channel'.events = <<>> /\ channel'.done = channel.done
    BY <1>2, <1>4, <2>1 DEF Channels
  <2>4. ~display.failed => channel.events = <<>>
    BY <2>1 DEF LostInv, Stages
  <2> QED
    BY <1>3, <2>1, <2>2, <2>3, <2>4 DEF LostInv, Stages, OwedIsUnderway
<1>11. CASE TerminalFails
  <2>1. /\ display.pc \in {"waiting", "showing"}
        /\ display' = [display EXCEPT !.pc = "cancelling", !.batch = <<>>, !.failed = TRUE]
        /\ channel' = [channel EXCEPT !.closed = TRUE, !.events = <<>>]
    BY <1>11 DEF TerminalFails, OutputFails, Moves, Closed
  <2>2. display' \in Displays /\ display'.pc = "cancelling" /\ display'.batch = <<>>
        /\ display'.done = display.done /\ display'.failed
    BY <1>2, <1>4, <2>1 DEF Displays, DisplayPoints
  <2>3. channel' \in Channels /\ channel'.events = <<>> /\ channel'.done = channel.done
    BY <1>2, <1>4, <2>1 DEF Channels
  <2> QED
    BY <1>3, <2>1, <2>2, <2>3 DEF LostInv, Stages
<1> QED
  BY <1>6, <1>7, <1>8, <1>9, <1>10, <1>11 DEF DisplayStep

LEMMA CommandsKeepLost ==
  ASSUME LeftInv, LostInv,
         \/ Start \/ SwitchMemory \/ Exit \/ ClearFlag \/ StartTurn
         \/ \E s \in Sessions : StartFresh(s) \/ NewSession(s) \/ Resume(s)
         \/ \E kind \in {"prompt", "plan"} : Asks(kind)
         \/ \E accepted \in BOOLEAN : Confirm(accepted)
  PROVE  LostInv'
<1>1. CASE StartTurn
  <2>1. /\ cli.pc = "install" /\ worker' = [NoWorker EXCEPT !.pc = "start"]
        /\ display' = [NewDisplay EXCEPT !.pc = "waiting"]
        /\ cli' = [cli EXCEPT !.pc = "turn"] /\ UNCHANGED <<call, outbox, channel, owed>>
    BY <1>1 DEF StartTurn, callVars
  <2>2. cli'.pc = "turn"
    BY <2>1 DEF LeftInv, CliTypes
  <2>3. worker = NoWorker /\ display = NewDisplay /\ channel = NewChannel /\ owed = <<>>
    BY <2>1 DEF LostInv, Stages
  <2>4. /\ worker' = [x \in WorkerFields |-> worker'[x]] /\ worker'.pc = "start" /\ worker'.round = 0
        /\ NoWorker.pc = "none"
    BY <2>1 DEF NoWorker, WorkerFields
  <2>5. /\ display' \in Displays /\ display'.pc = "waiting" /\ display'.batch = <<>>
        /\ ~display'.done /\ ~display'.failed /\ NewDisplay.batch = <<>>
    <3>1. display' = [pc |-> "waiting", batch |-> <<>>, done |-> FALSE, failed |-> FALSE]
      BY <2>1 DEF NewDisplay
    <3>2. <<>> \in Seq(Event)
      OBVIOUS
    <3> QED
      BY <3>1, <3>2 DEF NewDisplay, Displays, DisplayPoints
  <2>6. ~channel.done /\ ~channel.closed /\ channel.events = <<>>
    BY <2>3 DEF NewChannel
  <2>7. outbox = <<>> /\ call.pc = "idle"
    BY <2>3, <2>4 DEF LostInv, Stages
  <2>8. TurnTypes'
    BY <2>1, <2>4, <2>5 DEF LostInv, TurnTypes
  <2>9. Stages'
    BY <2>1, <2>2, <2>4, <2>5, <2>6, <2>7 DEF Stages
  <2>10. OwedIsUnderway'
    <3>1. <<>> \o <<>> = <<>>
      OBVIOUS
    <3> QED
      BY <2>1, <2>3, <2>5, <2>6, <3>1, FlatEmpty DEF OwedIsUnderway
  <2> QED
    BY <2>8, <2>9, <2>10 DEF LostInv
<1>2. CASE ~StartTurn
  <2>1. cli.pc \notin {"turn", "killed"} /\ UNCHANGED <<call, outbox, channel, display, owed, worker>>
    BY <1>2 DEF Start, SwitchMemory, Exit, ClearFlag, StartFresh, NewSession, Resume, Asks, Confirm,
                Reads, turnVars, callVars, displayVars
  <2> QED
    BY <2>1, TurnIsUntouched
<1> QED
  BY <1>1, <1>2

LEMMA EndKeepsLost ==
  ASSUME LostInv, InTurn, EndsTurn
  PROVE  LostInv'
<1>1. /\ display.pc = "finished" /\ UNCHANGED <<call, outbox>>
      /\ display' = NewDisplay /\ channel' = NewChannel /\ owed' = <<>> /\ worker' = NoWorker
  BY DEF EndsTurn, callVars
<1>2. outbox = <<>> /\ call.pc = "idle"
  BY <1>1 DEF LostInv, Stages
<1>3. TurnTypes'
  <2>1. channel' \in Channels
    BY <1>1 DEF NewChannel, Channels
  <2>2. display' \in Displays
    BY <1>1 DEF NewDisplay, Displays, DisplayPoints
  <2>3. worker' = [x \in WorkerFields |-> worker'[x]] /\ worker'.round \in Nat
    BY <1>1 DEF NoWorker, WorkerFields
  <2> QED
    BY <1>1, <2>1, <2>2, <2>3 DEF LostInv, TurnTypes
<1>4. Stages'
  BY <1>1, <1>2 DEF Stages, NewDisplay, NewChannel, NoWorker
<1>5. OwedIsUnderway'
  <2>1. <<>> \o <<>> = <<>> /\ NewDisplay.batch = <<>> /\ NewChannel.events = <<>>
    BY DEF NewDisplay, NewChannel
  <2> QED
    BY <1>1, <2>1, FlatEmpty DEF OwedIsUnderway
<1> QED
  BY <1>3, <1>4, <1>5 DEF LostInv

LEMMA InterruptKeepsLost ==
  ASSUME LeftInv, HeardInv, LostInv, Interrupt
  PROVE  LostInv'
<1>1. UNCHANGED <<call, outbox, channel, display, owed>>
  BY DEF Interrupt, callVars, displayVars
<1>2. CASE handler
  <2>1. cli.pc = "turn" /\ UNCHANGED cli
    BY <1>2 DEF Interrupt, HeardInv
  <2>2. worker' = [worker EXCEPT !.interrupted = worker.interrupted
                     \/ worker.pc \in {"start", "round", "ask", "calling", "tool"}]
    BY <1>2 DEF Interrupt
  <2>3. /\ worker' = [x \in WorkerFields |-> worker'[x]] /\ worker'.pc = worker.pc
        /\ worker'.round = worker.round
    BY <2>2 DEF LostInv, TurnTypes, WorkerFields
  <2>4. TurnTypes'
    BY <1>1, <2>3 DEF LostInv, TurnTypes
  <2>5. Stages'
    BY <1>1, <2>1, <2>3 DEF LostInv, Stages
  <2>6. OwedIsUnderway'
    BY <1>1 DEF LostInv, OwedIsUnderway
  <2> QED
    BY <2>4, <2>5, <2>6 DEF LostInv
<1>3. CASE ~handler
  <2>1. cli' = [cli EXCEPT !.pc = "killed"] /\ UNCHANGED worker
    BY <1>3 DEF Interrupt
  <2>2. cli'.pc = "killed"
    BY <2>1 DEF LeftInv, CliTypes
  <2> QED
    BY <1>1, <2>1, <2>2, TurnIsUntouched
<1> QED
  BY <1>2, <1>3

LEMMA InitLost == Init => LostInv
<1> SUFFICES ASSUME Init PROVE LostInv
  OBVIOUS
<1>1. /\ call = Idle /\ outbox = <<>> /\ channel = NewChannel /\ display = NewDisplay /\ owed = <<>>
      /\ worker = NoWorker
  BY DEF Init, CallInit, DisplayInit
<1>2. TurnTypes
  <2>1. channel \in Channels
    BY <1>1 DEF NewChannel, Channels
  <2>2. display \in Displays
    BY <1>1 DEF NewDisplay, Displays, DisplayPoints
  <2>3. worker = [x \in WorkerFields |-> worker[x]] /\ worker.round \in Nat
    BY <1>1 DEF NoWorker, WorkerFields
  <2>4. call = [x \in CallFields |-> call[x]] /\ outbox \in Seq(Event \cup Told)
    BY <1>1, FieldsOfCall
  <2> QED
    BY <2>1, <2>2, <2>3, <2>4 DEF TurnTypes
<1>3. Stages
  BY <1>1 DEF Stages, NewDisplay, NewChannel, NoWorker, Idle
<1>4. OwedIsUnderway
  <2>1. <<>> \o <<>> = <<>> /\ NewDisplay.batch = <<>> /\ NewChannel.events = <<>>
    BY DEF NewDisplay, NewChannel
  <2> QED
    BY <1>1, <2>1, FlatEmpty DEF OwedIsUnderway
<1> QED
  BY <1>2, <1>3, <1>4 DEF LostInv

LEMMA NextLost == LeftInv /\ HeardInv /\ LostInv /\ [Next]_vars => LostInv'
<1> SUFFICES ASSUME LeftInv, HeardInv, LostInv, [Next]_vars PROVE LostInv'
  OBVIOUS
<1>1. CASE UNCHANGED vars
  <2>1. UNCHANGED <<cli, call, outbox, channel, display, owed, worker>>
    BY <1>1 DEF vars, cliVars, turnVars, callVars, displayVars
  <2> QED
    BY <2>1, TurnIsUntouched
<1>2. CASE InTurn /\ EndsTurn
  BY <1>2, EndKeepsLost
<1>3. CASE InTurn /\ (WorkerStep \/ TurnFails)
  BY <1>3, ThreadKeepsLost, SaysKeepsLost, EndsKeepsLost DEF WorkerStep
<1>4. CASE InTurn /\ Request
  BY <1>4, RequestKeepsLost
<1>5. CASE InTurn /\ (DisplayStep \/ TerminalFails)
  BY <1>5, DisplayKeepsLost
<1>6. CASE Interrupt
  BY <1>6, InterruptKeepsLost
<1>7. CASE \/ Start \/ SwitchMemory \/ Exit \/ ClearFlag \/ StartTurn
           \/ \E s \in Sessions : StartFresh(s) \/ NewSession(s) \/ Resume(s)
           \/ \E kind \in {"prompt", "plan"} : Asks(kind)
           \/ \E accepted \in BOOLEAN : Confirm(accepted)
  BY <1>7, CommandsKeepLost
<1> QED
  BY <1>1, <1>2, <1>3, <1>4, <1>5, <1>6, <1>7 DEF Next

(* Whatever the turn's thread was told to show has been shown when the display     *)
(* waits for that thread: bytes, ends of blocks and progress, in their order, none *)
(* twice, unless the terminal is gone (interactive_cli.cpp:92, :263).              *)
THEOREM DisplaySafety == Spec => []NothingIsLost
<1>1. LostInv => NothingIsLost
  <2> SUFFICES ASSUME LostInv, display.pc \in {"joining", "finished"}, ~display.failed
               PROVE  owed = <<>>
    BY DEF NothingIsLost
  <2>1. display.batch = <<>> /\ channel.events = <<>>
    BY DEF LostInv, Stages
  <2>2. <<>> \o <<>> = <<>>
    OBVIOUS
  <2> QED
    BY <2>1, <2>2, FlatEmpty DEF LostInv, OwedIsUnderway
<1> QED
  BY InitLeft, NextLeft, InitHeard, NextHeard, InitLost, NextLost, <1>1, PTL DEF Spec

(* ------------------------------ what is rendered -------------------------------- *)

(* A bounded set of naturals that has an element has a greatest one. *)
LEMMA GreatestElement ==
  ASSUME NEW L \in Nat, NEW T, T \subseteq 0..L, T # {}
  PROVE  Max(T) \in T /\ \A y \in T : Max(T) >= y
<1> DEFINE Over == {L - y : y \in T}
<1>1. Over \subseteq Nat /\ Over # {}
  <2>1. \A y \in T : L - y \in Nat
    OBVIOUS
  <2> QED
    BY <2>1
<1>2. PICK z \in Over : \A y \in Over : ~(y < z)
  BY <1>1, LeastElement
<1>3. PICK x \in T : z = L - x
  OBVIOUS
<1>4. \A y \in T : ~(L - y < L - x)
  BY <1>2, <1>3
<1>5. \A y \in T : x >= y
  BY <1>4
<1> QED
  BY <1>5 DEF Max

LEMMA TailFrom ==
  ASSUME NEW text \in Seq(Nat), NEW at \in 1..Len(text)
  PROVE  From(text, at) \in Seq(Nat) /\ Len(From(text, at)) = Len(text) - at + 1
<1>1. at \in Int /\ Len(text) \in Int /\ at <= Len(text) /\ \A i \in at..Len(text) : text[i] \in Nat
  OBVIOUS
<1> QED
  BY <1>1, SubSeqProperties DEF From

LEMMA DigitIs == \A value \in Nat : Digit(value) \in Nat
BY DEF Digit

(* A character is at least one byte long and no longer than what is at hand; bytes *)
(* are written for it.                                                             *)
LEMMA TokenTyped ==
  ASSUME NEW text \in Seq(Nat), Len(text) >= 1
  PROVE  /\ DecodedUnit(text) \in 0..Len(text)
         /\ TokenOf(text, DecodedUnit(text)) \in Seq(Nat)
<1>1. text[1] \in Nat /\ Len(text) \in Nat
  OBVIOUS
<1>2. DecodedUnit(text) \in 0..Len(text)
  <2>1. UnitLength(text[1]) \in 1..4
    BY DEF UnitLength
  <2> QED
    BY <1>1, <2>1 DEF DecodedUnit
<1>3. ASSUME NEW n \in 0..Len(text) PROVE TokenOf(text, n) \in Seq(Nat)
  <2>0. \A v \in Nat : v \div 16 \in Nat /\ v % 16 \in Nat
    OBVIOUS
  <2>1. SubSeq(text, 1, n) \in Seq(Nat)
    <3>1. \A i \in 1..n : text[i] \in Nat
      BY <1>1
    <3> QED
      BY <3>1, FirstPart
  <2>2. byte_escape(text[1]) \in Seq(Nat)
    <3>1. Digit(text[1] \div 16) \in Nat /\ Digit(text[1] % 16) \in Nat
      BY <1>1, <2>0, DigitIs
    <3> QED
      BY <3>1 DEF byte_escape
  <2>3. ASSUME NEW code \in Nat PROVE control_escape(code) \in Seq(Nat)
    <3>1. Digit((code \div 16) % 16) \in Nat /\ Digit(code % 16) \in Nat
      BY <2>0, DigitIs
    <3> QED
      BY <3>1 DEF control_escape
  <2>4. n = 2 => Code2(text) \in Nat
    <3> SUFFICES ASSUME n = 2 PROVE Code2(text) \in Nat
      OBVIOUS
    <3>1. text[2] \in Nat
      OBVIOUS
    <3> QED
      BY <1>1, <3>1 DEF Code2
  <2> HIDE DEF Digit
  <2>5. TokenOf(text, n) \in {byte_escape(text[1]), control_escape(text[1]), SubSeq(text, 1, n)}
        \/ (n = 2 /\ TokenOf(text, n) = control_escape(Code2(text)))
    BY DEF TokenOf
  <2> QED
    BY <1>1, <2>1, <2>2, <2>3, <2>4, <2>5
<1> QED
  BY <1>2, <1>3

(* The recursive function of Tokens, from a position on. *)
StepAt(f, text, at) ==
  IF at > Len(text) THEN <<>>
  ELSE <<TokenOf(From(text, at), DecodedUnit(From(text, at)))>>
         \o f[at + Max({1, DecodedUnit(From(text, at))})]
AreSteps(f, text, first) == f = [at \in first..Len(text) + 1 |-> StepAt(f, text, at)]

LEMMA NextAt ==
  ASSUME NEW text \in Seq(Nat), NEW at \in 1..Len(text)
  PROVE  at + Max({1, DecodedUnit(From(text, at))}) \in at + 1..Len(text) + 1
<1> DEFINE n == DecodedUnit(From(text, at))
<1>1. n \in 0..Len(text) - at + 1 /\ Len(text) - at + 1 \in Nat /\ Len(text) - at + 1 >= 1
  BY TailFrom, TokenTyped, SMTT(20)
<1> HIDE DEF n
<1>2. Max({1, n}) \in {1, n} /\ Max({1, n}) >= 1
  <2>1. {1, n} \subseteq 0..Len(text) + 1 /\ {1, n} # {} /\ Len(text) + 1 \in Nat
    BY <1>1
  <2> QED
    BY <2>1, GreatestElement
<1> QED
  BY <1>1, <1>2 DEF n

LEMMA StepsExist ==
  ASSUME NEW text \in Seq(Nat)
  PROVE  \E f : AreSteps(f, text, 1)
<1> DEFINE L == Len(text)
           S == {k \in Nat : k <= L => \E f : AreSteps(f, text, L + 1 - k)}
<1>0. L \in Nat
  OBVIOUS
<1>1. 0 \in S
  <2> DEFINE f == [at \in L + 1..L + 1 |-> <<>>]
  <2>1. \A at \in L + 1..L + 1 : f[at] = StepAt(f, text, at)
    BY <1>0 DEF StepAt
  <2>2. f = [at \in L + 1..L + 1 |-> f[at]]
    OBVIOUS
  <2>3. AreSteps(f, text, L + 1 - 0)
    <3>1. L + 1 - 0 = L + 1
      BY <1>0
    <3> HIDE DEF f
    <3> QED
      BY <2>1, <2>2, <3>1 DEF AreSteps
  <2> QED
    BY <2>3
<1>2. ASSUME NEW k \in Nat, k \in S PROVE k + 1 \in S
  <2> SUFFICES ASSUME k + 1 <= L PROVE \E f : AreSteps(f, text, L + 1 - (k + 1))
    OBVIOUS
  <2>1. PICK f : AreSteps(f, text, L + 1 - k)
    BY <1>0, <1>2
  <2> DEFINE p == L - k
             g == [at \in p..L + 1 |-> IF at = p THEN StepAt(f, text, p) ELSE f[at]]
  <2>2. p \in 1..L /\ L + 1 - (k + 1) = p /\ L + 1 - k = p + 1
    BY <1>0
  <2> HIDE DEF p
  <2>3. \A at \in p + 1..L + 1 : g[at] = f[at]
    BY <1>0, <2>2
  <2>4. ASSUME NEW at \in p..L + 1 PROVE StepAt(g, text, at) = StepAt(f, text, at)
    <3>1. CASE at > L
      BY <3>1 DEF StepAt
    <3>2. CASE ~(at > L)
      <4>1. at \in 1..L /\ at + 1 \in p + 1..L + 1
        BY <1>0, <2>2, <3>2
      <4>2. at + Max({1, DecodedUnit(From(text, at))}) \in p + 1..L + 1
        <5>1. at + Max({1, DecodedUnit(From(text, at))}) \in at + 1..L + 1
          BY <4>1, NextAt
        <5> QED
          BY <1>0, <2>2, <4>1, <5>1
      <4> HIDE DEF g
      <4> QED
        BY <2>3, <4>2 DEF StepAt
    <3> QED
      BY <3>1, <3>2
  <2>5. ASSUME NEW at \in p..L + 1 PROVE g[at] = StepAt(g, text, at)
    <3>1. CASE at = p
      <4>1. g[at] = StepAt(f, text, at)
        BY <3>1
      <4> HIDE DEF g
      <4> QED
        BY <2>4, <4>1
    <3>2. CASE at # p
      <4>1. at \in p + 1..L + 1
        BY <1>0, <2>2, <3>2
      <4>2. f[at] = StepAt(f, text, at)
        BY <2>1, <2>2, <4>1 DEF AreSteps
      <4> HIDE DEF g
      <4> QED
        BY <2>3, <2>4, <4>1, <4>2
    <3> QED
      BY <3>1, <3>2
  <2>6. g = [at \in p..L + 1 |-> g[at]]
    OBVIOUS
  <2> HIDE DEF g
  <2>7. AreSteps(g, text, p)
    BY <2>5, <2>6 DEF AreSteps
  <2> QED
    BY <2>2, <2>7
<1> HIDE DEF S
<1>3. L \in S
  BY <1>0, <1>1, <1>2, SetInduction
<1>4. L + 1 - L = 1 /\ L <= L
  BY <1>0
<1> QED
  BY <1>3, <1>4 DEF S

LEMMA TokensTyped ==
  ASSUME NEW text \in Seq(Nat)
  PROVE  Tokens(text) \in Seq(Seq(Nat))
<1> DEFINE L == Len(text)
           step == CHOOSE f : AreSteps(f, text, 1)
           S == {k \in Nat : \A at \in 1..L + 1 : at + k >= L + 1 => step[at] \in Seq(Seq(Nat))}
<1>0. L \in Nat
  OBVIOUS
<1>1. AreSteps(step, text, 1)
  BY StepsExist
<1>2. Tokens(text) = step[1]
  BY DEF Tokens, AreSteps, StepAt
<1> HIDE DEF step
<1>3. \A at \in 1..L + 1 : step[at] = StepAt(step, text, at)
  BY <1>1 DEF AreSteps
<1>4. 0 \in S
  <2>1. \A at \in 1..L + 1 : at + 0 >= L + 1 => at > L
    BY <1>0
  <2>2. <<>> \in Seq(Seq(Nat))
    OBVIOUS
  <2> QED
    BY <1>3, <2>1, <2>2 DEF StepAt
<1>5. ASSUME NEW k \in Nat, k \in S PROVE k + 1 \in S
  <2> SUFFICES ASSUME NEW at \in 1..L + 1, at + (k + 1) >= L + 1 PROVE step[at] \in Seq(Seq(Nat))
    OBVIOUS
  <2>1. CASE at > L
    <3>1. StepAt(step, text, at) = <<>>
      BY <2>1 DEF StepAt
    <3>2. <<>> \in Seq(Seq(Nat))
      OBVIOUS
    <3> QED
      BY <1>3, <3>1, <3>2
  <2>2. CASE ~(at > L)
    <3> DEFINE n == DecodedUnit(From(text, at))
               next == at + Max({1, n})
    <3>1. at \in 1..L
      BY <1>0, <2>2
    <3>2. next \in at + 1..L + 1
      BY <3>1, NextAt
    <3> HIDE DEF next
    <3>3. next \in 1..L + 1 /\ next + k >= L + 1
      BY <1>0, <3>1, <3>2
    <3>4. step[next] \in Seq(Seq(Nat))
      BY <1>5, <3>3
    <3>5. TokenOf(From(text, at), n) \in Seq(Nat)
      <4>1. From(text, at) \in Seq(Nat) /\ Len(From(text, at)) >= 1
        BY <1>0, <3>1, TailFrom
      <4> QED
        BY <4>1, TokenTyped
    <3>6. step[at] = <<TokenOf(From(text, at), n)>> \o step[next]
      BY <1>3, <2>2 DEF StepAt, next
    <3> HIDE DEF n
    <3>7. \A token \in Seq(Nat) : <<token>> \in Seq(Seq(Nat))
      OBVIOUS
    <3>8. <<TokenOf(From(text, at), n)>> \in Seq(Seq(Nat))
      BY <3>5, <3>7
    <3> QED
      BY <3>4, <3>6, <3>8, ConcatProperties
  <2> QED
    BY <2>1, <2>2
<1> HIDE DEF S
<1>6. L \in S
  BY <1>0, <1>4, <1>5, SetInduction
<1>7. 1 \in 1..L + 1 /\ 1 + L >= L + 1
  BY <1>0
<1> QED
  BY <1>2, <1>6, <1>7 DEF S

(* The recursive function of the size of the first tokens. *)
AreSizes(f, tokens, n) ==
  f = [i \in 0..n |-> IF i = 0 THEN 0 ELSE f[i - 1] + Len(tokens[i])]

LEMMA SizesExist ==
  ASSUME NEW tokens, NEW N \in Nat
  PROVE  \E f : AreSizes(f, tokens, N)
<1> DEFINE S == {n \in Nat : \E f : AreSizes(f, tokens, n)}
<1>1. 0 \in S
  <2>1. AreSizes([i \in 0..0 |-> 0], tokens, 0)
    BY DEF AreSizes
  <2> QED
    BY <2>1
<1>2. ASSUME NEW n \in Nat, n \in S PROVE n + 1 \in S
  <2>1. PICK f : AreSizes(f, tokens, n)
    BY <1>2
  <2> DEFINE g == [i \in 0..n + 1 |-> IF i = n + 1 THEN f[n] + Len(tokens[n + 1]) ELSE f[i]]
  <2>2. \A i \in 0..n + 1 : g[i] = IF i = 0 THEN 0 ELSE g[i - 1] + Len(tokens[i])
    <3> SUFFICES ASSUME NEW i \in 0..n + 1
                 PROVE g[i] = IF i = 0 THEN 0 ELSE g[i - 1] + Len(tokens[i])
      OBVIOUS
    <3>1. CASE i = n + 1
      BY <3>1
    <3>2. CASE i \in 0..n
      <4>1. g[i] = f[i] /\ (i # 0 => g[i - 1] = f[i - 1])
        BY <3>2
      <4>2. f[i] = IF i = 0 THEN 0 ELSE f[i - 1] + Len(tokens[i])
        BY <2>1, <3>2 DEF AreSizes
      <4> QED
        BY <4>1, <4>2
    <3> QED
      BY <3>1, <3>2
  <2>3. g = [i \in 0..n + 1 |-> g[i]]
    OBVIOUS
  <2>4. AreSizes(g, tokens, n + 1)
    <3> HIDE DEF g
    <3> QED
      BY <2>2, <2>3 DEF AreSizes
  <2> QED
    BY <2>4
<1> HIDE DEF S
<1>3. N \in S
  BY <1>1, <1>2, SetInduction
<1> QED
  BY <1>3 DEF S

(* Rendered text is a sequence of bytes. *)
LEMMA RenderedTyped ==
  ASSUME NEW text \in Seq(Nat)
  PROVE  render_terminal_text(text) \in Seq(Nat)
<1> DEFINE tokens == Tokens(text)
           size == CHOOSE f : AreSizes(f, tokens, Len(tokens))
           fitting == {i \in 0..Len(tokens) : size[i] <= RenderedLimit}
           kept == Max(fitting)
           mark == IF kept < Len(tokens) THEN Marker ELSE <<>>
<1>1. tokens \in Seq(Seq(Nat))
  BY TokensTyped
<1>2. render_terminal_text(text) = FlattenSeq(SubSeq(tokens, 1, kept)) \o mark
  BY DEF render_terminal_text, Fitted, AreSizes
<1> HIDE DEF tokens
<1>3. Len(tokens) \in Nat
  BY <1>1
<1>4. AreSizes(size, tokens, Len(tokens))
  BY <1>3, SizesExist
<1> HIDE DEF size
<1>5. size[0] = 0
  BY <1>3, <1>4 DEF AreSizes
<1>6. kept \in fitting
  <2>1. 0 \in fitting
    BY <1>3, <1>5, RenderedLimitIsNatural
  <2>2. fitting \subseteq 0..Len(tokens) /\ fitting # {}
    BY <2>1
  <2> HIDE DEF fitting
  <2> QED
    BY <1>3, <2>2, GreatestElement
<1> HIDE DEF kept
<1>7. kept \in Nat /\ kept <= Len(tokens)
  BY <1>3, <1>6
<1>8. SubSeq(tokens, 1, kept) \in Seq(Seq(Nat))
  <2>1. \A i \in 1..kept : tokens[i] \in Seq(Nat)
    BY <1>1, <1>3, <1>7
  <2> QED
    BY <1>7, <2>1, FirstPart
<1>9. FlattenSeq(SubSeq(tokens, 1, kept)) \in Seq(Nat)
  <2>1. <<>> \in Seq(Nat)
    OBVIOUS
  <2> QED
    BY <1>8, <2>1, FlattenAppend
<1>10. mark \in Seq(Nat)
  BY DEF Marker
<1> HIDE DEF mark
<1> QED
  BY <1>2, <1>9, <1>10, ConcatProperties

(* --------------------------- rendered piece by piece ----------------------------- *)

Sanitizer == [pending : Seq(Nat), bytes : 0..RenderedLimit, truncated : BOOLEAN]
Sanitized == [out : Seq(Nat), next : Sanitizer]

(* The recursive function of Consumed, from a position on. *)
RunAt(f, joined, final, at) ==
  LET rest == From(joined, at)
      taken == Taken(rest, final)
      token == render_terminal_text(SubSeq(rest, 1, taken))
  IN  [bytes \in 0..RenderedLimit |->
        IF at > Len(joined) THEN Outcome(<<>>, <<>>, bytes, FALSE)
        ELSE IF taken = 0 THEN Outcome(<<>>, rest, bytes, FALSE)
        ELSE IF bytes + Len(token) > RenderedLimit THEN Outcome(Marker, <<>>, bytes, TRUE)
        ELSE [f[at + taken][bytes + Len(token)] EXCEPT !.out = token \o @]]
IsRun(f, joined, final, first) ==
  f = [at \in first..Len(joined) + 1 |-> RunAt(f, joined, final, at)]

LEMMA TakenIs ==
  ASSUME NEW rest \in Seq(Nat), Len(rest) >= 1, NEW final
  PROVE  Taken(rest, final) \in 0..Len(rest)
<1>1. UnitLength(rest[1]) \in 1..4 /\ Len(rest) \in Nat
  BY DEF UnitLength
<1> QED
  BY <1>1 DEF Taken

LEMMA RunDepends ==
  ASSUME NEW joined \in Seq(Nat), NEW final, NEW at \in 1..Len(joined) + 1, NEW f, NEW g,
         \A to \in at + 1..Len(joined) + 1 : f[to] = g[to]
  PROVE  RunAt(f, joined, final, at) = RunAt(g, joined, final, at)
<1> DEFINE rest == From(joined, at)
           taken == Taken(rest, final)
           token == render_terminal_text(SubSeq(rest, 1, taken))
<1>1. CASE at > Len(joined)
  BY <1>1 DEF RunAt
<1>2. CASE ~(at > Len(joined))
  <2>1. rest \in Seq(Nat) /\ Len(rest) = Len(joined) - at + 1 /\ Len(joined) \in Nat
        /\ at \in 1..Len(joined)
    BY <1>2, TailFrom
  <2>2. taken \in 0..Len(joined) - at + 1
    <3>1. Len(rest) >= 1
      BY <2>1
    <3> HIDE DEF rest
    <3> QED
      BY <2>1, <3>1, TakenIs
  <2> HIDE DEF rest, taken, token
  <2>3. taken # 0 => f[at + taken] = g[at + taken]
    BY <2>1, <2>2
  <2> QED
    BY <2>3 DEF RunAt, rest, taken, token
<1> QED
  BY <1>1, <1>2

LEMMA RunExists ==
  ASSUME NEW joined \in Seq(Nat), NEW final
  PROVE  \E f : IsRun(f, joined, final, 1)
<1> DEFINE L == Len(joined)
           S == {k \in Nat : k <= L => \E f : IsRun(f, joined, final, L + 1 - k)}
<1>0. L \in Nat
  OBVIOUS
<1>1. 0 \in S
  <2> DEFINE none == [at \in 1..L + 1 |-> 0]
             f == [at \in L + 1..L + 1 |-> RunAt(none, joined, final, at)]
  <2>1. ASSUME NEW at \in L + 1..L + 1 PROVE f[at] = RunAt(f, joined, final, at)
    <3>1. at \in 1..L + 1 /\ \A to \in at + 1..L + 1 : none[to] = f[to]
      BY <1>0
    <3>2. f[at] = RunAt(none, joined, final, at)
      OBVIOUS
    <3> HIDE DEF none, f
    <3>3. RunAt(none, joined, final, at) = RunAt(f, joined, final, at)
      BY <3>1, RunDepends
    <3> QED
      BY <3>2, <3>3
  <2>2. f = [at \in L + 1..L + 1 |-> f[at]]
    OBVIOUS
  <2>3. L + 1 - 0 = L + 1
    BY <1>0
  <2> HIDE DEF f
  <2> QED
    BY <2>1, <2>2, <2>3 DEF IsRun
<1>2. ASSUME NEW k \in Nat, k \in S PROVE k + 1 \in S
  <2> SUFFICES ASSUME k + 1 <= L PROVE \E f : IsRun(f, joined, final, L + 1 - (k + 1))
    OBVIOUS
  <2>1. PICK f : IsRun(f, joined, final, L + 1 - k)
    BY <1>0, <1>2
  <2> DEFINE p == L - k
             g == [at \in p..L + 1 |-> IF at = p THEN RunAt(f, joined, final, p) ELSE f[at]]
  <2>2. p \in 1..L /\ L + 1 - (k + 1) = p /\ L + 1 - k = p + 1
    BY <1>0
  <2> HIDE DEF p
  <2>3. \A at \in p + 1..L + 1 : f[at] = g[at]
    BY <1>0, <2>2
  <2>4. g = [at \in p..L + 1 |-> g[at]]
    OBVIOUS
  <2>5. g[p] = RunAt(f, joined, final, p)
    BY <1>0, <2>2
  <2> HIDE DEF g
  <2>6. ASSUME NEW at \in p..L + 1 PROVE g[at] = RunAt(g, joined, final, at)
    <3>1. RunAt(f, joined, final, at) = RunAt(g, joined, final, at)
      <4>1. at \in 1..L + 1 /\ \A to \in at + 1..L + 1 : f[to] = g[to]
        BY <1>0, <2>2, <2>3, SMTT(20)
      <4> QED
        BY <4>1, RunDepends
    <3>2. at # p => g[at] = RunAt(f, joined, final, at)
      <4> SUFFICES ASSUME at # p PROVE g[at] = RunAt(f, joined, final, at)
        OBVIOUS
      <4>1. at \in p + 1..L + 1
        BY <1>0, <2>2
      <4>2. f[at] = RunAt(f, joined, final, at)
        BY <2>1, <2>2, <4>1 DEF IsRun
      <4> QED
        BY <2>3, <4>1, <4>2
    <3> QED
      BY <2>5, <3>1, <3>2
  <2>7. IsRun(g, joined, final, p)
    BY <2>4, <2>6 DEF IsRun
  <2> QED
    BY <2>2, <2>7
<1> HIDE DEF S
<1>3. L \in S
  BY <1>0, <1>1, <1>2, SetInduction
<1>4. L + 1 - L = 1 /\ L <= L
  BY <1>0
<1> QED
  BY <1>3, <1>4 DEF S

(* What is written is bytes, and so is what is kept for the next piece. *)
LEMMA OutcomeTyped ==
  ASSUME NEW out \in Seq(Nat), NEW pending \in Seq(Nat), NEW bytes \in 0..RenderedLimit,
         NEW truncated \in BOOLEAN
  PROVE  Outcome(out, pending, bytes, truncated) \in Sanitized
BY DEF Outcome, Sanitized, Sanitizer

LEMMA ConsumedTyped ==
  ASSUME NEW joined \in Seq(Nat), NEW start \in 0..RenderedLimit, NEW final
  PROVE  Consumed(joined, start, final) \in Sanitized
<1> DEFINE L == Len(joined)
           run == CHOOSE f : IsRun(f, joined, final, 1)
           Typed(at) == \A bytes \in 0..RenderedLimit : run[at][bytes] \in Sanitized
           S == {k \in Nat : \A at \in 1..L + 1 : at + k >= L + 1 => Typed(at)}
<1>0. L \in Nat /\ <<>> \in Seq(Nat) /\ Marker \in Seq(Nat)
  BY DEF Marker
<1>1. IsRun(run, joined, final, 1)
  BY RunExists
<1>2. Consumed(joined, start, final) = run[1][start]
  BY DEF Consumed, IsRun, RunAt
<1> HIDE DEF run
<1>3. \A at \in 1..L + 1 : run[at] = RunAt(run, joined, final, at)
  BY <1>1 DEF IsRun
<1>4. ASSUME NEW at \in 1..L + 1, at > L PROVE Typed(at)
  <2> SUFFICES ASSUME NEW bytes \in 0..RenderedLimit PROVE run[at][bytes] \in Sanitized
    OBVIOUS
  <2>1. run[at][bytes] = Outcome(<<>>, <<>>, bytes, FALSE)
    BY <1>3, <1>4 DEF RunAt
  <2> QED
    BY <1>0, <2>1, OutcomeTyped
<1>5. 0 \in S
  <2>1. \A at \in 1..L + 1 : at + 0 >= L + 1 => at > L
    BY <1>0
  <2> HIDE DEF Typed
  <2> QED
    BY <1>4, <2>1
<1>6. ASSUME NEW k \in Nat, k \in S PROVE k + 1 \in S
  <2> SUFFICES ASSUME NEW at \in 1..L + 1, at + (k + 1) >= L + 1 PROVE Typed(at)
    OBVIOUS
  <2>1. CASE at > L
    <3> HIDE DEF Typed
    <3> QED
      BY <1>4, <2>1
  <2>2. CASE ~(at > L)
    <3> SUFFICES ASSUME NEW bytes \in 0..RenderedLimit PROVE run[at][bytes] \in Sanitized
      OBVIOUS
    <3> DEFINE rest == From(joined, at)
               taken == Taken(rest, final)
               token == render_terminal_text(SubSeq(rest, 1, taken))
    <3>1. at \in 1..L /\ rest \in Seq(Nat) /\ Len(rest) = L - at + 1
      BY <1>0, <2>2, TailFrom
    <3> HIDE DEF rest
    <3>2. taken \in 0..L - at + 1
      <4>1. Len(rest) >= 1
        BY <1>0, <3>1
      <4> QED
        BY <3>1, <4>1, TakenIs
    <3> HIDE DEF taken
    <3>3. token \in Seq(Nat) /\ Len(token) \in Nat
      <4>1. taken \in Nat /\ \A i \in 1..taken : rest[i] \in Nat
        BY <1>0, <3>1, <3>2, SMTT(20)
      <4>2. SubSeq(rest, 1, taken) \in Seq(Nat)
        BY <4>1, FirstPart
      <4>3. render_terminal_text(SubSeq(rest, 1, taken)) \in Seq(Nat)
        BY <4>2, RenderedTyped
      <4> QED
        BY <4>3
    <3> HIDE DEF token
    <3>4. run[at][bytes] =
            IF taken = 0 THEN Outcome(<<>>, rest, bytes, FALSE)
            ELSE IF bytes + Len(token) > RenderedLimit THEN Outcome(Marker, <<>>, bytes, TRUE)
            ELSE [run[at + taken][bytes + Len(token)] EXCEPT !.out = token \o @]
      BY <1>3, <2>2 DEF RunAt, rest, taken, token
    <3>5. CASE taken = 0
      BY <1>0, <3>1, <3>4, <3>5, OutcomeTyped
    <3>6. CASE taken # 0 /\ bytes + Len(token) > RenderedLimit
      BY <1>0, <3>4, <3>6, OutcomeTyped
    <3>7. CASE taken # 0 /\ ~(bytes + Len(token) > RenderedLimit)
      <4> DEFINE later == run[at + taken][bytes + Len(token)]
      <4>1. at + taken \in 1..L + 1 /\ (at + taken) + k >= L + 1
        BY <1>0, <3>1, <3>2, <3>7
      <4>2. bytes + Len(token) \in 0..RenderedLimit
        BY <3>3, <3>7, RenderedLimitIsNatural
      <4>3. later \in Sanitized
        BY <1>6, <4>1, <4>2
      <4>4. run[at][bytes] = [later EXCEPT !.out = token \o later.out]
        BY <3>4, <3>7
      <4> HIDE DEF later
      <4>5. later.out \in Seq(Nat)
        BY <4>3 DEF Sanitized
      <4>6. token \o later.out \in Seq(Nat)
        BY <3>3, <4>5, ConcatProperties
      <4> QED
        BY <4>3, <4>4, <4>6 DEF Sanitized
    <3> QED
      BY <3>5, <3>6, <3>7
  <2> QED
    BY <2>1, <2>2
<1> HIDE DEF S
<1>7. L \in S
  BY <1>0, <1>5, <1>6, SetInduction
<1>8. 1 \in 1..L + 1 /\ 1 + L >= L + 1
  BY <1>0
<1> QED
  BY <1>2, <1>7, <1>8 DEF S

LEMMA StreamedTyped ==
  ASSUME NEW t \in Sanitizer, NEW piece \in Seq(Nat), NEW final
  PROVE  Streamed(t, piece, final) \in Sanitized
<1>1. t.pending \in Seq(Nat) /\ t.bytes \in 0..RenderedLimit /\ <<>> \in Seq(Nat)
  BY DEF Sanitizer
<1>2. t.pending \o piece \in Seq(Nat)
  BY <1>1, ConcatProperties
<1>3. Consumed(t.pending \o piece, t.bytes, final) \in Sanitized
  BY <1>1, <1>2, ConsumedTyped
<1>4. [out |-> <<>>, next |-> t] \in Sanitized
  BY <1>1 DEF Sanitized
<1> QED
  BY <1>3, <1>4 DEF Streamed

(* ----------------------------- what the presenter shows -------------------------- *)

PresenterFields ==
  {"round", "preview", "any", "rendered", "phase", "sanitizer", "mark", "shown", "banner"}

(* Until the turn ends the text under the last mark is the preview of the round,    *)
(* and what the presenter remembers of it.                                          *)
PreviewIsRemembered(p) ==
  /\ p = [x \in PresenterFields |-> p[x]] /\ p.sanitizer \in Sanitizer /\ p.rendered \in Seq(Nat)
  /\ IF p.preview THEN p.shown = p.rendered ELSE p.shown = <<>> /\ p.rendered = <<>>

LEMMA FreshSanitizer == NewStreaming \in Sanitizer
BY RenderedLimitIsNatural DEF NewStreaming, Sanitizer

LEMMA PhaseKeeps ==
  ASSUME NEW p, PreviewIsRemembered(p), NEW label
  PROVE  PreviewIsRemembered(phase(p, label))
BY DEF PreviewIsRemembered, PresenterFields, phase

LEMMA RestartKeeps ==
  ASSUME NEW p, p = [x \in PresenterFields |-> p[x]], NEW round
  PROVE  PreviewIsRemembered(Restarted(p, round))
<1>1. Restarted(p, round) = [p EXCEPT !.mark = "", !.shown = <<>>, !.round = round,
                                      !.sanitizer = NewStreaming, !.rendered = <<>>, !.preview = FALSE]
  BY DEF Restarted, Marked, PresenterFields
<1>2. <<>> \in Seq(Nat)
  OBVIOUS
<1> QED
  BY <1>1, <1>2, FreshSanitizer DEF PreviewIsRemembered, PresenterFields

LEMMA WriteFields ==
  ASSUME NEW p, p = [x \in PresenterFields |-> p[x]], NEW bytes
  PROVE  /\ write_text(p, bytes) = [p EXCEPT !.shown = p.shown \o bytes]
         /\ write_text(p, bytes) = [x \in PresenterFields |-> write_text(p, bytes)[x]]
BY DEF write_text, PresenterFields

LEMMA PreviewedFields ==
  ASSUME NEW p, p = [x \in PresenterFields |-> p[x]]
  PROVE  /\ Previewed(p) = [x \in PresenterFields |-> Previewed(p)[x]]
         /\ Previewed(p).preview \/ p.preview
         /\ Previewed(p) =
              IF p.preview THEN p
              ELSE [p EXCEPT !.mark = "[Generating; provisional]", !.shown = <<>>, !.preview = TRUE,
                             !.any = TRUE]
BY DEF Previewed, Marked, PresenterFields

LEMMA FlushFields ==
  ASSUME NEW p, p = [x \in PresenterFields |-> p[x]]
  PROVE  Flushed(p) = [x \in PresenterFields |-> Flushed(p)[x]]
<1> DEFINE out == finish(p.sanitizer).out
           q == Previewed(p)
<1>1. Flushed(p) = IF out = <<>> THEN p ELSE write_text(q, out)
  BY DEF Flushed
<1>2. q = [x \in PresenterFields |-> q[x]]
  BY PreviewedFields
<1> HIDE DEF out, q
<1>3. write_text(q, out) = [x \in PresenterFields |-> write_text(q, out)[x]]
  BY <1>2, WriteFields
<1> QED
  BY <1>1, <1>3

LEMMA ProgressKeeps ==
  ASSUME NEW p, PreviewIsRemembered(p), NEW what
  PROVE  PreviewIsRemembered(progress(p, what))
<1>1. PreviewIsRemembered(CallStarted(p))
  <2>1. p = [x \in PresenterFields |-> p[x]]
    BY DEF PreviewIsRemembered
  <2> QED
    BY <2>1, FlushFields, RestartKeeps, PhaseKeeps DEF CallStarted
<1>2. \A label : PreviewIsRemembered(phase(p, label))
  BY PhaseKeeps
<1>3. progress(p, what) = CallStarted(p) \/ progress(p, what) = p
      \/ \E label : progress(p, what) = phase(p, label)
  BY DEF progress
<1> QED
  BY <1>1, <1>2, <1>3

LEMMA TextKeeps ==
  ASSUME NEW p, PreviewIsRemembered(p), NEW event \in TextPiece
  PROVE  PreviewIsRemembered(ShowText(p, event))
<1> DEFINE now == Entered(p, event.round)
           safe == Streamed(now.sanitizer, event.text, event.what = "TextBlockEnd")
<1>1. PreviewIsRemembered(now)
  <2>1. p = [x \in PresenterFields |-> p[x]]
    BY DEF PreviewIsRemembered
  <2>2. \A bytes : PreviewIsRemembered(Restarted(write_text(p, bytes), event.round))
    BY <2>1, WriteFields, RestartKeeps
  <2>3. PreviewIsRemembered(Restarted(p, event.round))
    BY <2>1, RestartKeeps
  <2> QED
    BY <2>2, <2>3 DEF Entered
<1>2. ShowText(p, event) = Previews(now, safe)
  BY DEF ShowText
<1> HIDE DEF now
<1>3. safe \in Sanitized
  BY <1>1, StreamedTyped DEF PreviewIsRemembered, TextPiece
<1> HIDE DEF safe
<1>4. PreviewIsRemembered(Previews(now, safe))
  <2> DEFINE kept == [now EXCEPT !.sanitizer = safe.next]
  <2>1. safe.out \in Seq(Nat) /\ safe.next \in Sanitizer
    BY <1>3 DEF Sanitized
  <2>2. PreviewIsRemembered(kept) /\ kept.preview = now.preview
    BY <1>1, <2>1 DEF PreviewIsRemembered, PresenterFields
  <2>3. Previews(now, safe) =
          IF safe.out = <<>> THEN kept
          ELSE [write_text(Previewed(kept), safe.out) EXCEPT !.rendered = @ \o safe.out]
    BY DEF Previews
  <2> HIDE DEF kept
  <2>4. CASE safe.out = <<>>
    BY <2>2, <2>3, <2>4
  <2>5. CASE safe.out # <<>>
    <3> DEFINE q == Previewed(kept)
    <3>1. q = [x \in PresenterFields |-> q[x]] /\ q.preview /\ q.sanitizer \in Sanitizer
          /\ q.rendered \in Seq(Nat) /\ q.shown = q.rendered
      BY <2>2, PreviewedFields DEF PreviewIsRemembered, PresenterFields
    <3> HIDE DEF q
    <3>2. q.rendered \o safe.out \in Seq(Nat)
      BY <2>1, <3>1, ConcatProperties
    <3>3. Previews(now, safe) =
            [q EXCEPT !.shown = q.shown \o safe.out, !.rendered = q.rendered \o safe.out]
      <4>1. write_text(q, safe.out) = [q EXCEPT !.shown = q.shown \o safe.out]
        BY <3>1, WriteFields
      <4>2. Previews(now, safe) = [write_text(q, safe.out) EXCEPT !.rendered = @ \o safe.out]
        BY <2>3, <2>5 DEF q
      <4>3. write_text(q, safe.out).rendered = q.rendered
        BY <3>1, <4>1 DEF PresenterFields
      <4> QED
        BY <3>1, <4>1, <4>2, <4>3 DEF PresenterFields
    <3> QED
      BY <3>1, <3>2, <3>3, ZenonT(30) DEF PreviewIsRemembered, PresenterFields
  <2> QED
    BY <2>4, <2>5
<1> QED
  BY <1>2, <1>4

LEMMA PresentKeeps ==
  ASSUME NEW p, PreviewIsRemembered(p), NEW event \in Event
  PROVE  PreviewIsRemembered(Present(p, event))
<1>1. event.kind \in {"Text", "Progress", "Phase"} /\ (event.kind = "Text" => event \in TextPiece)
  BY DEF Event, TextPiece
<1> QED
  BY <1>1, TextKeeps, ProgressKeeps, PhaseKeeps DEF Present

(* The recursive function of Presented. *)
IsPresented(f, p, events, n) ==
  f = [i \in 0..n |-> IF i = 0 THEN p ELSE Present(f[i - 1], events[i])]

LEMMA PresentedExists ==
  ASSUME NEW p, NEW events, NEW N \in Nat
  PROVE  \E f : IsPresented(f, p, events, N)
<1> DEFINE S == {n \in Nat : \E f : IsPresented(f, p, events, n)}
<1>1. 0 \in S
  <2>1. IsPresented([i \in 0..0 |-> p], p, events, 0)
    BY DEF IsPresented
  <2> QED
    BY <2>1
<1>2. ASSUME NEW n \in Nat, n \in S PROVE n + 1 \in S
  <2>1. PICK f : IsPresented(f, p, events, n)
    BY <1>2
  <2> DEFINE g == [i \in 0..n + 1 |-> IF i = n + 1 THEN Present(f[n], events[n + 1]) ELSE f[i]]
  <2>2. \A i \in 0..n + 1 : g[i] = IF i = 0 THEN p ELSE Present(g[i - 1], events[i])
    <3> SUFFICES ASSUME NEW i \in 0..n + 1
                 PROVE g[i] = IF i = 0 THEN p ELSE Present(g[i - 1], events[i])
      OBVIOUS
    <3>1. CASE i = n + 1
      BY <3>1
    <3>2. CASE i \in 0..n
      <4>1. g[i] = f[i] /\ (i # 0 => g[i - 1] = f[i - 1])
        BY <3>2
      <4>2. f[i] = IF i = 0 THEN p ELSE Present(f[i - 1], events[i])
        BY <2>1, <3>2 DEF IsPresented
      <4> QED
        BY <4>1, <4>2
    <3> QED
      BY <3>1, <3>2
  <2>3. g = [i \in 0..n + 1 |-> g[i]]
    OBVIOUS
  <2>4. IsPresented(g, p, events, n + 1)
    <3> HIDE DEF g
    <3> QED
      BY <2>2, <2>3 DEF IsPresented
  <2> QED
    BY <2>4
<1> HIDE DEF S
<1>3. N \in S
  BY <1>1, <1>2, SetInduction
<1> QED
  BY <1>3 DEF S

LEMMA PresentedKeeps ==
  ASSUME NEW p, PreviewIsRemembered(p), NEW events \in Seq(Event)
  PROVE  PreviewIsRemembered(Presented(p, events))
<1> DEFINE N == Len(events)
           after == CHOOSE f : IsPresented(f, p, events, N)
           S == {n \in Nat : n \in 0..N => PreviewIsRemembered(after[n])}
<1>0. N \in Nat
  OBVIOUS
<1>1. IsPresented(after, p, events, N)
  BY <1>0, PresentedExists
<1>2. Presented(p, events) = after[N]
  BY DEF Presented, IsPresented
<1> HIDE DEF after
<1>3. \A n \in 0..N : after[n] = IF n = 0 THEN p ELSE Present(after[n - 1], events[n])
  BY <1>1 DEF IsPresented
<1>4. 0 \in S
  BY <1>0, <1>3
<1>5. ASSUME NEW n \in Nat, n \in S PROVE n + 1 \in S
  <2> SUFFICES ASSUME n + 1 \in 0..N PROVE PreviewIsRemembered(after[n + 1])
    OBVIOUS
  <2>1. PreviewIsRemembered(after[n]) /\ events[n + 1] \in Event
    BY <1>0, <1>5
  <2>2. after[n + 1] = Present(after[n], events[n + 1])
    <3>1. n + 1 # 0 /\ (n + 1) - 1 = n
      OBVIOUS
    <3> QED
      BY <1>3, <3>1
  <2> QED
    BY <2>1, <2>2, PresentKeeps
<1> HIDE DEF S
<1>6. N \in S
  BY <1>0, <1>4, <1>5, SetInduction
<1> QED
  BY <1>0, <1>2, <1>6 DEF S

(* What was shown and the rest of the answer are the answer. *)
LEMMA Completed ==
  ASSUME NEW shown \in Seq(Nat), NEW whole \in Seq(Nat), IsPrefix(shown, whole)
  PROVE  shown \o SubSeq(whole, Len(shown) + 1, Len(whole)) = whole
<1> DEFINE m == Len(shown)
           k == Len(whole) - m
           rest == SubSeq(whole, m + 1, m + k)
<1>1. m \in Nat /\ k \in Nat /\ Len(whole) = m + k /\ shown = SubSeq(whole, 1, m)
  BY DEF IsPrefix
<1> HIDE DEF m, k
<1>2. /\ rest \in Seq(Nat) /\ Len(rest) = k
      /\ \A i \in 1..k : rest[i] = whole[m + i]
  <2>1. \A i \in m + 1..m + k : whole[i] \in Nat
    BY <1>1
  <2> QED
    BY <1>1, <2>1, LastPart
<1>3. \A i \in 1..m : shown[i] = whole[i]
  <2>1. \A i \in 1..m : whole[i] \in Nat
    BY <1>1
  <2> QED
    BY <1>1, <2>1, FirstPart
<1> HIDE DEF rest
<1>4. /\ shown \o rest \in Seq(Nat) /\ Len(shown \o rest) = m + k
      /\ \A i \in 1..m + k : (shown \o rest)[i] = IF i <= m THEN shown[i] ELSE rest[i - m]
  <2>1. Len(shown) = m
    BY DEF m
  <2> QED
    BY <1>2, <2>1, ConcatProperties
<1>5. \A i \in 1..m + k : (shown \o rest)[i] = whole[i]
  <2> SUFFICES ASSUME NEW i \in 1..m + k PROVE (shown \o rest)[i] = whole[i]
    OBVIOUS
  <2>1. CASE i <= m
    BY <1>1, <1>3, <1>4, <2>1
  <2>2. CASE ~(i <= m)
    <3>1. i - m \in 1..k /\ m + (i - m) = i
      BY <1>1, <2>2
    <3> QED
      BY <1>2, <1>4, <2>2, <3>1
  <2> QED
    BY <2>1, <2>2
<1>6. shown \o rest = whole
  BY <1>1, <1>4, <1>5, SeqEqual
<1> QED
  BY <1>1, <1>6 DEF rest, m

LEMMA ReconciledShows ==
  ASSUME NEW p, PreviewIsRemembered(p), NEW whole \in Seq(Nat)
  PROVE  /\ Reconciled(p, whole).shown = whole
         /\ Reconciled(p, whole).any \/ Dynamic => Reconciled(p, whole).banner = "[Turn complete]"
<1> DEFINE rest == SubSeq(whole, Len(p.rendered) + 1, Len(whole))
           final == Marked(p, "[Final answer]")
           told == IF ~p.preview THEN write_text(p, whole)
                   ELSE IF IsPrefix(p.rendered, whole) THEN write_text(p, rest)
                   ELSE write_text(final, whole)
<1>1. Reconciled(p, whole) = Concluded(told)
  BY DEF Reconciled
<1>2. p = [x \in PresenterFields |-> p[x]] /\ p.rendered \in Seq(Nat)
  BY DEF PreviewIsRemembered
<1>3. final = [x \in PresenterFields |-> final[x]] /\ final.shown = <<>>
  BY <1>2 DEF Marked, PresenterFields
<1>4. <<>> \o whole = whole
  OBVIOUS
<1> HIDE DEF final
<1>5. told = [x \in PresenterFields |-> told[x]] /\ told.shown = whole
  <2>1. CASE ~p.preview
    <3>1. told = write_text(p, whole) /\ p.shown = <<>>
      BY <2>1 DEF PreviewIsRemembered
    <3> HIDE DEF told
    <3>2. told = [p EXCEPT !.shown = p.shown \o whole]
      BY <1>2, <3>1, WriteFields
    <3>3. p.shown \o whole = whole
      BY <1>4, <3>1
    <3> QED
      BY <1>2, <3>2, <3>3 DEF PresenterFields
  <2>2. CASE p.preview /\ IsPrefix(p.rendered, whole)
    <3>1. told = write_text(p, rest) /\ p.shown = p.rendered
      BY <2>2 DEF PreviewIsRemembered
    <3>2. p.rendered \o rest = whole
      BY <1>2, <2>2, Completed
    <3> HIDE DEF told, rest
    <3>3. told = [p EXCEPT !.shown = p.shown \o rest]
      BY <1>2, <3>1, WriteFields
    <3>4. p.shown \o rest = whole
      BY <3>1, <3>2
    <3> QED
      BY <1>2, <3>3, <3>4 DEF PresenterFields
  <2>3. CASE p.preview /\ ~IsPrefix(p.rendered, whole)
    <3>1. told = write_text(final, whole)
      BY <2>3
    <3> HIDE DEF told
    <3>2. told = [final EXCEPT !.shown = final.shown \o whole]
      BY <1>3, <3>1, WriteFields
    <3>3. final.shown \o whole = whole
      BY <1>3, <1>4
    <3> QED
      BY <1>3, <3>2, <3>3 DEF PresenterFields
  <2> QED
    BY <2>1, <2>2, <2>3
<1> HIDE DEF told
<1>6. Concluded(told).shown = whole
  BY <1>5 DEF Concluded, PresenterFields
<1>7. Concluded(told).any \/ Dynamic => Concluded(told).banner = "[Turn complete]"
  BY <1>5 DEF Concluded, PresenterFields
<1> QED
  BY <1>1, <1>6, <1>7

LEMMA AbandonedTells ==
  ASSUME NEW p, p = [x \in PresenterFields |-> p[x]], Abandoned(Flushed(p)).any
  PROVE  Abandoned(Flushed(p)).banner = "[Incomplete; turn was not committed]"
<1> DEFINE q == Flushed(p)
<1>1. q = [x \in PresenterFields |-> q[x]]
  BY FlushFields
<1> HIDE DEF q
<1>2. Abandoned(q).any => Abandoned(q).banner = "[Incomplete; turn was not committed]"
  BY <1>1 DEF Abandoned, PresenterFields
<1> QED
  BY <1>2 DEF q

(* ------------------------- the answer is what is shown --------------------------- *)

Unread == {"Cancelled", "refused", "RequestTimeout", "ProtocolFailure", "TransportFailure"}

(* What a call hands to the runtime is made of blocks. *)
CallContent ==
  /\ call.pc = "returned" =>
       call.outcome \in Unread \/ (call.reply \in Replies /\ call.at \in 0..Len(call.reply.chunks))
  /\ call.result.ok => AreBlocks(call.result.content)

(* Until the turn is finished the presenter knows what it shows; from then on it    *)
(* shows what the worker came to.                                                   *)
AnswerInv ==
  /\ CallContent
  /\ worker.answer \in Seq(Nat)
  /\ display.pc # "finished" => PreviewIsRemembered(presenter)
  /\ AnswerIsShown

LEMMA ConcatenatedTyped ==
  ASSUME NEW content, AreBlocks(content)
  PROVE  concatenate_text(content) \in Seq(Nat)
<1> DEFINE texts == [i \in DOMAIN content |->
                       IF content[i].type = "text" THEN content[i].text ELSE <<>>]
<1>1. DOMAIN content = 1..Len(content) /\ Len(content) \in Nat
  BY DEF AreBlocks
<1>2. \A i \in DOMAIN content :
        (IF content[i].type = "text" THEN content[i].text ELSE <<>>) \in Seq(Nat)
  BY DEF AreBlocks
<1>3. texts \in Seq(Seq(Nat))
  BY <1>1, <1>2
<1>4. concatenate_text(content) = FlattenSeq(texts)
  BY DEF concatenate_text
<1> HIDE DEF texts
<1>5. <<>> \in Seq(Nat)
  OBVIOUS
<1> QED
  BY <1>3, <1>4, <1>5, FlattenAppend

(* A message that was put together is made of blocks, as one that came whole is. *)
LEMMA AnsweredContent ==
  ASSUME call.reply \in Replies, call.at \in 0..Len(call.reply.chunks), Answered.ok
  PROVE  AreBlocks(Answered.content)
<1> DEFINE a == Assembler(call.at)
<1>1. call.reply.chunks \in Seq(Seq(StreamEvent)) /\ AreBlocks(call.reply.message.content)
  BY RepliesAreStreams
<1>2. AssemblerOK(a)
  <2>1. a = Standing(call.reply.chunks, call.at)
    BY DEF Assembler, Assemblers
  <2> QED
    BY <1>1, <2>1, StandingOK
<1> HIDE DEF a
<1>3. AreBlocks(a.content)
  <2>1. a.content \in Seq(Block)
    BY <1>2 DEF AssemblerOK
  <2>2. ASSUME NEW i \in DOMAIN a.content, a.content[i].type = "text"
        PROVE  a.content[i].text \in Seq(Nat)
    <3>1. a.content[i] \in Block
      BY <2>1
    <3> QED
      BY <2>2, <3>1 DEF Block, TextBlock, ToolBlock, NoBlock
  <2> QED
    BY <2>1, <2>2 DEF AreBlocks
<1>4. ASSUME NEW message, AreBlocks(message.content), Decoded(message).ok
      PROVE  AreBlocks(Decoded(message).content)
  BY <1>4 DEF Decoded, Response, Error
<1>5. \/ \E code, retryable : Answered = Error(code, retryable)
      \/ Answered = Decoded(call.reply.message)
      \/ Answered = Decoded(MessageOf(a))
  BY DEF Answered, a
<1>6. MessageOf(a).content = a.content
  BY DEF MessageOf
<1>7. \A code, retryable : ~Error(code, retryable).ok
  BY DEF Error
<1> QED
  BY <1>1, <1>3, <1>4, <1>5, <1>6, <1>7

LEMMA RequestKeepsContent ==
  ASSUME LostInv, CallContent, CallStep
  PROVE  CallContent'
<1>1. call = [x \in CallFields |-> call[x]]
  BY DEF LostInv, TurnTypes
<1>2. ASSUME call'.result = call.result, call'.pc # "returned" PROVE CallContent'
  BY <1>2 DEF CallContent
<1>3. ASSUME NEW outcome \in Unread, Returned(outcome) PROVE CallContent'
  <2>1. call'.outcome = outcome /\ call'.result = call.result
    BY <1>1, <1>3 DEF Returned, CallFields
  <2> QED
    BY <2>1 DEF CallContent
<1>4. CASE Prepares
  <2>1. Returned("Cancelled") \/ call' = [call EXCEPT !.pc = "ready", !.attempt = @ + 1]
    BY <1>4 DEF Prepares
  <2>2. CASE Returned("Cancelled")
    BY <1>3, <2>2 DEF Unread
  <2>3. CASE call' = [call EXCEPT !.pc = "ready", !.attempt = @ + 1]
    BY <1>1, <1>2, <2>3 DEF CallFields
  <2> QED
    BY <2>1, <2>2, <2>3
<1>5. CASE Posts \/ Decides \/ Wakes
  BY <1>1, <1>2, <1>5 DEF Posts, Decides, Wakes, CallFields
<1>6. ASSUME NEW reply \in Replies, Hears(reply) PROVE CallContent'
  <2>1. \/ Returned("Cancelled") \/ Returned("ProtocolFailure") \/ Returned("TransportFailure")
        \/ call' = [call EXCEPT !.pc = "reading", !.reply = reply, !.at = 0]
    BY <1>6 DEF Hears
  <2>2. CASE call' = [call EXCEPT !.pc = "reading", !.reply = reply, !.at = 0]
    BY <1>1, <1>2, <2>2 DEF CallFields
  <2> QED
    BY <1>3, <2>1, <2>2 DEF Unread
<1>7. CASE Chunk
  <2>1. /\ call.pc = "reading"
        /\ \/ Returned("Cancelled")
           \/ call' = [call EXCEPT !.at = call.at + 1]
           \/ call' = [call EXCEPT !.at = call.at + 1, !.pc = "returned", !.outcome = "refused"]
    BY <1>1, <1>7 DEF Chunk, CallFields
  <2>2. CASE call' = [call EXCEPT !.at = call.at + 1]
    BY <1>1, <1>2, <2>1, <2>2 DEF CallFields
  <2>3. CASE call' = [call EXCEPT !.at = call.at + 1, !.pc = "returned", !.outcome = "refused"]
    <3>1. call'.outcome = "refused" /\ call'.result = call.result
      BY <1>1, <2>3 DEF CallFields
    <3> QED
      BY <3>1 DEF CallContent, Unread
  <2> QED
    BY <1>3, <2>1, <2>2, <2>3 DEF Unread
<1>8. CASE Transferred
  <2>1. /\ call.pc = "reading" /\ \E outcome : call' = [call EXCEPT !.pc = "returned", !.outcome = outcome]
    BY <1>8 DEF Transferred, Returned
  <2>2. call.reply \in Replies /\ call.at \in 0..Len(call.reply.chunks)
    BY <2>1 DEF LostInv, Stages
  <2>3. call'.reply = call.reply /\ call'.at = call.at /\ call'.result = call.result
    BY <1>1, <2>1 DEF CallFields
  <2> QED
    BY <2>2, <2>3 DEF CallContent
<1>9. ASSUME NEW outcome \in Outcomes, Unanswered(outcome) PROVE CallContent'
  <2>1. Returned("Cancelled") \/ Returned(outcome)
    BY <1>9 DEF Unanswered
  <2> QED
    BY <1>3, <2>1 DEF Unread, Outcomes
<1>10. CASE Classifies
  <2>1. /\ call.pc = "returned"
        /\ call' = [call EXCEPT !.pc = "classified", !.result = Classified, !.reply = NoReply,
                                !.at = 0, !.outcome = "none"]
    BY <1>10 DEF Classifies
  <2>2. call'.pc = "classified" /\ call'.result = Classified
    BY <1>1, <2>1 DEF CallFields
  <2>3. Classified.ok => AreBlocks(Classified.content)
    <3>1. CASE call.outcome \in Unread
      <4>1. \E code, retryable : Classified = Error(code, retryable)
        BY <3>1 DEF Classified, Unread
      <4> QED
        BY <4>1 DEF Error
    <3>2. CASE call.reply \in Replies /\ call.at \in 0..Len(call.reply.chunks)
      <4>1. Classified = Answered \/ \E code, retryable : Classified = Error(code, retryable)
        BY DEF Classified
      <4>2. \A code, retryable : ~Error(code, retryable).ok
        BY DEF Error
      <4> QED
        BY <3>2, <4>1, <4>2, AnsweredContent
    <3> QED
      BY <2>1, <3>1, <3>2 DEF CallContent
  <2> QED
    BY <2>2, <2>3 DEF CallContent
<1> QED
  BY <1>4, <1>5, <1>6, <1>7, <1>8, <1>9, <1>10 DEF CallStep

(* Nothing changes of what is shown, nor of what a finished turn came to. *)
LEMMA AnswerGoesOn ==
  ASSUME AnswerInv, UNCHANGED <<display, presenter>>, CallContent', worker'.answer \in Seq(Nat),
         display.pc = "finished" =>
           worker'.answer = worker.answer /\ worker'.outcome = worker.outcome
           /\ worker'.commit = worker.commit
  PROVE  AnswerInv'
<1>1. display.pc = "finished" => (Success' <=> Success)
  BY DEF Success
<1>2. AnswerIsShown'
  BY <1>1 DEF AnswerInv, AnswerIsShown
<1> QED
  BY <1>2 DEF AnswerInv

LEMMA ThreadKeepsAnswer ==
  ASSUME LostInv, AnswerInv, InTurn, WorkerStep \/ TurnFails
  PROVE  AnswerInv'
<1>1. /\ UNCHANGED <<display, presenter>>
      /\ worker = [x \in WorkerFields |-> worker[x]] /\ worker.answer \in Seq(Nat)
      /\ call = [x \in CallFields |-> call[x]]
  BY DEF WorkerStep, Begins, Round, HearsAnswer, Says, Settles, Ends, TurnFails, LoadFails, BeginFails,
         CommitFails, Calls, UsesTool, displayVars, LostInv, TurnTypes, AnswerInv
<1>2. display.pc = "finished" => worker.pc = "done" /\ outbox = <<>>
  BY DEF LostInv, Stages
<1>3. CASE HearsAnswer
  <2>1. worker.pc = "calling" /\ call' = Idle
    BY <1>3 DEF HearsAnswer
  <2>2. CallContent'
    BY <2>1 DEF CallContent, Idle, NoResult
  <2>3. \/ \E pc, outcome : worker' = [worker EXCEPT !.pc = pc, !.outcome = outcome]
        \/ worker' = [worker EXCEPT !.pc = "tool"]
        \/ /\ call.result.ok
           /\ worker' = [worker EXCEPT !.pc = "settle", !.outcome = "completed",
                                       !.answer = concatenate_text(call.result.content)]
    BY <1>3, ZenonT(30) DEF HearsAnswer, Ended
  <2>4. worker'.answer \in Seq(Nat)
    <3> DEFINE answer == concatenate_text(call.result.content)
    <3>1. call.result.ok => answer \in Seq(Nat)
      BY ConcatenatedTyped DEF AnswerInv, CallContent
    <3> HIDE DEF answer
    <3>2. ASSUME NEW pc, NEW outcome, worker' = [worker EXCEPT !.pc = pc, !.outcome = outcome]
          PROVE  worker'.answer = worker.answer
      BY <1>1, <3>2 DEF WorkerFields
    <3>3. ASSUME worker' = [worker EXCEPT !.pc = "tool"] PROVE worker'.answer = worker.answer
      BY <1>1, <3>3 DEF WorkerFields
    <3>4. ASSUME worker' = [worker EXCEPT !.pc = "settle", !.outcome = "completed", !.answer = answer]
          PROVE  worker'.answer = answer
      BY <1>1, <3>4 DEF WorkerFields
    <3> QED
      BY <1>1, <2>3, <3>1, <3>2, <3>3, <3>4 DEF answer
  <2> QED
    BY <1>1, <1>2, <2>1, <2>2, <2>4, AnswerGoesOn
<1>4. CASE \E observed \in BOOLEAN : Calls(observed)
  <2>1. PICK observed \in BOOLEAN : Calls(observed)
    BY <1>4
  <2>2. /\ worker.pc = "ask" /\ call' = Begun(observed)
        /\ worker' = [worker EXCEPT !.pc = "calling"]
    BY <2>1 DEF Calls
  <2>3. ~Begun(observed).result.ok /\ Begun(observed).pc # "returned"
    BY DEF Begun, Idle, NoResult, Error
  <2>4. CallContent'
    BY <2>2, <2>3 DEF CallContent
  <2>5. worker'.answer = worker.answer
    BY <1>1, <2>2 DEF WorkerFields
  <2> QED
    BY <1>1, <1>2, <2>2, <2>4, <2>5, AnswerGoesOn
<1>5. ASSUME UNCHANGED call, worker'.answer = worker.answer,
             worker.pc = "done" => worker' = worker
      PROVE  AnswerInv'
  <2>1. CallContent'
    BY <1>5 DEF AnswerInv, CallContent
  <2> QED
    BY <1>1, <1>2, <1>5, <2>1, AnswerGoesOn
<1>6. CASE (\E compacts \in BOOLEAN : Begins(compacts)) \/ Round
  <2>1. worker.pc # "done" /\ UNCHANGED call
    BY <1>6 DEF Begins, Round
  <2>2. worker'.answer = worker.answer
    BY <1>1, <1>6 DEF Begins, Refused, Round, Ended, WorkerFields
  <2> QED
    BY <1>5, <2>1, <2>2
<1>7. CASE \/ Settles \/ TurnFails \/ Ends
           \/ \E verdict \in {"ToolCallSucceeded", "ToolCallFailed"} : UsesTool(verdict)
  <2>1. worker.pc # "done" /\ UNCHANGED call
    BY <1>7 DEF Settles, TurnFails, LoadFails, BeginFails, CommitFails, Ends, UsesTool, callVars
  <2>2. worker'.answer = worker.answer
    <3>1. CASE Settles \/ Ends
      BY <1>1, <3>1 DEF Settles, Ends, WorkerFields
    <3>2. CASE \E verdict \in {"ToolCallSucceeded", "ToolCallFailed"} : UsesTool(verdict)
      BY <1>1, <3>2 DEF UsesTool, Ended, WorkerFields
    <3>3. CASE TurnFails
      BY <1>1, <3>3 DEF TurnFails, LoadFails, BeginFails, CommitFails, Refused, WorkerFields
    <3> QED
      BY <1>7, <3>1, <3>2, <3>3
  <2> QED
    BY <1>5, <2>1, <2>2
<1>8. CASE Says
  <2>1. UNCHANGED <<call, worker>>
    BY <1>8 DEF Says
  <2> QED
    BY <1>5, <2>1
<1> QED
  BY <1>3, <1>4, <1>6, <1>7, <1>8 DEF WorkerStep

(* The display shows a batch, looks at the flag, and ends the turn's text. *)
LEMMA DisplayKeepsAnswer ==
  ASSUME LostInv, AnswerInv, InTurn, DisplayStep \/ TerminalFails
  PROVE  AnswerInv'
<1>1. UNCHANGED <<call, worker>>
  BY DEF DisplayStep, TerminalFails, CancelTurn, Joins, Shown, callVars
<1>2. CallContent' /\ worker'.answer \in Seq(Nat)
  BY <1>1 DEF AnswerInv, CallContent
<1>3. display \in Displays
  BY DEF LostInv, TurnTypes
<1>4. ASSUME display'.pc # "finished", PreviewIsRemembered(presenter') PROVE AnswerInv'
  BY <1>2, <1>4 DEF AnswerInv, AnswerIsShown
<1>5. ASSUME display.pc # "finished", display'.pc # "finished", UNCHANGED presenter
      PROVE  AnswerInv'
  BY <1>4, <1>5 DEF AnswerInv
<1>6. CASE Takes \/ CancelTurn \/ TerminalFails
  <2>1. display.pc # "finished" /\ UNCHANGED presenter
    BY <1>6 DEF Takes, TakesNow, CancelTurn, CancelsNow, TerminalFails, OutputFails, Moves
  <2>2. CASE Takes
    <3>1. display' = [display EXCEPT !.pc = "showing", !.batch = channel.events, !.done = channel.done]
      BY <2>2 DEF Takes, TakesNow, Moves
    <3> QED
      BY <1>3, <1>5, <2>1, <3>1 DEF Displays
  <2>3. CASE CancelTurn
    <3>1. display' = [display EXCEPT !.pc = "joining"]
      BY <2>3 DEF CancelTurn, CancelsNow, Moves
    <3> QED
      BY <1>3, <1>5, <2>1, <3>1 DEF Displays
  <2>4. CASE TerminalFails
    <3>1. display' = [display EXCEPT !.pc = "cancelling", !.batch = <<>>, !.failed = TRUE]
      BY <2>4 DEF TerminalFails, OutputFails, Moves
    <3> QED
      BY <1>3, <1>5, <2>1, <3>1 DEF Displays
  <2> QED
    BY <1>6, <2>2, <2>3, <2>4
<1>7. CASE Shows(flag)
  <2> DEFINE told == Presented(presenter, display.batch)
  <2>1. /\ display.pc = "showing"
        /\ display' = [display EXCEPT !.pc = IF display.done THEN "joining" ELSE "waiting", !.batch = <<>>]
        /\ presenter' = told \/ presenter' = phase(told, "Cancelling...")
    BY <1>7 DEF Shows, ShowsNow, Moves
  <2>2. PreviewIsRemembered(told)
    <3>1. PreviewIsRemembered(presenter) /\ display.batch \in Seq(Event)
      BY <1>3, <2>1 DEF AnswerInv, Displays
    <3> QED
      BY <3>1, PresentedKeeps
  <2> HIDE DEF told
  <2>3. PreviewIsRemembered(presenter')
    BY <2>1, <2>2, PhaseKeeps
  <2>4. display'.pc # "finished"
    BY <1>3, <2>1 DEF Displays
  <2> QED
    BY <1>4, <2>3, <2>4
<1>8. CASE Frame(flag)
  <2>1. display.pc = "waiting" /\ UNCHANGED display
        /\ presenter' = phase(presenter, "Cancelling...")
    BY <1>8 DEF Frame
  <2>2. PreviewIsRemembered(presenter')
    BY <2>1, PhaseKeeps DEF AnswerInv
  <2> QED
    BY <1>4, <2>1, <2>2
<1>9. CASE Joins
  <2>1. /\ display.pc = "joining" /\ display' = [display EXCEPT !.pc = "finished"]
        /\ presenter' = IF display.failed THEN presenter ELSE Finished(Success, worker.answer)
    BY <1>9 DEF Joins, Finishes, JoinsNow, Moves
  <2>2. display'.pc = "finished" /\ display'.failed = display.failed
    BY <1>3, <2>1 DEF Displays
  <2>3. PreviewIsRemembered(presenter) /\ worker.answer \in Seq(Nat)
    BY <2>1 DEF AnswerInv
  <2>4. Success' = Success
    BY <1>1 DEF Success
  <2>5. ASSUME ~display.failed, Success
        PROVE  /\ presenter'.shown = render_terminal_text(worker.answer)
               /\ presenter'.any \/ Dynamic => presenter'.banner = "[Turn complete]"
    <3>1. presenter' = Reconciled(presenter, render_terminal_text(worker.answer))
      BY <2>1, <2>5 DEF Finished
    <3>2. render_terminal_text(worker.answer) \in Seq(Nat)
      BY <2>3, RenderedTyped
    <3> QED
      BY <2>3, <3>1, <3>2, ReconciledShows
  <2>6. ASSUME ~display.failed, ~Success, presenter'.any
        PROVE  presenter'.banner = "[Incomplete; turn was not committed]"
    <3>1. presenter' = Abandoned(Flushed(presenter))
      BY <2>1, <2>6 DEF Finished
    <3>2. presenter = [x \in PresenterFields |-> presenter[x]]
      BY <2>3 DEF PreviewIsRemembered
    <3> QED
      BY <2>6, <3>1, <3>2, AbandonedTells
  <2>7. AnswerIsShown'
    BY <1>1, <2>2, <2>4, <2>5, <2>6 DEF AnswerIsShown
  <2> QED
    BY <1>2, <2>2, <2>7 DEF AnswerInv
<1> QED
  BY <1>6, <1>7, <1>8, <1>9 DEF DisplayStep

LEMMA NextAnswer ==
  LeftInv /\ HeardInv /\ LostInv /\ AnswerInv /\ [Next]_vars => AnswerInv'
<1> SUFFICES ASSUME LeftInv, HeardInv, LostInv, AnswerInv, [Next]_vars PROVE AnswerInv'
  OBVIOUS
<1>0. worker = [x \in WorkerFields |-> worker[x]]
  BY DEF LostInv, TurnTypes
<1>1. ASSUME UNCHANGED <<call, worker, display, presenter>> PROVE AnswerInv'
  <2>1. CallContent' /\ worker'.answer \in Seq(Nat)
    BY <1>1 DEF AnswerInv, CallContent
  <2> QED
    BY <1>1, <2>1, AnswerGoesOn
<1>2. CASE UNCHANGED vars
  BY <1>1, <1>2 DEF vars, turnVars, callVars, displayVars
<1>3. CASE InTurn /\ EndsTurn
  <2>1. /\ display' = NewDisplay /\ presenter' = NewPresenter /\ worker' = NoWorker
        /\ UNCHANGED call
    BY <1>3 DEF EndsTurn, callVars
  <2>2. CallContent' /\ display'.pc = "idle"
    BY <2>1 DEF AnswerInv, CallContent, NewDisplay
  <2>3. worker'.answer \in Seq(Nat)
    BY <2>1 DEF NoWorker
  <2>4. PreviewIsRemembered(NewPresenter)
    <3>1. <<>> \in Seq(Nat)
      OBVIOUS
    <3> QED
      BY <3>1, FreshSanitizer DEF PreviewIsRemembered, PresenterFields, NewPresenter
  <2> QED
    BY <2>1, <2>2, <2>3, <2>4 DEF AnswerInv, AnswerIsShown
<1>4. CASE InTurn /\ (WorkerStep \/ TurnFails)
  BY <1>4, ThreadKeepsAnswer
<1>5. CASE InTurn /\ Request
  <2>1. UNCHANGED <<display, presenter, worker>> /\ CallStep
    BY <1>5 DEF Request, displayVars
  <2>2. CallContent'
    BY <2>1, RequestKeepsContent DEF AnswerInv
  <2>3. worker'.answer \in Seq(Nat)
    BY <2>1 DEF AnswerInv
  <2> QED
    BY <2>1, <2>2, <2>3, AnswerGoesOn
<1>6. CASE InTurn /\ (DisplayStep \/ TerminalFails)
  BY <1>6, DisplayKeepsAnswer
<1>7. CASE Interrupt
  <2>1. UNCHANGED <<call, display, presenter>>
    BY <1>7 DEF Interrupt, callVars, displayVars
  <2>2. \/ UNCHANGED worker
        \/ \E interrupted : worker' = [worker EXCEPT !.interrupted = interrupted]
    BY <1>7 DEF Interrupt
  <2>3. /\ worker'.answer = worker.answer /\ worker'.outcome = worker.outcome
        /\ worker'.commit = worker.commit
    BY <1>0, <2>2 DEF WorkerFields
  <2>4. CallContent' /\ worker'.answer \in Seq(Nat)
    BY <2>1, <2>3 DEF AnswerInv, CallContent
  <2> QED
    BY <2>1, <2>3, <2>4, AnswerGoesOn
<1>8. CASE StartTurn
  <2>1. /\ display' = [NewDisplay EXCEPT !.pc = "waiting"] /\ worker' = [NoWorker EXCEPT !.pc = "start"]
        /\ UNCHANGED <<call, presenter>> /\ cli.pc = "install"
    BY <1>8 DEF StartTurn, callVars
  <2>2. display.pc = "idle"
    BY <2>1 DEF LostInv, Stages, NewDisplay
  <2>3. PreviewIsRemembered(presenter)
    BY <2>2 DEF AnswerInv
  <2>4. display'.pc = "waiting" /\ worker'.answer \in Seq(Nat)
    BY <2>1 DEF NewDisplay, NoWorker
  <2>5. CallContent'
    BY <2>1 DEF AnswerInv, CallContent
  <2> QED
    BY <2>1, <2>3, <2>4, <2>5 DEF AnswerInv, AnswerIsShown
<1>9. CASE \/ Start \/ SwitchMemory \/ Exit \/ ClearFlag
           \/ \E s \in Sessions : StartFresh(s) \/ NewSession(s) \/ Resume(s)
           \/ \E kind \in {"prompt", "plan"} : Asks(kind)
           \/ \E accepted \in BOOLEAN : Confirm(accepted)
  <2>1. UNCHANGED <<call, worker, display, presenter>>
    BY <1>9 DEF Start, SwitchMemory, Exit, ClearFlag, StartFresh, NewSession, Resume, Asks, Confirm,
                Reads, turnVars, callVars, displayVars
  <2> QED
    BY <1>1, <2>1
<1> QED
  BY <1>2, <1>3, <1>4, <1>5, <1>6, <1>7, <1>8, <1>9 DEF Next

LEMMA InitAnswer == Init => AnswerInv
<1> SUFFICES ASSUME Init PROVE AnswerInv
  OBVIOUS
<1>1. call = Idle /\ display = NewDisplay /\ presenter = NewPresenter /\ worker = NoWorker
  BY DEF Init, CallInit, DisplayInit
<1>2. CallContent /\ display.pc = "idle"
  BY <1>1 DEF CallContent, NewDisplay, Idle, NoResult
<1>3. worker.answer \in Seq(Nat)
  BY <1>1 DEF NoWorker
<1>4. PreviewIsRemembered(NewPresenter)
  <2>1. <<>> \in Seq(Nat)
    OBVIOUS
  <2> QED
    BY <2>1, FreshSanitizer DEF PreviewIsRemembered, PresenterFields, NewPresenter
<1> QED
  BY <1>1, <1>2, <1>3, <1>4 DEF AnswerInv, AnswerIsShown

(* When a turn was reported committed, the text under the last mark of the screen  *)
(* is the answer and nothing else, whatever earlier rounds and failed attempts had *)
(* streamed, and a preview or a terminal gets the line that says so; when it was   *)
(* not, no preview is left without the line that says it is no answer              *)
(* (terminal_presenter.cpp:259, :275, anthropic_messages_client.cpp:401).          *)
THEOREM ScreenSafety == Spec => []AnswerIsShown
<1>1. AnswerInv => AnswerIsShown
  BY DEF AnswerInv
<1> QED
  BY InitLeft, NextLeft, InitHeard, NextHeard, InitLost, NextLost, InitAnswer, NextAnswer, <1>1,
     PTL DEF Spec
================================================================================

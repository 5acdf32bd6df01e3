------------------------- MODULE MemoryMaintenanceProofs --------------------------
(* What holds of the memory log and of the scheduler for any number of sessions,   *)
(* workers, turns, faults and launches.                                            *)
EXTENDS MemoryMaintenance, FiniteSetTheorems, TLAPS

Working == {"batch", "extract", "commit", "entry", "append", "mark"}

(* A run is of a session, and nothing runs when there is no process. *)
RunsAreOfSessions ==
  /\ \A w \in Workers : IF Busy(w) THEN work[w].session \in Sessions
                                    ELSE work[w].session = NoSession
  /\ cli = "down" => \A w \in Workers : ~Busy(w)

(* A run goes on from a turn up to which every one has been handled. *)
HandledBefore ==
  \A w \in Workers :
    work[w].pc \in Working =>
      work[w].from >= 1 /\ 1..work[w].from - 1 \subseteq mined[work[w].session]

(* Until two runs have overlapped there is one at a time, and what it found absent *)
(* has not been put there since, but by the user.                                  *)
OneAtATime ==
  ~overlapped =>
    /\ \A v, w \in Workers : Busy(v) /\ Busy(w) => v = w
    /\ \A w \in Workers : work[w].pc = "append" =>
         \A c \in work[w].next : copies[c] <= remembers[c]

(* A run that was told of a forget has not had its answer, and is cancelled. *)
ToldAreCancelled ==
  \A w \in Workers :
    told[w] # {} =>
      /\ work[w].pc \in {"read", "batch", "extract", "ok", "invalidated", "failed"}
      /\ Looking(w) => Cancelled(w)

EditsCounted == \A c \in Contents : remembers[c] <= edits

MemoryInv ==
  /\ TypeOK /\ EditsCounted /\ RunsAreOfSessions
  /\ HandledBefore /\ NothingSkipped
  /\ OneAtATime /\ NoTwins
  /\ ToldAreCancelled
  /\ PendingIsCovered

(* ----------------------------- records and their fields -------------------------- *)

LEMMA IdleTypes == Idle \in Worker /\ Idle.pc = "idle" /\ Idle.session = NoSession
BY MaintenanceParameters DEF Idle, Worker, Points

LEMMA UnknownTypes ==
  Unknown \in SessionRecord /\ Unknown.pending = FALSE
BY MaintenanceParameters DEF Unknown, SessionRecord

(* One worker moves. *)
LEMMA OneMoves ==
  ASSUME NEW f \in [Workers -> Worker], NEW w \in Workers, NEW rec \in Worker, NEW g,
         g = [f EXCEPT ![w] = rec]
  PROVE  /\ g \in [Workers -> Worker] /\ g[w] = rec
         /\ \A v \in Workers : v # w => g[v] = f[v]
OBVIOUS

LEMMA AtPoint ==
  ASSUME NEW rec \in Worker, NEW p \in Points
  PROVE  /\ [rec EXCEPT !.pc = p] \in Worker
         /\ [rec EXCEPT !.pc = p].pc = p
         /\ [rec EXCEPT !.pc = p].session = rec.session
         /\ [rec EXCEPT !.pc = p].through = rec.through
         /\ [rec EXCEPT !.pc = p].from = rec.from
         /\ [rec EXCEPT !.pc = p].todo = rec.todo
BY DEF Worker

(* What a step of a run leaves alone, and in which direction the rest goes. *)
Steps(w) ==
  /\ Busy(w)
  /\ \E rec \in Worker :
       /\ work' = [work EXCEPT ![w] = rec]
       /\ rec.session = work[w].session /\ rec.through = work[w].through /\ rec.pc # "idle"
  /\ UNCHANGED <<queue, sched, CliState, overlapped, told>>
  /\ faults' \in 0..MaxFaults
  /\ copies' \in [Contents -> Nat]
  /\ checkpoint' \in [Sessions -> 0..MaxTurns]
  /\ mined' \in [Sessions -> SUBSET (1..MaxTurns)]
  /\ \A s \in Sessions : checkpoint[s] <= checkpoint'[s] /\ mined[s] \subseteq mined'[s]
  /\ spoiled' \in [Sessions -> BOOLEAN]
  /\ \A s \in Sessions : spoiled[s] => spoiled'[s]

(* A step that changes nothing but the worker and the faults. *)
LEMMA QuietSteps ==
  ASSUME TypeOK, NEW w \in Workers, Busy(w), NEW rec \in Worker,
         work' = [work EXCEPT ![w] = rec],
         rec.session = work[w].session, rec.through = work[w].through, rec.pc # "idle",
         UNCHANGED <<queue, sched, CliState, copies, checkpoint, mined, overlapped, told, spoiled>>,
         faults' = faults \/ (faults < MaxFaults /\ faults' = faults + 1)
  PROVE  Steps(w)
<1>1. faults' \in 0..MaxFaults
  BY MaintenanceParameters DEF TypeOK
<1>2. \A s \in Sessions : checkpoint[s] <= checkpoint'[s] /\ mined[s] \subseteq mined'[s]
  BY MaintenanceParameters DEF TypeOK
<1> QED
  BY <1>1, <1>2 DEF Steps, TypeOK

LEMMA GoesTo ==
  ASSUME TypeOK, NEW w \in Workers, Busy(w), NEW p \in Points \ {"idle"}, Goto(w, p),
         UNCHANGED <<queue, sched, CliState, copies, checkpoint, mined, overlapped, told, spoiled>>,
         faults' = faults \/ (faults < MaxFaults /\ faults' = faults + 1)
  PROVE  Steps(w) /\ work'[w] = [work[w] EXCEPT !.pc = p]
<1> DEFINE rec == [work[w] EXCEPT !.pc = p]
<1>1. work[w] \in Worker
  BY DEF TypeOK
<1>2. rec \in Worker /\ rec.session = work[w].session /\ rec.through = work[w].through /\ rec.pc = p
  BY <1>1, AtPoint
<1>3. work' = [work EXCEPT ![w] = rec]
  BY <1>1 DEF Goto, TypeOK
<1> HIDE DEF rec
<1>4. work'[w] = rec
  BY <1>2, <1>3, OneMoves DEF TypeOK
<1> QED
  BY <1>2, <1>3, <1>4, QuietSteps DEF rec

(* What a step of a run has to see to, besides. *)
Sound(w) ==
  /\ Steps(w)
  /\ work'[w].pc \in Working =>
       work'[w].from >= 1 /\ 1..work'[w].from - 1 \subseteq mined'[work[w].session]
  /\ \A s \in Sessions : 1..checkpoint'[s] \subseteq mined'[s]
  /\ ~overlapped =>
       /\ \A c \in Contents : copies'[c] <= 1 + remembers[c]
       /\ work'[w].pc = "append" => \A c \in work'[w].next : copies'[c] <= remembers[c]
  /\ told[w] # {} =>
       /\ work'[w].pc \in {"read", "batch", "extract", "ok", "invalidated", "failed"}
       /\ work'[w].pc \in {"read", "batch", "extract"} => Cancelled(w)

LEMMA StepsKeep ==
  ASSUME MemoryInv, NEW w \in Workers, Sound(w)
  PROVE  MemoryInv'
<1>1. PICK rec \in Worker :
        /\ work' = [work EXCEPT ![w] = rec]
        /\ rec.session = work[w].session /\ rec.through = work[w].through /\ rec.pc # "idle"
  BY DEF Sound, Steps
<1>2. /\ work' \in [Workers -> Worker] /\ work'[w] = rec
      /\ \A v \in Workers : v # w => work'[v] = work[v]
  BY <1>1, OneMoves DEF MemoryInv, TypeOK
<1>3. /\ UNCHANGED <<turns, cli, current, telling, edits, remembers, launches>>
      /\ UNCHANGED <<queue, sched, overlapped, told>>
  BY DEF Sound, Steps, CliState
<1>4. TypeOK'
  BY <1>2, <1>3 DEF Sound, Steps, MemoryInv, TypeOK
<1>5. EditsCounted'
  BY <1>3 DEF MemoryInv, EditsCounted
<1>6. RunsAreOfSessions'
  BY <1>1, <1>2, <1>3 DEF Sound, Steps, MemoryInv, RunsAreOfSessions, Busy
<1>7. HandledBefore'
  <2> SUFFICES ASSUME NEW v \in Workers, work'[v].pc \in Working
               PROVE  work'[v].from >= 1 /\ 1..work'[v].from - 1 \subseteq mined'[work'[v].session]
    BY DEF HandledBefore
  <2>1. CASE v = w
    BY <1>1, <1>2, <2>1 DEF Sound
  <2>2. CASE v # w
    <3>1. work'[v] = work[v] /\ Busy(v)
      BY <1>2, <2>2 DEF Working, Busy
    <3>2. work[v].session \in Sessions
      BY <3>1 DEF MemoryInv, RunsAreOfSessions
    <3> QED
      BY <3>1, <3>2 DEF Sound, Steps, MemoryInv, HandledBefore
  <2> QED
    BY <2>1, <2>2
<1>8. NothingSkipped'
  BY DEF Sound, NothingSkipped
<1>9. OneAtATime' /\ NoTwins'
  <2> SUFFICES ASSUME ~overlapped' PROVE OneAtATime' /\ NoTwins'
    BY DEF OneAtATime, NoTwins
  <2>1. ~overlapped /\ Busy(w)
    BY <1>3 DEF Sound, Steps
  <2>2. \A v \in Workers : v # w => ~Busy(v) /\ work'[v] = work[v]
    BY <1>2, <2>1 DEF MemoryInv, OneAtATime
  <2>3. \A v \in Workers : v # w => work'[v].pc = "idle"
    BY <2>2 DEF Busy
  <2>4. \A v, u \in Workers : Busy(v)' /\ Busy(u)' => v = u
    BY <2>3 DEF Busy
  <2>5. \A v \in Workers : work'[v].pc = "append" => v = w
    BY <2>3
  <2> QED
    BY <1>3, <2>1, <2>4, <2>5 DEF Sound, OneAtATime, NoTwins
<1>10. ToldAreCancelled'
  <2> SUFFICES ASSUME NEW v \in Workers, told[v] # {}
               PROVE  /\ work'[v].pc \in {"read", "batch", "extract", "ok", "invalidated", "failed"}
                      /\ work'[v].pc \in {"read", "batch", "extract"} =>
                           sched[work'[v].session].cancel
    BY <1>3 DEF ToldAreCancelled, Looking, Cancelled
  <2>1. CASE v = w
    BY <1>1, <1>2, <2>1 DEF Sound, Cancelled
  <2>2. CASE v # w
    BY <1>2, <2>2 DEF MemoryInv, ToldAreCancelled, Looking, Cancelled
  <2> QED
    BY <2>1, <2>2
<1>11. PendingIsCovered'
  <2> SUFFICES ASSUME NEW s \in Sessions, sched[s].pending, ~spoiled[s]
               PROVE  \/ checkpoint'[s] >= sched[s].through
                      \/ \E i \in DOMAIN queue :
                           queue[i].session = s /\ queue[i].through >= sched[s].through
                      \/ \E v \in Workers :
                           work'[v].session = s /\ work'[v].through >= sched[s].through
    BY <1>3 DEF Sound, Steps, PendingIsCovered
  <2>1. CASE checkpoint[s] >= sched[s].through
    <3>1. /\ checkpoint[s] \in Nat /\ checkpoint'[s] \in Nat /\ sched[s].through \in Nat
          /\ checkpoint[s] <= checkpoint'[s]
      BY MaintenanceParameters DEF MemoryInv, TypeOK, SessionRecord, Sound, Steps
    <3> QED
      BY <2>1, <3>1
  <2>2. CASE \E i \in DOMAIN queue : queue[i].session = s /\ queue[i].through >= sched[s].through
    BY <2>2
  <2>3. CASE \E v \in Workers : work[v].session = s /\ work[v].through >= sched[s].through
    <3>1. \A v \in Workers : work'[v].session = work[v].session /\ work'[v].through = work[v].through
      BY <1>1, <1>2
    <3> QED
      BY <2>3, <3>1
  <2> QED
    BY <2>1, <2>2, <2>3 DEF MemoryInv, PendingIsCovered
<1> QED
  BY <1>4, <1>5, <1>6, <1>7, <1>8, <1>9, <1>10, <1>11 DEF MemoryInv

(* A step that commits nothing. *)
LEMMA QuietIsSound ==
  ASSUME MemoryInv, NEW w \in Workers, Steps(w), UNCHANGED <<copies, checkpoint, mined>>,
         work'[w].pc \in Working =>
           work'[w].from >= 1 /\ 1..work'[w].from - 1 \subseteq mined[work[w].session],
         ~overlapped /\ work'[w].pc = "append" =>
           \A c \in work'[w].next : copies[c] <= remembers[c],
         told[w] # {} =>
           /\ work'[w].pc \in {"read", "batch", "extract", "ok", "invalidated", "failed"}
           /\ work'[w].pc \in {"read", "batch", "extract"} => Cancelled(w)
  PROVE  Sound(w)
BY DEF Sound, MemoryInv, NothingSkipped, NoTwins

(* ------------------------------- the steps of a run ------------------------------ *)

LEMMA Ends ==
  ASSUME MemoryInv, NEW w \in Workers, Busy(w), NEW p \in {"ok", "invalidated", "failed"}, Goto(w, p),
         UNCHANGED <<queue, sched, CliState, copies, checkpoint, mined, overlapped, told, spoiled>>,
         faults' = faults \/ (faults < MaxFaults /\ faults' = faults + 1)
  PROVE  Sound(w)
<1>1. p \in Points \ {"idle"}
  BY DEF Points
<1>2. Steps(w) /\ work'[w] = [work[w] EXCEPT !.pc = p] /\ work[w] \in Worker
  BY <1>1, GoesTo DEF MemoryInv, TypeOK
<1>3. work'[w].pc = p
  BY <1>1, <1>2, AtPoint
<1> QED
  BY <1>2, <1>3, QuietIsSound DEF Working

LEMMA ReadIsSound ==
  ASSUME MemoryInv, NEW w \in Workers, Read(w)
  PROVE  Sound(w)
<1> DEFINE s == work[w].session
           upto == IF turns[s] < work[w].through THEN turns[s] ELSE work[w].through
<1>1. /\ work[w].pc = "read" /\ Busy(w) /\ s \in Sessions /\ work[w] \in Worker
      /\ UNCHANGED <<copies, checkpoint, queue, sched, CliState, mined, overlapped, told>>
  BY DEF Read, Busy, MemoryInv, RunsAreOfSessions, TypeOK
<1>2. turns[s] \in 0..MaxTurns /\ work[w].through \in 0..MaxTurns /\ checkpoint[s] \in 0..MaxTurns
  BY <1>1 DEF MemoryInv, TypeOK, Worker
<1>3. CASE faults < MaxFaults /\ faults' = faults + 1 /\ Goto(w, "ok")
            /\ spoiled' = [spoiled EXCEPT ![s] = TRUE]
  <2> DEFINE rec == [work[w] EXCEPT !.pc = "ok"]
  <2>1. rec \in Worker /\ rec.session = work[w].session /\ rec.through = work[w].through /\ rec.pc = "ok"
    BY <1>1, AtPoint DEF Points
  <2>2. work' = [work EXCEPT ![w] = rec]
    BY <1>1, <1>3 DEF Goto, MemoryInv, TypeOK
  <2> HIDE DEF rec
  <2>3. work'[w] = rec
    BY <2>1, <2>2, OneMoves DEF MemoryInv, TypeOK
  <2>4. /\ spoiled' \in [Sessions -> BOOLEAN] /\ \A x \in Sessions : spoiled[x] => spoiled'[x]
        /\ faults' \in 0..MaxFaults
        /\ \A x \in Sessions : checkpoint[x] <= checkpoint'[x] /\ mined[x] \subseteq mined'[x]
    BY <1>1, <1>3, MaintenanceParameters DEF MemoryInv, TypeOK
  <2>5. Steps(w)
    BY <1>1, <2>1, <2>2, <2>4 DEF Steps, MemoryInv, TypeOK
  <2> QED
    BY <1>1, <2>1, <2>3, <2>5, QuietIsSound DEF Working
<1>4. CASE Goto(w, "ok") /\ UNCHANGED <<faults, spoiled>>
  BY <1>1, <1>4, Ends
<1>5. CASE /\ checkpoint[s] < upto /\ UNCHANGED <<faults, spoiled>>
           /\ work' = [work EXCEPT ![w] =
                 [@ EXCEPT !.pc = IF Cancelled(w) THEN "invalidated" ELSE "batch",
                           !.from = checkpoint[s] + 1, !.upto = upto]]
  <2> DEFINE p == IF Cancelled(w) THEN "invalidated" ELSE "batch"
             rec == [work[w] EXCEPT !.pc = p, !.from = checkpoint[s] + 1, !.upto = upto]
  <2>1. checkpoint[s] + 1 \in 0..MaxTurns + 1 /\ upto \in 0..MaxTurns /\ p \in Points
    BY <1>2, MaintenanceParameters DEF Points
  <2>2. /\ rec \in Worker /\ rec.session = work[w].session /\ rec.through = work[w].through
        /\ rec.pc = p /\ rec.from = checkpoint[s] + 1
    BY <1>1, <2>1 DEF Worker
  <2>3. work' = [work EXCEPT ![w] = rec]
    BY <1>1, <1>5 DEF MemoryInv, TypeOK
  <2> HIDE DEF rec
  <2>4. work'[w] = rec
    BY <2>2, <2>3, OneMoves DEF MemoryInv, TypeOK
  <2>5. p # "idle" /\ p # "append" /\ (p \in Working => ~Cancelled(w))
    BY DEF Working
  <2>6. Steps(w)
    BY <1>1, <1>5, <2>2, <2>3, <2>5, QuietSteps DEF MemoryInv
  <2>7. 1..rec.from - 1 \subseteq mined[s] /\ rec.from >= 1
    <3>1. rec.from - 1 = checkpoint[s] /\ rec.from >= 1
      BY <1>2, <2>2, MaintenanceParameters
    <3> QED
      BY <1>1, <3>1 DEF MemoryInv, NothingSkipped
  <2>8. told[w] # {} => Cancelled(w)
    BY <1>1 DEF MemoryInv, ToldAreCancelled, Looking
  <2> QED
    BY <1>1, <2>2, <2>4, <2>5, <2>6, <2>7, <2>8, QuietIsSound
<1> QED
  BY <1>3, <1>4, <1>5 DEF Read

LEMMA NextBatchIsSound ==
  ASSUME MemoryInv, NEW w \in Workers, NextBatch(w)
  PROVE  Sound(w)
<1>1. /\ work[w].pc = "batch" /\ Busy(w) /\ work[w] \in Worker
      /\ UNCHANGED <<copies, checkpoint, queue, sched, faults, CliState, mined, overlapped, told, spoiled>>
  BY DEF NextBatch, Busy, MemoryInv, TypeOK, history
<1>2. work[w].from >= 1 /\ 1..work[w].from - 1 \subseteq mined[work[w].session]
  BY <1>1 DEF MemoryInv, HandledBefore, Working
<1>3. told[w] # {} => Cancelled(w)
  BY <1>1 DEF MemoryInv, ToldAreCancelled, Looking
<1>4. CASE Goto(w, "ok") \/ Goto(w, "invalidated")
  BY <1>1, <1>4, Ends
<1>5. ASSUME ~Cancelled(w), NEW end \in 0..MaxTurns, NEW p \in {"extract", "commit"},
             work' = [work EXCEPT ![w] = [@ EXCEPT !.pc = p, !.end = end]]
      PROVE  Sound(w)
  <2> DEFINE rec == [work[w] EXCEPT !.pc = p, !.end = end]
  <2>1. /\ rec \in Worker /\ rec.session = work[w].session /\ rec.through = work[w].through
        /\ rec.pc = p /\ rec.from = work[w].from
    BY <1>1 DEF Worker, Points
  <2>2. work' = [work EXCEPT ![w] = rec]
    BY <1>1, <1>5 DEF MemoryInv, TypeOK
  <2> HIDE DEF rec
  <2>3. work'[w] = rec
    BY <2>1, <2>2, OneMoves DEF MemoryInv, TypeOK
  <2>4. Steps(w)
    BY <1>1, <2>1, <2>2, QuietSteps DEF MemoryInv
  <2> QED
    BY <1>1, <1>2, <1>3, <1>5, <2>1, <2>3, <2>4, QuietIsSound
<1>6. CASE work[w].from <= work[w].upto
  <2>1. work[w].from..work[w].upto \subseteq 0..MaxTurns /\ work[w].from \in 0..MaxTurns
    BY <1>1, <1>6, MaintenanceParameters DEF Worker
  <2> QED
    BY <1>4, <1>5, <1>6, <2>1 DEF NextBatch
<1>7. CASE ~(work[w].from <= work[w].upto)
  BY <1>4, <1>7 DEF NextBatch
<1> QED
  BY <1>6, <1>7

(* A run whose answer is in was not told of anything since. *)
LEMMA NotTold ==
  ASSUME MemoryInv, NEW w \in Workers, work[w].pc \in {"commit", "entry", "append", "mark"}
  PROVE  /\ told[w] = {}
         /\ work[w].from >= 1 /\ 1..work[w].from - 1 \subseteq mined[work[w].session]
         /\ work[w] \in Worker /\ Busy(w) /\ work[w].session \in Sessions
BY DEF MemoryInv, ToldAreCancelled, HandledBefore, Working, TypeOK, Busy, RunsAreOfSessions

LEMMA ExtractIsSound ==
  ASSUME MemoryInv, NEW w \in Workers, Extract(w)
  PROVE  Sound(w)
<1>1. /\ work[w].pc = "extract" /\ Busy(w) /\ work[w] \in Worker
      /\ UNCHANGED <<copies, checkpoint, queue, sched, CliState, mined, overlapped, told, spoiled>>
  BY DEF Extract, Busy, MemoryInv, TypeOK, history
<1>2. work[w].from >= 1 /\ 1..work[w].from - 1 \subseteq mined[work[w].session]
  BY <1>1 DEF MemoryInv, HandledBefore, Working
<1>3. told[w] # {} => Cancelled(w)
  BY <1>1 DEF MemoryInv, ToldAreCancelled, Looking
<1>4. CASE Goto(w, "invalidated") /\ UNCHANGED faults
  BY <1>1, <1>4, Ends
<1>5. CASE Fault(w)
  BY <1>1, <1>5, Ends DEF Fault
<1>6. ASSUME ~Cancelled(w), UNCHANGED faults, NEW found \in SUBSET Contents,
             work' = [work EXCEPT ![w] = [@ EXCEPT !.pc = "commit", !.todo = found]]
      PROVE  Sound(w)
  <2> DEFINE rec == [work[w] EXCEPT !.pc = "commit", !.todo = found]
  <2>1. /\ rec \in Worker /\ rec.session = work[w].session /\ rec.through = work[w].through
        /\ rec.pc = "commit" /\ rec.from = work[w].from
    BY <1>1 DEF Worker, Points
  <2>2. work' = [work EXCEPT ![w] = rec]
    BY <1>1, <1>6 DEF MemoryInv, TypeOK
  <2> HIDE DEF rec
  <2>3. work'[w] = rec
    BY <2>1, <2>2, OneMoves DEF MemoryInv, TypeOK
  <2>4. Steps(w)
    BY <1>1, <1>6, <2>1, <2>2, QuietSteps DEF MemoryInv
  <2> QED
    BY <1>1, <1>2, <1>3, <1>6, <2>1, <2>3, <2>4, QuietIsSound
<1> QED
  BY <1>4, <1>5, <1>6 DEF Extract

LEMMA CommitIsSound ==
  ASSUME MemoryInv, NEW w \in Workers, Commit(w)
  PROVE  Sound(w)
<1> DEFINE s == work[w].session
<1>1. /\ work[w].pc = "commit"
      /\ UNCHANGED <<copies, checkpoint, queue, sched, CliState, mined, overlapped, told, spoiled>>
  BY DEF Commit, history
<1>2. /\ told[w] = {}
      /\ work[w].from >= 1 /\ 1..work[w].from - 1 \subseteq mined[s]
      /\ work[w] \in Worker /\ Busy(w) /\ s \in Sessions
  BY <1>1, NotTold
<1>3. CASE Fault(w)
  BY <1>1, <1>2, <1>3, Ends DEF Fault
<1>4. CASE Goto(w, "entry") /\ UNCHANGED faults
  <2>1. Steps(w) /\ work'[w] = [work[w] EXCEPT !.pc = "entry"]
    BY <1>1, <1>2, <1>4, GoesTo DEF MemoryInv, Points
  <2>2. work'[w].pc = "entry" /\ work'[w].from = work[w].from
    BY <1>2, <2>1, AtPoint DEF Points
  <2> QED
    BY <1>1, <1>2, <2>1, <2>2, QuietIsSound
<1>5. CASE /\ work[w].end <= checkpoint[s] /\ UNCHANGED faults
           /\ work' = [work EXCEPT ![w] = [@ EXCEPT !.pc = "batch", !.from = work[w].end + 1,
                                                    !.todo = {}]]
  <2> DEFINE rec == [work[w] EXCEPT !.pc = "batch", !.from = work[w].end + 1, !.todo = {}]
  <2>1. work[w].end \in 0..MaxTurns /\ work[w].end + 1 \in 0..MaxTurns + 1 /\ checkpoint[s] \in 0..MaxTurns
    BY <1>2, MaintenanceParameters DEF Worker, MemoryInv, TypeOK
  <2>2. /\ rec \in Worker /\ rec.session = work[w].session /\ rec.through = work[w].through
        /\ rec.pc = "batch" /\ rec.from = work[w].end + 1
    BY <1>2, <2>1 DEF Worker, Points
  <2>3. work' = [work EXCEPT ![w] = rec]
    BY <1>2, <1>5 DEF MemoryInv, TypeOK
  <2> HIDE DEF rec
  <2>4. work'[w] = rec
    BY <2>2, <2>3, OneMoves DEF MemoryInv, TypeOK
  <2>5. Steps(w)
    BY <1>1, <1>2, <1>5, <2>2, <2>3, QuietSteps DEF MemoryInv
  <2>6. rec.from >= 1 /\ 1..rec.from - 1 \subseteq mined[s]
    <3>1. rec.from - 1 = work[w].end /\ rec.from >= 1
      BY <2>1, <2>2
    <3>2. 1..work[w].end \subseteq 1..checkpoint[s]
      BY <1>5, <2>1, MaintenanceParameters
    <3> QED
      BY <1>2, <3>1, <3>2 DEF MemoryInv, NothingSkipped
  <2> QED
    BY <1>1, <1>2, <2>2, <2>4, <2>5, <2>6, QuietIsSound
<1> QED
  BY <1>3, <1>4, <1>5 DEF Commit

LEMMA CheckIsSound ==
  ASSUME MemoryInv, NEW w \in Workers, Check(w)
  PROVE  Sound(w)
<1>1. /\ work[w].pc = "entry"
      /\ UNCHANGED <<copies, checkpoint, queue, sched, CliState, mined, overlapped, told, spoiled>>
  BY DEF Check, history
<1>2. /\ told[w] = {}
      /\ work[w].from >= 1 /\ 1..work[w].from - 1 \subseteq mined[work[w].session]
      /\ work[w] \in Worker /\ Busy(w)
  BY <1>1, NotTold
<1>3. CASE Fault(w)
  BY <1>1, <1>2, <1>3, Ends DEF Fault
<1>4. CASE Goto(w, "mark") /\ UNCHANGED faults
  <2>1. Steps(w) /\ work'[w] = [work[w] EXCEPT !.pc = "mark"]
    BY <1>1, <1>2, <1>4, GoesTo DEF MemoryInv, Points
  <2>2. work'[w].pc = "mark" /\ work'[w].from = work[w].from
    BY <1>2, <2>1, AtPoint DEF Points
  <2> QED
    BY <1>1, <1>2, <2>1, <2>2, QuietIsSound
<1>5. ASSUME NEW c \in work[w].todo, UNCHANGED faults,
             work' = [work EXCEPT ![w] =
               [@ EXCEPT !.todo = work[w].todo \ {c},
                         !.pc = IF copies[c] > 0 THEN "entry" ELSE "append",
                         !.next = IF copies[c] > 0 THEN {} ELSE {c}]]
      PROVE  Sound(w)
  <2> DEFINE p == IF copies[c] > 0 THEN "entry" ELSE "append"
             next == IF copies[c] > 0 THEN {} ELSE {c}
             rec == [work[w] EXCEPT !.todo = work[w].todo \ {c}, !.pc = p, !.next = next]
  <2>1. c \in Contents /\ copies[c] \in Nat /\ remembers[c] \in Nat /\ work[w].todo \ {c} \in SUBSET Contents
        /\ p \in Points /\ next \in SUBSET Contents
    BY <1>2, <1>5, MaintenanceParameters DEF Worker, MemoryInv, TypeOK, Points
  <2>2. /\ rec \in Worker /\ rec.session = work[w].session /\ rec.through = work[w].through
        /\ rec.pc = p /\ rec.from = work[w].from /\ rec.next = next
    BY <1>2, <2>1 DEF Worker
  <2>3. work' = [work EXCEPT ![w] = rec]
    <3>1. work' = [work EXCEPT ![w] = [@ EXCEPT !.todo = work[w].todo \ {c}, !.pc = p, !.next = next]]
      BY <1>5
    <3> HIDE DEF p, next
    <3> QED
      BY <1>2, <3>1 DEF MemoryInv, TypeOK
  <2> HIDE DEF rec
  <2>4. work'[w] = rec
    BY <2>2, <2>3, OneMoves DEF MemoryInv, TypeOK
  <2>5. Steps(w)
    BY <1>1, <1>2, <1>5, <2>2, <2>3, QuietSteps DEF MemoryInv
  <2>6. p = "append" => \A d \in next : copies[d] <= remembers[d]
    BY <2>1
  <2> QED
    BY <1>1, <1>2, <2>2, <2>4, <2>5, <2>6, QuietIsSound
<1> QED
  BY <1>3, <1>4, <1>5 DEF Check

LEMMA AppendIsSound ==
  ASSUME MemoryInv, NEW w \in Workers, AppendEntry(w)
  PROVE  Sound(w)
<1>1. /\ work[w].pc = "append"
      /\ UNCHANGED <<checkpoint, queue, sched, CliState, mined, overlapped, told, spoiled>>
  BY DEF AppendEntry, history
<1>2. /\ told[w] = {}
      /\ work[w].from >= 1 /\ 1..work[w].from - 1 \subseteq mined[work[w].session]
      /\ work[w] \in Worker /\ Busy(w)
  BY <1>1, NotTold
<1>3. /\ copies \in [Contents -> Nat] /\ remembers \in [Contents -> Nat]
      /\ Added(w) \in [Contents -> Nat]
  BY MaintenanceParameters DEF MemoryInv, TypeOK, Added
<1>4. ~overlapped => \A c \in Contents : copies[c] <= 1 + remembers[c] /\ Added(w)[c] <= 1 + remembers[c]
  BY <1>1, <1>3 DEF MemoryInv, NoTwins, OneAtATime, Added
<1>5. copies' \in {copies, Added(w)}
  BY DEF AppendEntry
<1>6. /\ copies' \in [Contents -> Nat]
      /\ ~overlapped => \A c \in Contents : copies'[c] <= 1 + remembers[c]
  BY <1>3, <1>4, <1>5
<1>7. \A s \in Sessions : checkpoint[s] <= checkpoint'[s] /\ mined[s] \subseteq mined'[s]
  BY <1>1, MaintenanceParameters DEF MemoryInv, TypeOK
<1>8. ASSUME NEW p \in {"entry", "failed"}, NEW next \in SUBSET Contents, faults' \in 0..MaxFaults,
             work' = [work EXCEPT ![w] = [work[w] EXCEPT !.pc = p, !.next = next]]
      PROVE  Sound(w)
  <2> DEFINE rec == [work[w] EXCEPT !.pc = p, !.next = next]
  <2>1. /\ rec \in Worker /\ rec.session = work[w].session /\ rec.through = work[w].through
        /\ rec.pc = p /\ rec.from = work[w].from
    BY <1>2 DEF Worker, Points
  <2>2. work' = [work EXCEPT ![w] = rec]
    BY <1>8
  <2> HIDE DEF rec
  <2>3. work'[w] = rec
    BY <2>1, <2>2, OneMoves DEF MemoryInv, TypeOK
  <2>4. Steps(w)
    BY <1>1, <1>2, <1>6, <1>7, <1>8, <2>1, <2>2 DEF Steps, MemoryInv, TypeOK
  <2> QED
    BY <1>1, <1>2, <1>6, <2>1, <2>3, <2>4 DEF Sound, MemoryInv, NothingSkipped
<1>9. CASE /\ work' = [work EXCEPT ![w] = [@ EXCEPT !.pc = "entry", !.next = {}]]
           /\ UNCHANGED faults
  <2> DEFINE p == "entry"
             next == {}
  <2>1. work' = [work EXCEPT ![w] = [work[w] EXCEPT !.pc = p, !.next = next]] /\ faults' \in 0..MaxFaults
    BY <1>2, <1>9 DEF MemoryInv, TypeOK
  <2>2. p \in {"entry", "failed"} /\ next \in SUBSET Contents
    OBVIOUS
  <2> HIDE DEF p, next
  <2> QED
    BY <1>8, <2>1, <2>2
<1>10. CASE Fault(w)
  <2>1. faults' \in 0..MaxFaults /\ work[w].next \in SUBSET Contents
    BY <1>2, <1>10, MaintenanceParameters DEF Fault, MemoryInv, TypeOK, Worker
  <2>2. [work[w] EXCEPT !.pc = "failed"] = [work[w] EXCEPT !.pc = "failed", !.next = work[w].next]
    BY <1>2 DEF Worker
  <2>3. work' = [work EXCEPT ![w] = [work[w] EXCEPT !.pc = "failed"]]
    BY <1>2, <1>10 DEF Fault, Goto, MemoryInv, TypeOK
  <2>4. work' = [work EXCEPT ![w] = [work[w] EXCEPT !.pc = "failed", !.next = work[w].next]]
    BY <2>2, <2>3
  <2> QED
    BY <1>8, <2>1, <2>4
<1> QED
  BY <1>9, <1>10 DEF AppendEntry

LEMMA MarkIsSound ==
  ASSUME MemoryInv, NEW w \in Workers, Mark(w)
  PROVE  Sound(w)
<1> DEFINE s == work[w].session
           end == work[w].end
           from == work[w].from
<1>1. /\ work[w].pc = "mark"
      /\ UNCHANGED <<copies, queue, sched, CliState, overlapped, told, spoiled>>
  BY DEF Mark
<1>2. /\ told[w] = {}
      /\ from >= 1 /\ 1..from - 1 \subseteq mined[s]
      /\ work[w] \in Worker /\ Busy(w) /\ s \in Sessions
  BY <1>1, NotTold
<1>3. /\ end \in 0..MaxTurns /\ from \in Nat /\ MaxTurns \in Nat
      /\ checkpoint \in [Sessions -> 0..MaxTurns] /\ mined \in [Sessions -> SUBSET (1..MaxTurns)]
  BY <1>2, MaintenanceParameters DEF Worker, MemoryInv, TypeOK
<1>4. CASE UNCHANGED <<checkpoint, mined>> /\ Goto(w, "failed")
           /\ (faults' = faults \/ (faults < MaxFaults /\ faults' = faults + 1))
  BY <1>1, <1>2, <1>4, Ends
<1>5. ASSUME end > checkpoint[s], checkpoint' = [checkpoint EXCEPT ![s] = end],
             mined' = [mined EXCEPT ![s] = @ \cup from..end],
             NEW p \in {"batch", "failed"}, NEW begin \in 0..MaxTurns + 1, p = "batch" => begin = end + 1,
             work' = [work EXCEPT ![w] = [work[w] EXCEPT !.pc = p, !.from = begin]],
             faults' \in 0..MaxFaults
      PROVE  Sound(w)
  <2> DEFINE rec == [work[w] EXCEPT !.pc = p, !.from = begin]
  <2>1. /\ rec \in Worker /\ rec.session = s /\ rec.through = work[w].through
        /\ rec.pc = p /\ rec.from = begin
    BY <1>2 DEF Worker, Points
  <2>2. work' = [work EXCEPT ![w] = rec]
    BY <1>5
  <2> HIDE DEF rec
  <2>3. work'[w] = rec
    BY <2>1, <2>2, OneMoves DEF MemoryInv, TypeOK
  <2>4. from..end \subseteq 1..MaxTurns
    BY <1>2, <1>3
  <2>5. /\ checkpoint' \in [Sessions -> 0..MaxTurns] /\ mined' \in [Sessions -> SUBSET (1..MaxTurns)]
        /\ checkpoint'[s] = end /\ mined'[s] = mined[s] \cup from..end
        /\ \A x \in Sessions : x # s => checkpoint'[x] = checkpoint[x] /\ mined'[x] = mined[x]
    BY <1>2, <1>3, <1>5, <2>4
  <2>6. \A x \in Sessions : checkpoint[x] <= checkpoint'[x] /\ mined[x] \subseteq mined'[x]
    <3> SUFFICES ASSUME NEW x \in Sessions
                 PROVE  checkpoint[x] <= checkpoint'[x] /\ mined[x] \subseteq mined'[x]
      OBVIOUS
    <3>1. checkpoint[x] \in 0..MaxTurns
      BY <1>3
    <3> QED
      BY <1>3, <1>5, <2>5, <3>1
  <2>7. 1..end \subseteq mined'[s]
    BY <1>2, <1>3, <2>5
  <2>8. Steps(w)
    BY <1>1, <1>2, <1>5, <2>1, <2>2, <2>5, <2>6 DEF Steps, MemoryInv, TypeOK
  <2>9. \A x \in Sessions : 1..checkpoint'[x] \subseteq mined'[x]
    BY <2>5, <2>7 DEF MemoryInv, NothingSkipped
  <2>10. p \in Working => rec.from >= 1 /\ 1..rec.from - 1 \subseteq mined'[s]
    <3> SUFFICES ASSUME p = "batch" PROVE rec.from >= 1 /\ 1..rec.from - 1 \subseteq mined'[s]
      BY DEF Working
    <3>1. rec.from >= 1 /\ rec.from - 1 = end
      BY <1>3, <1>5, <2>1
    <3> QED
      BY <2>7, <3>1
  <2> QED
    BY <1>1, <1>2, <2>1, <2>3, <2>8, <2>9, <2>10 DEF Sound, MemoryInv, NoTwins
<1>6. CASE /\ end > checkpoint[s] /\ checkpoint' = [checkpoint EXCEPT ![s] = end]
           /\ mined' = [mined EXCEPT ![s] = @ \cup from..end]
           /\ work' = [work EXCEPT ![w] = [@ EXCEPT !.pc = "batch", !.from = end + 1]]
           /\ UNCHANGED faults
  <2>1. /\ work' = [work EXCEPT ![w] = [work[w] EXCEPT !.pc = "batch", !.from = end + 1]]
        /\ faults' \in 0..MaxFaults /\ end + 1 \in 0..MaxTurns + 1
    BY <1>2, <1>3, <1>6, SMTT(20) DEF MemoryInv, TypeOK
  <2> QED
    BY <1>5, <1>6, <2>1
<1>7. CASE /\ end > checkpoint[s] /\ checkpoint' = [checkpoint EXCEPT ![s] = end]
           /\ mined' = [mined EXCEPT ![s] = @ \cup from..end]
           /\ Fault(w)
  <2>1. faults' \in 0..MaxFaults /\ from \in 0..MaxTurns + 1
    BY <1>2, <1>7, MaintenanceParameters DEF Fault, MemoryInv, TypeOK, Worker
  <2>2. [work[w] EXCEPT !.pc = "failed"] = [work[w] EXCEPT !.pc = "failed", !.from = from]
    BY <1>2 DEF Worker
  <2>3. work' = [work EXCEPT ![w] = [work[w] EXCEPT !.pc = "failed"]]
    BY <1>2, <1>7 DEF Fault, Goto, MemoryInv, TypeOK
  <2>4. work' = [work EXCEPT ![w] = [work[w] EXCEPT !.pc = "failed", !.from = from]]
    BY <2>2, <2>3
  <2> QED
    BY <1>5, <1>7, <2>1, <2>4
<1> QED
  BY <1>4, <1>6, <1>7 DEF Mark, Fault

LEMMA TakeKeeps ==
  ASSUME MemoryInv, NEW w \in Workers, Take(w)
  PROVE  MemoryInv'
<1> DEFINE rec == [work[w] EXCEPT !.pc = "read", !.session = Head(queue).session,
                                  !.through = Head(queue).through]
<1>1. /\ work[w].pc = "idle" /\ ~Busy(w) /\ work[w] \in Worker /\ queue # <<>> /\ cli # "down"
      /\ queue' = Tail(queue)
      /\ overlapped' = (overlapped \/ \E v \in Workers \ {w} : Busy(v))
      /\ UNCHANGED <<copies, checkpoint, sched, faults, turns, cli, current, telling, edits,
                     remembers, launches, mined, told, spoiled>>
  BY DEF Take, CliState, Busy, MemoryInv, TypeOK
<1>2. /\ Head(queue) \in Request /\ Tail(queue) \in Seq(Request)
      /\ Head(queue) = queue[1] /\ Len(queue) \in Nat /\ Len(queue) # 0
      /\ Len(Tail(queue)) = Len(queue) - 1
      /\ \A i \in 1..Len(queue) - 1 : Tail(queue)[i] = queue[i + 1]
  BY <1>1 DEF MemoryInv, TypeOK
<1>3. rec \in Worker /\ rec.session = Head(queue).session /\ rec.through = Head(queue).through
      /\ rec.pc = "read" /\ rec.session \in Sessions
  BY <1>1, <1>2 DEF Worker, Request, Points
<1>4. work' = [work EXCEPT ![w] = rec]
  BY <1>1 DEF Take, MemoryInv, TypeOK
<1> HIDE DEF rec
<1>5. /\ work' \in [Workers -> Worker] /\ work'[w] = rec
      /\ \A v \in Workers : v # w => work'[v] = work[v]
  BY <1>3, <1>4, OneMoves DEF MemoryInv, TypeOK
<1>6. TypeOK' /\ EditsCounted'
  BY <1>1, <1>2, <1>5 DEF MemoryInv, TypeOK, EditsCounted
<1>7. RunsAreOfSessions' /\ HandledBefore' /\ NothingSkipped'
  BY <1>1, <1>3, <1>5 DEF MemoryInv, RunsAreOfSessions, HandledBefore, NothingSkipped, Busy, Working
<1>8. OneAtATime' /\ NoTwins'
  <2> SUFFICES ASSUME ~overlapped' PROVE OneAtATime' /\ NoTwins'
    BY DEF OneAtATime, NoTwins
  <2>1. ~overlapped /\ \A v \in Workers : v # w => work[v].pc = "idle"
    BY <1>1 DEF Busy
  <2>2. \A v \in Workers : work'[v].pc # "idle" => v = w
    BY <1>5, <2>1
  <2> QED
    BY <1>1, <1>3, <1>5, <2>1, <2>2 DEF OneAtATime, NoTwins, MemoryInv, Busy
<1>9. ToldAreCancelled'
  <2>1. told[w] = {}
    BY <1>1 DEF MemoryInv, ToldAreCancelled
  <2> QED
    BY <1>1, <1>5, <2>1 DEF MemoryInv, ToldAreCancelled, Looking, Cancelled
<1>10. PendingIsCovered'
  <2> SUFFICES ASSUME NEW s \in Sessions, sched[s].pending, ~spoiled[s],
                      ~(checkpoint[s] >= sched[s].through)
               PROVE  \/ \E i \in DOMAIN Tail(queue) :
                           Tail(queue)[i].session = s /\ Tail(queue)[i].through >= sched[s].through
                      \/ \E v \in Workers :
                           work'[v].session = s /\ work'[v].through >= sched[s].through
    BY <1>1 DEF PendingIsCovered
  <2>1. CASE \E i \in DOMAIN queue : queue[i].session = s /\ queue[i].through >= sched[s].through
    <3>0. DOMAIN queue = 1..Len(queue)
      BY DEF MemoryInv, TypeOK
    <3>1. PICK i \in 1..Len(queue) : queue[i].session = s /\ queue[i].through >= sched[s].through
      BY <2>1, <3>0
    <3>2. CASE i = 1
      BY <1>2, <1>3, <1>5, <3>1, <3>2
    <3>3. CASE i # 1
      <4>1. i - 1 \in 1..Len(queue) - 1 /\ Tail(queue)[i - 1] = queue[i]
        BY <1>2, <3>1, <3>3
      <4>2. i - 1 \in DOMAIN Tail(queue)
        BY <1>2, <4>1
      <4> QED
        BY <3>1, <4>1, <4>2
    <3> QED
      BY <3>2, <3>3
  <2>2. CASE \E v \in Workers : work[v].session = s /\ work[v].through >= sched[s].through
    <3>1. PICK v \in Workers : work[v].session = s /\ work[v].through >= sched[s].through
      BY <2>2
    <3>2. v # w
      BY <1>1, <3>1, MaintenanceParameters DEF MemoryInv, RunsAreOfSessions
    <3> QED
      BY <1>5, <3>1, <3>2
  <2> QED
    BY <2>1, <2>2 DEF MemoryInv, PendingIsCovered
<1> QED
  BY <1>6, <1>7, <1>8, <1>9, <1>10 DEF MemoryInv

LEMMA FinishKeeps ==
  ASSUME MemoryInv, NEW w \in Workers, Finish(w)
  PROVE  MemoryInv'
<1> DEFINE s == work[w].session
           record == [sched[s] EXCEPT !.checkpoint = Max2(sched[s].checkpoint, work[w].through),
                                      !.pending = FALSE]
<1>1. /\ work[w].pc \in {"ok", "invalidated", "failed"} /\ Busy(w) /\ s \in Sessions
      /\ work' = [work EXCEPT ![w] = Idle]
      /\ told' = [told EXCEPT ![w] = {}]
      /\ UNCHANGED <<copies, checkpoint, queue, faults, turns, cli, current, telling, edits,
                     remembers, launches, mined, overlapped>>
  BY DEF Finish, CliState, Busy, MemoryInv, RunsAreOfSessions
<1>2. /\ work' \in [Workers -> Worker] /\ work'[w] = Idle
      /\ \A v \in Workers : v # w => work'[v] = work[v]
  BY <1>1, IdleTypes, OneMoves DEF MemoryInv, TypeOK
<1>3. /\ told' \in [Workers -> SUBSET Contents] /\ told'[w] = {}
      /\ \A v \in Workers : v # w => told'[v] = told[v]
  BY <1>1 DEF MemoryInv, TypeOK
<1>4. /\ sched' \in [Sessions -> SessionRecord] /\ spoiled' \in [Sessions -> BOOLEAN]
      /\ \A x \in Sessions : x # s => sched'[x] = sched[x] /\ spoiled'[x] = spoiled[x]
      /\ sched'[s].cancel = sched[s].cancel
      /\ spoiled'[s] \/ ~sched'[s].pending
  <2>1. CASE work[w].pc = "ok"
    <3>1. /\ sched[s] \in SessionRecord /\ work[w].through \in 0..MaxTurns
          /\ sched[s].checkpoint \in 0..MaxTurns
      BY <1>1 DEF MemoryInv, TypeOK, Worker, SessionRecord
    <3>2. Max2(sched[s].checkpoint, work[w].through) \in 0..MaxTurns
      BY <3>1 DEF Max2
    <3>3. record \in SessionRecord /\ record.cancel = sched[s].cancel /\ record.pending = FALSE
      BY <3>1, <3>2 DEF SessionRecord
    <3>4. sched' = [sched EXCEPT ![s] = record] /\ spoiled' = spoiled
      BY <1>1, <2>1 DEF Finish, MemoryInv, TypeOK
    <3> HIDE DEF record
    <3> QED
      BY <1>1, <3>3, <3>4 DEF MemoryInv, TypeOK
  <2>2. CASE work[w].pc # "ok"
    <3>1. spoiled' = [spoiled EXCEPT ![s] = TRUE] /\ sched' = sched
      BY <2>2 DEF Finish
    <3> QED
      BY <1>1, <3>1 DEF MemoryInv, TypeOK
  <2> QED
    BY <2>1, <2>2
<1>5. TypeOK' /\ EditsCounted'
  BY <1>1, <1>2, <1>3, <1>4 DEF MemoryInv, TypeOK, EditsCounted
<1>6. RunsAreOfSessions' /\ HandledBefore' /\ NothingSkipped'
  BY <1>1, <1>2, IdleTypes DEF MemoryInv, RunsAreOfSessions, HandledBefore, NothingSkipped, Busy, Working
<1>7. OneAtATime' /\ NoTwins'
  <2>1. \A v \in Workers : work'[v].pc # "idle" => v # w /\ work'[v] = work[v]
    BY <1>2, IdleTypes
  <2> QED
    BY <1>1, <2>1 DEF OneAtATime, NoTwins, MemoryInv, Busy
<1>8. ToldAreCancelled'
  <2> SUFFICES ASSUME NEW v \in Workers, told'[v] # {}
               PROVE  /\ work'[v].pc \in {"read", "batch", "extract", "ok", "invalidated", "failed"}
                      /\ work'[v].pc \in {"read", "batch", "extract"} => sched'[work'[v].session].cancel
    BY DEF ToldAreCancelled, Looking, Cancelled
  <2>1. v # w /\ work'[v] = work[v] /\ told[v] # {}
    BY <1>2, <1>3
  <2>2. /\ work[v].pc \in {"read", "batch", "extract", "ok", "invalidated", "failed"}
        /\ work[v].pc \in {"read", "batch", "extract"} => sched[work[v].session].cancel
    BY <2>1 DEF MemoryInv, ToldAreCancelled, Looking, Cancelled
  <2>3. work[v].session \in Sessions
    BY <2>2 DEF MemoryInv, RunsAreOfSessions, Busy
  <2> QED
    BY <1>4, <2>1, <2>2, <2>3
<1>9. PendingIsCovered'
  <2> SUFFICES ASSUME NEW x \in Sessions, sched'[x].pending, ~spoiled'[x]
               PROVE  \/ checkpoint[x] >= sched'[x].through
                      \/ \E i \in DOMAIN queue :
                           queue[i].session = x /\ queue[i].through >= sched'[x].through
                      \/ \E v \in Workers :
                           work'[v].session = x /\ work'[v].through >= sched'[x].through
    BY <1>1 DEF PendingIsCovered
  <2>1. x # s /\ sched'[x] = sched[x] /\ spoiled'[x] = spoiled[x]
    BY <1>4
  <2>2. \A v \in Workers : work[v].session = x => work'[v] = work[v]
    BY <1>2, <2>1
  <2> QED
    BY <2>1, <2>2 DEF MemoryInv, PendingIsCovered
<1> QED
  BY <1>5, <1>6, <1>7, <1>8, <1>9 DEF MemoryInv

LEMMA RunKeeps ==
  ASSUME MemoryInv, NEW w \in Workers, Run(w)
  PROVE  MemoryInv'
<1>1. CASE Take(w)
  BY <1>1, TakeKeeps
<1>2. CASE Finish(w)
  BY <1>2, FinishKeeps
<1>3. CASE Read(w) \/ NextBatch(w) \/ Extract(w) \/ Commit(w) \/ Check(w) \/ AppendEntry(w) \/ Mark(w)
  <2>1. Sound(w)
    BY <1>3, ReadIsSound, NextBatchIsSound, ExtractIsSound, CommitIsSound, CheckIsSound,
       AppendIsSound, MarkIsSound
  <2> QED
    BY <2>1, StepsKeep
<1> QED
  BY <1>1, <1>2, <1>3 DEF Run

(* -------------------------------- the CLI thread --------------------------------- *)

LEMMA MaxOfTwo ==
  ASSUME NEW a \in 0..MaxTurns, NEW b \in 0..MaxTurns
  PROVE  /\ Max2(a, b) \in 0..MaxTurns
         /\ Max2(a, b) >= a /\ Max2(a, b) >= b
BY MaintenanceParameters DEF Max2

LEMMA TurnKeeps ==
  ASSUME MemoryInv, NEW s \in Sessions, Turn(s)
  PROVE  MemoryInv'
<1>1. UNCHANGED <<copies, checkpoint, queue, sched, work, cli, telling, edits, remembers, faults,
                  launches, mined, overlapped, told, spoiled>>
  BY DEF Turn, counts, history
<1>2. turns' \in [Sessions -> 0..MaxTurns] /\ current' = s
  <2>1. CASE UNCHANGED turns
    BY <2>1 DEF Turn, MemoryInv, TypeOK
  <2>2. CASE turns[s] < MaxTurns /\ turns' = [turns EXCEPT ![s] = @ + 1]
    <3>1. turns[s] + 1 \in 0..MaxTurns
      BY <2>2, MaintenanceParameters DEF MemoryInv, TypeOK
    <3> QED
      BY <2>2, <3>1 DEF Turn, MemoryInv, TypeOK
  <2> QED
    BY <2>1, <2>2 DEF Turn
<1>3. TypeOK'
  BY <1>1, <1>2 DEF MemoryInv, TypeOK
<1> QED
  BY <1>1, <1>3 DEF MemoryInv, EditsCounted, RunsAreOfSessions, HandledBefore, NothingSkipped, OneAtATime,
     NoTwins, ToldAreCancelled, PendingIsCovered, Busy, Looking, Cancelled

LEMMA RequestKeeps ==
  ASSUME MemoryInv, NEW s \in Sessions, RequestMaintenance(s)
  PROVE  MemoryInv'
<1> DEFINE target == Max2(Max2(sched[s].checkpoint, sched[s].through), turns[s])
           record == [sched[s] EXCEPT !.through = target, !.pending = TRUE, !.cancel = FALSE]
           request == [session |-> s, through |-> target]
<1>1. /\ UNCHANGED <<turns, copies, checkpoint, work, cli, current, telling, edits, remembers, faults,
                     launches, mined, overlapped>>
      /\ sched' = [sched EXCEPT ![s] = record]
      /\ queue' = Append(queue, request)
      /\ told' = [v \in Workers |-> IF work[v].session = s THEN {} ELSE told[v]]
      /\ spoiled' = [spoiled EXCEPT ![s] = FALSE]
  BY DEF RequestMaintenance, log, counts, MemoryInv, TypeOK
<1>2. target \in 0..MaxTurns
  <2>1. /\ sched[s].checkpoint \in 0..MaxTurns /\ sched[s].through \in 0..MaxTurns
        /\ turns[s] \in 0..MaxTurns
    BY DEF MemoryInv, TypeOK, SessionRecord
  <2> QED
    BY <2>1, MaxOfTwo
<1> HIDE DEF target
<1>3. record \in SessionRecord /\ record.through = target
  BY <1>2 DEF MemoryInv, TypeOK, SessionRecord
<1>4. request \in Request /\ request.session = s /\ request.through = target
  BY <1>2 DEF Request
<1> HIDE DEF record, request
<1>5. /\ queue' \in Seq(Request) /\ Len(queue) \in Nat
      /\ DOMAIN queue = 1..Len(queue) /\ DOMAIN queue' = 1..Len(queue) + 1
      /\ queue'[Len(queue) + 1] = request
      /\ \A i \in DOMAIN queue : queue'[i] = queue[i]
  BY <1>1, <1>4 DEF MemoryInv, TypeOK
<1>6. /\ sched' \in [Sessions -> SessionRecord] /\ spoiled' \in [Sessions -> BOOLEAN]
      /\ sched'[s] = record
      /\ \A x \in Sessions : x # s => sched'[x] = sched[x] /\ spoiled'[x] = spoiled[x]
  BY <1>1, <1>3 DEF MemoryInv, TypeOK
<1>7. /\ told' \in [Workers -> SUBSET Contents]
      /\ \A v \in Workers : told'[v] # {} => work[v].session # s /\ told'[v] = told[v]
  BY <1>1 DEF MemoryInv, TypeOK
<1>8. TypeOK'
  BY <1>1, <1>5, <1>6, <1>7 DEF MemoryInv, TypeOK
<1>9. /\ EditsCounted' /\ RunsAreOfSessions' /\ HandledBefore' /\ NothingSkipped'
      /\ OneAtATime' /\ NoTwins'
  BY <1>1 DEF MemoryInv, EditsCounted, RunsAreOfSessions, HandledBefore, NothingSkipped, OneAtATime, NoTwins, Busy
<1>10. ToldAreCancelled'
  <2> SUFFICES ASSUME NEW v \in Workers, told'[v] # {}
               PROVE  /\ work[v].pc \in {"read", "batch", "extract", "ok", "invalidated", "failed"}
                      /\ work[v].pc \in {"read", "batch", "extract"} => sched'[work[v].session].cancel
    BY <1>1 DEF ToldAreCancelled, Looking, Cancelled
  <2>1. told[v] # {} /\ work[v].session # s
    BY <1>7
  <2>2. /\ work[v].pc \in {"read", "batch", "extract", "ok", "invalidated", "failed"}
        /\ work[v].pc \in {"read", "batch", "extract"} => sched[work[v].session].cancel
    BY <2>1 DEF MemoryInv, ToldAreCancelled, Looking, Cancelled
  <2>3. work[v].session \in Sessions
    BY <2>2 DEF MemoryInv, RunsAreOfSessions, Busy
  <2> QED
    BY <1>6, <2>1, <2>2, <2>3
<1>11. PendingIsCovered'
  <2> SUFFICES ASSUME NEW x \in Sessions, sched'[x].pending, ~spoiled'[x]
               PROVE  \/ checkpoint[x] >= sched'[x].through
                      \/ \E i \in DOMAIN queue' :
                           queue'[i].session = x /\ queue'[i].through >= sched'[x].through
                      \/ \E v \in Workers :
                           work[v].session = x /\ work[v].through >= sched'[x].through
    BY <1>1 DEF PendingIsCovered
  <2>1. CASE x = s
    <3>1. Len(queue) + 1 \in DOMAIN queue'
      BY <1>5
    <3> QED
      BY <1>2, <1>3, <1>4, <1>5, <1>6, <2>1, <3>1, MaintenanceParameters
  <2>2. CASE x # s
    <3>1. sched'[x] = sched[x] /\ spoiled'[x] = spoiled[x]
      BY <1>6, <2>2
    <3>2. \A i \in DOMAIN queue : i \in DOMAIN queue' /\ queue'[i] = queue[i]
      BY <1>5
    <3> QED
      BY <3>1, <3>2 DEF MemoryInv, PendingIsCovered
  <2> QED
    BY <2>1, <2>2
<1> QED
  BY <1>8, <1>9, <1>10, <1>11 DEF MemoryInv

LEMMA RememberKeeps ==
  ASSUME MemoryInv, NEW c \in Contents, Remember(c)
  PROVE  MemoryInv'
<1>1. /\ UNCHANGED <<turns, checkpoint, queue, sched, work, cli, current, telling, faults, launches,
                     mined, overlapped, told, spoiled>>
      /\ edits < MaxEdits /\ edits' = edits + 1
      /\ remembers' = [remembers EXCEPT ![c] = remembers[c] + 1]
      /\ copies' = [copies EXCEPT ![c] = copies[c] + 1]
  BY DEF Remember, history, MemoryInv, TypeOK
<1>2. /\ remembers \in [Contents -> Nat] /\ copies \in [Contents -> Nat] /\ edits \in Nat
      /\ \A d \in Contents : remembers[d] <= edits
  BY MaintenanceParameters DEF MemoryInv, TypeOK, EditsCounted
<1>3. \A d \in Contents : remembers'[d] \in Nat /\ remembers'[d] <= edits'
  BY <1>1, <1>2
<1>4. TypeOK'
  <2>1. edits' \in 0..MaxEdits /\ copies' \in [Contents -> Nat]
    BY <1>1, <1>2, MaintenanceParameters
  <2>2. \A d \in Contents : remembers'[d] \in 0..MaxEdits
    BY <1>3, <2>1, MaintenanceParameters
  <2>3. remembers' \in [Contents -> 0..MaxEdits]
    BY <1>1, <1>2, <2>2
  <2> QED
    BY <1>1, <2>1, <2>3 DEF MemoryInv, TypeOK
<1>5. OneAtATime' /\ NoTwins'
  <2>1. \A d \in Contents :
          /\ copies[d] <= 1 + remembers[d] => copies'[d] <= 1 + remembers'[d]
          /\ copies[d] <= remembers[d] => copies'[d] <= remembers'[d]
    BY <1>1, <1>2
  <2>2. \A w \in Workers : work[w].next \subseteq Contents
    BY DEF MemoryInv, TypeOK, Worker
  <2> QED
    BY <1>1, <2>1, <2>2 DEF MemoryInv, OneAtATime, NoTwins, Busy
<1> QED
  BY <1>1, <1>3, <1>4, <1>5 DEF MemoryInv, EditsCounted, RunsAreOfSessions, HandledBefore, NothingSkipped,
     ToldAreCancelled, PendingIsCovered, Busy, Looking, Cancelled

LEMMA ForgetKeeps ==
  ASSUME MemoryInv, NEW c \in Contents, Forget(c)
  PROVE  MemoryInv'
<1>1. /\ UNCHANGED <<turns, checkpoint, queue, sched, work, current, remembers, launches,
                     mined, overlapped, told, spoiled>>
      /\ copies[c] > 0 /\ edits < MaxEdits /\ edits' = edits + 1
      /\ copies' = [copies EXCEPT ![c] = copies[c] - 1]
  BY DEF Forget, MemoryInv, TypeOK
<1>2. /\ remembers \in [Contents -> Nat] /\ copies \in [Contents -> Nat] /\ edits \in Nat
      /\ \A d \in Contents : remembers[d] <= edits
  BY MaintenanceParameters DEF MemoryInv, TypeOK, EditsCounted
<1>3. /\ copies' \in [Contents -> Nat] /\ \A d \in Contents : copies'[d] <= copies[d]
      /\ \A d \in Contents : remembers[d] <= edits'
      /\ edits' \in 0..MaxEdits
  BY <1>1, <1>2, MaintenanceParameters
<1>4. /\ cli' \in {"free", "telling"} /\ telling' \in SUBSET Contents /\ faults' \in 0..MaxFaults
  BY MaintenanceParameters DEF Forget, MemoryInv, TypeOK
<1>5. TypeOK'
  BY <1>1, <1>3, <1>4 DEF MemoryInv, TypeOK
<1>6. OneAtATime' /\ NoTwins'
  <2>1. \A d \in Contents :
          /\ copies[d] <= 1 + remembers[d] => copies'[d] <= 1 + remembers[d]
          /\ copies[d] <= remembers[d] => copies'[d] <= remembers[d]
    BY <1>2, <1>3
  <2>2. \A w \in Workers : work[w].next \subseteq Contents
    BY DEF MemoryInv, TypeOK, Worker
  <2> QED
    BY <1>1, <2>1, <2>2 DEF MemoryInv, OneAtATime, NoTwins, Busy
<1>7. RunsAreOfSessions'
  BY <1>1, <1>4 DEF MemoryInv, RunsAreOfSessions, Busy
<1> QED
  BY <1>1, <1>3, <1>5, <1>6, <1>7 DEF MemoryInv, EditsCounted, HandledBefore, NothingSkipped,
     ToldAreCancelled, PendingIsCovered, Busy, Looking, Cancelled

(* Every set of naturals that has an element has a least one. *)
LEMMA LeastElement ==
  ASSUME NEW T, T \subseteq Nat, T # {}
  PROVE  \E x \in T : \A y \in T : ~(y < x)
<1> DEFINE R == StrictSubsetOrdering(Nat)
           Fin == FiniteSubsetsOf(Nat)
           Below == {1..n : n \in T}
<1>1. IsWellFoundedOn(R, Fin)
  BY FS_StrictSubsetOrderingWellFounded
<1>2. Below \subseteq Fin /\ Below # {}
  <2>1. \A n \in Nat : IsFiniteSet(1..n)
    BY FS_Interval
  <2>2. \A n \in Nat : 1..n \in Fin
    BY <2>1 DEF FiniteSubsetsOf
  <2> QED
    BY <2>2
<1>3. \A m, n \in Nat : m < n => <<1..m, 1..n>> \in R
  <2> SUFFICES ASSUME NEW m \in Nat, NEW n \in Nat, m < n PROVE <<1..m, 1..n>> \in R
    OBVIOUS
  <2>1. n \in 1..n /\ n \notin 1..m /\ 1..m \subseteq 1..n /\ 1..n \subseteq Nat
    OBVIOUS
  <2>2. 1..m # 1..n
    BY <2>1
  <2> QED
    BY <2>1, <2>2 DEF StrictSubsetOrdering
<1> HIDE DEF R, Fin
<1>4. PICK X \in Below : \A Y \in Below : ~(<<Y, X>> \in R)
  BY <1>1, <1>2, WFMin
<1>5. PICK x \in T : X = 1..x
  OBVIOUS
<1>6. \A y \in T : ~(<<1..y, 1..x>> \in R)
  BY <1>4, <1>5
<1> QED
  BY <1>3, <1>6

(* Induction, for the members of a set: first order, so that it can be cited. *)
LEMMA SetInduction ==
  ASSUME NEW S, 0 \in S, \A n \in Nat : n \in S => n + 1 \in S
  PROVE  \A n \in Nat : n \in S
<1> SUFFICES ASSUME Nat \ S # {} PROVE FALSE
  OBVIOUS
<1>1. PICK x \in Nat \ S : \A y \in Nat \ S : ~(y < x)
  BY LeastElement
<1>2. x # 0 /\ x - 1 \in Nat /\ x - 1 < x /\ (x - 1) + 1 = x
  BY <1>1
<1>3. x - 1 \in S
  BY <1>1, <1>2
<1> QED
  BY <1>1, <1>2, <1>3

(* The recursive function of Without. *)
IsKept(f, requests, s, n) ==
  f = [m \in 0..n |->
         IF m = 0 THEN <<>>
         ELSE IF requests[m].session = s THEN f[m - 1]
         ELSE Append(f[m - 1], requests[m])]

(* There is such a function for every number of requests. *)
LEMMA KeptExists ==
  ASSUME NEW requests, NEW s, NEW N \in Nat
  PROVE  \E f : IsKept(f, requests, s, N)
<1> DEFINE S == {n \in Nat : \E f : IsKept(f, requests, s, n)}
           Value(f, m) == IF m = 0 THEN <<>>
                          ELSE IF requests[m].session = s THEN f[m - 1]
                          ELSE Append(f[m - 1], requests[m])
<1>1. 0 \in S
  <2>1. IsKept([m \in 0..0 |-> <<>>], requests, s, 0)
    BY DEF IsKept
  <2> QED
    BY <2>1
<1>2. ASSUME NEW n \in Nat, n \in S PROVE n + 1 \in S
  <2>1. PICK f : IsKept(f, requests, s, n)
    BY <1>2
  <2> DEFINE new == IF requests[n + 1].session = s THEN f[n] ELSE Append(f[n], requests[n + 1])
             g == [m \in 0..n + 1 |-> IF m = n + 1 THEN new ELSE f[m]]
  <2>2. \A m \in 0..n + 1 : g[m] = Value(g, m)
    <3> SUFFICES ASSUME NEW m \in 0..n + 1 PROVE g[m] = Value(g, m)
      OBVIOUS
    <3>1. CASE m = n + 1
      <4>1. g[m] = new /\ m # 0 /\ m - 1 = n /\ g[n] = f[n]
        BY <3>1
      <4> QED
        BY <3>1, <4>1
    <3>2. CASE m \in 0..n
      <4>1. g[m] = f[m] /\ (m # 0 => g[m - 1] = f[m - 1])
        BY <3>2
      <4>2. f[m] = Value(f, m)
        BY <2>1, <3>2 DEF IsKept
      <4> QED
        BY <4>1, <4>2
    <3> QED
      BY <3>1, <3>2
  <2>3. g = [m \in 0..n + 1 |-> g[m]]
    OBVIOUS
  <2>4. IsKept(g, requests, s, n + 1)
    <3> HIDE DEF g
    <3> QED
      BY <2>2, <2>3 DEF IsKept
  <2> QED
    BY <2>4
<1> HIDE DEF S
<1>3. N \in S
  BY <1>1, <1>2, SetInduction
<1> QED
  BY <1>3 DEF S

(* What is left of a queue has the requests of every other session. *)
LEMMA WithoutKeeps ==
  ASSUME NEW requests \in Seq(Request), NEW s
  PROVE  /\ Without(requests, s) \in Seq(Request)
         /\ \A i \in DOMAIN requests : requests[i].session # s =>
              \E j \in DOMAIN Without(requests, s) : Without(requests, s)[j] = requests[i]
<1> DEFINE N == Len(requests)
           kept == CHOOSE f : IsKept(f, requests, s, N)
           Good(n) == /\ kept[n] \in Seq(Request)
                      /\ \A i \in 1..n : requests[i].session # s =>
                           \E j \in 1..Len(kept[n]) : kept[n][j] = requests[i]
           S == {n \in Nat : n <= N => Good(n)}
<1>1. N \in Nat /\ DOMAIN requests = 1..N /\ \A i \in 1..N : requests[i] \in Request
  OBVIOUS
<1>2. IsKept(kept, requests, s, N)
  BY <1>1, KeptExists
<1>3. Without(requests, s) = kept[N]
  BY DEF Without, IsKept
<1> HIDE DEF N, kept
<1>4. /\ kept[0] = <<>>
      /\ \A m \in 1..N : kept[m] = IF requests[m].session = s THEN kept[m - 1]
                                   ELSE Append(kept[m - 1], requests[m])
  <2>1. 0 \in 0..N /\ \A m \in 1..N : m \in 0..N /\ m # 0
    BY <1>1
  <2>2. \A m \in 0..N : kept[m] = IF m = 0 THEN <<>>
                                  ELSE IF requests[m].session = s THEN kept[m - 1]
                                  ELSE Append(kept[m - 1], requests[m])
    BY <1>2 DEF IsKept
  <2> QED
    BY <2>1, <2>2
<1>5. 0 \in S
  <2>1. kept[0] \in Seq(Request) /\ 1..0 = {}
    BY <1>4
  <2> QED
    BY <2>1
<1>6. ASSUME NEW n \in Nat, n \in S PROVE n + 1 \in S
  <2> SUFFICES ASSUME n + 1 <= N PROVE Good(n + 1)
    OBVIOUS
  <2>1. Good(n) /\ n + 1 \in 1..N /\ requests[n + 1] \in Request /\ (n + 1) - 1 = n
    BY <1>1, <1>6
  <2>2. kept[n + 1] = IF requests[n + 1].session = s THEN kept[n] ELSE Append(kept[n], requests[n + 1])
    BY <1>4, <2>1
  <2>3. CASE requests[n + 1].session = s
    <3>1. \A i \in 1..n + 1 : requests[i].session # s => i \in 1..n
      BY <2>3
    <3> QED
      BY <2>1, <2>2, <2>3, <3>1
  <2>4. CASE requests[n + 1].session # s
    <3> DEFINE old == kept[n]
               new == kept[n + 1]
    <3>1. old \in Seq(Request) /\ new = Append(old, requests[n + 1])
      BY <2>1, <2>2, <2>4
    <3> HIDE DEF old, new
    <3>2. /\ new \in Seq(Request) /\ Len(old) \in Nat /\ Len(new) = Len(old) + 1
          /\ new[Len(new)] = requests[n + 1] /\ Len(new) \in 1..Len(new)
          /\ \A j \in 1..Len(old) : new[j] = old[j] /\ j \in 1..Len(new)
      BY <2>1, <3>1
    <3>3. \A i \in 1..n : requests[i].session # s => \E j \in 1..Len(old) : old[j] = requests[i]
      BY <2>1 DEF old
    <3>4. \A i \in 1..n + 1 : i \in 1..n \/ i = n + 1
      OBVIOUS
    <3>5. \A i \in 1..n + 1 : requests[i].session # s => \E j \in 1..Len(new) : new[j] = requests[i]
      BY <3>2, <3>3, <3>4
    <3> QED
      BY <3>2, <3>5 DEF new
  <2> QED
    BY <2>3, <2>4
<1> HIDE DEF S
<1>7. N \in S
  BY <1>1, <1>5, <1>6, SetInduction
<1>8. Good(N) /\ DOMAIN kept[N] = 1..Len(kept[N])
  BY <1>1, <1>7 DEF S
<1> QED
  BY <1>1, <1>3, <1>8

LEMMA TellKeeps ==
  ASSUME MemoryInv, TellScheduler
  PROVE  MemoryInv'
<1> DEFINE record == [sched[current] EXCEPT !.through = sched[current].checkpoint,
                                            !.pending = FALSE, !.cancel = TRUE]
<1>1. /\ UNCHANGED <<turns, copies, checkpoint, work, current, edits, remembers, faults, launches,
                     mined, overlapped>>
      /\ cli' = "free" /\ telling' = {}
  BY DEF TellScheduler, log, counts
<1>2. /\ EditsCounted' /\ RunsAreOfSessions' /\ HandledBefore' /\ NothingSkipped'
      /\ OneAtATime' /\ NoTwins'
  BY <1>1 DEF MemoryInv, EditsCounted, RunsAreOfSessions, HandledBefore, NothingSkipped, OneAtATime, NoTwins, Busy
<1>3. CASE current = NoSession
  <2>1. UNCHANGED <<queue, sched, told, spoiled>>
    BY <1>3 DEF TellScheduler
  <2>2. TypeOK'
    BY <1>1, <2>1 DEF MemoryInv, TypeOK
  <2> QED
    BY <1>1, <1>2, <2>1, <2>2 DEF MemoryInv, ToldAreCancelled, PendingIsCovered, Looking, Cancelled
<1>4. CASE current # NoSession
  <2>1. /\ current \in Sessions
        /\ queue' = Without(queue, current)
        /\ sched' = [sched EXCEPT ![current] = record]
        /\ told' = [w \in Workers |-> IF work[w].session = current /\ Looking(w)
                                      THEN told[w] \cup telling ELSE told[w]]
        /\ spoiled' = [spoiled EXCEPT ![current] = TRUE]
    BY <1>4 DEF TellScheduler, MemoryInv, TypeOK
  <2>2. record \in SessionRecord /\ record.cancel = TRUE
    BY <2>1 DEF MemoryInv, TypeOK, SessionRecord
  <2> HIDE DEF record
  <2>3. /\ sched' \in [Sessions -> SessionRecord] /\ spoiled' \in [Sessions -> BOOLEAN]
        /\ sched'[current].cancel = TRUE /\ spoiled'[current] = TRUE
        /\ \A x \in Sessions : x # current => sched'[x] = sched[x] /\ spoiled'[x] = spoiled[x]
    BY <2>1, <2>2 DEF MemoryInv, TypeOK
  <2>4. /\ queue' \in Seq(Request)
        /\ \A i \in DOMAIN queue : queue[i].session # current =>
             \E j \in DOMAIN queue' : queue'[j] = queue[i]
    BY <2>1, WithoutKeeps DEF MemoryInv, TypeOK
  <2>5. told' \in [Workers -> SUBSET Contents]
    BY <2>1 DEF MemoryInv, TypeOK
  <2>6. TypeOK'
    BY <1>1, <2>3, <2>4, <2>5 DEF MemoryInv, TypeOK
  <2>7. ToldAreCancelled'
    <3> SUFFICES ASSUME NEW v \in Workers, told'[v] # {}
                 PROVE  /\ work[v].pc \in {"read", "batch", "extract", "ok", "invalidated", "failed"}
                        /\ work[v].pc \in {"read", "batch", "extract"} => sched'[work[v].session].cancel
      BY <1>1 DEF ToldAreCancelled, Looking, Cancelled
    <3>1. CASE work[v].session = current /\ Looking(v)
      BY <2>3, <3>1 DEF Looking
    <3>2. CASE ~(work[v].session = current /\ Looking(v))
      <4>1. told[v] # {}
        BY <2>1, <3>2
      <4>2. /\ work[v].pc \in {"read", "batch", "extract", "ok", "invalidated", "failed"}
            /\ work[v].pc \in {"read", "batch", "extract"} => sched[work[v].session].cancel
        BY <4>1 DEF MemoryInv, ToldAreCancelled, Looking, Cancelled
      <4>3. work[v].session \in Sessions
        BY <4>2 DEF MemoryInv, RunsAreOfSessions, Busy
      <4> QED
        BY <2>3, <3>2, <4>2, <4>3
    <3> QED
      BY <3>1, <3>2
  <2>8. PendingIsCovered'
    <3> SUFFICES ASSUME NEW x \in Sessions, sched'[x].pending, ~spoiled'[x]
                 PROVE  \/ checkpoint[x] >= sched'[x].through
                        \/ \E i \in DOMAIN queue' :
                             queue'[i].session = x /\ queue'[i].through >= sched'[x].through
                        \/ \E v \in Workers :
                             work[v].session = x /\ work[v].through >= sched'[x].through
      BY <1>1 DEF PendingIsCovered
    <3>1. x # current /\ sched'[x] = sched[x] /\ spoiled'[x] = spoiled[x]
      BY <2>3
    <3> QED
      BY <2>4, <3>1 DEF MemoryInv, PendingIsCovered
  <2> QED
    BY <1>2, <2>6, <2>7, <2>8 DEF MemoryInv
<1> QED
  BY <1>3, <1>4

(* ------------------------------- the process ------------------------------------- *)

LEMMA StopKeeps ==
  ASSUME MemoryInv, Stop
  PROVE  MemoryInv'
<1>1. /\ UNCHANGED <<turns, copies, checkpoint, queue, work, current, telling, edits, remembers, faults,
                     launches, mined, overlapped, told>>
      /\ cli' = "stopping"
      /\ sched' = [s \in Sessions |-> [sched[s] EXCEPT !.cancel = TRUE]]
      /\ spoiled' = [s \in Sessions |-> TRUE]
  BY DEF Stop, log, counts
<1>2. \A s \in Sessions : /\ [sched[s] EXCEPT !.cancel = TRUE] \in SessionRecord
                          /\ [sched[s] EXCEPT !.cancel = TRUE].cancel = TRUE
  BY DEF MemoryInv, TypeOK, SessionRecord
<1>3. /\ sched' \in [Sessions -> SessionRecord] /\ spoiled' \in [Sessions -> BOOLEAN]
      /\ \A s \in Sessions : sched'[s].cancel = TRUE /\ spoiled'[s] = TRUE
  BY <1>1, <1>2
<1>4. TypeOK'
  BY <1>1, <1>3 DEF MemoryInv, TypeOK
<1>5. ToldAreCancelled' /\ PendingIsCovered' /\ RunsAreOfSessions'
  BY <1>1, <1>3 DEF MemoryInv, ToldAreCancelled, PendingIsCovered, RunsAreOfSessions, Looking, Cancelled, Busy
<1> QED
  BY <1>1, <1>4, <1>5 DEF MemoryInv, EditsCounted, HandledBefore, NothingSkipped, OneAtATime, NoTwins, Busy

LEMMA DroppedKeeps ==
  ASSUME MemoryInv, Dropped
  PROVE  MemoryInv'
<1>1. /\ UNCHANGED <<turns, copies, checkpoint, sched, current, edits, remembers, faults, launches,
                     mined, overlapped>>
      /\ cli' = "down" /\ telling' = {} /\ queue' = <<>>
      /\ work' \in [Workers -> Worker] /\ told' \in [Workers -> SUBSET Contents]
      /\ spoiled' \in [Sessions -> BOOLEAN]
      /\ \A w \in Workers : work'[w] = Idle /\ told'[w] = {}
      /\ \A s \in Sessions : spoiled'[s] = TRUE
  BY IdleTypes DEF Dropped, log, counts
<1>2. \A w \in Workers : work'[w].pc = "idle" /\ work'[w].session = NoSession
  BY <1>1, IdleTypes
<1>3. <<>> \in Seq(Request)
  OBVIOUS
<1>4. TypeOK'
  BY <1>1, <1>3 DEF MemoryInv, TypeOK
<1> QED
  BY <1>1, <1>2, <1>4 DEF MemoryInv, EditsCounted, RunsAreOfSessions, HandledBefore, NothingSkipped, OneAtATime,
     NoTwins, ToldAreCancelled, PendingIsCovered, Busy, Working

LEMMA LaunchKeeps ==
  ASSUME MemoryInv, Launch
  PROVE  MemoryInv'
<1>1. /\ UNCHANGED <<turns, copies, checkpoint, queue, work, telling, edits, remembers, faults,
                     mined, overlapped, told, spoiled>>
      /\ cli = "down" /\ cli' = "free" /\ current' = NoSession
      /\ launches < MaxLaunches /\ launches' = launches + 1
      /\ sched' = [s \in Sessions |-> Unknown]
  BY DEF Launch, log, history
<1>2. \A w \in Workers : work[w].pc = "idle" /\ told[w] = {}
  BY <1>1 DEF MemoryInv, RunsAreOfSessions, ToldAreCancelled, Busy
<1>3. /\ sched' \in [Sessions -> SessionRecord] /\ launches' \in 0..MaxLaunches
      /\ \A s \in Sessions : sched'[s].pending = FALSE
  BY <1>1, UnknownTypes, MaintenanceParameters DEF MemoryInv, TypeOK
<1>4. TypeOK'
  BY <1>1, <1>3 DEF MemoryInv, TypeOK
<1> QED
  BY <1>1, <1>2, <1>3, <1>4 DEF MemoryInv, EditsCounted, RunsAreOfSessions, HandledBefore, NothingSkipped, OneAtATime,
     NoTwins, ToldAreCancelled, PendingIsCovered, Busy, Working

LEMMA MemoryStart == Init => MemoryInv
<1> SUFFICES ASSUME Init PROVE MemoryInv
  OBVIOUS
<1>1. /\ turns \in [Sessions -> 0..MaxTurns] /\ checkpoint \in [Sessions -> 0..MaxTurns]
      /\ cli = "down" /\ current = NoSession /\ telling = {} /\ edits = 0 /\ faults = 0 /\ launches = 0
      /\ overlapped = FALSE
  BY DEF Init
<1>2. /\ copies \in [Contents -> Nat] /\ remembers \in [Contents -> 0..MaxEdits]
      /\ \A c \in Contents : copies[c] <= 1 /\ copies[c] \in Nat /\ remembers[c] = 0
  BY MaintenanceParameters DEF Init
<1>3. /\ queue = <<>> /\ queue \in Seq(Request)
      /\ sched \in [Sessions -> SessionRecord] /\ \A s \in Sessions : sched[s].pending = FALSE
  BY UnknownTypes DEF Init
<1>4. /\ work \in [Workers -> Worker] /\ told \in [Workers -> SUBSET Contents]
      /\ \A w \in Workers : work[w].pc = "idle" /\ work[w].session = NoSession /\ told[w] = {}
  BY IdleTypes DEF Init
<1>5. spoiled \in [Sessions -> BOOLEAN]
  BY DEF Init
<1>6. mined \in [Sessions -> SUBSET (1..MaxTurns)] /\ \A s \in Sessions : mined[s] = 1..checkpoint[s]
  <2>1. \A s \in Sessions : checkpoint[s] \in Nat /\ checkpoint[s] <= MaxTurns
    BY <1>1, MaintenanceParameters
  <2>2. \A n \in Nat : n <= MaxTurns => 1..n \in SUBSET (1..MaxTurns)
    BY MaintenanceParameters
  <2>3. mined = [s \in Sessions |-> 1..checkpoint[s]]
    BY DEF Init
  <2> QED
    BY <2>1, <2>2, <2>3
<1>7. TypeOK
  <2>1. 0 \in 0..MaxEdits /\ 0 \in 0..MaxFaults /\ 0 \in 0..MaxLaunches
    BY MaintenanceParameters
  <2>2. edits \in 0..MaxEdits /\ faults \in 0..MaxFaults /\ launches \in 0..MaxLaunches
    BY <1>1, <2>1
  <2>3. /\ overlapped \in BOOLEAN /\ cli \in {"free", "telling", "stopping", "down"}
        /\ current \in Sessions \cup {NoSession} /\ telling \in SUBSET Contents
    BY <1>1
  <2> QED
    BY <1>1, <1>2, <1>3, <1>4, <1>5, <1>6, <2>2, <2>3 DEF TypeOK
<1>8. EditsCounted /\ RunsAreOfSessions /\ HandledBefore /\ NothingSkipped
  BY <1>1, <1>2, <1>4, <1>6 DEF EditsCounted, RunsAreOfSessions, HandledBefore, NothingSkipped, Busy, Working
<1>9. OneAtATime /\ NoTwins /\ ToldAreCancelled /\ PendingIsCovered
  BY <1>2, <1>3, <1>4 DEF OneAtATime, NoTwins, ToldAreCancelled, PendingIsCovered, Busy
<1> QED
  BY <1>7, <1>8, <1>9 DEF MemoryInv

LEMMA MemoryStep == MemoryInv /\ [Next]_vars => MemoryInv'
<1> SUFFICES ASSUME MemoryInv, [Next]_vars PROVE MemoryInv'
  OBVIOUS
<1>1. CASE UNCHANGED vars
  BY <1>1 DEF vars, log, counts, history, MemoryInv, TypeOK, EditsCounted, RunsAreOfSessions, HandledBefore,
     NothingSkipped, OneAtATime, NoTwins, ToldAreCancelled, PendingIsCovered, Busy, Looking, Cancelled
<1>2. CASE \E s \in Sessions : Turn(s) \/ RequestMaintenance(s)
  BY <1>2, TurnKeeps, RequestKeeps
<1>3. CASE \E c \in Contents : Remember(c) \/ Forget(c)
  BY <1>3, RememberKeeps, ForgetKeeps
<1>4. CASE \E w \in Workers : Run(w)
  BY <1>4, RunKeeps
<1>5. CASE TellScheduler \/ Stop \/ Join \/ Crash \/ Launch
  BY <1>5, TellKeeps, StopKeeps, DroppedKeeps, LaunchKeeps DEF Join, Crash
<1> QED
  BY <1>1, <1>2, <1>3, <1>4, <1>5 DEF Next

(* ---------------------------------- theorems ------------------------------------- *)

(* The strengthening: a run goes on from a turn up to which all are handled, and   *)
(* until two runs have overlapped the candidate of the one run is absent from the  *)
(* log but for what the user remembered.                                           *)
THEOREM MemoryInductive == Spec => []MemoryInv
<1> QED
  BY MemoryStart, MemoryStep, PTL DEF Spec

(* The checkpoint that commit_single_owner appends never passes a turn that no     *)
(* batch has handled, for any number of workers, faults and killed processes.      *)
THEOREM CheckpointSafety == Spec => []NothingSkipped
<1>1. MemoryInv => NothingSkipped
  BY DEF MemoryInv
<1> QED
  BY <1>1, MemoryInductive, PTL

(* Runs that do not overlap leave one entry for one content, although the query    *)
(* for a duplicate and the append of the entry are two steps.                      *)
THEOREM TwinSafety == Spec => []NoTwins
<1>1. MemoryInv => NoTwins
  BY DEF MemoryInv
<1> QED
  BY <1>1, MemoryInductive, PTL

(* A session the scheduler holds for pending, and so refuses to queue again, is in *)
(* the queue, in a run or in the log as far as was asked for.                      *)
THEOREM PendingSafety == Spec => []PendingIsCovered
<1>1. MemoryInv => PendingIsCovered
  BY DEF MemoryInv
<1> QED
  BY <1>1, MemoryInductive, PTL

(* A run the scheduler told of a forget before the model's answer was looked at    *)
(* appends none of what was forgotten.                                             *)
THEOREM ForgetSafety == Spec => ForgetReachesWorkers
<1>1. MemoryInv /\ [Next]_vars =>
        [\A w \in Workers : Appends(w) => work[w].next \cap told[w] = {}]_vars
  <2>1. MemoryInv => \A w \in Workers : work[w].pc = "append" => told[w] = {}
    BY DEF MemoryInv, ToldAreCancelled
  <2> QED
    BY <2>1 DEF Appends
<1> QED
  BY <1>1, MemoryInductive, PTL DEF Spec, ForgetReachesWorkers
================================================================================

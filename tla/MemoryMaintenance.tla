---------------------------- MODULE MemoryMaintenance ----------------------------
(* MemoryMaintenanceScheduler (src/src/application/memory_maintenance_scheduler.cpp) *)
(* and the steps of MemoryEngine it drives: background workers mine the committed  *)
(* turns of sessions for memories while the CLI thread runs turns, remembers and   *)
(* forgets.  Workers and CLI share the memory log and one record per session.      *)
(*                                                                                 *)
(* A memory is its content (category, scope and text); the log is how many active  *)
(* entries have it.  preempt() is left out: nothing but a test calls it.  The      *)
(* scheduler also hands the ids that were forgotten to the commit, which compares  *)
(* them with contents (memory_engine.cpp:345-350): an id is never a content, so    *)
(* nothing is refused by it, and the ids are left out.                             *)
EXTENDS Naturals, Sequences

CONSTANTS
  Sessions,
  Workers,        \* Config::worker_threads
  Contents,       \* what a turn can give rise to
  NoSession,      \* current_session_id before the first turn of a process
  MaxTurns,       \* bound: committed turns of a session
  MaxEdits,       \* bound: /forget and /remember together
  MaxFaults,      \* bound: busy logs, failed reads, writes and model calls
  MaxLaunches     \* bound: processes

ASSUME MaintenanceParameters ==
  /\ NoSession \notin Sessions
  /\ MaxTurns \in Nat /\ MaxEdits \in Nat
  /\ MaxFaults \in Nat /\ MaxLaunches \in Nat \ {0}

VARIABLES
  turns,       \* committed turns of each session, in the session log
  copies,      \* active entries with a content, in the memory log
  checkpoint,  \* session_checkpoints, in the memory log
  queue,       \* queue_
  sched,       \* sessions_: the record of each session
  work,        \* the workers
  cli,         \* the CLI thread
  current,     \* current_session_id
  telling,     \* the memory whose forgetting the scheduler is to be told
  edits, remembers, faults, launches,  \* how often each happened
  mined,       \* history: turns handled by a committed batch
  overlapped,  \* history: two workers were at work at once
  told,        \* history: forgets a worker could still see, by worker
  spoiled      \* history: something came between the last request and its work

log == <<turns, copies, checkpoint>>
counts == <<edits, remembers, faults, launches>>
history == <<mined, overlapped, told, spoiled>>
vars == <<log, queue, sched, work, cli, current, telling, counts, history>>

Points ==
  {"idle", "read", "batch", "extract", "commit", "entry", "append", "mark",
   "ok", "invalidated", "failed"}

Request == [session : Sessions, through : 0..MaxTurns]

Worker ==
  [pc : Points, session : Sessions \cup {NoSession}, through : 0..MaxTurns,
   from : 0..MaxTurns + 1,        \* first turn that is not handled
   upto : 0..MaxTurns,            \* MaintenanceTranscript::through_turn
   end  : 0..MaxTurns,            \* source_turn_end of the batch
   todo : SUBSET Contents,        \* candidates not committed
   next : SUBSET Contents]        \* the candidate being appended

SessionRecord ==
  [checkpoint : 0..MaxTurns,
   through    : 0..MaxTurns,      \* pending_through
   pending    : BOOLEAN,          \* has_pending
   cancel     : BOOLEAN]          \* *inflight_cancel

TypeOK ==
  /\ turns \in [Sessions -> 0..MaxTurns]
  /\ copies \in [Contents -> Nat]
  /\ checkpoint \in [Sessions -> 0..MaxTurns]
  /\ queue \in Seq(Request)
  /\ sched \in [Sessions -> SessionRecord]
  /\ work \in [Workers -> Worker]
  /\ cli \in {"free", "telling", "stopping", "down"}
  /\ current \in Sessions \cup {NoSession}
  /\ telling \in SUBSET Contents
  /\ edits \in 0..MaxEdits /\ remembers \in [Contents -> 0..MaxEdits]
  /\ faults \in 0..MaxFaults /\ launches \in 0..MaxLaunches
  /\ mined \in [Sessions -> SUBSET (1..MaxTurns)]
  /\ overlapped \in BOOLEAN
  /\ told \in [Workers -> SUBSET Contents]
  /\ spoiled \in [Sessions -> BOOLEAN]

Idle ==
  [pc |-> "idle", session |-> NoSession, through |-> 0, from |-> 0, upto |-> 0,
   end |-> 0, todo |-> {}, next |-> {}]

Unknown == [checkpoint |-> 0, through |-> 0, pending |-> FALSE, cancel |-> FALSE]

(* No process runs, and the logs are as earlier ones left them, killed ones too:   *)
(* any turns, a checkpoint that covers some of them, and a copy of any content.    *)
Init ==
  /\ turns \in [Sessions -> 0..MaxTurns]
  /\ copies \in [Contents -> 0..1]
  /\ checkpoint \in [Sessions -> 0..MaxTurns]
  /\ \A s \in Sessions : checkpoint[s] <= turns[s]
  /\ queue = <<>>
  /\ sched = [s \in Sessions |-> Unknown]
  /\ work = [w \in Workers |-> Idle]
  /\ cli = "down" /\ current = NoSession /\ telling = {}
  /\ edits = 0 /\ remembers = [c \in Contents |-> 0]
  /\ faults = 0 /\ launches = 0
  /\ mined = [s \in Sessions |-> 1..checkpoint[s]]
  /\ overlapped = FALSE
  /\ told = [w \in Workers |-> {}]
  /\ spoiled = [s \in Sessions |-> FALSE]

Busy(w) == work[w].pc # "idle"
Max2(a, b) == IF a > b THEN a ELSE b
--------------------------------------------------------------------------------
(* The CLI thread. *)

(* A turn in a session, committed or not; /forget speaks for that session then. *)
Turn(s) ==
  /\ cli = "free"
  /\ current' = s
  /\ \/ UNCHANGED turns
     \/ turns[s] < MaxTurns /\ turns' = [turns EXCEPT ![s] = @ + 1]
  /\ UNCHANGED <<copies, checkpoint, queue, sched, work, cli, telling, counts,
                 history>>

(* Mutant: a session whose run is in progress is not queued again. *)
RequestUnlessBusy(s) ==
  /\ cli = "free"
  /\ LET r == sched[s]
         target == Max2(Max2(r.checkpoint, r.through), turns[s])
     IN  /\ ~r.pending \/ target > r.through
         /\ sched' = [sched EXCEPT ![s] = [@ EXCEPT !.through = target,
                                                    !.pending = TRUE,
                                                    !.cancel = FALSE]]
         /\ queue' = IF \E w \in Workers : work[w].session = s THEN queue
                     ELSE Append(queue, [session |-> s, through |-> target])
  /\ told' = [w \in Workers |-> IF work[w].session = s THEN {} ELSE told[w]]
  /\ spoiled' = [spoiled EXCEPT ![s] = FALSE]
  /\ UNCHANGED <<log, work, cli, current, telling, counts, mined, overlapped>>

(* request_maintenance for all committed turns: at the start for every session, on *)
(* a change of session and at the end for the current one.                         *)
RequestMaintenance(s) ==
  /\ cli = "free"
  /\ LET r == sched[s]
         target == Max2(Max2(r.checkpoint, r.through), turns[s])
     IN  /\ ~r.pending \/ target > r.through
         /\ sched' = [sched EXCEPT ![s] = [@ EXCEPT !.through = target,
                                                    !.pending = TRUE,
                                                    !.cancel = FALSE]]
         /\ queue' = Append(queue, [session |-> s, through |-> target])
  /\ told' = [w \in Workers |-> IF work[w].session = s THEN {} ELSE told[w]]
  /\ spoiled' = [spoiled EXCEPT ![s] = FALSE]
  /\ UNCHANGED <<log, work, cli, current, telling, counts, mined, overlapped>>

(* MemoryEngine::remember, which does not look for a duplicate. *)
Remember(c) ==
  /\ cli = "free"
  /\ edits < MaxEdits /\ edits' = edits + 1
  /\ remembers' = [remembers EXCEPT ![c] = @ + 1]
  /\ copies' = [copies EXCEPT ![c] = @ + 1]
  /\ UNCHANGED <<turns, checkpoint, queue, sched, work, cli, current, telling,
                 faults, launches, history>>

(* /forget, first half: the entry is erased in the log.  If the append is reported *)
(* as failed although its line is in the file, the scheduler is not told.          *)
Forget(c) ==
  /\ cli = "free" /\ copies[c] > 0
  /\ edits < MaxEdits /\ edits' = edits + 1
  /\ copies' = [copies EXCEPT ![c] = @ - 1]
  /\ \/ cli' = "telling" /\ telling' = {c} /\ UNCHANGED faults
     \/ /\ faults < MaxFaults /\ faults' = faults + 1
        /\ UNCHANGED <<cli, telling>>
  /\ UNCHANGED <<turns, checkpoint, queue, sched, work, current, remembers,
                 launches, mined, overlapped, told, spoiled>>

(* A worker that has not asked the model for the last time looks at the flag again. *)
Looking(w) == work[w].pc \in {"read", "batch", "extract"}

(* The queue without the requests of a session. *)
Without(requests, s) ==
  LET kept[n \in 0..Len(requests)] ==
        IF n = 0 THEN <<>>
        ELSE IF requests[n].session = s THEN kept[n - 1]
        ELSE Append(kept[n - 1], requests[n])
  IN kept[Len(requests)]

(* /forget, second half: MemoryMaintenanceScheduler::forget for the session of the *)
(* last turn.  Before the first turn of the process that is no session.            *)
TellScheduler ==
  /\ cli = "telling"
  /\ cli' = "free" /\ telling' = {}
  /\ IF current = NoSession
     THEN UNCHANGED <<queue, sched, told, spoiled>>
     ELSE /\ queue' = Without(queue, current)
          /\ sched' = [sched EXCEPT ![current] =
                         [@ EXCEPT !.through = sched[current].checkpoint,
                                   !.pending = FALSE, !.cancel = TRUE]]
          /\ told' = [w \in Workers |->
                        IF work[w].session = current /\ Looking(w)
                        THEN told[w] \cup telling ELSE told[w]]
          /\ spoiled' = [spoiled EXCEPT ![current] = TRUE]
  /\ UNCHANGED <<log, work, current, counts, mined, overlapped>>

(* The destructor: nothing is taken on any more, every run is cancelled. *)
Stop ==
  /\ cli = "free"
  /\ cli' = "stopping"
  /\ sched' = [s \in Sessions |-> [sched[s] EXCEPT !.cancel = TRUE]]
  /\ spoiled' = [s \in Sessions |-> TRUE]
  /\ UNCHANGED <<log, queue, work, current, telling, counts, mined, overlapped,
                 told>>

(* Nothing of the scheduler survives its process. *)
Dropped ==
  /\ cli' = "down" /\ telling' = {}
  /\ queue' = <<>>
  /\ work' = [w \in Workers |-> Idle]
  /\ told' = [w \in Workers |-> {}]
  /\ spoiled' = [s \in Sessions |-> TRUE]
  /\ UNCHANGED <<log, sched, current, counts, mined, overlapped>>

(* The workers return from worker_loop when the queue is empty, and are joined. *)
Join ==
  /\ cli = "stopping" /\ queue = <<>> /\ \A w \in Workers : ~Busy(w)
  /\ Dropped

Crash == cli # "down" /\ Dropped

Launch ==
  /\ cli = "down" /\ launches < MaxLaunches
  /\ launches' = launches + 1
  /\ cli' = "free" /\ current' = NoSession
  /\ sched' = [s \in Sessions |-> Unknown]
  /\ UNCHANGED <<log, queue, work, telling, edits, remembers, faults, history>>
--------------------------------------------------------------------------------
(* The workers: run_one. *)
Cancelled(w) == sched[work[w].session].cancel

Goto(w, point) == work' = [work EXCEPT ![w].pc = point]

(* A call of the engine or of the model fails, and with it the run. *)
Fault(w) ==
  /\ faults < MaxFaults /\ faults' = faults + 1
  /\ Goto(w, "failed")

CliState == <<turns, cli, current, telling, edits, remembers, launches>>

Take(w) ==
  /\ work[w].pc = "idle" /\ cli # "down" /\ queue # <<>>
  /\ work' = [work EXCEPT ![w] = [@ EXCEPT !.pc = "read",
                                           !.session = Head(queue).session,
                                           !.through = Head(queue).through]]
  /\ queue' = Tail(queue)
  /\ overlapped' = (overlapped \/ \E v \in Workers \ {w} : Busy(v))
  /\ UNCHANGED <<copies, checkpoint, sched, faults, CliState, mined, told,
                 spoiled>>

(* read_maintenance_transcript.  A failed read ends the run as a success. *)
Read(w) ==
  /\ work[w].pc = "read"
  /\ LET s == work[w].session
         upto == IF turns[s] < work[w].through THEN turns[s] ELSE work[w].through
     IN  \/ /\ faults < MaxFaults /\ faults' = faults + 1
            /\ Goto(w, "ok")
            /\ spoiled' = [spoiled EXCEPT ![s] = TRUE]
         \/ checkpoint[s] >= upto /\ Goto(w, "ok") /\ UNCHANGED <<faults, spoiled>>
         \/ /\ checkpoint[s] < upto
            /\ work' = [work EXCEPT ![w] =
                 [@ EXCEPT !.pc = IF Cancelled(w) THEN "invalidated" ELSE "batch",
                           !.from = checkpoint[s] + 1, !.upto = upto]]
            /\ UNCHANGED <<faults, spoiled>>
  /\ UNCHANGED <<copies, checkpoint, queue, sched, CliState, mined, overlapped,
                 told>>

(* The next batch of build_batches: some turns in a row, sent to the model, or one *)
(* turn that is too large for it, skipped.                                         *)
NextBatch(w) ==
  /\ work[w].pc = "batch"
  /\ \/ work[w].from > work[w].upto /\ Goto(w, "ok")
     \/ work[w].from <= work[w].upto /\ Cancelled(w) /\ Goto(w, "invalidated")
     \/ /\ work[w].from <= work[w].upto /\ ~Cancelled(w)
        /\ \/ \E end \in work[w].from..work[w].upto :
                work' = [work EXCEPT ![w] = [@ EXCEPT !.pc = "extract", !.end = end]]
           \/ work' = [work EXCEPT ![w] = [@ EXCEPT !.pc = "commit", !.end = work[w].from]]
  /\ UNCHANGED <<copies, checkpoint, queue, sched, faults, CliState, history>>

(* Mutant: the answer of the model is not checked against the flag. *)
ExtractUnchecked(w) ==
  /\ work[w].pc = "extract"
  /\ \/ \E found \in SUBSET Contents :
          /\ work' = [work EXCEPT ![w] = [@ EXCEPT !.pc = "commit", !.todo = found]]
          /\ UNCHANGED faults
     \/ Fault(w)
  /\ UNCHANGED <<copies, checkpoint, queue, sched, CliState, history>>

(* extract_candidates: the model call fails, comes back too late, or proposes.     *)
Extract(w) ==
  /\ work[w].pc = "extract"
  /\ \/ Cancelled(w) /\ Goto(w, "invalidated") /\ UNCHANGED faults
     \/ /\ ~Cancelled(w)
        /\ \E found \in SUBSET Contents :
             work' = [work EXCEPT ![w] = [@ EXCEPT !.pc = "commit", !.todo = found]]
        /\ UNCHANGED faults
     \/ Fault(w)
  /\ UNCHANGED <<copies, checkpoint, queue, sched, CliState, history>>

(* commit_single_owner: a batch the log has passed is left out. *)
Commit(w) ==
  /\ work[w].pc = "commit"
  /\ \/ /\ work[w].end <= checkpoint[work[w].session]
        /\ work' = [work EXCEPT ![w] = [@ EXCEPT !.pc = "batch", !.from = work[w].end + 1,
                                                 !.todo = {}]]
        /\ UNCHANGED faults
     \/ /\ work[w].end > checkpoint[work[w].session]
        /\ Goto(w, "entry") /\ UNCHANGED faults
     \/ Fault(w)
  /\ UNCHANGED <<copies, checkpoint, queue, sched, CliState, history>>

(* Mutant: the log is not asked for the entry. *)
CheckNothing(w) ==
  /\ work[w].pc = "entry"
  /\ \/ work[w].todo = {} /\ Goto(w, "mark") /\ UNCHANGED faults
     \/ \E c \in work[w].todo :
          /\ work' = [work EXCEPT ![w] =
               [@ EXCEPT !.todo = work[w].todo \ {c}, !.pc = "append", !.next = {c}]]
          /\ UNCHANGED faults
     \/ Fault(w)
  /\ UNCHANGED <<copies, checkpoint, queue, sched, CliState, history>>

(* The next candidate: one that the log has already is dropped. *)
Check(w) ==
  /\ work[w].pc = "entry"
  /\ \/ work[w].todo = {} /\ Goto(w, "mark") /\ UNCHANGED faults
     \/ \E c \in work[w].todo :
          /\ work' = [work EXCEPT ![w] =
               [@ EXCEPT !.todo = work[w].todo \ {c},
                         !.pc = IF copies[c] > 0 THEN "entry" ELSE "append",
                         !.next = IF copies[c] > 0 THEN {} ELSE {c}]]
          /\ UNCHANGED faults
     \/ Fault(w)
  /\ UNCHANGED <<copies, checkpoint, queue, sched, CliState, history>>

Added(w) == [c \in Contents |-> IF c \in work[w].next THEN copies[c] + 1 ELSE copies[c]]

(* append_entry.  It fails when the log is busy, when another append comes between *)
(* its read and its write, or when the line is written and not flushed.            *)
AppendEntry(w) ==
  /\ work[w].pc = "append"
  /\ \/ /\ copies' = Added(w)
        /\ work' = [work EXCEPT ![w] = [@ EXCEPT !.pc = "entry", !.next = {}]]
        /\ UNCHANGED faults
     \/ Fault(w) /\ copies' \in {copies, Added(w)}
  /\ UNCHANGED <<checkpoint, queue, sched, CliState, history>>

(* Mutant: a batch that fails is passed over. *)
MarkRegardless(w) ==
  /\ work[w].pc = "mark"
  /\ \/ /\ checkpoint' = [checkpoint EXCEPT ![work[w].session] = Max2(@, work[w].end)]
        /\ mined' = [mined EXCEPT ![work[w].session] = @ \cup work[w].from..work[w].end]
        /\ work' = [work EXCEPT ![w] = [@ EXCEPT !.pc = "batch", !.from = work[w].end + 1]]
        /\ UNCHANGED faults
     \/ /\ faults < MaxFaults /\ faults' = faults + 1
        /\ work' = [work EXCEPT ![w] = [@ EXCEPT !.pc = "batch", !.from = work[w].end + 1]]
        /\ UNCHANGED <<checkpoint, mined>>
  /\ UNCHANGED <<copies, queue, sched, CliState, overlapped, told, spoiled>>

(* The checkpoint of the batch; reduce_memory_event refuses one that is not ahead. *)
Mark(w) ==
  /\ work[w].pc = "mark"
  /\ LET s == work[w].session
         marked == /\ checkpoint' = [checkpoint EXCEPT ![s] = work[w].end]
                   /\ mined' = [mined EXCEPT ![s] = @ \cup work[w].from..work[w].end]
     IN  \/ /\ work[w].end > checkpoint[s] /\ marked
            /\ work' = [work EXCEPT ![w] =
                          [@ EXCEPT !.pc = "batch", !.from = work[w].end + 1]]
            /\ UNCHANGED faults
         \/ /\ work[w].end <= checkpoint[s]
            /\ Goto(w, "failed") /\ UNCHANGED <<checkpoint, mined, faults>>
         \/ /\ Fault(w)
            /\ \/ UNCHANGED <<checkpoint, mined>>
               \/ work[w].end > checkpoint[s] /\ marked
  /\ UNCHANGED <<copies, queue, sched, CliState, overlapped, told, spoiled>>

(* worker_loop after run_one: only a run that was a success and not invalidated    *)
(* moves the record; after a failed one has_pending stays.                         *)
Finish(w) ==
  /\ work[w].pc \in {"ok", "invalidated", "failed"}
  /\ LET s == work[w].session
     IN  IF work[w].pc = "ok"
         THEN /\ sched' = [sched EXCEPT ![s] =
                             [@ EXCEPT !.checkpoint = Max2(sched[s].checkpoint, work[w].through),
                                       !.pending = FALSE]]
              /\ UNCHANGED spoiled
         ELSE spoiled' = [spoiled EXCEPT ![s] = TRUE] /\ UNCHANGED sched
  /\ work' = [work EXCEPT ![w] = Idle]
  /\ told' = [told EXCEPT ![w] = {}]
  /\ UNCHANGED <<copies, checkpoint, queue, faults, CliState, mined, overlapped>>

Run(w) ==
  \/ Take(w) \/ Read(w) \/ NextBatch(w) \/ Extract(w) \/ Commit(w)
  \/ Check(w) \/ AppendEntry(w) \/ Mark(w) \/ Finish(w)

Next ==
  \/ \E s \in Sessions : Turn(s) \/ RequestMaintenance(s)
  \/ \E c \in Contents : Remember(c) \/ Forget(c)
  \/ TellScheduler \/ Stop \/ Join \/ Crash \/ Launch
  \/ \E w \in Workers : Run(w)

Spec == Init /\ [][Next]_vars
--------------------------------------------------------------------------------
(* The durable checkpoint passes no turn that was not handled: however the runs of *)
(* two workers on one session overlap, fail, are cancelled or are killed between   *)
(* the entries of a batch and its checkpoint.                                      *)
NothingSkipped == \A s \in Sessions : 1..checkpoint[s] \subseteq mined[s]

(* Runs that do not overlap leave one entry for one content, besides what the user *)
(* remembered, however often a batch is mined again after a fault or a crash.      *)
NoTwins ==
  ~overlapped => \A c \in Contents : copies[c] <= 1 + remembers[c]

Appends(w) ==
  work[w].pc = "append" /\ work'[w].pc # "append" /\ copies' # copies

(* A forget that reached the scheduler before the model answered keeps the forgotten *)
(* content out of the log, unless the session was requested again meanwhile.       *)
ForgetReachesWorkers ==
  [][\A w \in Workers : Appends(w) => work[w].next \cap told[w] = {}]_vars

(* A pending session is in good hands: unless a forget, a fault or the end of the   *)
(* process came between, a queued request or a run in progress reaches as far as    *)
(* was accepted, or the log does already.  An equal request that is turned down for *)
(* being covered really is covered.                                                 *)
PendingIsCovered ==
  \A s \in Sessions :
    sched[s].pending /\ ~spoiled[s] =>
      \/ checkpoint[s] >= sched[s].through
      \/ \E i \in DOMAIN queue :
           queue[i].session = s /\ queue[i].through >= sched[s].through
      \/ \E w \in Workers :
           work[w].session = s /\ work[w].through >= sched[s].through
================================================================================

----------------------------- MODULE EventLogProofs -----------------------------
(* What holds of the task log for every threshold and every number of processes:   *)
(* types, the committed index, and what killing processes leaves behind.           *)
EXTENDS EventLog, TLAPS

Appending == {"ready", "opened", "written", "flush"}

(* The line of this process that is in the file and not yet counted. *)
Uncounted == IF pc = "written" THEN 1 ELSE 0

(* A process has counted only lines that are in the file, so that a flush, which   *)
(* covers the whole file, covers them.                                             *)
Counted ==
  pc # "down" =>
    /\ committed <= flushed
    /\ committed + pending + Uncounted <= Len(lines)

(* The count passes the threshold only by flushes that failed. *)
Threshold ==
  IF pc \in {"flush", "down"}
  THEN pending <= FlushEvery + faults
  ELSE pending < FlushEvery + faults

(* The process is never behind the file it appends to, and a file that is not      *)
(* there has no content.                                                           *)
Room ==
  /\ ~exists => lines = <<>> /\ tail = "none"
  /\ pc \in {"opened", "written", "flush"} => exists
  /\ pc \in Appending => Len(lines) <= last
  /\ pc = "opened" => last < MaxEvents
  /\ tail # "none" => Len(lines) < MaxEvents

(* Without power losses and torn writes the file holds 1, 2, ..., n.               *)
Clean ==
  losses = 0 /\ short = 0 =>
    /\ tail = "none"
    /\ \A i \in DOMAIN lines : lines[i] = i
    /\ pc \in Appending => last = Len(lines)

IInv == TypeOK /\ Counted /\ Threshold /\ Room /\ Clean

LEMMA InitInv == Init => IInv
  <1> SUFFICES ASSUME Init PROVE IInv
    OBVIOUS
  <1> USE LogParameters
  <1>2. lines = <<>>
    BY DEF Init
  <1>3. lines \in Seq(0..MaxEvents) /\ Len(lines) = 0
    BY <1>2
  <1>4. TypeOK
    <2>1. pending = 0 /\ committed = 0 /\ last = 0 /\ flushed = 0
          /\ processes = 0 /\ losses = 0 /\ short = 0 /\ faults = 0
          /\ exists \in BOOLEAN /\ tail \in Tails /\ pc \in Points
      BY DEF Init, Tails, Points
    <2> QED
      BY <1>3, <2>1 DEF TypeOK
  <1>5. Counted /\ Threshold /\ Room
    BY <1>3 DEF Init, Counted, Threshold, Room, Uncounted, Appending
  <1>6. Clean
    BY <1>2 DEF Init, Clean, Appending
  <1> QED
    BY <1>4, <1>5, <1>6 DEF IInv

LEMMA LaunchKeeps == IInv /\ Launch => IInv'
  <1> SUFFICES ASSUME IInv, Launch PROVE IInv'
    OBVIOUS
  <1> USE LogParameters DEF IInv, Launch, file
  <1>1. TypeOK'
    BY DEF TypeOK, Points, Tails
  <1>2. Counted' /\ Threshold'
    BY DEF TypeOK, Counted, Threshold, Uncounted
  <1>3. Room' /\ Clean'
    BY DEF Room, Clean, Appending
  <1> QED
    BY <1>1, <1>2, <1>3

LEMMA OpenKeeps == IInv /\ Open => IInv'
  <1> SUFFICES ASSUME IInv, Open PROVE IInv'
    OBVIOUS
  <1> USE LogParameters DEF IInv, Open, file, counts
  <1>1. lines \in Seq(0..MaxEvents) /\ Len(lines) \in 0..MaxEvents
    BY DEF TypeOK
  <1>2. exists => last' = Len(Events)
    OBVIOUS
  <1>3. Len(Events) = IF tail = "bare" THEN Len(lines) + 1 ELSE Len(lines)
    BY <1>1 DEF Events
  <1>4. Len(Events) \in 0..MaxEvents /\ Len(lines) <= Len(Events)
    BY <1>1, <1>3 DEF Room
  <1>5. ~exists => Len(lines) = 0 /\ last' = 0 /\ tail = "none"
    BY DEF Room
  <1>6. last' \in 0..MaxEvents /\ Len(lines) <= last'
    BY <1>1, <1>2, <1>4, <1>5
  <1>7. TypeOK'
    BY <1>6 DEF TypeOK, Points, Tails
  <1>8. Counted' /\ Threshold'
    BY DEF TypeOK, Counted, Threshold, Uncounted
  <1>9. Room'
    BY <1>6 DEF Room, Appending
  <1>10. Clean'
    BY <1>2, <1>3, <1>5 DEF Clean, Appending
  <1> QED
    BY <1>7, <1>8, <1>9, <1>10

LEMMA OpenForAppendKeeps == IInv /\ OpenForAppend => IInv'
  <1> SUFFICES ASSUME IInv, OpenForAppend PROVE IInv'
    OBVIOUS
  <1> USE LogParameters DEF IInv, OpenForAppend, counts
  <1>1. TypeOK'
    BY DEF TypeOK, Points, Tails
  <1>2. Counted' /\ Threshold'
    BY DEF TypeOK, Counted, Threshold, Uncounted
  <1>3. Room' /\ Clean'
    BY DEF Room, Clean, Appending
  <1> QED
    BY <1>1, <1>2, <1>3

LEMMA WriteKeeps == IInv /\ Write => IInv'
  <1> SUFFICES ASSUME IInv, Write PROVE IInv'
    OBVIOUS
  <1> USE LogParameters DEF IInv, Write, counts
  <1> DEFINE line == IF tail = "none" THEN last + 1 ELSE Garbage
  <1>1. lines \in Seq(0..MaxEvents) /\ Len(lines) \in 0..MaxEvents
    BY DEF TypeOK
  <1>2. last \in 0..MaxEvents /\ last < MaxEvents /\ Len(lines) <= last
    BY DEF TypeOK, Room, Appending
  <1>3. line \in 0..MaxEvents
    BY <1>2 DEF Garbage
  <1>4. lines' = Append(lines, line)
    OBVIOUS
  <1>5. lines' \in Seq(0..MaxEvents) /\ Len(lines') = Len(lines) + 1
    BY <1>1, <1>3, <1>4
  <1>6. Len(lines') <= MaxEvents /\ Len(lines') <= last'
    BY <1>1, <1>2, <1>5
  <1>7. flushed' \in 0..Len(lines')
    BY <1>1, <1>5 DEF TypeOK
  <1>8. TypeOK'
    BY <1>2, <1>5, <1>6, <1>7 DEF TypeOK, Points, Tails
  <1>9. committed + pending + 1 <= Len(lines') /\ committed <= flushed
    BY <1>1, <1>5 DEF TypeOK, Counted, Uncounted
  <1>10. Counted'
    BY <1>9 DEF Counted, Uncounted
  <1>11. Threshold'
    BY DEF Threshold
  <1>12. Room'
    BY <1>6 DEF Room, Appending
  <1>13. Clean'
    <2> SUFFICES ASSUME losses = 0, short = 0
                 PROVE  /\ \A i \in DOMAIN lines' : lines'[i] = i
                        /\ last' = Len(lines')
      BY DEF Clean
    <2>1. tail = "none" /\ last = Len(lines)
      BY DEF Clean, Appending
    <2>2. \A i \in 1..Len(lines) : lines[i] = i
      BY <1>1 DEF Clean
    <2>3. last' = Len(lines')
      BY <1>5, <2>1
    <2>4. \A i \in 1..Len(lines) + 1 :
            lines'[i] = IF i <= Len(lines) THEN lines[i] ELSE line
      BY <1>1, <1>3, <1>4
    <2>5. \A i \in 1..Len(lines') : lines'[i] = i
      BY <1>1, <1>5, <2>1, <2>2, <2>4
    <2> QED
      BY <1>5, <2>3, <2>5
  <1> QED
    BY <1>8, <1>10, <1>11, <1>12, <1>13

LEMMA ShortWriteKeeps == IInv /\ ShortWrite => IInv'
  <1> SUFFICES ASSUME IInv, ShortWrite PROVE IInv'
    OBVIOUS
  <1> USE LogParameters DEF IInv, ShortWrite
  <1>1. TypeOK'
    BY DEF TypeOK, Points, Tails
  <1>2. Counted' /\ Threshold'
    BY DEF TypeOK, Counted, Threshold, Uncounted
  <1>3. Len(lines) < MaxEvents
    BY DEF TypeOK, Room, Appending
  <1>4. Room'
    BY <1>3 DEF Room, Appending
  <1>5. Clean'
    BY DEF TypeOK, Clean
  <1> QED
    BY <1>1, <1>2, <1>4, <1>5

LEMMA CountKeeps == IInv /\ Count => IInv'
  <1> SUFFICES ASSUME IInv, Count PROVE IInv'
    OBVIOUS
  <1> USE LogParameters DEF IInv, Count, file, counts
  <1>1. pending \in Nat /\ faults \in 0..MaxFlushFaults /\ FlushEvery \in Nat
    BY DEF TypeOK
  <1>2. pending < FlushEvery + faults
    BY DEF Threshold
  <1>3. pending' \in 0..FlushEvery + MaxFlushFaults
    BY <1>1, <1>2
  <1>4. TypeOK'
    BY <1>3 DEF TypeOK, Points, Tails
  <1>5. committed + (pending + 1) + 0 <= Len(lines) /\ committed <= flushed
    BY DEF TypeOK, Counted, Uncounted
  <1>6. Counted'
    BY <1>5 DEF Counted, Uncounted
  <1>7. Threshold'
    BY <1>1, <1>2 DEF Threshold
  <1>8. Room' /\ Clean'
    BY DEF Room, Clean, Appending
  <1> QED
    BY <1>4, <1>6, <1>7, <1>8

LEMMA FlushKeeps == IInv /\ Flush => IInv'
  <1> SUFFICES ASSUME IInv, Flush PROVE IInv'
    OBVIOUS
  <1> USE LogParameters DEF IInv, Flush, counts
  <1>1. Len(lines) \in 0..MaxEvents /\ pending \in Nat /\ committed \in Nat
    BY DEF TypeOK
  <1>2. committed + pending <= Len(lines)
    BY <1>1 DEF Counted, Uncounted
  <1>3. committed' \in 0..MaxEvents /\ committed' <= flushed'
    BY <1>1, <1>2
  <1>4. TypeOK'
    BY <1>1, <1>3 DEF TypeOK, Points, Tails
  <1>5. Counted'
    BY <1>1, <1>2, <1>3 DEF Counted, Uncounted
  <1>6. Threshold'
    BY DEF TypeOK, Threshold
  <1>7. Room' /\ Clean'
    BY DEF Room, Clean, Appending
  <1> QED
    BY <1>4, <1>5, <1>6, <1>7

LEMMA FlushFaultKeeps == IInv /\ FlushFault => IInv'
  <1> SUFFICES ASSUME IInv, FlushFault PROVE IInv'
    OBVIOUS
  <1> USE LogParameters DEF IInv, FlushFault, file
  <1>1. TypeOK'
    BY DEF TypeOK, Points, Tails
  <1>2. Counted'
    BY DEF TypeOK, Counted, Uncounted
  <1>3. Threshold'
    BY DEF TypeOK, Threshold
  <1>4. Room' /\ Clean'
    BY DEF Room, Clean, Appending
  <1> QED
    BY <1>1, <1>2, <1>3, <1>4

LEMMA KillKeeps == IInv /\ Kill => IInv'
  <1> SUFFICES ASSUME IInv, Kill PROVE IInv'
    OBVIOUS
  <1> USE LogParameters DEF IInv, Kill, file, counts
  <1>1. TypeOK'
    BY DEF TypeOK, Points, Tails
  <1>2. Counted'
    BY DEF Counted
  <1>3. Threshold'
    <2>1. pending \in Nat /\ faults \in Nat
      BY DEF TypeOK
    <2> QED
      BY <2>1 DEF Threshold
  <1>4. Room' /\ Clean'
    BY DEF Room, Clean, Appending
  <1> QED
    BY <1>1, <1>2, <1>3, <1>4

(* The power loss that keeps n lines of the file. *)
LEMMA CutKeeps ==
  ASSUME IInv, losses < MaxPowerLosses, losses' = losses + 1, pc' = "down",
         NEW n \in flushed..Len(lines),
         lines' = SubSeq(lines, 1, n), tail' \in Tails,
         n = Len(lines) => tail' = tail,
         exists' = exists,
         UNCHANGED <<flushed, last, pending, committed, processes, short, faults>>
  PROVE  IInv'
  <1> USE LogParameters DEF IInv
  <1>1. lines \in Seq(0..MaxEvents) /\ Len(lines) \in 0..MaxEvents
        /\ flushed \in Nat /\ n \in Nat /\ n <= Len(lines) /\ flushed <= n
    BY DEF TypeOK
  <1>2. lines' \in Seq(0..MaxEvents) /\ Len(lines') = n
    BY <1>1
  <1>3. TypeOK'
    BY <1>1, <1>2 DEF TypeOK, Points
  <1>4. Counted'
    BY DEF Counted
  <1>5. Threshold'
    <2>1. pending \in Nat /\ faults \in Nat
      BY DEF TypeOK
    <2> QED
      BY <2>1 DEF Threshold
  <1>6. ~exists => lines' = <<>> /\ tail' = "none"
    <2> SUFFICES ASSUME ~exists PROVE lines' = <<>> /\ tail' = "none"
      OBVIOUS
    <2>1. lines = <<>> /\ tail = "none"
      BY DEF Room
    <2>2. n = 0 /\ n = Len(lines)
      BY <1>1, <2>1
    <2> QED
      BY <1>1, <1>2, <2>1, <2>2
  <1>7. tail' # "none" => n < MaxEvents
    BY <1>1 DEF Room
  <1>8. Room'
    BY <1>2, <1>6, <1>7 DEF Room, Appending
  <1>9. Clean'
    BY DEF TypeOK, Clean
  <1> QED
    BY <1>3, <1>4, <1>5, <1>8, <1>9

LEMMA PowerLossKeeps == IInv /\ PowerLoss => IInv'
  <1> SUFFICES ASSUME IInv, PowerLoss PROVE IInv'
    OBVIOUS
  <1> USE LogParameters
  <1>1. CASE \E n \in flushed..Len(lines) :
                /\ lines' = SubSeq(lines, 1, n)
                /\ IF n < Len(lines) /\ lines[n + 1] # Garbage
                   THEN tail' \in Tails
                   ELSE tail' = (IF n < Len(lines) THEN "cut" ELSE tail)
                /\ UNCHANGED exists
    <2>1. PICK n \in flushed..Len(lines) :
            /\ lines' = SubSeq(lines, 1, n)
            /\ IF n < Len(lines) /\ lines[n + 1] # Garbage
               THEN tail' \in Tails
               ELSE tail' = (IF n < Len(lines) THEN "cut" ELSE tail)
            /\ UNCHANGED exists
      BY <1>1
    <2>2. tail' \in Tails
      BY <2>1 DEF IInv, TypeOK, Tails
    <2>3. n = Len(lines) => tail' = tail
      BY <2>1 DEF IInv, TypeOK
    <2> QED
      BY <2>1, <2>2, <2>3, CutKeeps DEF PowerLoss
  <1>2. CASE flushed = 0 /\ exists' = FALSE /\ lines' = <<>> /\ tail' = "none"
    <2> USE <1>2 DEF IInv, PowerLoss
    <2>1. lines' \in Seq(0..MaxEvents) /\ Len(lines') = 0
      OBVIOUS
    <2>2. TypeOK'
      <3>1. exists' = FALSE /\ tail' = "none"
        OBVIOUS
      <3> HIDE <1>2
      <3>3. pc' \in Points /\ flushed' = flushed
        BY DEF Points
      <3>4. losses' \in 0..MaxPowerLosses
        BY DEF TypeOK
      <3>5. flushed' = 0
        BY <1>2, <3>3
      <3> HIDE DEF PowerLoss
      <3>2. UNCHANGED <<last, pending, committed, processes, short, faults>>
        BY DEF PowerLoss
      <3>6. /\ last' \in 0..MaxEvents
            /\ pending' \in 0..FlushEvery + MaxFlushFaults
            /\ committed' \in 0..MaxEvents
            /\ processes' \in 0..MaxProcesses
            /\ short' \in 0..MaxShortWrites /\ faults' \in 0..MaxFlushFaults
        BY <3>2 DEF TypeOK
      <3>7. flushed' \in 0..Len(lines') /\ Len(lines') <= MaxEvents
        BY <2>1, <3>5
      <3> HIDE DEF IInv
      <3>8. exists' \in BOOLEAN /\ tail' \in Tails
        BY <3>1 DEF Tails
      <3> QED
        BY <2>1, <3>3, <3>4, <3>6, <3>7, <3>8 DEF TypeOK
    <2>3. Threshold'
      <3>1. pending \in Nat /\ faults \in Nat
        BY DEF TypeOK
      <3> QED
        BY <3>1 DEF Threshold
    <2>4. Counted' /\ Room'
      BY DEF Counted, Room, Appending
    <2>5. Clean'
      BY DEF TypeOK, Clean
    <2> QED
      BY <2>2, <2>3, <2>4, <2>5
  <1> QED
    BY <1>1, <1>2 DEF PowerLoss

LEMMA StutterKeeps == IInv /\ UNCHANGED vars => IInv'
  <1> SUFFICES ASSUME IInv, UNCHANGED vars PROVE IInv'
    OBVIOUS
  <1> USE DEF vars, file, counts, IInv
  <1>1. TypeOK'
    BY DEF TypeOK
  <1>2. Counted' /\ Threshold'
    BY DEF Counted, Threshold, Uncounted
  <1>3. Room' /\ Clean'
    BY DEF Room, Clean, Appending
  <1> QED
    BY <1>1, <1>2, <1>3

(* IInv is an inductive invariant of the task log, for every flush threshold and   *)
(* every number of processes, power losses, torn writes and failing flushes.       *)
THEOREM LogInductive == Spec => []IInv
  <1>1. IInv /\ [Next]_vars => IInv'
    BY LaunchKeeps, OpenKeeps, OpenForAppendKeeps, WriteKeeps, ShortWriteKeeps,
       CountKeeps, FlushKeeps, FlushFaultKeeps, KillKeeps, PowerLossKeeps,
       StutterKeeps DEF Next
  <1> QED
    BY InitInv, <1>1, PTL DEF Spec

(* The index of committed events stays behind what an fsync has confirmed          *)
(* (flush_pending advances committed_through only by lines that were in the file). *)
THEOREM CommittedSafety == Spec => []CommittedIsDurable
  <1>1. IInv => CommittedIsDurable
    BY DEF IInv, Counted, CommittedIsDurable
  <1> QED
    BY LogInductive, <1>1, PTL

(* Kills alone leave a log that resumes, or one without any event. *)
THEOREM KillSafety == Spec => []KillKeepsLog
  <1>1. IInv => KillKeepsLog
    <2> SUFFICES ASSUME IInv, losses = 0, short = 0
                 PROVE  Readable \/ (lines = <<>> /\ tail = "none")
      BY DEF KillKeepsLog
    <2>1. tail = "none" /\ \A i \in DOMAIN lines : lines[i] = i
      BY DEF IInv, Clean
    <2> QED
      BY <2>1 DEF Readable, Events
  <1> QED
    BY LogInductive, <1>1, PTL

(* A step never takes a complete line back, a power loss excepted. *)
THEOREM EventsStaySafety == Spec => EventsStay
  <1>1. IInv /\ [Next]_vars =>
          [losses' = losses =>
             /\ Len(lines) <= Len(lines')
             /\ SubSeq(lines', 1, Len(lines)) = lines]_vars
    <2> SUFFICES ASSUME IInv, Next, losses' = losses
                 PROVE  /\ Len(lines) <= Len(lines')
                        /\ SubSeq(lines', 1, Len(lines)) = lines
      OBVIOUS
    <2>1. lines \in Seq(0..MaxEvents) /\ Len(lines) \in Nat /\ losses \in Nat
      BY DEF IInv, TypeOK
    <2>2. ~PowerLoss
      BY <2>1 DEF PowerLoss
    <2>3. lines' = lines \/ \E x \in 0..MaxEvents : lines' = Append(lines, x)
      <3>1. CASE Write
        <4>1. (IF tail = "none" THEN last + 1 ELSE Garbage) \in 0..MaxEvents
          BY <3>1, LogParameters DEF Write, IInv, TypeOK, Room, Garbage
        <4> QED
          BY <3>1, <4>1 DEF Write
      <3>2. CASE ~Write
        BY <2>2, <3>2 DEF Next, Launch, Open, OpenForAppend, Count, Flush,
           ShortWrite, FlushFault, Kill, file
      <3> QED
        BY <3>1, <3>2
    <2>4. CASE lines' = lines
      BY <2>1, <2>4
    <2>5. ASSUME NEW x \in 0..MaxEvents, lines' = Append(lines, x)
          PROVE  /\ Len(lines) <= Len(lines')
                 /\ SubSeq(lines', 1, Len(lines)) = lines
      BY <2>1, <2>5
    <2> QED
      BY <2>3, <2>4, <2>5
  <1> QED
    BY LogInductive, <1>1, PTL DEF Spec, EventsStay
================================================================================

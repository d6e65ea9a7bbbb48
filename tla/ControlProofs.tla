--------------------------- MODULE ControlProofs ---------------------------
(***************************************************************************)
(* Proofs about the control plane of a daemon, for every value of the      *)
(* constants: the threads of the worker lifecycle, and the theorems about  *)
(* the whole.  Each component has an inductive invariant of its own; a     *)
(* step of one leaves the variables of the others alone.                   *)
(***************************************************************************)
EXTENDS ControlPartsProofs, FiniteSetTheorems

USE SMTT(20), ZenonT(20)

----------------------------------------------------------------------------
(* The threads of the worker lifecycle. *)

\* The threads of a loop are numbered in the order in which they are started.
Numbered(pcs) ==
  /\ Loops!Started(pcs) = 1..Loops!Last(pcs)
  /\ Loops!Last(pcs) \in Loops!Threads

\* Each heartbeat thread but the first raised the epoch.
HbInv ==
  /\ Numbered(Loops!HbPcs)
  /\ hbEpoch = Loops!Last(Loops!HbPcs) - 1
  /\ monitor = "hbSpawn" => Loops!NextThread(Loops!HbPcs) \in Loops!Threads

\* A state-sync thread in its loop and of the current epoch.
Current(i) == sync[i].pc \in {"new", "head", "call"} /\ sync[i].epoch = syncEpoch

\* The epoch goes up once per thread, and once more for a reconcile that was
\* cancelled; after a cancellation no thread is of the new epoch yet.
SyncInv ==
  /\ Numbered(Loops!SyncPcs)
  /\ syncEpoch <= 2 * (Loops!Last(Loops!SyncPcs) - 1) + (IF restartPending THEN 1 ELSE 0)
  /\ monitor = "syncSpawn" => Loops!NextThread(Loops!SyncPcs) \in Loops!Threads
  /\ \A i \in Loops!Threads :
        sync[i].pc # "absent" => /\ sync[i].epoch <= syncEpoch
                                 /\ restartPending => sync[i].epoch < syncEpoch
  /\ \A i, j \in Loops!Threads : Current(i) /\ Current(j) => i = j

LoopsInv == Loops!TypeOK /\ HbInv /\ SyncInv

\* A set whose elements are all the same has at most one.
LEMMA AtMostOne ==
  ASSUME NEW S, \A x, y \in S : x = y
  PROVE  Cardinality(S) <= 1
<1>1. CASE S = {}
  BY <1>1, FS_EmptySet
<1>2. CASE S # {}
  <2> PICK x \in S : TRUE
    BY <1>2
  <2>1. S = {x}
    OBVIOUS
  <2> QED BY <2>1, FS_Singleton
<1> QED BY <1>1, <1>2

\* The cardinality that the component takes from its own copy of FiniteSets.
LEMMA SameCardinality == \A S : Loops!Cardinality(S) = Cardinality(S)
BY Zenon DEF Loops!Cardinality, Cardinality

\* The invariant says what OneCurrentSync says.
LEMMA OneCurrent == LoopsInv => Loops!OneCurrentSync
<1> SUFFICES ASSUME LoopsInv PROVE Loops!OneCurrentSync
  OBVIOUS
<1> DEFINE S == {i \in Loops!Threads : sync[i].pc \in {"new", "head", "call"} /\ sync[i].epoch = syncEpoch}
<1>1. \A x, y \in S : x = y
  BY DEF LoopsInv, SyncInv, Current
<1>2. Cardinality(S) <= 1
  <2> HIDE DEF S
  <2> QED BY <1>1, AtMostOne
<1> QED BY <1>2, SameCardinality DEF Loops!OneCurrentSync

\* The first n threads are n threads.
LEMMA LastOfPrefix ==
  ASSUME NEW pcs, NEW n \in Nat, Loops!Started(pcs) = 1..n
  PROVE  Loops!Last(pcs) = n
<1>1. Cardinality(1..n) = n
  BY FS_Interval
<1> QED BY <1>1, SameCardinality DEF Loops!Last

\* One thread of each loop is started by start().
LEMMA LoopsInit == InitLoops => LoopsInv
<1> SUFFICES ASSUME InitLoops PROVE LoopsInv
  OBVIOUS
<1> USE LoopsAssumption
<1> USE DEF InitLoops, Loops!Init
<1>1. hb \in [Loops!Threads -> Loops!Loop] /\ sync \in [Loops!Threads -> Loops!Loop]
  BY DEF Loops!Loop, Loops!LoopPcs
<1>2. chunk \in [Loops!Threads -> Loops!LoopPcs]
  BY DEF Loops!LoopPcs
<1>3. /\ stop \in BOOLEAN /\ hbAlive \in BOOLEAN /\ syncAlive \in BOOLEAN
      /\ inflight \in BOOLEAN /\ restartPending \in BOOLEAN /\ chunkAlive \in BOOLEAN
  BY Zenon
<1>4. Loops!TypeOK
  BY <1>1, <1>2, <1>3 DEF Loops!TypeOK
<1>5. Loops!Started(Loops!HbPcs) = 1..1 /\ Loops!Started(Loops!SyncPcs) = 1..1
  BY DEF Loops!Started, Loops!HbPcs, Loops!SyncPcs, Loops!Threads
<1>6. Loops!Last(Loops!HbPcs) = 1 /\ Loops!Last(Loops!SyncPcs) = 1
  BY <1>5, LastOfPrefix, ZenonT(40)
<1>7. HbInv
  BY <1>5, <1>6 DEF HbInv, Numbered, Loops!Threads
<1>8. SyncInv
  BY <1>5, <1>6 DEF SyncInv, Numbered, Loops!Threads, Current
<1> QED BY <1>4, <1>7, <1>8, ZenonT(40) DEF LoopsInv

\* A step of a thread that is started starts no other.
LEMMA SameStarted ==
  ASSUME NEW f, NEW g, \A i \in Loops!Threads : (f[i] = "absent") <=> (g[i] = "absent")
  PROVE  /\ Loops!Started(f) = Loops!Started(g) /\ Loops!Last(f) = Loops!Last(g)
         /\ Loops!NextThread(f) = Loops!NextThread(g)
         /\ Numbered(f) <=> Numbered(g)
<1>1. Loops!Started(f) = Loops!Started(g)
  BY DEF Loops!Started
<1> QED BY <1>1 DEF Loops!Last, Loops!NextThread, Numbered

\* The next thread is the one after the last.
LEMMA NextStarted ==
  ASSUME NEW f, NEW g, Numbered(f), Loops!NextThread(f) \in Loops!Threads,
         \A i \in Loops!Threads : g[i] # "absent" <=> f[i] # "absent" \/ i = Loops!NextThread(f)
  PROVE  /\ f[Loops!NextThread(f)] = "absent"
         /\ Numbered(g) /\ Loops!Last(g) = Loops!Last(f) + 1
<1>1. Loops!NextThread(f) = Loops!Last(f) + 1
  BY DEF Loops!NextThread, Loops!Last
<1>2. Loops!Started(g) = 1..(Loops!Last(f) + 1)
  BY <1>1, LoopsAssumption DEF Numbered, Loops!Started, Loops!Threads
<1>3. Loops!Last(g) = Loops!Last(f) + 1
  BY <1>2, LastOfPrefix DEF Numbered, Loops!Threads
<1>4. f[Loops!NextThread(f)] = "absent"
  BY <1>1, LoopsAssumption DEF Numbered, Loops!Started, Loops!Threads
<1> QED BY <1>1, <1>2, <1>3, <1>4, ZenonT(40) DEF Numbered

\* A step that moves no heartbeat thread.
LEMMA HbStays ==
  ASSUME HbInv, UNCHANGED <<hb, hbEpoch>>,
         monitor' = "hbSpawn" => \/ monitor = "hbSpawn"
                                 \/ Loops!NextThread(Loops!HbPcs) \in Loops!Threads
  PROVE  HbInv'
<1>1. Loops!HbPcs' = Loops!HbPcs
  BY DEF Loops!HbPcs
<1> QED BY <1>1 DEF HbInv, Numbered, Loops!Last, Loops!NextThread, Loops!Started

\* A step that moves no state-sync thread.
LEMMA SyncStays ==
  ASSUME SyncInv, UNCHANGED <<sync, syncEpoch, restartPending>>,
         monitor' = "syncSpawn" => \/ monitor = "syncSpawn"
                                   \/ Loops!NextThread(Loops!SyncPcs) \in Loops!Threads
  PROVE  SyncInv'
<1>1. Loops!SyncPcs' = Loops!SyncPcs
  BY DEF Loops!SyncPcs
<1> QED BY <1>1 DEF SyncInv, Current, Numbered, Loops!Last, Loops!NextThread, Loops!Started

\* A heartbeat thread that is started goes on.
LEMMA HbMoves ==
  ASSUME LoopsInv, NEW i \in Loops!Threads, hb[i].pc # "absent",
         NEW p \in Loops!LoopPcs \ {"absent"}, NEW e \in 0..2 * MaxThreads,
         hb' = [hb EXCEPT ![i] = [pc |-> p, epoch |-> e]],
         UNCHANGED <<hbEpoch, monitor>>
  PROVE  hb' \in [Loops!Threads -> Loops!Loop] /\ HbInv'
<1>1. hb' \in [Loops!Threads -> Loops!Loop]
  BY DEF LoopsInv, Loops!TypeOK, Loops!Loop
<1>2. \A j \in Loops!Threads : (Loops!HbPcs')[j] = "absent" <=> Loops!HbPcs[j] = "absent"
  BY DEF LoopsInv, Loops!TypeOK, Loops!HbPcs, Loops!Loop
<1>3. /\ Loops!Last(Loops!HbPcs') = Loops!Last(Loops!HbPcs)
      /\ Loops!NextThread(Loops!HbPcs') = Loops!NextThread(Loops!HbPcs)
      /\ Numbered(Loops!HbPcs') <=> Numbered(Loops!HbPcs)
  BY <1>2, SameStarted, Zenon
<1>4. HbInv'
  BY <1>3 DEF LoopsInv, HbInv
<1> QED BY <1>1, <1>4, ZenonT(40)

\* A state-sync thread that is started goes on, under the epoch it was given.
LEMMA SyncMoves ==
  ASSUME LoopsInv, NEW i \in Loops!Threads, sync[i].pc # "absent",
         NEW p \in Loops!LoopPcs \ {"absent"},
         p \in {"new", "head", "call"} => sync[i].pc \in {"new", "head", "call"},
         sync' = [sync EXCEPT ![i].pc = p],
         UNCHANGED <<syncEpoch, restartPending, monitor>>
  PROVE  sync' \in [Loops!Threads -> Loops!Loop] /\ SyncInv'
<1>1. sync' \in [Loops!Threads -> Loops!Loop]
  BY DEF LoopsInv, Loops!TypeOK, Loops!Loop
<1>2. \A j \in Loops!Threads : (Loops!SyncPcs')[j] = "absent" <=> Loops!SyncPcs[j] = "absent"
  BY DEF LoopsInv, Loops!TypeOK, Loops!SyncPcs, Loops!Loop
<1>3. /\ Loops!Last(Loops!SyncPcs') = Loops!Last(Loops!SyncPcs)
      /\ Loops!NextThread(Loops!SyncPcs') = Loops!NextThread(Loops!SyncPcs)
      /\ Numbered(Loops!SyncPcs') <=> Numbered(Loops!SyncPcs)
  BY <1>2, SameStarted, Zenon
<1>4. \A j \in Loops!Threads : /\ sync'[j].epoch = sync[j].epoch
                               /\ sync'[j].pc # "absent" => sync[j].pc # "absent"
                               /\ Current(j)' => Current(j)
  BY DEF LoopsInv, Loops!TypeOK, Loops!Loop, Current
<1>5. SyncInv'
  BY <1>3, <1>4 DEF LoopsInv, SyncInv
<1> QED BY <1>1, <1>5, ZenonT(40)

\* The steps of the heartbeat loop keep the invariant.
LEMMA LoopsHb ==
  ASSUME LoopsInv, NEW i \in Loops!Threads, Loops!HbStep(i) \/ Loops!HbCrash(i)
  PROVE  LoopsInv'
<1> USE LoopsAssumption
<1> USE DEF Loops!reqVars, Loops!syncVars, Loops!chunkVars
<1>1. LoopsInv /\ Loops!TypeOK /\ HbInv /\ SyncInv
  BY DEF LoopsInv
<1>2. hb[i] \in Loops!Loop /\ hb[i].pc \in Loops!LoopPcs /\ hb[i].epoch \in 0..2 * MaxThreads
  BY <1>1 DEF Loops!TypeOK, Loops!Loop
<1>3. hbEpoch \in 0..2 * MaxThreads
  BY <1>1 DEF Loops!TypeOK
<1>4. \E p \in Loops!LoopPcs \ {"absent"}, e \in 0..2 * MaxThreads :
        hb' = [hb EXCEPT ![i] = [pc |-> p, epoch |-> e]]
  <2>1. CASE Loops!HbStart(i)
    BY <2>1, <1>3, Zenon DEF Loops!HbStart, Loops!LoopPcs
  <2>2. CASE \E p \in Loops!LoopPcs \ {"absent"} : hb' = [hb EXCEPT ![i].pc = p]
    <3> PICK p \in Loops!LoopPcs \ {"absent"} : hb' = [hb EXCEPT ![i].pc = p]
      BY <2>2, Zenon
    <3>1. [hb[i] EXCEPT !.pc = p] = [pc |-> p, epoch |-> hb[i].epoch]
      BY <1>2 DEF Loops!Loop
    <3>2. hb' = [hb EXCEPT ![i] = [hb[i] EXCEPT !.pc = p]]
      OBVIOUS
    <3>3. hb' = [hb EXCEPT ![i] = [pc |-> p, epoch |-> hb[i].epoch]]
      BY <3>1, <3>2, Zenon
    <3> QED BY <3>3, <1>2, Zenon
  <2>3. CASE Loops!HbHead(i)
    BY <2>3, <2>2, Zenon DEF Loops!HbHead, Loops!LoopPcs
  <2>4. CASE Loops!HbAnswer(i)
    BY <2>4, <2>2 DEF Loops!HbAnswer, Loops!LoopPcs
  <2>5. CASE Loops!HbLeave(i)
    BY <2>5, <2>2, Zenon DEF Loops!HbLeave, Loops!LoopPcs
  <2>6. CASE Loops!HbClear(i)
    BY <2>6, <2>2, Zenon DEF Loops!HbClear, Loops!LoopPcs
  <2>7. CASE Loops!HbCrash(i)
    BY <2>7, <2>2, Zenon DEF Loops!HbCrash, Loops!LoopPcs
  <2> QED BY <2>1, <2>3, <2>4, <2>5, <2>6, <2>7, ZenonT(40) DEF Loops!HbStep
<1>5. /\ hb[i].pc # "absent"
      /\ UNCHANGED <<stop, stopper, hbEpoch, Loops!syncVars, Loops!chunkVars, monitor>>
      /\ hbAlive' \in {TRUE, FALSE, hbAlive}
      /\ UNCHANGED Loops!reqVars \/ Loops!RequestStateSync
  BY Zenon DEF Loops!HbStep, Loops!HbStart, Loops!HbHead, Loops!HbAnswer, Loops!HbLeave, Loops!HbClear,
         Loops!HbCrash
<1>6. hb' \in [Loops!Threads -> Loops!Loop] /\ HbInv'
  BY <1>1, <1>4, <1>5, HbMoves, ZenonT(40)
<1>7. hbAlive' \in BOOLEAN
  BY <1>1, <1>5, Zenon DEF Loops!TypeOK
<1>8. requests' \in 0..MaxRequests /\ generation' \in 0..MaxRequests
  BY <1>1, <1>5 DEF Loops!TypeOK, Loops!RequestStateSync
<1>9. Loops!TypeOK'
  BY <1>1, <1>5, <1>6, <1>7, <1>8, ZenonT(40) DEF Loops!TypeOK
<1>10. SyncInv'
  BY <1>1, <1>5, SyncStays, ZenonT(40)
<1> QED BY <1>6, <1>9, <1>10, ZenonT(40) DEF LoopsInv

\* The steps of the state-sync loop keep the invariant.
LEMMA LoopsSync ==
  ASSUME LoopsInv, NEW i \in Loops!Threads, Loops!SyncStep(i) \/ Loops!SyncCrash(i)
  PROVE  LoopsInv'
<1> USE LoopsAssumption
<1> USE DEF Loops!reqVars, Loops!hbVars, Loops!chunkVars
<1>1. LoopsInv /\ Loops!TypeOK /\ HbInv /\ SyncInv
  BY DEF LoopsInv
<1>2. sync[i].pc \in Loops!LoopPcs
  BY <1>1, ZenonT(40) DEF Loops!TypeOK, Loops!Loop
<1>3. \E p \in Loops!LoopPcs \ {"absent"} :
        /\ sync' = [sync EXCEPT ![i].pc = p]
        /\ p \in {"new", "head", "call"} => sync[i].pc \in {"new", "head", "call"}
  BY DEF Loops!SyncStep, Loops!SyncStart, Loops!SyncHead, Loops!SyncAnswer, Loops!SyncLeave,
         Loops!SyncClear, Loops!SyncCrash, Loops!LoopPcs
<1>4. /\ sync[i].pc # "absent"
      /\ UNCHANGED <<stop, stopper, Loops!hbVars, syncEpoch, restartPending, Loops!chunkVars, monitor>>
      /\ syncAlive' \in {TRUE, FALSE, syncAlive}
      /\ inflight' \in {TRUE, FALSE, inflight}
  BY Zenon DEF Loops!SyncStep, Loops!SyncStart, Loops!SyncHead, Loops!SyncAnswer, Loops!SyncLeave,
         Loops!SyncClear, Loops!SyncCrash
<1>5. /\ requests' \in {0, generation, requests} /\ generation' = generation
      /\ completed' \in {completed, generation}
  BY DEF Loops!SyncStep, Loops!SyncStart, Loops!SyncHead, Loops!SyncAnswer, Loops!SyncLeave,
         Loops!SyncClear, Loops!SyncCrash
<1>6. sync' \in [Loops!Threads -> Loops!Loop] /\ SyncInv'
  BY <1>1, <1>3, <1>4, SyncMoves, ZenonT(40)
<1>7. syncAlive' \in BOOLEAN /\ inflight' \in BOOLEAN
  BY <1>1, <1>4, Zenon DEF Loops!TypeOK
<1>8. /\ requests' \in 0..MaxRequests /\ generation' \in 0..MaxRequests
      /\ completed' \in 0..MaxRequests
  BY <1>1, <1>5 DEF Loops!TypeOK
<1>9. Loops!TypeOK'
  BY <1>1, <1>4, <1>6, <1>7, <1>8, ZenonT(40) DEF Loops!TypeOK
<1>10. HbInv'
  BY <1>1, <1>4, HbStays, Zenon
<1> QED BY <1>6, <1>9, <1>10, ZenonT(40) DEF LoopsInv

\* The chunk-sync loop, stop(), a request for a sync and the monitor's sleep
\* move neither a heartbeat nor a state-sync thread.
LEMMA LoopsOthers ==
  ASSUME LoopsInv,
         \/ \E i \in Loops!Threads : Loops!ChunkStep(i)
         \/ Loops!Stop \/ Loops!StopJoins \/ Loops!AskForSync
         \/ \E s \in BOOLEAN : Loops!MonitorChunk(s)
         \/ Loops!MonitorChunkSpawn \/ Loops!MonitorSleep
  PROVE  LoopsInv'
<1> USE LoopsAssumption
<1> USE DEF Loops!reqVars, Loops!hbVars, Loops!syncVars, Loops!chunkVars
<1>1. LoopsInv /\ Loops!TypeOK /\ HbInv /\ SyncInv
  BY DEF LoopsInv
<1>2. /\ UNCHANGED <<Loops!hbVars, Loops!syncVars>>
      /\ monitor' \in {monitor, "chunkSpawn", "sleep", "hb", "done"}
  BY ZenonT(40) DEF Loops!ChunkStep, Loops!Stop, Loops!StopJoins, Loops!AskForSync, Loops!MonitorChunk,
         Loops!MonitorChunkSpawn, Loops!MonitorSleep
<1>3. HbInv' /\ SyncInv'
  BY <1>1, <1>2, HbStays, SyncStays, ZenonT(40)
<1>4. Loops!TypeOK'
  <2> USE DEF Loops!TypeOK
  <2>1. CASE \E i \in Loops!Threads : Loops!ChunkStep(i)
    <3>1. chunkAlive' \in BOOLEAN
      BY <2>1, Zenon DEF Loops!ChunkStep
    <3>2. chunk' \in [Loops!Threads -> Loops!LoopPcs]
      BY <1>1, <2>1, Zenon DEF Loops!ChunkStep, Loops!LoopPcs
    <3> QED BY <1>1, <2>1, <3>1, <3>2, ZenonT(40) DEF Loops!ChunkStep
  <2>2. CASE Loops!Stop
    BY <1>1, <2>2, ZenonT(40) DEF Loops!Stop
  <2>3. CASE Loops!StopJoins
    BY <1>1, <2>3, ZenonT(40) DEF Loops!StopJoins
  <2>4. CASE Loops!AskForSync
    BY <1>1, <2>4 DEF Loops!AskForSync, Loops!RequestStateSync
  <2>5. CASE \E s \in BOOLEAN : Loops!MonitorChunk(s)
    <3>1. chunkAlive' \in BOOLEAN
      BY <1>1, <2>5, Zenon DEF Loops!MonitorChunk
    <3> QED BY <1>1, <2>5, <3>1, ZenonT(40) DEF Loops!MonitorChunk
  <2>6. CASE Loops!MonitorChunkSpawn
    BY <1>1, <2>6, ZenonT(40) DEF Loops!MonitorChunkSpawn, Loops!LoopPcs
  <2>7. CASE Loops!MonitorSleep
    BY <1>1, <2>7, ZenonT(40) DEF Loops!MonitorSleep
  <2> QED BY <2>1, <2>2, <2>3, <2>4, <2>5, <2>6, <2>7, ZenonT(40)
<1> QED BY <1>3, <1>4, ZenonT(40) DEF LoopsInv

\* The monitor's look at the heartbeat loop, and the thread it starts.
LEMMA LoopsMonitorHb ==
  ASSUME LoopsInv, (\E s \in BOOLEAN : Loops!MonitorHb(s)) \/ Loops!MonitorHbSpawn
  PROVE  LoopsInv'
<1> USE LoopsAssumption
<1> USE DEF Loops!reqVars, Loops!syncVars, Loops!chunkVars
<1>1. LoopsInv /\ Loops!TypeOK /\ HbInv /\ SyncInv
  BY DEF LoopsInv
<1>2. CASE \E s \in BOOLEAN : Loops!MonitorHb(s)
  <2>1. HbInv'
    BY <1>1, <1>2, HbStays, Zenon DEF Loops!MonitorHb, Loops!MayRespawn
  <2>2. SyncInv'
    BY <1>1, <1>2, SyncStays, ZenonT(40) DEF Loops!MonitorHb
  <2>3. hbAlive' \in BOOLEAN
    BY <1>1, <1>2, Zenon DEF Loops!MonitorHb, Loops!TypeOK
  <2>4. Loops!TypeOK'
    BY <1>1, <1>2, <2>3, ZenonT(40) DEF Loops!MonitorHb, Loops!TypeOK
  <2> QED BY <2>1, <2>2, <2>4, ZenonT(40) DEF LoopsInv
<1>3. CASE Loops!MonitorHbSpawn
  <2> DEFINE n == Loops!NextThread(Loops!HbPcs)
  <2>1. n \in Loops!Threads
    BY <1>1, <1>3, ZenonT(40) DEF HbInv, Loops!MonitorHbSpawn
  <2>2. hb' = [hb EXCEPT ![n].pc = "new"]
    BY <1>3 DEF Loops!MonitorHbSpawn
  <2> HIDE DEF n
  <2>3. hb' \in [Loops!Threads -> Loops!Loop]
    BY <1>1, <2>1, <2>2, ZenonT(40) DEF Loops!TypeOK, Loops!Loop, Loops!LoopPcs
  <2>4. \A j \in Loops!Threads :
          (Loops!HbPcs')[j] # "absent" <=> Loops!HbPcs[j] # "absent" \/ j = n
    BY <1>1, <2>1, <2>2, ZenonT(40) DEF Loops!TypeOK, Loops!Loop, Loops!HbPcs
  <2>5. Numbered(Loops!HbPcs') /\ Loops!Last(Loops!HbPcs') = Loops!Last(Loops!HbPcs) + 1
    BY <1>1, <2>1, <2>4, NextStarted, ZenonT(40) DEF HbInv, n
  <2>6. HbInv'
    BY <1>1, <1>3, <2>5 DEF HbInv, Loops!MonitorHbSpawn, Numbered, Loops!Threads
  <2>7. hbEpoch' \in 0..MaxThreads
    BY <2>6, <2>5 DEF HbInv, Numbered, Loops!Threads
  <2>8. Loops!TypeOK'
    BY <1>1, <1>3, <2>3, <2>7, ZenonT(40) DEF Loops!MonitorHbSpawn, Loops!TypeOK
  <2>9. SyncInv'
    BY <1>1, <1>3, SyncStays, ZenonT(40) DEF Loops!MonitorHbSpawn
  <2> QED BY <2>6, <2>8, <2>9, ZenonT(40) DEF LoopsInv
<1> QED BY <1>2, <1>3, ZenonT(40)

\* The monitor's look at the state-sync loop: a cancellation leaves no thread
\* of the current epoch.
LEMMA LoopsMonitorSync ==
  ASSUME LoopsInv, NEW s \in BOOLEAN, Loops!MonitorSync(s)
  PROVE  LoopsInv'
<1> USE LoopsAssumption
<1> USE DEF Loops!reqVars, Loops!hbVars, Loops!chunkVars, Loops!MonitorSync
<1>1. LoopsInv /\ Loops!TypeOK /\ HbInv /\ SyncInv
  BY DEF LoopsInv
<1>2. HbInv'
  BY <1>1, HbStays, ZenonT(40)
<1>3. CASE ~s
  <2>1. UNCHANGED <<sync, syncEpoch>> /\ restartPending' = restartPending
    BY <1>1, <1>3, Zenon DEF Loops!TypeOK
  <2>2. SyncInv'
    BY <1>1, <2>1, SyncStays, ZenonT(40) DEF Loops!MayRespawn
  <2>3. Loops!TypeOK'
    BY <1>1, <2>1, ZenonT(40) DEF Loops!TypeOK
  <2> QED BY <1>2, <2>2, <2>3, ZenonT(40) DEF LoopsInv
<1>4. CASE s
  <2>1. restartPending = FALSE /\ restartPending' = TRUE /\ syncEpoch' = syncEpoch + 1
    BY <1>1, <1>4, ZenonT(40) DEF Loops!TypeOK
  <2>2. Loops!SyncPcs' = Loops!SyncPcs
    BY Zenon DEF Loops!SyncPcs
  <2>3. /\ Numbered(Loops!SyncPcs')
        /\ syncEpoch' <= 2 * (Loops!Last(Loops!SyncPcs') - 1) + 1
    BY <1>1, <2>1, <2>2 DEF SyncInv, Numbered, Loops!Threads, Loops!TypeOK
  <2>4. monitor' = "syncSpawn" => Loops!NextThread(Loops!SyncPcs') \in Loops!Threads
    BY <2>2, Zenon DEF Loops!MayRespawn
  <2>5. \A i \in Loops!Threads : sync'[i].pc # "absent" => sync'[i].epoch < syncEpoch'
    BY <1>1, <2>1 DEF SyncInv, Loops!TypeOK, Loops!Loop
  <2>6. \A i \in Loops!Threads : ~Current(i)'
    <3> SUFFICES ASSUME NEW i \in Loops!Threads, Current(i)' PROVE FALSE
      OBVIOUS
    <3>1. sync'[i].pc # "absent" /\ sync'[i].epoch = syncEpoch'
      BY DEF Current
    <3> QED BY <3>1, <2>5, <2>1, <1>1 DEF Loops!TypeOK
  <2>7. \A i \in Loops!Threads : sync'[i].pc # "absent" => sync'[i].epoch <= syncEpoch'
    BY <1>1, <2>1 DEF SyncInv, Loops!TypeOK, Loops!Loop
  <2>8. SyncInv'
    BY <2>1, <2>3, <2>4, <2>5, <2>6, <2>7, ZenonT(40) DEF SyncInv
  <2>9. syncEpoch' \in 0..2 * MaxThreads
    BY <1>1, <2>1, <2>3 DEF Loops!TypeOK, Numbered, Loops!Threads
  <2>10. Loops!TypeOK'
    BY <1>1, <2>1, <2>9, Zenon DEF Loops!TypeOK
  <2> QED BY <1>2, <2>8, <2>10 DEF LoopsInv
<1> QED BY <1>3, <1>4, ZenonT(40)

\* The state-sync thread the monitor starts is the only one of its epoch.
LEMMA LoopsSpawnSync ==
  ASSUME LoopsInv, Loops!MonitorSyncSpawn
  PROVE  LoopsInv'
<1> USE LoopsAssumption
<1> USE DEF Loops!reqVars, Loops!hbVars, Loops!chunkVars
<1>1. LoopsInv /\ Loops!TypeOK /\ HbInv /\ SyncInv
  BY DEF LoopsInv
<1>2. HbInv'
  BY <1>1, HbStays, ZenonT(40) DEF Loops!MonitorSyncSpawn
<1> DEFINE n == Loops!NextThread(Loops!SyncPcs)
<1>3. n \in Loops!Threads
  BY <1>1, ZenonT(40) DEF SyncInv, Loops!MonitorSyncSpawn
<1>4. sync' = [sync EXCEPT ![n] = [pc |-> "new", epoch |-> syncEpoch']]
  BY DEF Loops!MonitorSyncSpawn
<1> HIDE DEF n
<1>5. /\ syncEpoch' \in Nat /\ restartPending' = FALSE
      /\ syncEpoch' <= 2 * (Loops!Last(Loops!SyncPcs) - 1) + 1
      /\ \A i \in Loops!Threads : sync[i].pc # "absent" => sync[i].epoch < syncEpoch'
  <2>1. \A i \in Loops!Threads : sync[i].epoch \in Nat
    BY <1>1 DEF Loops!TypeOK, Loops!Loop
  <2>2. /\ Loops!Last(Loops!SyncPcs) \in Nat /\ syncEpoch \in Nat /\ restartPending \in BOOLEAN
        /\ restartPending' = FALSE
    BY <1>1 DEF Loops!TypeOK, SyncInv, Numbered, Loops!Threads, Loops!MonitorSyncSpawn
  <2>3. CASE restartPending
    <3>1. syncEpoch' = syncEpoch
      BY <2>3, Zenon DEF Loops!MonitorSyncSpawn
    <3> QED BY <1>1, <2>1, <2>2, <2>3, <3>1, Zenon DEF SyncInv
  <2>4. CASE ~restartPending
    <3>1. syncEpoch' = syncEpoch + 1
      BY <2>4, ZenonT(40) DEF Loops!MonitorSyncSpawn
    <3>2. syncEpoch <= 2 * (Loops!Last(Loops!SyncPcs) - 1) + 0
      BY <1>1, <2>4, ZenonT(40) DEF SyncInv
    <3>3. \A i \in Loops!Threads : sync[i].pc # "absent" => sync[i].epoch <= syncEpoch
      BY <1>1, Zenon DEF SyncInv
    <3> QED BY ONLY <2>1, <2>2, <3>1, <3>2, <3>3
  <2> QED BY <2>3, <2>4, ZenonT(40)
<1>6. \A j \in Loops!Threads :
        (Loops!SyncPcs')[j] # "absent" <=> Loops!SyncPcs[j] # "absent" \/ j = n
  BY <1>1, <1>3, <1>4, ZenonT(40) DEF Loops!TypeOK, Loops!Loop, Loops!SyncPcs
<1>7. Numbered(Loops!SyncPcs') /\ Loops!Last(Loops!SyncPcs') = Loops!Last(Loops!SyncPcs) + 1
  BY <1>1, <1>3, <1>6, NextStarted, ZenonT(40) DEF SyncInv, n
<1>8. syncEpoch' \in 0..2 * MaxThreads
  <2>1. Loops!Last(Loops!SyncPcs') \in 0..MaxThreads
    BY <1>7 DEF Numbered, Loops!Threads
  <2>2. Loops!Last(Loops!SyncPcs) \in Nat /\ MaxThreads \in Nat
    BY <1>1 DEF Numbered, Loops!Threads, SyncInv
  <2> QED BY ONLY <1>5, <1>7, <2>1, <2>2
<1>9. Loops!TypeOK'
  <2>1. sync' \in [Loops!Threads -> Loops!Loop]
    BY <1>1, <1>3, <1>4, <1>8, ZenonT(40) DEF Loops!TypeOK, Loops!Loop, Loops!LoopPcs
  <2> QED BY <1>1, <1>5, <1>8, <2>1, ZenonT(40) DEF Loops!TypeOK, Loops!MonitorSyncSpawn
<1>10. \A i \in Loops!Threads \ {n} : sync'[i] = sync[i] /\ ~Current(i)'
  <2> SUFFICES ASSUME NEW i \in Loops!Threads \ {n} PROVE sync'[i] = sync[i] /\ ~Current(i)'
    OBVIOUS
  <2>1. sync'[i] = sync[i]
    BY <1>1, <1>4, ZenonT(40) DEF Loops!TypeOK
  <2>2. sync[i].epoch \in Nat
    BY <1>1 DEF Loops!TypeOK, Loops!Loop
  <2>3. sync[i].pc # "absent" => sync[i].epoch # syncEpoch'
    BY <1>5, <2>2
  <2> QED BY <2>1, <2>3, Zenon DEF Current
<1>11. sync'[n] = [pc |-> "new", epoch |-> syncEpoch']
  BY <1>1, <1>3, <1>4, Zenon DEF Loops!TypeOK
<1>12. \A i \in Loops!Threads : sync'[i].pc # "absent" => sync'[i].epoch <= syncEpoch'
  <2> SUFFICES ASSUME NEW i \in Loops!Threads, sync'[i].pc # "absent"
               PROVE  sync'[i].epoch <= syncEpoch'
    OBVIOUS
  <2>1. CASE i = n
    <3>1. sync'[i].epoch = syncEpoch'
      BY ONLY <1>11, <2>1
    <3> QED BY ONLY <3>1, <1>5
  <2>2. CASE i # n
    <3>1. sync'[i] = sync[i] /\ sync[i].epoch < syncEpoch'
      BY <1>5, <1>10, <2>2, ZenonT(40)
    <3>2. sync[i].epoch \in Nat
      BY <1>1 DEF Loops!TypeOK, Loops!Loop
    <3> QED BY <3>1, <3>2, <1>5
  <2> QED BY <2>1, <2>2, Zenon
<1>13. SyncInv'
  <2>1. syncEpoch' <= 2 * (Loops!Last(Loops!SyncPcs') - 1) + 0
    BY <1>1, <1>5, <1>7 DEF SyncInv, Numbered, Loops!Threads
  <2>2. monitor' # "syncSpawn"
    BY Zenon DEF Loops!MonitorSyncSpawn
  <2>3. \A i, j \in Loops!Threads : Current(i)' /\ Current(j)' => i = j
    BY <1>10, Zenon
  <2> QED BY <1>5, <1>7, <1>12, <2>1, <2>2, <2>3, ZenonT(40) DEF SyncInv
<1> QED BY <1>2, <1>9, <1>13, Zenon DEF LoopsInv

\* Every step of the threads keeps the invariant.
LEMMA LoopsKept == LoopsInv /\ LoopsStep => LoopsInv'
BY LoopsHb, LoopsSync, LoopsOthers, LoopsMonitorHb, LoopsMonitorSync, LoopsSpawnSync, Zenon
   DEF LoopsStep, Loops!Next, Loops!Monitor

----------------------------------------------------------------------------
(* The control plane. *)

\* The invariant of the component that a behaviour is of.
ControlInv ==
  /\ part = "reconcile" => WorkerInv
  /\ part = "sched" => SchedInv
  /\ part = "loops" => LoopsInv
  /\ part = "retire" => RetiringInv

\* It holds at the start.
LEMMA ControlInit == Init => ControlInv
<1>1. InitWorker => part = "reconcile" /\ WorkerInv
  BY WorkerInit DEF InitWorker
<1>2. InitSched => part = "sched" /\ SchedInv
  BY SchedInit DEF InitSched
<1>3. InitLoops => part = "loops" /\ LoopsInv
  BY LoopsInit DEF InitLoops
<1>4. InitRetiring => part = "retire" /\ RetiringInv
  BY RetiringInit DEF InitRetiring
<1> QED BY <1>1, <1>2, <1>3, <1>4, Zenon DEF Init, ControlInv

\* Every step keeps it.
LEMMA ControlStep == ControlInv /\ Next => ControlInv'
<1>1. ControlInv /\ WorkerStep => ControlInv'
  <2>1. WorkerStep => part = "reconcile" /\ part' = part
    BY DEF WorkerStep
  <2> QED BY <2>1, WorkerKept DEF ControlInv
<1>2. ControlInv /\ SchedStep => ControlInv'
  <2>1. SchedStep => part = "sched" /\ part' = part
    BY DEF SchedStep
  <2> QED BY <2>1, SchedKept, ZenonT(40) DEF ControlInv
<1>3. ControlInv /\ LoopsStep => ControlInv'
  <2>1. LoopsStep => part = "loops" /\ part' = part
    BY DEF LoopsStep
  <2> QED BY <2>1, LoopsKept DEF ControlInv
<1>4. ControlInv /\ RetiringStep => ControlInv'
  <2>1. RetiringStep => part = "retire" /\ part' = part
    BY DEF RetiringStep
  <2> QED BY <2>1, RetiringKept, ZenonT(40) DEF ControlInv
<1> QED BY <1>1, <1>2, <1>3, <1>4, ZenonT(40) DEF Next

\* So does a step that changes nothing.
LEMMA ControlStutter == ControlInv /\ UNCHANGED vars => ControlInv'
<1> SUFFICES ASSUME ControlInv, UNCHANGED vars PROVE ControlInv'
  OBVIOUS
<1>1. /\ UNCHANGED <<part, pending, sync, hb, stop>> /\ UNCHANGED WorkerReconcileVars
      /\ UNCHANGED BackgroundSchedulerVars /\ UNCHANGED HaLoopsVars /\ UNCHANGED ReplicaRetireVars
  BY DEF vars
<1>2. WorkerInv => WorkerInv'
  <2>1. UNCHANGED <<wrk, rows, cache, local, dmn, call, reply, late, missing, prefetch, regs,
                    budget, pending, sync, hb>>
    BY ONLY <1>1, ZenonT(40) DEF WorkerReconcileVars
  <2>2. Worker!TypeOK => Worker!TypeOK'
    BY ONLY <2>1, ZenonT(40) DEF Worker!TypeOK
  <2>3. TokenOrder => TokenOrder'
    BY ONLY <2>1 DEF TokenOrder
  <2>4. OvertakenBehind /\ CacheAgrees => OvertakenBehind' /\ CacheAgrees'
    BY ONLY <2>1, ZenonT(40) DEF OvertakenBehind, CacheAgrees
  <2> QED BY <2>2, <2>3, <2>4, ZenonT(40) DEF WorkerInv
<1>3. SchedInv => SchedInv'
  BY <1>1, ZenonT(40) DEF BackgroundSchedulerVars, SchedInv, Sched!TypeOK, Sched!StopNotMissed
<1>4. LoopsInv => LoopsInv'
  <2> SUFFICES ASSUME LoopsInv PROVE LoopsInv'
    BY Zenon
  <2>1. Loops!TypeOK'
    BY <1>1 DEF HaLoopsVars, LoopsInv, Loops!TypeOK
  <2>2. UNCHANGED <<hb, hbEpoch, sync, syncEpoch, restartPending, monitor>>
    BY <1>1, Zenon DEF HaLoopsVars
  <2> QED BY <2>1, <2>2, HbStays, SyncStays, Zenon DEF LoopsInv
<1>5. RetiringInv => RetiringInv'
  BY <1>1 DEF ReplicaRetireVars, RetiringInv, Retiring!TypeOK, Retiring!DemotionOwned
<1> QED BY <1>1, <1>2, <1>3, <1>4, <1>5, ZenonT(40) DEF ControlInv

\* The inductive invariant holds throughout.
THEOREM Invariance == Spec => []ControlInv
BY ControlInit, ControlStep, ControlStutter, PTL DEF Spec

\* Every variable of the four components keeps its type.
THEOREM TypesKept == Spec => []TypeOK
<1>1. ControlInv => TypeOK
  BY Zenon DEF ControlInv, TypeOK, WorkerInv, SchedInv, LoopsInv, RetiringInv
<1> QED BY <1>1, Invariance, PTL

\* However the monitor replaces threads, at most one state-sync thread carries
\* the current epoch, and a demotion task runs only for the queue entry that
\* waits for it.
THEOREM OneOwnerAlways == Spec => []OneOwner
<1>1. ControlInv => OneOwner
  BY OneCurrent, ZenonT(40) DEF ControlInv, OneOwner, RetiringInv
<1> QED BY <1>1, Invariance, PTL

\* The no-op cache vouches only for copies that are in the rows, for every
\* number of keys, losses, restarts, registrations and failed transactions.
THEOREM NoopCacheAlwaysSound == Spec => []NoopCacheSound
<1>1. ControlInv => NoopCacheSound
  BY WorkerCacheSound, ZenonT(40) DEF ControlInv, NoopCacheSound
<1> QED BY <1>1, Invariance, PTL

\* The notification of stop() is never missed by a sleeping scheduler loop.
THEOREM StopNeverMissed == Spec => []StopNotMissed
<1>1. ControlInv => StopNotMissed
  BY DEF ControlInv, StopNotMissed, SchedInv
<1> QED BY <1>1, Invariance, PTL

\* Snapshots are accepted in the order in which they were collected, except
\* under a torn token.
THEOREM SnapshotsAppliedInOrder == Spec => AppliedInOrder
<1>1. ControlInv => (part = "reconcile" => Worker!AppliedInOrderStep)
  BY WorkerOrdered DEF ControlInv
<1>2. ControlInv => [part = "reconcile" => Worker!AppliedInOrderStep]_vars
  BY <1>1
<1> QED BY <1>2, Invariance, PTL DEF AppliedInOrder

=============================================================================

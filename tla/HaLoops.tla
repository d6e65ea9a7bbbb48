------------------------------ MODULE HaLoops ------------------------------
(* The threads of WorkerLifecycleManager: the heartbeat loop, the state-sync *)
(* loop, the chunk-sync loop, the monitor that restarts them, and stop().    *)
(* Thread i of a loop is the i-th one started for it; the member std::thread *)
(* names the last one, the earlier ones were moved to retired_threads_.      *)
(* What a reconcile exchanges is in WorkerReconcile; here a sync is a call   *)
(* that takes time, answers or fails.                                        *)
EXTENDS Integers, FiniteSets

CONSTANTS MaxThreads,   \* threads one loop may have had
          MaxRespawns,  \* threads the monitor starts, over all loops
          MaxRequests,  \* state-sync requests
          ChunkSync,    \* chunk_sync_interval_ms > 0: there is a chunk-sync loop
          Crashes       \* may a loop body throw

VARIABLES stop,         \* stop_
          stopper,      \* stop(): "no", then the member it joins, "done"
          hb,           \* thread -> [pc, epoch] of the heartbeat loop
          hbEpoch, hbAlive,
          sync,         \* thread -> [pc, epoch] of the state-sync loop
          syncEpoch, syncAlive, inflight, restartPending,
          requests,     \* state_sync_requests_, the generation asked for
          generation,   \* state_sync_request_generation_
          completed,    \* state_sync_completed_generation_
          chunk,        \* thread -> pc of the chunk-sync loop
          chunkAlive,
          monitor       \* what the monitor does next

hbVars   == <<hb, hbEpoch, hbAlive>>
syncVars == <<sync, syncEpoch, syncAlive, inflight, restartPending, completed>>
chunkVars == <<chunk, chunkAlive>>
reqVars  == <<requests, generation>>
vars == <<stop, stopper, hbVars, syncVars, reqVars, chunkVars, monitor>>

Threads == 1..MaxThreads
LoopPcs == {"absent", "new", "head", "call", "leave", "clear", "done"}
Loop    == [pc : LoopPcs, epoch : 0..2 * MaxThreads]
Started(f) == {i \in Threads : f[i] # "absent"}
HbPcs   == [i \in Threads |-> hb[i].pc]
SyncPcs == [i \in Threads |-> sync[i].pc]
Over(pcs) == \A i \in Threads : pcs[i] \in {"absent", "done"}

TypeOK ==
  /\ stop \in BOOLEAN /\ stopper \in {"no", "hb", "sync", "chunk", "monitor", "retired", "done"}
  /\ hb \in [Threads -> Loop] /\ hbEpoch \in 0..MaxThreads /\ hbAlive \in BOOLEAN
  /\ sync \in [Threads -> Loop] /\ syncEpoch \in 0..2 * MaxThreads /\ syncAlive \in BOOLEAN
  /\ inflight \in BOOLEAN /\ restartPending \in BOOLEAN
  /\ requests \in 0..MaxRequests /\ generation \in 0..MaxRequests /\ completed \in 0..MaxRequests
  /\ chunk \in [Threads -> LoopPcs] /\ chunkAlive \in BOOLEAN
  /\ monitor \in {"hb", "hbSpawn", "sync", "syncSpawn", "chunk", "chunkSpawn", "sleep", "done"}

\* start(): one thread of each loop, the first reconcile requested.
Init ==
  /\ stop = FALSE /\ stopper = "no"
  /\ hb = [i \in Threads |-> [pc |-> IF i = 1 THEN "new" ELSE "absent", epoch |-> 0]]
  /\ hbEpoch = 0 /\ hbAlive = FALSE
  /\ sync = [i \in Threads |-> [pc |-> IF i = 1 THEN "new" ELSE "absent", epoch |-> 0]]
  /\ syncEpoch = 0 /\ syncAlive = FALSE /\ inflight = FALSE /\ restartPending = FALSE
  /\ requests = 1 /\ generation = 1 /\ completed = 0
  /\ chunk = [i \in Threads |-> IF i = 1 /\ ChunkSync THEN "new" ELSE "absent"] /\ chunkAlive = FALSE
  /\ monitor = "sleep"

\* request_state_sync: a later request subsumes one that waits.
RequestStateSync ==
  /\ generation < MaxRequests
  /\ generation' = generation + 1
  /\ requests' = generation + 1

---------------------------------------------------------------------------
\* heartbeat_loop: alive, then the epoch it belongs to.
HbStart(i) ==
  /\ hb[i].pc = "new"
  /\ hb' = [hb EXCEPT ![i] = [pc |-> "head", epoch |-> hbEpoch]]
  /\ hbAlive' = TRUE
  /\ UNCHANGED <<stop, stopper, hbEpoch, syncVars, reqVars, chunkVars, monitor>>

\* The loop's condition; the heartbeat is on the wire.
HbHead(i) ==
  /\ hb[i].pc = "head"
  /\ hb' = [hb EXCEPT ![i].pc = IF ~stop /\ hbEpoch = hb[i].epoch THEN "call" ELSE "leave"]
  /\ UNCHANGED <<stop, stopper, hbEpoch, hbAlive, syncVars, reqVars, chunkVars, monitor>>

\* The answer, a failure or the RPC's timeout; the answer may ask for a sync.
HbAnswer(i) ==
  /\ hb[i].pc = "call"
  /\ IF stop \/ hbEpoch # hb[i].epoch
     THEN /\ hb' = [hb EXCEPT ![i].pc = "leave"]
          /\ UNCHANGED reqVars
     ELSE /\ hb' = [hb EXCEPT ![i].pc = "head"]
          /\ RequestStateSync \/ UNCHANGED reqVars
  /\ UNCHANGED <<stop, stopper, hbEpoch, hbAlive, syncVars, chunkVars, monitor>>

HbCrash(i) ==
  /\ Crashes /\ hb[i].pc \in {"head", "call"}
  /\ hb' = [hb EXCEPT ![i].pc = "leave"]
  /\ UNCHANGED <<stop, stopper, hbEpoch, hbAlive, syncVars, reqVars, chunkVars, monitor>>

\* Past the loop: the epoch is read, then alive is cleared.
HbLeave(i) ==
  /\ hb[i].pc = "leave"
  /\ hb' = [hb EXCEPT ![i].pc = IF hbEpoch = hb[i].epoch THEN "clear" ELSE "done"]
  /\ UNCHANGED <<stop, stopper, hbEpoch, hbAlive, syncVars, reqVars, chunkVars, monitor>>

HbClear(i) ==
  /\ hb[i].pc = "clear"
  /\ hb' = [hb EXCEPT ![i].pc = "done"]
  /\ hbAlive' = FALSE
  /\ UNCHANGED <<stop, stopper, hbEpoch, syncVars, reqVars, chunkVars, monitor>>

---------------------------------------------------------------------------
\* state_sync_loop(epoch): the epoch is the argument the thread is given.
SyncStart(i) ==
  /\ sync[i].pc = "new"
  /\ sync' = [sync EXCEPT ![i].pc = "head"]
  /\ syncAlive' = TRUE
  /\ UNCHANGED <<stop, stopper, hbVars, syncEpoch, inflight, restartPending, completed,
                 reqVars, chunkVars, monitor>>

\* Woken by a request, an obsolete or retired replica, the maintenance time
\* or stop: leave, or take the request and reconcile.
SyncHead(i) ==
  /\ sync[i].pc = "head"
  /\ IF stop \/ syncEpoch # sync[i].epoch
     THEN /\ sync' = [sync EXCEPT ![i].pc = "leave"]
          /\ UNCHANGED <<inflight, requests>>
     ELSE /\ requests > 0
          /\ sync' = [sync EXCEPT ![i].pc = "call"]
          /\ inflight' = TRUE
          /\ requests' = 0
  /\ UNCHANGED <<stop, stopper, hbVars, syncEpoch, syncAlive, restartPending, completed,
                 generation, chunkVars, monitor>>

\* perform_state_sync returns: applied, or failed and asked for again, or
\* dropped because the thread is of an older epoch.
SyncAnswer(i) ==
  /\ sync[i].pc = "call"
  /\ inflight' = FALSE
  /\ sync' = [sync EXCEPT ![i].pc = "head"]
  /\ \/ /\ ~stop /\ syncEpoch = sync[i].epoch
        /\ completed' = generation
        /\ UNCHANGED reqVars
     \/ /\ ~stop /\ syncEpoch = sync[i].epoch
        /\ requests' = generation
        /\ UNCHANGED <<completed, generation>>
     \/ /\ stop \/ syncEpoch # sync[i].epoch
        /\ UNCHANGED <<completed, reqVars>>
  /\ UNCHANGED <<stop, stopper, hbVars, syncEpoch, syncAlive, restartPending, chunkVars, monitor>>

SyncCrash(i) ==
  /\ Crashes /\ sync[i].pc \in {"head", "call"}
  /\ sync' = [sync EXCEPT ![i].pc = "leave"]
  /\ inflight' = FALSE
  /\ UNCHANGED <<stop, stopper, hbVars, syncEpoch, syncAlive, restartPending, completed,
                 reqVars, chunkVars, monitor>>

SyncLeave(i) ==
  /\ sync[i].pc = "leave"
  /\ sync' = [sync EXCEPT ![i].pc = IF syncEpoch = sync[i].epoch THEN "clear" ELSE "done"]
  /\ UNCHANGED <<stop, stopper, hbVars, syncEpoch, syncAlive, inflight, restartPending, completed,
                 reqVars, chunkVars, monitor>>

SyncClear(i) ==
  /\ sync[i].pc = "clear"
  /\ sync' = [sync EXCEPT ![i].pc = "done"]
  /\ syncAlive' = FALSE
  /\ UNCHANGED <<stop, stopper, hbVars, syncEpoch, inflight, restartPending, completed,
                 reqVars, chunkVars, monitor>>

---------------------------------------------------------------------------
\* chunk_sync_loop: no epoch, only stop_ ends it; its passes are not told apart.
ChunkStep(i) ==
  /\ \/ chunk[i] = "new"  /\ chunk' = [chunk EXCEPT ![i] = "head"] /\ chunkAlive' = TRUE
     \/ chunk[i] = "head" /\ stop /\ chunk' = [chunk EXCEPT ![i] = "done"] /\ chunkAlive' = FALSE
  /\ UNCHANGED <<stop, stopper, hbVars, syncVars, reqVars, monitor>>

---------------------------------------------------------------------------
\* The next thread of a loop; its pc is absent until it is started.
NextThread(f) == Cardinality(Started(f)) + 1
Respawns == Cardinality(Started(HbPcs)) + Cardinality(Started(SyncPcs)) + Cardinality(Started(chunk))
              - IF ChunkSync THEN 3 ELSE 2
MayRespawn(f) == NextThread(f) \in Threads /\ Respawns < MaxRespawns

\* monitor_loop, heartbeat part: a heartbeat on the wire beyond its budget
\* counts as dead; a dead loop is to be replaced unless the daemon stops.
MonitorHb(stalled) ==
  /\ monitor = "hb"
  /\ stalled => \E i \in Threads : hb[i].pc = "call"
  /\ hbAlive' = (hbAlive /\ ~stalled)
  /\ monitor' = IF ~hbAlive' /\ ~stop /\ MayRespawn(HbPcs) THEN "hbSpawn" ELSE "sync"
  /\ UNCHANGED <<stop, stopper, hb, hbEpoch, syncVars, reqVars, chunkVars>>

MonitorHbSpawn ==
  /\ monitor = "hbSpawn"
  /\ hbEpoch' = hbEpoch + 1
  /\ hb' = [hb EXCEPT ![NextThread(HbPcs)].pc = "new"]
  /\ monitor' = "sync"
  /\ UNCHANGED <<stop, stopper, hbAlive, syncVars, reqVars, chunkVars>>

\* State-sync part: a reconcile beyond its budget is cancelled by a new epoch,
\* once; a loop that is not alive is to be replaced.
MonitorSync(stalled) ==
  /\ monitor = "sync"
  /\ stalled => inflight /\ ~restartPending
  /\ syncEpoch' = IF stalled THEN syncEpoch + 1 ELSE syncEpoch
  /\ restartPending' = (restartPending \/ stalled)
  /\ monitor' = IF ~syncAlive /\ ~stop /\ MayRespawn(SyncPcs) THEN "syncSpawn" ELSE "chunk"
  /\ UNCHANGED <<stop, stopper, hbVars, sync, syncAlive, inflight, completed, reqVars, chunkVars>>

\* MonitorSyncSpawn under the epoch of the loop it replaces.
MonitorSyncSpawnSameEpoch ==
  /\ monitor = "syncSpawn"
  /\ restartPending' = FALSE
  /\ sync' = [sync EXCEPT ![NextThread(SyncPcs)] = [pc |-> "new", epoch |-> syncEpoch]]
  /\ monitor' = "chunk"
  /\ UNCHANGED <<stop, stopper, hbVars, syncEpoch, syncAlive, inflight, completed, reqVars, chunkVars>>

MonitorSyncSpawn ==
  /\ monitor = "syncSpawn"
  /\ syncEpoch' = IF restartPending THEN syncEpoch ELSE syncEpoch + 1
  /\ restartPending' = FALSE
  /\ sync' = [sync EXCEPT ![NextThread(SyncPcs)] = [pc |-> "new", epoch |-> syncEpoch']]
  /\ monitor' = "chunk"
  /\ UNCHANGED <<stop, stopper, hbVars, syncAlive, inflight, completed, reqVars, chunkVars>>

\* Chunk-sync part: a pass longer than three intervals counts as dead.
MonitorChunk(stalled) ==
  /\ monitor = "chunk"
  /\ stalled => \E i \in Threads : chunk[i] = "head"
  /\ chunkAlive' = (chunkAlive /\ ~stalled)
  /\ monitor' = IF ChunkSync /\ ~chunkAlive' /\ ~stop /\ MayRespawn(chunk) THEN "chunkSpawn" ELSE "sleep"
  /\ UNCHANGED <<stop, stopper, hbVars, syncVars, reqVars, chunk>>

MonitorChunkSpawn ==
  /\ monitor = "chunkSpawn"
  /\ chunk' = [chunk EXCEPT ![NextThread(chunk)] = "new"]
  /\ monitor' = "sleep"
  /\ UNCHANGED <<stop, stopper, hbVars, syncVars, reqVars, chunkAlive>>

\* wait_for_stop(5s), then the loop's condition.
MonitorSleep ==
  /\ monitor = "sleep"
  /\ monitor' = IF stop THEN "done" ELSE "hb"
  /\ UNCHANGED <<stop, stopper, hbVars, syncVars, reqVars, chunkVars>>

---------------------------------------------------------------------------
\* stop(): only the first caller goes on.
Stop ==
  /\ stopper = "no"
  /\ stop' = TRUE
  /\ stopper' = "hb"
  /\ UNCHANGED <<hbVars, syncVars, reqVars, chunkVars, monitor>>

\* The last thread of a loop, which the member std::thread holds.
Last(f) == Cardinality(Started(f))

\* join() of the members in order, then of the retired threads.
StopJoins ==
  /\ \/ stopper = "hb"      /\ hb[Last(HbPcs)].pc = "done"     /\ stopper' = "sync"
     \/ stopper = "sync"    /\ sync[Last(SyncPcs)].pc = "done" /\ stopper' = "chunk"
     \/ stopper = "chunk"   /\ (ChunkSync => chunk[Last(chunk)] = "done") /\ stopper' = "monitor"
     \/ stopper = "monitor" /\ monitor = "done"                /\ stopper' = "retired"
     \/ stopper = "retired" /\ Over(HbPcs) /\ Over(SyncPcs) /\ Over(chunk) /\ stopper' = "done"
  /\ UNCHANGED <<stop, hbVars, syncVars, reqVars, chunkVars, monitor>>

\* A handler, a promotion or a demotion asks for a sync.
AskForSync ==
  /\ ~stop
  /\ RequestStateSync
  /\ UNCHANGED <<stop, stopper, hbVars, syncVars, chunkVars, monitor>>

HbStep(i)   == HbStart(i) \/ HbHead(i) \/ HbAnswer(i) \/ HbLeave(i) \/ HbClear(i)
SyncStep(i) == SyncStart(i) \/ SyncHead(i) \/ SyncAnswer(i) \/ SyncLeave(i) \/ SyncClear(i)
Monitor == \/ \E s \in BOOLEAN : MonitorHb(s) \/ MonitorSync(s) \/ MonitorChunk(s)
           \/ MonitorHbSpawn \/ MonitorSyncSpawn \/ MonitorChunkSpawn \/ MonitorSleep

Next ==
  \/ \E i \in Threads : HbStep(i) \/ HbCrash(i) \/ SyncStep(i) \/ SyncCrash(i) \/ ChunkStep(i)
  \/ Monitor \/ Stop \/ StopJoins \/ AskForSync

\* Every thread keeps running, calls are answered or time out, the monitor
\* wakes every five seconds, stop() keeps joining.
Fairness ==
  /\ \A i \in Threads : WF_vars(HbStep(i)) /\ WF_vars(SyncStep(i)) /\ WF_vars(ChunkStep(i))
  /\ WF_vars(Monitor) /\ WF_vars(StopJoins)
FairSpec == Init /\ [][Next]_vars /\ Fairness

---------------------------------------------------------------------------
\* The monitor cancels a reconcile that takes too long and replaces a loop
\* that died, while the cancelled or dying thread may still run: the epoch a
\* thread was given tells them apart, at most one state-sync thread that has
\* not left its loop is of the current epoch.
OneCurrentSync ==
  Cardinality({i \in Threads : sync[i].pc \in {"new", "head", "call"} /\ sync[i].epoch = syncEpoch}) <= 1

\* A reconcile cancelled for being too slow is followed by a state-sync loop
\* of the new epoch, unless the daemon stops.
SyncRunning == \E i \in Threads : sync[i].pc \in {"new", "head", "call"} /\ sync[i].epoch = syncEpoch
StateSyncRestarts == restartPending ~> (SyncRunning \/ stop)

\* stop() returns although the monitor restarts loops while it joins them.
Stopped == stopper = "done"
=============================================================================

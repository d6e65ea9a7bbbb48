--------------------------- MODULE ReplicaRetire ---------------------------
(* One GPU replica between publication and retirement: the load that offers *)
(* it (ReplicaRuntime, MetadataGateway), its promotion to an exported       *)
(* replica, the reconcile answers that ask to remove it, the retire queue   *)
(* served by the state-sync thread, the demotion task on the executor, and  *)
(* the shutdown of the daemon.                                              *)
EXTENDS Integers

CONSTANTS Threshold,   \* kReconcileRemoveRetireMissThreshold
          MaxLoads,    \* loads of the replica
          MaxUses,     \* handles, refs, pins and locks taken on it
          Shutdowns,   \* may the daemon stop
          None

VARIABLES mem,      \* "none", "loading", "loaded"
          pub,      \* ReplicaPublishState
          comm,     \* is the memory registered with the communicator
          exp,      \* ReplicaTransportState.export_state
          loader,   \* the loading thread, which also registers the replica
          promo,    \* the promotion task of the executor
          sync,     \* the state-sync thread
          snap,     \* publish state in the inventory a reconcile was sent with
          miss,     \* pending_missing_reconcile_counts_
          queue,    \* the retire queue's entry
          dem,      \* the demotion task of the executor
          fin,      \* finalize_replica_demotion after an eviction event
          uses,     \* what the retire gates count
          loads, taken,
          shut,     \* AsyncRuntime.shutting_down
          stop      \* WorkerLifecycleManager.stop_

vars == <<mem, pub, comm, exp, loader, promo, sync, snap, miss, queue, dem, fin, uses,
          loads, taken, shut, stop>>

TypeOK ==
  /\ mem \in {"none", "loading", "loaded"}
  /\ pub \in {"local", "pending", "published", "retiring"}
  /\ comm \in BOOLEAN /\ exp \in {"presence", "exportable", "draining"}
  /\ loader \in {"idle", "load", "export", "record", "rpc"}
  /\ promo \in {"none", "export", "put"}
  /\ sync \in {"idle", "call", "retire", "unload", "release", "locked", "exit"}
  /\ snap \in {None, "pending", "published"}
  /\ miss \in 0..Threshold
  /\ queue \in {"out", "new", "started", "complete"}
  /\ dem \in {"none", "mark", "put", "gates", "unexport", "putPresence", "report"}
  /\ fin \in {"none", "read", "putPresence"}
  /\ uses \in 0..MaxUses /\ loads \in 0..MaxLoads /\ taken \in 0..MaxUses
  /\ shut \in BOOLEAN /\ stop \in BOOLEAN

Init ==
  /\ mem = "none" /\ pub = "local" /\ comm = FALSE /\ exp = "presence"
  /\ loader = "idle" /\ promo = "none"
  /\ sync = "idle" /\ snap = None /\ miss = 0
  /\ queue = "out" /\ dem = "none" /\ fin = "none"
  /\ uses = 0 /\ loads = 0 /\ taken = 0 /\ shut = FALSE /\ stop = FALSE

---------------------------------------------------------------------------
\* A materialization of the replica starts.
BeginLoad ==
  /\ loader = "idle" /\ mem = "none" /\ loads < MaxLoads
  /\ loader' = "load" /\ mem' = "loading" /\ loads' = loads + 1
  /\ UNCHANGED <<pub, comm, exp, promo, sync, snap, miss, queue, dem, fin, uses, taken, shut, stop>>

\* It ends: record_ingestion_result sets the publish state whatever it was,
\* the gateway registers a published replica on the same thread, and the
\* promotion manager queues a promotion unless the request forbids an export.
EndLoad(publish, export) ==
  /\ loader = "load"
  /\ mem' = "loaded"
  /\ pub' = IF publish THEN "pending" ELSE "local"
  /\ loader' = IF ~publish THEN "idle" ELSE IF exp = "exportable" THEN "rpc" ELSE "export"
  /\ promo' = IF export /\ promo = "none" /\ ~shut THEN "export" ELSE promo
  /\ UNCHANGED <<comm, exp, sync, snap, miss, queue, dem, fin, uses, loads, taken, shut, stop>>

FailLoad ==
  /\ loader = "load"
  /\ mem' = "none" /\ loader' = "idle"
  /\ UNCHANGED <<pub, comm, exp, promo, sync, snap, miss, queue, dem, fin, uses, loads, taken, shut, stop>>

\* register_replica: the memory is registered with the communicator; without
\* an export the replica is registered as present only.
RegisterExport ==
  /\ loader = "export"
  /\ IF mem = "loaded" THEN comm' = TRUE /\ loader' = "record" ELSE comm' = comm /\ loader' = "rpc"
  /\ UNCHANGED <<mem, pub, exp, promo, sync, snap, miss, queue, dem, fin, uses, loads, taken, shut, stop>>

\* record_export_registration.
RegisterRecord ==
  /\ loader = "record"
  /\ exp' = "exportable" /\ loader' = "rpc"
  /\ UNCHANGED <<mem, pub, comm, promo, sync, snap, miss, queue, dem, fin, uses, loads, taken, shut, stop>>

\* The Global Store's answer: registered, or left to the next reconcile.
RegisterAnswer(ok) ==
  /\ loader = "rpc"
  /\ pub' = IF ok THEN "published" ELSE pub
  /\ loader' = "idle"
  /\ UNCHANGED <<mem, comm, exp, promo, sync, snap, miss, queue, dem, fin, uses, loads, taken, shut, stop>>

\* promote_replica on the executor: register the memory, then say so.
Promote ==
  /\ \/ /\ promo = "export"
        /\ IF mem = "loaded" THEN comm' = TRUE /\ promo' = "put" ELSE comm' = comm /\ promo' = "none"
        /\ UNCHANGED exp
     \/ /\ promo = "put"
        /\ exp' = "exportable" /\ promo' = "none"
        /\ UNCHANGED comm
  /\ UNCHANGED <<mem, pub, loader, sync, snap, miss, queue, dem, fin, uses, loads, taken, shut, stop>>

\* Somebody takes, or gives back, a handle, a ref, a pin or a transport lock.
Use ==
  /\ mem = "loaded" /\ taken < MaxUses
  /\ uses' = uses + 1 /\ taken' = taken + 1
  /\ UNCHANGED <<mem, pub, comm, exp, loader, promo, sync, snap, miss, queue, dem, fin, loads, shut, stop>>

EndUse ==
  /\ uses > 0
  /\ uses' = uses - 1
  /\ UNCHANGED <<mem, pub, comm, exp, loader, promo, sync, snap, miss, queue, dem, fin, loads, taken, shut, stop>>

---------------------------------------------------------------------------
\* get_ha_inventory: present in memory, and pending or published.
Inventory == IF mem # "none" /\ pub \in {"pending", "published"} THEN pub ELSE None

\* The state-sync loop sends a reconcile, or leaves when the daemon stops.
SyncSend ==
  /\ sync = "idle"
  /\ sync' = IF stop THEN "exit" ELSE "call"
  /\ snap' = IF stop THEN snap ELSE Inventory
  /\ UNCHANGED <<mem, pub, comm, exp, loader, promo, miss, queue, dem, fin, uses, loads, taken, shut, stop>>

Missed == IF miss < Threshold THEN miss + 1 ELSE miss

\* enqueue_retire_keys: a new entry turns the replica to retiring.
EnqueuedPub(retire) == IF retire /\ queue = "out" THEN "retiring" ELSE pub
EnqueuedQueue(retire) == IF retire /\ queue = "out" THEN "new" ELSE queue

\* Applied or Noop: a REMOVE counts as a miss, its absence clears the count,
\* an UPDATE switches the registration of the memory, and whatever was pending
\* in the inventory that was sent becomes published.
ApplyChanges(remove, update) ==
  /\ sync = "call" /\ ~stop
  /\ remove => loads > 0
  /\ LET m == IF remove THEN Missed ELSE 0
         retire == remove /\ m = Threshold
     IN  /\ miss' = m
         /\ queue' = EnqueuedQueue(retire)
         /\ pub' = IF snap = "pending" THEN "published" ELSE EnqueuedPub(retire)
  /\ comm' = IF update # None /\ mem = "loaded" THEN update ELSE comm
  /\ sync' = "retire" /\ snap' = None
  /\ UNCHANGED <<mem, exp, loader, promo, dem, fin, uses, loads, taken, shut, stop>>

\* RebaseRequired: the expected rows against the inventory of now.
ApplyFullState(expected) ==
  /\ sync = "call" /\ ~stop
  /\ LET m == IF Inventory = None THEN miss ELSE IF expected THEN 0 ELSE Missed
         retire == Inventory # None /\ ~expected /\ m = Threshold
     IN  /\ miss' = m
         /\ queue' = EnqueuedQueue(retire)
         /\ pub' = EnqueuedPub(retire)
  /\ sync' = "retire" /\ snap' = None
  /\ UNCHANGED <<mem, comm, exp, loader, promo, dem, fin, uses, loads, taken, shut, stop>>

\* Failed, stale, told to retry, or stopped meanwhile.
ApplyNothing ==
  /\ sync = "call"
  /\ sync' = "retire" /\ snap' = None
  /\ UNCHANGED <<mem, pub, comm, exp, loader, promo, miss, queue, dem, fin, uses, loads, taken, shut, stop>>

---------------------------------------------------------------------------
\* process_retire_queue holds retire_mu_ when it starts a demotion, and
\* schedule_demotion_task takes retire_mu_ again once the executor is closed.
RetirePass ==
  /\ sync = "retire"
  /\ LET start == queue = "new" IN
     /\ queue' = IF start THEN "started" ELSE queue
     /\ dem' = IF start /\ ~shut THEN "mark" ELSE dem
     /\ sync' = CASE start /\ shut -> "locked"
                  [] queue = "complete" /\ uses = 0 -> "unload"
                  [] OTHER -> "idle"
  /\ UNCHANGED <<mem, pub, comm, exp, loader, promo, snap, miss, fin, uses, loads, taken, shut, stop>>

\* RetirePass that starts the demotion of an entry it already started.
RetirePassRestarts ==
  /\ sync = "retire"
  /\ LET start == queue \in {"new", "started"} IN
     /\ queue' = IF start THEN "started" ELSE queue
     /\ dem' = IF start /\ ~shut THEN "mark" ELSE dem
     /\ sync' = IF queue = "complete" /\ uses = 0 THEN "unload" ELSE "idle"
  /\ UNCHANGED <<mem, pub, comm, exp, loader, promo, snap, miss, fin, uses, loads, taken, shut, stop>>

\* unload_replica: first the communicator's registration ...
UnloadUnexport ==
  /\ sync = "unload"
  /\ comm' = FALSE /\ sync' = "release"
  /\ UNCHANGED <<mem, pub, exp, loader, promo, snap, miss, queue, dem, fin, uses, loads, taken, shut, stop>>

\* ... then the memory, with a probe for a load that begins and a wait of 30 s
\* for one that runs.  Any failure but NotFound takes the entry out as well.
UnloadRelease ==
  /\ sync = "release"
  /\ sync' = "idle" /\ queue' = "out" /\ miss' = 0
  /\ IF mem = "loaded"
     THEN /\ mem' = "none" /\ comm' = FALSE
          /\ fin' = IF pub # "local" /\ ~stop /\ ~shut /\ fin = "none" THEN "read" ELSE fin
     ELSE UNCHANGED <<mem, comm, fin>>
  /\ UNCHANGED <<pub, exp, loader, promo, snap, dem, uses, loads, taken, shut, stop>>

---------------------------------------------------------------------------
\* The demotion task: draining, unless nothing is exported.
DemoteMark ==
  /\ dem \in {"mark", "put"}
  /\ \/ dem = "mark" /\ stop /\ dem' = "none" /\ UNCHANGED exp
     \/ dem = "mark" /\ ~stop /\ dem' = (IF exp = "exportable" THEN "put" ELSE "gates") /\ UNCHANGED exp
     \/ dem = "put" /\ exp' = "draining" /\ dem' = "gates"
  /\ UNCHANGED <<mem, pub, comm, loader, promo, sync, snap, miss, queue, fin, uses, loads, taken, shut, stop>>

\* It waits for a reconcile, for the remote readers and for the gates, each
\* only until the drain timeout.
DemoteGates ==
  /\ dem = "gates"
  /\ dem' = IF exp = "presence" THEN "report" ELSE "unexport"
  /\ UNCHANGED <<mem, pub, comm, exp, loader, promo, sync, snap, miss, queue, fin, uses, loads, taken, shut, stop>>

\* finalize_replica_demotion: unregister, then say so.
DemoteFinalize ==
  /\ \/ dem = "unexport" /\ comm' = FALSE /\ dem' = "putPresence" /\ UNCHANGED exp
     \/ dem = "putPresence" /\ exp' = "presence" /\ dem' = "report" /\ UNCHANGED comm
  /\ UNCHANGED <<mem, pub, loader, promo, sync, snap, miss, queue, fin, uses, loads, taken, shut, stop>>

\* demotion_complete, if the entry is still queued.
DemoteReport ==
  /\ dem = "report"
  /\ queue' = IF queue = "out" THEN "out" ELSE "complete"
  /\ dem' = "none"
  /\ UNCHANGED <<mem, pub, comm, exp, loader, promo, sync, snap, miss, fin, uses, loads, taken, shut, stop>>

\* The same after the eviction event of an unload.
FinalizeEvicted ==
  /\ \/ /\ fin = "read"
        /\ comm' = IF exp = "presence" THEN comm ELSE FALSE
        /\ fin' = IF exp = "presence" THEN "none" ELSE "putPresence"
        /\ UNCHANGED exp
     \/ /\ fin = "putPresence"
        /\ exp' = "presence" /\ fin' = "none"
        /\ UNCHANGED comm
  /\ UNCHANGED <<mem, pub, loader, promo, sync, snap, miss, queue, dem, uses, loads, taken, shut, stop>>

---------------------------------------------------------------------------
\* DaemonApp::stop: the kernel closes the executor before the lifecycle
\* manager is told to stop and its state-sync thread is joined.
BeginShutdown ==
  /\ Shutdowns /\ ~shut
  /\ shut' = TRUE
  /\ UNCHANGED <<mem, pub, comm, exp, loader, promo, sync, snap, miss, queue, dem, fin, uses, loads, taken, stop>>

StopLifecycle ==
  /\ shut /\ ~stop
  /\ stop' = TRUE
  /\ UNCHANGED <<mem, pub, comm, exp, loader, promo, sync, snap, miss, queue, dem, fin, uses, loads, taken, shut>>

SyncStep ==
  \/ SyncSend \/ RetirePass \/ UnloadUnexport \/ UnloadRelease \/ ApplyNothing
  \/ \E r \in BOOLEAN, u \in {None, TRUE, FALSE} : ApplyChanges(r, u)
  \/ \E x \in BOOLEAN : ApplyFullState(x)
DemotionStep == DemoteMark \/ DemoteGates \/ DemoteFinalize \/ DemoteReport

Next ==
  \/ BeginLoad \/ FailLoad \/ (\E p, x \in BOOLEAN : EndLoad(p, x))
  \/ RegisterExport \/ RegisterRecord \/ (\E ok \in BOOLEAN : RegisterAnswer(ok))
  \/ Promote \/ Use \/ EndUse \/ SyncStep \/ DemotionStep \/ FinalizeEvicted
  \/ BeginShutdown \/ StopLifecycle

\* The state-sync loop and the executor run, users end, stop() goes on.
Fairness == WF_vars(SyncStep) /\ WF_vars(DemotionStep) /\ WF_vars(EndUse) /\ WF_vars(StopLifecycle)
FairSpec == Init /\ [][Next]_vars /\ Fairness

---------------------------------------------------------------------------
\* A demotion task runs only for an entry of the retire queue that waits for
\* it, so never two for one replica, and no unload overtakes it.
DemotionOwned == dem # "none" => queue = "started"

\* A replica put on the retire queue leaves it again, however long it is used,
\* loaded again or promoted meanwhile, unless the daemon stops.
Queued  == queue # "out"
Retired == queue = "out" \/ shut

\* stop() returns: the state-sync thread it joins leaves its loop.
StopReturns == stop ~> sync = "exit"
=============================================================================

----------------------------- MODULE MCControl -----------------------------
(***************************************************************************)
(* Small instances of the control plane of a daemon: reconciliation of its *)
(* inventory with the Global Store, the background scheduler, the threads  *)
(* of the lifecycle manager and the retirement of a replica.  The suite is *)
(* a sum: part says which instance a behaviour is of, and the variables    *)
(* that this instance does not have stay None.                             *)
(***************************************************************************)
EXTENDS Integers, Sequences, FiniteSets

CONSTANTS None

\* Of Worker, an instance of WorkerReconcile.
CONSTANTS Keys, MaxChanges, MaxLost, MaxExpiries, MaxRestarts, MaxRegistrations,
          MaxCommitFailures, MaxSeq

\* Of Sched, an instance of BackgroundScheduler.
CONSTANTS Lifecycle, Periodic, Interval, SweepInterval, RetryDelay, MaxDelay,
          MaxHooks

\* Of Loops, an instance of HaLoops.
CONSTANTS MaxThreads, MaxRespawns, MaxRequests, ChunkSync, Crashes

\* Of Retiring, an instance of ReplicaRetire.
CONSTANTS Threshold, MaxLoads, MaxUses, Shutdowns

\* None is no number, name, copy of the inventory or message.
ASSUME NoneAssumption ==
  /\ None \notin Nat /\ None \notin {"pending", "published"}
  /\ None \notin [gen : Nat, seq : Nat, inv : [Keys -> {"none", "down", "up"}],
                 young : SUBSET Keys, over : BOOLEAN, torn : BOOLEAN]
  /\ None \notin [kind : {"APPLIED", "NOOP", "STALE", "REBASE", "RETRY", "ERROR"}, ver : Nat,
                 adds : SUBSET Keys, gone : SUBSET Keys]

\* The bounds of what the environment does.
ASSUME WorkerAssumption ==
  /\ MaxChanges \in Nat /\ MaxLost \in Nat /\ MaxExpiries \in Nat /\ MaxRestarts \in Nat
  /\ MaxRegistrations \in Nat /\ MaxCommitFailures \in Nat /\ MaxSeq \in Nat

\* Times are numbers of ticks; a failed unload is not retried at once.
ASSUME SchedAssumption ==
  /\ Interval \in Nat /\ SweepInterval \in Nat /\ RetryDelay \in Nat \ {0}
  /\ MaxDelay \in Nat /\ MaxHooks \in Nat

\* start() starts one thread of each loop and requests one sync.
ASSUME LoopsAssumption ==
  /\ MaxThreads \in Nat \ {0} /\ MaxRequests \in Nat \ {0} /\ MaxRespawns \in Nat
  /\ ChunkSync \in BOOLEAN /\ Crashes \in BOOLEAN

\* The threshold and the bounds are numbers.
ASSUME RetiringAssumption ==
  /\ Threshold \in Nat /\ MaxLoads \in Nat /\ MaxUses \in Nat /\ Shutdowns \in BOOLEAN

VARIABLES part,
          wrk, rows, cache, local, dmn, pending, sync, call, reply, late, hb,
          missing, prefetch, regs, budget, running, stop, loop, due, wake, signal,
          torun, deadline, retry, polled, hooks, stopper, hbEpoch, hbAlive,
          syncEpoch, syncAlive, inflight, restartPending, requests, generation,
          completed, chunk, chunkAlive, monitor, mem, pub, comm, exp, loader,
          promo, snap, miss, queue, dem, fin, uses, loads, taken, shut

WorkerReconcileVars == <<wrk, rows, cache, local, dmn, call, reply, late, missing,
                         prefetch, regs, budget>>
NoWorkerReconcile == /\ wrk = None /\ rows = None /\ cache = None /\ local = None
                     /\ dmn = None /\ call = None /\ reply = None /\ late = None
                     /\ missing = None /\ prefetch = None /\ regs = None
                     /\ budget = None
BackgroundSchedulerVars == <<running, loop, due, wake, signal, torun, deadline,
                             retry, polled, hooks>>
NoBackgroundScheduler == /\ running = None /\ loop = None /\ due = None
                         /\ wake = None /\ signal = None /\ torun = None
                         /\ deadline = None /\ retry = None /\ polled = None
                         /\ hooks = None
HaLoopsVars == <<stopper, hbEpoch, hbAlive, syncEpoch, syncAlive, inflight,
                 restartPending, requests, generation, completed, chunk,
                 chunkAlive, monitor>>
NoHaLoops == /\ stopper = None /\ hbEpoch = None /\ hbAlive = None
             /\ syncEpoch = None /\ syncAlive = None /\ inflight = None
             /\ restartPending = None /\ requests = None /\ generation = None
             /\ completed = None /\ chunk = None /\ chunkAlive = None
             /\ monitor = None
ReplicaRetireVars == <<mem, pub, comm, exp, loader, promo, snap, miss, queue, dem,
                       fin, uses, loads, taken, shut>>
NoReplicaRetire == /\ mem = None /\ pub = None /\ comm = None /\ exp = None
                   /\ loader = None /\ promo = None /\ snap = None /\ miss = None
                   /\ queue = None /\ dem = None /\ fin = None /\ uses = None
                   /\ loads = None /\ taken = None /\ shut = None

vars == <<part, pending, sync, hb, stop, WorkerReconcileVars,
          BackgroundSchedulerVars, HaLoopsVars, ReplicaRetireVars>>

Worker == INSTANCE WorkerReconcile WITH
    Null <- None

Sched == INSTANCE BackgroundScheduler

Loops == INSTANCE HaLoops

Retiring == INSTANCE ReplicaRetire

InitWorker ==
  /\ part = "reconcile" /\ Worker!Init
  /\ stop = None /\ NoBackgroundScheduler /\ NoHaLoops /\ NoReplicaRetire

WorkerStep ==
  /\ part = "reconcile" /\ Worker!Next
  /\ UNCHANGED <<part, stop, BackgroundSchedulerVars, HaLoopsVars, ReplicaRetireVars>>

InitSched ==
  /\ part = "sched" /\ Sched!Init
  /\ sync = None /\ hb = None /\ NoWorkerReconcile /\ NoHaLoops /\ NoReplicaRetire

SchedStep ==
  /\ part = "sched" /\ Sched!Next
  /\ UNCHANGED <<part, sync, hb, WorkerReconcileVars, HaLoopsVars, ReplicaRetireVars>>

InitLoops ==
  /\ part = "loops" /\ Loops!Init
  /\ pending = None /\ NoWorkerReconcile /\ NoBackgroundScheduler /\ NoReplicaRetire

LoopsStep ==
  /\ part = "loops" /\ Loops!Next
  /\ UNCHANGED <<part, pending, WorkerReconcileVars, BackgroundSchedulerVars,
                 ReplicaRetireVars>>

InitRetiring ==
  /\ part = "retire" /\ Retiring!Init
  /\ pending = None /\ hb = None /\ NoWorkerReconcile /\ NoBackgroundScheduler
  /\ NoHaLoops

RetiringStep ==
  /\ part = "retire" /\ Retiring!Next
  /\ UNCHANGED <<part, pending, hb, WorkerReconcileVars, BackgroundSchedulerVars,
                 HaLoopsVars>>

Init ==
  \/ InitWorker \/ InitSched \/ InitLoops \/ InitRetiring

Next ==
  \/ WorkerStep \/ SchedStep \/ LoopsStep \/ RetiringStep

Spec == Init /\ [][Next]_vars

----------------------------------------------------------------------------
\* Every variable has its type, in each component.
TypeOK ==
  /\ part = "reconcile" => Worker!TypeOK
  /\ part = "sched" => Sched!TypeOK
  /\ part = "loops" => Loops!TypeOK
  /\ part = "retire" => Retiring!TypeOK

\* What only one may do is done by one:
\* - The state-sync threads that have not left their loop carry different epochs
\*   or are one, although the monitor starts the next before the last has gone.
\* - A demotion task runs only for an entry of the retire queue that waits for
\*   it, so never two for one replica.
OneOwner ==
  /\ part = "loops" => Loops!OneCurrentSync
  /\ part = "retire" => Retiring!DemotionOwned

\* An old inventory never replaces a newer one: a snapshot that is accepted was
\* collected after every snapshot accepted before it, however requests are
\* resent, delayed and retried with the same token, across registrations and
\* restarts.  The one exception is a token that was read between the two
\* stores of a registration.
AppliedInOrder == [][part = "reconcile" => Worker!AppliedInOrderStep]_vars

\* The no-op cache never vouches for a copy whose row is gone or says something
\* else, with publishes, expiries and failed transactions in between.
NoopCacheSound == part = "reconcile" => Worker!NoopCacheSound

\* stop() is not missed: once its notification is out, a sleeping loop has been
\* woken, although running_ is stored without the mutex.
StopNotMissed == part = "sched" => Sched!StopNotMissed

============================================================================

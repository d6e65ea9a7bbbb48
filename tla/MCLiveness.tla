---------------------------- MODULE MCLiveness -----------------------------
(***************************************************************************)
(* Small instances of the daemon for the properties that something happens *)
(* in the end.  The suite is a sum: part says which instance a behaviour   *)
(* is of, and the variables that this instance does not have stay None.    *)
(* Of several interchangeable processes a property names the first.        *)
(***************************************************************************)
EXTENDS Integers, Sequences, FiniteSets

CONSTANTS None

VARIABLES part,
          wrk, rows, cache, local, dmn, pending, sync, call, reply, late, hb,
          missing, prefetch, regs, budget, running, stop, loop, due, wake, signal,
          torun, deadline, retry, polled, hooks, info, mk, rt, rpc, unw, ran, gen,
          heap, expired, renewed, refs, resident, pend, sweep, evict, watched,
          dead, ext, extUnw, cb, snap, cap, addr, bind, guards, now, released, pc,
          cur, ex, st, tok, lease, flag, held, off, serve, mu, cleaned, gone,
          phase, policy, recorded, renewal, slot, sig, gate, kind, at, exp, fin,
          rec, reg, owner, retired, reader, stopper, hbEpoch, hbAlive, syncEpoch,
          syncAlive, inflight, restartPending, requests, generation, completed,
          chunk, chunkAlive, monitor, mem, pub, comm, loader, promo, miss, queue,
          dem, uses, loads, taken, shut, tasks, job, file, meta, location, durable,
          sources, log, restarts

WorkerReconcileVars == <<wrk, rows, local, dmn, reply, late, missing, prefetch,
                         regs, budget>>
NoWorkerReconcile == /\ wrk = None /\ rows = None /\ local = None /\ dmn = None
                     /\ reply = None /\ late = None /\ missing = None
                     /\ prefetch = None /\ regs = None /\ budget = None
BackgroundSchedulerVars == <<running, loop, wake, signal, torun, deadline, retry,
                             polled, hooks>>
NoBackgroundScheduler == /\ running = None /\ loop = None /\ wake = None
                         /\ signal = None /\ torun = None /\ deadline = None
                         /\ retry = None /\ polled = None /\ hooks = None
SessionLifecycleVars == <<info, mk, rt, rpc, unw, ran, gen, heap, expired, renewed,
                          refs, resident, pend, sweep, evict, watched, dead, ext,
                          extUnw, cb>>
NoSessionLifecycle == /\ info = None /\ mk = None /\ rt = None /\ rpc = None
                      /\ unw = None /\ ran = None /\ gen = None /\ heap = None
                      /\ expired = None /\ renewed = None /\ refs = None
                      /\ resident = None /\ pend = None /\ sweep = None
                      /\ evict = None /\ watched = None /\ dead = None /\ ext = None
                      /\ extUnw = None /\ cb = None
HandleLeasesVars == <<pc, cur, ex, tok, flag, held, off, serve, cleaned, gone>>
NoHandleLeases == /\ pc = None /\ cur = None /\ ex = None /\ tok = None
                  /\ flag = None /\ held = None /\ off = None /\ serve = None
                  /\ cleaned = None /\ gone = None
RetentionHandlesVars == <<phase, policy, recorded, renewal>>
NoRetentionHandles == /\ phase = None /\ policy = None /\ recorded = None
                      /\ renewal = None
ReplicaLoadVars == <<slot, sig, gate>>
NoReplicaLoad == /\ slot = None /\ sig = None /\ gate = None
PayloadRefsVars == <<kind, at, rec, reg, owner, retired, reader>>
NoPayloadRefs == /\ kind = None /\ at = None /\ rec = None /\ reg = None
                 /\ owner = None /\ retired = None /\ reader = None
HaLoopsVars == <<stopper, hbEpoch, hbAlive, syncEpoch, syncAlive, inflight,
                 restartPending, requests, generation, completed, chunk,
                 chunkAlive, monitor>>
NoHaLoops == /\ stopper = None /\ hbEpoch = None /\ hbAlive = None
             /\ syncEpoch = None /\ syncAlive = None /\ inflight = None
             /\ restartPending = None /\ requests = None /\ generation = None
             /\ completed = None /\ chunk = None /\ chunkAlive = None
             /\ monitor = None
ReplicaRetireVars == <<mem, pub, comm, loader, promo, miss, queue, dem, uses,
                       loads, taken, shut>>
NoReplicaRetire == /\ mem = None /\ pub = None /\ comm = None /\ loader = None
                   /\ promo = None /\ miss = None /\ queue = None /\ dem = None
                   /\ uses = None /\ loads = None /\ taken = None /\ shut = None
PersistenceTasksVars == <<tasks, job, file, meta, location, durable, sources, log,
                          restarts>>
NoPersistenceTasks == /\ tasks = None /\ job = None /\ file = None /\ meta = None
                      /\ location = None /\ durable = None /\ sources = None
                      /\ log = None /\ restarts = None

vars == <<part, cache, pending, sync, call, hb, stop, due, snap, cap, addr, bind,
          guards, now, released, st, lease, mu, exp, fin, WorkerReconcileVars,
          BackgroundSchedulerVars, SessionLifecycleVars, HandleLeasesVars,
          RetentionHandlesVars, ReplicaLoadVars, PayloadRefsVars, HaLoopsVars,
          ReplicaRetireVars, PersistenceTasksVars>>

Converge == INSTANCE WorkerReconcile WITH
    Keys <- {"k1"}, Null <- None, MaxChanges <- 2, MaxLost <- 1, MaxExpiries <- 0,
    MaxRestarts <- 0, MaxRegistrations <- 0, MaxCommitFailures <- 0, MaxSeq <- 7

Sched == INSTANCE BackgroundScheduler WITH
    Lifecycle <- "lifecycle", Periodic <- {"p1"}, Interval <- 2,
    SweepInterval <- 3, RetryDelay <- 1, MaxDelay <- 2, MaxHooks <- 1

Exits == INSTANCE SessionLifecycle WITH
    Leases <- {"l1", "l2"}, Keys <- {"k1"}, Pids <- {"p1"},
    Kinds <- {"use", "commit"}, Share <- FALSE, Calls <- {"exit"}, MaxGen <- 1

Reclaim == INSTANCE SessionLifecycle WITH
    Leases <- {"l1", "l2"}, Keys <- {"k1"}, Pids <- {"p1"},
    Kinds <- {"use", "pin"}, Share <- FALSE, Calls <- {"rpc"}, MaxGen <- 1

Kernel == INSTANCE LifecycleKernel WITH
    Caps <- {"r1", "e1"}, Bound <- {"e1"}, Guards <- {"g1", "g2"},
    Lifetimes <- {1, 2}, MaxTime <- 3

Life == INSTANCE HandleLeases WITH
    CpuMints <- {}, GpuMints <- {"g1", "g2"}, ExtMints <- {"x1"},
    Caps <- {"g1", "g2"}, Bound <- {"g1", "g2"}, Guards <- {"g1", "g2"},
    Capacity <- 2, EarlyRetire <- FALSE, InitMayFail <- TRUE, Lifetimes <- {},
    MaxTime <- 0

Retention == INSTANCE RetentionHandles WITH
    Handles <- {"h1", "h2"}, Policies <- {1}, Renewals <- TRUE,
    EarlyRetire <- FALSE, AdmitMayFail <- TRUE

Answers == INSTANCE ReplicaLoad WITH
    Callers <- {"c1", "c2"}, Targets <- {"CPU", "GPU"},
    Faults <- {"alloc", "open", "map", "pump", "hook"}, Releases <- {"CPU", "GPU"}

Reap == INSTANCE PayloadRefs WITH
    Refs <- {"r1"}, Readers <- {"c1"}, Kinds <- {"inline", "batch", "slab"},
    Ttl <- 1, MaxTime <- 3, Prompt <- TRUE

Loops == INSTANCE HaLoops WITH
    MaxThreads <- 2, MaxRespawns <- 1, MaxRequests <- 0, ChunkSync <- FALSE,
    Crashes <- FALSE

Retiring == INSTANCE ReplicaRetire WITH
    Threshold <- 1, MaxLoads <- 1, MaxUses <- 1, Shutdowns <- FALSE

Persist == INSTANCE PersistenceTasks WITH
    MaxTasks <- 1, MaxRestarts <- 0, MaxAttempts <- 1, Remotes <- {"must"},
    Disks <- {"must"}, Layouts <- {"two"}

InitConverge ==
  /\ part = "converge" /\ Converge!Init
  /\ stop = None /\ due = None /\ snap = None /\ cap = None /\ addr = None
  /\ bind = None /\ guards = None /\ now = None /\ released = None /\ st = None
  /\ lease = None /\ mu = None /\ exp = None /\ fin = None /\ NoBackgroundScheduler
  /\ NoSessionLifecycle /\ NoHandleLeases /\ NoRetentionHandles /\ NoReplicaLoad
  /\ NoPayloadRefs /\ NoHaLoops /\ NoReplicaRetire /\ NoPersistenceTasks

ConvergeStep ==
  /\ part = "converge" /\ Converge!Next
  /\ UNCHANGED <<part, stop, due, snap, cap, addr, bind, guards, now, released, st,
                 lease, mu, exp, fin, BackgroundSchedulerVars,
                 SessionLifecycleVars, HandleLeasesVars, RetentionHandlesVars,
                 ReplicaLoadVars, PayloadRefsVars, HaLoopsVars, ReplicaRetireVars,
                 PersistenceTasksVars>>

InitSched ==
  /\ part = "sched" /\ Sched!Init
  /\ cache = None /\ sync = None /\ call = None /\ hb = None /\ snap = None
  /\ cap = None /\ addr = None /\ bind = None /\ guards = None /\ now = None
  /\ released = None /\ st = None /\ lease = None /\ mu = None /\ exp = None
  /\ fin = None /\ NoWorkerReconcile /\ NoSessionLifecycle /\ NoHandleLeases
  /\ NoRetentionHandles /\ NoReplicaLoad /\ NoPayloadRefs /\ NoHaLoops
  /\ NoReplicaRetire /\ NoPersistenceTasks

SchedStep ==
  /\ part = "sched" /\ Sched!Next
  /\ UNCHANGED <<part, cache, sync, call, hb, snap, cap, addr, bind, guards, now,
                 released, st, lease, mu, exp, fin, WorkerReconcileVars,
                 SessionLifecycleVars, HandleLeasesVars, RetentionHandlesVars,
                 ReplicaLoadVars, PayloadRefsVars, HaLoopsVars, ReplicaRetireVars,
                 PersistenceTasksVars>>

InitExits ==
  /\ part = "exit" /\ Exits!Init
  /\ cache = None /\ pending = None /\ sync = None /\ call = None /\ hb = None
  /\ stop = None /\ due = None /\ cap = None /\ addr = None /\ bind = None
  /\ guards = None /\ now = None /\ released = None /\ st = None /\ lease = None
  /\ mu = None /\ exp = None /\ fin = None /\ NoWorkerReconcile
  /\ NoBackgroundScheduler /\ NoHandleLeases /\ NoRetentionHandles /\ NoReplicaLoad
  /\ NoPayloadRefs /\ NoHaLoops /\ NoReplicaRetire /\ NoPersistenceTasks

ExitsStep ==
  /\ part = "exit" /\ Exits!Next
  /\ UNCHANGED <<part, cache, pending, sync, call, hb, stop, due, cap, addr, bind,
                 guards, now, released, st, lease, mu, exp, fin,
                 WorkerReconcileVars, BackgroundSchedulerVars, HandleLeasesVars,
                 RetentionHandlesVars, ReplicaLoadVars, PayloadRefsVars,
                 HaLoopsVars, ReplicaRetireVars, PersistenceTasksVars>>

InitReclaim ==
  /\ part = "reclaim" /\ Reclaim!Init
  /\ cache = None /\ pending = None /\ sync = None /\ call = None /\ hb = None
  /\ stop = None /\ due = None /\ cap = None /\ addr = None /\ bind = None
  /\ guards = None /\ now = None /\ released = None /\ st = None /\ lease = None
  /\ mu = None /\ exp = None /\ fin = None /\ NoWorkerReconcile
  /\ NoBackgroundScheduler /\ NoHandleLeases /\ NoRetentionHandles /\ NoReplicaLoad
  /\ NoPayloadRefs /\ NoHaLoops /\ NoReplicaRetire /\ NoPersistenceTasks

ReclaimStep ==
  /\ part = "reclaim" /\ Reclaim!Next
  /\ UNCHANGED <<part, cache, pending, sync, call, hb, stop, due, cap, addr, bind,
                 guards, now, released, st, lease, mu, exp, fin,
                 WorkerReconcileVars, BackgroundSchedulerVars, HandleLeasesVars,
                 RetentionHandlesVars, ReplicaLoadVars, PayloadRefsVars,
                 HaLoopsVars, ReplicaRetireVars, PersistenceTasksVars>>

InitKernel ==
  /\ part = "kernel" /\ Kernel!KernelInit
  /\ cache = None /\ pending = None /\ sync = None /\ call = None /\ hb = None
  /\ stop = None /\ due = None /\ snap = None /\ st = None /\ lease = None
  /\ mu = None /\ exp = None /\ fin = None /\ NoWorkerReconcile
  /\ NoBackgroundScheduler /\ NoSessionLifecycle /\ NoHandleLeases
  /\ NoRetentionHandles /\ NoReplicaLoad /\ NoPayloadRefs /\ NoHaLoops
  /\ NoReplicaRetire /\ NoPersistenceTasks

KernelStep ==
  /\ part = "kernel" /\ Kernel!KernelNext
  /\ UNCHANGED <<part, cache, pending, sync, call, hb, stop, due, snap, st, lease,
                 mu, exp, fin, WorkerReconcileVars, BackgroundSchedulerVars,
                 SessionLifecycleVars, HandleLeasesVars, RetentionHandlesVars,
                 ReplicaLoadVars, PayloadRefsVars, HaLoopsVars, ReplicaRetireVars,
                 PersistenceTasksVars>>

InitLife ==
  /\ part = "handles" /\ Life!Init
  /\ cache = None /\ pending = None /\ sync = None /\ call = None /\ hb = None
  /\ stop = None /\ due = None /\ snap = None /\ exp = None /\ fin = None
  /\ NoWorkerReconcile /\ NoBackgroundScheduler /\ NoSessionLifecycle
  /\ NoRetentionHandles /\ NoReplicaLoad /\ NoPayloadRefs /\ NoHaLoops
  /\ NoReplicaRetire /\ NoPersistenceTasks

LifeStep ==
  /\ part = "handles" /\ Life!Next
  /\ UNCHANGED <<part, cache, pending, sync, call, hb, stop, due, snap, exp, fin,
                 WorkerReconcileVars, BackgroundSchedulerVars,
                 SessionLifecycleVars, RetentionHandlesVars, ReplicaLoadVars,
                 PayloadRefsVars, HaLoopsVars, ReplicaRetireVars,
                 PersistenceTasksVars>>

InitRetention ==
  /\ part = "retention" /\ Retention!RetentionInit
  /\ sync = None /\ call = None /\ hb = None /\ stop = None /\ due = None
  /\ snap = None /\ addr = None /\ bind = None /\ guards = None /\ now = None
  /\ released = None /\ st = None /\ mu = None /\ exp = None /\ fin = None
  /\ NoWorkerReconcile /\ NoBackgroundScheduler /\ NoSessionLifecycle
  /\ NoHandleLeases /\ NoReplicaLoad /\ NoPayloadRefs /\ NoHaLoops /\ NoReplicaRetire
  /\ NoPersistenceTasks

RetentionStep ==
  /\ part = "retention" /\ Retention!Next
  /\ UNCHANGED <<part, sync, call, hb, stop, due, snap, addr, bind, guards, now,
                 released, st, mu, exp, fin, WorkerReconcileVars,
                 BackgroundSchedulerVars, SessionLifecycleVars, HandleLeasesVars,
                 ReplicaLoadVars, PayloadRefsVars, HaLoopsVars, ReplicaRetireVars,
                 PersistenceTasksVars>>

InitAnswers ==
  /\ part = "answers" /\ Answers!ReplicaInit
  /\ cache = None /\ pending = None /\ sync = None /\ hb = None /\ stop = None
  /\ due = None /\ snap = None /\ cap = None /\ addr = None /\ bind = None
  /\ guards = None /\ now = None /\ released = None /\ lease = None /\ mu = None
  /\ exp = None /\ fin = None /\ NoWorkerReconcile /\ NoBackgroundScheduler
  /\ NoSessionLifecycle /\ NoHandleLeases /\ NoRetentionHandles /\ NoPayloadRefs
  /\ NoHaLoops /\ NoReplicaRetire /\ NoPersistenceTasks

AnswersStep ==
  /\ part = "answers" /\ Answers!Next
  /\ UNCHANGED <<part, cache, pending, sync, hb, stop, due, snap, cap, addr, bind,
                 guards, now, released, lease, mu, exp, fin, WorkerReconcileVars,
                 BackgroundSchedulerVars, SessionLifecycleVars, HandleLeasesVars,
                 RetentionHandlesVars, PayloadRefsVars, HaLoopsVars,
                 ReplicaRetireVars, PersistenceTasksVars>>

InitReap ==
  /\ part = "reap" /\ Reap!Init
  /\ cache = None /\ pending = None /\ sync = None /\ call = None /\ hb = None
  /\ stop = None /\ snap = None /\ addr = None /\ bind = None /\ guards = None
  /\ released = None /\ st = None /\ NoWorkerReconcile /\ NoBackgroundScheduler
  /\ NoSessionLifecycle /\ NoHandleLeases /\ NoRetentionHandles /\ NoReplicaLoad
  /\ NoHaLoops /\ NoReplicaRetire /\ NoPersistenceTasks

ReapStep ==
  /\ part = "reap" /\ Reap!Next
  /\ UNCHANGED <<part, cache, pending, sync, call, hb, stop, snap, addr, bind,
                 guards, released, st, WorkerReconcileVars,
                 BackgroundSchedulerVars, SessionLifecycleVars, HandleLeasesVars,
                 RetentionHandlesVars, ReplicaLoadVars, HaLoopsVars,
                 ReplicaRetireVars, PersistenceTasksVars>>

InitLoops ==
  /\ part = "loops" /\ Loops!Init
  /\ cache = None /\ pending = None /\ call = None /\ due = None /\ snap = None
  /\ cap = None /\ addr = None /\ bind = None /\ guards = None /\ now = None
  /\ released = None /\ st = None /\ lease = None /\ mu = None /\ exp = None
  /\ fin = None /\ NoWorkerReconcile /\ NoBackgroundScheduler /\ NoSessionLifecycle
  /\ NoHandleLeases /\ NoRetentionHandles /\ NoReplicaLoad /\ NoPayloadRefs
  /\ NoReplicaRetire /\ NoPersistenceTasks

LoopsStep ==
  /\ part = "loops" /\ Loops!Next
  /\ UNCHANGED <<part, cache, pending, call, due, snap, cap, addr, bind, guards,
                 now, released, st, lease, mu, exp, fin, WorkerReconcileVars,
                 BackgroundSchedulerVars, SessionLifecycleVars, HandleLeasesVars,
                 RetentionHandlesVars, ReplicaLoadVars, PayloadRefsVars,
                 ReplicaRetireVars, PersistenceTasksVars>>

InitRetiring ==
  /\ part = "retire" /\ Retiring!Init
  /\ cache = None /\ pending = None /\ call = None /\ hb = None /\ due = None
  /\ cap = None /\ addr = None /\ bind = None /\ guards = None /\ now = None
  /\ released = None /\ st = None /\ lease = None /\ mu = None /\ NoWorkerReconcile
  /\ NoBackgroundScheduler /\ NoSessionLifecycle /\ NoHandleLeases
  /\ NoRetentionHandles /\ NoReplicaLoad /\ NoPayloadRefs /\ NoHaLoops
  /\ NoPersistenceTasks

RetiringStep ==
  /\ part = "retire" /\ Retiring!Next
  /\ UNCHANGED <<part, cache, pending, call, hb, due, cap, addr, bind, guards, now,
                 released, st, lease, mu, WorkerReconcileVars,
                 BackgroundSchedulerVars, SessionLifecycleVars, HandleLeasesVars,
                 RetentionHandlesVars, ReplicaLoadVars, PayloadRefsVars,
                 HaLoopsVars, PersistenceTasksVars>>

InitPersist ==
  /\ part = "persist" /\ Persist!Init
  /\ cache = None /\ pending = None /\ sync = None /\ call = None /\ hb = None
  /\ stop = None /\ due = None /\ snap = None /\ cap = None /\ addr = None
  /\ bind = None /\ guards = None /\ now = None /\ released = None /\ st = None
  /\ lease = None /\ mu = None /\ exp = None /\ fin = None /\ NoWorkerReconcile
  /\ NoBackgroundScheduler /\ NoSessionLifecycle /\ NoHandleLeases
  /\ NoRetentionHandles /\ NoReplicaLoad /\ NoPayloadRefs /\ NoHaLoops
  /\ NoReplicaRetire

PersistStep ==
  /\ part = "persist" /\ Persist!Next
  /\ UNCHANGED <<part, cache, pending, sync, call, hb, stop, due, snap, cap, addr,
                 bind, guards, now, released, st, lease, mu, exp, fin,
                 WorkerReconcileVars, BackgroundSchedulerVars,
                 SessionLifecycleVars, HandleLeasesVars, RetentionHandlesVars,
                 ReplicaLoadVars, PayloadRefsVars, HaLoopsVars, ReplicaRetireVars>>

Init ==
  \/ InitConverge \/ InitSched \/ InitExits \/ InitReclaim
  \/ InitKernel \/ InitLife \/ InitRetention \/ InitAnswers
  \/ InitReap \/ InitLoops \/ InitRetiring \/ InitPersist

Next ==
  \/ ConvergeStep \/ SchedStep \/ ExitsStep \/ ReclaimStep
  \/ KernelStep \/ LifeStep \/ RetentionStep \/ AnswersStep
  \/ ReapStep \/ LoopsStep \/ RetiringStep \/ PersistStep

\* The fairness of each component, for the behaviours that are its own.
Fairness ==
  /\ WF_(Converge!vars)(part = "converge" /\ Converge!TakeToken)
  /\ WF_(Converge!vars)(part = "converge" /\ Converge!SendCall)
  /\ WF_(Converge!vars)(part = "converge" /\ Converge!ProcessReply)
  /\ WF_(Converge!vars)(part = "converge" /\ Converge!HandleCall)
  /\ WF_(Converge!vars)(part = "converge" /\ Converge!Heartbeat)
  /\ SF_(Converge!vars)(part = "converge" /\ Converge!RegisterWorker)
  /\ WF_(Converge!vars)(part = "converge" /\ Converge!ResetRequestId)
  /\ WF_(Converge!vars)(part = "converge" /\ Converge!RunPrefetch("k1"))
  /\ WF_(Converge!vars)(part = "converge" /\ Converge!HandleRegister("k1"))
  /\ WF_(Sched!vars)(part = "sched" /\ Sched!Tick)
  /\ WF_(Sched!vars)(part = "sched" /\ Sched!LoopStep)
  /\ WF_(Sched!vars)(part = "sched" /\ Sched!StopStep)
  /\ \A l \in {"l1", "l2"} : WF_(Exits!vars)(part = "exit" /\ Exits!Steps(l))
  /\ \A l \in {"l1", "l2"} : WF_(Exits!vars)(part = "exit" /\ Exits!Unloads(l))
  /\ \A p \in {"p1"} : WF_(Exits!vars)(part = "exit" /\ Exits!MonitorSteps(p))
  /\ WF_(Exits!vars)(part = "exit" /\ Exits!SyncPidWatches)
  /\ WF_(Exits!vars)(part = "exit" /\ Exits!SweepStep)
  /\ WF_(Exits!vars)(part = "exit" /\ Exits!RetryUnloads)
  /\ SF_(Exits!vars)(part = "exit" /\ Exits!RetryUnload(TRUE))
  /\ \A l \in {"l1", "l2"} : WF_(Reclaim!vars)(part = "reclaim" /\ Reclaim!Steps(l))
  /\ \A l \in {"l1", "l2"} : WF_(Reclaim!vars)(part = "reclaim" /\ Reclaim!Unloads(l))
  /\ \A p \in {"p1"} : WF_(Reclaim!vars)(part = "reclaim" /\ Reclaim!MonitorSteps(p))
  /\ WF_(Reclaim!vars)(part = "reclaim" /\ Reclaim!SyncPidWatches)
  /\ WF_(Reclaim!vars)(part = "reclaim" /\ Reclaim!SweepStep)
  /\ WF_(Reclaim!vars)(part = "reclaim" /\ Reclaim!RetryUnloads)
  /\ SF_(Reclaim!vars)(part = "reclaim" /\ Reclaim!RetryUnload(TRUE))
  /\ \A g \in {"g1", "g2"} : WF_(Kernel!kernelVars)(part = "kernel" /\ Kernel!ReleaseGuard(g))
  /\ \A c \in {"r1", "e1"} : WF_(Kernel!kernelVars)(part = "kernel" /\ Kernel!ReleaseMinted(c))
  /\ \A m \in {"g1", "g2"} : WF_(Life!vars)(part = "handles" /\ Life!MintRuns(m))
  /\ \A m \in {"g1", "g2"} : WF_(Life!vars)(part = "handles" /\ Life!Retire(m))
  /\ \A m \in {"g1", "g2"} : WF_(Life!vars)(part = "handles" /\ Life!Finalizing(m))
  /\ \A m \in {"g1", "g2"} : WF_(Life!vars)(part = "handles" /\ Life!SwitchOffCpu(m))
  /\ \A m \in {"g1", "g2"} : WF_(Life!vars)(part = "handles" /\ Life!SwitchOffGpu(m))
  /\ \A m \in {"g1", "g2"} : WF_(Life!vars)(part = "handles" /\ Life!ServeRuns(m))
  /\ WF_(Life!vars)(part = "handles" /\ Life!WatchPid("x1"))
  /\ WF_(Life!vars)(part = "handles" /\ Life!HandlePidExit("x1"))
  /\ \A h \in {"h1", "h2"} : WF_(Retention!vars)(part = "retention" /\ Retention!Acquiring(h))
  /\ \A h \in {"h1", "h2"} : WF_(Retention!vars)(part = "retention" /\ Retention!Finalizing(h))
  /\ \A h \in {"h1", "h2"} : WF_(Retention!vars)(part = "retention" /\ Retention!Renewing(h))
  /\ \A h \in {"h1", "h2"} : WF_(Retention!vars)(part = "retention" /\ Retention!Deadline(h))
  /\ \A o \in Retention!Ops, h \in {"h1", "h2"} : WF_(Retention!vars)(part = "retention" /\ Retention!Apply(o, h))
  /\ \A c \in {"c1", "c2"} : WF_(Answers!vars)(part = "answers" /\ Answers!Step(c))
  /\ WF_(Reap!vars)(part = "reap" /\ Reap!Issue("r1"))
  /\ WF_(Reap!vars)(part = "reap" /\ Reap!LeaseExpires("r1"))
  /\ WF_(Reap!vars)(part = "reap" /\ Reap!Finalize("r1"))
  /\ WF_(Reap!vars)(part = "reap" /\ Reap!Tick)
  /\ \A i \in {1, 2} : WF_(Loops!vars)(part = "loops" /\ Loops!HbStep(i))
  /\ \A i \in {1, 2} : WF_(Loops!vars)(part = "loops" /\ Loops!SyncStep(i))
  /\ WF_(Loops!vars)(part = "loops" /\ Loops!Monitor)
  /\ WF_(Loops!vars)(part = "loops" /\ Loops!StopJoins)
  /\ WF_(Retiring!vars)(part = "retire" /\ Retiring!SyncStep)
  /\ WF_(Retiring!vars)(part = "retire" /\ Retiring!DemotionStep)
  /\ WF_(Retiring!vars)(part = "retire" /\ Retiring!EndUse)
  /\ WF_(Persist!vars)(part = "persist" /\ Persist!Tick)
  /\ \A i \in {1, 2} : WF_(Persist!vars)(part = "persist" /\ (Persist!WriteBegin(1, i) \/ Persist!WriteBlock(1, i)))

Spec == Init /\ [][Next]_vars /\ Fairness

----------------------------------------------------------------------------
\* When local changes, losses and failures stop, the rows come to agree with the
\* copies the daemon holds, and stay so.
Converges == <>[](part = "converge" => wrk.active /\ rows = local)

CallsEndOwed ==
  \/ part = "sched" /\ due["p1"] = 0
  \/ part = "handles" /\ pc["g1"] # "idle"
  \/ part = "answers" /\ ~Answers!At("c1", "idle")
  \/ part = "loops" /\ stop
  \/ part = "persist" /\ Persist!Running

CallsEndPaid ==
  \/ part = "sched" /\ ("p1" \in torun \/ ~running)
  \/ part = "handles" /\ pc["g1"] \in {"done", "failed"}
  \/ part = "answers" /\ Answers!At("c1", "done")
  \/ part = "loops" /\ Loops!Stopped
  \/ part = "persist" /\ ~Persist!Running

\* Every call that was started ends, and every task that is due runs:
\* - a periodic task whose time has come is run, or the scheduler is stopping;
\* - a mint of a handle lease ends: waiters are woken by success and by failure of
\*   the initialiser;
\* - a caller of a load is answered, whatever fails and whoever resets the signal.
\* - stop() of the lifecycle manager returns although the monitor restarts loops meanwhile;
\* - a persistence task whose tiers are required ends, whatever the Global Store and the disk answer;
CallsEnd == CallsEndOwed ~> CallsEndPaid

NothingStaysOwed ==
  \/ part = "sched" /\ deadline = 0
  \/ part = "exit" /\ "p1" \in dead
  \/ part = "reclaim" /\ "k1" \in resident
  \/ part = "kernel" /\ cap["e1"] # None
  \/ part = "handles" /\ "x1" \in gone /\ "x1" \in tok
  \/ part = "retention" /\ "h1" \in recorded \cup cap
  \/ part = "reap" /\ lease["r1"] = "live"
  \/ part = "retire" /\ Retiring!Queued

NothingStaysPaid ==
  \/ part = "sched" /\ (deadline # 0 \/ ~running)
  \/ part = "exit" /\ Exits!PidGuards("p1") = {} /\ <<"k1", "p1">> \notin refs
  \/ part = "reclaim" /\ ("k1" \notin resident \/ Reclaim!LeasedAgain("k1"))
  \/ part = "kernel" /\ cap["e1"] = None
  \/ part = "handles" /\ "x1" \notin tok
  \/ part = "retention" /\ "h1" \notin recorded \cup cap
  \/ part = "reap" /\ Reap!Gone("r1")
  \/ part = "retire" /\ Retiring!Retired

\* What is over leaves nothing behind:
\* - a guard whose deadline has passed is retired by a later poll;
\* - the leases of a process that died are retired and its references dropped;
\* - a copy whose leases are all retired is unloaded, even when an unload fails,
\*   unless it is leased again;
\* - a capability that was minted is erased;
\* - the callback of an external lease runs after its process has exited, even one
\*   that exits between the mint and the watch;
\* - no record and no capability stays behind a retention handle;
\* - a payload lease that was created ends with nothing of its reference left.
\* - a replica put on the retire queue leaves it, however it is used or loaded meanwhile;
NothingStays == NothingStaysOwed ~> NothingStaysPaid

============================================================================

----------------------------- MODULE MCDaemon ------------------------------
(***************************************************************************)
(* Small instances of the leases, handles, tasks and bindings of a daemon. *)
(* The suite is a sum: part says which instance a behaviour is of, and the *)
(* variables that this instance does not have stay None.                   *)
(***************************************************************************)
EXTENDS Integers, Sequences, FiniteSets

CONSTANTS None

VARIABLES part,
          info, mk, rt, rpc, unw, ran, gen, heap, expired, renewed, refs, resident,
          pend, sweep, evict, watched, dead, ext, extUnw, cb, snap, cap, addr,
          bind, guards, now, released, pc, cur, ex, st, tok, lease, flag, held,
          off, serve, mu, cleaned, gone, kind, at, exp, due, fin, rec, reg, owner,
          retired, reader, tasks, job, file, meta, location, durable, sources, log,
          restarts, view, regmap, quiesced, routable, rid, gs, staged, region, why,
          sweeper, calls, mem, call, jobs, pubs, latest, scope, caps, replica, life,
          ending, expiring, grouped, att, erase, tx, acquires

SessionLifecycleVars == <<info, mk, rt, rpc, unw, ran, gen, heap, expired, renewed,
                          resident, pend, sweep, evict, watched, dead, ext, extUnw,
                          cb, snap>>
NoSessionLifecycle == /\ info = None /\ mk = None /\ rt = None /\ rpc = None
                      /\ unw = None /\ ran = None /\ gen = None /\ heap = None
                      /\ expired = None /\ renewed = None /\ resident = None
                      /\ pend = None /\ sweep = None /\ evict = None
                      /\ watched = None /\ dead = None /\ ext = None /\ extUnw = None
                      /\ cb = None /\ snap = None
HandleLeasesVars == <<cur, ex, st, tok, flag, held, off, serve, cleaned, gone>>
NoHandleLeases == /\ cur = None /\ ex = None /\ st = None /\ tok = None
                  /\ flag = None /\ held = None /\ off = None /\ serve = None
                  /\ cleaned = None /\ gone = None
PayloadRefsVars == <<at, exp, fin, retired, reader>>
NoPayloadRefs == /\ at = None /\ exp = None /\ fin = None /\ retired = None
                 /\ reader = None
PersistenceTasksVars == <<tasks, job, file, meta, location, durable, sources, log,
                          restarts>>
NoPersistenceTasks == /\ tasks = None /\ job = None /\ file = None /\ meta = None
                      /\ location = None /\ durable = None /\ sources = None
                      /\ log = None /\ restarts = None
LipLeasesVars == <<view, regmap, quiesced, routable, rid, gs, staged, region, why,
                   sweeper>>
NoLipLeases == /\ view = None /\ regmap = None /\ quiesced = None /\ routable = None
               /\ rid = None /\ gs = None /\ staged = None /\ region = None
               /\ why = None /\ sweeper = None
BindingValuesVars == <<mem, call, jobs, pubs, latest, scope, caps, replica, life,
                       ending, expiring>>
NoBindingValues == /\ mem = None /\ call = None /\ jobs = None /\ pubs = None
                   /\ latest = None /\ scope = None /\ caps = None /\ replica = None
                   /\ life = None /\ ending = None /\ expiring = None
BindingLifetimesVars == <<grouped, att, erase, tx, acquires>>
NoBindingLifetimes == /\ grouped = None /\ att = None /\ erase = None /\ tx = None
                      /\ acquires = None

vars == <<part, refs, cap, addr, bind, guards, now, released, pc, lease, mu, kind,
          due, rec, reg, owner, calls, SessionLifecycleVars, HandleLeasesVars,
          PayloadRefsVars, PersistenceTasksVars, LipLeasesVars, BindingValuesVars,
          BindingLifetimesVars>>

Sessions == INSTANCE SessionLifecycle WITH
    Leases <- {"l1"}, Keys <- {"k1"}, Pids <- {"p1"},
    Kinds <- {"use", "pin", "commit"}, Share <- TRUE,
    Calls <- {"rpc", "evict", "watch_pid", "ttl", "exit"}, MaxGen <- 2

Exports == INSTANCE HandleLeases WITH
    CpuMints <- {"c1", "c2"}, GpuMints <- {}, ExtMints <- {}, Caps <- {"c1", "c2"},
    Bound <- {"c1", "c2"}, Guards <- {"c1", "c2"}, Capacity <- 2,
    EarlyRetire <- TRUE, InitMayFail <- TRUE, Lifetimes <- {}, MaxTime <- 0

Life == INSTANCE HandleLeases WITH
    CpuMints <- {}, GpuMints <- {"g1", "g2"}, ExtMints <- {"x1"},
    Caps <- {"g1", "g2"}, Bound <- {"g1", "g2"}, Guards <- {"g1", "g2"},
    Capacity <- 2, EarlyRetire <- FALSE, InitMayFail <- TRUE, Lifetimes <- {},
    MaxTime <- 0

Payload == INSTANCE PayloadRefs WITH
    Refs <- {"r1", "r2"}, Readers <- {"c1"}, Kinds <- {"inline", "body"}, Ttl <- 1,
    MaxTime <- 2, Prompt <- FALSE

Regions == INSTANCE PayloadRefs WITH
    Refs <- {"r1", "r2"}, Readers <- {"c1"}, Kinds <- {"segments", "regions"},
    Ttl <- 1, MaxTime <- 2, Prompt <- FALSE

Persist == INSTANCE PersistenceTasks WITH
    MaxTasks <- 1, MaxRestarts <- 1, MaxAttempts <- 2,
    Remotes <- {"none", "should", "must"}, Disks <- {"none", "should", "must"},
    Layouts <- {"one", "two"}

Lip == INSTANCE LipLeases WITH
    Regs <- {"r1", "r2"}, Tokens <- {"t1"}, MaxCalls <- 3

Values == INSTANCE BindingValues WITH
    Callers <- {"c1", "c2"},
    Ops <- {"refill", "update", "commit", "seal", "freeze", "promote", "job", "close"},
    MaxGen <- 2, MaxPubs <- 2, MaxCalls <- 2, MaxJobs <- 2

Publish == INSTANCE BindingValues WITH
    Callers <- {"c1", "c2"},
    Ops <- {"refill", "commit", "publish", "retire", "exit", "expire"},
    MaxGen <- 2, MaxPubs <- 2, MaxCalls <- 3, MaxJobs <- 2

Bindings == INSTANCE BindingLifetimes WITH
    Workers <- {"w1", "w2"}, Kinds <- {"client", "owned", "serving"},
    MaxAcquires <- 2

InitSessions ==
  /\ part = "leases" /\ Sessions!Init
  /\ cap = None /\ addr = None /\ bind = None /\ guards = None /\ now = None
  /\ released = None /\ pc = None /\ lease = None /\ mu = None /\ kind = None
  /\ due = None /\ rec = None /\ reg = None /\ owner = None /\ calls = None
  /\ NoHandleLeases /\ NoPayloadRefs /\ NoPersistenceTasks
  /\ NoLipLeases /\ NoBindingValues /\ NoBindingLifetimes

SessionsStep ==
  /\ part = "leases" /\ Sessions!Next
  /\ UNCHANGED <<part, cap, addr, bind, guards, now, released, pc, lease, mu, kind,
                 due, rec, reg, owner, calls, HandleLeasesVars,
                 PayloadRefsVars, PersistenceTasksVars,
                 LipLeasesVars, BindingValuesVars, BindingLifetimesVars>>

InitExports ==
  /\ part = "exports" /\ Exports!Init
  /\ refs = None /\ kind = None /\ due = None /\ rec = None /\ reg = None
  /\ owner = None /\ calls = None /\ NoSessionLifecycle
  /\ NoPayloadRefs /\ NoPersistenceTasks /\ NoLipLeases /\ NoBindingValues
  /\ NoBindingLifetimes

ExportsStep ==
  /\ part = "exports" /\ Exports!Next
  /\ UNCHANGED <<part, refs, kind, due, rec, reg, owner, calls,
                 SessionLifecycleVars, PayloadRefsVars,
                 PersistenceTasksVars, LipLeasesVars, BindingValuesVars,
                 BindingLifetimesVars>>

InitLife ==
  /\ part = "handles" /\ Life!Init
  /\ refs = None /\ kind = None /\ due = None /\ rec = None /\ reg = None
  /\ owner = None /\ calls = None /\ NoSessionLifecycle
  /\ NoPayloadRefs /\ NoPersistenceTasks /\ NoLipLeases /\ NoBindingValues
  /\ NoBindingLifetimes

LifeStep ==
  /\ part = "handles" /\ Life!Next
  /\ UNCHANGED <<part, refs, kind, due, rec, reg, owner, calls,
                 SessionLifecycleVars, PayloadRefsVars,
                 PersistenceTasksVars, LipLeasesVars, BindingValuesVars,
                 BindingLifetimesVars>>

InitPayload ==
  /\ part = "payload" /\ Payload!Init
  /\ refs = None /\ addr = None /\ bind = None /\ guards = None /\ released = None
  /\ pc = None /\ calls = None /\ NoSessionLifecycle /\ NoHandleLeases
  /\ NoPersistenceTasks /\ NoLipLeases /\ NoBindingValues
  /\ NoBindingLifetimes

PayloadStep ==
  /\ part = "payload" /\ Payload!Next
  /\ UNCHANGED <<part, refs, addr, bind, guards, released, pc, calls,
                 SessionLifecycleVars, HandleLeasesVars, PersistenceTasksVars, LipLeasesVars, BindingValuesVars,
                 BindingLifetimesVars>>

InitRegions ==
  /\ part = "regions" /\ Regions!Init
  /\ refs = None /\ addr = None /\ bind = None /\ guards = None /\ released = None
  /\ pc = None /\ calls = None /\ NoSessionLifecycle /\ NoHandleLeases
  /\ NoPersistenceTasks /\ NoLipLeases /\ NoBindingValues
  /\ NoBindingLifetimes

RegionsStep ==
  /\ part = "regions" /\ Regions!Next
  /\ UNCHANGED <<part, refs, addr, bind, guards, released, pc, calls,
                 SessionLifecycleVars, HandleLeasesVars, PersistenceTasksVars, LipLeasesVars, BindingValuesVars,
                 BindingLifetimesVars>>

InitPersist ==
  /\ part = "persist" /\ Persist!Init
  /\ refs = None /\ cap = None /\ addr = None /\ bind = None /\ guards = None
  /\ now = None /\ released = None /\ pc = None /\ lease = None /\ mu = None
  /\ kind = None /\ due = None /\ rec = None /\ reg = None /\ owner = None
  /\ calls = None /\ NoSessionLifecycle /\ NoHandleLeases
  /\ NoPayloadRefs /\ NoLipLeases /\ NoBindingValues /\ NoBindingLifetimes

PersistStep ==
  /\ part = "persist" /\ Persist!Next
  /\ UNCHANGED <<part, refs, cap, addr, bind, guards, now, released, pc, lease, mu,
                 kind, due, rec, reg, owner, calls, SessionLifecycleVars,
                 HandleLeasesVars, PayloadRefsVars,
                 LipLeasesVars, BindingValuesVars, BindingLifetimesVars>>

InitLip ==
  /\ part = "lip" /\ Lip!Init
  /\ cap = None /\ addr = None /\ bind = None /\ guards = None /\ now = None
  /\ released = None /\ mu = None /\ kind = None /\ due = None /\ rec = None
  /\ reg = None /\ NoSessionLifecycle /\ NoHandleLeases
  /\ NoPayloadRefs /\ NoPersistenceTasks /\ NoBindingValues /\ NoBindingLifetimes

LipStep ==
  /\ part = "lip" /\ Lip!Next
  /\ UNCHANGED <<part, cap, addr, bind, guards, now, released, mu, kind, due, rec,
                 reg, SessionLifecycleVars, HandleLeasesVars, PayloadRefsVars, PersistenceTasksVars, BindingValuesVars,
                 BindingLifetimesVars>>

InitValues ==
  /\ part = "values" /\ Values!Init
  /\ refs = None /\ cap = None /\ addr = None /\ bind = None /\ guards = None
  /\ now = None /\ released = None /\ pc = None /\ mu = None /\ kind = None
  /\ due = None /\ reg = None /\ owner = None /\ NoSessionLifecycle /\ NoHandleLeases
  /\ NoPayloadRefs /\ NoPersistenceTasks /\ NoLipLeases
  /\ NoBindingLifetimes

ValuesStep ==
  /\ part = "values" /\ Values!Next
  /\ UNCHANGED <<part, refs, cap, addr, bind, guards, now, released, pc, mu, kind,
                 due, reg, owner, SessionLifecycleVars, HandleLeasesVars,
                 PayloadRefsVars, PersistenceTasksVars,
                 LipLeasesVars, BindingLifetimesVars>>

InitPublish ==
  /\ part = "publish" /\ Publish!Init
  /\ refs = None /\ cap = None /\ addr = None /\ bind = None /\ guards = None
  /\ now = None /\ released = None /\ pc = None /\ mu = None /\ kind = None
  /\ due = None /\ reg = None /\ owner = None /\ NoSessionLifecycle /\ NoHandleLeases
  /\ NoPayloadRefs /\ NoPersistenceTasks /\ NoLipLeases
  /\ NoBindingLifetimes

PublishStep ==
  /\ part = "publish" /\ Publish!Next
  /\ UNCHANGED <<part, refs, cap, addr, bind, guards, now, released, pc, mu, kind,
                 due, reg, owner, SessionLifecycleVars, HandleLeasesVars,
                 PayloadRefsVars, PersistenceTasksVars,
                 LipLeasesVars, BindingLifetimesVars>>

InitBindings ==
  /\ part = "bindings" /\ Bindings!Init
  /\ refs = None /\ cap = None /\ addr = None /\ bind = None /\ guards = None
  /\ now = None /\ released = None /\ mu = None /\ calls = None /\ NoSessionLifecycle
  /\ NoHandleLeases /\ NoPayloadRefs /\ NoPersistenceTasks
  /\ NoLipLeases /\ NoBindingValues

BindingsStep ==
  /\ part = "bindings" /\ Bindings!Next
  /\ UNCHANGED <<part, refs, cap, addr, bind, guards, now, released, mu, calls,
                 SessionLifecycleVars, HandleLeasesVars, PayloadRefsVars, PersistenceTasksVars, LipLeasesVars,
                 BindingValuesVars>>

Init ==
  \/ InitSessions \/ InitExports \/ InitLife \/ InitPayload \/ InitRegions
  \/ InitPersist \/ InitLip \/ InitValues \/ InitPublish \/ InitBindings

Next ==
  \/ SessionsStep \/ ExportsStep \/ LifeStep \/ PayloadStep \/ RegionsStep
  \/ PersistStep \/ LipStep \/ ValuesStep \/ PublishStep \/ BindingsStep

Spec == Init /\ [][Next]_vars

----------------------------------------------------------------------------
\* Every variable has its type, in each component.
TypeOK ==
  /\ part = "leases" => Sessions!TypeOK
  /\ part = "exports" => Exports!TypeOK
  /\ part = "payload" => Payload!TypeOK
  /\ part = "lip" => Lip!TypeOK
  /\ part = "values" => Values!TypeOK
  /\ part = "bindings" => Bindings!TypeOK

\* A count of holders is the number of holders, on every path that fails halfway:
\* - An export state is in the map exactly while somebody holds it, and its
\*   refcount is the number of holders, on every path of mints that fail.
\* - The refcount of an IPC region covers every export that reads it and every one
\*   being made, however commits, revocations and sweeps of a lease overlap.
\* - A binding record that an attachment counts on is not erased, and counts it.
CountsMatch ==
  /\ part = "exports" => Exports!RefsCounted
  /\ part = "lip" => Lip!RefsCover
  /\ part = "bindings" => Bindings!AttachedKept

\* What is in use, recorded or registered has its backing and its owner:
\* - While a handle lease is active its export state is initialised, the stable
\*   lease held and the fd open.
\* - A reader that holds the body handle of a payload reference never finds the
\*   body retired by the broker.
\* - A registration of the communicator always has somebody who will take it
\*   back: the issuing call, the record, or the finalizer.
\* - The memory of regions stays alive as long as it is registered with the
\*   communicator.
\* - The memory copy may be evicted on account of the disk only when the Global
\*   Store knows a described directory with every block in it.
\* - A lease in place is named by the registration it was committed under.
\* - A publication token in the record of a binding is for its current value.
\* - The export lease keeps the binding record while its owner lives.
UsesBacked ==
  /\ part = "exports" => Exports!LeaseIsBacked
  /\ part = "payload" => Payload!ReaderBacked
  /\ part = "payload" => Payload!RegistrationOwned
  /\ part = "regions" => Regions!RegisteredAlive
  /\ part = "persist" => Persist!EvictableIsOnDisk
  /\ part = "lip" => Lip!LeaseReachable
  /\ part = "values" => Values!TokenCurrent
  /\ part = "bindings" => Bindings!ExportedKept

\* What is over is over once, and leaves nothing:
\* - "Each Lease runs its finalizers at most once", whether it is released,
\*   expires, and loses its process at the same time.
\* - When every mint has ended and every lease is retired, no export state, stable
\*   lease, fd, token or capability remains.
\* - The callback of an external lease runs at most once, whether the holder
\*   releases the token, the process exits, or both.
\* - An IPC region that goes because it is idle has no export left.
\* - A published replica has somebody who will take it back.
\* - A binding record nobody has a reason to keep is on its way out.
\* - A binding whose creation failed leaves nothing behind.
OverOnce ==
  /\ part = "leases" => Sessions!FinalizersOnce
  /\ part = "handles" => Life!NothingLeaks
  /\ part = "handles" => Life!CleanedOnce
  /\ part = "lip" => Lip!IdleRegionUnused
  /\ part = "publish" => Publish!ReplicaOwned
  /\ part = "bindings" => Bindings!UnkeptErased
  /\ part = "bindings" => Bindings!FailedGone

\* What is reported as done has been done:
\* - A persistence task that ends well has every tier its policy requires.
DoneIsDone ==
  /\ part = "persist" => Persist!RequiredTiersHold

\* A published value is not replaced by another one; a refill that had begun
\* before and fails may only declare it dirty.
GuardKeepsValue == [][part = "publish" => Publish!GuardKeepsValueStep]_vars

============================================================================

------------------------------ MODULE MCStore ------------------------------
(***************************************************************************)
(* Small instances of the store core and of what clients hold on it: the   *)
(* stable DRAM cache, the unified memory authority, the loads of a         *)
(* replica, the capabilities of the lifecycle kernel and the retention     *)
(* handles.  The suite is a sum: part says which instance a behaviour is   *)
(* of, and the variables that this instance does not have stay None.       *)
(***************************************************************************)
EXTENDS Integers, Sequences, FiniteSets

CONSTANTS None

\* Of Stable, an instance of StableCache.
CONSTANTS Keys, Threads, Evictors, Unloadable, StableBudget, Policies

\* Of Load, an instance of ReplicaLoad.
CONSTANTS Callers

\* Of Ledger, an instance of UnifiedMemory.
CONSTANTS LedgerClients, NumChunks, LedgerBudget, LedgerTargets, Exports

\* Of Chunks, an instance of UnifiedMemory.
CONSTANTS ChunksClients, ChunksBudget, ChunksTargets

\* Of Kernel, an instance of LifecycleKernel.
CONSTANTS Caps, Bound, Guards, Lifetimes, MaxTime

\* Of Retention, an instance of RetentionHandles.
CONSTANTS Handles, Ranks

\* At most one thread makes calls that evict: two of them may release the lease of
\* one entry twice.  None is not a policy.
ASSUME StableAssumption ==
  /\ IsFiniteSet(Keys) /\ IsFiniteSet(Threads)
  /\ Evictors \subseteq Threads /\ \A s, t \in Evictors : s = t
  /\ StableBudget \in Nat /\ Policies \subseteq {"best", "ttl", "pinned", "required"}
  /\ None \notin {"best", "ttl", "pinned", "required"}

\* Finitely many callers, none of which is None.
ASSUME LoadAssumption ==
  /\ IsFiniteSet(Callers) /\ None \notin Callers

\* A replica has at least one chunk.
ASSUME LedgerAssumption ==
  /\ NumChunks \in Nat \ {0} /\ IsFiniteSet(LedgerClients) /\ IsFiniteSet(ChunksClients)
  /\ LedgerBudget \in Nat /\ ChunksBudget \in Nat /\ Exports \in BOOLEAN
  /\ LedgerTargets \subseteq {"CPU", "GPU"} /\ ChunksTargets \subseteq {"CPU", "GPU"}

\* Finitely many guards; None is neither a capability nor an entry.
ASSUME KernelAssumption ==
  /\ IsFiniteSet(Guards) /\ Lifetimes \subseteq Nat /\ MaxTime \in Nat
  /\ None \notin Caps /\ None \notin [state : {"active", "draining", "expired"}, exp : Nat, uses : Nat]

\* The ranks of the four retention policies; None is not one of them.
ASSUME RetentionAssumption ==
  Ranks \subseteq 0..3 /\ None \notin 0..3

VARIABLES part,
          entry, leases, used, cached, exports, run, st, slot, sig, call, gate,
          alloc, cpu, gpu, counter, gpuMem, pins, expCpu, expGpu, advised, held,
          record, exporter, cap, addr, bind, guards, now, released,
          phase, policy, lease, recorded, renewal, pending, cache

StableCacheVars == <<entry, cached, exports, run>>
NoStableCache == /\ entry = None /\ cached = None /\ exports = None /\ run = None
ReplicaLoadVars == <<st, slot, sig, call, gate>>
NoReplicaLoad == /\ st = None /\ slot = None /\ sig = None /\ call = None
                 /\ gate = None
UnifiedMemoryVars == <<alloc, cpu, gpu, counter, gpuMem, pins, expCpu, expGpu,
                       advised, held, record, exporter>>
NoUnifiedMemory == /\ alloc = None /\ cpu = None /\ gpu = None /\ counter = None
                   /\ gpuMem = None /\ pins = None /\ expCpu = None /\ expGpu = None
                   /\ advised = None /\ held = None /\ record = None
                   /\ exporter = None
LifecycleKernelVars == <<addr, bind, guards, now, released>>
NoLifecycleKernel == /\ addr = None /\ bind = None /\ guards = None /\ now = None
                     /\ released = None
RetentionHandlesVars == <<phase, policy, lease, recorded, renewal, pending, cache>>
NoRetentionHandles == /\ phase = None /\ policy = None /\ lease = None
                      /\ recorded = None /\ renewal = None /\ pending = None
                      /\ cache = None

\* What the parts have that keep no capabilities, and those that do.
HoldVars == <<cap, LifecycleKernelVars, RetentionHandlesVars>>
NoHold == cap = None /\ NoLifecycleKernel /\ NoRetentionHandles
StoreVars == <<leases, used, StableCacheVars, ReplicaLoadVars, UnifiedMemoryVars>>
NoStore == leases = None /\ used = None /\ NoStableCache /\ NoReplicaLoad /\ NoUnifiedMemory

vars == <<part, StoreVars, HoldVars>>

Stable == INSTANCE StableCache WITH
    Budget <- StableBudget

Load == INSTANCE ReplicaLoad WITH
    Targets <- {"GPU"}, Faults <- {"open", "map"}, Releases <- {}

Ledger == INSTANCE UnifiedMemory WITH
    Clients <- LedgerClients, Budget <- LedgerBudget, Targets <- LedgerTargets,
    Releases <- FALSE

Chunks == INSTANCE UnifiedMemory WITH
    Clients <- ChunksClients, Budget <- ChunksBudget, Targets <- ChunksTargets,
    Exports <- FALSE, Releases <- TRUE

Kernel == INSTANCE LifecycleKernel

Retention == INSTANCE RetentionHandles WITH
    Policies <- Ranks, Renewals <- TRUE, EarlyRetire <- FALSE, AdmitMayFail <- TRUE

InitStable ==
  /\ part = "stable" /\ Stable!StableCacheInit
  /\ NoReplicaLoad /\ NoUnifiedMemory /\ NoHold

StableStep ==
  /\ part = "stable" /\ Stable!Next
  /\ UNCHANGED <<part, ReplicaLoadVars, UnifiedMemoryVars, HoldVars>>

InitLoad ==
  /\ part = "load" /\ Load!ReplicaInit
  /\ leases = None /\ used = None /\ NoStableCache /\ NoUnifiedMemory /\ NoHold

LoadStep ==
  /\ part = "load" /\ Load!Next
  /\ UNCHANGED <<part, leases, used, StableCacheVars, UnifiedMemoryVars, HoldVars>>

InitLedger ==
  /\ part = "ledger" /\ Ledger!UnifiedMemoryInit
  /\ NoStableCache /\ NoReplicaLoad /\ NoHold

LedgerStep ==
  /\ part = "ledger" /\ Ledger!UnifiedMemoryNext
  /\ UNCHANGED <<part, StableCacheVars, ReplicaLoadVars, HoldVars>>

InitChunks ==
  /\ part = "chunks" /\ Chunks!UnifiedMemoryInit
  /\ NoStableCache /\ NoReplicaLoad /\ NoHold

ChunksStep ==
  /\ part = "chunks" /\ Chunks!UnifiedMemoryNext
  /\ UNCHANGED <<part, StableCacheVars, ReplicaLoadVars, HoldVars>>

InitKernel ==
  /\ part = "kernel" /\ Kernel!KernelInit
  /\ NoStore /\ NoRetentionHandles

KernelStep ==
  /\ part = "kernel" /\ Kernel!KernelNext
  /\ UNCHANGED <<part, StoreVars, RetentionHandlesVars>>

InitRetention ==
  /\ part = "retention" /\ Retention!RetentionInit
  /\ NoStore /\ NoLifecycleKernel

RetentionStep ==
  /\ part = "retention" /\ Retention!Next
  /\ UNCHANGED <<part, StoreVars, LifecycleKernelVars>>

Init ==
  \/ InitStable \/ InitLoad \/ InitLedger \/ InitChunks \/ InitKernel \/ InitRetention

Next ==
  \/ StableStep \/ LoadStep \/ LedgerStep \/ ChunksStep \/ KernelStep \/ RetentionStep

Spec == Init /\ [][Next]_vars

----------------------------------------------------------------------------
\* Every variable has its type, in each component.
TypeOK ==
  /\ part = "stable" => Stable!TypeOK
  /\ part = "load" => Load!TypeOK
  /\ part = "ledger" => Ledger!TypeOK
  /\ part = "kernel" => Kernel!KernelTypeOK
  /\ part = "retention" => Retention!TypeOK

\* A ledger, a budget or a counter agrees with what it counts:
\* - Every stable lease is owned by the entry of its key, by an export, or by a call
\*   in progress, and the budget is charged with exactly the leases that exist.
\* - bytes_used_ is the size of the cache whenever no call is in progress.
\* - A chunk is STABLE in the ledger exactly while somebody holds a stable lease on
\*   it, through commits, refusals, preemption and releases of other leases.
\* - The bytes charged to the tier budget are those of the leases counted in the
\*   ledger, through refusals, roll-backs and exports.
\* - The counter behind the fast path of is_gpu_loading_complete never counts a
\*   chunk that the records do not show on the device.
\* - The number of uses of a capability is the number of guards that name it, and
\*   a guard never names an erased entry.
LedgersMatch ==
  /\ part = "stable" => Stable!LeasesAccounted
  /\ part = "stable" => Stable!CachedMatches
  /\ part = "ledger" => Ledger!StableIffLeased
  /\ part = "ledger" => Ledger!BudgetMatches
  /\ part = "chunks" => Chunks!CounterSound
  /\ part = "kernel" => Kernel!GuardsCounted

\* At most one transfer at a time writes the memory of a location, and the
\* state says so for as long as it runs.
OneLoad == part = "load" => Load!OneLoad

\* No step gives the pages of a chunk to the kernel while a pin handle or a
\* stable lease covers the chunk.
PinnedNotAdvised == [][part = "ledger" => Ledger!PinnedNotAdvisedStep]_vars

\* What a client holds ends, and what has ended stays so:
\* - Once released and with no guard out, nothing is left of a capability.
\* - A released capability never becomes active again.
\* - "Handles MUST expire": a recorded retention handle still has a lease whose
\*   finalizers will expire it.
HoldsEnd ==
  /\ part = "kernel" => Kernel!ReleasedIsErased
  /\ part = "kernel" => Kernel!NoRevival
  /\ part = "retention" => Retention!RecordedHasLease

\* Admission fails closed when it races with release or expiry: a new guard is
\* for a capability that is neither released nor over.
AdmitFailsClosed == [][part = "kernel" => Kernel!AdmitFailsClosedStep]_vars

============================================================================

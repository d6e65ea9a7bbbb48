---------------------------- MODULE StoreProofs ----------------------------
(***************************************************************************)
(* Proofs about the suite MCStore for every value of its constants: one    *)
(* transfer at a time writes the memory of a location, and no pages under  *)
(* a pin or a lease are given to the kernel.  What the stable cache, the   *)
(* chunk ledger, the lifecycle kernel and the retention handles promise is *)
(* proved in StorePartsProofs and UnifiedMemoryProofs and taken over at    *)
(* the end.                                                                *)
(***************************************************************************)
EXTENDS MCStore, FiniteSetTheorems, TLAPS

USE SMTT(20), ZenonT(20)

\* A set whose elements are all the same has at most one.
LEMMA AtMostOne ==
  ASSUME NEW S, \A x, y \in S : x = y
  PROVE  Cardinality(S) <= 1
<1>1. CASE S = {}
  BY <1>1, FS_EmptySet
<1>2. CASE S # {}
  <2> PICK x \in S : TRUE
    BY <1>2
  <2>1. S = {x}
    OBVIOUS
  <2> QED BY <2>1, FS_Singleton
<1> QED BY <1>1, <1>2

\* The cardinality that the component takes from its own copy of FiniteSets.
LEMMA SameCardinality == \A S : Load!Cardinality(S) = Cardinality(S)
BY Zenon DEF Load!Cardinality, Cardinality

----------------------------------------------------------------------------
(* The loads of a replica. *)

\* A caller between the publication of its signal and the end of its load.
Loading(c) == call[c].at \in {"open", "mark", "gate", "pump"}

\* With no fault but of the source, the GPU is never FAILED and the CPU never
\* allocated.  One caller at most is loading; the state follows it, and the
\* gate is its own.
LoadInv ==
  /\ st \in [{"CPU", "GPU"} -> {"UNALLOCATED", "ALLOCATED", "LOADING", "LOADED"}]
  /\ st["CPU"] = "UNALLOCATED"
  /\ slot \in [{"CPU", "GPU"} -> Callers \union {None}]
  /\ sig \in [Callers -> {"open", "ok", "err"}]
  /\ call \in [Callers -> [at : {"idle", "enter", "wait", "open", "close", "mark", "gate", "pump", "done"},
                           loc : {"CPU", "GPU"}, on : Callers \union {None}]]
  /\ \A c \in Callers :
       /\ call[c].at # "idle" => call[c].loc = "GPU"
       /\ call[c].at = "wait" => call[c].on \in Callers
       /\ call[c].at \in {"open", "mark"} => st["GPU"] = "ALLOCATED"
       /\ call[c].at \in {"gate", "pump"} => st["GPU"] = "LOADING" /\ gate = <<c>>
  /\ \A c, d \in Callers : Loading(c) /\ Loading(d) => c = d
  /\ (\A c \in Callers : call[c].at \notin {"gate", "pump"}) => gate = <<>>

\* Nobody loads at the start.
LEMMA LoadInit == InitLoad => LoadInv
BY DEF InitLoad, Load!ReplicaInit, LoadInv, Load!Idle, Load!Locations, Loading

\* A call begins.
LEMMA LoadBegin ==
  ASSUME LoadInv, NEW c \in Callers, Load!Begin(c, "GPU")
  PROVE  LoadInv'
<1>1. call' = [call EXCEPT ![c] = [at |-> "enter", loc |-> "GPU", on |-> None]]
  BY Zenon DEF LoadInv, Load!Begin
<1>2. UNCHANGED <<st, slot, sig, gate>> /\ call[c].at = "idle"
  BY DEF Load!Begin, Load!At
<1> QED BY <1>1, <1>2 DEF LoadInv, Loading

\* The names of the model that the steps use.
LEMMA LoadTypes ==
  ASSUME LoadInv
  PROVE  /\ \A c \in Callers : call[c].at \notin {"recover", "reset", "unslot", "copy", "copying"}
         /\ \A l : st[l] = "FAILED" => l \notin {"CPU", "GPU"}
BY DEF LoadInv

\* A caller joins, waits or is answered.
LEMMA LoadJoins ==
  ASSUME LoadInv, NEW c \in Callers, Load!Join(c) \/ Load!Answer(c)
  PROVE  LoadInv'
<1>1. /\ UNCHANGED <<st, slot, gate>> /\ call[c].at \in {"enter", "wait"}
      /\ sig' \in [Callers -> {"open", "ok", "err"}]
      /\ \/ call' = [call EXCEPT ![c].at = "done"]
         \/ /\ call' = [call EXCEPT ![c].at = "wait", ![c].on = slot["GPU"]]
            /\ slot["GPU"] # None
  BY DEF LoadInv, Load!Join, Load!Answer, Load!Fulfil, Load!Goto, Load!At, Load!Loc
<1>2. CASE call' = [call EXCEPT ![c].at = "done"]
  BY <1>1, <1>2 DEF LoadInv, Loading
<1>3. CASE call' = [call EXCEPT ![c].at = "wait", ![c].on = slot["GPU"]] /\ slot["GPU"] # None
  BY <1>1, <1>3 DEF LoadInv, Loading
<1> QED BY <1>1, <1>2, <1>3

\* A caller becomes the producer: the state was UNALLOCATED, so nobody is one.
LEMMA LoadProduces ==
  ASSUME LoadInv, NEW c \in Callers, Load!Produce(c)
  PROVE  LoadInv'
<1>1. /\ call[c].at = "enter" /\ st["GPU"] = "UNALLOCATED"
      /\ st' = [st EXCEPT !["GPU"] = "ALLOCATED"] /\ slot' = [slot EXCEPT !["GPU"] = c]
      /\ call' = [call EXCEPT ![c].at = "open"] /\ UNCHANGED <<sig, gate>>
  BY DEF LoadInv, Load!Produce, Load!Goto, Load!At, Load!Loc, Load!Other, Load!SetState
<1>2. \A d \in Callers : ~Loading(d)
  BY <1>1 DEF LoadInv, Loading
<1> QED BY <1>1, <1>2 DEF LoadInv, Loading

\* The source is opened, or is not.
LEMMA LoadOpens ==
  ASSUME LoadInv, NEW c \in Callers, Load!Open(c) \/ Load!Close(c)
  PROVE  LoadInv'
<1>1. CASE Load!Close(c)
  <2>1. /\ call[c].at = "close" /\ slot' = [slot EXCEPT !["GPU"] = None]
        /\ sig' = [sig EXCEPT ![c] = "err"]
        /\ call' = [call EXCEPT ![c].at = "done"] /\ UNCHANGED <<st, gate>>
    BY <1>1, ZenonT(40) DEF LoadInv, Load!Close, Load!Fulfil, Load!Goto, Load!At, Load!Loc
  <2> QED BY <2>1 DEF LoadInv, Loading
<1>2. CASE Load!Open(c)
  <2>1. call[c].at = "open" /\ call[c].loc = "GPU" /\ st["GPU"] = "ALLOCATED" /\ UNCHANGED <<slot, gate>>
    BY <1>2 DEF LoadInv, Load!Open, Load!At
  <2>2. \A d \in Callers : Loading(d) => d = c
    BY <2>1 DEF LoadInv, Loading
  <2>3. \/ call' = [call EXCEPT ![c].at = "mark"] /\ UNCHANGED <<st, sig>>
        \/ /\ st' = [st EXCEPT !["GPU"] = "UNALLOCATED"] /\ UNCHANGED sig
           /\ call' = [call EXCEPT ![c].at = "close"]
        \/ /\ sig' = [sig EXCEPT ![c] = "err"] /\ UNCHANGED st
           /\ call' = [call EXCEPT ![c].at = "done"]
    BY <1>2, <2>1 DEF Load!Open, Load!Goto, Load!Fulfil, Load!Loc, Load!Releasable, Load!AfterRelease
  <2>4. CASE call' = [call EXCEPT ![c].at = "mark"] /\ UNCHANGED <<st, sig>>
    BY <2>1, <2>2, <2>4 DEF LoadInv, Loading
  <2>5. CASE /\ st' = [st EXCEPT !["GPU"] = "UNALLOCATED"] /\ UNCHANGED sig
             /\ call' = [call EXCEPT ![c].at = "close"]
    BY <2>1, <2>2, <2>5 DEF LoadInv, Loading
  <2>6. CASE /\ sig' = [sig EXCEPT ![c] = "err"] /\ UNCHANGED st
             /\ call' = [call EXCEPT ![c].at = "done"]
    BY <2>1, <2>2, <2>6 DEF LoadInv, Loading
  <2> QED BY <2>3, <2>4, <2>5, <2>6
<1> QED BY <1>1, <1>2

\* The transfer is queued, passes the gate and ends.
LEMMA LoadTransfers ==
  ASSUME LoadInv, NEW c \in Callers, Load!Mark(c) \/ Load!PumpStart(c) \/ Load!PumpEnd(c)
  PROVE  LoadInv'
<1>1. CASE Load!Mark(c)
  <2>1. call[c].at = "mark" /\ call[c].loc = "GPU"
    BY <1>1 DEF LoadInv, Load!Mark, Load!At
  <2>2. \A d \in Callers : Loading(d) => d = c
    BY <2>1 DEF LoadInv, Loading
  <2>3. gate = <<>>
    BY <2>1, <2>2 DEF LoadInv, Loading
  <2>4. /\ st' = [st EXCEPT !["GPU"] = "LOADING"] /\ gate' = <<c>>
        /\ call' = [call EXCEPT ![c].at = "gate"] /\ UNCHANGED <<slot, sig>>
    BY <1>1, <2>1, <2>3 DEF Load!Mark, Load!SetState, Load!Goto, Load!Loc
  <2> QED BY <2>1, <2>2, <2>4 DEF LoadInv, Loading
<1>2. CASE Load!PumpStart(c)
  <2>1. call[c].at = "gate" /\ call[c].loc = "GPU" /\ st["GPU"] = "LOADING"
    BY <1>2 DEF LoadInv, Load!PumpStart, Load!At
  <2>2. call' = [call EXCEPT ![c].at = "pump"] /\ UNCHANGED <<st, slot, sig, gate>>
    BY <1>2, <2>1 DEF Load!PumpStart, Load!Goto, Load!Loc
  <2> QED BY <2>1, <2>2 DEF LoadInv, Loading
<1>3. CASE Load!PumpEnd(c)
  <2>1. call[c].at = "pump" /\ call[c].loc = "GPU" /\ gate = <<c>>
    BY <1>3 DEF LoadInv, Load!PumpEnd, Load!At
  <2>2. \A d \in Callers : Loading(d) => d = c
    BY <2>1 DEF LoadInv, Loading
  <2>3. /\ gate' = <<>> /\ call' = [call EXCEPT ![c].at = "done"]
        /\ sig' = [sig EXCEPT ![c] = "ok"] /\ UNCHANGED slot
    BY <1>3, <2>1 DEF Load!PumpEnd, Load!LeaveGate, Load!Fulfil, Load!Goto, Load!Loc
  <2>4. st' = [st EXCEPT !["GPU"] = "LOADED"]
    BY <1>3, <2>1 DEF LoadInv, Load!PumpEnd, Load!EvictCpu, Load!Loc
  <2> QED BY <2>1, <2>2, <2>3, <2>4 DEF LoadInv, Loading
<1> QED BY <1>1, <1>2, <1>3

\* Every step of a load keeps the invariant.
LEMMA LoadKept == LoadInv /\ LoadStep => LoadInv'
<1> SUFFICES ASSUME LoadInv, Load!Next PROVE LoadInv'
  BY DEF LoadStep
<1>1. ~(\E l \in Load!Locations : Load!Release(l))
  BY DEF Load!Release
<1>2. PICK c \in Callers : Load!Step(c) \/ \E l \in {"GPU"} : Load!Begin(c, l)
  BY <1>1 DEF Load!Next
<1>3. ~(\/ Load!Recover(c) \/ Load!Reset(c) \/ Load!Unslot(c) \/ Load!CopyStart(c) \/ Load!CopyEnd(c))
  BY LoadTypes DEF Load!Recover, Load!Reset, Load!Unslot, Load!CopyStart, Load!CopyEnd, Load!At
<1> QED BY <1>2, <1>3, LoadBegin, LoadJoins, LoadProduces, LoadOpens, LoadTransfers DEF Load!Step

\* The invariant says what TypeOK and OneLoad say.
LEMMA LoadSound == LoadInv => Load!TypeOK /\ Load!OneLoad
<1> SUFFICES ASSUME LoadInv PROVE Load!TypeOK /\ Load!OneLoad
  OBVIOUS
<1>1. Len(gate) <= Cardinality(Callers)
  <2>1. CASE gate = <<>>
    BY <2>1, LoadAssumption, FS_CardinalityType
  <2>2. CASE gate # <<>>
    <3>1. PICK c \in Callers : gate = <<c>>
      BY <2>2 DEF LoadInv
    <3>2. Cardinality(Callers) \in Nat /\ Cardinality(Callers) # 0
      BY LoadAssumption, FS_CardinalityType, FS_EmptySet
    <3> QED BY <3>1, <3>2
  <2> QED BY <2>1, <2>2
<1>2. Load!TypeOK
  BY <1>1, SameCardinality DEF LoadInv, Load!TypeOK, Load!Locations
<1>3. \A l \in Load!Locations : Load!InFlight(l) # {} => st[l] = "LOADING"
  BY DEF LoadInv, Load!InFlight, Load!Loc, Load!Locations
<1>4. ASSUME NEW l \in Load!Locations PROVE Cardinality(Load!InFlight(l)) <= 1
  <2>1. \A c, d \in Load!InFlight(l) : c = d
    BY DEF LoadInv, Load!InFlight, Loading
  <2> QED BY <2>1, AtMostOne
<1> QED BY <1>2, <1>3, <1>4, SameCardinality DEF Load!OneLoad
----------------------------------------------------------------------------
(* The suite. *)

PartLoad == part = "load" => LoadInv

\* No other part starts as this one.
LEMMA PartStart == Init => PartLoad
<1>1. InitStable \/ InitLedger \/ InitChunks \/ InitKernel \/ InitRetention => part # "load"
  BY DEF InitStable, InitLedger, InitChunks, InitKernel, InitRetention
<1> QED BY <1>1, LoadInit DEF Init, PartLoad

\* The part that loads is kept right by its own steps; the others leave the
\* name of their part alone.
LEMMA PartStep == PartLoad /\ [Next]_vars => PartLoad'
<1> SUFFICES ASSUME PartLoad, [Next]_vars, part' = "load" PROVE LoadInv'
  BY DEF PartLoad
<1>1. CASE LoadStep
  BY <1>1, LoadKept DEF PartLoad, LoadStep
<1>2. CASE StableStep \/ LedgerStep \/ ChunksStep \/ KernelStep \/ RetentionStep
  <2>1. part' = part /\ part # "load"
    BY <1>2 DEF StableStep, LedgerStep, ChunksStep, KernelStep, RetentionStep
  <2> QED BY <2>1
<1>3. CASE UNCHANGED vars
  <2>1. UNCHANGED <<part, st, slot, sig, call, gate>>
    BY <1>3 DEF vars, StoreVars, ReplicaLoadVars
  <2> QED BY <2>1, Zenon DEF PartLoad, LoadInv, Loading
<1> QED BY <1>1, <1>2, <1>3 DEF Next

\* At most one transfer at a time writes the memory of a location, and the state
\* of the replica says LOADING for as long as it runs, however many callers join.
THEOREM OneLoadAlways == Spec => []OneLoad
<1>1. PartLoad => OneLoad
  BY LoadSound DEF PartLoad, OneLoad
<1> QED BY <1>1, PartStart, PartStep, PTL DEF Spec

\* No step of the ledger gives the pages of a chunk to the kernel while a pin
\* handle or a stable lease covers it: mark_preemptible and evict_tail_bytes
\* look at both.
THEOREM PinnedNeverAdvised == Spec => PinnedNotAdvised
<1>1. ASSUME Ledger!UnifiedMemoryNext
      PROVE  \/ advised' \subseteq advised
             \/ \E S : advised' = advised \union {c \in S : Ledger!Advisable(c)}
             \/ \E bytes : advised' = advised \union Ledger!Tail(bytes)
  <2>1. CASE advised' = advised
    BY <2>1
  <2>2. CASE advised' # advised
    <3>1. \/ Ledger!Release
          \/ \E t \in LedgerClients, c \in Ledger!Chunks : Ledger!WriteSpan(t, c)
          \/ \E n \in 1..NumChunks : Ledger!MarkCpuPreemptible(n)
          \/ \E how \in {"MarkPreemptible", "EvictCPU"}, bytes \in 1..NumChunks :
               Ledger!PostGpuLoadPolicy(how, bytes)
      BY <1>1, <2>2, Zenon DEF Ledger!UnifiedMemoryNext, Ledger!Allocate, Ledger!GetGpu,
         Ledger!LoadingComplete, Ledger!ReleaseGpu, Ledger!PlanLoad, Ledger!Commit, Ledger!Abort,
         Ledger!DropPins, Ledger!ReleaseStable, Ledger!GrantDirectWrite, Ledger!AcquireStable,
         Ledger!ExportBegin, Ledger!ExportCheck, Ledger!ExportAcquire, Ledger!ExportRegister,
         Ledger!ExportFails, Ledger!Unexport, Ledger!ExportGpu, Ledger!UnexportGpu
    <3>2. CASE Ledger!Release \/ \E t \in LedgerClients, c \in Ledger!Chunks : Ledger!WriteSpan(t, c)
      BY <3>2 DEF Ledger!Release, Ledger!WriteSpan
    <3>3. CASE \E n \in 1..NumChunks : Ledger!MarkCpuPreemptible(n)
      BY <3>3, Zenon DEF Ledger!MarkCpuPreemptible, Ledger!MarkPreemptible
    <3>4. CASE \E how \in {"MarkPreemptible", "EvictCPU"}, bytes \in 1..NumChunks :
                 Ledger!PostGpuLoadPolicy(how, bytes)
      BY <3>4, Zenon DEF Ledger!PostGpuLoadPolicy, Ledger!MarkPreemptible
    <3> QED BY <3>1, <3>2, <3>3, <3>4
  <2> QED BY <2>1, <2>2
<1>2. \A bytes, c : c \in Ledger!Tail(bytes) => Ledger!Advisable(c)
  BY DEF Ledger!Tail
<1>3. Ledger!UnifiedMemoryNext => Ledger!PinnedNotAdvisedStep
  BY <1>1, <1>2, Zenon DEF Ledger!PinnedNotAdvisedStep, Ledger!Advisable
<1>4. Next => (part = "ledger" => Ledger!PinnedNotAdvisedStep)
  BY <1>3 DEF Next, LedgerStep, StableStep, LoadStep, ChunksStep, KernelStep, RetentionStep
<1> QED BY <1>4, PTL DEF Spec, PinnedNotAdvised

----------------------------------------------------------------------------
(* The books and the holds.  Their proofs are about one component          *)
(* (UnifiedMemoryProofs, StorePartsProofs); here they are taken over to    *)
(* the parts of the suite, whose operators are those of the components     *)
(* under other names.                                                      *)

\* A behaviour that starts in another part stays out of this one.
LEMMA PartKept ==
  ASSUME [Next]_vars
  PROVE  /\ ~(part = "ledger") => ~(part = "ledger")'
         /\ ~(part = "chunks") => ~(part = "chunks")'
         /\ ~(part = "stable") => ~(part = "stable")'
         /\ ~(part = "kernel") => ~(part = "kernel")'
         /\ ~(part = "retention") => ~(part = "retention")'
BY Zenon DEF Next, StableStep, LoadStep, LedgerStep, ChunksStep, KernelStep, RetentionStep, vars

PartsProofs == INSTANCE StorePartsProofs WITH
    Budget <- StableBudget

\* A behaviour of the suite that starts in this part is one of the component.
LEMMA CachePart == Spec /\ part = "stable" => PartsProofs!Spec
<1>1. Init /\ part = "stable" => PartsProofs!StableCacheInit
  BY Zenon
  DEF Init, InitStable, InitLoad, InitLedger, InitChunks, InitKernel, InitRetention,
      Stable!StableCacheInit,
      Stable!Idle, PartsProofs!StableCacheInit, PartsProofs!Idle
<1>2. [Next]_vars /\ part = "stable" => [PartsProofs!Next]_(PartsProofs!vars) /\ (part = "stable")'
  BY ZenonT(60)
  DEF Next, StableStep, LoadStep, LedgerStep, ChunksStep, KernelStep, RetentionStep, vars,
      StoreVars, StableCacheVars, UnifiedMemoryVars, Stable!vars, Stable!Order, Stable!Rank, Stable!Overflows,
      Stable!Idle, Stable!Job, Stable!At, Stable!Finish, Stable!Goto, Stable!Upgrade,
      Stable!GiveBack, Stable!ReleaseLease, Stable!Admit, Stable!Export, Stable!Granted,
      Stable!Exhausted, Stable!Insert, Stable!Undo, Stable!Count, Stable!Unexport,
      Stable!UpdatePolicy, Stable!TtlExpires, Stable!Evictable, Stable!Judge, Stable!GiveUp,
      Stable!Drop, Stable!Erase, Stable!Uncount, Stable!PoolEvictable, Stable!PoolEvict,
      Stable!Unload, Stable!OnReplicaEvicted, Stable!Step, Stable!Call, Stable!Next,
      PartsProofs!vars, PartsProofs!Order, PartsProofs!Rank, PartsProofs!Overflows,
      PartsProofs!Idle, PartsProofs!Job, PartsProofs!At, PartsProofs!Finish,
      PartsProofs!Goto, PartsProofs!Upgrade, PartsProofs!GiveBack, PartsProofs!ReleaseLease,
      PartsProofs!Admit, PartsProofs!Export, PartsProofs!Granted, PartsProofs!Exhausted,
      PartsProofs!Insert, PartsProofs!Undo, PartsProofs!Count, PartsProofs!Unexport,
      PartsProofs!UpdatePolicy, PartsProofs!TtlExpires, PartsProofs!Evictable,
      PartsProofs!Judge, PartsProofs!GiveUp, PartsProofs!Drop, PartsProofs!Erase,
      PartsProofs!Uncount, PartsProofs!PoolEvictable, PartsProofs!PoolEvict,
      PartsProofs!Unload, PartsProofs!OnReplicaEvicted, PartsProofs!Step, PartsProofs!Call,
      PartsProofs!Next
<1> QED BY <1>1, <1>2, PTL DEF Spec, PartsProofs!Spec

\* A behaviour of the suite that starts in this part is one of the component.
LEMMA KernelPart == Spec /\ part = "kernel" => PartsProofs!KernelRuns
<1>1. Init /\ part = "kernel" => PartsProofs!Kernel!KernelInit
  BY Zenon
  DEF Init, InitStable, InitLoad, InitLedger, InitChunks, InitKernel, InitRetention,
      Kernel!KernelInit, PartsProofs!Kernel!KernelInit
<1>2. [Next]_vars /\ part = "kernel" =>
        [PartsProofs!Kernel!KernelNext]_(PartsProofs!Kernel!kernelVars) /\ (part = "kernel")'
  BY ZenonT(60)
  DEF Next, StableStep, LoadStep, LedgerStep, ChunksStep, KernelStep, RetentionStep, vars,
      HoldVars, LifecycleKernelVars, PartsProofs!Kernel!kernelVars,
      Kernel!KernelNext, PartsProofs!Kernel!KernelNext, Kernel!Mint,
      PartsProofs!Kernel!Mint, Kernel!Renew, PartsProofs!Kernel!Renew, Kernel!Admit,
      PartsProofs!Kernel!Admit, Kernel!Resolves, PartsProofs!Kernel!Resolves,
      Kernel!RefuseExpired, PartsProofs!Kernel!RefuseExpired, Kernel!ReleaseMinted,
      PartsProofs!Kernel!ReleaseMinted, Kernel!Release, PartsProofs!Kernel!Release,
      Kernel!EraseEntry, PartsProofs!Kernel!EraseEntry, Kernel!Tick,
      PartsProofs!Kernel!Tick, Kernel!ReleaseGuard, PartsProofs!Kernel!ReleaseGuard
<1> QED BY <1>1, <1>2, PTL DEF Spec, PartsProofs!KernelRuns

\* A behaviour of the suite that starts in this part is one of the component.
LEMMA RetentionPart == Spec /\ part = "retention" => PartsProofs!RetentionRuns
<1>1. Init /\ part = "retention" => PartsProofs!Retention!RetentionInit
  BY Zenon
  DEF Init, InitStable, InitLoad, InitLedger, InitChunks, InitKernel, InitRetention,
      Retention!RetentionInit, Retention!Ops, PartsProofs!Retention!RetentionInit,
      PartsProofs!Retention!Ops
<1>2. [Next]_vars /\ part = "retention" =>
        [PartsProofs!Retention!Next]_(PartsProofs!Retention!vars) /\ (part = "retention")'
  BY ZenonT(60)
  DEF Next, StableStep, LoadStep, LedgerStep, ChunksStep, KernelStep, RetentionStep, vars,
      HoldVars, RetentionHandlesVars, PartsProofs!Retention!vars,
      Retention!Next, PartsProofs!Retention!Next, Retention!Ops,
      PartsProofs!Retention!Ops, Retention!Effective, PartsProofs!Retention!Effective,
      Retention!Upgraded, PartsProofs!Retention!Upgraded, Retention!Compute,
      PartsProofs!Retention!Compute, Retention!Acquire, PartsProofs!Retention!Acquire,
      Retention!Admit, PartsProofs!Retention!Admit, Retention!MintCapability,
      PartsProofs!Retention!MintCapability, Retention!Record,
      PartsProofs!Retention!Record, Retention!Apply, PartsProofs!Retention!Apply,
      Retention!Deadline, PartsProofs!Retention!Deadline, Retention!ExpireHandle,
      PartsProofs!Retention!ExpireHandle, Retention!ReleaseCapability,
      PartsProofs!Retention!ReleaseCapability, Retention!Release,
      PartsProofs!Retention!Release, Retention!Renew, PartsProofs!Retention!Renew,
      Retention!RenewAdmit, PartsProofs!Retention!RenewAdmit, Retention!RenewLease,
      PartsProofs!Retention!RenewLease, Retention!RenewRecord,
      PartsProofs!Retention!RenewRecord, Retention!Acquiring,
      PartsProofs!Retention!Acquiring, Retention!Finalizing,
      PartsProofs!Retention!Finalizing, Retention!Renewing,
      PartsProofs!Retention!Renewing
<1> QED BY <1>1, <1>2, PTL DEF Spec, PartsProofs!RetentionRuns

\* The cache of the part "stable".
LEMMA CacheKept ==
  Spec => [](part = "stable" => PartsProofs!LeasesAccounted /\ PartsProofs!CachedMatches
                                /\ PartsProofs!TypeOK)
<1>1. PartsProofs!Sizes
  BY StableAssumption, Zenon DEF PartsProofs!Sizes, PartsProofs!IsFiniteSet, IsFiniteSet
<1> QED BY <1>1, CachePart, PartKept, PartsProofs!LeasesAlwaysAccounted, PartsProofs!CachedAlwaysMatches,
           PartsProofs!TypesAlwaysKept, PTL DEF Spec

\* The capabilities of the part "kernel", and the handles of the part "retention".
LEMMA HoldsKept ==
  Spec => /\ [](part = "kernel" => Kernel!KernelTypeOK /\ Kernel!GuardsCounted
                                   /\ Kernel!ReleasedIsErased /\ Kernel!NoRevival)
          /\ [](part = "retention" => Retention!TypeOK /\ Retention!RecordedHasLease)
<1>1. PartsProofs!KernelSizes
  BY KernelAssumption, Zenon DEF PartsProofs!KernelSizes, PartsProofs!IsFiniteSet, IsFiniteSet
<1>2. PartsProofs!RanksKnown
  BY RetentionAssumption, Zenon DEF PartsProofs!RanksKnown
<1>3. PartsProofs!Kernel!KernelTypeOK /\ PartsProofs!Kernel!GuardsCounted
      /\ PartsProofs!Kernel!ReleasedIsErased /\ PartsProofs!Kernel!NoRevival
      => Kernel!KernelTypeOK /\ Kernel!GuardsCounted /\ Kernel!ReleasedIsErased /\ Kernel!NoRevival
  BY Zenon
  DEF Kernel!KernelTypeOK, PartsProofs!Kernel!KernelTypeOK, Kernel!Entry, PartsProofs!Kernel!Entry,
      Kernel!States, PartsProofs!Kernel!States, Kernel!GuardsCounted, PartsProofs!Kernel!GuardsCounted,
      Kernel!Holding, PartsProofs!Kernel!Holding, Kernel!Cardinality, PartsProofs!Kernel!Cardinality,
      Kernel!ReleasedIsErased, PartsProofs!Kernel!ReleasedIsErased, Kernel!NoRevival,
      PartsProofs!Kernel!NoRevival
<1>4. PartsProofs!Retention!TypeOK /\ PartsProofs!Retention!RecordedHasLease
      => Retention!TypeOK /\ Retention!RecordedHasLease
  BY Zenon
  DEF Retention!TypeOK, PartsProofs!Retention!TypeOK, Retention!Ops, PartsProofs!Retention!Ops,
      Retention!RecordedHasLease, PartsProofs!Retention!RecordedHasLease
<1> QED BY <1>1, <1>2, <1>3, <1>4, KernelPart, RetentionPart, PartKept, PartsProofs!CapabilitiesAlwaysSound,
           PartsProofs!HandlesAlwaysLeased, PTL DEF Spec

\* What a client holds ends and stays ended: nothing is left of a capability
\* that was released and has no guard out, none that was released is active
\* again, and a retention handle on record has a lease that will expire it.
THEOREM HoldsAlwaysEnd == Spec => []HoldsEnd
<1>1. /\ part = "kernel" => Kernel!KernelTypeOK /\ Kernel!GuardsCounted
                            /\ Kernel!ReleasedIsErased /\ Kernel!NoRevival
      /\ part = "retention" => Retention!TypeOK /\ Retention!RecordedHasLease
      => HoldsEnd
  BY Zenon DEF HoldsEnd
<1> QED BY <1>1, HoldsKept, PTL

\* Every guard that admit_redemption hands out is for a capability that is
\* neither released nor over, whatever was released, renewed or refused before.
THEOREM AdmitAlwaysFailsClosed == Spec => AdmitFailsClosed
<1>1. PartsProofs!KernelSizes
  BY KernelAssumption, Zenon DEF PartsProofs!KernelSizes, PartsProofs!IsFiniteSet, IsFiniteSet
<1>2. [PartsProofs!Kernel!AdmitFailsClosedStep]_(PartsProofs!Kernel!kernelVars) => Kernel!AdmitFailsClosedStep
  BY Zenon
  DEF Kernel!AdmitFailsClosedStep, PartsProofs!Kernel!AdmitFailsClosedStep, PartsProofs!Kernel!kernelVars
<1> QED BY <1>1, <1>2, KernelPart, PartKept, PartsProofs!GuardsAlwaysAdmitted, PTL DEF Spec, AdmitFailsClosed

LedgerProofs == INSTANCE UnifiedMemoryProofs WITH
    Clients <- LedgerClients, Budget <- LedgerBudget, Targets <- LedgerTargets,
    Releases <- FALSE

\* A behaviour of the suite that starts in this part is one of the component.
LEMMA LedgerPart == Spec /\ part = "ledger" => LedgerProofs!UnifiedMemorySpec
<1>1. Init /\ part = "ledger" => LedgerProofs!UnifiedMemoryInit
  BY Zenon
  DEF Init, InitStable, InitLoad, InitLedger, InitChunks, InitKernel, InitRetention,
      Ledger!UnifiedMemoryInit,
      Ledger!Of, Ledger!Chunks, Ledger!Nothing, Ledger!NoRecord, Ledger!IdleExport,
      LedgerProofs!UnifiedMemoryInit, LedgerProofs!Of, LedgerProofs!Chunks,
      LedgerProofs!Nothing, LedgerProofs!NoRecord, LedgerProofs!IdleExport
<1>2. [Next]_vars /\ part = "ledger" => [LedgerProofs!UnifiedMemoryNext]_(LedgerProofs!vars) /\ (part = "ledger")'
  BY ZenonT(60)
  DEF Next, StableStep, LoadStep, LedgerStep, ChunksStep, KernelStep, RetentionStep, vars,
      StoreVars, StableCacheVars, UnifiedMemoryVars, Ledger!Chunks, Ledger!Indices, Ledger!Loaded, Ledger!ledger,
      Ledger!vars, Ledger!Nothing, Ledger!NoRecord, Ledger!IdleExport, Ledger!Of,
      Ledger!Allocate, Ledger!Release, Ledger!GetGpu, Ledger!ReleaseGpu, Ledger!IsLoaded,
      Ledger!Missing, Ledger!Planned, Ledger!PlanLoad, Ledger!WriteSpan,
      Ledger!CommittedCpu, Ledger!Commit, Ledger!Abort, Ledger!LoadingComplete, Ledger!Pin,
      Ledger!Unpin, Ledger!GrantDirectWrite, Ledger!DropPins, Ledger!CountUp,
      Ledger!CountDown, Ledger!HotWhenFree, Ledger!Fits, Ledger!TakeLease, Ledger!GiveLease,
      Ledger!AcquireStable, Ledger!ReleaseStable, Ledger!Advisable, Ledger!MarkPreemptible,
      Ledger!MarkCpuPreemptible, Ledger!Tail, Ledger!PostGpuLoadPolicy, Ledger!ExportBegin,
      Ledger!ExportCheck, Ledger!Rollback, Ledger!ExportAcquire, Ledger!ExportRegister,
      Ledger!ExportFails, Ledger!Unexport, Ledger!ExportGpu, Ledger!UnexportGpu,
      Ledger!UnifiedMemoryNext, Ledger!Cardinality, LedgerProofs!Chunks,
      LedgerProofs!Indices, LedgerProofs!Loaded, LedgerProofs!ledger, LedgerProofs!vars,
      LedgerProofs!Nothing, LedgerProofs!NoRecord, LedgerProofs!IdleExport, LedgerProofs!Of,
      LedgerProofs!Allocate, LedgerProofs!Release, LedgerProofs!GetGpu,
      LedgerProofs!ReleaseGpu, LedgerProofs!IsLoaded, LedgerProofs!Missing,
      LedgerProofs!Planned, LedgerProofs!PlanLoad, LedgerProofs!WriteSpan,
      LedgerProofs!CommittedCpu, LedgerProofs!Commit, LedgerProofs!Abort,
      LedgerProofs!LoadingComplete, LedgerProofs!Pin, LedgerProofs!Unpin,
      LedgerProofs!GrantDirectWrite, LedgerProofs!DropPins, LedgerProofs!CountUp,
      LedgerProofs!CountDown, LedgerProofs!HotWhenFree, LedgerProofs!Fits,
      LedgerProofs!TakeLease, LedgerProofs!GiveLease, LedgerProofs!AcquireStable,
      LedgerProofs!ReleaseStable, LedgerProofs!Advisable, LedgerProofs!MarkPreemptible,
      LedgerProofs!MarkCpuPreemptible, LedgerProofs!Tail, LedgerProofs!PostGpuLoadPolicy,
      LedgerProofs!ExportBegin, LedgerProofs!ExportCheck, LedgerProofs!Rollback,
      LedgerProofs!ExportAcquire, LedgerProofs!ExportRegister, LedgerProofs!ExportFails,
      LedgerProofs!Unexport, LedgerProofs!ExportGpu, LedgerProofs!UnexportGpu,
      LedgerProofs!UnifiedMemoryNext, LedgerProofs!Cardinality
<1> QED BY <1>1, <1>2, PTL DEF Spec, LedgerProofs!UnifiedMemorySpec

\* The ledger of the part "ledger", by the theorems about the component.
LEMMA LedgerKept ==
  Spec => [](part = "ledger" => LedgerProofs!StableIffLeased /\ LedgerProofs!BudgetMatches
                                /\ LedgerProofs!TypeOK)
<1>1. LedgerProofs!Sizes
  BY LedgerAssumption, Zenon DEF LedgerProofs!Sizes, LedgerProofs!IsFiniteSet, IsFiniteSet
<1> QED BY <1>1, LedgerPart, PartKept, LedgerProofs!StableAlwaysLeased, LedgerProofs!BudgetAlwaysMatches,
           LedgerProofs!TypesAlwaysKept, PTL DEF Spec

\* Every variable of the store keeps its type, and neither budget is exceeded.
THEOREM TypesAlwaysKept == Spec => []TypeOK
<1>1. /\ PartLoad
      /\ part = "ledger" => LedgerProofs!StableIffLeased /\ LedgerProofs!BudgetMatches
                            /\ LedgerProofs!TypeOK
      /\ part = "stable" => PartsProofs!LeasesAccounted /\ PartsProofs!CachedMatches
                            /\ PartsProofs!TypeOK
      /\ part = "kernel" => Kernel!KernelTypeOK /\ Kernel!GuardsCounted
                            /\ Kernel!ReleasedIsErased /\ Kernel!NoRevival
      /\ part = "retention" => Retention!TypeOK /\ Retention!RecordedHasLease
      => TypeOK
  BY LoadSound, Zenon
  DEF TypeOK, PartLoad, LedgerProofs!TypeOK, Ledger!TypeOK, LedgerProofs!Chunks, Ledger!Chunks,
      PartsProofs!TypeOK, Stable!TypeOK, PartsProofs!Order, Stable!Order
<1> QED BY <1>1, PartStart, PartStep, LedgerKept, CacheKept, HoldsKept, PTL DEF Spec

ChunksProofs == INSTANCE UnifiedMemoryProofs WITH
    Clients <- ChunksClients, Budget <- ChunksBudget, Targets <- ChunksTargets,
    Exports <- FALSE, Releases <- TRUE

\* A behaviour of the suite that starts in this part is one of the component.
LEMMA ChunksPart == Spec /\ part = "chunks" => ChunksProofs!UnifiedMemorySpec
<1>1. Init /\ part = "chunks" => ChunksProofs!UnifiedMemoryInit
  BY Zenon
  DEF Init, InitStable, InitLoad, InitLedger, InitChunks, InitKernel, InitRetention,
      Chunks!UnifiedMemoryInit,
      Chunks!Of, Chunks!Chunks, Chunks!Nothing, Chunks!NoRecord, Chunks!IdleExport,
      ChunksProofs!UnifiedMemoryInit, ChunksProofs!Of, ChunksProofs!Chunks,
      ChunksProofs!Nothing, ChunksProofs!NoRecord, ChunksProofs!IdleExport
<1>2. [Next]_vars /\ part = "chunks" => [ChunksProofs!UnifiedMemoryNext]_(ChunksProofs!vars) /\ (part = "chunks")'
  BY ZenonT(60)
  DEF Next, StableStep, LoadStep, LedgerStep, ChunksStep, KernelStep, RetentionStep, vars,
      StoreVars, StableCacheVars, UnifiedMemoryVars, Chunks!Chunks, Chunks!Indices, Chunks!Loaded, Chunks!ledger,
      Chunks!vars, Chunks!Nothing, Chunks!NoRecord, Chunks!IdleExport, Chunks!Of,
      Chunks!Allocate, Chunks!Release, Chunks!GetGpu, Chunks!ReleaseGpu, Chunks!IsLoaded,
      Chunks!Missing, Chunks!Planned, Chunks!PlanLoad, Chunks!WriteSpan,
      Chunks!CommittedCpu, Chunks!Commit, Chunks!Abort, Chunks!LoadingComplete, Chunks!Pin,
      Chunks!Unpin, Chunks!GrantDirectWrite, Chunks!DropPins, Chunks!CountUp,
      Chunks!CountDown, Chunks!HotWhenFree, Chunks!Fits, Chunks!TakeLease, Chunks!GiveLease,
      Chunks!AcquireStable, Chunks!ReleaseStable, Chunks!Advisable, Chunks!MarkPreemptible,
      Chunks!MarkCpuPreemptible, Chunks!Tail, Chunks!PostGpuLoadPolicy, Chunks!ExportBegin,
      Chunks!ExportCheck, Chunks!Rollback, Chunks!ExportAcquire, Chunks!ExportRegister,
      Chunks!ExportFails, Chunks!Unexport, Chunks!ExportGpu, Chunks!UnexportGpu,
      Chunks!UnifiedMemoryNext, Chunks!Cardinality, ChunksProofs!Chunks,
      ChunksProofs!Indices, ChunksProofs!Loaded, ChunksProofs!ledger, ChunksProofs!vars,
      ChunksProofs!Nothing, ChunksProofs!NoRecord, ChunksProofs!IdleExport, ChunksProofs!Of,
      ChunksProofs!Allocate, ChunksProofs!Release, ChunksProofs!GetGpu,
      ChunksProofs!ReleaseGpu, ChunksProofs!IsLoaded, ChunksProofs!Missing,
      ChunksProofs!Planned, ChunksProofs!PlanLoad, ChunksProofs!WriteSpan,
      ChunksProofs!CommittedCpu, ChunksProofs!Commit, ChunksProofs!Abort,
      ChunksProofs!LoadingComplete, ChunksProofs!Pin, ChunksProofs!Unpin,
      ChunksProofs!GrantDirectWrite, ChunksProofs!DropPins, ChunksProofs!CountUp,
      ChunksProofs!CountDown, ChunksProofs!HotWhenFree, ChunksProofs!Fits,
      ChunksProofs!TakeLease, ChunksProofs!GiveLease, ChunksProofs!AcquireStable,
      ChunksProofs!ReleaseStable, ChunksProofs!Advisable, ChunksProofs!MarkPreemptible,
      ChunksProofs!MarkCpuPreemptible, ChunksProofs!Tail, ChunksProofs!PostGpuLoadPolicy,
      ChunksProofs!ExportBegin, ChunksProofs!ExportCheck, ChunksProofs!Rollback,
      ChunksProofs!ExportAcquire, ChunksProofs!ExportRegister, ChunksProofs!ExportFails,
      ChunksProofs!Unexport, ChunksProofs!ExportGpu, ChunksProofs!UnexportGpu,
      ChunksProofs!UnifiedMemoryNext, ChunksProofs!Cardinality
<1> QED BY <1>1, <1>2, PTL DEF Spec, ChunksProofs!UnifiedMemorySpec

\* The counter of the part "chunks".
LEMMA ChunksKept == Spec => [](part = "chunks" => ChunksProofs!CounterSound)
<1>1. ChunksProofs!Sizes
  BY LedgerAssumption, Zenon DEF ChunksProofs!Sizes, ChunksProofs!IsFiniteSet, IsFiniteSet
<1> QED BY <1>1, ChunksPart, PartKept, ChunksProofs!CounterAlwaysSound, PTL DEF Spec

\* Every ledger, budget and counter of the store agrees with what it counts:
\* the stable leases with their owners and with the budget, bytes_used_ with
\* the entries, the STABLE chunks with the leases on them, and the counter of
\* is_gpu_loading_complete with the chunks on the device, and the uses of a
\* capability with the guards that name it.
THEOREM LedgersAlwaysMatch == Spec => []LedgersMatch
<1>1. /\ part = "ledger" => LedgerProofs!StableIffLeased /\ LedgerProofs!BudgetMatches
                            /\ LedgerProofs!TypeOK
      /\ part = "chunks" => ChunksProofs!CounterSound
      /\ part = "stable" => PartsProofs!LeasesAccounted /\ PartsProofs!CachedMatches
                            /\ PartsProofs!TypeOK
      /\ part = "kernel" => Kernel!KernelTypeOK /\ Kernel!GuardsCounted
                            /\ Kernel!ReleasedIsErased /\ Kernel!NoRevival
      => LedgersMatch
  BY Zenon
  DEF LedgersMatch, LedgerProofs!StableIffLeased, Ledger!StableIffLeased, LedgerProofs!Chunks,
      Ledger!Chunks, LedgerProofs!BudgetMatches, Ledger!BudgetMatches, LedgerProofs!Counted,
      Ledger!Counted, LedgerProofs!Cardinality, Ledger!Cardinality, ChunksProofs!CounterSound,
      Chunks!CounterSound, ChunksProofs!Chunks, Chunks!Chunks, ChunksProofs!IsLoaded,
      Chunks!IsLoaded, ChunksProofs!Loaded, Chunks!Loaded, ChunksProofs!Cardinality,
      Chunks!Cardinality, PartsProofs!LeasesAccounted, Stable!LeasesAccounted,
      PartsProofs!InHand, Stable!InHand, PartsProofs!At, Stable!At, PartsProofs!Counted,
      Stable!Counted, PartsProofs!CachedMatches, Stable!CachedMatches,
      PartsProofs!Cardinality, Stable!Cardinality
<1> QED BY <1>1, LedgerKept, ChunksKept, CacheKept, HoldsKept, PTL

=============================================================================

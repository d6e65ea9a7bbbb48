--------------------------- MODULE UnifiedMemory ---------------------------
(***************************************************************************)
(* The chunk ledger of one replica in the unified memory authority         *)
(* (core/store/replica/unified_memory_authority.cc) and the export         *)
(* registry that publishes its CPU chunks to peers                         *)
(* (core/store/replica/memory_export_registry.cc).                         *)
(*                                                                         *)
(* Every method of the authority runs under its mutex and is one action.   *)
(* An export is several calls of the authority with nothing held between   *)
(* them, and so several actions.  Chunks have one unit of bytes; one GPU   *)
(* device is modelled; access times and versions are left out.             *)
(***************************************************************************)
EXTENDS Naturals, FiniteSets

CONSTANTS Clients,   \* loaders and lease holders, one operation in flight each
          NumChunks, \* ReplicaAllocation::num_chunks
          Budget,    \* stable bytes of the tier budget, in chunks
          Targets,   \* locations that loads are planned for
          Exports,   \* whether the replica is exported
          Releases   \* whether release(key) is called

Chunks == 0..(NumChunks - 1)
Indices == (SUBSET Chunks) \ {{}}
Loaded == {"HOT", "COPIED_GPU"}

VARIABLES alloc,    \* allocations_ has the key
          cpu,      \* ChunkRecord::cpu
          gpu,      \* ChunkRecord::gpu of the device ("none": not present)
          counter,  \* loaded_chunk_counts of the device
          gpuMem,   \* gpu_allocations has the device
          pins,     \* ChunkRecord::pin_refcnt
          leases,   \* ChunkRecord::stable_lease_count
          expCpu,   \* ChunkRecord::exported_cpu
          expGpu,   \* ChunkRecord::exported_gpu of the device
          used,     \* stable bytes charged to the tier budget
          advised,  \* chunks whose pages were given to the kernel (madvise)
          held,     \* what each client holds: a session, a pin handle, a lease
          record,   \* records_ of the CPU location
          exporter  \* the export call in progress

ledger == <<alloc, cpu, gpu, counter, gpuMem, pins, leases, expCpu, expGpu>>
vars == <<ledger, used, advised, held, record, exporter>>

Nothing == [kind |-> "none"]
NoRecord == [ranges |-> {}, lease |-> FALSE]
IdleExport == [at |-> "idle"]

Of(x) == [c \in Chunks |-> x]

UnifiedMemoryInit ==
  /\ alloc = FALSE /\ gpuMem = FALSE
  /\ cpu = Of("COLD") /\ gpu = Of("none") /\ counter = 0
  /\ pins = Of(0) /\ leases = Of(0)
  /\ expCpu = {} /\ expGpu = {}
  /\ used = 0 /\ advised = {}
  /\ held = [t \in Clients |-> Nothing]
  /\ record = NoRecord /\ exporter = IdleExport

----------------------------------------------------------------------------
(* Allocation.                                                             *)

\* allocate, with CpuArena::allocate_region: refused when the key has one.
Allocate ==
  /\ ~alloc
  /\ alloc' = TRUE
  /\ UNCHANGED <<cpu, gpu, counter, gpuMem, pins, leases, expCpu, expGpu>>
  /\ UNCHANGED <<used, advised, held, record, exporter>>

\* release: unmaps the region and forgets every chunk record.  Leases and
\* sessions are not looked at and the budget is not told.  Its callers have
\* dropped pin handles and exports, which point into the record.
Release ==
  /\ Releases /\ alloc
  /\ \A t \in Clients : held[t].kind # "pin"
  /\ record = NoRecord /\ exporter = IdleExport
  /\ alloc' = FALSE /\ gpuMem' = FALSE
  /\ cpu' = Of("COLD") /\ gpu' = Of("none") /\ counter' = 0
  /\ pins' = Of(0) /\ leases' = Of(0)
  /\ expCpu' = {} /\ expGpu' = {}
  /\ advised' = {}
  /\ UNCHANGED <<used, held, record, exporter>>

\* get_or_create_gpu_allocation: the counter starts at zero with the memory.
GetGpu ==
  /\ "GPU" \in Targets /\ alloc /\ ~gpuMem
  /\ gpuMem' = TRUE /\ counter' = 0
  /\ UNCHANGED <<alloc, cpu, gpu, pins, leases, expCpu, expGpu>>
  /\ UNCHANGED <<used, advised, held, record, exporter>>

\* release_gpu_device: refused while a chunk is exported from the device.
ReleaseGpu(drop) ==
  /\ alloc
  /\ expGpu = {}
  /\ counter' = 0
  /\ gpu' = [c \in Chunks |-> IF gpu[c] = "none" THEN "none" ELSE "EVICTED"]
  /\ gpuMem' = IF drop THEN FALSE ELSE gpuMem
  /\ UNCHANGED <<alloc, cpu, pins, leases, expCpu, expGpu>>
  /\ UNCHANGED <<used, advised, held, record, exporter>>

----------------------------------------------------------------------------
(* Transfers: plan, write, commit, abort.                                  *)

IsLoaded(c) == gpu[c] \in Loaded

\* get_missing_chunks_locked_: every CPU state in use counts as resident.
Missing(target) == IF target = "GPU" THEN {c \in Chunks : ~IsLoaded(c)} ELSE {}

\* With nothing missing a CPU plan takes the whole artifact, a GPU plan fails.
Planned(target, asked) ==
  IF asked # {} THEN asked
  ELSE IF Missing(target) # {} THEN Missing(target)
  ELSE IF target = "CPU" THEN Chunks ELSE {}

PlanLoad(t, target, asked) ==
  /\ held[t] = Nothing
  /\ alloc /\ Planned(target, asked) # {}
  /\ held' = [held EXCEPT ![t] =
       [kind |-> "session", target |-> target, chunks |-> Planned(target, asked)]]
  /\ UNCHANGED <<ledger, used, advised, record, exporter>>

\* write_cpu_span through CpuArena::write_span: the pages are made writable
\* and hold data again.  Only the access time of the chunk is recorded.
WriteSpan(t, c) ==
  /\ held[t].kind = "session" /\ held[t].target = "CPU" /\ c \in held[t].chunks
  /\ alloc /\ c \in advised
  /\ advised' = advised \ {c}
  /\ UNCHANGED <<ledger, used, held, record, exporter>>

\* The state of a CPU chunk after a commit: HOT, or STABLE under a lease.
CommittedCpu(c) == IF leases[c] > 0 THEN "STABLE" ELSE "HOT"

\* commit: GPU chunks become COPIED_GPU and the counter follows.  A
\* missing allocation is an error that leaves the session in the table.
Commit(t) ==
  /\ held[t].kind = "session" /\ alloc
  /\ LET s == held[t] IN
     IF s.target = "GPU"
     THEN /\ gpu' = [c \in Chunks |-> IF c \in s.chunks THEN "COPIED_GPU" ELSE gpu[c]]
          /\ counter' = counter + Cardinality({c \in s.chunks : ~IsLoaded(c)})
          /\ cpu' = cpu
     ELSE /\ cpu' = [c \in Chunks |->
               IF c \in s.chunks THEN CommittedCpu(c) ELSE cpu[c]]
          /\ UNCHANGED <<gpu, counter>>
  /\ held' = [held EXCEPT ![t] = Nothing]
  /\ UNCHANGED <<alloc, gpuMem, pins, leases, expCpu, expGpu>>
  /\ UNCHANGED <<used, advised, record, exporter>>

Abort(t) ==
  /\ held[t].kind = "session"
  /\ held' = [held EXCEPT ![t] = Nothing]
  /\ UNCHANGED <<ledger, used, advised, record, exporter>>

\* is_gpu_loading_complete: the fast path trusts the counter, the slow path
\* scans the records and stores what it counted.
LoadingComplete ==
  /\ alloc /\ counter # NumChunks
  /\ counter' = Cardinality({c \in Chunks : IsLoaded(c)})
  /\ UNCHANGED <<alloc, cpu, gpu, gpuMem, pins, leases, expCpu, expGpu>>
  /\ UNCHANGED <<used, advised, held, record, exporter>>

----------------------------------------------------------------------------
(* Pins: a handle counts once on each of its chunks until it is dropped.   *)

Pin(chunks) == [c \in Chunks |-> IF c \in chunks THEN pins[c] + 1 ELSE pins[c]]

\* CpuArena::release_pins from the destructor of the handle.
Unpin(chunks) ==
  [c \in Chunks |-> IF c \in chunks /\ pins[c] > 0 THEN pins[c] - 1 ELSE pins[c]]

GrantDirectWrite(t, chunks) ==
  /\ held[t] = Nothing /\ alloc
  /\ pins' = Pin(chunks)
  /\ held' = [held EXCEPT ![t] = [kind |-> "pin", chunks |-> chunks]]
  /\ UNCHANGED <<alloc, cpu, gpu, counter, gpuMem, leases, expCpu, expGpu>>
  /\ UNCHANGED <<used, advised, record, exporter>>

DropPins(t) ==
  /\ held[t].kind = "pin"
  /\ pins' = Unpin(held[t].chunks)
  /\ held' = [held EXCEPT ![t] = Nothing]
  /\ UNCHANGED <<alloc, cpu, gpu, counter, gpuMem, leases, expCpu, expGpu>>
  /\ UNCHANGED <<used, advised, record, exporter>>

----------------------------------------------------------------------------
(* Stable leases.                                                          *)

CountUp(chunks) == [c \in Chunks |-> IF c \in chunks THEN leases[c] + 1 ELSE leases[c]]
CountDown(chunks) == [c \in Chunks |-> IF c \in chunks THEN leases[c] - 1 ELSE leases[c]]

\* What the state of a chunk is once the counts of "chunks" went to "count".
HotWhenFree(chunks, count) ==
  [c \in Chunks |-> IF c \in chunks /\ count[c] = 0 /\ cpu[c] = "STABLE" THEN "HOT" ELSE cpu[c]]

Fits(chunks) == used + Cardinality(chunks) <= Budget

\* acquire_stable_lease: the chunks are marked first; when the budget refuses,
\* the counts are taken back and chunks without a lease are left HOT.
TakeLease(chunks) ==
  IF Fits(chunks)
  THEN /\ leases' = CountUp(chunks)
       /\ cpu' = [c \in Chunks |-> IF c \in chunks THEN "STABLE" ELSE cpu[c]]
       /\ used' = used + Cardinality(chunks)
  ELSE /\ leases' = leases
       /\ cpu' = [c \in Chunks |-> IF c \in chunks /\ leases[c] = 0 THEN "HOT" ELSE cpu[c]]
       /\ used' = used

\* release_stable_lease: refused at the first chunk without a lease.  (The
\* chunks before it have lost a count by then.)
GiveLease(chunks) ==
  LET unheld == {c \in chunks : leases[c] = 0}
      done == {c \in chunks : \A u \in unheld : c < u}
  IN /\ leases' = CountDown(done)
     /\ cpu' = HotWhenFree(done, CountDown(done))
     /\ used' = IF unheld # {} THEN used
                ELSE IF used >= Cardinality(chunks) THEN used - Cardinality(chunks) ELSE 0

AcquireStable(t, chunks) ==
  /\ held[t] = Nothing /\ alloc
  /\ TakeLease(chunks)
  /\ held' = IF Fits(chunks)
             THEN [held EXCEPT ![t] = [kind |-> "lease", chunks |-> chunks]] ELSE held
  /\ UNCHANGED <<alloc, gpu, counter, gpuMem, pins, expCpu, expGpu>>
  /\ UNCHANGED <<advised, record, exporter>>

ReleaseStable(t) ==
  /\ held[t].kind = "lease"
  /\ IF alloc THEN GiveLease(held[t].chunks) ELSE UNCHANGED <<leases, cpu, used>>
  /\ held' = [held EXCEPT ![t] = Nothing]
  /\ UNCHANGED <<alloc, gpu, counter, gpuMem, pins, expCpu, expGpu>>
  /\ UNCHANGED <<advised, record, exporter>>

----------------------------------------------------------------------------
(* Giving pages back.                                                      *)

\* Mutant: the pins are not looked at.
AdvisablePinned(c) == leases[c] = 0 /\ cpu[c] # "STABLE"

\* CpuArena::mark_preemptible and evict_tail_bytes advise only chunks that
\* are neither pinned nor leased.
Advisable(c) == pins[c] = 0 /\ leases[c] = 0 /\ cpu[c] # "STABLE"

\* mark_chunks_preemptible_locked_: the ledger state follows the lease test
\* alone, so that a pinned chunk is PREEMPTIBLE without having been advised.
MarkPreemptible(chunks) ==
  LET eligible == {c \in chunks : leases[c] = 0 /\ cpu[c] # "STABLE"} IN
  /\ cpu' = [c \in Chunks |-> IF c \in eligible THEN "PREEMPTIBLE" ELSE cpu[c]]
  /\ advised' = advised \cup {c \in eligible : Advisable(c)}

\* mark_cpu_chunks_preemptible(ratio): the first floor(ratio * n) chunks.
MarkCpuPreemptible(n) ==
  /\ alloc
  /\ MarkPreemptible(0..(n - 1))
  /\ UNCHANGED <<alloc, gpu, counter, gpuMem, pins, leases, expCpu, expGpu>>
  /\ UNCHANGED <<used, held, record, exporter>>

\* evict_tail_bytes(bytes): from the last chunk on, until enough is advised.
Tail(bytes) ==
  LET ok == {c \in Chunks : Advisable(c)}
  IN {c \in ok : Cardinality({d \in ok : d > c}) < bytes}

\* post_gpu_load_policy.  The eviction leaves the ledger state as it is.
PostGpuLoadPolicy(policy, bytes) ==
  /\ alloc
  /\ \/ policy = "MarkPreemptible" /\ MarkPreemptible(Chunks)
     \/ policy = "EvictCPU" /\ advised' = advised \cup Tail(bytes) /\ cpu' = cpu
  /\ UNCHANGED <<alloc, gpu, counter, gpuMem, pins, leases, expCpu, expGpu>>
  /\ UNCHANGED <<used, held, record, exporter>>

----------------------------------------------------------------------------
(* Exports of CPU chunks.  ReplicaLoadController::export_chunks_for_p2p     *)
(* holds its own mutex, so that one export or unexport runs at a time.     *)

\* set_exported(on): flags and a pin handle, kept alive by the record.
ExportBegin(chunks) ==
  /\ Exports /\ exporter = IdleExport /\ alloc
  /\ expCpu' = expCpu \cup chunks
  /\ pins' = Pin(chunks)
  /\ exporter' = [at |-> "check", chunks |-> chunks]
  /\ UNCHANGED <<alloc, cpu, gpu, counter, gpuMem, leases, expGpu>>
  /\ UNCHANGED <<used, advised, held, record>>

\* has_stable_lease_for_chunks: anyone's lease will do.
ExportCheck ==
  /\ exporter.at = "check"
  /\ exporter' = IF \A c \in exporter.chunks : leases[c] > 0
                 THEN [at |-> "register", chunks |-> exporter.chunks, lease |-> FALSE]
                 ELSE [exporter EXCEPT !.at = "acquire"]
  /\ UNCHANGED <<ledger, used, advised, held, record>>

\* rollback_export clears the flags; the handle goes out of scope.
Rollback(chunks) ==
  /\ expCpu' = expCpu \ chunks
  /\ pins' = Unpin(chunks)
  /\ exporter' = IdleExport

ExportAcquire ==
  /\ exporter.at = "acquire"
  /\ TakeLease(exporter.chunks)
  /\ IF Fits(exporter.chunks)
     THEN /\ exporter' = [at |-> "register", chunks |-> exporter.chunks, lease |-> TRUE]
          /\ UNCHANGED <<expCpu, pins>>
     ELSE Rollback(exporter.chunks)
  /\ UNCHANGED <<alloc, gpu, counter, gpuMem, expGpu, advised, held, record>>

\* register_tensor_ex for every range, then the record: one per location, so
\* that it takes the place of an earlier export, whose handle is dropped.
ExportRegister ==
  /\ exporter.at = "register"
  /\ record' = [ranges |-> exporter.chunks, lease |-> exporter.lease]
  /\ pins' = Unpin(record.ranges)
  /\ exporter' = IdleExport
  /\ UNCHANGED <<alloc, cpu, gpu, counter, gpuMem, leases, expCpu, expGpu>>
  /\ UNCHANGED <<used, advised, held>>

ExportFails ==
  /\ exporter.at = "register"
  /\ Rollback(exporter.chunks)
  /\ IF exporter.lease THEN GiveLease(exporter.chunks) ELSE UNCHANGED <<leases, cpu, used>>
  /\ UNCHANGED <<alloc, gpu, counter, gpuMem, expGpu, advised, held, record>>

\* unexport_chunks, when the communicator unregisters every tensor; when it
\* does not, the record is kept.
Unexport ==
  /\ exporter = IdleExport /\ record # NoRecord
  /\ IF record.lease THEN GiveLease(record.ranges) ELSE UNCHANGED <<leases, cpu, used>>
  /\ expCpu' = expCpu \ record.ranges
  /\ pins' = Unpin(record.ranges)
  /\ record' = NoRecord
  /\ UNCHANGED <<alloc, gpu, counter, gpuMem, expGpu, advised, held, exporter>>

\* The GPU location: flags only.  The memory must exist when it begins.
ExportGpu(chunks) ==
  /\ exporter = IdleExport /\ alloc /\ gpuMem
  /\ expGpu' = expGpu \cup chunks
  /\ UNCHANGED <<alloc, cpu, gpu, counter, gpuMem, pins, leases, expCpu>>
  /\ UNCHANGED <<used, advised, held, record, exporter>>

UnexportGpu(chunks) ==
  /\ exporter = IdleExport /\ alloc /\ chunks \subseteq expGpu
  /\ expGpu' = expGpu \ chunks
  /\ UNCHANGED <<alloc, cpu, gpu, counter, gpuMem, pins, leases, expCpu>>
  /\ UNCHANGED <<used, advised, held, record, exporter>>

----------------------------------------------------------------------------
UnifiedMemoryNext ==
  \/ Allocate \/ Release \/ GetGpu \/ LoadingComplete
  \/ \E drop \in BOOLEAN : ReleaseGpu(drop)
  \/ \E t \in Clients :
       \/ \E target \in Targets, asked \in {{}, {0}} : PlanLoad(t, target, asked)
       \/ \E c \in Chunks : WriteSpan(t, c)
       \/ Commit(t) \/ Abort(t) \/ DropPins(t) \/ ReleaseStable(t)
       \/ \E chunks \in Indices : GrantDirectWrite(t, chunks) \/ AcquireStable(t, chunks)
  \/ \E n \in 1..NumChunks : MarkCpuPreemptible(n)
  \/ \E policy \in {"MarkPreemptible", "EvictCPU"}, bytes \in 1..NumChunks :
       PostGpuLoadPolicy(policy, bytes)
  \/ \E chunks \in Indices : ExportBegin(chunks)
  \/ ExportCheck \/ ExportAcquire \/ ExportRegister \/ ExportFails \/ Unexport
  \/ \E chunks \in Indices : ExportGpu(chunks) \/ UnexportGpu(chunks)

UnifiedMemorySpec == UnifiedMemoryInit /\ [][UnifiedMemoryNext]_vars

----------------------------------------------------------------------------
(* Properties.                                                             *)

\* Every variable has its type, and the budget is never exceeded.
TypeOK ==
  /\ alloc \in BOOLEAN /\ gpuMem \in BOOLEAN
  /\ cpu \in [Chunks -> {"COLD", "HOT", "STABLE", "PREEMPTIBLE"}]
  /\ gpu \in [Chunks -> {"none", "COPIED_GPU", "EVICTED"}]
  /\ counter \in 0..NumChunks /\ used \in 0..Budget
  /\ pins \in [Chunks -> Nat] /\ leases \in [Chunks -> Nat]
  /\ expCpu \subseteq Chunks /\ expGpu \subseteq Chunks /\ advised \subseteq Chunks

\* A chunk is STABLE in the ledger exactly while somebody holds a stable
\* lease on it: neither a commit, nor a refused lease, nor a preemption pass,
\* nor the release of another holder's lease takes the protection away.
StableIffLeased == \A c \in Chunks : cpu[c] = "STABLE" <=> leases[c] > 0

\* The leases that the ledger counts, one pair for each.
Counted == UNION {{c} \X (1..leases[c]) : c \in Chunks}

\* The bytes charged to the tier budget are those of the leases counted in
\* the ledger, through refusals, roll-backs and exports (while no replica is
\* released under its leases).
BudgetMatches == used = Cardinality(Counted)

\* No step gives the pages of a chunk to the kernel while a pin handle or a
\* stable lease covers the chunk.
PinnedNotAdvisedStep ==
  \A c \in advised' \ advised : pins[c] = 0 /\ leases[c] = 0

\* The counter behind the fast path of is_gpu_loading_complete never counts a
\* chunk that the records do not show on the device.
CounterSound == counter <= Cardinality({c \in Chunks : IsLoaded(c)})

\* The CPU chunks of a published export are covered by a stable lease until
\* they are unexported.
ExportCovered == \A c \in record.ranges : leases[c] > 0

\* Once every holder has given its lease back and nothing is exported, no
\* lease is left in the ledger.
NoLeaseLeft ==
  (exporter = IdleExport /\ record = NoRecord /\ \A t \in Clients : held[t] = Nothing)
    => \A c \in Chunks : leases[c] = 0

=============================================================================

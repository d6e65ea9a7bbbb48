------------------------ MODULE UnifiedMemoryProofs ------------------------
(***************************************************************************)
(* Proofs about the chunk ledger of the unified memory authority, for      *)
(* every value of the constants: a chunk is STABLE exactly while a lease   *)
(* covers it, the loaded counter never runs ahead of the records, and the  *)
(* budget is charged with the leases that the ledger counts.               *)
(***************************************************************************)
EXTENDS UnifiedMemory, FiniteSetTheorems, TLAPS

USE SMTT(20), ZenonT(20)

\* What is assumed of the constants: a replica has at least one chunk, there
\* are finitely many clients, and loads are planned for the two locations.
Sizes ==
  /\ NumChunks \in Nat \ {0} /\ IsFiniteSet(Clients) /\ Budget \in Nat
  /\ Targets \subseteq {"CPU", "GPU"}

CpuStates == {"COLD", "HOT", "STABLE", "PREEMPTIBLE"}
GpuStates == {"none", "COPIED_GPU", "EVICTED"}
Holdings ==
  {Nothing} \union [kind : {"session"}, target : {"CPU", "GPU"}, chunks : Indices]
            \union [kind : {"pin", "lease"}, chunks : Indices]
Exporting ==
  {IdleExport} \union [at : {"check", "acquire"}, chunks : Indices]
               \union [at : {"register"}, chunks : Indices, lease : BOOLEAN]

Flags == alloc \in BOOLEAN /\ gpuMem \in BOOLEAN
Records == record \in [ranges : SUBSET Chunks, lease : BOOLEAN] /\ exporter \in Exporting
Chunkwise ==
  /\ gpu \in [Chunks -> GpuStates] /\ counter \in Nat
  /\ pins \in [Chunks -> Nat] /\ expCpu \subseteq Chunks /\ expGpu \subseteq Chunks
  /\ advised \subseteq Chunks /\ held \in [Clients -> Holdings]
Leases == cpu \in [Chunks -> CpuStates] /\ leases \in [Chunks -> Nat] /\ used \in 0..Budget

\* What holds whether or not the replica is released under its leases.
MemoryInv == Flags /\ Records /\ Chunkwise /\ Leases /\ CounterSound /\ StableIffLeased

\* A set of chunks is finite, and has no more elements than there are chunks.
LEMMA ChunksFinite ==
  ASSUME Sizes
  PROVE  \A S \in SUBSET Chunks :
           IsFiniteSet(S) /\ Cardinality(S) \in Nat /\ Cardinality(S) <= NumChunks
<1>1. IsFiniteSet(Chunks) /\ Cardinality(Chunks) = NumChunks
  BY FS_Interval DEF Sizes, Chunks
<1>2. ASSUME NEW S \in SUBSET Chunks
      PROVE  IsFiniteSet(S) /\ Cardinality(S) <= Cardinality(Chunks)
  BY <1>1, FS_Subset
<1> QED BY <1>1, <1>2, FS_CardinalityType

\* What a client holds, by its kind.
LEMMA HeldKinds ==
  ASSUME Chunkwise, NEW t \in Clients
  PROVE  /\ held[t].kind = "session" => held[t].chunks \in Indices /\ held[t].target \in {"CPU", "GPU"}
         /\ held[t].kind \in {"pin", "lease"} => held[t].chunks \in Indices
<1>1. held[t] \in Holdings
  BY DEF Chunkwise
<1> HIDE DEF Indices
<1> QED BY <1>1 DEF Holdings, Nothing

\* What an export holds, by its step.
LEMMA ExportKinds ==
  ASSUME Records
  PROVE  /\ exporter.at \in {"check", "acquire", "register"} => exporter.chunks \in Indices
         /\ exporter.at = "register" => exporter.lease \in BOOLEAN
<1>1. exporter \in Exporting
  BY DEF Records
<1> HIDE DEF Indices
<1> QED BY <1>1 DEF Exporting, IdleExport

\* The initial state.
LEMMA MemoryInit == ASSUME Sizes, UnifiedMemoryInit PROVE MemoryInv
<1> USE DEF UnifiedMemoryInit, Of
<1>1. Flags
  BY Zenon DEF Flags
<1>2. Records
  BY DEF Records, NoRecord, Exporting
<1>3. Chunkwise
  BY DEF Chunkwise, GpuStates, Holdings
<1>4. Leases
  BY DEF Leases, CpuStates, Sizes
<1>5. CounterSound
  <2>1. {c \in Chunks : IsLoaded(c)} \in SUBSET Chunks
    OBVIOUS
  <2>2. Cardinality({c \in Chunks : IsLoaded(c)}) \in Nat
    BY <2>1, ChunksFinite
  <2> QED BY <2>2 DEF CounterSound
<1>6. StableIffLeased
  BY DEF StableIffLeased
<1> QED BY <1>1, <1>2, <1>3, <1>4, <1>5, <1>6 DEF MemoryInv

----------------------------------------------------------------------------
(* Leases. *)

\* A lease is taken, or refused by the budget.
LEMMA LeaseTaken ==
  ASSUME Sizes, MemoryInv, NEW chunks \in Indices, TakeLease(chunks)
  PROVE  Leases' /\ StableIffLeased'
<1>1. Leases /\ StableIffLeased /\ chunks \in SUBSET Chunks
  BY DEF MemoryInv, Indices
<1>2. Cardinality(chunks) \in Nat
  BY <1>1, ChunksFinite
<1>3. CASE Fits(chunks)
  <2>1. /\ leases' = CountUp(chunks) /\ used' = used + Cardinality(chunks)
        /\ cpu' = [c \in Chunks |-> IF c \in chunks THEN "STABLE" ELSE cpu[c]]
    BY <1>3 DEF TakeLease
  <2>2. Leases'
    BY <1>1, <1>2, <1>3, <2>1 DEF Leases, CountUp, CpuStates, Fits, Sizes
  <2>3. ASSUME NEW c \in Chunks PROVE cpu'[c] = "STABLE" <=> leases'[c] > 0
    BY <1>1, <2>1 DEF Leases, CountUp, StableIffLeased
  <2> QED BY <2>2, <2>3 DEF StableIffLeased
<1>4. CASE ~Fits(chunks)
  <2>1. /\ leases' = leases /\ used' = used
        /\ cpu' = [c \in Chunks |-> IF c \in chunks /\ leases[c] = 0 THEN "HOT" ELSE cpu[c]]
    BY <1>4 DEF TakeLease
  <2>2. Leases'
    BY <1>1, <2>1 DEF Leases, CpuStates
  <2>3. ASSUME NEW c \in Chunks PROVE cpu'[c] = "STABLE" <=> leases'[c] > 0
    BY <1>1, <2>1 DEF Leases, StableIffLeased
  <2> QED BY <2>2, <2>3 DEF StableIffLeased
<1> QED BY <1>3, <1>4

\* A lease is given back; chunks without a lease stop it.
LEMMA LeaseGiven ==
  ASSUME Sizes, MemoryInv, NEW chunks \in SUBSET Chunks, GiveLease(chunks)
  PROVE  Leases' /\ StableIffLeased'
<1> DEFINE unheld == {c \in chunks : leases[c] = 0}
           done == {c \in chunks : \A u \in unheld : c < u}
<1>1. Leases /\ StableIffLeased
  BY DEF MemoryInv
<1>2. Cardinality(chunks) \in Nat
  BY ChunksFinite
<1>3. /\ leases' = CountDown(done) /\ cpu' = HotWhenFree(done, CountDown(done))
      /\ \/ used' = used \/ used' = 0
         \/ used >= Cardinality(chunks) /\ used' = used - Cardinality(chunks)
  BY DEF GiveLease
<1>4. done \subseteq Chunks /\ \A c \in done : leases[c] \in Nat \ {0}
  <2>1. ASSUME NEW c \in done PROVE leases[c] # 0
    <3>1. c \in Int /\ (c \in unheld => c < c)
      BY DEF Chunks, Sizes
    <3> QED BY <3>1
  <2> QED BY <1>1, <2>1 DEF Leases
<1> HIDE DEF done
<1>5. Leases'
  <2>1. leases' \in [Chunks -> Nat]
    BY <1>1, <1>3, <1>4 DEF Leases, CountDown
  <2>2. cpu' \in [Chunks -> CpuStates]
    BY <1>1, <1>3 DEF Leases, HotWhenFree, CpuStates
  <2>3. used' \in 0..Budget
    BY <1>1, <1>2, <1>3 DEF Leases, Sizes
  <2> QED BY <2>1, <2>2, <2>3 DEF Leases
<1>6. ASSUME NEW c \in Chunks PROVE cpu'[c] = "STABLE" <=> leases'[c] > 0
  BY <1>1, <1>3, <1>4 DEF Leases, CountDown, HotWhenFree, StableIffLeased
<1> QED BY <1>5, <1>6 DEF StableIffLeased
----------------------------------------------------------------------------
(* The other steps. *)

\* A step that touches neither the leases nor the copies on the device.
LEMMA LedgerStays ==
  ASSUME MemoryInv, UNCHANGED <<cpu, leases, used, gpu, counter>>
  PROVE  Leases' /\ CounterSound' /\ StableIffLeased'
<1> USE DEF MemoryInv
<1>1. Leases'
  BY DEF Leases
<1>2. CounterSound'
  BY DEF CounterSound, IsLoaded
<1>3. StableIffLeased'
  BY DEF StableIffLeased
<1> QED BY <1>1, <1>2, <1>3

\* Pins stay natural numbers.
LEMMA PinTypes ==
  ASSUME Chunkwise, NEW S
  PROVE  Pin(S) \in [Chunks -> Nat] /\ Unpin(S) \in [Chunks -> Nat]
BY DEF Chunkwise, Pin, Unpin

\* Allocation and the writes of a session.
LEMMA PlainSteps ==
  ASSUME Sizes, MemoryInv,
         \/ Allocate
         \/ \E t \in Clients : \/ Abort(t)
                               \/ \E c \in Chunks : WriteSpan(t, c)
  PROVE  MemoryInv'
<1> USE DEF ledger
<1>1. Flags /\ Records /\ Chunkwise
  BY DEF MemoryInv
<1>2. UNCHANGED <<cpu, leases, used, gpu, counter, gpuMem, record, exporter>>
  BY DEF Allocate, Abort, WriteSpan
<1>3. Leases' /\ CounterSound' /\ StableIffLeased'
  BY <1>2, LedgerStays
<1>4. Flags'
  BY <1>1, Zenon DEF Flags, Allocate, Abort, WriteSpan
<1>5. Records'
  BY <1>1, <1>2, Zenon DEF Records
<1>6. Chunkwise'
  <2>1. UNCHANGED <<pins, expCpu, expGpu>>
    BY DEF Allocate, Abort, WriteSpan
  <2>2. advised' \subseteq advised
    BY DEF Allocate, Abort, WriteSpan
  <2>3. held' = held \/ \E t \in Clients : held' = [held EXCEPT ![t] = Nothing]
    BY DEF Allocate, Abort, WriteSpan
  <2>4. held' \in [Clients -> Holdings]
    BY <1>1, <2>3 DEF Chunkwise, Holdings
  <2> QED BY <1>1, <1>2, <2>1, <2>2, <2>4 DEF Chunkwise
<1> QED BY <1>3, <1>4, <1>5, <1>6 DEF MemoryInv

\* A plan covers the chunks that were asked for or the ones that are missing.
LEMMA PlanStep ==
  ASSUME Sizes, MemoryInv, NEW t \in Clients, NEW target \in Targets,
         NEW asked \in {{}, {0}}, PlanLoad(t, target, asked)
  PROVE  MemoryInv'
<1> DEFINE plan == Planned(target, asked)
<1>1. Flags /\ Records /\ Chunkwise
  BY DEF MemoryInv
<1>2. /\ UNCHANGED <<cpu, leases, used, gpu, counter, alloc, gpuMem, record, exporter>>
      /\ UNCHANGED <<pins, expCpu, expGpu, advised>> /\ plan # {}
      /\ held' = [held EXCEPT ![t] = [kind |-> "session", target |-> target, chunks |-> plan]]
  BY DEF PlanLoad, ledger
<1>3. Leases' /\ CounterSound' /\ StableIffLeased'
  BY <1>2, LedgerStays
<1>4. plan \in Indices
  <2>1. {0} \subseteq Chunks
    BY DEF Chunks, Sizes
  <2>2. Missing(target) \subseteq Chunks
    BY Zenon DEF Missing
  <2>3. plan \subseteq Chunks
    BY <2>1, <2>2 DEF Planned
  <2> HIDE DEF plan
  <2> QED BY <1>2, <2>3 DEF Indices
<1> HIDE DEF plan
<1>5. target \in {"CPU", "GPU"}
  BY DEF Sizes
<1>6. Flags' /\ Records'
  BY <1>1, <1>2, Zenon DEF Flags, Records
<1>7. held' \in [Clients -> Holdings]
  BY <1>1, <1>2, <1>4, <1>5 DEF Chunkwise, Holdings
<1>8. Chunkwise'
  BY <1>1, <1>2, <1>7 DEF Chunkwise
<1> QED BY <1>3, <1>6, <1>8 DEF MemoryInv

\* Pins of a client.
LEMMA PinSteps ==
  ASSUME Sizes, MemoryInv, NEW t \in Clients,
         DropPins(t) \/ \E chunks \in Indices : GrantDirectWrite(t, chunks)
  PROVE  MemoryInv'
<1>1. Flags /\ Records /\ Chunkwise
  BY DEF MemoryInv
<1>2. /\ UNCHANGED <<cpu, leases, used, gpu, counter, alloc, gpuMem, record, exporter>>
      /\ UNCHANGED <<expCpu, expGpu, advised>>
      /\ \/ pins' = Unpin(held[t].chunks) /\ held' = [held EXCEPT ![t] = Nothing]
         \/ \E chunks \in Indices :
              /\ pins' = Pin(chunks)
              /\ held' = [held EXCEPT ![t] = [kind |-> "pin", chunks |-> chunks]]
  BY DEF DropPins, GrantDirectWrite
<1>3. Leases' /\ CounterSound' /\ StableIffLeased'
  BY <1>2, LedgerStays
<1>4. Flags' /\ Records'
  BY <1>1, <1>2, Zenon DEF Flags, Records
<1>5. pins' \in [Chunks -> Nat]
  BY <1>1, <1>2, PinTypes
<1>6. held' \in [Clients -> Holdings]
  BY <1>1, <1>2 DEF Chunkwise, Holdings
<1>7. Chunkwise'
  BY <1>1, <1>2, <1>5, <1>6 DEF Chunkwise
<1> QED BY <1>3, <1>4, <1>7 DEF MemoryInv

\* The export calls that take or give no lease.
LEMMA ExportSteps ==
  ASSUME Sizes, MemoryInv,
         \/ ExportCheck \/ ExportRegister
         \/ \E chunks \in Indices : ExportBegin(chunks) \/ ExportGpu(chunks) \/ UnexportGpu(chunks)
  PROVE  MemoryInv'
<1>1. Flags /\ Records /\ Chunkwise
  BY DEF MemoryInv
<1>2. /\ UNCHANGED <<cpu, leases, used, gpu, counter, alloc, gpuMem>>
      /\ UNCHANGED <<advised, held>>
  BY DEF ExportCheck, ExportRegister, ExportBegin, ExportGpu, UnexportGpu, ledger
<1>3. Leases' /\ CounterSound' /\ StableIffLeased'
  BY <1>2, LedgerStays
<1>4. Flags'
  BY <1>1, <1>2, Zenon DEF Flags
<1>5. Records'
  <2>1. CASE ExportCheck
    <3>1. exporter.chunks \in Indices /\ exporter \in Exporting /\ record' = record
      BY <1>1, <2>1, ExportKinds DEF ExportCheck, Records
    <3>2. exporter' \in {[at |-> "register", chunks |-> exporter.chunks, lease |-> FALSE],
                         [exporter EXCEPT !.at = "acquire"]}
      BY <2>1, Zenon DEF ExportCheck
    <3>3. [exporter EXCEPT !.at = "acquire"] \in Exporting
      <4>1. exporter \in [at : {"check", "acquire"}, chunks : Indices]
        BY <3>1, <2>1 DEF ExportCheck, Exporting, IdleExport
      <4> QED BY <4>1 DEF Exporting
    <3>4. [at |-> "register", chunks |-> exporter.chunks, lease |-> FALSE] \in Exporting
      BY <3>1 DEF Exporting
    <3> QED BY <1>1, <3>1, <3>2, <3>3, <3>4, Zenon DEF Records
  <2>2. CASE ExportRegister
    <3>1. /\ exporter' = IdleExport /\ record' = [ranges |-> exporter.chunks, lease |-> exporter.lease]
          /\ exporter.chunks \in Indices /\ exporter.lease \in BOOLEAN
      BY <1>1, <2>2, ExportKinds DEF ExportRegister
    <3>2. exporter.chunks \in SUBSET Chunks
      BY <3>1 DEF Indices
    <3>3. exporter' \in Exporting
      BY <3>1 DEF Exporting
    <3>4. record' \in [ranges : SUBSET Chunks, lease : BOOLEAN]
      BY <3>1, <3>2, Zenon
    <3> QED BY <3>3, <3>4, Zenon DEF Records
  <2>3. CASE \E chunks \in Indices : ExportBegin(chunks)
    <3>1. PICK chunks \in Indices : ExportBegin(chunks)
      BY <2>3
    <3>2. exporter' = [at |-> "check", chunks |-> chunks] /\ record' = record
      BY <3>1 DEF ExportBegin
    <3>3. exporter' \in Exporting
      BY <3>2 DEF Exporting
    <3> QED BY <1>1, <3>2, <3>3, Zenon DEF Records
  <2>4. CASE \E chunks \in Indices : ExportGpu(chunks) \/ UnexportGpu(chunks)
    <3>1. UNCHANGED <<record, exporter>>
      BY <2>4 DEF ExportGpu, UnexportGpu
    <3> QED BY <1>1, <3>1, Zenon DEF Records
  <2> QED BY <2>1, <2>2, <2>3, <2>4
<1>6. pins' \in [Chunks -> Nat]
  <2>1. pins \in [Chunks -> Nat] /\ \A S : Pin(S) \in [Chunks -> Nat] /\ Unpin(S) \in [Chunks -> Nat]
    BY <1>1, PinTypes DEF Chunkwise
  <2>2. pins' = pins \/ \E S : pins' = Pin(S) \/ pins' = Unpin(S)
    BY Zenon DEF ExportCheck, ExportRegister, ExportBegin, ExportGpu, UnexportGpu, ledger
  <2> QED BY <2>1, <2>2, Zenon
<1>7. expCpu' \subseteq Chunks /\ expGpu' \subseteq Chunks
  BY <1>1 DEF Chunkwise, Indices, ExportCheck, ExportRegister, ExportBegin, ExportGpu, UnexportGpu, ledger
<1>8. Chunkwise'
  BY <1>1, <1>2, <1>6, <1>7 DEF Chunkwise
<1> QED BY <1>3, <1>4, <1>5, <1>8 DEF MemoryInv

\* The device memory comes and goes, and the counter is recounted.
LEMMA DeviceSteps ==
  ASSUME Sizes, MemoryInv,
         GetGpu \/ LoadingComplete \/ \E drop \in BOOLEAN : ReleaseGpu(drop)
  PROVE  MemoryInv'
<1> DEFINE loaded == {c \in Chunks : IsLoaded(c)}
<1>1. Flags /\ Records /\ Chunkwise /\ Leases /\ StableIffLeased
  BY DEF MemoryInv
<1>2. /\ UNCHANGED <<cpu, leases, used, alloc, record, exporter>>
      /\ UNCHANGED <<pins, expCpu, expGpu, advised, held>>
  BY Zenon DEF GetGpu, LoadingComplete, ReleaseGpu
<1>3. Flags'
  BY <1>1, Zenon DEF Flags, GetGpu, LoadingComplete, ReleaseGpu
<1>4. Records' /\ Leases' /\ StableIffLeased'
  BY <1>1, <1>2, Zenon DEF Records, Leases, StableIffLeased
<1>5. gpu' \in [Chunks -> GpuStates]
  BY <1>1, Zenon DEF Chunkwise, GpuStates, GetGpu, LoadingComplete, ReleaseGpu
<1>6. counter' = 0 \/ (counter' = Cardinality(loaded) /\ loaded' = loaded)
  BY Zenon DEF GetGpu, LoadingComplete, ReleaseGpu, IsLoaded
<1>7. Cardinality(loaded) \in Nat /\ Cardinality(loaded') \in Nat
  <2>1. loaded \in SUBSET Chunks /\ loaded' \in SUBSET Chunks
    OBVIOUS
  <2> HIDE DEF loaded
  <2> QED BY <2>1, ChunksFinite
<1>8. counter' \in Nat /\ counter' <= Cardinality(loaded')
  <2> HIDE DEF loaded
  <2> QED BY <1>6, <1>7
<1>9. CounterSound'
  BY <1>8, Zenon DEF CounterSound
<1>10. Chunkwise'
  BY <1>1, <1>2, <1>5, <1>8 DEF Chunkwise
<1> QED BY <1>3, <1>4, <1>9, <1>10 DEF MemoryInv

\* A commit counts the chunks that were not on the device, and leaves the
\* chunks under a lease STABLE.
LEMMA CommitStep ==
  ASSUME Sizes, MemoryInv, NEW t \in Clients, Commit(t)
  PROVE  MemoryInv'
<1> DEFINE loaded == {c \in Chunks : IsLoaded(c)}
           fresh == {c \in held[t].chunks : ~IsLoaded(c)}
<1>1. Flags /\ Records /\ Chunkwise /\ Leases /\ StableIffLeased /\ CounterSound
  BY DEF MemoryInv
<1>2. /\ UNCHANGED <<alloc, gpuMem, pins, leases, expCpu, expGpu>>
      /\ UNCHANGED <<used, advised, record, exporter>>
      /\ held' = [held EXCEPT ![t] = Nothing] /\ held[t].kind = "session"
  BY DEF Commit
<1>3. held[t].chunks \in SUBSET Chunks
  BY <1>1, <1>2, HeldKinds DEF Indices
<1>4. Flags' /\ Records'
  BY <1>1, <1>2, Zenon DEF Flags, Records
<1>5. held' \in [Clients -> Holdings]
  BY <1>1, <1>2 DEF Chunkwise, Holdings
<1>6. CASE held[t].target = "GPU"
  <2>1. /\ gpu' = [c \in Chunks |-> IF c \in held[t].chunks THEN "COPIED_GPU" ELSE gpu[c]]
        /\ counter' = counter + Cardinality(fresh) /\ cpu' = cpu
    BY <1>6, Zenon DEF Commit
  <2>2. Leases' /\ StableIffLeased'
    BY <1>1, <1>2, <2>1, Zenon DEF Leases, StableIffLeased
  <2>3. gpu' \in [Chunks -> GpuStates]
    BY <1>1, <2>1 DEF Chunkwise, GpuStates
  <2>4. loaded' = loaded \union fresh /\ loaded \intersect fresh = {}
    BY <1>1, <1>3, <2>1 DEF Chunkwise, IsLoaded, Loaded
  <2>5. loaded \in SUBSET Chunks /\ fresh \in SUBSET Chunks
    BY <1>3
  <2> HIDE DEF loaded, fresh
  <2>6. IsFiniteSet(loaded) /\ IsFiniteSet(fresh) /\ Cardinality(fresh) \in Nat /\ Cardinality(loaded) \in Nat
    BY <2>5, ChunksFinite
  <2>7. Cardinality(loaded') = Cardinality(loaded) + Cardinality(fresh)
    <3>1. Cardinality(loaded \union fresh)
            = Cardinality(loaded) + Cardinality(fresh) - Cardinality(loaded \intersect fresh)
      BY <2>6, FS_Union
    <3> QED BY <2>4, <2>6, <3>1, FS_EmptySet
  <2>8. counter \in Nat /\ counter <= Cardinality(loaded)
    BY <1>1, Zenon DEF Chunkwise, CounterSound, loaded
  <2>9. counter' \in Nat /\ counter' <= Cardinality(loaded')
    BY <2>1, <2>6, <2>7, <2>8
  <2>10. CounterSound'
    BY <2>9, Zenon DEF CounterSound, loaded
  <2>11. Chunkwise'
    BY <1>1, <1>2, <1>5, <2>3, <2>9 DEF Chunkwise
  <2> QED BY <1>4, <2>2, <2>10, <2>11 DEF MemoryInv
<1>7. CASE held[t].target # "GPU"
  <2>1. /\ UNCHANGED <<gpu, counter>>
        /\ cpu' = [c \in Chunks |-> IF c \in held[t].chunks THEN CommittedCpu(c) ELSE cpu[c]]
    BY <1>7, Zenon DEF Commit
  <2>2. Leases'
    BY <1>1, <1>2, <2>1 DEF Leases, CommittedCpu, CpuStates
  <2>3. ASSUME NEW c \in Chunks PROVE cpu'[c] = "STABLE" <=> leases'[c] > 0
    BY <1>1, <1>2, <2>1 DEF Leases, CommittedCpu, StableIffLeased
  <2>4. CounterSound'
    BY <1>1, <2>1, Zenon DEF CounterSound, IsLoaded
  <2>5. Chunkwise'
    BY <1>1, <1>2, <1>5, <2>1 DEF Chunkwise
  <2> QED BY <1>4, <2>2, <2>3, <2>4, <2>5 DEF MemoryInv, StableIffLeased
<1> QED BY <1>6, <1>7

\* Pages are given back: chunks under a lease are left alone.
LEMMA PreemptSteps ==
  ASSUME Sizes, MemoryInv,
         \/ \E n \in 1..NumChunks : MarkCpuPreemptible(n)
         \/ \E policy \in {"MarkPreemptible", "EvictCPU"}, bytes \in 1..NumChunks :
              PostGpuLoadPolicy(policy, bytes)
  PROVE  MemoryInv'
<1>1. Flags /\ Records /\ Chunkwise /\ Leases /\ StableIffLeased /\ CounterSound
  BY DEF MemoryInv
<1>2. /\ UNCHANGED <<alloc, gpu, counter, gpuMem, pins, leases, expCpu, expGpu>>
      /\ UNCHANGED <<used, held, record, exporter>>
  BY DEF MarkCpuPreemptible, PostGpuLoadPolicy
<1>3. \/ \E chunks \in SUBSET Chunks : MarkPreemptible(chunks)
      \/ \E bytes : advised' = advised \union Tail(bytes) /\ cpu' = cpu
  <2>1. CASE \E n \in 1..NumChunks : MarkCpuPreemptible(n)
    <3>1. PICK n \in 1..NumChunks : MarkCpuPreemptible(n)
      BY <2>1
    <3>2. 0..(n - 1) \in SUBSET Chunks /\ MarkPreemptible(0..(n - 1))
      BY <3>1 DEF Chunks, Sizes, MarkCpuPreemptible
    <3> QED BY <3>2, Zenon
  <2>2. CASE \E policy \in {"MarkPreemptible", "EvictCPU"}, bytes \in 1..NumChunks :
               PostGpuLoadPolicy(policy, bytes)
    BY <2>2, Zenon DEF PostGpuLoadPolicy
  <2> QED BY <2>1, <2>2
<1>4. Flags' /\ Records' /\ CounterSound'
  BY <1>1, <1>2, Zenon DEF Flags, Records, CounterSound, IsLoaded
<1>5. CASE \E chunks \in SUBSET Chunks : MarkPreemptible(chunks)
  <2>1. PICK chunks \in SUBSET Chunks : MarkPreemptible(chunks)
    BY <1>5
  <2> DEFINE eligible == {c \in chunks : leases[c] = 0 /\ cpu[c] # "STABLE"}
  <2>2. /\ cpu' = [c \in Chunks |-> IF c \in eligible THEN "PREEMPTIBLE" ELSE cpu[c]]
        /\ advised' = advised \union {c \in eligible : Advisable(c)}
    BY <2>1 DEF MarkPreemptible
  <2>3. \A c \in eligible : c \in Chunks /\ leases[c] = 0
    BY <2>1
  <2> HIDE DEF eligible
  <2>4. advised' \subseteq Chunks
    BY <1>1, <2>2, <2>3 DEF Chunkwise
  <2>5. Leases'
    BY <1>1, <1>2, <2>2 DEF Leases, CpuStates
  <2>6. ASSUME NEW c \in Chunks PROVE cpu'[c] = "STABLE" <=> leases'[c] > 0
    BY <1>1, <1>2, <2>2, <2>3 DEF Leases, StableIffLeased
  <2>7. Chunkwise'
    BY <1>1, <1>2, <2>4 DEF Chunkwise
  <2> QED BY <1>4, <2>5, <2>6, <2>7 DEF MemoryInv, StableIffLeased
<1>6. CASE \E bytes : advised' = advised \union Tail(bytes) /\ cpu' = cpu
  <2>1. advised' \subseteq Chunks
    BY <1>1, <1>6 DEF Chunkwise, Tail
  <2>2. Chunkwise'
    BY <1>1, <1>2, <2>1 DEF Chunkwise
  <2>3. Leases' /\ StableIffLeased'
    BY <1>1, <1>2, <1>6, Zenon DEF Leases, StableIffLeased
  <2> QED BY <1>4, <2>2, <2>3 DEF MemoryInv
<1> QED BY <1>3, <1>5, <1>6

\* The replica is released, leases or not.
LEMMA ReleaseStep == ASSUME Sizes, MemoryInv, Release PROVE MemoryInv'
<1> USE DEF Release, Of
<1>1. Flags'
  BY Zenon DEF Flags
<1>2. Records'
  BY Zenon DEF MemoryInv, Records
<1>3. Chunkwise'
  BY DEF MemoryInv, Chunkwise, GpuStates
<1>4. Leases'
  BY DEF MemoryInv, Leases, CpuStates
<1>5. CounterSound'
  <2>1. {c \in Chunks : IsLoaded(c)'} \in SUBSET Chunks
    OBVIOUS
  <2>2. Cardinality({c \in Chunks : IsLoaded(c)'}) \in Nat
    BY <2>1, ChunksFinite
  <2> QED BY <2>2 DEF CounterSound
<1>6. StableIffLeased'
  BY DEF StableIffLeased
<1> QED BY <1>1, <1>2, <1>3, <1>4, <1>5, <1>6 DEF MemoryInv

\* A client takes or gives back a lease.
LEMMA ClientLeaseSteps ==
  ASSUME Sizes, MemoryInv, NEW t \in Clients,
         ReleaseStable(t) \/ \E chunks \in Indices : AcquireStable(t, chunks)
  PROVE  MemoryInv'
<1>1. Flags /\ Records /\ Chunkwise /\ Leases /\ StableIffLeased /\ CounterSound
  BY DEF MemoryInv
<1>2. /\ UNCHANGED <<alloc, gpu, counter, gpuMem, pins, expCpu, expGpu>>
      /\ UNCHANGED <<advised, record, exporter>>
  BY DEF ReleaseStable, AcquireStable
<1>3. Flags' /\ Records' /\ CounterSound'
  BY <1>1, <1>2, Zenon DEF Flags, Records, CounterSound, IsLoaded
<1>4. held' \in [Clients -> Holdings]
  BY <1>1 DEF Chunkwise, Holdings, ReleaseStable, AcquireStable
<1>5. Chunkwise'
  BY <1>1, <1>2, <1>4 DEF Chunkwise
<1>6. Leases' /\ StableIffLeased'
  <2>1. CASE \E chunks \in Indices : AcquireStable(t, chunks)
    BY <2>1, LeaseTaken DEF AcquireStable
  <2>2. CASE ReleaseStable(t) /\ alloc
    <3>1. held[t].chunks \in SUBSET Chunks /\ GiveLease(held[t].chunks)
      BY <1>1, <2>2, HeldKinds DEF ReleaseStable, Indices
    <3> QED BY <3>1, LeaseGiven, ZenonT(40)
  <2>3. CASE ReleaseStable(t) /\ ~alloc
    <3>1. UNCHANGED <<leases, cpu, used>>
      BY <2>3 DEF ReleaseStable
    <3> QED BY <1>1, <3>1, Zenon DEF Leases, StableIffLeased
  <2> QED BY <2>1, <2>2, <2>3
<1> QED BY <1>3, <1>5, <1>6 DEF MemoryInv

\* An export takes or gives back a lease.
LEMMA ExportLeaseSteps ==
  ASSUME Sizes, MemoryInv, ExportAcquire \/ ExportFails \/ Unexport
  PROVE  MemoryInv'
<1>1. Flags /\ Records /\ Chunkwise /\ Leases /\ StableIffLeased /\ CounterSound
  BY DEF MemoryInv
<1>2. UNCHANGED <<alloc, gpu, counter, gpuMem, expGpu, advised, held>>
  BY DEF ExportAcquire, ExportFails, Unexport
<1>3. Flags' /\ CounterSound'
  BY <1>1, <1>2, Zenon DEF Flags, CounterSound, IsLoaded
<1>4. Records'
  <2>1. CASE ExportAcquire
    <3>1. exporter.chunks \in Indices /\ record' = record
      BY <1>1, <2>1, ExportKinds DEF ExportAcquire
    <3>2. exporter' \in {[at |-> "register", chunks |-> exporter.chunks, lease |-> TRUE], IdleExport}
      BY <2>1, Zenon DEF ExportAcquire, Rollback
    <3>3. [at |-> "register", chunks |-> exporter.chunks, lease |-> TRUE] \in Exporting
      BY <3>1 DEF Exporting
    <3>4. IdleExport \in Exporting
      BY DEF Exporting
    <3> QED BY <1>1, <3>1, <3>2, <3>3, <3>4, Zenon DEF Records
  <2>2. CASE ExportFails
    BY <1>1, <2>2, Zenon DEF ExportFails, Rollback, Records, Exporting
  <2>3. CASE Unexport
    <3>1. NoRecord \in [ranges : SUBSET Chunks, lease : BOOLEAN]
      BY DEF NoRecord
    <3> QED BY <1>1, <2>3, <3>1, Zenon DEF Unexport, Records
  <2> QED BY <2>1, <2>2, <2>3
<1>5. pins' \in [Chunks -> Nat] /\ expCpu' \subseteq Chunks
  <2>1. pins \in [Chunks -> Nat] /\ \A S : Unpin(S) \in [Chunks -> Nat]
    BY <1>1, PinTypes DEF Chunkwise
  <2>2. pins' = pins \/ \E S : pins' = Unpin(S)
    BY Zenon DEF ExportAcquire, ExportFails, Unexport, Rollback
  <2>3. expCpu' \subseteq Chunks
    BY <1>1 DEF Chunkwise, ExportAcquire, ExportFails, Unexport, Rollback
  <2> QED BY <2>1, <2>2, <2>3, Zenon
<1>6. Chunkwise'
  BY <1>1, <1>2, <1>5 DEF Chunkwise
<1>7. Leases' /\ StableIffLeased'
  <2>1. CASE ExportAcquire
    <3>1. exporter.chunks \in Indices /\ TakeLease(exporter.chunks)
      BY <1>1, <2>1, ExportKinds DEF ExportAcquire
    <3> QED BY <3>1, LeaseTaken
  <2>2. CASE UNCHANGED <<leases, cpu, used>>
    BY <1>1, <2>2, Zenon DEF Leases, StableIffLeased
  <2>3. CASE ExportFails /\ ~UNCHANGED <<leases, cpu, used>>
    <3>1. exporter.chunks \in SUBSET Chunks /\ GiveLease(exporter.chunks)
      BY <1>1, <2>3, ExportKinds, ZenonT(40) DEF ExportFails, Indices
    <3> QED BY <3>1, LeaseGiven
  <2>4. CASE Unexport /\ ~UNCHANGED <<leases, cpu, used>>
    <3>1. record.ranges \in SUBSET Chunks
      BY <1>1 DEF Records
    <3>2. GiveLease(record.ranges)
      BY <2>4, Zenon DEF Unexport
    <3> QED BY <3>1, <3>2, LeaseGiven
  <2> QED BY <2>1, <2>2, <2>3, <2>4
<1> QED BY <1>3, <1>4, <1>6, <1>7 DEF MemoryInv

\* Every step keeps the invariant.
LEMMA MemoryStep == ASSUME Sizes, MemoryInv, [UnifiedMemoryNext]_vars PROVE MemoryInv'
<1>1. CASE UnifiedMemoryNext
  <2> USE <1>1 DEF UnifiedMemoryNext
  <2>1. CASE \/ Allocate
             \/ \E t \in Clients : Abort(t) \/ \E c \in Chunks : WriteSpan(t, c)
    BY ONLY Sizes, MemoryInv, <2>1, PlainSteps, Zenon
  <2>2. CASE GetGpu \/ LoadingComplete \/ \E drop \in BOOLEAN : ReleaseGpu(drop)
    BY ONLY Sizes, MemoryInv, <2>2, DeviceSteps, Zenon
  <2>3. CASE \E t \in Clients, target \in Targets, asked \in {{}, {0}} : PlanLoad(t, target, asked)
    BY ONLY Sizes, MemoryInv, <2>3, PlanStep, Zenon
  <2>4. CASE \E t \in Clients : Commit(t)
    BY ONLY Sizes, MemoryInv, <2>4, CommitStep, Zenon
  <2>5. CASE \E t \in Clients : DropPins(t) \/ \E chunks \in Indices : GrantDirectWrite(t, chunks)
    BY ONLY Sizes, MemoryInv, <2>5, PinSteps, Zenon
  <2>6. CASE \E t \in Clients : ReleaseStable(t) \/ \E chunks \in Indices : AcquireStable(t, chunks)
    BY ONLY Sizes, MemoryInv, <2>6, ClientLeaseSteps, Zenon
  <2>7. CASE \/ \E n \in 1..NumChunks : MarkCpuPreemptible(n)
             \/ \E policy \in {"MarkPreemptible", "EvictCPU"}, bytes \in 1..NumChunks :
                  PostGpuLoadPolicy(policy, bytes)
    BY ONLY Sizes, MemoryInv, <2>7, PreemptSteps, Zenon
  <2>8. CASE \/ ExportCheck \/ ExportRegister
             \/ \E chunks \in Indices :
                  ExportBegin(chunks) \/ ExportGpu(chunks) \/ UnexportGpu(chunks)
    BY ONLY Sizes, MemoryInv, <2>8, ExportSteps, Zenon
  <2>9. CASE ExportAcquire \/ ExportFails \/ Unexport
    BY ONLY Sizes, MemoryInv, <2>9, ExportLeaseSteps, Zenon
  <2>10. CASE Release
    BY <2>10, ReleaseStep
  <2> QED BY <2>1, <2>2, <2>3, <2>4, <2>5, <2>6, <2>7, <2>8, <2>9, <2>10, Zenon
<1>2. CASE UNCHANGED vars
  <2>1. UNCHANGED <<alloc, cpu, gpu, counter, gpuMem, pins, leases, expCpu, expGpu, used,
                    advised, held, record, exporter>>
    BY <1>2 DEF vars, ledger
  <2> QED BY <2>1, Zenon DEF MemoryInv, Flags, Records, Chunkwise, Leases, CounterSound, IsLoaded,
            StableIffLeased
<1> QED BY <1>1, <1>2

\* Whatever the constants are, and even when replicas are released under their
\* leases, every reachable state satisfies the invariant of the ledger.
THEOREM MemoryInvariance == ASSUME Sizes PROVE UnifiedMemorySpec => []MemoryInv
<1>1. UnifiedMemoryInit => MemoryInv
  BY MemoryInit
<1>2. MemoryInv /\ [UnifiedMemoryNext]_vars => MemoryInv'
  BY MemoryStep
<1> QED BY <1>1, <1>2, PTL DEF UnifiedMemorySpec

\* A chunk is STABLE exactly while a stable lease covers it: no commit, refused
\* lease, preemption pass, release or lost export takes the protection away
\* or leaves it behind.
THEOREM StableAlwaysLeased == ASSUME Sizes PROVE UnifiedMemorySpec => []StableIffLeased
BY MemoryInvariance, PTL DEF MemoryInv

\* The counter that is_gpu_loading_complete trusts never runs ahead of the
\* chunk records of the device.
THEOREM CounterAlwaysSound == ASSUME Sizes PROVE UnifiedMemorySpec => []CounterSound
BY MemoryInvariance, PTL DEF MemoryInv

\* No step gives the pages of a pinned or leased chunk to the kernel.
THEOREM PinnedNeverAdvised ==
  ASSUME Sizes PROVE UnifiedMemorySpec => [][PinnedNotAdvisedStep]_vars
<1>1. ASSUME [UnifiedMemoryNext]_vars PROVE [PinnedNotAdvisedStep]_vars
  <2>1. \/ advised' \subseteq advised
        \/ \E S : advised' = advised \union {c \in S : Advisable(c)}
        \/ \E bytes : advised' = advised \union Tail(bytes)
    <3>1. CASE UNCHANGED vars
      BY <3>1 DEF vars
    <3>2. CASE UnifiedMemoryNext /\ advised' = advised
      BY <3>2
    <3>3. CASE UnifiedMemoryNext /\ advised' # advised
      <4>1. \/ Release
            \/ \E t \in Clients, c \in Chunks : WriteSpan(t, c)
            \/ \E n \in 1..NumChunks : MarkCpuPreemptible(n)
            \/ \E policy \in {"MarkPreemptible", "EvictCPU"}, bytes \in 1..NumChunks :
                 PostGpuLoadPolicy(policy, bytes)
        BY <3>3, Zenon DEF UnifiedMemoryNext, Allocate, GetGpu, LoadingComplete, ReleaseGpu,
           PlanLoad, Commit, Abort, DropPins, ReleaseStable, GrantDirectWrite, AcquireStable,
           ExportBegin, ExportCheck, ExportAcquire, ExportRegister, ExportFails, Unexport,
           ExportGpu, UnexportGpu
      <4>2. CASE Release \/ \E t \in Clients, c \in Chunks : WriteSpan(t, c)
        BY <4>2 DEF Release, WriteSpan
      <4>3. CASE \E n \in 1..NumChunks : MarkCpuPreemptible(n)
        BY <4>3, Zenon DEF MarkCpuPreemptible, MarkPreemptible
      <4>4. CASE \E policy \in {"MarkPreemptible", "EvictCPU"}, bytes \in 1..NumChunks :
                   PostGpuLoadPolicy(policy, bytes)
        BY <4>4, Zenon DEF PostGpuLoadPolicy, MarkPreemptible
      <4> QED BY <4>1, <4>2, <4>3, <4>4
    <3> QED BY <1>1, <3>1, <3>2, <3>3
  <2>2. \A bytes, c : c \in Tail(bytes) => Advisable(c)
    BY DEF Tail
  <2> QED BY <2>1, <2>2, Zenon DEF PinnedNotAdvisedStep, Advisable
<1> QED BY <1>1, PTL DEF UnifiedMemorySpec

----------------------------------------------------------------------------
(* The budget, while no replica is released under its leases. *)

Pairs(f) == UNION {{c} \X (1..f[c]) : c \in Chunks}

\* The holders of a lease on a chunk: clients, the export call and the record
\* of a published export.
Claimants(c) == {t \in Clients : held[t].kind = "lease" /\ c \in held[t].chunks}
ExportBit(c) ==
  IF exporter.at = "register" /\ exporter.lease /\ c \in exporter.chunks THEN 1 ELSE 0
RecordBit(c) == IF record.lease /\ c \in record.ranges THEN 1 ELSE 0
Claims(c) == Cardinality(Claimants(c)) + ExportBit(c) + RecordBit(c)

\* Every holder of a lease is counted on each chunk of it.  (A count may have
\* no holder: an export replaces the record of an earlier one with its lease.)
Backed == \A c \in Chunks : Claims(c) <= leases[c]
Charged == IsFiniteSet(Counted) /\ BudgetMatches

BudgetInv == MemoryInv /\ Backed /\ Charged

\* Counting one more on each chunk of a set adds as many pairs as it has chunks.
LEMMA PairsSum ==
  ASSUME Sizes, NEW f \in [Chunks -> Nat], NEW g \in [Chunks -> Nat], NEW D \in SUBSET Chunks,
         \A c \in Chunks : g[c] = IF c \in D THEN f[c] + 1 ELSE f[c],
         IsFiniteSet(Pairs(f)) \/ IsFiniteSet(Pairs(g))
  PROVE  /\ IsFiniteSet(Pairs(f)) /\ IsFiniteSet(Pairs(g))
         /\ Cardinality(Pairs(g)) = Cardinality(Pairs(f)) + Cardinality(D)
<1> DEFINE Tops == {<<c, f[c] + 1>> : c \in D}
<1>1. \A h \in [Chunks -> Nat] : \A p :
        p \in Pairs(h) <=> \E c \in Chunks : \E n \in 1..h[c] : p = <<c, n>>
  BY DEF Pairs
<1>2. Pairs(g) = Pairs(f) \union Tops
  <2>1. ASSUME NEW p \in Pairs(g) PROVE p \in Pairs(f) \union Tops
    <3>1. PICK c \in Chunks, n \in Nat : n \in 1..g[c] /\ p = <<c, n>>
      BY <1>1, <2>1
    <3>2. CASE c \in D /\ n = f[c] + 1
      BY <3>1, <3>2
    <3>3. CASE ~(c \in D /\ n = f[c] + 1)
      <4>1. n \in 1..f[c]
        BY <3>1, <3>3
      <4> QED BY <1>1, <3>1, <4>1
    <3> QED BY <3>2, <3>3
  <2>2. ASSUME NEW p \in Pairs(f) PROVE p \in Pairs(g)
    <3>1. PICK c \in Chunks, n \in Nat : n \in 1..f[c] /\ p = <<c, n>>
      BY <1>1, <2>2
    <3>2. n \in 1..g[c]
      BY <3>1
    <3> QED BY <1>1, <3>1, <3>2
  <2>3. ASSUME NEW p \in Tops PROVE p \in Pairs(g)
    <3>1. PICK c \in D : p = <<c, f[c] + 1>>
      BY <2>3
    <3>2. c \in Chunks /\ f[c] + 1 \in 1..g[c]
      BY <3>1
    <3> QED BY <1>1, <3>1, <3>2
  <2> HIDE DEF Tops
  <2> QED BY <2>1, <2>2, <2>3
<1>3. Pairs(f) \intersect Tops = {}
  <2> SUFFICES ASSUME NEW p \in Pairs(f), p \in Tops PROVE FALSE
    OBVIOUS
  <2>1. PICK c \in Chunks, n \in Nat : n \in 1..f[c] /\ p = <<c, n>>
    BY <1>1
  <2>2. PICK d \in D : p = <<d, f[d] + 1>>
    OBVIOUS
  <2>3. c = d /\ n = f[d] + 1
    BY <2>1, <2>2
  <2> QED BY <2>1, <2>3
<1>4. IsFiniteSet(Tops) /\ Cardinality(Tops) = Cardinality(D)
  <2> DEFINE pair == [c \in D |-> <<c, f[c] + 1>>]
  <2>1. pair \in Bijection(D, Tops)
    BY Zenon DEF Bijection, Injection, Surjection, IsInjective
  <2>2. ExistsBijection(D, Tops)
    BY <2>1, Zenon DEF ExistsBijection
  <2>3. IsFiniteSet(D)
    BY ChunksFinite
  <2> HIDE DEF Tops
  <2> QED BY <2>2, <2>3, FS_Bijection
<1> HIDE DEF Tops
<1>5. IsFiniteSet(Pairs(f)) /\ IsFiniteSet(Pairs(g))
  <2>1. CASE IsFiniteSet(Pairs(f))
    BY <1>2, <1>4, <2>1, FS_Union, ZenonT(40)
  <2>2. CASE IsFiniteSet(Pairs(g))
    <3>1. Pairs(f) \in SUBSET Pairs(g)
      BY <1>2
    <3> QED BY <2>2, <3>1, FS_Subset
  <2> QED BY <2>1, <2>2
<1>6. Cardinality(Pairs(f) \union Tops)
        = Cardinality(Pairs(f)) + Cardinality(Tops) - Cardinality(Pairs(f) \intersect Tops)
  BY <1>4, <1>5, FS_Union
<1>7. Cardinality(Pairs(f)) \in Nat /\ Cardinality(Tops) \in Nat
  BY <1>4, <1>5, FS_CardinalityType
<1> QED BY <1>2, <1>3, <1>4, <1>5, <1>6, <1>7, FS_EmptySet

\* A lease is charged when it is granted.
LEMMA ChargedUp ==
  ASSUME Sizes, MemoryInv, Charged, NEW chunks \in Indices, TakeLease(chunks)
  PROVE  Charged'
<1>1. /\ leases \in [Chunks -> Nat] /\ chunks \in SUBSET Chunks
      /\ IsFiniteSet(Pairs(leases)) /\ used = Cardinality(Pairs(leases))
  BY DEF MemoryInv, Leases, Indices, Charged, BudgetMatches, Counted, Pairs
<1>2. CASE Fits(chunks)
  <2>1. leases' = CountUp(chunks) /\ used' = used + Cardinality(chunks)
    BY <1>2 DEF TakeLease
  <2>2. leases' \in [Chunks -> Nat]
    BY <1>1, <2>1 DEF CountUp
  <2>3. \A c \in Chunks : leases'[c] = IF c \in chunks THEN leases[c] + 1 ELSE leases[c]
    BY <2>1 DEF CountUp
  <2>4. /\ IsFiniteSet(Pairs(leases'))
        /\ Cardinality(Pairs(leases')) = Cardinality(Pairs(leases)) + Cardinality(chunks)
    BY <1>1, <2>2, <2>3, PairsSum
  <2> QED BY <1>1, <2>1, <2>4 DEF Charged, BudgetMatches, Counted, Pairs
<1>3. CASE ~Fits(chunks)
  <2>1. leases' = leases /\ used' = used
    BY <1>3 DEF TakeLease
  <2> QED BY <2>1, Zenon DEF Charged, BudgetMatches, Counted
<1> QED BY <1>2, <1>3

\* A lease that is counted on each of its chunks is given back as a whole, and
\* its charge with it.
LEMMA ChargedDown ==
  ASSUME Sizes, MemoryInv, Charged, NEW chunks \in SUBSET Chunks, GiveLease(chunks),
         \A c \in chunks : leases[c] > 0
  PROVE  Charged' /\ leases' = CountDown(chunks)
<1> DEFINE unheld == {c \in chunks : leases[c] = 0}
           done == {c \in chunks : \A u \in unheld : c < u}
<1>1. /\ leases \in [Chunks -> Nat]
      /\ IsFiniteSet(Pairs(leases)) /\ used = Cardinality(Pairs(leases))
  BY DEF MemoryInv, Leases, Charged, BudgetMatches, Counted, Pairs
<1>2. unheld = {}
  BY <1>1
<1>3. done = chunks
  BY <1>2
<1>4. /\ leases' = CountDown(done)
      /\ used' = IF unheld # {} THEN used
                 ELSE IF used >= Cardinality(chunks) THEN used - Cardinality(chunks) ELSE 0
  BY Zenon DEF GiveLease
<1>5. leases' = CountDown(chunks)
  BY <1>3, <1>4, Zenon
<1>6. leases' \in [Chunks -> Nat]
  BY <1>1, <1>5 DEF CountDown
<1>7. \A c \in Chunks : leases[c] = IF c \in chunks THEN leases'[c] + 1 ELSE leases'[c]
  BY <1>1, <1>5 DEF CountDown
<1>8. /\ IsFiniteSet(Pairs(leases'))
      /\ Cardinality(Pairs(leases)) = Cardinality(Pairs(leases')) + Cardinality(chunks)
  BY <1>1, <1>6, <1>7, PairsSum
<1>9. Cardinality(Pairs(leases')) \in Nat /\ Cardinality(chunks) \in Nat
  BY <1>8, FS_CardinalityType, ChunksFinite
<1> HIDE DEF unheld, done
<1>10. used' = Cardinality(Pairs(leases'))
  BY <1>1, <1>2, <1>4, <1>8, <1>9
<1>11. Charged'
  BY <1>8, <1>10, Zenon DEF Charged, BudgetMatches, Counted, Pairs
<1> QED BY <1>5, <1>11

\* The terms of the claims are natural numbers, before and after a step.
LEMMA ClaimTypes ==
  ASSUME Sizes, NEW c
  PROVE  /\ IsFiniteSet(Claimants(c)) /\ Cardinality(Claimants(c)) \in Nat
         /\ IsFiniteSet(Claimants(c)') /\ Cardinality(Claimants(c)') \in Nat
         /\ ExportBit(c) \in 0..1 /\ RecordBit(c) \in 0..1
         /\ ExportBit(c)' \in 0..1 /\ RecordBit(c)' \in 0..1
<1>1. Claimants(c) \in SUBSET Clients /\ Claimants(c)' \in SUBSET Clients
  BY DEF Claimants
<1>2. IsFiniteSet(Claimants(c)) /\ IsFiniteSet(Claimants(c)')
  BY <1>1, FS_Subset DEF Sizes
<1>3. ExportBit(c) \in {0, 1} /\ RecordBit(c) \in {0, 1} /\ ExportBit(c)' \in {0, 1} /\ RecordBit(c)' \in {0, 1}
  BY Zenon DEF ExportBit, RecordBit
<1> QED BY <1>2, <1>3, FS_CardinalityType

\* A step after which fewer hold a lease that still count.
LEMMA ClaimsFall ==
  ASSUME Sizes, MemoryInv, MemoryInv', Backed, UNCHANGED <<leases, used>>, Charged,
         \A c \in Chunks : /\ Claimants(c)' \subseteq Claimants(c)
                           /\ ExportBit(c)' + RecordBit(c)' <= ExportBit(c) + RecordBit(c)
  PROVE  BudgetInv'
<1>1. ASSUME NEW c \in Chunks PROVE Claims(c)' <= leases'[c]
  <2>1. Cardinality(Claimants(c)') <= Cardinality(Claimants(c))
    <3>1. Claimants(c)' \in SUBSET Claimants(c)
      OBVIOUS
    <3>2. IsFiniteSet(Claimants(c))
      BY ClaimTypes
    <3> QED BY <3>1, <3>2, FS_Subset
  <2>2. leases[c] \in Nat /\ Claims(c) <= leases[c] /\ leases'[c] = leases[c]
    BY DEF MemoryInv, Leases, Backed
  <2>3. ExportBit(c)' + RecordBit(c)' <= ExportBit(c) + RecordBit(c)
    OBVIOUS
  <2>4. /\ Cardinality(Claimants(c)) \in Nat /\ Cardinality(Claimants(c)') \in Nat
        /\ ExportBit(c) \in 0..1 /\ RecordBit(c) \in 0..1
        /\ ExportBit(c)' \in 0..1 /\ RecordBit(c)' \in 0..1
    BY ClaimTypes
  <2> QED BY ONLY <2>1, <2>2, <2>3, <2>4 DEF Claims
<1>2. Charged'
  BY Zenon DEF Charged, BudgetMatches, Counted
<1> QED BY <1>1, <1>2 DEF BudgetInv, Backed

\* What a client holds is replaced by something that is not a lease.
LEMMA HeldFalls ==
  ASSUME Chunkwise, NEW c, NEW t \in Clients, NEW h, h.kind # "lease",
         held' = held \/ held' = [held EXCEPT ![t] = h]
  PROVE  Claimants(c)' \subseteq Claimants(c)
BY DEF Chunkwise, Claimants

\* The steps that take and give no lease.
LEMMA QuietSteps ==
  ASSUME Sizes, BudgetInv, MemoryInv',
         \/ Allocate \/ GetGpu \/ LoadingComplete \/ \E drop \in BOOLEAN : ReleaseGpu(drop)
         \/ \E t \in Clients : \E c \in Chunks : WriteSpan(t, c)
         \/ \E n \in 1..NumChunks : MarkCpuPreemptible(n)
         \/ \E policy \in {"MarkPreemptible", "EvictCPU"}, bytes \in 1..NumChunks :
              PostGpuLoadPolicy(policy, bytes)
         \/ \E chunks \in Indices : ExportGpu(chunks) \/ UnexportGpu(chunks)
         \/ UNCHANGED vars
  PROVE  BudgetInv'
<1>1. UNCHANGED <<leases, used, held, record, exporter>>
  BY Zenon DEF Allocate, GetGpu, LoadingComplete, ReleaseGpu, WriteSpan, MarkCpuPreemptible,
     PostGpuLoadPolicy, ExportGpu, UnexportGpu, vars, ledger
<1>2. ASSUME NEW c \in Chunks
      PROVE  /\ Claimants(c)' \subseteq Claimants(c)
             /\ ExportBit(c)' = ExportBit(c) /\ RecordBit(c)' = RecordBit(c)
  BY <1>1, Zenon DEF Claimants, ExportBit, RecordBit
<1>3. ASSUME NEW c \in Chunks
      PROVE  /\ Claimants(c)' \subseteq Claimants(c)
             /\ ExportBit(c)' + RecordBit(c)' <= ExportBit(c) + RecordBit(c)
  <2>1. ExportBit(c) \in 0..1 /\ RecordBit(c) \in 0..1
    BY ClaimTypes
  <2> QED BY ONLY <1>2, <2>1, c \in Chunks
<1> QED BY <1>1, <1>3, ClaimsFall DEF BudgetInv

\* Sessions and pins.
LEMMA HeldSteps ==
  ASSUME Sizes, BudgetInv, MemoryInv', NEW t \in Clients,
         \/ \E target \in Targets, asked \in {{}, {0}} : PlanLoad(t, target, asked)
         \/ Commit(t) \/ Abort(t) \/ DropPins(t)
         \/ \E chunks \in Indices : GrantDirectWrite(t, chunks)
  PROVE  BudgetInv'
<1>1. UNCHANGED <<leases, used, record, exporter>>
  BY Zenon DEF PlanLoad, Commit, Abort, DropPins, GrantDirectWrite, ledger
<1>2. \E h : h.kind # "lease" /\ held' = [held EXCEPT ![t] = h]
  BY DEF PlanLoad, Commit, Abort, DropPins, GrantDirectWrite, Nothing
<1>3. ASSUME NEW c \in Chunks
      PROVE  /\ Claimants(c)' \subseteq Claimants(c)
             /\ ExportBit(c)' + RecordBit(c)' <= ExportBit(c) + RecordBit(c)
  <2>1. Claimants(c)' \subseteq Claimants(c)
    BY <1>2, HeldFalls, Zenon DEF BudgetInv, MemoryInv
  <2>2. ExportBit(c)' = ExportBit(c) /\ RecordBit(c)' = RecordBit(c)
    BY <1>1, Zenon DEF ExportBit, RecordBit
  <2>3. ExportBit(c) \in 0..1 /\ RecordBit(c) \in 0..1
    BY ClaimTypes
  <2> QED BY ONLY <2>1, <2>2, <2>3
<1> QED BY <1>1, <1>3, ClaimsFall DEF BudgetInv

\* An export begins, is checked, or is registered: the record takes over the
\* lease of the call.
LEMMA ExportQuietSteps ==
  ASSUME Sizes, BudgetInv, MemoryInv',
         ExportCheck \/ ExportRegister \/ \E chunks \in Indices : ExportBegin(chunks)
  PROVE  BudgetInv'
<1>1. UNCHANGED <<leases, used, held>>
  BY Zenon DEF ExportCheck, ExportRegister, ExportBegin, ledger
<1>2. ASSUME NEW c \in Chunks
      PROVE  ExportBit(c)' + RecordBit(c)' <= ExportBit(c) + RecordBit(c)
  <2>1. ExportBit(c) \in 0..1 /\ RecordBit(c) \in 0..1
    BY ClaimTypes
  <2>2. CASE ExportCheck
    <3>1. exporter'.at = "acquire" \/ (exporter'.at = "register" /\ exporter'.lease = FALSE)
      <4>1. CASE \A d \in exporter.chunks : leases[d] > 0
        <5>1. exporter' = [at |-> "register", chunks |-> exporter.chunks, lease |-> FALSE]
          BY <2>2, <4>1, Zenon DEF ExportCheck
        <5> QED BY <5>1
      <4>2. CASE ~(\A d \in exporter.chunks : leases[d] > 0)
        <5>1. exporter' = [exporter EXCEPT !.at = "acquire"]
          BY <2>2, <4>2, Zenon DEF ExportCheck
        <5>2. exporter \in [at : {"check", "acquire"}, chunks : Indices]
          BY <2>2 DEF ExportCheck, BudgetInv, MemoryInv, Records, Exporting, IdleExport
        <5> QED BY <5>1, <5>2
      <4> QED BY <4>1, <4>2, Zenon
    <3>2. ExportBit(c)' = 0
      BY <3>1, Zenon DEF ExportBit
    <3>3. RecordBit(c)' = RecordBit(c)
      BY <2>2, Zenon DEF RecordBit, ExportCheck
    <3> QED BY ONLY <2>1, <3>2, <3>3
  <2>3. CASE ExportRegister
    <3>1. exporter'.at = "idle"
      BY <2>3 DEF ExportRegister, IdleExport
    <3>2. ExportBit(c)' = 0
      BY <3>1 DEF ExportBit
    <3>3. exporter.at = "register" /\ record'.ranges = exporter.chunks /\ record'.lease = exporter.lease
      BY <2>3 DEF ExportRegister
    <3>4. RecordBit(c)' = ExportBit(c)
      BY <3>3, Zenon DEF RecordBit, ExportBit
    <3> QED BY ONLY <2>1, <3>2, <3>4
  <2>4. CASE \E chunks \in Indices : ExportBegin(chunks)
    <3>1. exporter'.at = "check"
      BY <2>4 DEF ExportBegin
    <3>2. ExportBit(c)' = 0
      BY <3>1 DEF ExportBit
    <3>3. RecordBit(c)' = RecordBit(c)
      BY <2>4, Zenon DEF RecordBit, ExportBegin
    <3> QED BY ONLY <2>1, <3>2, <3>3
  <2> QED BY <2>2, <2>3, <2>4
<1>3. ASSUME NEW c \in Chunks
      PROVE  /\ Claimants(c)' \subseteq Claimants(c)
             /\ ExportBit(c)' + RecordBit(c)' <= ExportBit(c) + RecordBit(c)
  BY <1>1, <1>2, Zenon DEF Claimants
<1> QED BY <1>1, <1>3, ClaimsFall DEF BudgetInv

\* A client takes a lease, which counts on each chunk of it.
LEMMA AcquireBacked ==
  ASSUME Sizes, BudgetInv, MemoryInv', NEW t \in Clients, NEW chunks \in Indices,
         AcquireStable(t, chunks)
  PROVE  BudgetInv'
<1>1. /\ MemoryInv /\ Backed /\ Charged /\ held \in [Clients -> Holdings] /\ leases \in [Chunks -> Nat]
      /\ held[t] = Nothing
  BY DEF BudgetInv, MemoryInv, Chunkwise, Leases, AcquireStable
<1>2. Charged'
  BY <1>1, ChargedUp DEF AcquireStable
<1>3. UNCHANGED <<record, exporter>>
  BY DEF AcquireStable
<1>4. CASE Fits(chunks)
  <2>1. /\ held' = [held EXCEPT ![t] = [kind |-> "lease", chunks |-> chunks]]
        /\ leases' = CountUp(chunks)
    BY <1>4, Zenon DEF AcquireStable, TakeLease
  <2>2. ASSUME NEW c \in Chunks PROVE Claims(c)' <= leases'[c]
    <3>1. /\ ExportBit(c)' = ExportBit(c) /\ RecordBit(c)' = RecordBit(c)
          /\ Claims(c) <= leases[c]
      BY <1>1, <1>3, Zenon DEF ExportBit, RecordBit, Backed
    <3>2. /\ Cardinality(Claimants(c)) \in Nat /\ IsFiniteSet(Claimants(c))
          /\ ExportBit(c) \in 0..1 /\ RecordBit(c) \in 0..1
      BY ClaimTypes
    <3>3. t \notin Claimants(c)
      BY <1>1 DEF Claimants, Nothing
    <3>4. CASE c \in chunks
      <4>1. Claimants(c)' = Claimants(c) \union {t}
        BY <1>1, <2>1, <3>4 DEF Claimants
      <4>2. Cardinality(Claimants(c)') = Cardinality(Claimants(c)) + 1
        BY <3>2, <3>3, <4>1, FS_AddElement, ZenonT(40)
      <4>3. leases'[c] = leases[c] + 1 /\ leases[c] \in Nat
        BY <1>1, <2>1, <3>4 DEF CountUp
      <4> QED BY ONLY <3>1, <3>2, <4>2, <4>3 DEF Claims
    <3>5. CASE c \notin chunks
      <4>1. Claimants(c)' = Claimants(c)
        BY <1>1, <2>1, <3>3, <3>5 DEF Claimants
      <4>2. leases'[c] = leases[c]
        BY <2>1, <3>5 DEF CountUp
      <4> QED BY ONLY <3>1, <4>1, <4>2 DEF Claims
    <3> QED BY <3>4, <3>5
  <2> QED BY <1>2, <2>2 DEF BudgetInv, Backed
<1>5. CASE ~Fits(chunks)
  <2>1. held' = held /\ leases' = leases
    BY <1>5, Zenon DEF AcquireStable, TakeLease
  <2>2. Backed'
    BY <1>1, <1>3, <2>1, Zenon DEF Backed, Claims, Claimants, ExportBit, RecordBit
  <2> QED BY <1>2, <2>2 DEF BudgetInv
<1> QED BY <1>4, <1>5

\* A holder gives its lease back: every chunk of it still counts one.
LEMMA Held ==
  ASSUME Sizes, BudgetInv, NEW c \in Chunks,
         Claimants(c) # {} \/ ExportBit(c) = 1 \/ RecordBit(c) = 1
  PROVE  leases[c] > 0
<1>1. /\ Cardinality(Claimants(c)) \in Nat /\ IsFiniteSet(Claimants(c))
      /\ ExportBit(c) \in 0..1 /\ RecordBit(c) \in 0..1
  BY ClaimTypes
<1>2. Claimants(c) # {} => Cardinality(Claimants(c)) # 0
  BY <1>1, FS_EmptySet
<1>3. Claims(c) <= leases[c] /\ leases[c] \in Nat
  BY DEF BudgetInv, Backed, MemoryInv, Leases
<1> QED BY <1>1, <1>2, <1>3 DEF Claims

\* The lease of a client.
LEMMA ReleaseBacked ==
  ASSUME Sizes, BudgetInv, MemoryInv', NEW t \in Clients, ReleaseStable(t)
  PROVE  BudgetInv'
<1> DEFINE chunks == held[t].chunks
<1>1. /\ MemoryInv /\ Backed /\ Charged /\ held \in [Clients -> Holdings] /\ leases \in [Chunks -> Nat]
      /\ held[t].kind = "lease" /\ chunks \in SUBSET Chunks
  BY HeldKinds DEF BudgetInv, MemoryInv, Chunkwise, Leases, ReleaseStable, Indices
<1>2. UNCHANGED <<record, exporter>> /\ held' = [held EXCEPT ![t] = Nothing]
  BY DEF ReleaseStable
<1>3. ASSUME NEW c \in chunks PROVE t \in Claimants(c) /\ leases[c] > 0
  <2>1. t \in Claimants(c) /\ c \in Chunks
    BY <1>1, <1>3 DEF Claimants
  <2> QED BY <2>1, Held
<1>4. CASE alloc
  <2>1. GiveLease(chunks)
    BY <1>4, Zenon DEF ReleaseStable
  <2>2. Charged' /\ leases' = CountDown(chunks)
    BY <1>1, <1>3, <2>1, ChargedDown
  <2>3. ASSUME NEW c \in Chunks PROVE Claims(c)' <= leases'[c]
    <3>1. /\ ExportBit(c)' = ExportBit(c) /\ RecordBit(c)' = RecordBit(c)
          /\ Claims(c) <= leases[c]
      BY <1>1, <1>2, Zenon DEF ExportBit, RecordBit, Backed
    <3>2. /\ Cardinality(Claimants(c)) \in Nat /\ IsFiniteSet(Claimants(c))
          /\ ExportBit(c) \in 0..1 /\ RecordBit(c) \in 0..1
      BY ClaimTypes
    <3>3. Claimants(c)' = Claimants(c) \ {t}
      BY <1>1, <1>2 DEF Claimants, Nothing
    <3>4. CASE c \in chunks
      <4>1. Cardinality(Claimants(c)') = Cardinality(Claimants(c)) - 1
        BY <1>3, <3>2, <3>3, <3>4, FS_RemoveElement, Zenon
      <4>2. leases'[c] = leases[c] - 1 /\ leases[c] \in Nat
        BY <1>1, <2>2, <3>4 DEF CountDown
      <4> QED BY ONLY <3>1, <3>2, <4>1, <4>2 DEF Claims
    <3>5. CASE c \notin chunks
      <4>1. Claimants(c)' = Claimants(c)
        BY <3>3, <3>5, ZenonT(40) DEF Claimants
      <4>2. leases'[c] = leases[c]
        BY <2>2, <3>5 DEF CountDown
      <4> QED BY ONLY <3>1, <4>1, <4>2, Zenon DEF Claims
    <3> QED BY <3>4, <3>5
  <2> QED BY <2>2, <2>3 DEF BudgetInv, Backed
<1>5. CASE ~alloc
  <2>1. UNCHANGED <<leases, used>>
    BY <1>5, Zenon DEF ReleaseStable
  <2>2. ASSUME NEW c \in Chunks
        PROVE  /\ Claimants(c)' \subseteq Claimants(c)
               /\ ExportBit(c)' + RecordBit(c)' <= ExportBit(c) + RecordBit(c)
    <3>1. ExportBit(c)' = ExportBit(c) /\ RecordBit(c)' = RecordBit(c)
      BY <1>2, Zenon DEF ExportBit, RecordBit
    <3>2. ExportBit(c) \in 0..1 /\ RecordBit(c) \in 0..1
      BY ClaimTypes
    <3>3. Claimants(c)' \subseteq Claimants(c)
      BY <1>1, <1>2 DEF Claimants, Nothing
    <3> QED BY ONLY <3>1, <3>2, <3>3
  <2> QED BY <1>1, <2>1, <2>2, ClaimsFall
<1> QED BY <1>4, <1>5, ZenonT(40)

\* The lease of an export call or of its record.
LEMMA ExportBacked ==
  ASSUME Sizes, BudgetInv, MemoryInv', ExportAcquire \/ ExportFails \/ Unexport
  PROVE  BudgetInv'
<1>1. /\ MemoryInv /\ Backed /\ Charged /\ leases \in [Chunks -> Nat] /\ Records
  BY DEF BudgetInv, MemoryInv, Leases
<1>2. held' = held
  BY DEF ExportAcquire, ExportFails, Unexport
<1>3. ASSUME NEW c \in Chunks
      PROVE  /\ Cardinality(Claimants(c)) \in Nat /\ Claimants(c)' = Claimants(c)
             /\ ExportBit(c) \in 0..1 /\ RecordBit(c) \in 0..1
             /\ Claims(c) <= leases[c] /\ leases[c] \in Nat
  <2>1. Claimants(c)' = Claimants(c)
    BY <1>2, Zenon DEF Claimants
  <2> QED BY <1>1, <2>1, ClaimTypes DEF Backed
<1>4. CASE ExportAcquire
  <2> DEFINE chunks == exporter.chunks
  <2>1. /\ chunks \in Indices /\ chunks \in SUBSET Chunks /\ TakeLease(chunks) /\ record' = record
        /\ exporter.at = "acquire"
    BY <1>1, <1>4, ExportKinds DEF ExportAcquire, Indices
  <2>2. Charged'
    BY <1>1, <2>1, ChargedUp
  <2>3. ASSUME NEW c \in Chunks PROVE RecordBit(c)' = RecordBit(c) /\ ExportBit(c) = 0
    BY <2>1, Zenon DEF RecordBit, ExportBit
  <2>4. CASE Fits(chunks)
    <3>1. leases' = CountUp(chunks) /\ exporter' = [at |-> "register", chunks |-> chunks, lease |-> TRUE]
      BY <1>4, <2>4, Zenon DEF ExportAcquire, TakeLease
    <3>2. ASSUME NEW c \in Chunks PROVE Claims(c)' <= leases'[c]
      <4>1. ExportBit(c)' = IF c \in chunks THEN 1 ELSE 0
        BY <3>1, ZenonT(40) DEF ExportBit
      <4>2. leases'[c] = IF c \in chunks THEN leases[c] + 1 ELSE leases[c]
        BY <3>1 DEF CountUp
      <4> HIDE DEF chunks
      <4> QED BY ONLY <1>3, <2>3, <4>1, <4>2, c \in Chunks DEF Claims
    <3> QED BY <2>2, <3>2 DEF BudgetInv, Backed
  <2>5. CASE ~Fits(chunks)
    <3>1. leases' = leases /\ exporter' = IdleExport
      BY <1>4, <2>5, Zenon DEF ExportAcquire, TakeLease, Rollback
    <3>2. ASSUME NEW c \in Chunks PROVE Claims(c)' <= leases'[c]
      <4>1. ExportBit(c)' = 0
        BY <3>1 DEF ExportBit, IdleExport
      <4> QED BY ONLY <1>3, <2>3, <3>1, <4>1, c \in Chunks DEF Claims
    <3> QED BY <2>2, <3>2 DEF BudgetInv, Backed
  <2> QED BY <2>4, <2>5, ZenonT(40)
<1>5. CASE ExportFails
  <2> DEFINE chunks == exporter.chunks
  <2>1. /\ chunks \in SUBSET Chunks /\ record' = record /\ exporter' = IdleExport
        /\ exporter.at = "register"
    BY <1>1, <1>5, ExportKinds DEF ExportFails, Indices, Rollback
  <2>2. ASSUME NEW c \in Chunks PROVE RecordBit(c)' = RecordBit(c) /\ ExportBit(c)' = 0
    <3>1. exporter'.at = "idle"
      BY <2>1 DEF IdleExport
    <3> QED BY <2>1, <3>1, Zenon DEF RecordBit, ExportBit
  <2>3. CASE exporter.lease
    <3>1. GiveLease(chunks)
      BY <1>5, <2>3, Zenon DEF ExportFails
    <3>2. ASSUME NEW c \in chunks PROVE ExportBit(c) = 1
      BY <2>1, <2>3, <3>2, Zenon DEF ExportBit
    <3>3. ASSUME NEW c \in chunks PROVE leases[c] > 0
      BY <2>1, <3>2, <3>3, Held
    <3>4. Charged' /\ leases' = CountDown(chunks)
      BY <1>1, <2>1, <3>1, <3>3, ChargedDown, ZenonT(40)
    <3>5. ASSUME NEW c \in Chunks PROVE Claims(c)' <= leases'[c]
      <4>1. leases'[c] = IF c \in chunks THEN leases[c] - 1 ELSE leases[c]
        BY <3>4 DEF CountDown
      <4> HIDE DEF chunks
      <4> QED BY ONLY <1>3, <2>2, <3>2, <4>1, c \in Chunks DEF Claims
    <3> QED BY <3>4, <3>5 DEF BudgetInv, Backed
  <2>4. CASE ~exporter.lease
    <3>1. UNCHANGED <<leases, used>>
      BY <1>5, <2>4, Zenon DEF ExportFails
    <3>2. ASSUME NEW c \in Chunks
          PROVE  /\ Claimants(c)' \subseteq Claimants(c)
                 /\ ExportBit(c)' + RecordBit(c)' <= ExportBit(c) + RecordBit(c)
      BY ONLY <1>3, <2>2, c \in Chunks
    <3> QED BY <1>1, <3>1, <3>2, ClaimsFall
  <2> QED BY <2>3, <2>4, ZenonT(40)
<1>6. CASE Unexport
  <2> DEFINE chunks == record.ranges
  <2>1. chunks \in SUBSET Chunks /\ record' = NoRecord /\ exporter' = exporter
    BY <1>1, <1>6 DEF Unexport, Records
  <2>2. ASSUME NEW c \in Chunks PROVE ExportBit(c)' = ExportBit(c) /\ RecordBit(c)' = 0
    <3>1. c \notin record'.ranges
      BY <2>1 DEF NoRecord
    <3> QED BY <2>1, <3>1, Zenon DEF RecordBit, ExportBit
  <2>3. CASE record.lease
    <3>1. GiveLease(chunks)
      BY <1>6, <2>3, Zenon DEF Unexport
    <3>2. ASSUME NEW c \in chunks PROVE RecordBit(c) = 1
      BY <2>1, <2>3, <3>2, Zenon DEF RecordBit
    <3>3. ASSUME NEW c \in chunks PROVE leases[c] > 0
      BY <2>1, <3>2, <3>3, Held
    <3>4. Charged' /\ leases' = CountDown(chunks)
      BY <1>1, <2>1, <3>1, <3>3, ChargedDown
    <3>5. ASSUME NEW c \in Chunks PROVE Claims(c)' <= leases'[c]
      <4>1. leases'[c] = IF c \in chunks THEN leases[c] - 1 ELSE leases[c]
        BY <3>4 DEF CountDown
      <4> HIDE DEF chunks
      <4> QED BY ONLY <1>3, <2>2, <3>2, <4>1, c \in Chunks DEF Claims
    <3> QED BY <3>4, <3>5 DEF BudgetInv, Backed
  <2>4. CASE ~record.lease
    <3>1. UNCHANGED <<leases, used>>
      BY <1>6, <2>4, Zenon DEF Unexport
    <3>2. ASSUME NEW c \in Chunks
          PROVE  /\ Claimants(c)' \subseteq Claimants(c)
                 /\ ExportBit(c)' + RecordBit(c)' <= ExportBit(c) + RecordBit(c)
      BY ONLY <1>3, <2>2, c \in Chunks
    <3> QED BY <1>1, <3>1, <3>2, ClaimsFall
  <2> QED BY <2>3, <2>4
<1> QED BY <1>4, <1>5, <1>6

\* Initially nothing is counted, charged or held.
LEMMA BudgetInit == ASSUME Sizes, UnifiedMemoryInit PROVE BudgetInv
<1>1. MemoryInv
  BY MemoryInit
<1>2. leases = [c \in Chunks |-> 0] /\ used = 0 /\ held = [t \in Clients |-> Nothing]
  BY ZenonT(40) DEF UnifiedMemoryInit, Of
<1>3. exporter.at = "idle" /\ record.ranges = {}
  BY DEF UnifiedMemoryInit, IdleExport, NoRecord
<1>4. Charged
  <2>1. Counted = {}
    BY <1>2 DEF Counted
  <2> QED BY <1>2, <2>1, FS_EmptySet DEF Charged, BudgetMatches
<1>5. ASSUME NEW c \in Chunks PROVE Claims(c) <= leases[c]
  <2>1. Claimants(c) = {}
    BY <1>2 DEF Claimants, Nothing
  <2>2. ExportBit(c) = 0 /\ RecordBit(c) = 0
    BY <1>3, Zenon DEF ExportBit, RecordBit
  <2>3. Cardinality(Claimants(c)) = 0
    BY <2>1, FS_EmptySet
  <2> QED BY ONLY <1>2, <2>2, <2>3, c \in Chunks DEF Claims
<1> QED BY <1>1, <1>4, <1>5 DEF BudgetInv, Backed

\* Every step keeps the books, unless it releases the replica.
LEMMA BudgetStep ==
  ASSUME Sizes, ~Releases, BudgetInv, [UnifiedMemoryNext]_vars PROVE BudgetInv'
<1>1. MemoryInv'
  BY MemoryStep DEF BudgetInv
<1>2. CASE \/ Allocate \/ GetGpu \/ LoadingComplete \/ \E drop \in BOOLEAN : ReleaseGpu(drop)
           \/ \E t \in Clients : \E c \in Chunks : WriteSpan(t, c)
           \/ \E n \in 1..NumChunks : MarkCpuPreemptible(n)
           \/ \E policy \in {"MarkPreemptible", "EvictCPU"}, bytes \in 1..NumChunks :
                PostGpuLoadPolicy(policy, bytes)
           \/ \E chunks \in Indices : ExportGpu(chunks) \/ UnexportGpu(chunks)
           \/ UNCHANGED vars
  BY ONLY Sizes, BudgetInv, <1>1, <1>2, QuietSteps, Zenon
<1>3. CASE \E t \in Clients :
             \/ \E target \in Targets, asked \in {{}, {0}} : PlanLoad(t, target, asked)
             \/ Commit(t) \/ Abort(t) \/ DropPins(t)
             \/ \E chunks \in Indices : GrantDirectWrite(t, chunks)
  BY ONLY Sizes, BudgetInv, <1>1, <1>3, HeldSteps, Zenon
<1>4. CASE ExportCheck \/ ExportRegister \/ \E chunks \in Indices : ExportBegin(chunks)
  BY ONLY Sizes, BudgetInv, <1>1, <1>4, ExportQuietSteps, Zenon
<1>5. CASE \E t \in Clients, chunks \in Indices : AcquireStable(t, chunks)
  BY ONLY Sizes, BudgetInv, <1>1, <1>5, AcquireBacked, Zenon
<1>6. CASE \E t \in Clients : ReleaseStable(t)
  BY ONLY Sizes, BudgetInv, <1>1, <1>6, ReleaseBacked, Zenon
<1>7. CASE ExportAcquire \/ ExportFails \/ Unexport
  BY ONLY Sizes, BudgetInv, <1>1, <1>7, ExportBacked, Zenon
<1>8. ~Release
  BY DEF Release
<1> QED BY <1>2, <1>3, <1>4, <1>5, <1>6, <1>7, <1>8, Zenon DEF UnifiedMemoryNext

\* The bytes charged to the tier budget are those of the leases counted in the
\* ledger, through refused leases, failed exports and replaced records, as long
\* as no replica is released under its leases.
THEOREM BudgetAlwaysMatches ==
  ASSUME Sizes, ~Releases PROVE UnifiedMemorySpec => []BudgetMatches
<1>1. UnifiedMemoryInit => BudgetInv
  BY BudgetInit
<1>2. BudgetInv /\ [UnifiedMemoryNext]_vars => BudgetInv'
  BY BudgetStep
<1>3. BudgetInv => BudgetMatches
  BY DEF BudgetInv, Charged
<1> QED BY <1>1, <1>2, <1>3, PTL DEF UnifiedMemorySpec

\* Every variable keeps its type: no count goes below zero, the loaded counter
\* stays within the chunks of the artifact and the charge within the budget.
THEOREM TypesAlwaysKept == ASSUME Sizes PROVE UnifiedMemorySpec => []TypeOK
<1>1. MemoryInv => TypeOK
  <2> SUFFICES ASSUME MemoryInv PROVE TypeOK
    OBVIOUS
  <2>1. {c \in Chunks : IsLoaded(c)} \in SUBSET Chunks
    OBVIOUS
  <2>2. /\ Cardinality({c \in Chunks : IsLoaded(c)}) \in Nat
        /\ Cardinality({c \in Chunks : IsLoaded(c)}) <= NumChunks
    BY <2>1, ChunksFinite
  <2>3. counter \in 0..NumChunks
    <3>1. counter \in Nat /\ counter <= Cardinality({c \in Chunks : IsLoaded(c)})
      BY DEF MemoryInv, Chunkwise, CounterSound
    <3> QED BY <2>2, <3>1 DEF Sizes
  <2>4. alloc \in BOOLEAN /\ gpuMem \in BOOLEAN
    BY Zenon DEF MemoryInv, Flags
  <2> QED BY <2>3, <2>4, Zenon DEF MemoryInv, Chunkwise, Leases, TypeOK, CpuStates, GpuStates
<1> QED BY <1>1, MemoryInvariance, PTL

=============================================================================

----------------------------- MODULE ReplicaLoad -----------------------------
(***************************************************************************)
(* One replica of the store engine: Replica::ensure_loaded_async and       *)
(* release_memory over the memory states of ReplicaLoadController, with    *)
(* the transfer gate of its GPU (core/store/replica/replica.cc and         *)
(* replica_load_controller.cc).                                            *)
(*                                                                         *)
(* A caller either starts a load, and then owns a ready signal named after *)
(* it, or subscribes to the signal in the slot of the location.  The       *)
(* states are protected by the mutex of the controller, the slots by the   *)
(* mutex of the replica; recovery and completion take only the former.     *)
(***************************************************************************)
EXTENDS Naturals, Sequences, FiniteSets

CONSTANTS Callers,
          Targets,   \* locations that are asked for: subset of {"CPU", "GPU"}
          Faults,    \* steps that may fail: alloc, open, map, pump, hook
          Releases,  \* locations that others release (unload, eviction)
          None

VARIABLES st,    \* MemoryState of each location
          slot,  \* cpu_ready_signal_ / gpu_ready_signal_: its producer, or None
          sig,   \* ready signal of each producer: open, ok, err
          call,  \* progress of each caller
          gate   \* the GPU transfer gate: holder first, then waiters

vars == <<st, slot, sig, call, gate>>

Locations == {"CPU", "GPU"}
Idle == [at |-> "idle", loc |-> "CPU", on |-> None]

ReplicaInit ==
  /\ st = [l \in Locations |-> "UNALLOCATED"]
  /\ slot = [l \in Locations |-> None]
  /\ sig = [c \in Callers |-> "open"]
  /\ call = [c \in Callers |-> Idle]
  /\ gate = <<>>

At(c, at) == call[c].at = at
Loc(c) == call[c].loc
Other(l) == IF l = "CPU" THEN "GPU" ELSE "CPU"
Goto(c, at) == call' = [call EXCEPT ![c].at = at]
SetState(l, s) == st' = [st EXCEPT ![l] = s]

\* The producer fulfils its signal and returns it to its own caller.
Fulfil(c, v) ==
  /\ sig' = [sig EXCEPT ![c] = v]
  /\ Goto(c, "done")

\* Controller release_memory: refused while LOADING; a FAILED GPU stays FAILED.
Releasable(l) == st[l] # "LOADING"
AfterRelease(l) == IF l = "GPU" /\ st[l] = "FAILED" THEN "FAILED" ELSE "UNALLOCATED"

\* Post-load policy: a loaded GPU gives up the CPU copy (EvictCPU).
EvictCpu(s, l) == IF l = "GPU" /\ s["CPU"] # "FAILED" THEN [s EXCEPT !["CPU"] = "UNALLOCATED"] ELSE s

\* finalize_load_state: only a LOADING location is changed.
FinalizeLoadState(l, v) == IF st[l] = "LOADING" THEN [st EXCEPT ![l] = v] ELSE st

----------------------------------------------------------------------------
\* ensure_loaded_async: the first look at the state is without any lock.
Begin(c, l) ==
  /\ At(c, "idle")
  /\ call' = [call EXCEPT ![c] =
       [at |-> IF st[l] = "FAILED" THEN "recover" ELSE "enter", loc |-> l, on |-> None]]
  /\ UNCHANGED <<st, slot, sig, gate>>

\* The quick recovery path, in three separately locked steps.
Recover(c) ==
  LET l == Loc(c) IN
  /\ At(c, "recover")
  /\ IF Releasable(l)
       THEN SetState(l, AfterRelease(l)) /\ Goto(c, "reset") /\ UNCHANGED sig
       ELSE Fulfil(c, "err") /\ UNCHANGED st
  /\ UNCHANGED <<slot, gate>>

Reset(c) ==
  /\ At(c, "reset")
  /\ SetState(Loc(c), "UNALLOCATED")
  /\ Goto(c, "unslot")
  /\ UNCHANGED <<slot, sig, gate>>

Unslot(c) ==
  /\ At(c, "unslot")
  /\ slot' = [slot EXCEPT ![Loc(c)] = None]
  /\ Goto(c, "enter")
  /\ UNCHANGED <<st, sig, gate>>

\* Under the mutex of the replica: join what is loaded or loading ...
Join(c) ==
  LET l == Loc(c) IN
  /\ At(c, "enter")
  /\ st[l] # "UNALLOCATED"
  /\ IF slot[l] # None /\ st[l] # "FAILED"
       THEN /\ call' = [call EXCEPT ![c].at = "wait", ![c].on = slot[l]]
            /\ UNCHANGED sig
       ELSE Fulfil(c, IF st[l] = "LOADED" THEN "ok" ELSE "err")
  /\ UNCHANGED <<st, slot, gate>>

\* A plausible bug: the signal is published only once the transfer starts, so
\* that two callers may both find nothing to join.
ProduceLate(c) ==
  /\ At(c, "enter")
  /\ st[Loc(c)] = "UNALLOCATED"
  /\ Goto(c, IF st[Other(Loc(c))] = "LOADED" THEN "copy" ELSE "open")
  /\ slot' = [slot EXCEPT ![Loc(c)] = c]
  /\ UNCHANGED <<st, sig, gate>>

\* ... or publish a signal, allocate and choose the source.
Produce(c) ==
  LET l == Loc(c) IN
  /\ At(c, "enter")
  /\ st[l] = "UNALLOCATED"
  /\ \/ /\ SetState(l, "ALLOCATED")
        /\ slot' = [slot EXCEPT ![l] = c]
        /\ Goto(c, IF st[Other(l)] = "LOADED" THEN "copy" ELSE "open")
        /\ UNCHANGED sig
     \/ /\ "alloc" \in Faults
        /\ SetState(l, IF l = "GPU" THEN "FAILED" ELSE st[l])
        /\ slot' = [slot EXCEPT ![l] = None]
        /\ Fulfil(c, "err")
  /\ UNCHANGED gate

\* open_source, and the byte-range map of the source.  Only a source that does
\* not open gives the memory back; the slot is reset afterwards.
Open(c) ==
  LET l == Loc(c) IN
  /\ At(c, "open")
  /\ \/ /\ Goto(c, "mark")
        /\ UNCHANGED <<st, sig>>
     \/ /\ "open" \in Faults
        /\ st' = IF Releasable(l) THEN [st EXCEPT ![l] = AfterRelease(l)] ELSE st
        /\ Goto(c, "close")
        /\ UNCHANGED sig
     \/ /\ "map" \in Faults
        /\ Fulfil(c, "err")
        /\ UNCHANGED st
  /\ UNCHANGED <<slot, gate>>

Close(c) ==
  /\ At(c, "close")
  /\ slot' = [slot EXCEPT ![Loc(c)] = None]
  /\ Fulfil(c, "err")
  /\ UNCHANGED <<st, gate>>

----------------------------------------------------------------------------
\* load_async_from_source: allocate again if need be, mark LOADING whatever the
\* state was, and queue for the transfer gate of the GPU.
Mark(c) ==
  LET l == Loc(c) IN
  /\ At(c, "mark")
  /\ SetState(l, "LOADING")
  /\ gate' = IF l = "GPU" THEN Append(gate, c) ELSE gate
  /\ Goto(c, "gate")
  /\ UNCHANGED <<slot, sig>>

HoldsGate(c) == Loc(c) = "GPU" => gate # <<>> /\ Head(gate) = c
LeaveGate(c) == gate' = IF Loc(c) = "GPU" THEN Tail(gate) ELSE gate

\* The pump starts once the gate is passed; a GPU needs its allocation.
PumpStart(c) ==
  LET l == Loc(c) IN
  /\ At(c, "gate")
  /\ HoldsGate(c)
  /\ IF l = "GPU" /\ st[l] \in {"UNALLOCATED", "FAILED"}
       THEN /\ SetState(l, "FAILED")
            /\ LeaveGate(c)
            /\ Fulfil(c, "err")
       ELSE Goto(c, "pump") /\ UNCHANGED <<st, sig, gate>>
  /\ UNCHANGED slot

\* Plan, execute, commit, post-load policy and hook.
PumpEnd(c) ==
  LET l == Loc(c) IN
  /\ At(c, "pump")
  /\ LeaveGate(c)
  /\ \/ /\ st' = [EvictCpu(st, l) EXCEPT ![l] = "LOADED"]
        /\ Fulfil(c, "ok")
     \/ /\ "pump" \in Faults
        /\ SetState(l, "FAILED")
        /\ Fulfil(c, "err")
     \/ /\ "hook" \in Faults
        /\ st' = [EvictCpu(st, l) EXCEPT ![l] = "FAILED"]
        /\ Fulfil(c, "err")
  /\ UNCHANGED slot

\* copy_data_async from the other location: refused, with no change of state,
\* unless the source is LOADED and the destination ALLOCATED.
CopyStart(c) ==
  LET l == Loc(c) IN
  /\ At(c, "copy")
  /\ IF st[Other(l)] = "LOADED" /\ st[l] = "ALLOCATED"
       THEN SetState(l, "LOADING") /\ Goto(c, "copying") /\ UNCHANGED sig
       ELSE Fulfil(c, "err") /\ UNCHANGED st
  /\ UNCHANGED <<slot, gate>>

\* The copy task: finalize, and on success apply the post-load policy.
CopyEnd(c) ==
  LET l == Loc(c) IN
  /\ At(c, "copying")
  /\ \/ /\ st' = EvictCpu(FinalizeLoadState(l, "LOADED"), l)
        /\ Fulfil(c, "ok")
     \/ /\ "pump" \in Faults
        /\ st' = FinalizeLoadState(l, "FAILED")
        /\ Fulfil(c, "err")
  /\ UNCHANGED <<slot, gate>>

\* A subscriber is answered with the value of the signal.
Answer(c) ==
  /\ At(c, "wait")
  /\ sig[call[c].on] # "open"
  /\ Fulfil(c, sig[call[c].on])
  /\ UNCHANGED <<st, slot, gate>>

\* Replica::release_memory: the slot is reset once the state says unallocated.
Release(l) ==
  /\ l \in Releases
  /\ st[l] # "UNALLOCATED"
  /\ Releasable(l)
  /\ SetState(l, AfterRelease(l))
  /\ slot' = [slot EXCEPT ![l] = IF AfterRelease(l) = "UNALLOCATED" THEN None ELSE @]
  /\ UNCHANGED <<sig, call, gate>>

----------------------------------------------------------------------------
Step(c) ==
  \/ Recover(c) \/ Reset(c) \/ Unslot(c) \/ Join(c) \/ Produce(c)
  \/ Open(c) \/ Close(c) \/ Mark(c) \/ PumpStart(c) \/ PumpEnd(c)
  \/ CopyStart(c) \/ CopyEnd(c) \/ Answer(c)

Next ==
  \/ \E c \in Callers : Step(c) \/ \E l \in Targets : Begin(c, l)
  \/ \E l \in Locations : Release(l)

\* The executors of AsyncRuntime run every task that was submitted to them.
Spec == ReplicaInit /\ [][Next]_vars /\ \A c \in Callers : WF_vars(Step(c))

----------------------------------------------------------------------------
TypeOK ==
  /\ st \in [Locations -> {"UNALLOCATED", "ALLOCATED", "LOADING", "LOADED", "FAILED"}]
  /\ slot \in [Locations -> Callers \cup {None}]
  /\ sig \in [Callers -> {"open", "ok", "err"}]
  /\ Len(gate) <= Cardinality(Callers)

InFlight(l) == {c \in Callers : Loc(c) = l /\ call[c].at \in {"gate", "pump", "copying"}}

\* At most one transfer at a time writes the memory of a location, and the
\* state says so for as long as it runs.
OneLoad == \A l \in Locations :
  /\ Cardinality(InFlight(l)) <= 1
  /\ InFlight(l) # {} => st[l] = "LOADING"

\* "Producer-side completion signal must be published before entering in-flight
\* (ALLOCATED/LOADING)" (replica.cc): who finds a load in flight can join it.
SignalPublished == \A l \in Locations : st[l] \in {"ALLOCATED", "LOADING"} => slot[l] # None

\* "When a concurrent load is in-flight we refuse to tear down resources"
\* (replica_load_controller.cc): nobody sets the location of a running transfer
\* back to UNALLOCATED.
NotTornDown ==
  \A c \in Callers : call[c].at \in {"gate", "pump"} => st[Loc(c)] # "UNALLOCATED"

\* The recovery path exists "so that the caller can retry" (replica.cc): when no
\* load is in progress, a failed one does not answer for those to come.
RetryPossible ==
  \A l \in Locations :
    /\ \A c \in Callers : Loc(c) = l => call[c].at \in {"idle", "done"}
    /\ slot[l] # None
    /\ sig[slot[l]] = "err"
    => st[l] \notin {"ALLOCATED", "LOADING"}

\* Every caller is answered, whatever fails and whoever resets the signal slot.
AllAnswered == \A c \in Callers : ~At(c, "idle") ~> At(c, "done")
==============================================================================

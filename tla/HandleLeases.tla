---------------------------- MODULE HandleLeases ----------------------------
(* Handle leases: exporting a replica to client processes                    *)
(* (daemon/state/handle_lease_registry.cc, daemon/state/local_handle_server  *)
(* .cc; designs 0049 and 0094).  A mint shares one export state per replica  *)
(* (the first caller initialises it outside the registry mutex, the others   *)
(* wait), reserves a token, creates a use lease whose finalizer undoes all   *)
(* of it, registers the lease and mints a capability.  The lease may be      *)
(* retired at any moment after its creation: its process exits, its ttl ends *)
(* or the client releases the token.  A client trades a memfd token for the  *)
(* descriptor over a local socket under a use guard of LifecycleKernel.      *)
(*                                                                           *)
(* Each critical section of mu_ and each call into the engine or the         *)
(* lifecycle objects is one action.  There is one replica per kind, "cpu"    *)
(* (memfd) and "gpu" (CUDA IPC); "ext" leases carry only a callback.         *)
(* The registry's mu_ is not reentrant (absl::Mutex).                        *)
EXTENDS LifecycleKernel

CONSTANTS
  CpuMints, GpuMints, ExtMints,  \* the mint calls that may be made, one token each
  Capacity,                      \* opts_.capacity
  EarlyRetire,                   \* a lease may be retired before its mint returns
  InitMayFail                    \* the engine may refuse an export

Mints == CpuMints \cup GpuMints \cup ExtMints
Kinds == {"cpu", "gpu"}
Kind(m) == IF m \in CpuMints THEN "cpu" ELSE IF m \in GpuMints THEN "gpu" ELSE "ext"

VARIABLES
  pc,      \* where the mint call is
  cur,     \* cpu_exports_ / gpu_exports_: the state of the replica, named by its creator
  ex,      \* the export states: refcount, ready, status
  st,      \* the state a mint holds or waits for
  tok,     \* keys of leases_
  lease,   \* the use lease and the progress of its finalizer
  flag,    \* the exported flag of the replica's chunks in the engine
  held,    \* export states whose stable lease (cpu) is held and whose fd is open
  off,     \* export states erased from the map whose engine cleanup is pending
  serve,   \* the socket connection redeeming a token
  mu,      \* a mint that waits for mu_ while holding it
  cleaned, \* ext: how often the callback has run
  gone     \* ext: the owner process has exited

exports == <<cur, ex, off>>
engine == <<flag, held>>
external == <<cleaned, gone>>
vars == <<pc, exports, st, tok, lease, engine, serve, mu, external, kernelVars>>

TypeOK ==
  /\ KernelTypeOK
  /\ pc \in [Mints -> {"idle", "init", "ready", "broken", "wait", "reserve", "lease",
                       "register", "capability", "watch", "done", "failed", "drop"}]
  /\ cur \in [Kinds -> Caps \cup {None}]
  /\ ex \in [Caps -> [ref : Nat, ready : BOOLEAN, ok : BOOLEAN]]
  /\ st \in [Mints -> Caps \cup {None}]
  /\ tok \subseteq Mints
  /\ lease \in [Mints -> {"none", "active", "token", "capability", "export", "retired"}]
  /\ flag \in [Kinds -> BOOLEAN]
  /\ held \subseteq Caps /\ off \subseteq Caps
  /\ serve \in [Caps -> {"none", "parsed", "admitted", "fd"}]
  /\ mu \in Mints \cup {None}
  /\ cleaned \in [Mints -> 0..2] /\ gone \subseteq ExtMints

Init ==
  /\ KernelInit
  /\ pc = [m \in Mints |-> "idle"]
  /\ cur = [k \in Kinds |-> None]
  /\ ex = [s \in Caps |-> [ref |-> 0, ready |-> FALSE, ok |-> FALSE]]
  /\ st = [m \in Mints |-> None]
  /\ tok = {} /\ held = {} /\ off = {} /\ gone = {}
  /\ lease = [m \in Mints |-> "none"]
  /\ flag = [k \in Kinds |-> FALSE]
  /\ serve = [m \in Caps |-> "none"]
  /\ mu = None
  /\ cleaned = [m \in Mints |-> 0]

Unlocked == mu = None
Goto(m, l) == pc' = [pc EXCEPT ![m] = l]
----------------------------------------------------------------------------
(* acquire_{cpu,gpu}_export_state_, first critical section: join the state   *)
(* of the replica or install a new one that is not ready.                    *)
JoinUncounted(m) ==
  /\ pc[m] = "idle" /\ Unlocked
  /\ cur[Kind(m)] # None
  /\ st' = [st EXCEPT ![m] = cur[Kind(m)]]
  /\ Goto(m, "wait")
  /\ UNCHANGED <<exports, tok, lease, engine, serve, mu, external, kernelVars>>

Join(m) ==
  /\ pc[m] = "idle" /\ Unlocked
  /\ cur[Kind(m)] # None
  /\ st' = [st EXCEPT ![m] = cur[Kind(m)]]
  /\ ex' = [ex EXCEPT ![cur[Kind(m)]].ref = @ + 1]
  /\ Goto(m, "wait")
  /\ UNCHANGED <<cur, tok, lease, engine, off, serve, mu, external, kernelVars>>

Create(m) ==
  /\ pc[m] = "idle" /\ Unlocked
  /\ cur[Kind(m)] = None
  /\ cur' = [cur EXCEPT ![Kind(m)] = m]
  /\ ex' = [ex EXCEPT ![m] = [ref |-> 1, ready |-> FALSE, ok |-> FALSE]]
  /\ st' = [st EXCEPT ![m] = m]
  /\ Goto(m, "init")
  /\ UNCHANGED <<tok, lease, engine, off, serve, mu, external, kernelVars>>

(* The initialiser, outside mu_.  cpu: duplicate the fd, take the stable     *)
(* lease, raise the exported flag; a failure gives the earlier ones back.    *)
InitCpu(m) ==
  /\ pc[m] = "init" /\ m \in CpuMints
  /\ \/ Goto(m, "ready") /\ flag' = [flag EXCEPT !["cpu"] = TRUE] /\ held' = held \cup {m}
     \/ InitMayFail /\ Goto(m, "broken") /\ UNCHANGED <<flag, held>>
  /\ UNCHANGED <<exports, st, tok, lease, serve, mu, external, kernelVars>>

(* gpu: raise the exported flag.                                             *)
InitGpu(m) ==
  /\ pc[m] = "init" /\ m \in GpuMints
  /\ \/ Goto(m, "ready") /\ flag' = [flag EXCEPT !["gpu"] = TRUE] /\ held' = held \cup {m}
     \/ InitMayFail /\ Goto(m, "broken") /\ UNCHANGED <<flag, held>>
  /\ UNCHANGED <<exports, st, tok, lease, serve, mu, external, kernelVars>>

InstallOptimistic(m) ==
  /\ pc[m] \in {"ready", "broken"} /\ Unlocked
  /\ ex' = [ex EXCEPT ![m].ready = TRUE, ![m].ok = TRUE]
  /\ Goto(m, "reserve")
  /\ UNCHANGED <<cur, off, st, tok, lease, engine, serve, mu, external, kernelVars>>

Install(m) ==
  /\ pc[m] \in {"ready", "broken"} /\ Unlocked
  /\ ex' = [ex EXCEPT ![m].ready = TRUE, ![m].ok = (pc[m] = "ready")]
  /\ Goto(m, IF pc[m] = "ready" THEN "reserve" ELSE "drop")
  /\ UNCHANGED <<cur, st, tok, lease, engine, off, serve, mu, external, kernelVars>>

(* A waiter goes on with a good state and lets go of a failed one.           *)
Await(m) ==
  /\ pc[m] = "wait" /\ Unlocked
  /\ ex[st[m]].ready
  /\ Goto(m, IF ex[st[m]].ok THEN "reserve" ELSE "drop")
  /\ UNCHANGED <<exports, st, tok, lease, engine, serve, mu, external, kernelVars>>

LetGo(s, k) ==
  IF cur[k] # s \/ ex[s].ref = 0 THEN UNCHANGED <<ex, cur, off>>
  ELSE /\ ex' = [ex EXCEPT ![s].ref = @ - 1]
       /\ cur' = IF ex[s].ref = 1 THEN [cur EXCEPT ![k] = None] ELSE cur
       /\ off' = IF ex[s].ref = 1 /\ (ex[s].ok \/ k = "cpu") THEN off \cup {s} ELSE off

Drop(m) ==
  /\ pc[m] = "drop" /\ Unlocked
  /\ LetGo(st[m], Kind(m))
  /\ Goto(m, "failed")
  /\ UNCHANGED <<st, tok, lease, engine, serve, mu, external, kernelVars>>

(* The engine cleanup: lower the exported flag, give the stable lease back,  *)
(* close the fd.                                                             *)
SwitchOffGpu(s) ==
  /\ s \in off /\ s \in GpuMints
  /\ flag' = [flag EXCEPT !["gpu"] = FALSE]
  /\ held' = held \ {s} /\ off' = off \ {s}
  /\ UNCHANGED <<pc, cur, ex, st, tok, lease, serve, mu, external, kernelVars>>

SwitchOffCpu(s) ==
  /\ s \in off /\ s \in CpuMints
  /\ flag' = [flag EXCEPT !["cpu"] = FALSE]
  /\ held' = held \ {s} /\ off' = off \ {s}
  /\ UNCHANGED <<pc, cur, ex, st, tok, lease, serve, mu, external, kernelVars>>
----------------------------------------------------------------------------
(* mint_cpu_memfd_lease / mint_cuda_ipc_lease: reserve a token, or give the  *)
(* export state back when the registry is full.                              *)
ReserveFull(m) ==
  /\ pc[m] = "reserve" /\ Unlocked
  /\ IF Cardinality(tok) < Capacity
       THEN tok' = tok \cup {m} /\ Goto(m, "lease")
       ELSE Goto(m, "failed") /\ UNCHANGED tok
  /\ UNCHANGED <<exports, st, lease, engine, serve, mu, external, kernelVars>>

ReserveToken(m) ==
  /\ pc[m] = "reserve" /\ Unlocked
  /\ IF Cardinality(tok) < Capacity
       THEN tok' = tok \cup {m} /\ Goto(m, "lease")
       ELSE Goto(m, "drop") /\ UNCHANGED tok
  /\ UNCHANGED <<exports, st, lease, engine, serve, mu, external, kernelVars>>

(* create_use_lease / create_ttl_use_lease with the cleanup as finalizer.    *)
CreateLease(m) ==
  /\ pc[m] = "lease"
  /\ lease' = [lease EXCEPT ![m] = "active"]
  /\ Goto(m, "register")
  /\ UNCHANGED <<exports, st, tok, engine, serve, mu, external, kernelVars>>

(* The second critical section.  When the finalizer has taken the token away *)
(* the mint releases the export state, which locks mu_ again.                *)
Register(m) ==
  /\ pc[m] = "register" /\ Unlocked
  /\ IF m \in tok THEN Goto(m, "capability") /\ UNCHANGED mu
                  ELSE mu' = m /\ UNCHANGED pc
  /\ UNCHANGED <<exports, st, tok, lease, engine, serve, external, kernelVars>>

(* mint_capability, then the token is returned.                              *)
MintCapability(m) ==
  /\ pc[m] = "capability"
  /\ Mint(m, MaxTime + 1)
  /\ Goto(m, "done")
  /\ UNCHANGED <<exports, st, tok, lease, engine, serve, mu, external>>

(* mint_external_cuda_lease: a record with a callback, then watch_pid.       *)
MintExternal(m) ==
  /\ pc[m] = "idle" /\ m \in ExtMints /\ Unlocked
  /\ IF Cardinality(tok) < Capacity
       THEN tok' = tok \cup {m} /\ Goto(m, "watch")
       ELSE Goto(m, "failed") /\ UNCHANGED tok
  /\ UNCHANGED <<exports, st, lease, engine, serve, mu, external, kernelVars>>

WatchPid(m) ==
  /\ pc[m] = "watch"
  /\ Goto(m, "done")
  /\ UNCHANGED <<exports, st, tok, lease, engine, serve, mu, external, kernelVars>>
----------------------------------------------------------------------------
(* The lease ends: retire_lease runs its finalizer, whose three parts follow *)
(* one another: erase the token, release the capability, let the export      *)
(* state go.                                                                 *)
Retire(m) ==
  /\ lease[m] = "active"
  /\ pc[m] = "done" \/ EarlyRetire
  /\ lease' = [lease EXCEPT ![m] = "token"]
  /\ UNCHANGED <<pc, exports, st, tok, engine, serve, mu, external, kernelVars>>

CleanupToken(m) ==
  /\ lease[m] = "token" /\ Unlocked
  /\ tok' = tok \ {m}
  /\ lease' = [lease EXCEPT ![m] = "capability"]
  /\ UNCHANGED <<pc, exports, st, engine, serve, mu, external, kernelVars>>

SkipCapability(m) ==
  /\ lease[m] = "capability"
  /\ lease' = [lease EXCEPT ![m] = "export"]
  /\ UNCHANGED <<pc, exports, st, tok, engine, serve, mu, external, kernelVars>>

CleanupCapability(m) ==
  /\ lease[m] = "capability"
  /\ Release(m)
  /\ lease' = [lease EXCEPT ![m] = "export"]
  /\ UNCHANGED <<pc, exports, st, tok, engine, serve, mu, external>>

CleanupExport(m) ==
  /\ lease[m] = "export" /\ Unlocked
  /\ LetGo(st[m], Kind(m))
  /\ lease' = [lease EXCEPT ![m] = "retired"]
  /\ UNCHANGED <<pc, st, tok, engine, serve, mu, external, kernelVars>>

(* release of an external token by its holder: the callback leaves the       *)
(* record with it.                                                           *)
ReleaseExternal(m) ==
  /\ m \in ExtMints /\ pc[m] = "done" /\ m \in tok /\ Unlocked
  /\ tok' = tok \ {m}
  /\ cleaned' = [cleaned EXCEPT ![m] = @ + 1]
  /\ UNCHANGED <<pc, exports, st, lease, engine, serve, mu, gone, kernelVars>>

(* handle_pid_exit takes every external record of the process; the monitor   *)
(* reports a process it watches, also one that was dead when watched.        *)
ProcessExit(m) ==
  /\ m \in ExtMints \ gone
  /\ gone' = gone \cup {m}
  /\ UNCHANGED <<pc, exports, st, tok, lease, engine, serve, mu, cleaned, kernelVars>>

HandlePidExit(m) ==
  /\ m \in gone /\ pc[m] = "done" /\ m \in tok /\ Unlocked
  /\ tok' = tok \ {m}
  /\ cleaned' = [cleaned EXCEPT ![m] = @ + 1]
  /\ UNCHANGED <<pc, exports, st, lease, engine, serve, mu, gone, kernelVars>>
----------------------------------------------------------------------------
(* LocalHandleServer::handle_conn_, GetCpuMemfdFd: parse the token, admit    *)
(* the redemption, look the descriptor up, send it and give the guard back.  *)
ServeParse(m) ==
  /\ m \in CpuMints /\ pc[m] = "done" /\ serve[m] = "none" /\ Unlocked
  /\ m \in tok
  /\ serve' = [serve EXCEPT ![m] = "parsed"]
  /\ UNCHANGED <<pc, exports, st, tok, lease, engine, mu, external, kernelVars>>

ServeAdmit(m) ==
  /\ serve[m] = "parsed"
  /\ \/ Admit(m, m) /\ serve' = [serve EXCEPT ![m] = "admitted"]
     \/ /\ ~ (cap[m] # None /\ Resolves(m))
        /\ serve' = [serve EXCEPT ![m] = "none"] /\ UNCHANGED kernelVars
  /\ UNCHANGED <<pc, exports, st, tok, lease, engine, mu, external>>

GetDescriptor(m) ==
  /\ serve[m] = "admitted" /\ Unlocked
  /\ IF m \in tok
       THEN serve' = [serve EXCEPT ![m] = "fd"] /\ UNCHANGED kernelVars
       ELSE ReleaseGuard(m) /\ serve' = [serve EXCEPT ![m] = "none"]
  /\ UNCHANGED <<pc, exports, st, tok, lease, engine, mu, external>>

SendFd(m) ==
  /\ serve[m] = "fd"
  /\ ReleaseGuard(m)
  /\ serve' = [serve EXCEPT ![m] = "none"]
  /\ UNCHANGED <<pc, exports, st, tok, lease, engine, mu, external>>

Minting(m) ==
  \/ Join(m) \/ Create(m) \/ InitCpu(m) \/ InitGpu(m) \/ Install(m) \/ Await(m) \/ Drop(m)
  \/ ReserveToken(m) \/ CreateLease(m) \/ Register(m) \/ MintCapability(m)

Finalizing(m) == CleanupToken(m) \/ CleanupCapability(m) \/ CleanupExport(m)

Serving(m) == ServeParse(m) \/ ServeAdmit(m) \/ GetDescriptor(m) \/ SendFd(m)

External(m) ==
  \/ MintExternal(m) \/ WatchPid(m) \/ ReleaseExternal(m)
  \/ ProcessExit(m) \/ HandlePidExit(m)

Next ==
  \/ \E m \in Caps : Minting(m) \/ Retire(m) \/ Finalizing(m) \/ Serving(m)
  \/ \E s \in Caps : SwitchOffCpu(s) \/ SwitchOffGpu(s)
  \/ \E m \in ExtMints : External(m)

MintRuns(m) == Minting(m) /\ pc[m] # "idle"
ServeRuns(m) == ServeAdmit(m) \/ GetDescriptor(m) \/ SendFd(m)

(* Threads that hold no lock run; leases end because processes do.           *)
Fairness ==
  /\ \A m \in Caps : /\ WF_vars(MintRuns(m))
                    /\ WF_vars(Retire(m)) /\ WF_vars(Finalizing(m))
                    /\ WF_vars(SwitchOffCpu(m)) /\ WF_vars(SwitchOffGpu(m))
                    /\ WF_vars(ServeRuns(m))
  /\ \A m \in ExtMints : WF_vars(WatchPid(m)) /\ WF_vars(HandlePidExit(m))

Spec == Init /\ [][Next]_vars /\ Fairness
----------------------------------------------------------------------------
(* Who counts as a holder of an export state: a mint past the first critical *)
(* section whose lease does not exist yet, and a lease whose finalizer has   *)
(* not let go.                                                               *)
Holders(s) ==
  {m \in Caps : st[m] = s /\ (\/ pc[m] \in {"init", "ready", "broken", "wait", "reserve",
                                            "lease", "drop"}
                             \/ lease[m] \in {"active", "token", "capability", "export"})}

(* An export state is in the map exactly while somebody holds it, and its    *)
(* refcount is the number of holders: no path of the mint, of its failures   *)
(* or of the finalizer drops a reference twice or never.                     *)
RefsCounted ==
  \A s \in Caps :
    IF Holders(s) = {} THEN \A k \in Kinds : cur[k] # s
    ELSE cur[Kind(s)] = s /\ ex[s].ref = Cardinality(Holders(s))

(* While a lease is active its export state is installed, initialised and    *)
(* backed: the stable lease is held and the fd open (0049, "Handle lease     *)
(* model").                                                                  *)
LeaseIsBacked ==
  \A m \in Caps : lease[m] = "active" =>
    ex[st[m]].ready /\ ex[st[m]].ok /\ st[m] \in held

(* The callback of an external lease runs at most once, whether the holder   *)
(* releases the token, the process exits, or both.                           *)
CleanedOnce == \A m \in ExtMints : cleaned[m] <= 1 /\ (cleaned[m] = 1 => m \notin tok)

(* When everything has been retired nothing remains: no export state, no     *)
(* stable lease or fd, no token and no capability.                           *)
NothingLeaks ==
  (\A m \in Caps : pc[m] \in {"idle", "done", "failed"} /\ lease[m] \in {"none", "retired"})
    => /\ \A k \in Kinds : cur[k] = None
       /\ held \subseteq off /\ tok \cap Caps = {}
       /\ \A m \in Caps : serve[m] = "none" => cap[m] = None

(* Every mint that starts comes to an end: waiters are woken by success and  *)
(* by failure of the initialiser.                                            *)
MintsEnd == \A m \in Caps : pc[m] # "idle" ~> pc[m] \in {"done", "failed"}

(* The callback of an external lease runs after its process has exited, even *)
(* one that exits between the mint and the watch.                            *)
ExternalCleaned == \A m \in ExtMints : m \in gone /\ m \in tok ~> m \notin tok

(* handle_lease_registry.cc:676: a mint whose lease is retired before the    *)
(* registration gives its references back and returns an error; it does not  *)
(* wait for the mutex it holds.                                              *)
RetiredMintReturns == mu = None

(* 0094, required invariant 3: a capability does not outlive the lease       *)
(* protection it was minted over.                                            *)
CapabilityHasLease ==
  \A m \in Caps : cap[m] # None /\ lease[m] = "retired" => guards[m] = m

(* 0049: while a lease token is active its ranges are exported, so that the  *)
(* engine does not evict or preempt them.                                    *)
LeaseIsExported == \A m \in Caps : lease[m] = "active" => flag[Kind(m)]

(* 0094, 7.2: a concurrent release does not turn an admitted use into an     *)
(* unprotected operation: the descriptor about to be sent is still open.     *)
AdmittedFdOpen == \A m \in CpuMints : serve[m] = "fd" => st[m] \in held
============================================================================

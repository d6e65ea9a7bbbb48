-------------------------- MODULE SessionLifecycle --------------------------
(***************************************************************************)
(* Leases, guards and finalizers of the daemon (daemon/state/session_      *)
(* lifecycle.cc) with the process monitor that fires the pid guards        *)
(* (pid_monitor.cc), the reference table (ref_tracker.h), the UnloadReplica*)
(* call and the eviction task.  A lease is used once.  mk is how far its   *)
(* creation came, rt how far its retirement came: the critical section of  *)
(* mu_ is one step, the finalizers and the unwatch after it are steps of   *)
(* their own.  use_count, placement_pins and pid_index_ change with the    *)
(* lease table in one critical section and are read off it.                *)
(***************************************************************************)
EXTENDS Integers, FiniteSets

CONSTANTS Leases, Keys, Pids, None,
          Kinds,     \* the kinds of leases created: "use", "pin", "commit"
          Share,     \* may a process hold two leases at a time?
          Calls,     \* of "rpc" (UnloadReplica), "evict", "watch_pid", "ttl", "exit"
          MaxGen     \* bound on the generation of a deadline guard

VARIABLES info, mk, rt, rpc, unw, ran,   \* leases
          gen, heap, expired, renewed,   \* deadline guards
          refs, resident, pend, sweep, evict,
          watched, dead, ext, extUnw, cb, snap

vars == <<info, mk, rt, rpc, unw, ran, gen, heap, expired, renewed, refs,
          resident, pend, sweep, evict, watched, dead, ext, extUnw, cb, snap>>
times == <<gen, heap, expired, renewed>>
mons == <<watched, dead, ext, extUnw, cb, snap>>
store == <<resident, pend, sweep, evict>>

\* The variables have their types.
TypeOK ==
    /\ info \in [Leases -> [kind : Kinds, key : Keys, pid : Pids] \union {None}]
    /\ mk \in [Leases -> {"new", "ref", "watch", "ok"}]
    /\ rt \in [Leases -> {"no", "finalize", "decide", "unload", "unwatch", "rpc", "done"}]
    /\ rpc \in [Leases -> BOOLEAN] /\ unw \in [Leases -> BOOLEAN] /\ ran \in [Leases -> 0..2]
    /\ gen \in [Leases -> 0..MaxGen] /\ heap \subseteq Leases \X (1..MaxGen)
    /\ expired \subseteq Leases /\ renewed \subseteq Leases
    /\ refs \subseteq Keys \X Pids /\ resident \subseteq Keys /\ pend \subseteq Keys
    /\ sweep \in {None} \union (Keys \X {"decide", "unload"}) /\ evict \in Keys \union {None}
    /\ watched \subseteq Pids /\ dead \subseteq Pids /\ ext \subseteq Pids /\ extUnw \subseteq Pids
    /\ cb \in [Pids -> {"none", "taken", "retire"}] /\ snap \in [Pids -> SUBSET Leases]

Init ==
    /\ info = [l \in Leases |-> None] /\ mk = [l \in Leases |-> "new"]
    /\ rt = [l \in Leases |-> "no"] /\ rpc = [l \in Leases |-> FALSE]
    /\ unw = [l \in Leases |-> FALSE] /\ ran = [l \in Leases |-> 0]
    /\ gen = [l \in Leases |-> 0] /\ heap = {} /\ expired = {} /\ renewed = {}
    /\ refs = {} /\ resident = {} /\ pend = {} /\ sweep = None /\ evict = None
    /\ watched = {} /\ dead = {} /\ ext = {} /\ extUnw = {}
    /\ cb = [p \in Pids |-> "none"] /\ snap = [p \in Pids |-> {}]

------------------------------------------------------------------------------
Active(l) == mk[l] \in {"watch", "ok"} /\ rt[l] = "no"
Of(k, kinds) == {l \in Leases : Active(l) /\ info[l].key = k /\ info[l].kind \in kinds}
Protected(k) == Of(k, {"use", "pin"}) # {}             \* use_count, placement_pins
PidGuards(p) == {l \in Leases : Active(l) /\ info[l].pid = p /\ info[l].kind # "pin"}

Holders(p) == {l \in Leases : mk[l] # "new" /\ rt[l] # "done" /\ info[l].pid = p}

\* bind_replica_handle_for_response: the copy is loaded, the reference added.
AddRef(l, kind, k, p) ==
    /\ mk[l] = "new" /\ p \notin dead
    /\ Share \/ Holders(p) = {}
    /\ info' = [info EXCEPT ![l] = [kind |-> kind, key |-> k, pid |-> p]]
    /\ mk' = [mk EXCEPT ![l] = "ref"]
    /\ refs' = IF kind = "use" THEN refs \union {<<k, p>>} ELSE refs
    /\ resident' = IF kind = "commit" THEN resident ELSE resident \union {k}
    /\ UNCHANGED <<rt, rpc, unw, ran, times, pend, sweep, evict, mons>>

\* create_use_lease, create_ttl_use_lease, create_placement_lease and
\* create_commit_lease up to the end of the critical section.
Create(l, ttl) ==
    /\ mk[l] = "ref"
    /\ ttl => info[l].kind # "commit" /\ "ttl" \in Calls
    /\ mk' = [mk EXCEPT ![l] = IF info[l].kind = "pin" THEN "ok" ELSE "watch"]
    /\ pend' = IF info[l].kind = "commit" THEN pend ELSE pend \ {info[l].key}
    /\ gen' = [gen EXCEPT ![l] = IF ttl THEN 1 ELSE 0]
    /\ heap' = IF ttl THEN heap \union {<<l, 1>>} ELSE heap
    /\ UNCHANGED <<info, rt, rpc, unw, ran, expired, renewed, refs, resident, sweep, evict, mons>>

Watch(l) ==
    /\ mk[l] = "watch"
    /\ mk' = [mk EXCEPT ![l] = "ok"]
    /\ watched' = watched \union {info[l].pid}
    /\ UNCHANGED <<info, rt, rpc, unw, ran, times, refs, store, dead, ext, extUnw, cb, snap>>

RenewPastBound(l) ==
    /\ Active(l) /\ gen[l] \in 1..MaxGen
    /\ gen' = [gen EXCEPT ![l] = @ + 1]
    /\ heap' = heap \union {<<l, gen[l] + 1>>}
    /\ UNCHANGED <<info, mk, rt, rpc, unw, ran, expired, renewed, refs, store, mons>>

\* renew_placement answers OK for any lease that is in the table.
Renew(l) ==
    /\ Active(l) /\ gen[l] \in 1..MaxGen - 1
    /\ gen' = [gen EXCEPT ![l] = @ + 1]
    /\ heap' = heap \union {<<l, gen[l] + 1>>}
    /\ renewed' = IF l \in expired THEN renewed \union {l} ELSE renewed
    /\ UNCHANGED <<info, mk, rt, rpc, unw, ran, expired, refs, store, mons>>

\* expire_due under the lock: entries of an older generation are ignored.
PopExpired(l, g) ==
    /\ <<l, g>> \in heap
    /\ heap' = heap \ {<<l, g>>}
    /\ expired' = IF Active(l) /\ gen[l] = g THEN expired \union {l} ELSE expired
    /\ UNCHANGED <<info, mk, rt, rpc, unw, ran, gen, renewed, refs, store, mons>>

------------------------------------------------------------------------------
(* retire_lease_ and its finalizers. *)

RetireTwice(l, byRpc) ==
    /\ mk[l] \in {"watch", "ok"} /\ rt[l] \in {"no", "done"}
    /\ rt' = [rt EXCEPT ![l] = "finalize"]
    /\ UNCHANGED <<info, mk, rpc, unw, ran, refs, store>>

Retire(l, byRpc) ==
    /\ Active(l)
    /\ rt' = [rt EXCEPT ![l] = "finalize"]
    /\ rpc' = [rpc EXCEPT ![l] = byRpc]
    /\ unw' = [unw EXCEPT ![l] = /\ info[l].kind # "pin" /\ PidGuards(info[l].pid) = {l}
                                 /\ info[l].pid \notin ext]
    /\ UNCHANGED <<info, mk, ran, refs, store>>

\* release_lease, and release_use_lease as UnloadReplica calls it.
Release(l) ==
    /\ \E byRpc \in {FALSE, "rpc" \in Calls} :
          Retire(l, byRpc /\ info[l].kind = "use")
    /\ UNCHANGED <<times, mons>>

RetireExpired(l) ==
    /\ l \in expired
    /\ IF Active(l) THEN Retire(l, FALSE) ELSE UNCHANGED <<info, mk, rt, rpc, unw, ran, refs, store>>
    /\ expired' = expired \ {l}
    /\ UNCHANGED <<gen, heap, renewed, mons>>

Finalize(l) ==
    /\ rt[l] = "finalize"
    /\ rt' = [rt EXCEPT ![l] = IF info[l].kind = "commit" THEN "unwatch" ELSE "decide"]
    /\ ran' = [ran EXCEPT ![l] = @ + 1]
    /\ refs' = IF info[l].kind = "use" THEN refs \ {<<info[l].key, info[l].pid>>} ELSE refs
    /\ UNCHANGED <<info, mk, rpc, unw, times, store, mons>>

\* maybe_unload_daemon_replica_: the counters are read under the lock, ...
Decide(l) ==
    LET k == info[l].key
        go == ~Protected(k) /\ k \in resident
    IN  /\ rt[l] = "decide"
        /\ rt' = [rt EXCEPT ![l] = IF go THEN "unload" ELSE "unwatch"]
        /\ pend' = IF go THEN pend ELSE pend \ {k}
        /\ UNCHANGED <<info, mk, rpc, unw, ran, times, refs, resident, sweep, evict, mons>>

\* ... and the unload happens after it.
UnloadOk(k) == resident' = resident \ {k} /\ pend' = pend \ {k}
UnloadFails(k) == resident' = resident /\ pend' = pend \union {k}

Unload(l, ok) ==
    /\ rt[l] = "unload"
    /\ rt' = [rt EXCEPT ![l] = "unwatch"]
    /\ IF ok THEN UnloadOk(info[l].key) ELSE UnloadFails(info[l].key)
    /\ UNCHANGED <<info, mk, rpc, unw, ran, times, refs, sweep, evict, mons>>

Unwatch(l) ==
    /\ rt[l] = "unwatch"
    /\ watched' = IF unw[l] THEN watched \ {info[l].pid} ELSE watched
    /\ rt' = [rt EXCEPT ![l] = IF rpc[l] THEN "rpc" ELSE "done"]
    /\ UNCHANGED <<info, mk, rpc, unw, ran, times, refs, store, dead, ext, extUnw, cb, snap>>

\* The rest of UnloadReplica: only the references are looked at.
RpcUnload(l) ==
    /\ rt[l] = "rpc"
    /\ rt' = [rt EXCEPT ![l] = "done"]
    /\ resident' = IF \E p \in Pids : <<info[l].key, p>> \in refs THEN resident
                   ELSE resident \ {info[l].key}
    /\ UNCHANGED <<info, mk, rpc, unw, ran, times, refs, pend, sweep, evict, mons>>

------------------------------------------------------------------------------
(* The sweep and the eviction task. *)

leases == <<info, mk, rt, rpc, unw, ran>>

SyncPidWatches ==
    /\ watched' = watched \union {r[2] : r \in refs}
    /\ UNCHANGED <<leases, times, refs, store, dead, ext, extUnw, cb, snap>>

RetryPick(k) ==
    /\ sweep = None /\ k \in pend
    /\ sweep' = <<k, "decide">>
    /\ UNCHANGED <<leases, times, refs, resident, pend, evict, mons>>

RetryDecide ==
    /\ sweep # None /\ sweep[2] = "decide"
    /\ LET k == sweep[1]
           go == ~Protected(k) /\ k \in resident
       IN  /\ sweep' = IF go THEN <<k, "unload">> ELSE None
           /\ pend' = IF go THEN pend ELSE pend \ {k}
    /\ UNCHANGED <<leases, times, refs, resident, evict, mons>>

RetryUnload(ok) ==
    /\ sweep # None /\ sweep[2] = "unload"
    /\ IF ok THEN UnloadOk(sweep[1]) ELSE UnloadFails(sweep[1])
    /\ sweep' = None
    /\ UNCHANGED <<leases, times, refs, evict, mons>>

EvictPick(k) ==
    /\ "evict" \in Calls /\ evict = None /\ k \in resident
    /\ \A p \in Pids : <<k, p>> \notin refs
    /\ ~Protected(k)
    /\ evict' = k
    /\ UNCHANGED <<leases, times, refs, resident, pend, sweep, mons>>

EvictUnload ==
    /\ evict # None
    /\ resident' = resident \ {evict} /\ evict' = None
    /\ UNCHANGED <<leases, times, refs, pend, sweep, mons>>

------------------------------------------------------------------------------
(* Processes and the monitor. *)

Exit(p) ==
    /\ "exit" \in Calls /\ p \notin dead
    /\ dead' = dead \union {p}
    /\ UNCHANGED <<leases, times, refs, store, watched, ext, extUnw, cb, snap>>

\* The monitor drops the pid from watched_ before it calls handle_pid_exit.
MonitorTakes(p) ==
    /\ p \in watched \intersect dead /\ cb[p] = "none"
    /\ watched' = watched \ {p} /\ cb' = [cb EXCEPT ![p] = "taken"]
    /\ UNCHANGED <<leases, times, refs, store, dead, ext, extUnw, snap>>

ExitSnapshot(p) ==
    /\ cb[p] = "taken"
    /\ cb' = [cb EXCEPT ![p] = "retire"]
    /\ snap' = [snap EXCEPT ![p] = PidGuards(p)]
    /\ ext' = ext \ {p}
    /\ UNCHANGED <<leases, times, refs, store, watched, dead, extUnw>>

ExitRetire(l) ==
    /\ \E p \in Pids : cb[p] = "retire" /\ l \in snap[p]
    /\ Retire(l, FALSE)
    /\ UNCHANGED <<times, mons>>

ExitDone(p) ==
    /\ cb[p] = "retire" /\ \A l \in snap[p] : ~Active(l)
    /\ cb' = [cb EXCEPT ![p] = "none"] /\ snap' = [snap EXCEPT ![p] = {}]
    /\ refs' = {r \in refs : r[2] # p}
    /\ UNCHANGED <<leases, times, store, watched, dead, ext, extUnw>>

WatchPid(p) ==
    /\ "watch_pid" \in Calls /\ p \notin ext /\ p \notin dead
    /\ ext' = ext \union {p} /\ watched' = watched \union {p}
    /\ UNCHANGED <<leases, times, refs, store, dead, extUnw, cb, snap>>

UnwatchPid(p) ==
    /\ p \in ext
    /\ ext' = ext \ {p}
    /\ extUnw' = IF PidGuards(p) = {} THEN extUnw \union {p} ELSE extUnw
    /\ UNCHANGED <<leases, times, refs, store, watched, dead, cb, snap>>

UnwatchPidEnd(p) ==
    /\ p \in extUnw
    /\ extUnw' = extUnw \ {p} /\ watched' = watched \ {p}
    /\ UNCHANGED <<leases, times, refs, store, dead, ext, cb, snap>>

------------------------------------------------------------------------------
Steps(l) == \/ Create(l, FALSE) \/ Watch(l) \/ RetireExpired(l) \/ Finalize(l)
            \/ Decide(l) \/ Unwatch(l) \/ RpcUnload(l) \/ ExitRetire(l)

MonitorSteps(p) == MonitorTakes(p) \/ ExitSnapshot(p) \/ ExitDone(p) \/ UnwatchPidEnd(p)

SweepStep == (\E k \in Keys : RetryPick(k)) \/ RetryDecide

Next ==
    \/ \E l \in Leases : \/ \E kind \in Kinds, k \in Keys, p \in Pids : AddRef(l, kind, k, p)
                         \/ Steps(l) \/ Create(l, TRUE) \/ Renew(l) \/ Release(l)
                         \/ \E g \in 1..MaxGen : PopExpired(l, g)
                         \/ \E ok \in BOOLEAN : Unload(l, ok)
    \/ \E p \in Pids : Exit(p) \/ MonitorSteps(p) \/ WatchPid(p) \/ UnwatchPid(p)
    \/ \E k \in Keys : EvictPick(k)
    \/ \E ok \in BOOLEAN : RetryUnload(ok)
    \/ SyncPidWatches \/ SweepStep \/ EvictUnload

Unloads(l) == \E ok \in BOOLEAN : Unload(l, ok)
RetryUnloads == \E ok \in BOOLEAN : RetryUnload(ok)

Fairness ==
    /\ \A l \in Leases : WF_vars(Steps(l)) /\ WF_vars(Unloads(l))
    /\ \A p \in Pids : WF_vars(MonitorSteps(p))
    /\ WF_vars(SyncPidWatches) /\ WF_vars(SweepStep)
    /\ WF_vars(RetryUnloads) /\ SF_vars(RetryUnload(TRUE))

Spec == Init /\ [][Next]_vars /\ Fairness

------------------------------------------------------------------------------
\* "Each Lease runs its finalizers at most once", whether it is released,
\* expires, and loses its process at the same time.
FinalizersOnce == \A l \in Leases : ran[l] <= 1

LeasedAgain(k) == \E l \in Leases : mk[l] # "new" /\ rt[l] = "no" /\ info[l].key = k

\* "A subject resource remains protected from reclamation while there exists
\* at least one active Lease for that subject": no step unloads a leased copy.
ResourceProtection ==
    [][\A k \in resident : k \notin resident' => ~Protected(k)]_vars

\* The same of the UnloadReplica call, which drops the caller's own use: a
\* copy pinned by a placement lease, or used by another lease, stays.
UnloadRpcHonoursLeases ==
    [][\A l \in Leases : RpcUnload(l) /\ Protected(info[l].key) => UNCHANGED resident]_vars

\* "Expire vs renew: expiration only succeeds for matching generation": a
\* lease whose renewal was answered OK is not retired by an older deadline.
RenewalWins == [][\A l \in Leases : RetireExpired(l) /\ Active(l) => l \notin renewed]_vars

\* "When the last external watch is removed and no lease PID guards remain,
\* the PID is unwatched": while guards remain, the process is watched.
GuardedPidWatched ==
    \A p \in Pids : (\E l \in PidGuards(p) : mk[l] = "ok") /\ cb[p] = "none" => p \in watched
==============================================================================

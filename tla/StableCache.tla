---------------------------- MODULE StableCache ----------------------------
(***************************************************************************)
(* The stable DRAM cache of the store engine (components/                  *)
(* stable_dram_cache_manager.cc) over the stable leases of the unified     *)
(* memory authority and the byte budget of the stable tier.                *)
(*                                                                         *)
(* A stable lease has no identity: acquiring it adds one to the lease      *)
(* count of the replica and charges the budget, releasing it subtracts     *)
(* one and gives the bytes back, whoever asks.  The cache holds one lease  *)
(* per entry, an export of the replica holds another.  The manager reads   *)
(* an entry under mu_, releases the lease outside it and erases the entry  *)
(* under mu_ again, so every such operation is several steps here.         *)
(*                                                                         *)
(* Every replica has one unit of bytes.  Aliases (several cache keys over  *)
(* one replica) are left out: a key is its own lease key.                  *)
(***************************************************************************)
EXTENDS Integers, FiniteSets

CONSTANTS Keys,      \* CPU replica keys
          Threads,   \* threads that call the store engine
          Evictors,  \* the threads whose calls may evict
          Unloadable, \* keys that are also unloaded, or evicted for the pinned pool
          Budget,    \* MemoryTierBudget::stable_total_bytes_
          Policies,  \* retention policies that callers ask for
          None

VARIABLES entry,   \* entries_: the policy of the entry of a key, or None
          leases,  \* ChunkRecord::stable_lease_count
          used,    \* MemoryTierBudget::stable_used_bytes_
          cached,  \* bytes_used_ (as an integer: below zero means wrapped)
          exports, \* leases that export holders have been given
          run      \* what each thread is executing

vars == <<entry, leases, used, cached, exports, run>>

Order == <<"best", "ttl", "pinned", "required">>
Rank(p) == CHOOSE i \in 1..4 : Order[i] = p
Overflows == {"evict", "spill", "reject"}

Idle == [at |-> "idle"]
Job(at, op, k, p, o) ==
  [at |-> at, op |-> op, key |-> k, pol |-> p, over |-> o, todo |-> {}, victim |-> None]

StableCacheInit ==
  /\ entry = [k \in Keys |-> None]
  /\ leases = [k \in Keys |-> 0]
  /\ used = 0
  /\ cached = 0
  /\ exports = [k \in Keys |-> 0]
  /\ run = [t \in Threads |-> Idle]

At(t, at) == run[t].at = at
Finish(t) == run' = [run EXCEPT ![t] = Idle]
Goto(t, at) == run' = [run EXCEPT ![t].at = at]

\* upgrade_entry_policy: retention only ever grows; required is the strongest.
Upgrade(k, p) == [entry EXCEPT ![k] = IF Rank(p) > Rank(@) THEN p ELSE @]

----------------------------------------------------------------------------
(* Unified memory authority and budget.                                    *)

\* release_stable_lease and MemoryTierBudget::release_stable (clamped at zero).
GiveBack(k) ==
  /\ leases' = [leases EXCEPT ![k] = @ - 1]
  /\ used' = IF used > 1 THEN used - 1 ELSE 0

\* The release is refused when no lease is held, whichever holder asks.
ReleaseLease(k) ==
  IF leases[k] > 0 THEN GiveBack(k) ELSE UNCHANGED <<leases, used>>

----------------------------------------------------------------------------
(* Admission and export.                                                   *)

\* A hit upgrades the entry; a miss goes on to acquire a lease.
Admit(t, k, p, o) ==
  /\ At(t, "idle")
  /\ o # "reject" => t \in Evictors
  /\ IF entry[k] # None
       THEN entry' = Upgrade(k, p) /\ UNCHANGED run
       ELSE run' = [run EXCEPT ![t] = Job("acquire", "admit", k, p, o)] /\ UNCHANGED entry
  /\ UNCHANGED <<leases, used, cached, exports>>

\* A CPU export asks the replica runtime for a lease of its own.
Export(t, k) ==
  /\ At(t, "idle")
  /\ t \in Evictors
  /\ exports[k] = 0
  /\ \A u \in Threads : run[u].at # "idle" => run[u].op # "export"
  /\ run' = [run EXCEPT ![t] = Job("acquire", "export", k, "best", "evict")]
  /\ UNCHANGED <<entry, leases, used, cached, exports>>

\* A plausible bug: the budget may be exceeded by the last lease.
GrantedOver(t) ==
  LET k == run[t].key IN
  /\ At(t, "acquire") \/ At(t, "reacquire")
  /\ used <= Budget
  /\ leases' = [leases EXCEPT ![k] = @ + 1]
  /\ used' = used + 1
  /\ Goto(t, "insert")
  /\ UNCHANGED <<entry, cached, exports>>

\* try_acquire_stable succeeded: the cache goes on to insert, the export is done.
Granted(t) ==
  LET k == run[t].key IN
  /\ At(t, "acquire") \/ At(t, "reacquire")
  /\ used < Budget
  /\ leases' = [leases EXCEPT ![k] = @ + 1]
  /\ used' = used + 1
  /\ IF run[t].op = "export"
       THEN exports' = [exports EXCEPT ![k] = @ + 1] /\ Finish(t)
       ELSE Goto(t, "insert") /\ UNCHANGED exports
  /\ UNCHANGED <<entry, cached>>

\* ResourceExhausted: evict once and try again, unless overflow is rejected,
\* the spill guard refuses (no shared disk), or this was the second try.
Exhausted(t) ==
  /\ At(t, "acquire") \/ At(t, "reacquire")
  /\ used >= Budget
  /\ \/ /\ At(t, "acquire") /\ run[t].over # "reject"
        /\ run' = [run EXCEPT ![t].at = "evict", ![t].todo = Keys \ {run[t].key}]
     \/ /\ At(t, "reacquire") \/ run[t].over # "evict"
        /\ Finish(t)
  /\ UNCHANGED <<entry, leases, used, cached, exports>>

\* A plausible bug: the entry is overwritten when the insertion lost the race.
InsertOver(t) ==
  /\ At(t, "insert")
  /\ entry' = [entry EXCEPT ![run[t].key] = run[t].pol]
  /\ Goto(t, "count")
  /\ UNCHANGED <<leases, used, cached, exports>>

Insert(t) ==
  LET k == run[t].key IN
  /\ At(t, "insert")
  /\ IF entry[k] = None
       THEN entry' = [entry EXCEPT ![k] = run[t].pol] /\ Goto(t, "count")
       ELSE Goto(t, "undo") /\ UNCHANGED entry
  /\ UNCHANGED <<leases, used, cached, exports>>

\* Another admission of the key was first: give the lease back, then upgrade.
Undo(t) ==
  LET k == run[t].key IN
  /\ At(t, "undo")
  /\ ReleaseLease(k)
  /\ entry' = IF entry[k] = None THEN entry ELSE Upgrade(k, run[t].pol)
  /\ Finish(t)
  /\ UNCHANGED <<cached, exports>>

\* bytes_used_.fetch_add, after mu_ was released.
Count(t) ==
  /\ At(t, "count")
  /\ cached' = cached + 1
  /\ Finish(t)
  /\ UNCHANGED <<entry, leases, used, exports>>

\* The holder of the export gives its lease back.
Unexport(t, k) ==
  /\ At(t, "idle")
  /\ exports[k] > 0
  /\ exports' = [exports EXCEPT ![k] = @ - 1]
  /\ ReleaseLease(k)
  /\ UNCHANGED <<entry, cached, run>>

\* update_policy overwrites the policy of the entry.
UpdatePolicy(t, k, p) ==
  /\ At(t, "idle")
  /\ entry[k] # None
  /\ entry' = [entry EXCEPT ![k] = p]
  /\ UNCHANGED <<leases, used, cached, exports, run>>

\* The retention deadline of an entry passes.
TtlExpires(k) ==
  /\ entry[k] = "ttl"
  /\ entry' = [entry EXCEPT ![k] = "best"]
  /\ UNCHANGED <<leases, used, cached, exports, run>>

----------------------------------------------------------------------------
(* Eviction.                                                               *)

\* is_entry_evictable: an export may preempt everything that is not required.
Evictable(p, op) ==
  /\ p # "required"
  /\ op = "export" \/ p = "best"

\* One candidate of evict_for_bytes: the entry is copied under mu_ and judged.
\* With spill overflow the spill callback may refuse the candidate as well.
Judge(t, v) ==
  /\ At(t, "evict")
  /\ v \in run[t].todo
  /\ \/ /\ entry[v] # None
        /\ Evictable(entry[v], run[t].op)
        /\ run' = [run EXCEPT ![t].at = "drop", ![t].victim = v, ![t].todo = @ \ {v}]
     \/ /\ entry[v] # None => \/ ~Evictable(entry[v], run[t].op)
                              \/ run[t].over = "spill"
        /\ run' = [run EXCEPT ![t].todo = @ \ {v}]
  /\ UNCHANGED <<entry, leases, used, cached, exports>>

\* evict_for_bytes could not free enough bytes.
GiveUp(t) ==
  /\ At(t, "evict")
  /\ run[t].todo = {}
  /\ Finish(t)
  /\ UNCHANGED <<entry, leases, used, cached, exports>>

\* The lease of the copied entry is released outside mu_.  A refusal makes
\* evict_for_bytes try the next candidate, on_replica_evicted only log.
Drop(t) ==
  LET v == run[t].victim IN
  /\ At(t, "drop")
  /\ ReleaseLease(v)
  /\ Goto(t, IF leases[v] = 0 /\ run[t].op \in {"admit", "export"} THEN "evict" ELSE "erase")
  /\ UNCHANGED <<entry, cached, exports>>

\* The entry is erased under mu_.  on_replica_evicted stops if it is gone.
Erase(t) ==
  LET v == run[t].victim IN
  /\ At(t, "erase")
  /\ entry' = [entry EXCEPT ![v] = None]
  /\ IF entry[v] = None /\ run[t].op \notin {"admit", "export"}
       THEN Finish(t)
       ELSE Goto(t, "uncount")
  /\ UNCHANGED <<leases, used, cached, exports>>

\* bytes_used_.fetch_sub.  One unit was required, so one victim is enough.
\* The pinned-pool path publishes kReplicaEvicted, whose subscriber calls
\* on_replica_evicted for the same key again.
Uncount(t) ==
  /\ At(t, "uncount")
  /\ cached' = cached - 1
  /\ CASE run[t].op \in {"admit", "export"} -> Goto(t, "reacquire")
       [] run[t].op = "pool" -> run' = [run EXCEPT ![t].op = "event", ![t].at = "copy"]
       [] OTHER -> Finish(t)
  /\ UNCHANGED <<entry, leases, used, exports>>

\* is_evictable, asked by try_evict_memory_for_replica before the CPU memory
\* of the replica is released.
PoolEvictable(k) ==
  IF entry[k] = None THEN leases[k] = 0 ELSE leases[k] <= 1 /\ Evictable(entry[k], "pool")

PoolEvict(t, k) ==
  /\ At(t, "idle")
  /\ t \in Evictors /\ k \in Unloadable
  /\ PoolEvictable(k)
  /\ run' = [run EXCEPT ![t] = [Job("copy", "pool", k, "best", "evict") EXCEPT !.victim = k]]
  /\ UNCHANGED <<entry, leases, used, cached, exports>>

\* unload_replica and retire_replica release the memory whatever the policy.
Unload(t, k) ==
  /\ At(t, "idle")
  /\ t \in Evictors /\ k \in Unloadable
  /\ run' = [run EXCEPT ![t] = [Job("copy", "event", k, "best", "evict") EXCEPT !.victim = k]]
  /\ UNCHANGED <<entry, leases, used, cached, exports>>

\* on_replica_evicted: copy the entry under mu_, if there is one.
OnReplicaEvicted(t) ==
  /\ At(t, "copy")
  /\ IF entry[run[t].victim] = None THEN Finish(t) ELSE Goto(t, "drop")
  /\ UNCHANGED <<entry, leases, used, cached, exports>>

----------------------------------------------------------------------------
Step(t) ==
  \/ Granted(t) \/ Exhausted(t) \/ Insert(t) \/ Undo(t) \/ Count(t)
  \/ GiveUp(t) \/ Drop(t) \/ Erase(t) \/ Uncount(t) \/ OnReplicaEvicted(t)
  \/ \E v \in Keys : Judge(t, v)

Call(t) ==
  \E k \in Keys :
    \/ \E p \in Policies, o \in Overflows : Admit(t, k, p, o)
    \/ \E p \in Policies : UpdatePolicy(t, k, p)
    \/ Export(t, k) \/ Unexport(t, k)
    \/ PoolEvict(t, k) \/ Unload(t, k)

Next ==
  \/ \E t \in Threads : Step(t) \/ Call(t)
  \/ \E k \in Keys : TtlExpires(k)

Spec == StableCacheInit /\ [][Next]_vars

----------------------------------------------------------------------------
TypeOK ==
  /\ entry \in [Keys -> {Order[i] : i \in 1..4} \cup {None}]
  /\ leases \in [Keys -> Nat]
  /\ used \in 0..Budget
  /\ cached \in Int
  /\ exports \in [Keys -> 0..1]

\* Leases that a thread has acquired and not yet stored in an entry, less the
\* leases that it has released and whose entry it has not yet erased.
InHand(k) ==
  Cardinality({t \in Threads : run[t].at \in {"insert", "undo"} /\ run[t].key = k})
  - Cardinality({t \in Threads : At(t, "erase") /\ run[t].victim = k})

\* The leases that the authority counts, one pair for each.
Counted == UNION {{k} \X (1..leases[k]) : k \in Keys}

\* Every lease is owned: by the entry of the key, by its export, or by a call
\* in progress; and the budget is charged with exactly the leases that exist.
LeasesAccounted ==
  /\ \A k \in Keys : leases[k] = exports[k] + InHand(k) + (IF entry[k] = None THEN 0 ELSE 1)
  /\ used = Cardinality(Counted)

\* bytes_used_ is the size of the cache whenever no call is in progress.
CachedMatches ==
  (\A t \in Threads : At(t, "idle"))
    => cached = Cardinality({k \in Keys : entry[k] # None})

\* stable_dram_cache_manager.h: eviction "will not release unrelated stable
\* leases (e.g., active exports)": an active export still has its lease.
ExportsKeepLease == \A k \in Keys : leases[k] >= exports[k]

\* What the cache was told to keep it keeps: an eviction for admission erases
\* an entry only while its policy lets it go (the retention of an entry can be
\* upgraded by a second admission, which is answered as admitted).
ProtectedStays ==
  [][\A t \in Threads, k \in Keys :
       /\ run[t].at = "erase" /\ run[t].op = "admit" /\ run[t].victim = k
       /\ run'[t].at = "uncount"
       => entry[k] \in {None, "best"}]_vars
============================================================================

-------------------------- MODULE WorkerReconcile --------------------------
(***************************************************************************)
(* The reconcile protocol by which one daemon's WorkerLifecycleManager      *)
(* (daemon/ha/worker_lifecycle_manager.cc) makes the Global Store's replica *)
(* rows of its worker follow the copies it holds.  On the Global Store the  *)
(* protocol is RecoveryService (services/recovery_service.py) over the      *)
(* worker and replica repositories.                                         *)
(*                                                                          *)
(* A copy is "none", "down" (resident, still loading) or "up" (loaded).  A  *)
(* checksum is the function from keys to copies that it hashes; "" is Null. *)
(* A cached replica epoch is one bit: whether any row's updated_at or the   *)
(* number of rows has changed since.  created_at is compared with the time  *)
(* of a snapshot through the set of keys whose row was created since that   *)
(* snapshot was collected, its young keys.  over says that a snapshot       *)
(* collected later has been accepted; torn, that the token was read between *)
(* the two stores of a registration, the new generation and the old cursor. *)
(***************************************************************************)
EXTENDS Naturals, FiniteSets

CONSTANTS Keys, Null

\* Bounds on what the environment does, one per kind of event.
CONSTANTS MaxChanges,        \* loads, availability changes, evictions
          MaxLost,           \* calls and answers lost, late or sent twice
          MaxExpiries,       \* heartbeat timeouts found by the sweeper
          MaxRestarts,       \* Global Store restarts
          MaxRegistrations,  \* RegisterReplica calls of the publish path
          MaxCommitFailures, \* transactions whose COMMIT fails
          MaxSeq             \* requests of one generation

VARIABLES
  wrk,      \* GS: the workers row [active, gen, seq, ver, sum]
  rows,     \* GS: the worker's artifact_replicas rows
  cache,    \* GS memory: _reconcile_noop_cache[worker_id], or Null
  local,    \* daemon: the publishable inventory
  dmn,      \* daemon: [gen, seq, ver], seq being state_sync_request_id_
  pending,  \* daemon: state_sync_requests_ > 0
  sync,     \* daemon: state-sync thread, "idle", "token", "rpc" or "reply"
  call,     \* daemon: the request of that thread, or Null
  reply,    \* daemon: its answer, or Null
  late,     \* an earlier copy of a request still at the Global Store, or Null
  hb,       \* daemon: heartbeat thread, "ok", "lost" or "registered"
  missing,  \* daemon: pending_missing_reconcile_counts_
  prefetch, \* daemon: keys handed to the executor by ADD_REPLICA
  regs,     \* RegisterReplica calls on their way to the Global Store
  budget    \* what is left of the bounds

gsVars == <<wrk, rows, cache>>
dmnVars == <<local, dmn, pending, missing, prefetch>>
syncVars == <<sync, call, reply>>
vars == <<gsVars, dmnVars, syncVars, late, hb, regs, budget>>

Copies == {"none", "down", "up"}
Inventory == [Keys -> Copies]
Events == {"change", "lost", "expire", "restart", "register", "commit"}
Kinds == {"APPLIED", "NOOP", "STALE", "REBASE", "RETRY", "ERROR"}
Request == [gen : Nat, seq : Nat, inv : Inventory, young : SUBSET Keys, over : BOOLEAN,
            torn : BOOLEAN]
Reply == [kind : Kinds, ver : Nat, adds : SUBSET Keys, gone : SUBSET Keys]
CacheEntry == [gen : Nat, seq : Nat, ver : Nat, sum : Inventory \cup {Null},
               inv : Inventory, fresh : BOOLEAN]

\* The state is well typed; the heartbeat thread registers only with a reply
\* of RegisterWorker in hand, the sync thread has a request unless idle.
TypeOK ==
  /\ wrk \in [active : BOOLEAN, gen : Nat, seq : Nat, ver : Nat, sum : Inventory \cup {Null}]
  /\ rows \in Inventory
  /\ cache \in CacheEntry \cup {Null}
  /\ local \in Inventory
  /\ dmn \in [gen : Nat, seq : Nat, ver : Nat]
  /\ pending \in BOOLEAN
  /\ sync \in {"idle", "token", "rpc", "reply"}
  /\ call \in Request \cup {Null} /\ (call = Null) = (sync = "idle")
  /\ reply \in Reply \cup {Null} /\ (reply = Null) = (sync # "reply")
  /\ late \in Request \cup {Null}
  /\ hb \in {"ok", "lost", "registered"}
  /\ missing \in [Keys -> 0..1]
  /\ prefetch \subseteq Keys /\ regs \subseteq Keys
  /\ budget \in [Events -> Nat]

\* start: RegisterWorker has answered and the bootstrap sync is requested.
Init ==
  /\ wrk = [active |-> TRUE, gen |-> 1, seq |-> 0, ver |-> 1, sum |-> Null]
  /\ rows = [k \in Keys |-> "none"] /\ cache = Null
  /\ local = [k \in Keys |-> "none"] /\ dmn = [gen |-> 1, seq |-> 0, ver |-> 1]
  /\ pending = TRUE /\ sync = "idle" /\ call = Null /\ reply = Null /\ late = Null
  /\ hb = "ok" /\ missing = [k \in Keys |-> 0] /\ prefetch = {} /\ regs = {}
  /\ budget = [change |-> MaxChanges, lost |-> MaxLost, expire |-> MaxExpiries,
               restart |-> MaxRestarts, register |-> MaxRegistrations,
               commit |-> MaxCommitFailures]

Spend(e) == budget[e] > 0 /\ budget' = [budget EXCEPT ![e] = @ - 1]
-----------------------------------------------------------------------------
(* The Global Store's answer to a reconcile request.                         *)

\* _compute_state_changes and _apply_state_changes of a snapshot: the rows
\* become the inventory, except that a row created after the snapshot was
\* collected is kept.  The time of a snapshot is read off its entries, so an
\* empty one has none.
Target(m) ==
  [k \in Keys |->
     IF /\ m.inv[k] = "none" /\ rows[k] # "none" /\ k \in m.young
        /\ \E j \in Keys : m.inv[j] # "none"
     THEN rows[k] ELSE m.inv[k]]

\* The comparison that lets a snapshot skip the rows altogether.
NoopCacheHitNoEpoch(m) ==
  /\ cache # Null
  /\ cache.gen = m.gen /\ cache.seq = wrk.seq /\ cache.ver = wrk.ver
  /\ cache.sum = wrk.sum /\ cache.inv = m.inv
NoopCacheHit(m) ==
  /\ cache # Null
  /\ cache.gen = m.gen /\ cache.seq = wrk.seq /\ cache.ver = wrk.ver
  /\ cache.sum = wrk.sum /\ cache.inv = m.inv /\ cache.fresh

\* _try_cached_replay_or_stale looks only at the cache and at the worker.
CachedReplay(m) == cache # Null /\ cache.gen = m.gen /\ m.seq <= cache.seq

\* The snapshot m is carried out: it is the next request of the generation,
\* and no cached answer stands in for it.
AcceptsReplay(m) == wrk.active /\ m.gen = wrk.gen /\ m.seq \in {wrk.seq, wrk.seq + 1}
Accepts(m) ==
  wrk.active /\ ~CachedReplay(m) /\ m.gen = wrk.gen /\ m.seq = wrk.seq + 1

\* The answer of a request that changes nothing.
RefusalKind(m) ==
  CASE m.gen < wrk.gen -> "STALE"
    [] m.gen > wrk.gen -> "REBASE"
    [] m.gen = wrk.gen /\ m.seq = wrk.seq -> "NOOP"
    [] m.gen = wrk.gen /\ m.seq < wrk.seq -> "STALE"
    [] OTHER -> "RETRY"

\* reconcile_worker_state: the worker, the rows and the cache that the
\* transaction leaves, and the answer.
Reconcile(m) ==
  LET said(kind, ver) ==
        [wrk |-> wrk, rows |-> rows, cache |-> cache, reply |->
           [kind |-> kind, ver |-> ver, adds |-> {},
            gone |-> IF kind = "REBASE" THEN {k \in Keys : rows[k] = "none"} ELSE {}]]
      skip == NoopCacheHit(m)
      after == IF skip THEN rows ELSE Target(m)
      changed == after # rows
      ver == IF changed THEN wrk.ver + 1 ELSE wrk.ver
      sum == IF skip THEN wrk.sum ELSE after
  IN  IF ~wrk.active
      THEN [said("ERROR", 0) EXCEPT !.cache = IF CachedReplay(m) THEN Null ELSE @]
      ELSE IF Accepts(m)
      THEN [wrk |-> [wrk EXCEPT !.seq = m.seq, !.ver = ver, !.sum = sum],
            rows |-> after,
            cache |-> [gen |-> m.gen, seq |-> m.seq, ver |-> ver, sum |-> sum,
                       inv |-> m.inv, fresh |-> TRUE],
            reply |-> [kind |-> IF changed THEN "APPLIED" ELSE "NOOP", ver |-> ver,
                       adds |-> {k \in Keys : rows[k] = "none" /\ after[k] # "none"},
                       gone |-> {k \in Keys : rows[k] # "none" /\ after[k] = "none"}]]
      ELSE IF CachedReplay(m)
      THEN said(IF m.seq = cache.seq THEN "NOOP" ELSE "STALE", cache.ver)
      ELSE said(RefusalKind(m), wrk.ver)

\* What the rows after[k] tell of a request still under way: rows created
\* meanwhile are young to it, and a later snapshot may have been accepted.
Meanwhile(m, after, overtaken) ==
  IF m = Null THEN Null
  ELSE [m EXCEPT !.young = @ \cup {k \in Keys : rows[k] = "none" /\ after[k] # "none"},
                 !.over = @ \/ overtaken]

ErrorReply == [kind |-> "ERROR", ver |-> 0, adds |-> {}, gone |-> {}]

\* The request of the sync thread is handled; its answer may be lost, which
\* the daemon sees as an expired deadline.
HandleCall ==
  /\ sync = "rpc"
  /\ LET r == Reconcile(call) IN
     /\ wrk' = r.wrk /\ rows' = r.rows /\ cache' = r.cache
     /\ late' = Meanwhile(late, r.rows, Accepts(call))
     /\ \/ reply' = r.reply /\ UNCHANGED budget
        \/ reply' = ErrorReply /\ Spend("lost")
  /\ sync' = "reply"
  /\ UNCHANGED <<dmnVars, call, hb, regs>>

\* The transaction of an accepted request fails at COMMIT: nothing is stored,
\* but _write_reconcile_noop_cache has run inside the transaction.
HandleCallCommitFails ==
  /\ sync = "rpc" /\ Accepts(call) /\ Spend("commit")
  /\ LET r == Reconcile(call) IN cache' = [r.cache EXCEPT !.fresh = (r.rows = rows)]
  /\ reply' = ErrorReply /\ sync' = "reply"
  /\ UNCHANGED <<wrk, rows, dmnVars, call, late, hb, regs>>

\* execute_rpc_with_retry: an attempt runs into its deadline while its request
\* is still at the Global Store; the same request is sent again, or the call
\* fails.
AttemptExpires ==
  /\ sync = "rpc" /\ late = Null /\ Spend("lost")
  /\ late' = call
  /\ \/ UNCHANGED <<sync, reply>>
     \/ sync' = "reply" /\ reply' = ErrorReply
  /\ UNCHANGED <<gsVars, dmnVars, call, hb, regs>>

\* The earlier copy is handled, with nobody to read the answer, or is dropped.
HandleLate ==
  /\ late # Null
  /\ LET r == Reconcile(late) IN
     /\ wrk' = r.wrk /\ rows' = r.rows /\ cache' = r.cache
     /\ call' = Meanwhile(call, r.rows, FALSE)
  /\ late' = Null
  /\ UNCHANGED <<dmnVars, sync, reply, hb, regs, budget>>
DropLate ==
  /\ late # Null /\ late' = Null
  /\ UNCHANGED <<gsVars, dmnVars, syncVars, hb, regs, budget>>
-----------------------------------------------------------------------------
(* The daemon's state-sync thread: perform_state_sync.                       *)

TakeToken ==
  /\ sync = "idle" /\ pending /\ dmn.seq < MaxSeq
  /\ pending' = FALSE /\ sync' = "token"
  /\ call' = [gen |-> dmn.gen, seq |-> dmn.seq + 1, inv |-> local, young |-> {}, over |-> FALSE,
              torn |-> hb = "registered"]
  /\ UNCHANGED <<gsVars, local, dmn, missing, prefetch, reply, late, hb, regs, budget>>
SendCallForgets ==
  /\ sync = "token" /\ sync' = "rpc" /\ call' = Null
  /\ UNCHANGED <<gsVars, dmnVars, reply, late, hb, regs, budget>>
SendCall ==
  /\ sync = "token" /\ sync' = "rpc"
  /\ UNCHANGED <<gsVars, dmnVars, call, reply, late, hb, regs, budget>>

\* The answer of a served request advances state_sync_request_id_ by compare
\* and swap, whatever generation it was read with; the cursor and the version
\* are stored, ADD_REPLICA hands the key to the executor, and a key the server
\* lacks is retired when a second answer in a row says so.
AckNever == [dmn EXCEPT !.ver = reply.ver]
Ack == [dmn EXCEPT !.seq = IF @ + 1 = call.seq THEN call.seq ELSE @, !.ver = reply.ver]

ProcessReply ==
  /\ sync = "reply"
  /\ LET served == reply.kind \notin {"ERROR", "RETRY"}
         seen == {k \in reply.gone : local[k] # "none"}
         retired == {k \in seen : missing[k] = 1}
     IN /\ pending' = (pending \/ ~served)
        /\ dmn' = IF served THEN Ack ELSE dmn
        /\ missing' = IF reply.kind \in {"APPLIED", "NOOP", "REBASE"}
                      THEN [k \in Keys |-> IF k \in seen \ retired THEN 1 ELSE 0]
                      ELSE missing
        /\ local' = [k \in Keys |-> IF k \in retired THEN "none" ELSE local[k]]
        /\ prefetch' = prefetch \cup reply.adds
  /\ sync' = "idle" /\ call' = Null /\ reply' = Null
  /\ UNCHANGED <<gsVars, late, hb, regs, budget>>

\* materialize_replica of an ADD_REPLICA: loads the copy unless it is there or
\* the load fails.
RunPrefetch(k) ==
  /\ k \in prefetch /\ prefetch' = prefetch \ {k}
  /\ \/ UNCHANGED <<local, pending>>
     \/ local[k] = "none" /\ local' = [local EXCEPT ![k] = "up"] /\ pending' = TRUE
  /\ UNCHANGED <<gsVars, dmn, missing, syncVars, late, hb, regs, budget>>

\* A copy is loaded, evicted or becomes unavailable; kReplicaLoaded and
\* kReplicaEvicted request a sync.
Change(k, c) ==
  /\ c # local[k] /\ Spend("change")
  /\ local' = [local EXCEPT ![k] = c]
  /\ pending' = (pending \/ c # "down")
  /\ UNCHANGED <<gsVars, dmn, missing, prefetch, syncVars, late, hb, regs>>
-----------------------------------------------------------------------------
(* The heartbeat thread, and the calls that change the rows beside it.       *)

\* heartbeat_loop and _handle_enhanced_heartbeat: an inactive worker is not
\* found; otherwise a lower version, another checksum (the stored one where
\* there is one) or a copy without a row requests a sync.
Heartbeat ==
  /\ hb = "ok"
  /\ IF wrk.active
     THEN /\ pending' = \/ pending
                        \/ dmn.ver # wrk.ver
                        \/ local # (IF wrk.sum = Null THEN rows ELSE wrk.sum)
                        \/ \E k \in Keys : local[k] # "none" /\ rows[k] = "none"
          /\ hb' = hb
     ELSE hb' = "lost" /\ UNCHANGED pending
  /\ UNCHANGED <<gsVars, local, dmn, missing, prefetch, syncVars, late, regs, budget>>

\* register_worker of a worker that is known: the generation goes up, an
\* inactive worker also starts over with its version and checksum and its
\* rows are marked unavailable (without touching updated_at).
Registered ==
  [wrk EXCEPT !.gen = @ + 1, !.seq = 0, !.active = TRUE,
              !.ver = IF wrk.active THEN @ ELSE 1, !.sum = IF wrk.active THEN @ ELSE Null]
AllDown == [k \in Keys |-> IF rows[k] = "none" THEN "none" ELSE "down"]

\* reregister_worker: RegisterWorker under worker_control_plane_rpc_mu_, then
\* the generation, and after it state_sync_request_id_, are stored.
RegisterWorker ==
  /\ hb = "lost" /\ sync # "rpc"
  /\ wrk' = Registered /\ rows' = IF wrk.active THEN rows ELSE AllDown
  /\ \/ /\ hb' = "registered" /\ dmn' = [dmn EXCEPT !.gen = wrk.gen + 1, !.ver = wrk'.ver]
        /\ UNCHANGED budget
     \/ hb' = "ok" /\ UNCHANGED dmn /\ Spend("lost")
  /\ UNCHANGED <<cache, local, pending, missing, prefetch, syncVars, late, regs>>
ResetRequestId ==
  /\ hb = "registered" /\ hb' = "ok"
  /\ dmn' = [dmn EXCEPT !.seq = 0] /\ pending' = TRUE
  /\ UNCHANGED <<gsVars, local, missing, prefetch, syncVars, late, regs, budget>>

\* cleanup_inactive_workers: the worker is inactive, its rows unavailable.
Expire ==
  /\ wrk.active /\ Spend("expire")
  /\ wrk' = [wrk EXCEPT !.active = FALSE] /\ rows' = AllDown
  /\ UNCHANGED <<cache, dmnVars, syncVars, late, hb, regs>>

\* A restart of the Global Store: the cache and the requests in it are gone,
\* initiate_recovery marks every row stale and unavailable.
Restart ==
  /\ Spend("restart")
  /\ cache' = Null /\ rows' = AllDown /\ late' = Null
  /\ IF sync = "rpc" THEN sync' = "reply" /\ reply' = ErrorReply ELSE UNCHANGED <<sync, reply>>
  /\ UNCHANGED <<wrk, dmnVars, call, hb, regs>>

\* MetadataGateway::register_replica announces a loaded copy; the row is
\* created, or updated, when the call is handled.
StartRegister(k) ==
  /\ local[k] = "up" /\ k \notin regs /\ Spend("register")
  /\ regs' = regs \cup {k}
  /\ UNCHANGED <<gsVars, dmnVars, syncVars, late, hb>>
HandleRegister(k) ==
  /\ k \in regs /\ regs' = regs \ {k}
  /\ rows' = [rows EXCEPT ![k] = "up"]
  /\ cache' = IF cache = Null THEN Null ELSE [cache EXCEPT !.fresh = FALSE]
  /\ call' = Meanwhile(call, rows', FALSE) /\ late' = Meanwhile(late, rows', FALSE)
  /\ UNCHANGED <<wrk, dmnVars, sync, reply, hb, budget>>
-----------------------------------------------------------------------------
Next ==
  \/ HandleCall \/ HandleCallCommitFails \/ AttemptExpires \/ HandleLate \/ DropLate
  \/ TakeToken \/ SendCall \/ ProcessReply
  \/ Heartbeat \/ RegisterWorker \/ ResetRequestId
  \/ Expire \/ Restart
  \/ \E k \in Keys : \/ RunPrefetch(k) \/ StartRegister(k) \/ HandleRegister(k)
                     \/ \E c \in Copies : Change(k, c)

\* The two daemon threads keep running, the executor runs what it is given and
\* the Global Store handles the calls that reach it.  The sync thread sleeps
\* between failed attempts, so the mutex is not kept from the heartbeat thread.
Fairness ==
  /\ WF_vars(TakeToken) /\ WF_vars(SendCall) /\ WF_vars(ProcessReply)
  /\ WF_vars(HandleCall) /\ WF_vars(Heartbeat)
  /\ SF_vars(RegisterWorker) /\ WF_vars(ResetRequestId)
  /\ \A k \in Keys : WF_vars(RunPrefetch(k)) /\ WF_vars(HandleRegister(k))

Spec == Init /\ [][Next]_vars /\ Fairness
-----------------------------------------------------------------------------
(* Properties.                                                               *)

\* The snapshot whose transaction commits in this step, if there is one.
TakenNow ==
  {m \in {call, late} \ {Null} :
     /\ Accepts(m) /\ wrk'.seq = m.seq
     /\ \/ m = call /\ sync = "rpc" /\ sync' = "reply"
        \/ m = late /\ late' = Null}

\* An old inventory never replaces a newer one: a snapshot that is accepted
\* was collected after every snapshot accepted before it, however requests
\* are resent, delayed and retried with the same token, and across
\* re-registrations and restarts.  The one exception is a torn token, which
\* may be two ahead of the cursor and so be accepted after a newer snapshot.
AppliedInOrderStep == \A m \in TakenNow : m.over => m.torn

\* The no-op cache never vouches for a copy whose row is gone or says
\* something else: where the comparison of a new snapshot with the cache
\* succeeds, every copy that it lists is already in the rows as listed.
NoopCacheSound ==
  \A i \in Inventory :
     LET m == [gen |-> wrk.gen, seq |-> wrk.seq + 1, inv |-> i, young |-> {}, over |-> FALSE,
               torn |-> FALSE]
     IN  (wrk.active /\ NoopCacheHit(m)) =>
           \A k \in Keys : i[k] # "none" => rows[k] = i[k]

\* The daemon's request cursor is never ahead of the one the Global Store
\* stores for the generation they share; ahead of it, every later request is
\* refused as a gap.
CursorNotAhead == (dmn.gen = wrk.gen /\ hb = "ok") => dmn.seq <= wrk.seq

\* A snapshot is the source of truth: once it is accepted, a row that it does
\* not list is gone, unless the row was created after it was collected.
SnapshotAuthoritative ==
  [][\A m \in TakenNow, k \in Keys :
       m.inv[k] = "none" => rows'[k] = "none" \/ k \in m.young]_vars

\* An accepted snapshot without entries removes no row.
EmptySnapshotRemovesNothing ==
  [][\A m \in TakenNow, k \in Keys :
       (\A j \in Keys : m.inv[j] = "none") => (rows[k] # "none" => rows'[k] # "none")]_vars

\* When local changes, losses and failures stop, the rows come to agree with
\* the copies the daemon holds, and stay so.
Converges == <>[](wrk.active /\ rows = local)
=============================================================================

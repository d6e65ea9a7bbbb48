------------------------- MODULE TransportScheduler -------------------------
(***************************************************************************)
(* The transport scheduler of the Global Store: the queue of pending       *)
(* transport requests, the transports leased on source replicas, and the   *)
(* per-replica request counters that bound the load of a source.           *)
(*                                                                         *)
(* Every database transaction of the code runs under one process-wide      *)
(* lock (repositories/base.py, transaction()), so a transaction is one     *)
(* action here.  Statements issued outside a transaction interleave with   *)
(* the transactions of other callers, so each is an action of its own.     *)
(* One artifact is modelled.  A request for a view may fall back on the    *)
(* canonical replicas of the artifact.                                     *)
(***************************************************************************)
EXTENDS Integers, FiniteSets

CONSTANTS
  Requests,        \* idempotency keys (request_id)
  Payloads,        \* what a request asks for: [view, group, part, total]
  Uses,            \* the <<request, payload>> pairs that callers send
  Callers,         \* concurrent requesters, each with one call at a time
  Locations,       \* places that can hold a replica of the artifact
  LocationView,    \* the byte space that a location serves
  Canonical,       \* the canonical byte space
  Concurrency,     \* max_concurrency values that daemons register
  ReportedRefs,    \* current_requests values that daemon inventories report
  Outcomes,        \* completion outcomes that requesters report
  ScanLimit,       \* queue_scan_limit
  DispatchLimit,   \* dispatch_batch_limit
  MaxCalls,        \* bound: request_transport calls in a behaviour
  MaxIncarnations, \* bound: replica rows ever created for a location
  MaxRestarts,     \* bound: Global Store restarts
  Null             \* an SQL NULL, and the absence of a group

AllOutcomes == {"success", "failed", "expired", "cancelled"}
FailureOutcomes == {"failed", "expired", "cancelled"}

ASSUME ConstantsAssumption ==
  /\ IsFiniteSet(Requests)
  /\ Uses \subseteq Requests \X Payloads
  /\ Concurrency \subseteq Nat \ {0}
  /\ ReportedRefs \subseteq Nat
  /\ Outcomes \subseteq AllOutcomes
  /\ ScanLimit \in Nat \ {0}
  /\ DispatchLimit \in Nat \ {0}
  /\ MaxCalls \in Nat
  /\ MaxIncarnations \in Nat
  /\ MaxRestarts \in Nat
  /\ Null \notin Requests

\* Replica and transport ids are fresh UUIDs in the code.  Here the n-th row
\* of a location, and the n-th transport of a request, are told apart by n.
ReplicaId == Locations \X (Nat \ {0})
TransportId == Requests \X (Nat \ {0})

VARIABLES
  replica,        \* artifact_replicas: id -> [max, routable]
  counter,        \* replica_counters: id -> current_requests
  incarnation,    \* replica ids handed out so far, per location
  unregistering,  \* replicas between the two statements of delete()
  transport,      \* artifact_transports: id -> row
  attempts,       \* transport ids handed out so far, per request
  pending,        \* pending_transport_requests: request -> row
  aged,           \* transports older than the expiration threshold
  expiring,       \* what remains of the list that the cleanup pass read
  caller,         \* the handler thread and the requester behind it
  calls,          \* request_transport calls made so far
  restarts,       \* Global Store restarts so far
  opening         \* history: the value a counter row was inserted with,
                  \* for the counters inserted together with their replica

replicaVars == <<replica, counter, incarnation, unregistering, opening>>
requestVars == <<transport, attempts, pending>>
cleanupVars == <<aged, expiring>>
callerVars == <<caller, calls>>
vars == <<replicaVars, requestVars, cleanupVars, callerVars, restarts>>

-----------------------------------------------------------------------------
(* Rows and the reads that the code makes of them.                         *)

Without(f, S) == [x \in DOMAIN f \ S |-> f[x]]
With(f, x, v) == [y \in DOMAIN f \cup {x} |-> IF y = x THEN v ELSE f[y]]

ViewOf(r) == LocationView[r[1]]
RowsAt(l) == {r \in DOMAIN replica : r[1] = l}

\* find_by_request_id: the transports that still carry the request id.
Carriers(T, q) == {t \in DOMAIN T : T[t].request = q}

\* Mutant of TerminalFailed: the status is not looked at, so a transport that
\* has no outcome yet counts as failed.
TerminalFailedAnyStatus(row) == row.outcome # "success"

\* _is_terminal_failed_transport
TerminalFailed(row) ==
  row.status = "completed" /\ row.outcome \in FailureOutcomes

InFlight(r) ==
  {t \in DOMAIN transport :
     transport[t].replica = r /\ transport[t].status = "in_progress"}

EnqueuedIn(P) == {q \in DOMAIN P : P[q].state = "enqueued"}

\* get_current_requests, the reading WaitReplicaDrain polls: a replica
\* without a counter row reads as idle.
CurrentRequests(r) == IF r \in DOMAIN counter THEN counter[r] ELSE 0

\* _has_any_transport_route: rows count whether or not they are available.
RouteExists(view) == \E r \in DOMAIN replica : ViewOf(r) \in {view, Canonical}

-----------------------------------------------------------------------------
(* The steps inside the transactions.  T and P are the transport and the   *)
(* pending tables as the transaction has left them so far.                 *)

\* _reconcile_request_replay_state: a finished failed attempt gives up its
\* request id, and a pending row that stands for nothing is deleted.
RecycledTransports(T, q) ==
  [t \in DOMAIN T |-> IF T[t].request = q /\ TerminalFailed(T[t])
                        THEN [T[t] EXCEPT !.request = Null]
                        ELSE T[t]]

\* Mutant of RecycledPending: the stale row is not deleted.
RecycledPendingKept(T, P, q) == P

RecycledPending(T, P, q) ==
  IF /\ q \in DOMAIN P
     /\ P[q].state # "enqueued"
     /\ \A t \in Carriers(T, q) : TerminalFailed(T[t])
    THEN Without(P, {q})
    ELSE P

\* _validate_group_contract_with_cursor: two parts of one group agree on the
\* byte space and on total_parts, and differ in part_id.
Clash(a, b) ==
  /\ a.group # Null
  /\ a.group = b.group
  /\ a.view # b.view \/ a.total # b.total \/ a.part = b.part

\* Mutant of GroupConflict: the transport history is not searched.
GroupConflictQueueOnly(T, P, q, p) ==
  \E x \in EnqueuedIn(P) \ {q} : Clash(P[x].payload, p)

GroupConflict(T, P, q, p) ==
  \/ \E x \in EnqueuedIn(P) \ {q} : Clash(P[x].payload, p)
  \/ \E t \in DOMAIN T : T[t].request # q /\ Clash(T[t].payload, p)

\* The three ways the enqueue transaction raises ValidationError.
Refused(T, P, q, p) ==
  \/ q \in DOMAIN P /\ P[q].payload # p
  \/ GroupConflict(T, P, q, p)
  \/ \E t \in Carriers(T, q) : T[t].payload # p

\* create_if_absent_with_cursor of the pending table.
EnqueuedPending(P, q, p, d) ==
  IF q \in DOMAIN P
    THEN P
    ELSE With(P, q, [payload |-> p, state |-> "enqueued", deadline |-> d])

\* expire_enqueued_deadlines
ExpiredPending(P) ==
  [q \in DOMAIN P |-> IF P[q].state = "enqueued" /\ P[q].deadline = "passed"
                        THEN [P[q] EXCEPT !.state = "expired"]
                        ELSE P[q]]

\* A replica that find_available_for_transport accepts when only the load is
\* left to check.  The claim needs a counter row; the eligibility test, a
\* LEFT JOIN, does not.
Source(r, view) == replica[r].routable /\ ViewOf(r) = view
Claimable(C, r) == r \in DOMAIN C /\ C[r] < replica[r].max

\* Mutant of WithinConcurrency: the claim compares with <= in place of <.
WithinConcurrencyOffByOne(C, r) == C[r] <= replica[r].max + 1

\* What every claim made so far leaves true of its source.
WithinConcurrency(C, r) == C[r] <= replica[r].max

\* No replica of a byte space could be claimed for p once the load is C.  The
\* soft cap of a group may also pass over every claimable source in favour
\* of an eligible one whose claim then fails for want of a counter row.
Exhausted(C, p, view) ==
  \/ \A r \in DOMAIN replica : Source(r, view) => ~Claimable(C, r)
  \/ /\ p.group # Null
     /\ \E r \in DOMAIN replica : Source(r, view) /\ r \notin DOMAIN C

\* list_enqueued: the whole queue, or as much of it as one pass looks at.
Scans(P) ==
  {S \in SUBSET EnqueuedIn(P) :
     Cardinality(S) = ScanLimit \/ (S = EnqueuedIn(P) /\ Cardinality(S) < ScanLimit)}

\* _dispatch_pending_requests for the queued requests in scanned, of which it
\* serves those in served, each from its source in src.  The order of the
\* queue and the ranking of the sources depend on clocks and load weights: any
\* order and any source may win.  Claims only grow during the pass, so a
\* request is left in the queue, or served from a canonical replica in place
\* of its own byte space, exactly when nothing better is claimable at the end
\* of the pass.
Serve(T, P, scanned, served, src) ==
  LET opened == {<<q, attempts[q] + 1>> : q \in {x \in served : Carriers(T, x) = {}}}
      openedOn(r) == {t \in opened : src[t[1]] = r}
      load == [r \in DOMAIN counter |-> counter[r] + Cardinality(openedOn(r))]
  IN /\ Cardinality(served) <= DispatchLimit
     /\ \A q \in served :
          LET r == src[q] IN
          /\ r \in DOMAIN counter
          /\ replica[r].routable
          /\ WithinConcurrency(load, r)
          /\ \/ ViewOf(r) = P[q].payload.view
             \/ /\ ViewOf(r) = Canonical
                /\ Exhausted(load, P[q].payload, P[q].payload.view)
     /\ Cardinality(served) < DispatchLimit =>
          \A q \in scanned \ served :
            \A view \in {P[q].payload.view, Canonical} :
              Exhausted(load, P[q].payload, view)
     /\ counter' = load
     /\ transport' =
          [t \in DOMAIN T \cup opened |->
             IF t \in opened
               THEN [replica |-> src[t[1]], request |-> t[1],
                     payload |-> P[t[1]].payload,
                     status |-> "in_progress", outcome |-> Null]
               ELSE T[t]]
     /\ attempts' = [q \in Requests |->
          IF <<q, attempts[q] + 1>> \in opened THEN attempts[q] + 1 ELSE attempts[q]]
     /\ pending' = [q \in DOMAIN P |->
          IF q \in served THEN [P[q] EXCEPT !.state = "dispatched"] ELSE P[q]]

Dispatch(T, P) ==
  \E scanned \in Scans(P) : \E served \in SUBSET scanned :
    \E src \in [served -> DOMAIN replica] : Serve(T, P, scanned, served, src)

-----------------------------------------------------------------------------
(* request_transport: what a caller learns, and where it goes next.        *)
(*                                                                         *)
(*   find_replica   _resolve_existing_request found a transport            *)
(*   find_pending   _resolve_existing_request found none                   *)
(*   route          about to test for any route                            *)
(*   enqueue        about to run the enqueue transaction                   *)
(*   loop           at the top of the wait loop, whose first pass comes    *)
(*                  before its first deadline check                        *)
(*   read_transport, read_replica                                          *)
(*                  between the reads of a loop pass without the lock      *)
(*   check          at the deadline check at the end of a loop pass        *)
(*   transferring   answered with a replica and a transport                *)
(*   timed_out, rejected, not_found                                        *)
(*                  answered with an error                                 *)

Waiting == {"find_replica", "find_pending", "route", "enqueue", "loop",
            "read_transport", "read_replica", "check"}
Resting == {"idle", "timed_out", "rejected", "not_found"}
Holding == {"find_replica", "read_replica", "transferring"}

\* Mutant of Late: the deadline check is missing.
LateNever(c) == FALSE

\* time.time() >= timeout_deadline; a zero timeout is over from the start.
Late(c) == caller[c].wait # "running"

Answer(pc, found) == [pc |-> pc, found |-> found]

\* The source replica of a transport must still have its row.
AnswerFor(t, row, otherwise) ==
  IF row.replica \in DOMAIN replica
    THEN Answer("transferring", t)
    ELSE Answer(otherwise, Null)

\* The part of _resolve_pending_request_state that goes through the transport.
TransportAnswer(T, q, p, unresolved) ==
  IF Carriers(T, q) = {}
    THEN Answer(unresolved, Null)
    ELSE LET t == CHOOSE x \in Carriers(T, q) : TRUE IN
         IF TerminalFailed(T[t]) THEN Answer("timed_out", Null)
         ELSE IF T[t].payload # p THEN Answer("rejected", Null)
         ELSE Answer("read_replica", t)

\* _resolve_pending_request_state inside a transaction.
Resolution(T, P, q, p, unresolved) ==
  IF q \in DOMAIN P /\ P[q].state \in {"expired", "cancelled"}
    THEN Answer("timed_out", Null)
    ELSE IF q \in EnqueuedIn(P)
      THEN Answer(unresolved, Null)
      ELSE LET a == TransportAnswer(T, q, p, unresolved) IN
           IF a.pc = "read_replica" THEN AnswerFor(a.found, T[a.found], unresolved) ELSE a

IdleCaller == [pc |-> "idle", request |-> Null, payload |-> Null,
               wait |-> "zero", found |-> Null]

\* A caller that has its answer forgets the call, unless it has a transport
\* to complete.
Proceed(c, answer) ==
  caller' = [caller EXCEPT ![c] =
    IF answer.pc \in Resting
      THEN [IdleCaller EXCEPT !.pc = answer.pc]
      ELSE [@ EXCEPT !.pc = answer.pc, !.found = answer.found]]

\* Mutant of ExistingAnswer: the fingerprint of the transport is not compared.
ExistingAnswerUnchecked(q, p) ==
  IF Carriers(transport, q) = {}
    THEN Answer("find_pending", Null)
    ELSE LET t == CHOOSE x \in Carriers(transport, q) : TRUE IN
         IF TerminalFailed(transport[t])
           THEN Answer("route", Null)
           ELSE Answer("find_replica", t)

\* The first read of _resolve_existing_request.
ExistingAnswer(q, p) ==
  IF Carriers(transport, q) = {}
    THEN Answer("find_pending", Null)
    ELSE LET t == CHOOSE x \in Carriers(transport, q) : TRUE IN
         IF TerminalFailed(transport[t]) THEN Answer("route", Null)
         ELSE IF transport[t].payload # p THEN Answer("rejected", Null)
         ELSE Answer("find_replica", t)

\* request_transport up to that read.
StartRequest(c, q, p, wait) ==
  /\ caller[c].pc \in Resting
  /\ calls < MaxCalls
  /\ calls' = calls + 1
  /\ LET a == ExistingAnswer(q, p)
     IN caller' = [caller EXCEPT ![c] =
          IF a.pc = "rejected"
            THEN [IdleCaller EXCEPT !.pc = "rejected"]
            ELSE [pc |-> a.pc, request |-> q, payload |-> p, wait |-> wait,
                  found |-> a.found]]
  /\ UNCHANGED <<replicaVars, requestVars, cleanupVars, restarts>>

FindReplica(c) ==
  /\ caller[c].pc = "find_replica"
  /\ Proceed(c, AnswerFor(caller[c].found, transport[caller[c].found], "route"))
  /\ UNCHANGED <<replicaVars, requestVars, cleanupVars, calls, restarts>>

FindPending(c) ==
  /\ caller[c].pc = "find_pending"
  /\ LET q == caller[c].request IN
     Proceed(c, IF q \in EnqueuedIn(pending) /\ pending[q].payload # caller[c].payload
                  THEN Answer("rejected", Null)
                  ELSE Answer("route", Null))
  /\ UNCHANGED <<replicaVars, requestVars, cleanupVars, calls, restarts>>

CheckRoute(c) ==
  /\ caller[c].pc = "route"
  /\ Proceed(c, IF RouteExists(caller[c].payload.view)
                  THEN Answer("enqueue", Null)
                  ELSE Answer("not_found", Null))
  /\ UNCHANGED <<replicaVars, requestVars, cleanupVars, calls, restarts>>

\* deadline_at is computed after the caller's own deadline, so the row is
\* inserted overdue only by a caller that is late itself.
RowDeadlines(c) ==
  {d \in {"none", "ahead", "passed"} :
     /\ d = "none" <=> caller[c].wait = "zero"
     /\ d = "passed" => caller[c].wait = "over"}

\* _enqueue_and_attempt_initial_dispatch when it raises: nothing is kept.
EnqueueRefused(c) ==
  LET q == caller[c].request
      T == RecycledTransports(transport, q)
      P == RecycledPending(transport, pending, q)
  IN /\ caller[c].pc = "enqueue"
     /\ Refused(T, P, q, caller[c].payload)
     /\ Proceed(c, Answer("rejected", Null))
     /\ UNCHANGED <<replicaVars, requestVars, cleanupVars, calls, restarts>>

\* _enqueue_and_attempt_initial_dispatch when the request already has a
\* transport on a registered replica: the caller joins it.
EnqueueJoins(c) ==
  LET q == caller[c].request
      p == caller[c].payload
      T == RecycledTransports(transport, q)
      P == RecycledPending(transport, pending, q)
  IN /\ caller[c].pc = "enqueue"
     /\ ~Refused(T, P, q, p)
     /\ \E t \in Carriers(T, q) :
          /\ T[t].replica \in DOMAIN replica
          /\ Proceed(c, Answer("transferring", t))
     /\ transport' = T
     /\ \E d \in RowDeadlines(c) : pending' = EnqueuedPending(P, q, p, d)
     /\ UNCHANGED <<replicaVars, attempts, cleanupVars, calls, restarts>>

\* _enqueue_and_attempt_initial_dispatch otherwise.
EnqueueAndDispatch(c) ==
  LET q == caller[c].request
      p == caller[c].payload
      T == RecycledTransports(transport, q)
      P == RecycledPending(transport, pending, q)
  IN /\ caller[c].pc = "enqueue"
     /\ ~Refused(T, P, q, p)
     /\ \A t \in Carriers(T, q) : T[t].replica \notin DOMAIN replica
     /\ \E d \in RowDeadlines(c) : Dispatch(T, ExpiredPending(EnqueuedPending(P, q, p, d)))
     /\ Proceed(c, Resolution(transport', pending', q, p, "loop"))
     /\ UNCHANGED <<replica, incarnation, unregistering, opening, cleanupVars,
                    calls, restarts>>

\* A pass of the wait loop by the caller that gets the dispatch lock.
DispatchPass(c) ==
  /\ caller[c].pc = "loop"
  /\ Dispatch(transport, ExpiredPending(pending))
  /\ LET a == Resolution(transport', pending', caller[c].request, caller[c].payload, "check")
     IN a.pc # "rejected" /\ Proceed(c, a)
  /\ UNCHANGED <<replica, incarnation, unregistering, opening, cleanupVars,
                 calls, restarts>>

\* Such a pass when it raises, because the id now stands for another payload:
\* either it does already, or the queued row does and the pass serves it.  The
\* transaction is rolled back, with all that the pass dispatched.
DispatchPassRefused(c) ==
  LET q == caller[c].request
      p == caller[c].payload
      P == ExpiredPending(pending)
  IN /\ caller[c].pc = "loop"
     /\ \/ Resolution(transport, P, q, p, "check").pc = "rejected"
        \/ /\ q \in EnqueuedIn(P)
           /\ P[q].payload # p
           /\ \E r \in DOMAIN replica :
                /\ replica[r].routable
                /\ Claimable(counter, r)
                /\ ViewOf(r) \in {P[q].payload.view, Canonical}
     /\ Proceed(c, Answer("rejected", Null))
     /\ UNCHANGED <<replicaVars, requestVars, cleanupVars, calls, restarts>>

\* A pass without the lock, which any other request or completion may hold:
\* three reads, in no transaction.
ReadPending(c) ==
  /\ caller[c].pc = "loop"
  /\ LET q == caller[c].request IN
     Proceed(c, IF q \in EnqueuedIn(pending) THEN Answer("check", Null)
                ELSE IF q \in DOMAIN pending /\ pending[q].state \in {"expired", "cancelled"}
                  THEN Answer("timed_out", Null)
                ELSE Answer("read_transport", Null))
  /\ UNCHANGED <<replicaVars, requestVars, cleanupVars, calls, restarts>>

ReadTransport(c) ==
  /\ caller[c].pc = "read_transport"
  /\ Proceed(c, TransportAnswer(transport, caller[c].request, caller[c].payload, "check"))
  /\ UNCHANGED <<replicaVars, requestVars, cleanupVars, calls, restarts>>

ReadReplica(c) ==
  /\ caller[c].pc = "read_replica"
  /\ Proceed(c, AnswerFor(caller[c].found, transport[caller[c].found], "check"))
  /\ UNCHANGED <<replicaVars, requestVars, cleanupVars, calls, restarts>>

\* The deadline check.  mark_cancelled is a statement of its own, and whether
\* it changed the row is not looked at.
KeepWaiting(c) ==
  /\ caller[c].pc = "check"
  /\ ~Late(c)
  /\ Proceed(c, Answer("loop", Null))
  /\ UNCHANGED <<replicaVars, requestVars, cleanupVars, calls, restarts>>

CancelledPending(P, q) ==
  IF q \in EnqueuedIn(P) THEN [P EXCEPT ![q].state = "cancelled"] ELSE P

GiveUp(c) ==
  /\ caller[c].pc = "check"
  /\ Late(c)
  /\ pending' = CancelledPending(pending, caller[c].request)
  /\ Proceed(c, Answer("timed_out", Null))
  /\ UNCHANGED <<replicaVars, transport, attempts, cleanupVars, calls, restarts>>

\* Time: a caller's timeout_deadline, and the deadline_at of a row, pass.
CallerDeadline(c) ==
  /\ caller[c].pc \in Waiting
  /\ caller[c].wait = "running"
  /\ caller' = [caller EXCEPT ![c].wait = "over"]
  /\ UNCHANGED <<replicaVars, requestVars, cleanupVars, calls, restarts>>

RowDeadline(q) ==
  /\ q \in EnqueuedIn(pending)
  /\ pending[q].deadline = "ahead"
  /\ pending' = [pending EXCEPT ![q].deadline = "passed"]
  /\ UNCHANGED <<replicaVars, transport, attempts, cleanupVars, callerVars, restarts>>

-----------------------------------------------------------------------------
(* Completion of a transport, by its requester or by the cleanup pass.     *)

\* Mutant of CompletedTransports: the row is written whatever its status.
CompletedTransportsAnyStatus(T, t, outcome) ==
  [T EXCEPT ![t].status = "completed", ![t].outcome = outcome]

\* complete_if_in_progress
CompletedTransports(T, t, outcome) ==
  IF T[t].status = "in_progress"
    THEN [T EXCEPT ![t].status = "completed", ![t].outcome = outcome]
    ELSE T

\* Mutant of Released: no floor at zero.
ReleasedUnfloored(C, r) ==
  IF r \in DOMAIN C THEN [C EXCEPT ![r] = @ - 1] ELSE C

\* decrement_requests_with_cursor: floored at zero, no row no change.
Released(C, r) ==
  IF r \in DOMAIN C
    THEN [C EXCEPT ![r] = IF @ > 0 THEN @ - 1 ELSE 0]
    ELSE C

\* Mutant of CompleteInTx: every completion releases.
CompleteInTxAlwaysReleases(t, outcome) ==
  /\ transport' = CompletedTransports(transport, t, outcome)
  /\ counter' = Released(counter, transport[t].replica)
  /\ aged' = aged \ {t}

\* _complete_transport_in_single_tx: only the completion that closed the
\* transport releases its source.
CompleteInTx(t, outcome) ==
  /\ transport' = CompletedTransports(transport, t, outcome)
  /\ counter' = IF transport[t].status = "in_progress"
                  THEN Released(counter, transport[t].replica)
                  ELSE counter
  /\ aged' = aged \ {t}

\* complete_transport.  The requester may repeat the call when it does not
\* see the response.
CompleteTransport(c, outcome) ==
  /\ caller[c].pc = "transferring"
  /\ CompleteInTx(caller[c].found, outcome)
  /\ \E next \in {"idle", "transferring"} : Proceed(c, Answer(next, caller[c].found))
  /\ UNCHANGED <<replica, incarnation, unregistering, opening, attempts, pending,
                 expiring, calls, restarts>>

\* The requester dies, or its completion never arrives.
LoseRequester(c) ==
  /\ caller[c].pc = "transferring"
  /\ Proceed(c, Answer("idle", Null))
  /\ UNCHANGED <<replicaVars, requestVars, cleanupVars, calls, restarts>>

TransportAges(t) ==
  /\ t \notin aged
  /\ transport[t].status = "in_progress"
  /\ aged' = aged \cup {t}
  /\ UNCHANGED <<replicaVars, requestVars, expiring, callerVars, restarts>>

\* Mutant of CleanupList: a join with the replica table hides the transports
\* whose source was unregistered.
CleanupListRegistered ==
  /\ expiring = {}
  /\ expiring' = {t \in aged : transport[t].replica \in DOMAIN replica}
  /\ UNCHANGED <<replicaVars, requestVars, aged, callerVars, restarts>>

\* cleanup_expired_transports reads its list outside a transaction and then
\* completes the listed transports one by one.
CleanupList ==
  /\ expiring = {}
  /\ expiring' = aged
  /\ UNCHANGED <<replicaVars, requestVars, aged, callerVars, restarts>>

CleanupExpire(t) ==
  /\ t \in expiring
  /\ CompleteInTx(t, "expired")
  /\ expiring' = expiring \ {t}
  /\ UNCHANGED <<replica, incarnation, unregistering, opening, attempts, pending,
                 callerVars, restarts>>

-----------------------------------------------------------------------------
(* Replica rows and their counters.                                        *)

\* create_or_update_atomic for a location without a row.
InsertReplica(l, max, routable, refs) ==
  LET r == <<l, incarnation[l] + 1>> IN
  /\ RowsAt(l) = {}
  /\ incarnation[l] < MaxIncarnations
  /\ incarnation' = [incarnation EXCEPT ![l] = @ + 1]
  /\ replica' = With(replica, r, [max |-> max, routable |-> routable])
  /\ counter' = With(counter, r, refs)
  /\ opening' = With(opening, r, refs)
  /\ UNCHANGED <<unregistering, requestVars, cleanupVars, callerVars, restarts>>

\* create_or_update_atomic for a location that has one.  An existing counter
\* row is kept, a missing one is inserted.
UpdateReplica(l, max, routable, refs) ==
  \E r \in RowsAt(l) :
    /\ replica' = [replica EXCEPT ![r] = [max |-> max, routable |-> routable]]
    /\ counter' = IF r \in DOMAIN counter THEN counter ELSE With(counter, r, refs)
    /\ UNCHANGED <<incarnation, unregistering, opening, requestVars, cleanupVars,
                   callerVars, restarts>>

\* register_replica: a registration carries no request count.
RegisterReplica(l, max, routable) ==
  InsertReplica(l, max, routable, 0) \/ UpdateReplica(l, max, routable, 0)

\* The changes that reconcile_worker_state applies for a daemon's inventory.
\* An added replica takes the reported request count; it meets a row of its
\* location when that row still belongs to an earlier registration of the
\* worker.  An update writes the row's own max_concurrency back and leaves the
\* counter table alone.  It also stands for a worker's heartbeat lapsing or
\* returning, which makes its replicas unroutable or routable.
ReconcileAdd(l, max, routable, refs) ==
  InsertReplica(l, max, routable, refs) \/ UpdateReplica(l, max, routable, refs)

ReconcileUpdate(r, routable) ==
  /\ replica' = [replica EXCEPT ![r].routable = routable]
  /\ UNCHANGED <<counter, incarnation, unregistering, opening, requestVars,
                 cleanupVars, callerVars, restarts>>

ReconcileRemove(r) ==
  /\ counter' = Without(counter, {r})
  /\ replica' = Without(replica, {r})
  /\ opening' = Without(opening, {r})
  /\ UNCHANGED <<incarnation, unregistering, requestVars, cleanupVars, callerVars,
                 restarts>>

\* mark_replica_unavailable
MarkReplicaUnavailable(r) ==
  /\ replica' = [replica EXCEPT ![r].routable = FALSE]
  /\ UNCHANGED <<counter, incarnation, unregistering, opening, requestVars,
                 cleanupVars, callerVars, restarts>>

\* unregister_replica calls delete(): two statements in no transaction.
UnregisterCounter(r) ==
  /\ r \notin unregistering
  /\ counter' = Without(counter, {r})
  /\ opening' = Without(opening, {r})
  /\ unregistering' = unregistering \cup {r}
  /\ UNCHANGED <<replica, incarnation, requestVars, cleanupVars, callerVars, restarts>>

UnregisterRow(r) ==
  /\ r \in unregistering
  /\ replica' = Without(replica, {r})
  /\ unregistering' = unregistering \ {r}
  /\ UNCHANGED <<counter, incarnation, opening, requestVars, cleanupVars, callerVars,
                 restarts>>

\* The Global Store process dies and comes back: the tables survive, handler
\* threads and the cleanup list do not, and initiate_recovery marks every
\* replica unavailable until its daemon reports again.
Restart ==
  /\ restarts < MaxRestarts
  /\ restarts' = restarts + 1
  /\ replica' = [r \in DOMAIN replica |-> [replica[r] EXCEPT !.routable = FALSE]]
  /\ unregistering' = {}
  /\ expiring' = {}
  /\ caller' = [c \in Callers |->
       IF caller[c].pc \in Waiting
         THEN IdleCaller
         ELSE caller[c]]
  /\ UNCHANGED <<counter, incarnation, opening, requestVars, aged, calls>>

-----------------------------------------------------------------------------

EmptyTable == [x \in {} |-> Null]

Init ==
  /\ replica = EmptyTable
  /\ counter = EmptyTable
  /\ incarnation = [l \in Locations |-> 0]
  /\ unregistering = {}
  /\ transport = EmptyTable
  /\ attempts = [q \in Requests |-> 0]
  /\ pending = EmptyTable
  /\ aged = {}
  /\ expiring = {}
  /\ caller = [c \in Callers |-> IdleCaller]
  /\ calls = 0
  /\ restarts = 0
  /\ opening = EmptyTable

\* The steps of the handler thread that serves a call.
Handle(c) ==
  \/ FindReplica(c)
  \/ FindPending(c)
  \/ CheckRoute(c)
  \/ EnqueueRefused(c)
  \/ EnqueueJoins(c)
  \/ EnqueueAndDispatch(c)
  \/ DispatchPass(c)
  \/ DispatchPassRefused(c)
  \/ ReadPending(c)
  \/ ReadTransport(c)
  \/ ReadReplica(c)
  \/ KeepWaiting(c)
  \/ GiveUp(c)

Start(c) ==
  \E use \in Uses : \E wait \in {"zero", "running"} :
    StartRequest(c, use[1], use[2], wait)

RequestNext ==
  \/ \E c \in Callers : Start(c) \/ Handle(c) \/ CallerDeadline(c)
  \/ \E q \in Requests : RowDeadline(q)

CompletionNext ==
  \/ \E c \in Callers : LoseRequester(c) \/ \E o \in Outcomes : CompleteTransport(c, o)
  \/ \E t \in DOMAIN transport : TransportAges(t)
  \/ CleanupList
  \/ \E t \in expiring : CleanupExpire(t)

ReplicaNext ==
  \/ \E l \in Locations, max \in Concurrency, b \in BOOLEAN :
       RegisterReplica(l, max, b) \/ \E refs \in ReportedRefs : ReconcileAdd(l, max, b, refs)
  \/ \E r \in DOMAIN replica :
       \/ \E b \in BOOLEAN : ReconcileUpdate(r, b)
       \/ ReconcileRemove(r)
       \/ MarkReplicaUnavailable(r)
       \/ UnregisterCounter(r)
  \/ \E r \in unregistering : UnregisterRow(r)

Next == RequestNext \/ CompletionNext \/ ReplicaNext \/ Restart

Spec == Init /\ [][Next]_vars

\* Handler threads run until they answer and the clock moves; the maintenance
\* loop runs for as long as the process does.
Fairness ==
  /\ \A c \in Callers : WF_vars(Handle(c)) /\ WF_vars(CallerDeadline(c))
  /\ WF_vars(\E t \in DOMAIN transport : TransportAges(t))
  /\ WF_vars(CleanupList)
  /\ WF_vars(\E t \in expiring : CleanupExpire(t))

FairSpec == Spec /\ Fairness

-----------------------------------------------------------------------------
(* Properties.                                                             *)

ReplicaRow == [max : Concurrency, routable : BOOLEAN]

TransportRow ==
  [replica : ReplicaId, request : Requests \cup {Null}, payload : Payloads,
   status : {"in_progress", "completed"}, outcome : AllOutcomes \cup {Null}]

PendingRow ==
  [payload : Payloads,
   state : {"enqueued", "dispatched", "expired", "cancelled"},
   deadline : {"none", "ahead", "passed"}]

CallerState ==
  [pc : Waiting \cup Resting \cup {"transferring"}, request : Requests \cup {Null},
   payload : Payloads \cup {Null}, wait : {"zero", "running", "over"},
   found : TransportId \cup {Null}]

ReplicaTypeOK ==
  /\ DOMAIN replica \subseteq ReplicaId
  /\ \A r \in DOMAIN replica : replica[r] \in ReplicaRow
  /\ DOMAIN counter \subseteq ReplicaId
  /\ \A r \in DOMAIN counter : counter[r] \in Nat
  /\ incarnation \in [Locations -> Nat]
  /\ unregistering \subseteq ReplicaId
  /\ DOMAIN opening \subseteq DOMAIN counter
  /\ \A r \in DOMAIN opening : opening[r] \in Nat
  /\ restarts \in Nat

RequestTypeOK ==
  /\ DOMAIN transport \subseteq TransportId
  /\ \A t \in DOMAIN transport : transport[t] \in TransportRow
  /\ attempts \in [Requests -> Nat]
  /\ DOMAIN pending \subseteq Requests
  /\ \A q \in DOMAIN pending : pending[q] \in PendingRow
  /\ aged \subseteq DOMAIN transport
  /\ expiring \subseteq DOMAIN transport

CallerTypeOK ==
  /\ caller \in [Callers -> CallerState]
  /\ \A c \in Callers :
       /\ caller[c].pc \notin Resting =>
            caller[c].request \in Requests /\ caller[c].payload \in Payloads
       /\ caller[c].pc \in Holding =>
            caller[c].found \in DOMAIN transport
  /\ calls \in Nat

\* Every table maps ids it has handed out to rows of its schema, and every id
\* remembered in memory (the cleanup list, a caller's transport) is that of a
\* row the tables hold.
TypeOK == ReplicaTypeOK /\ RequestTypeOK /\ CallerTypeOK

\* Conservation of source quota: the counter of a replica is the value it was
\* inserted with plus one for every transport in flight from it.  No order of
\* dispatches, repeated or late completions, cleanup expiries, replays and
\* restarts loses or doubles a release, and the floor at zero is never what
\* decides.  Counters that a registration re-created after delete() had
\* removed them are outside the claim.
\* Claim: replica_repository.py find_available_for_transport.
\* Release: transport_service.py _complete_transport_in_single_tx.
QuotaConserved ==
  \A r \in DOMAIN opening : counter[r] = opening[r] + Cardinality(InFlight(r))

\* A new transport is placed on a replica only within the max_concurrency the
\* replica has at that moment, counted in transports rather than in counter
\* values, although max_concurrency may be lowered under running transports.
\* Same exception as QuotaConserved.
PlacedWithinConcurrency ==
  [][\A r \in DOMAIN opening :
       ~(InFlight(r)' \subseteq InFlight(r)) =>
         Cardinality(InFlight(r)') <= replica[r].max]_vars

\* The two tables that record the fate of a request agree between any two
\* transactions: a transport carries the request id exactly while the pending
\* row says dispatched.  So dispatch never meets an existing transport (the
\* claim_rollback branches of _dispatch_pending_requests are never taken), and
\* a cancelled or expired row never hides one.
DispatchedIffCarried ==
  \A q \in Requests :
    (Carriers(transport, q) # {}) <=> (q \in DOMAIN pending /\ pending[q].state = "dispatched")

\* The request id is an idempotency key: however often a request is sent,
\* replayed, abandoned and recycled, it holds at most one source at a time.
\* transport_service.py _reconcile_request_replay_state may free the id only
\* of a finished transport.
OneLeasePerRequest ==
  \A t, u \in DOMAIN transport :
    /\ t[1] = u[1]
    /\ transport[t].status = "in_progress"
    /\ transport[u].status = "in_progress"
    => t = u

\* The group contract holds of everything the scheduler has accepted, not only
\* of the pair of rows a validation compared: all parts of a group agree on
\* byte space and total_parts, and no part is transported twice or is queued
\* while another request transports it.
GroupContract ==
  /\ \A t, u \in DOMAIN transport :
       t # u => ~Clash(transport[t].payload, transport[u].payload)
  /\ \A q \in EnqueuedIn(pending) :
       /\ \A x \in EnqueuedIn(pending) \ {q} : ~Clash(pending[x].payload, pending[q].payload)
       /\ \A t \in DOMAIN transport : ~Clash(transport[t].payload, pending[q].payload)

\* A caller is only ever answered with a transport of its own request and of
\* the very payload it sent, also when the answer was put together from reads
\* made at different moments or from another caller's enqueue.
AnswerMatchesCall ==
  \A c \in Callers :
    caller[c].pc = "transferring" =>
      /\ caller[c].found[1] = caller[c].request
      /\ transport[caller[c].found].payload = caller[c].payload

\* The state of a request as its caller may think of it: RequestLedger's view
\* of the two tables.
LedgerStatus(q) ==
  LET C == Carriers(transport, q) IN
  IF C # {}
    THEN LET t == CHOOSE x \in C : TRUE IN
         IF transport[t].status = "in_progress" THEN "leased"
         ELSE IF TerminalFailed(transport[t]) THEN "failed"
         ELSE "succeeded"
    ELSE IF q \in DOMAIN pending
      THEN IF pending[q].state = "enqueued" THEN "queued" ELSE "abandoned"
      ELSE "absent"

Ledger == INSTANCE RequestLedger WITH status <- [q \in Requests |-> LedgerStatus(q)]

\* The two tables together implement the life of an idempotency key that
\* RequestLedger promises: one lease at a time, ended once, success final,
\* re-entry only after failure or abandonment.
LedgerImplemented == Ledger!Spec

\* Every call is answered: no interleaving of dispatches, cancellations,
\* deletions and restarts leaves a handler looping past its own deadline.
EveryCallAnswered ==
  \A c \in Callers : (caller[c].pc \in Waiting) ~> (caller[c].pc \notin Waiting)

\* Every lease ends: a transport whose requester died, was told of a timeout,
\* or never learned of it is closed by the maintenance loop.
EveryTransportEnds ==
  \A q \in Requests : \A n \in 1 .. MaxCalls :
    (<<q, n>> \in DOMAIN transport /\ transport[<<q, n>>].status = "in_progress") ~>
      (<<q, n>> \in DOMAIN transport /\ transport[<<q, n>>].status = "completed")
=============================================================================

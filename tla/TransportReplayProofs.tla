----------------------- MODULE TransportReplayProofs ------------------------
(***************************************************************************)
(* Proofs that the pending and the transport table agree about every       *)
(* request, and that a request id holds at most one source at a time.      *)
(*                                                                         *)
(* Neither property is inductive alone.  That a request has one lease rests *)
(* on the unique index on request_id (one carrier) and on a transport in    *)
(* flight never losing its id; that a dispatch respects the index rests on  *)
(* the agreement of the two tables.                                         *)
(*                                                                         *)
(* From the same invariant follow the group contract, what a caller is      *)
(* answered with, and the refinement of RequestLedger.                      *)
(***************************************************************************)
EXTENDS TransportSchedulerProofs

\* A transport carries the id it was opened for, or none once it was recycled.
OwnRequest(T) ==
  \A t \in DOMAIN T :
    /\ T[t].request \in {t[1], Null}
    /\ T[t].status = "in_progress" => T[t].request = t[1]

\* The unique index on request_id.
OneCarrier(T) ==
  \A t, u \in DOMAIN T : T[t].request # Null /\ T[t].request = T[u].request => t = u

Agreed(T, P) ==
  \A q \in Requests :
    (Carriers(T, q) # {}) <=> (q \in DOMAIN P /\ P[q].state = "dispatched")

Consistent(T, P) == OwnRequest(T) /\ OneCarrier(T) /\ Agreed(T, P)

ReplayInv == QuotaInv /\ Consistent(transport, pending)

-----------------------------------------------------------------------------
(* Every statement of a transaction keeps the tables consistent.           *)

\* _reconcile_request_replay_state frees the id and deletes the row together:
\* the one carrier of the request either is terminal or is not.
LEMMA RecycledConsistent ==
  ASSUME RequestTypeOK, Consistent(transport, pending), NEW q \in Requests
  PROVE  Consistent(RecycledTransports(transport, q), RecycledPending(transport, pending, q))
<1> DEFINE T == RecycledTransports(transport, q)
           P == RecycledPending(transport, pending, q)
<1> USE DEF Consistent
<1>1. Null \notin Requests
  BY ConstantsAssumption
<1>2. DOMAIN T = DOMAIN transport
  BY DEF RecycledTransports
<1>3. ASSUME NEW t \in DOMAIN transport
      PROVE  /\ T[t].status = transport[t].status
             /\ T[t].request = IF transport[t].request = q /\ TerminalFailed(transport[t])
                                 THEN Null ELSE transport[t].request
  <2>1. transport[t] \in TransportRow
    BY DEF RequestTypeOK
  <2> QED
    BY <2>1 DEF RecycledTransports, TransportRow
<1>4. OwnRequest(T)
  BY <1>2, <1>3 DEF OwnRequest, TerminalFailed
<1>5. OneCarrier(T)
  BY <1>2, <1>3 DEF OneCarrier
<1>6. ASSUME NEW x \in Requests, x # q
      PROVE  (Carriers(T, x) # {}) <=> (x \in DOMAIN P /\ P[x].state = "dispatched")
  <2>1. Carriers(T, x) = Carriers(transport, x)
    BY <1>1, <1>2, <1>3, <1>6 DEF Carriers
  <2>2. (x \in DOMAIN P <=> x \in DOMAIN pending) /\ (x \in DOMAIN P => P[x] = pending[x])
    BY <1>6 DEF RecycledPending, Without
  <2> QED
    BY <2>1, <2>2 DEF Agreed
<1>7. (Carriers(T, q) # {}) <=> (q \in DOMAIN P /\ P[q].state = "dispatched")
  <2>1. CASE \A t \in Carriers(transport, q) : TerminalFailed(transport[t])
    <3>1. Carriers(T, q) = {}
      BY <1>1, <1>2, <1>3, <2>1 DEF Carriers
    <3>2. ~(q \in DOMAIN P /\ P[q].state = "dispatched")
      BY <2>1 DEF RecycledPending, Without
    <3> QED
      BY <3>1, <3>2
  <2>2. CASE \E t \in Carriers(transport, q) : ~TerminalFailed(transport[t])
    <3>1. PICK t \in Carriers(transport, q) : ~TerminalFailed(transport[t])
      BY <2>2
    <3>2. t \in Carriers(T, q)
      BY <1>2, <1>3, <3>1 DEF Carriers
    <3>3. P = pending
      BY <3>1 DEF RecycledPending
    <3> QED
      BY <3>1, <3>2, <3>3 DEF Agreed
  <2> QED
    BY <2>1, <2>2
<1> QED
  BY <1>4, <1>5, <1>6, <1>7 DEF Agreed

\* create_if_absent_with_cursor adds a row only where nothing is carried.
LEMMA EnqueuedConsistent ==
  ASSUME NEW T, NEW P, Consistent(T, P), NEW q \in Requests, NEW p, NEW d
  PROVE  Consistent(T, EnqueuedPending(P, q, p, d))
BY DEF Consistent, Agreed, EnqueuedPending, With

\* expire_enqueued_deadlines never touches a dispatched row.
LEMMA ExpiredConsistent ==
  ASSUME NEW T, NEW P, PendingWithin(P), Consistent(T, P)
  PROVE  Consistent(T, ExpiredPending(P))
<1>1. DOMAIN ExpiredPending(P) = DOMAIN P
  BY DEF ExpiredPending
<1>2. ASSUME NEW q \in DOMAIN P
      PROVE  ExpiredPending(P)[q].state = "dispatched" <=> P[q].state = "dispatched"
  <2>1. P[q] \in PendingRow
    BY DEF PendingWithin
  <2> QED
    BY <2>1 DEF ExpiredPending, PendingRow
<1> QED
  BY <1>1, <1>2 DEF Consistent, Agreed

\* A dispatch opens transports only for requests that nothing carries.
LEMMA DispatchConsistent ==
  ASSUME TypeOK, FreshIds, NEW T, NEW P, TransportsWithin(T), PendingWithin(P),
         Consistent(T, P), Dispatch(T, P)
  PROVE  Consistent(transport', pending')
<1> USE DEF TypeOK, Consistent
<1>1. PICK served, src : Dispatches(T, P, served, src)
  BY DispatchEffect
<1> DEFINE new == Opened(T, served)
<1>2. /\ served \subseteq Requests
      /\ served \subseteq EnqueuedIn(P)
      /\ attempts \in [Requests -> Nat]
  BY <1>1 DEF RequestTypeOK, Dispatches
<1>3. \A q \in served : q \in DOMAIN P /\ P[q].state = "enqueued"
  BY <1>2 DEF EnqueuedIn
<1>4. \A q \in served : Carriers(T, q) = {}
  BY <1>2, <1>3 DEF Agreed
<1>5. new = {<<q, attempts[q] + 1>> : q \in served}
  BY <1>4 DEF Opened
<1>6. DOMAIN transport' = DOMAIN T \cup new
  BY <1>1 DEF Dispatches
<1>7. \A t \in new : /\ t[1] \in served
                     /\ t = <<t[1], attempts[t[1]] + 1>>
                     /\ transport'[t].request = t[1]
  BY <1>1, <1>5 DEF Dispatches
<1>8. \A t \in DOMAIN T \ new : transport'[t] = T[t]
  BY <1>1 DEF Dispatches
<1>9. OwnRequest(transport')
  BY <1>6, <1>7, <1>8 DEF OwnRequest
<1>10. OneCarrier(transport')
  <2> SUFFICES ASSUME NEW t \in DOMAIN transport', NEW u \in DOMAIN transport',
                      transport'[t].request # Null,
                      transport'[t].request = transport'[u].request
               PROVE  t = u
    BY DEF OneCarrier
  <2>1. \A x \in new, y \in DOMAIN T \ new : transport'[x].request # transport'[y].request
    BY <1>4, <1>7, <1>8 DEF Carriers
  <2>2. CASE t \in new /\ u \in new
    BY <2>2, <1>7
  <2>3. CASE t \notin new /\ u \notin new
    BY <2>3, <1>6, <1>8 DEF OneCarrier
  <2> QED
    BY <2>1, <2>2, <2>3, <1>6
<1>11. DOMAIN pending' = DOMAIN P
  BY <1>1 DEF Dispatches
<1>12. \A q \in DOMAIN P : pending'[q].state = IF q \in served THEN "dispatched" ELSE P[q].state
  BY <1>1 DEF Dispatches, PendingWithin, PendingRow
<1>13. Agreed(transport', pending')
  <2> SUFFICES ASSUME NEW q \in Requests
               PROVE  (Carriers(transport', q) # {})
                        <=> (q \in DOMAIN pending' /\ pending'[q].state = "dispatched")
    BY DEF Agreed
  <2>1. CASE q \in served
    <3>1. <<q, attempts[q] + 1>> \in new
      BY <2>1, <1>5
    <3>2. <<q, attempts[q] + 1>> \in Carriers(transport', q)
      BY <3>1, <1>6, <1>7 DEF Carriers
    <3> QED
      BY <2>1, <3>2, <1>3, <1>11, <1>12
  <2>2. CASE q \notin served
    <3>1. Carriers(transport', q) \subseteq DOMAIN T \ new
      BY <2>2, <1>6, <1>7 DEF Carriers
    <3>2. Carriers(T, q) \cap new = {}
      <4> SUFFICES ASSUME NEW t \in Carriers(T, q), t \in new PROVE FALSE
        OBVIOUS
      <4>1. t \in DOMAIN transport /\ t[2] = attempts[t[1]] + 1 /\ attempts[t[1]] \in Nat
        BY <1>2, <1>7 DEF Carriers, TransportsWithin
      <4> QED
        BY <4>1 DEF FreshIds
    <3>3. Carriers(transport', q) = Carriers(T, q)
      BY <3>1, <3>2, <1>6, <1>8 DEF Carriers
    <3> QED
      BY <2>2, <3>3, <1>11, <1>12 DEF Agreed
  <2> QED
    BY <2>1, <2>2
<1> QED
  BY <1>9, <1>10, <1>13

\* A completion never takes the request id from its transport.
LEMMA CompletionConsistent ==
  ASSUME RequestTypeOK, Consistent(transport, pending), NEW t \in DOMAIN transport, NEW o,
         CompleteInTx(t, o), pending' = pending
  PROVE  Consistent(transport', pending')
<1>1. /\ DOMAIN transport' = DOMAIN transport
      /\ \A u \in DOMAIN transport :
           /\ transport'[u].request = transport[u].request
           /\ transport'[u].status = "in_progress" => transport[u].status = "in_progress"
  BY DEF CompleteInTx, CompletedTransports, RequestTypeOK, TransportRow
<1>2. \A q : Carriers(transport', q) = Carriers(transport, q)
  BY <1>1 DEF Carriers
<1> QED
  BY <1>1, <1>2 DEF Consistent, OwnRequest, OneCarrier, Agreed

-----------------------------------------------------------------------------

\* Every step of a handler keeps the tables consistent.
LEMMA HandleConsistent ==
  ASSUME ReplayInv, NEW c \in Callers, Handle(c)
  PROVE  Consistent(transport, pending)'
<1> DEFINE q == caller[c].request
           p == caller[c].payload
           T == RecycledTransports(transport, q)
           P == RecycledPending(transport, pending, q)
<1> USE DEF ReplayInv, QuotaInv, TypeOK
<1>1. TransportsWithin(T) /\ PendingWithin(P)
  BY RecycledWithin
<1>2. q \in Requests => Consistent(T, P)
  BY RecycledConsistent
<1>3. CASE EnqueueJoins(c)
  <2>1. q \in Requests
    BY <1>3 DEF EnqueueJoins, Resting, CallerTypeOK
  <2>2. PICK d : pending' = EnqueuedPending(P, q, p, d)
    BY <1>3 DEF EnqueueJoins
  <2>3. transport' = T
    BY <1>3 DEF EnqueueJoins
  <2>4. Consistent(T, EnqueuedPending(P, q, p, d))
    BY <1>2, <2>1, EnqueuedConsistent
  <2> QED
    BY <2>2, <2>3, <2>4
<1>4. CASE EnqueueAndDispatch(c)
  <2>1. q \in Requests /\ p \in Payloads
    BY <1>4, Zenon DEF EnqueueAndDispatch, Resting, CallerTypeOK
  <2>2. PICK d \in {"none", "ahead", "passed"} :
          Dispatch(T, ExpiredPending(EnqueuedPending(P, q, p, d)))
    BY <1>4 DEF EnqueueAndDispatch, RowDeadlines
  <2>3. PendingWithin(EnqueuedPending(P, q, p, d)) /\ Consistent(T, EnqueuedPending(P, q, p, d))
    BY <1>1, <1>2, <2>1, EnqueuedWithin, EnqueuedConsistent, Zenon
  <2>4. /\ PendingWithin(ExpiredPending(EnqueuedPending(P, q, p, d)))
        /\ Consistent(T, ExpiredPending(EnqueuedPending(P, q, p, d)))
    BY <2>3, ExpiredWithin, ExpiredConsistent, ZenonT(40)
  <2> QED
    BY <1>1, <2>2, <2>4, DispatchConsistent, Zenon
<1>5. CASE DispatchPass(c)
  <2>1. TransportsWithin(transport) /\ PendingWithin(pending)
    BY DEF TransportsWithin, PendingWithin, RequestTypeOK
  <2>2. PendingWithin(ExpiredPending(pending)) /\ Consistent(transport, ExpiredPending(pending))
    BY <2>1, ExpiredWithin, ExpiredConsistent
  <2> QED
    BY <1>5, <2>1, <2>2, DispatchConsistent DEF DispatchPass
<1>6. CASE GiveUp(c)
  <2>1. transport' = transport /\ DOMAIN pending' = DOMAIN pending
    BY <1>6 DEF GiveUp, CancelledPending
  <2>2. \A x \in DOMAIN pending : pending'[x].state = "dispatched" <=> pending[x].state = "dispatched"
    BY <1>6 DEF GiveUp, CancelledPending, EnqueuedIn, RequestTypeOK, PendingRow
  <2> QED
    BY <2>1, <2>2 DEF Consistent, Agreed
<1>7. CASE \/ FindReplica(c) \/ FindPending(c) \/ CheckRoute(c) \/ EnqueueRefused(c)
           \/ ReadPending(c) \/ ReadTransport(c) \/ ReadReplica(c) \/ KeepWaiting(c)
           \/ DispatchPassRefused(c)
  <2>1. transport' = transport /\ pending' = pending
    BY <1>7, Zenon DEF FindReplica, FindPending, CheckRoute, EnqueueRefused, ReadPending, ReadTransport,
                ReadReplica, KeepWaiting, DispatchPassRefused, requestVars
  <2> QED
    BY <2>1
<1> QED
  BY <1>3, <1>4, <1>5, <1>6, <1>7 DEF Handle

\* So does every other step.
LEMMA NextConsistent ==
  ASSUME ReplayInv, [Next]_vars
  PROVE  Consistent(transport, pending)'
<1> USE DEF ReplayInv, QuotaInv, TypeOK
<1>1. ASSUME NEW c \in Callers, Start(c) \/ CallerDeadline(c) \/ LoseRequester(c)
      PROVE  Consistent(transport, pending)'
  BY <1>1 DEF Start, StartRequest, CallerDeadline, LoseRequester, requestVars
<1>2. ASSUME NEW q \in Requests, RowDeadline(q)
      PROVE  Consistent(transport, pending)'
  <2>1. transport' = transport /\ DOMAIN pending' = DOMAIN pending
    BY <1>2 DEF RowDeadline
  <2>2. \A x \in DOMAIN pending : pending'[x].state = pending[x].state
    BY <1>2 DEF RowDeadline, EnqueuedIn, RequestTypeOK, PendingRow
  <2> QED
    BY <2>1, <2>2 DEF Consistent, Agreed
<1>3. ASSUME NEW c \in Callers, NEW o \in Outcomes, CompleteTransport(c, o)
      PROVE  Consistent(transport, pending)'
  <2>1. caller[c].found \in DOMAIN transport
    BY <1>3 DEF CompleteTransport, CallerTypeOK, Holding
  <2> QED
    BY <1>3, <2>1, CompletionConsistent DEF CompleteTransport
<1>4. ASSUME NEW t \in expiring, CleanupExpire(t)
      PROVE  Consistent(transport, pending)'
  <2>1. t \in DOMAIN transport
    BY DEF RequestTypeOK
  <2> QED
    BY <1>4, <2>1, CompletionConsistent DEF CleanupExpire
<1>5. CASE (\E t \in DOMAIN transport : TransportAges(t)) \/ CleanupList \/ Restart \/ UNCHANGED vars
  BY <1>5 DEF TransportAges, CleanupList, Restart, requestVars, vars
<1>6. CASE ReplicaNext
  BY <1>6, ReplicaKeepsRequests DEF requestVars
<1> QED
  BY <1>1, <1>2, <1>3, <1>4, <1>5, <1>6, HandleConsistent DEF Next, RequestNext, CompletionNext

\* Empty tables are consistent.
LEMMA InitConsistent == Init => Consistent(transport, pending)
BY DEF Init, EmptyTable, Consistent, OwnRequest, OneCarrier, Agreed, Carriers

\* The inductive invariant behind the two theorems below.
LEMMA ReplayInvariant == Spec => []ReplayInv
<1>1. Init => ReplayInv
  BY InitConserves, InitConsistent DEF ReplayInv
<1>2. ReplayInv /\ [Next]_vars => ReplayInv'
  BY QuotaInductive, NextConsistent DEF ReplayInv
<1> QED
  BY <1>1, <1>2, PTL DEF Spec

\* The two tables that record the fate of a request agree, for any number of
\* requests, callers and replicas, after every transaction.
THEOREM TablesAgree == Spec => []DispatchedIffCarried
<1>1. ReplayInv => DispatchedIffCarried
  BY DEF ReplayInv, Consistent, Agreed, DispatchedIffCarried
<1> QED
  BY <1>1, ReplayInvariant, PTL

\* A request id is an idempotency key: it never holds two sources at once.
THEOREM IdempotencyKey == Spec => []OneLeasePerRequest
<1>1. ReplayInv => OneLeasePerRequest
  <2> SUFFICES ASSUME ReplayInv, NEW t \in DOMAIN transport, NEW u \in DOMAIN transport,
                      t[1] = u[1], transport[t].status = "in_progress",
                      transport[u].status = "in_progress"
               PROVE  t = u
    BY DEF OneLeasePerRequest
  <2>1. t[1] # Null
    BY ConstantsAssumption DEF ReplayInv, QuotaInv, TypeOK, RequestTypeOK, TransportId
  <2> QED
    BY <2>1 DEF ReplayInv, Consistent, OwnRequest, OneCarrier
<1> QED
  BY <1>1, ReplayInvariant, PTL

-----------------------------------------------------------------------------
(* Proofs that what the scheduler has accepted keeps the group contract,    *)
(* and that a caller is only answered with a transport it asked for.        *)
(*                                                                          *)
(* The contract is inductive only together with the agreement of the two    *)
(* tables: validation skips the transports of the request itself, and it is *)
(* the agreement that leaves none of them when a row is inserted.           *)

Contract(T, P) ==
  /\ \A t, u \in DOMAIN T : t # u => ~Clash(T[t].payload, T[u].payload)
  /\ \A q \in EnqueuedIn(P) :
       /\ \A x \in EnqueuedIn(P) \ {q} : ~Clash(P[x].payload, P[q].payload)
       /\ \A t \in DOMAIN T : ~Clash(T[t].payload, P[q].payload)

ContractInv == ReplayInv /\ Contract(transport, pending)

-----------------------------------------------------------------------------
(* The group contract, statement by statement.                             *)

\* Two parts clash or they do not, whichever came first.
LEMMA ClashSymmetric ==
  ASSUME NEW a, NEW b, Clash(a, b)
  PROVE  Clash(b, a)
BY DEF Clash

\* _reconcile_request_replay_state keeps every payload.
LEMMA RecycledContract ==
  ASSUME RequestTypeOK, Contract(transport, pending), NEW q
  PROVE  Contract(RecycledTransports(transport, q), RecycledPending(transport, pending, q))
<1> DEFINE T == RecycledTransports(transport, q)
           P == RecycledPending(transport, pending, q)
<1>1. DOMAIN T = DOMAIN transport
  BY DEF RecycledTransports
<1>2. \A t \in DOMAIN transport : T[t].payload = transport[t].payload
  BY DEF RecycledTransports, RequestTypeOK, TransportRow
<1>3. EnqueuedIn(P) \subseteq EnqueuedIn(pending) /\ \A x \in EnqueuedIn(P) : P[x] = pending[x]
  BY DEF RecycledPending, Without, EnqueuedIn
<1> HIDE DEF T, P
<1>4. Contract(T, P)
  BY <1>1, <1>2, <1>3 DEF Contract
<1> QED
  BY <1>4 DEF T, P

\* create_if_absent_with_cursor inserts only what validation has compared with
\* everything: no transport carries the id of a request that has no row.
LEMMA EnqueuedContract ==
  ASSUME NEW T, NEW P, Consistent(T, P), Contract(T, P), NEW q \in Requests, NEW p, NEW d,
         ~Refused(T, P, q, p)
  PROVE  Contract(T, EnqueuedPending(P, q, p, d))
<1> DEFINE E == EnqueuedPending(P, q, p, d)
<1>1. CASE q \in DOMAIN P
  BY <1>1 DEF EnqueuedPending
<1>2. CASE q \notin DOMAIN P
  <2>1. Carriers(T, q) = {}
    BY <1>2 DEF Consistent, Agreed
  <2>2. \A t \in DOMAIN T : ~Clash(T[t].payload, p)
    BY <2>1 DEF Refused, GroupConflict, Carriers
  <2>3. \A x \in EnqueuedIn(P) : ~Clash(P[x].payload, p) /\ ~Clash(p, P[x].payload)
    BY <1>2, ClashSymmetric DEF Refused, GroupConflict, EnqueuedIn
  <2>4. /\ EnqueuedIn(E) = EnqueuedIn(P) \cup {q}
        /\ E[q].payload = p
        /\ \A x \in EnqueuedIn(P) : E[x] = P[x]
    BY <1>2 DEF EnqueuedPending, With, EnqueuedIn
  <2> HIDE DEF E
  <2>5. Contract(T, E)
    BY <2>2, <2>3, <2>4 DEF Contract
  <2> QED
    BY <2>5 DEF E
<1> QED
  BY <1>1, <1>2

\* expire_enqueued_deadlines only takes rows out of the queue.
LEMMA ExpiredContract ==
  ASSUME NEW T, NEW P, PendingWithin(P), Contract(T, P)
  PROVE  Contract(T, ExpiredPending(P))
<1>1. /\ EnqueuedIn(ExpiredPending(P)) \subseteq EnqueuedIn(P)
      /\ \A x \in EnqueuedIn(ExpiredPending(P)) : ExpiredPending(P)[x].payload = P[x].payload
  BY DEF ExpiredPending, EnqueuedIn, PendingWithin, PendingRow
<1> QED
  BY <1>1 DEF Contract

\* A dispatch turns queued rows into transports of the same payload.
LEMMA DispatchContract ==
  ASSUME NEW T, NEW P, PendingWithin(P), Contract(T, P), Dispatch(T, P)
  PROVE  Contract(transport', pending')
<1>1. PICK served, src : Dispatches(T, P, served, src)
  BY DispatchEffect
<1> DEFINE new == Opened(T, served)
<1>2. served \subseteq EnqueuedIn(P)
  BY <1>1 DEF Dispatches
<1>3. DOMAIN transport' = DOMAIN T \cup new
  BY <1>1 DEF Dispatches
<1>4. \A t \in new : t[1] \in served /\ t = <<t[1], attempts[t[1]] + 1>>
  BY DEF Opened
<1>5. \A t \in new : transport'[t].payload = P[t[1]].payload
  BY <1>1 DEF Dispatches
<1>6. \A t \in DOMAIN T \ new : transport'[t] = T[t]
  BY <1>1 DEF Dispatches
<1>7. EnqueuedIn(pending') \subseteq EnqueuedIn(P) \ served
  BY <1>1, <1>2 DEF Dispatches, EnqueuedIn, PendingWithin, PendingRow
<1>8. \A x \in EnqueuedIn(pending') : pending'[x] = P[x]
  BY <1>1, <1>7 DEF Dispatches, EnqueuedIn
<1> HIDE DEF new
<1>9. ASSUME NEW t \in DOMAIN transport', NEW u \in DOMAIN transport', t # u
      PROVE  ~Clash(transport'[t].payload, transport'[u].payload)
  <2>1. CASE t \in new /\ u \in new
    <3>1. t[1] # u[1]
      BY <1>4, <1>9, <2>1
    <3> QED
      BY <1>2, <1>4, <1>5, <2>1, <3>1 DEF Contract
  <2>2. CASE t \in new /\ u \notin new
    BY <1>2, <1>3, <1>4, <1>5, <1>6, <2>2, ClashSymmetric, ZenonT(40) DEF Contract
  <2>3. CASE t \notin new /\ u \in new
    BY <1>2, <1>3, <1>4, <1>5, <1>6, <2>3 DEF Contract
  <2>4. CASE t \notin new /\ u \notin new
    BY <1>3, <1>6, <1>9, <2>4 DEF Contract
  <2> QED
    BY <2>1, <2>2, <2>3, <2>4
<1>10. ASSUME NEW q \in EnqueuedIn(pending'), NEW t \in DOMAIN transport'
       PROVE  ~Clash(transport'[t].payload, pending'[q].payload)
  <2>1. q \in EnqueuedIn(P) \ served /\ pending'[q] = P[q]
    BY <1>7, <1>8
  <2>2. CASE t \in new
    BY <1>2, <1>4, <1>5, <2>1, <2>2, Zenon DEF Contract
  <2>3. CASE t \notin new
    BY <1>3, <1>6, <2>1, <2>3, ZenonT(40) DEF Contract
  <2> QED
    BY <2>2, <2>3
<1>11. ASSUME NEW q \in EnqueuedIn(pending'), NEW x \in EnqueuedIn(pending') \ {q}
       PROVE  ~Clash(pending'[x].payload, pending'[q].payload)
  BY <1>7, <1>8 DEF Contract
<1> QED
  BY <1>9, <1>10, <1>11 DEF Contract

\* A step that keeps the payloads of the transports and adds nothing to the
\* queue keeps the contract.
LEMMA QuietContract ==
  ASSUME Contract(transport, pending),
         DOMAIN transport' = DOMAIN transport,
         \A t \in DOMAIN transport : transport'[t].payload = transport[t].payload,
         EnqueuedIn(pending') \subseteq EnqueuedIn(pending),
         \A q \in EnqueuedIn(pending') : pending'[q].payload = pending[q].payload
  PROVE  Contract(transport', pending')
BY DEF Contract

\* A completion keeps payloads.
LEMMA CompletedPayloads ==
  ASSUME RequestTypeOK, NEW t \in DOMAIN transport, NEW o, CompleteInTx(t, o)
  PROVE  /\ DOMAIN transport' = DOMAIN transport
         /\ \A u \in DOMAIN transport : transport'[u].payload = transport[u].payload
BY DEF CompleteInTx, CompletedTransports, RequestTypeOK, TransportRow

\* Every step of a handler keeps the contract.
LEMMA HandleContract ==
  ASSUME ContractInv, NEW c \in Callers, Handle(c)
  PROVE  Contract(transport', pending')
<1> DEFINE q == caller[c].request
           p == caller[c].payload
           T == RecycledTransports(transport, q)
           P == RecycledPending(transport, pending, q)
<1> USE DEF ContractInv, ReplayInv, QuotaInv, TypeOK
<1>1. PendingWithin(P) /\ Contract(T, P)
  BY RecycledWithin, RecycledContract
<1>2. q \in Requests => Consistent(T, P)
  BY RecycledConsistent
<1>3. CASE EnqueueJoins(c)
  <2>1. q \in Requests /\ ~Refused(T, P, q, p) /\ transport' = T
    BY <1>3, ZenonT(40) DEF EnqueueJoins, Resting, CallerTypeOK
  <2>2. PICK d : pending' = EnqueuedPending(P, q, p, d)
    BY <1>3 DEF EnqueueJoins
  <2>3. Contract(T, EnqueuedPending(P, q, p, d))
    BY <1>1, <1>2, <2>1, EnqueuedContract
  <2> QED
    BY <2>1, <2>2, <2>3
<1>4. CASE EnqueueAndDispatch(c)
  <2>1. q \in Requests /\ p \in Payloads /\ ~Refused(T, P, q, p)
    BY <1>4, ZenonT(40) DEF EnqueueAndDispatch, Resting, CallerTypeOK
  <2>2. PICK d \in {"none", "ahead", "passed"} :
          Dispatch(T, ExpiredPending(EnqueuedPending(P, q, p, d)))
    BY <1>4, ZenonT(40) DEF EnqueueAndDispatch, RowDeadlines
  <2>3. PendingWithin(EnqueuedPending(P, q, p, d)) /\ Contract(T, EnqueuedPending(P, q, p, d))
    BY <1>1, <1>2, <2>1, EnqueuedWithin, EnqueuedContract
  <2>4. /\ PendingWithin(ExpiredPending(EnqueuedPending(P, q, p, d)))
        /\ Contract(T, ExpiredPending(EnqueuedPending(P, q, p, d)))
    BY <2>3, ExpiredWithin, ExpiredContract, ZenonT(40)
  <2> QED
    BY <2>2, <2>4, DispatchContract
<1>5. CASE DispatchPass(c)
  <2>1. PendingWithin(pending)
    BY DEF PendingWithin, RequestTypeOK
  <2>2. PendingWithin(ExpiredPending(pending)) /\ Contract(transport, ExpiredPending(pending))
    BY <2>1, ExpiredWithin, ExpiredContract
  <2> QED
    BY <1>5, <2>2, DispatchContract DEF DispatchPass
<1>6. CASE GiveUp(c)
  <2>1. transport' = transport
    BY <1>6 DEF GiveUp
  <2>2. /\ EnqueuedIn(pending') \subseteq EnqueuedIn(pending)
        /\ \A x \in EnqueuedIn(pending') : pending'[x].payload = pending[x].payload
    BY <1>6 DEF GiveUp, CancelledPending, EnqueuedIn, RequestTypeOK, PendingRow
  <2> QED
    BY <2>1, <2>2, QuietContract
<1>7. CASE \/ FindReplica(c) \/ FindPending(c) \/ CheckRoute(c) \/ EnqueueRefused(c)
           \/ ReadPending(c) \/ ReadTransport(c) \/ ReadReplica(c) \/ KeepWaiting(c)
           \/ DispatchPassRefused(c)
  <2>1. transport' = transport /\ pending' = pending
    BY <1>7, ZenonT(40) DEF FindReplica, FindPending, CheckRoute, EnqueueRefused, ReadPending, ReadTransport,
                ReadReplica, KeepWaiting, DispatchPassRefused, requestVars
  <2> QED
    BY <2>1
<1> QED
  BY <1>3, <1>4, <1>5, <1>6, <1>7 DEF Handle

\* So does every other step.
LEMMA NextContract ==
  ASSUME ContractInv, [Next]_vars
  PROVE  Contract(transport', pending')
<1> USE DEF ContractInv, ReplayInv, QuotaInv, TypeOK
<1>1. ASSUME NEW c \in Callers, Start(c) \/ CallerDeadline(c) \/ LoseRequester(c)
      PROVE  Contract(transport', pending')
  BY <1>1 DEF Start, StartRequest, CallerDeadline, LoseRequester, requestVars
<1>2. ASSUME NEW q \in Requests, RowDeadline(q)
      PROVE  Contract(transport', pending')
  <2>1. transport' = transport
    BY <1>2 DEF RowDeadline
  <2>2. /\ EnqueuedIn(pending') \subseteq EnqueuedIn(pending)
        /\ \A x \in EnqueuedIn(pending') : pending'[x].payload = pending[x].payload
    BY <1>2 DEF RowDeadline, EnqueuedIn, RequestTypeOK, PendingRow
  <2> QED
    BY <2>1, <2>2, QuietContract
<1>3. ASSUME NEW c \in Callers, NEW o \in Outcomes, CompleteTransport(c, o)
      PROVE  Contract(transport', pending')
  <2>1. caller[c].found \in DOMAIN transport
    BY <1>3 DEF CompleteTransport, CallerTypeOK, Holding
  <2> QED
    BY <1>3, <2>1, CompletedPayloads, QuietContract, ZenonT(40) DEF CompleteTransport
<1>4. ASSUME NEW t \in expiring, CleanupExpire(t)
      PROVE  Contract(transport', pending')
  <2>1. t \in DOMAIN transport
    BY DEF RequestTypeOK
  <2> QED
    BY <1>4, <2>1, CompletedPayloads, QuietContract DEF CleanupExpire
<1>5. CASE (\E t \in DOMAIN transport : TransportAges(t)) \/ CleanupList \/ Restart \/ UNCHANGED vars
  BY <1>5 DEF TransportAges, CleanupList, Restart, requestVars, vars
<1>6. CASE ReplicaNext
  BY <1>6, ReplicaKeepsRequests DEF requestVars
<1> QED
  BY <1>1, <1>2, <1>3, <1>4, <1>5, <1>6, HandleContract DEF Next, RequestNext, CompletionNext

\* The group contract holds of everything that was ever accepted, for any
\* number of requests, parts and callers (_validate_group_contract_with_cursor).
THEOREM GroupContractKept == Spec => []GroupContract
<1>1. Init => ContractInv
  BY InitConserves, InitConsistent
  DEF ContractInv, ReplayInv, Contract, Init, EmptyTable, EnqueuedIn
<1>2. ContractInv /\ [Next]_vars => ContractInv'
  <2>1. ReplayInv /\ [Next]_vars => ReplayInv'
    BY QuotaInductive, NextConsistent DEF ReplayInv
  <2> QED
    BY <2>1, NextContract, Zenon DEF ContractInv
<1>3. ContractInv => GroupContract
  BY DEF ContractInv, Contract, GroupContract
<1> QED
  BY <1>1, <1>2, <1>3, PTL DEF Spec

-----------------------------------------------------------------------------
(* Answers.                                                                *)

\* The answer a is of request q and payload p when T is the transport table.
Matches(a, T, q, p) ==
  a.pc \in Holding => a.found[1] = q /\ T[a.found].payload = p

\* Also a caller that has yet to look at the replica is on its own transport.
AnswersMatch ==
  \A c \in Callers :
    caller[c].pc \in Holding =>
      /\ caller[c].found[1] = caller[c].request
      /\ transport[caller[c].found].payload = caller[c].payload

AnswerInv == ReplayInv /\ AnswersMatch

\* Transports stay, with the payload they were opened for.
PayloadsKept ==
  \A t \in DOMAIN transport :
    t \in DOMAIN transport' /\ transport'[t].payload = transport[t].payload

\* The transport that carries a request id was opened for that request.
LEMMA CarrierIsOwn ==
  ASSUME NEW T, OwnRequest(T), NEW q \in Requests, NEW t \in Carriers(T, q)
  PROVE  t \in DOMAIN T /\ t[1] = q
BY ConstantsAssumption DEF OwnRequest, Carriers

\* An answer without a transport matches any call.
LEMMA NoTransportMatches ==
  ASSUME NEW T, NEW q, NEW p, NEW pc, pc \notin Holding, NEW found
  PROVE  Matches(Answer(pc, found), T, q, p)
BY ZenonT(40) DEF Matches, Answer

\* The read of the transport table compares the payload.
LEMMA TransportAnswerMatches ==
  ASSUME NEW T, OwnRequest(T), NEW q \in Requests, NEW p, NEW unresolved \in {"check", "loop"}
  PROVE  LET a == TransportAnswer(T, q, p, unresolved) IN
         /\ Matches(a, T, q, p)
         /\ a.pc = "read_replica" => a.found[1] = q /\ T[a.found].payload = p
<1> DEFINE a == TransportAnswer(T, q, p, unresolved)
<1> DEFINE t == CHOOSE x \in Carriers(T, q) : TRUE
<1>1. CASE Carriers(T, q) = {} \/ TerminalFailed(T[t]) \/ T[t].payload # p
  <2>1. a \in {Answer(unresolved, Null), Answer("timed_out", Null), Answer("rejected", Null)}
    BY <1>1 DEF TransportAnswer
  <2> QED
    BY <2>1 DEF Matches, Answer, Holding
<1>2. CASE ~(Carriers(T, q) = {} \/ TerminalFailed(T[t]) \/ T[t].payload # p)
  <2>1. a = Answer("read_replica", t) /\ T[t].payload = p
    BY <1>2 DEF TransportAnswer
  <2>2. t \in Carriers(T, q)
    BY <1>2
  <2>3. t[1] = q
    BY <2>2, CarrierIsOwn, Zenon
  <2> QED
    BY <2>1, <2>3 DEF Matches, Answer
<1> QED
  BY <1>1, <1>2

\* So does a transaction that resolves the request.
LEMMA ResolutionMatches ==
  ASSUME NEW T, OwnRequest(T), NEW P, NEW q \in Requests, NEW p, NEW unresolved \in {"check", "loop"}
  PROVE  Matches(Resolution(T, P, q, p, unresolved), T, q, p)
<1> DEFINE a == TransportAnswer(T, q, p, unresolved)
<1>1. /\ Matches(a, T, q, p)
      /\ a.pc = "read_replica" => a.found[1] = q /\ T[a.found].payload = p
  BY TransportAnswerMatches, ZenonT(40)
<1>2. a.pc = "read_replica" => Matches(AnswerFor(a.found, T[a.found], unresolved), T, q, p)
  BY <1>1 DEF Matches, AnswerFor, Answer, Holding
<1>3. /\ Matches(Answer("timed_out", Null), T, q, p)
      /\ Matches(Answer(unresolved, Null), T, q, p)
  BY DEF Matches, Answer, Holding
<1> HIDE DEF a
<1> QED
  BY <1>1, <1>2, <1>3, Zenon DEF Resolution, a

\* And the first read of a call.
LEMMA ExistingAnswerMatches ==
  ASSUME OwnRequest(transport), NEW q \in Requests, NEW p
  PROVE  Matches(ExistingAnswer(q, p), transport, q, p)
<1> DEFINE a == ExistingAnswer(q, p)
           t == CHOOSE x \in Carriers(transport, q) : TRUE
<1>1. CASE Carriers(transport, q) = {} \/ TerminalFailed(transport[t]) \/ transport[t].payload # p
  <2>1. a \in {Answer("find_pending", Null), Answer("route", Null), Answer("rejected", Null)}
    BY <1>1 DEF ExistingAnswer
  <2> QED
    BY <2>1 DEF Matches, Answer, Holding
<1>2. CASE ~(Carriers(transport, q) = {} \/ TerminalFailed(transport[t]) \/ transport[t].payload # p)
  <2>1. a = Answer("find_replica", t) /\ transport[t].payload = p
    BY <1>2 DEF ExistingAnswer
  <2>2. t \in Carriers(transport, q)
    BY <1>2
  <2>3. t[1] = q
    BY <2>2, CarrierIsOwn
  <2> QED
    BY <2>1, <2>3 DEF Matches, Answer
<1> QED
  BY <1>1, <1>2

\* A caller that goes on with a matching answer matches, and so do the others
\* as long as transports keep their payloads.
LEMMA ProceedMatches ==
  ASSUME TypeOK, AnswersMatch, PayloadsKept, NEW c \in Callers, NEW a,
         Matches(a, transport', caller[c].request, caller[c].payload), Proceed(c, a)
  PROVE  AnswersMatch'
<1>1. caller \in [Callers -> CallerState]
  BY DEF TypeOK, CallerTypeOK
<1>2. \A x \in Callers : caller[x].pc \in Holding => caller[x].found \in DOMAIN transport
  BY DEF TypeOK, CallerTypeOK
<1> SUFFICES ASSUME NEW x \in Callers, caller'[x].pc \in Holding
             PROVE  /\ caller'[x].found[1] = caller'[x].request
                    /\ transport'[caller'[x].found].payload = caller'[x].payload
  BY DEF AnswersMatch
<1>3. CASE x # c
  <2>1. caller'[x] = caller[x]
    BY <1>1, <1>3 DEF Proceed
  <2> QED
    BY <1>2, <2>1 DEF AnswersMatch, PayloadsKept
<1>4. CASE x = c
  <2>1. a.pc \notin Resting
    BY <1>1, <1>4 DEF Proceed, IdleCaller, Resting, Holding
  <2>2. caller'[c] = [caller[c] EXCEPT !.pc = a.pc, !.found = a.found]
    BY <1>1, <2>1 DEF Proceed
  <2>3. /\ caller'[c].request = caller[c].request /\ caller'[c].payload = caller[c].payload
        /\ caller'[c].pc = a.pc /\ caller'[c].found = a.found
    BY <1>1, <2>2 DEF CallerState
  <2> QED
    BY <1>4, <2>3 DEF Matches
<1> QED
  BY <1>3, <1>4

\* Dispatch keeps the payloads of the transports there are.
LEMMA DispatchPayloads ==
  ASSUME TypeOK, FreshIds, NEW T, NEW P, TransportsWithin(T), PendingWithin(P), Dispatch(T, P),
         \A t \in DOMAIN T : T[t].payload = transport[t].payload
  PROVE  PayloadsKept
<1>1. PICK served, src : Dispatches(T, P, served, src)
  BY DispatchEffect
<1>2. served \subseteq Requests /\ attempts \in [Requests -> Nat]
  BY <1>1 DEF Dispatches, TypeOK, RequestTypeOK
<1>3. \A t \in Opened(T, served) : t[2] = attempts[t[1]] + 1 /\ attempts[t[1]] \in Nat
  BY <1>2 DEF Opened
<1>4. \A t \in DOMAIN T : t \notin Opened(T, served)
  BY <1>3 DEF FreshIds, TransportsWithin
<1> QED
  BY <1>1, <1>4 DEF Dispatches, PayloadsKept, TransportsWithin

\* Every step of a handler leaves its caller with a matching answer.
LEMMA HandleMatches ==
  ASSUME AnswerInv, ReplayInv', NEW c \in Callers, Handle(c)
  PROVE  AnswersMatch'
<1> DEFINE q == caller[c].request
           p == caller[c].payload
           T == RecycledTransports(transport, q)
           P == RecycledPending(transport, pending, q)
           Kept(a) == Proceed(c, a) /\ Matches(a, transport', q, p)
<1> USE DEF AnswerInv, ReplayInv, QuotaInv
<1>1. q \in Requests /\ p \in Payloads
  BY Zenon DEF Handle, FindReplica, FindPending, CheckRoute, EnqueueRefused, EnqueueJoins, EnqueueAndDispatch,
         DispatchPass, DispatchPassRefused, ReadPending, ReadTransport, ReadReplica, KeepWaiting, GiveUp,
         TypeOK, CallerTypeOK, Resting
<1>2. OwnRequest(transport) /\ OwnRequest(transport')
  BY DEF Consistent
<1>3. DOMAIN T = DOMAIN transport /\ \A t \in DOMAIN transport : T[t].payload = transport[t].payload
  BY DEF RecycledTransports, TypeOK, RequestTypeOK, TransportRow
<1>4. TransportsWithin(T) /\ PendingWithin(P)
  BY RecycledWithin DEF TypeOK
<1>5. TransportsWithin(transport) /\ PendingWithin(pending)
  BY DEF TransportsWithin, PendingWithin, TypeOK, RequestTypeOK
<1>6. SUFFICES PayloadsKept /\ \E a : Kept(a)
  BY ProceedMatches
<1>7. CASE EnqueueJoins(c)
  <2>1. PICK t \in Carriers(T, q) : Proceed(c, Answer("transferring", t))
    BY <1>7, ZenonT(40) DEF EnqueueJoins
  <2>2. transport' = T /\ ~Refused(T, P, q, p)
    BY <1>7, ZenonT(40) DEF EnqueueJoins
  <2>3. t[1] = q /\ T[t].payload = p
    <3>1. OwnRequest(T)
      BY <1>2, <2>2, ZenonT(40)
    <3> QED
      BY <1>1, <2>2, <3>1, CarrierIsOwn, ZenonT(40) DEF Refused
  <2>4. Kept(Answer("transferring", t))
    BY <2>1, <2>2, <2>3 DEF Matches, Answer
  <2> QED
    BY <1>3, <2>2, <2>4 DEF PayloadsKept
<1>8. CASE EnqueueAndDispatch(c)
  <2>1. PICK d \in {"none", "ahead", "passed"} :
          Dispatch(T, ExpiredPending(EnqueuedPending(P, q, p, d)))
    BY <1>8, Zenon DEF EnqueueAndDispatch, RowDeadlines
  <2>2. PendingWithin(ExpiredPending(EnqueuedPending(P, q, p, d)))
    BY <1>1, <1>4, EnqueuedWithin, ExpiredWithin
  <2>3. PayloadsKept
    BY <1>3, <1>4, <2>1, <2>2, DispatchPayloads, ZenonT(40)
  <2>4. Kept(Resolution(transport', pending', q, p, "loop"))
    BY <1>1, <1>2, <1>8, ResolutionMatches, ZenonT(40) DEF EnqueueAndDispatch
  <2> QED
    BY <2>3, <2>4
<1>9. CASE DispatchPass(c)
  <2>1. PayloadsKept
    BY <1>5, <1>9, ExpiredWithin, DispatchPayloads, ZenonT(40) DEF DispatchPass
  <2>2. Kept(Resolution(transport', pending', q, p, "check"))
    BY <1>1, <1>2, <1>9, ResolutionMatches, ZenonT(40) DEF DispatchPass
  <2> QED
    BY <2>1, <2>2
<1>10. CASE FindReplica(c) \/ ReadReplica(c)
  <2>1. /\ transport' = transport
        /\ caller[c].found[1] = q /\ transport[caller[c].found].payload = p
    BY <1>10, ZenonT(40) DEF FindReplica, ReadReplica, AnswersMatch, Holding, requestVars
  <2>2. PICK other \in {"route", "check"} :
          Proceed(c, AnswerFor(caller[c].found, transport[caller[c].found], other))
    BY <1>10, Zenon DEF FindReplica, ReadReplica
  <2>3. Kept(AnswerFor(caller[c].found, transport[caller[c].found], other))
    BY <2>1, <2>2, ZenonT(40) DEF Matches, AnswerFor, Answer, Holding
  <2> QED
    BY <2>1, <2>3 DEF PayloadsKept
<1>11. CASE ReadTransport(c)
  <2>1. transport' = transport
    BY <1>11, ZenonT(40) DEF ReadTransport, requestVars
  <2>2. Kept(TransportAnswer(transport, q, p, "check"))
    BY <1>1, <1>2, <1>11, <2>1, TransportAnswerMatches, ZenonT(40) DEF ReadTransport
  <2> QED
    BY <2>1, <2>2 DEF PayloadsKept
<1>12. CASE \/ FindPending(c) \/ CheckRoute(c) \/ EnqueueRefused(c) \/ ReadPending(c)
            \/ KeepWaiting(c) \/ DispatchPassRefused(c) \/ GiveUp(c)
  <2>1. transport' = transport
    BY <1>12, ZenonT(40) DEF FindPending, CheckRoute, EnqueueRefused, ReadPending, KeepWaiting, DispatchPassRefused,
                 GiveUp, requestVars
  <2>2. PICK pc : pc \notin Holding /\ Proceed(c, Answer(pc, Null))
    BY <1>12, Zenon DEF FindPending, CheckRoute, EnqueueRefused, ReadPending, KeepWaiting, DispatchPassRefused,
                 GiveUp, Holding
  <2>3. Kept(Answer(pc, Null))
    BY <2>2, NoTransportMatches
  <2> QED
    BY <2>1, <2>3 DEF PayloadsKept
<1> QED
  BY <1>7, <1>8, <1>9, <1>10, <1>11, <1>12 DEF Handle

\* A new call remembers only a transport of its own.
LEMMA StartMatches ==
  ASSUME AnswerInv, NEW c \in Callers, Start(c)
  PROVE  AnswersMatch'
<1>1. PICK use \in Uses, wait \in {"zero", "running"} : StartRequest(c, use[1], use[2], wait)
  BY DEF Start
<1>2. use[1] \in Requests /\ transport' = transport
  BY <1>1, ConstantsAssumption DEF StartRequest, requestVars
<1> DEFINE a == ExistingAnswer(use[1], use[2])
<1>3. Matches(a, transport, use[1], use[2])
  BY <1>2, ExistingAnswerMatches DEF AnswerInv, ReplayInv, Consistent
<1>4. caller' = [caller EXCEPT ![c] =
        IF a.pc = "rejected"
          THEN [IdleCaller EXCEPT !.pc = "rejected"]
          ELSE [pc |-> a.pc, request |-> use[1], payload |-> use[2], wait |-> wait, found |-> a.found]]
  BY <1>1 DEF StartRequest
<1>5. caller \in [Callers -> CallerState]
  BY DEF AnswerInv, ReplayInv, QuotaInv, TypeOK, CallerTypeOK
<1> HIDE DEF a
<1>6. ASSUME NEW x \in Callers, caller'[x].pc \in Holding
      PROVE  /\ caller'[x].found[1] = caller'[x].request
             /\ transport[caller'[x].found].payload = caller'[x].payload
  <2>1. CASE x # c
    BY <1>4, <1>5, <1>6, <2>1 DEF AnswerInv, AnswersMatch
  <2>2. CASE x = c
    BY <1>3, <1>4, <1>5, <1>6, <2>2, Zenon DEF Matches, IdleCaller, Holding
  <2> QED
    BY <2>1, <2>2
<1> QED
  BY <1>2, <1>6 DEF AnswersMatch

\* A step that moves no caller, and keeps the payloads, keeps the match.
LEMMA QuietMatches ==
  ASSUME AnswerInv, PayloadsKept, caller' = caller
  PROVE  AnswersMatch'
BY DEF AnswerInv, ReplayInv, QuotaInv, TypeOK, CallerTypeOK, AnswersMatch, PayloadsKept

\* Every step keeps the answers matching.
LEMMA NextMatches ==
  ASSUME AnswerInv, ReplayInv', [Next]_vars
  PROVE  AnswersMatch'
<1> USE DEF AnswerInv, ReplayInv, QuotaInv
<1>1. ASSUME NEW c \in Callers, CallerDeadline(c)
      PROVE  AnswersMatch'
  <2>1. transport' = transport /\ caller' = [caller EXCEPT ![c].wait = "over"]
    BY <1>1, ZenonT(40) DEF CallerDeadline, requestVars
  <2>2. caller \in [Callers -> CallerState]
    BY DEF TypeOK, CallerTypeOK
  <2>3. \A x \in Callers : /\ caller'[x].pc = caller[x].pc /\ caller'[x].found = caller[x].found
                           /\ caller'[x].request = caller[x].request
                           /\ caller'[x].payload = caller[x].payload
    BY <2>1, <2>2 DEF CallerState
  <2> QED
    BY <2>1, <2>3 DEF AnswersMatch
<1>2. ASSUME NEW c \in Callers, LoseRequester(c)
      PROVE  AnswersMatch'
  <2>1. Proceed(c, Answer("idle", Null)) /\ PayloadsKept
    BY <1>2 DEF LoseRequester, requestVars, PayloadsKept
  <2>2. Matches(Answer("idle", Null), transport', caller[c].request, caller[c].payload)
    BY NoTransportMatches DEF Holding
  <2> QED
    BY <2>1, <2>2, ProceedMatches
<1>3. ASSUME NEW c \in Callers, NEW o \in Outcomes, CompleteTransport(c, o)
      PROVE  AnswersMatch'
  <2>1. caller[c].found \in DOMAIN transport /\ caller[c].pc \in Holding
    BY <1>3, ZenonT(40) DEF CompleteTransport, TypeOK, CallerTypeOK, Holding
  <2>2. PayloadsKept
    BY <1>3, <2>1, CompletedPayloads, ZenonT(40) DEF CompleteTransport, PayloadsKept, TypeOK
  <2>3. PICK next \in {"idle", "transferring"} : Proceed(c, Answer(next, caller[c].found))
    BY <1>3, ZenonT(40) DEF CompleteTransport
  <2>4. Matches(Answer(next, caller[c].found), transport', caller[c].request, caller[c].payload)
    BY <2>1, <2>2 DEF Matches, Answer, AnswersMatch, PayloadsKept
  <2> QED
    BY <2>2, <2>3, <2>4, ProceedMatches
<1>4. ASSUME NEW t \in expiring, CleanupExpire(t)
      PROVE  AnswersMatch'
  <2>1. t \in DOMAIN transport
    BY DEF TypeOK, RequestTypeOK
  <2>2. PayloadsKept
    BY <1>4, <2>1, CompletedPayloads DEF CleanupExpire, PayloadsKept, TypeOK
  <2> QED
    BY <1>4, <2>2, QuietMatches DEF CleanupExpire, callerVars
<1>5. CASE Restart
  BY <1>5 DEF Restart, AnswersMatch, IdleCaller, Holding, requestVars
<1>6. CASE \/ \E q \in Requests : RowDeadline(q)
           \/ \E t \in DOMAIN transport : TransportAges(t)
           \/ CleanupList \/ UNCHANGED vars
  <2>1. PayloadsKept /\ caller' = caller
    BY <1>6 DEF RowDeadline, TransportAges, CleanupList, vars, requestVars, callerVars, PayloadsKept
  <2> QED
    BY <2>1, QuietMatches
<1>7. CASE ReplicaNext
  <2>1. PayloadsKept /\ caller' = caller
    BY <1>7, ReplicaKeepsRequests, ZenonT(40) DEF requestVars, callerVars, PayloadsKept
  <2> QED
    BY <2>1, QuietMatches
<1> QED
  BY <1>1, <1>2, <1>3, <1>4, <1>5, <1>6, <1>7, StartMatches, HandleMatches, ZenonT(40)
  DEF Next, RequestNext, CompletionNext

\* A caller is only answered with a transport of its own request and payload,
\* however the reads behind the answer interleave (_resolve_existing_request,
\* _resolve_pending_request_state).
THEOREM AnswersMatchCalls == Spec => []AnswerMatchesCall
<1>1. Init => AnswerInv
  BY InitConserves, InitConsistent
  DEF AnswerInv, ReplayInv, Init, AnswersMatch, IdleCaller, Holding
<1>2. AnswerInv /\ [Next]_vars => AnswerInv'
  <2>1. ReplayInv /\ [Next]_vars => ReplayInv'
    BY QuotaInductive, NextConsistent DEF ReplayInv
  <2> QED
    BY <2>1, NextMatches, ZenonT(40) DEF AnswerInv
<1>3. AnswerInv => AnswerMatchesCall
  BY DEF AnswerInv, AnswersMatch, AnswerMatchesCall, Holding
<1> QED
  BY <1>1, <1>2, <1>3, PTL DEF Spec

-----------------------------------------------------------------------------
(* Proof that the pending and the transport table together implement        *)
(* RequestLedger: every step of the scheduler is, for the requests, a step  *)
(* of the ledger or none.                                                   *)
(*                                                                          *)
(* A transaction is followed statement by statement.  Each statement moves  *)
(* the status of a request as the ledger allows, because the two tables     *)
(* agree (ReplayInv) before and after it.                                   *)

\* LedgerStatus of a request in tables T and P.
RowStatus(row) ==
  IF row.status = "in_progress" THEN "leased"
  ELSE IF TerminalFailed(row) THEN "failed"
  ELSE "succeeded"

QueueStatus(P, q) ==
  IF q \in DOMAIN P
    THEN IF P[q].state = "enqueued" THEN "queued" ELSE "abandoned"
    ELSE "absent"

StatusIn(T, P, q) ==
  IF Carriers(T, q) # {}
    THEN RowStatus(T[CHOOSE x \in Carriers(T, q) : TRUE])
    ELSE QueueStatus(P, q)

Status == [q \in Requests |-> LedgerStatus(q)]

-----------------------------------------------------------------------------
(* Reading the status.                                                     *)

\* LedgerStatus is the status in the stored tables.
LEMMA StatusOfTables ==
  ASSUME NEW q
  PROVE  /\ LedgerStatus(q) = StatusIn(transport, pending, q)
         /\ LedgerStatus(q)' = StatusIn(transport', pending', q)
<1>1. LedgerStatus(q) = StatusIn(transport, pending, q)
  BY Zenon DEF LedgerStatus, StatusIn, RowStatus, QueueStatus
<1>2. LedgerStatus(q)' = StatusIn(transport', pending', q)
  BY Zenon DEF LedgerStatus, StatusIn, RowStatus, QueueStatus
<1> QED
  BY <1>1, <1>2

\* The one carrier of a request decides, or else its row in the queue.
LEMMA StatusKnown ==
  ASSUME NEW T, NEW P, OneCarrier(T), NEW q \in Requests
  PROVE  /\ \A t \in Carriers(T, q) : StatusIn(T, P, q) = RowStatus(T[t])
         /\ Carriers(T, q) = {} => StatusIn(T, P, q) = QueueStatus(P, q)
         /\ StatusIn(T, P, q) \in Ledger!Status
<1>1. ASSUME NEW t \in Carriers(T, q)
      PROVE  StatusIn(T, P, q) = RowStatus(T[t])
  <2> DEFINE u == CHOOSE x \in Carriers(T, q) : TRUE
  <2>1. u \in Carriers(T, q)
    BY <1>1
  <2>2. u = t
    BY <1>1, <2>1, ConstantsAssumption DEF OneCarrier, Carriers
  <2> QED
    BY <1>1, <2>2, ZenonT(40) DEF StatusIn
<1>2. Carriers(T, q) = {} => StatusIn(T, P, q) = QueueStatus(P, q)
  BY DEF StatusIn
<1>3. \A row : RowStatus(row) \in Ledger!Status
  BY DEF RowStatus, Ledger!Status
<1>4. QueueStatus(P, q) \in Ledger!Status
  BY DEF QueueStatus, Ledger!Status
<1> QED
  BY <1>1, <1>2, <1>3, <1>4

\* A request whose carriers and queue row are the same has the same status.
LEMMA StatusUnmoved ==
  ASSUME NEW T, NEW U, NEW P, NEW R, NEW q, Carriers(U, q) = Carriers(T, q),
         \A u \in Carriers(T, q) : U[u] = T[u], QueueStatus(R, q) = QueueStatus(P, q)
  PROVE  StatusIn(U, R, q) = StatusIn(T, P, q)
<1> DEFINE u == CHOOSE x \in Carriers(T, q) : TRUE
<1>1. Carriers(T, q) # {} => u \in Carriers(T, q)
  BY ONLY Zenon
<1>2. Carriers(T, q) # {} => U[u] = T[u]
  BY <1>1, Zenon
<1>3. (CHOOSE x \in Carriers(U, q) : TRUE) = u
  BY ONLY Carriers(U, q) = Carriers(T, q)
<1> HIDE DEF u
<1> QED
  BY <1>2, <1>3 DEF StatusIn

-----------------------------------------------------------------------------
(* The statements of the transactions.                                     *)

\* Two statements in a row that serve a request have served it.
LEMMA ServedTransitive ==
  ASSUME NEW a, NEW b, NEW c, Ledger!Served(a, b), Ledger!Served(b, c)
  PROVE  Ledger!Served(a, c)
BY DEF Ledger!Served

\* _reconcile_request_replay_state and the insertion that follows it put a
\* request back in the queue that was absent, failed or abandoned, and leave
\* every other one as it is.
LEMMA EnqueueStatus ==
  ASSUME RequestTypeOK, Consistent(transport, pending), NEW q \in Requests, NEW p, NEW d,
         NEW T, T = RecycledTransports(transport, q),
         NEW P, P = RecycledPending(transport, pending, q),
         NEW E, E = EnqueuedPending(P, q, p, d)
  PROVE  /\ \A x \in Requests \ {q} : StatusIn(T, E, x) = StatusIn(transport, pending, x)
         /\ \/ StatusIn(T, E, q) = StatusIn(transport, pending, q)
            \/ /\ StatusIn(transport, pending, q) \in {"absent", "failed", "abandoned"}
               /\ StatusIn(T, E, q) = "queued"
<1>1. Consistent(T, P) /\ Consistent(T, E)
  BY RecycledConsistent, EnqueuedConsistent
<1>2. OneCarrier(T) /\ OneCarrier(transport) /\ Agreed(T, P) /\ Agreed(transport, pending)
  BY <1>1 DEF Consistent
<1>3. DOMAIN T = DOMAIN transport /\ Null \notin Requests
  BY ConstantsAssumption DEF RecycledTransports
<1>4. \A t \in DOMAIN transport :
        T[t] = IF transport[t].request = q /\ TerminalFailed(transport[t])
                 THEN [transport[t] EXCEPT !.request = Null] ELSE transport[t]
  BY DEF RecycledTransports
<1>5. \A t \in DOMAIN transport : transport[t] \in TransportRow
  BY DEF RequestTypeOK
<1>6. ASSUME NEW x \in Requests \ {q}
      PROVE  StatusIn(T, E, x) = StatusIn(transport, pending, x)
  <2>1. Carriers(T, x) = Carriers(transport, x)
    BY <1>3, <1>4, <1>5 DEF Carriers, TransportRow
  <2>2. \A t \in Carriers(transport, x) : T[t] = transport[t]
    BY <1>4, ZenonT(40) DEF Carriers
  <2>3. QueueStatus(E, x) = QueueStatus(pending, x)
    BY DEF QueueStatus, EnqueuedPending, RecycledPending, Without, With
  <2> QED
    BY <1>2, <2>1, <2>2, <2>3, StatusKnown
<1>7. CASE \E t \in Carriers(transport, q) : ~TerminalFailed(transport[t])
  <2>1. PICK t \in Carriers(transport, q) : ~TerminalFailed(transport[t])
    BY <1>7
  <2>2. t \in Carriers(T, q) /\ T[t] = transport[t]
    BY <1>3, <1>4, <2>1, ZenonT(40) DEF Carriers
  <2>3. StatusIn(T, E, q) = StatusIn(transport, pending, q)
    BY <1>2, <2>1, <2>2, StatusKnown
  <2> QED
    BY <1>6, <2>3
<1>8. CASE \A t \in Carriers(transport, q) : TerminalFailed(transport[t])
  <2>1. Carriers(T, q) = {}
    BY <1>3, <1>4, <1>5, <1>8 DEF Carriers, TransportRow
  <2>2. StatusIn(T, E, q) = QueueStatus(E, q)
    BY <1>2, <2>1, StatusKnown
  <2>3. CASE q \in EnqueuedIn(pending)
    <3>1. Carriers(transport, q) = {} /\ E = pending
      BY <1>2, <2>3, ZenonT(40) DEF EnqueuedIn, Agreed, EnqueuedPending, RecycledPending
    <3> QED
      BY <1>2, <1>6, <2>2, <3>1, StatusKnown
  <2>4. CASE q \notin EnqueuedIn(pending)
    <3>1. q \notin DOMAIN P
      BY <1>8, <2>4 DEF EnqueuedIn, RecycledPending, Without
    <3>2. QueueStatus(E, q) = "queued"
      BY <3>1 DEF QueueStatus, EnqueuedPending, With
    <3>3. CASE Carriers(transport, q) = {}
      <4>1. StatusIn(transport, pending, q) = QueueStatus(pending, q)
        BY <1>2, <3>3, StatusKnown, Zenon
      <4>2. QueueStatus(pending, q) \in {"absent", "abandoned"}
        BY <2>4, Zenon DEF QueueStatus, EnqueuedIn
      <4> QED
        BY <1>6, <2>2, <3>2, <4>1, <4>2, Zenon
    <3>4. CASE Carriers(transport, q) # {}
      <4>1. PICK t \in Carriers(transport, q) : TRUE
        BY <3>4
      <4>2. RowStatus(transport[t]) = "failed"
        BY <1>8, <4>1, ZenonT(40) DEF RowStatus, TerminalFailed
      <4> QED
        BY <1>2, <1>6, <2>2, <3>2, <4>1, <4>2, StatusKnown
    <3> QED
      BY <3>3, <3>4
  <2> QED
    BY <2>3, <2>4
<1> QED
  BY <1>7, <1>8

\* expire_enqueued_deadlines abandons queued requests and touches no other.
LEMMA ExpiredStatus ==
  ASSUME NEW T, NEW P, PendingWithin(P), Consistent(T, P), NEW x \in Requests
  PROVE  Ledger!Served(StatusIn(T, P, x), StatusIn(T, ExpiredPending(P), x))
<1>1. OneCarrier(T)
  BY DEF Consistent
<1>2. CASE Carriers(T, x) # {}
  BY <1>1, <1>2, StatusKnown DEF Ledger!Served
<1>3. CASE Carriers(T, x) = {}
  <2>1. Ledger!Served(QueueStatus(P, x), QueueStatus(ExpiredPending(P), x))
    BY DEF Ledger!Served, QueueStatus, ExpiredPending, PendingWithin, PendingRow
  <2> QED
    BY <1>1, <1>3, <2>1, StatusKnown
<1> QED
  BY <1>2, <1>3

\* A dispatch leases queued requests and touches no other.
LEMMA DispatchStatus ==
  ASSUME TypeOK, FreshIds, NEW T, NEW P, TransportsWithin(T), PendingWithin(P),
         Consistent(T, P), Dispatch(T, P), NEW x \in Requests
  PROVE  Ledger!Served(StatusIn(T, P, x), StatusIn(transport', pending', x))
<1>1. PICK served, src : Dispatches(T, P, served, src)
  BY DispatchEffect
<1>2. Consistent(transport', pending')
  BY DispatchConsistent
<1>3. OneCarrier(T) /\ OneCarrier(transport') /\ Agreed(T, P) /\ OwnRequest(T)
  BY <1>2 DEF Consistent
<1> DEFINE new == Opened(T, served)
           t == <<x, attempts[x] + 1>>
<1>4. served \subseteq Requests /\ served \subseteq EnqueuedIn(P) /\ attempts \in [Requests -> Nat]
  BY <1>1, Zenon DEF Dispatches, TypeOK, RequestTypeOK
<1>5. \A u \in new : u[1] \in served /\ u[2] = attempts[u[1]] + 1 /\ attempts[u[1]] \in Nat
  BY <1>4 DEF Opened
<1>6. DOMAIN T \cap new = {}
  BY <1>5 DEF FreshIds, TransportsWithin
<1>7. CASE x \in served
  <2>1. Carriers(T, x) = {} /\ QueueStatus(P, x) = "queued"
    BY <1>3, <1>4, <1>7, ZenonT(40) DEF EnqueuedIn, Agreed, QueueStatus
  <2>2. t \in new
    BY <1>7, <2>1, Zenon DEF Opened
  <2>3. t \in Carriers(transport', x) /\ transport'[t].status = "in_progress"
    BY <1>1, <2>2 DEF Dispatches, Carriers
  <2>4. StatusIn(transport', pending', x) = "leased"
    BY <1>3, <2>3, StatusKnown, ZenonT(40) DEF RowStatus
  <2> QED
    BY <1>3, <2>1, <2>4, StatusKnown DEF Ledger!Served
<1>8. CASE x \notin served
  <2>1. Carriers(transport', x) = Carriers(T, x)
    BY <1>1, <1>5, <1>6, <1>8 DEF Dispatches, Carriers
  <2>2. \A u \in Carriers(T, x) : transport'[u] = T[u]
    BY <1>1, <1>6 DEF Dispatches, Carriers
  <2>3. QueueStatus(pending', x) = QueueStatus(P, x)
    BY <1>1, <1>8 DEF Dispatches, QueueStatus
  <2>4. StatusIn(transport', pending', x) = StatusIn(T, P, x)
    BY ONLY <2>1, <2>2, <2>3, StatusUnmoved
  <2> QED
    BY <2>4 DEF Ledger!Served
<1> QED
  BY <1>7, <1>8

\* A completion ends the lease of the one request it belongs to, and a late or
\* repeated one ends nothing.
LEMMA CompletionStatus ==
  ASSUME RequestTypeOK, Consistent(transport, pending), Consistent(transport', pending'),
         NEW t \in DOMAIN transport, NEW o \in AllOutcomes, CompleteInTx(t, o), pending' = pending
  PROVE  \/ \A x \in Requests : LedgerStatus(x)' = LedgerStatus(x)
         \/ /\ LedgerStatus(t[1]) = "leased"
            /\ LedgerStatus(t[1])' \in {"succeeded", "failed"}
            /\ \A x \in Requests \ {t[1]} : LedgerStatus(x)' = LedgerStatus(x)
<1>1. /\ OneCarrier(transport) /\ OneCarrier(transport') /\ OwnRequest(transport)
  BY Zenon DEF Consistent
<1>2. CASE transport[t].status # "in_progress"
  <2>1. transport' = transport
    BY <1>2, Zenon DEF CompleteInTx, CompletedTransports
  <2> QED
    BY <2>1, StatusOfTables
<1>3. CASE transport[t].status = "in_progress"
  <2>1. transport' = [transport EXCEPT ![t].status = "completed", ![t].outcome = o]
    BY <1>3 DEF CompleteInTx, CompletedTransports
  <2>2. DOMAIN transport' = DOMAIN transport /\ \A u \in DOMAIN transport : transport[u] \in TransportRow
    BY <2>1 DEF RequestTypeOK
  <2>3. \A u \in DOMAIN transport \ {t} : transport'[u] = transport[u]
    BY <2>1
  <2>4. /\ transport'[t].request = transport[t].request
        /\ transport'[t].status = "completed" /\ transport'[t].outcome = o
    BY <2>1, <2>2, ZenonT(40) DEF TransportRow
  <2>5. transport[t].request = t[1] /\ t[1] \in Requests
    BY <1>1, <1>3, Zenon DEF OwnRequest, RequestTypeOK, TransportId
  <2>6. t \in Carriers(transport, t[1]) /\ t \in Carriers(transport', t[1])
    BY <2>2, <2>4, <2>5 DEF Carriers
  <2>7. StatusIn(transport, pending, t[1]) = "leased"
    BY <1>1, <1>3, <2>5, <2>6, StatusKnown, ZenonT(40) DEF RowStatus
  <2>8. StatusIn(transport', pending', t[1]) \in {"succeeded", "failed"}
    BY <1>1, <2>4, <2>5, <2>6, StatusKnown, ZenonT(40) DEF RowStatus
  <2>9. ASSUME NEW x \in Requests \ {t[1]}
        PROVE  StatusIn(transport', pending', x) = StatusIn(transport, pending, x)
    <3>1. Carriers(transport', x) = Carriers(transport, x) /\ t \notin Carriers(transport, x)
      BY <2>2, <2>3, <2>4, <2>5, <2>9, ZenonT(40) DEF Carriers
    <3>2. \A u \in Carriers(transport, x) : transport'[u] = transport[u]
      BY <2>3, <3>1 DEF Carriers
    <3>3. QueueStatus(pending', x) = QueueStatus(pending, x)
      BY Zenon
    <3> QED
      BY ONLY <3>1, <3>2, <3>3, StatusUnmoved
  <2> QED
    BY <2>7, <2>8, <2>9, StatusOfTables
<1> QED
  BY <1>2, <1>3

-----------------------------------------------------------------------------
(* The steps of the ledger.                                                *)

\* Status takes values of the ledger.
LEMMA StatusTyped ==
  ASSUME NEW x
  PROVE  LedgerStatus(x) \in Ledger!Status /\ LedgerStatus(x)' \in Ledger!Status
<1>1. \A row : RowStatus(row) \in Ledger!Status
  BY DEF RowStatus, Ledger!Status
<1>2. \A P : QueueStatus(P, x) \in Ledger!Status
  BY DEF QueueStatus, Ledger!Status
<1> QED
  BY <1>1, <1>2, StatusOfTables, ZenonT(40) DEF StatusIn

\* Requests that are served are a step of the ledger.
LEMMA ServeStep ==
  ASSUME \A x \in Requests : Ledger!Served(LedgerStatus(x), LedgerStatus(x)')
  PROVE  Ledger!Next
<1>1. Status' \in [Requests -> Ledger!Status]
  BY StatusTyped DEF Status
<1>2. Ledger!Serve
  BY DEF Ledger!Serve
<1> QED
  BY <1>1, <1>2 DEF Ledger!Next, Status

\* So is one that enters the queue while others are served.
LEMMA SubmitStep ==
  ASSUME NEW q \in Requests, LedgerStatus(q) \in {"absent", "failed", "abandoned"},
         LedgerStatus(q)' \in {"queued", "leased", "abandoned"},
         \A x \in Requests \ {q} : Ledger!Served(LedgerStatus(x), LedgerStatus(x)')
  PROVE  Ledger!Next
<1>1. Status' \in [Requests -> Ledger!Status]
  BY StatusTyped DEF Status
<1>2. Ledger!Submit(q)
  BY DEF Ledger!Submit
<1> QED
  BY <1>1, <1>2 DEF Ledger!Next, Status

\* So is one whose lease ends.
LEMMA FinishStep ==
  ASSUME NEW q \in Requests, LedgerStatus(q) = "leased", LedgerStatus(q)' \in {"succeeded", "failed"},
         \A x \in Requests \ {q} : LedgerStatus(x)' = LedgerStatus(x)
  PROVE  Ledger!Next
<1>1. Status' \in [Requests -> Ledger!Status]
  BY StatusTyped DEF Status
<1>2. Status' = [Status EXCEPT ![q] = LedgerStatus(q)']
  BY Zenon DEF Status
<1>3. Ledger!Finish(q)
  BY <1>2, ZenonT(40) DEF Ledger!Finish, Status
<1> QED
  BY <1>1, <1>3 DEF Ledger!Next, Status

\* A step that leaves both tables alone leaves the ledger alone.
LEMMA QuietStep ==
  ASSUME transport' = transport, pending' = pending
  PROVE  UNCHANGED Status
BY StatusOfTables DEF Status

\* The enqueue transaction, whether or not it dispatches: T and P are the
\* tables after its first statements, E with the row inserted.
LEMMA EnqueueStep ==
  ASSUME RequestTypeOK, Consistent(transport, pending), NEW q \in Requests, NEW p, NEW d,
         NEW T, T = RecycledTransports(transport, q),
         NEW P, P = RecycledPending(transport, pending, q),
         NEW E, E = EnqueuedPending(P, q, p, d),
         \A x \in Requests : Ledger!Served(StatusIn(T, E, x), StatusIn(transport', pending', x))
  PROVE  Ledger!Next
<1>1. \A x \in Requests \ {q} : Ledger!Served(LedgerStatus(x), LedgerStatus(x)')
  BY EnqueueStatus, StatusOfTables
<1>2. CASE StatusIn(T, E, q) = StatusIn(transport, pending, q)
  BY <1>1, <1>2, StatusOfTables, ServeStep, Zenon
<1>3. CASE /\ StatusIn(transport, pending, q) \in {"absent", "failed", "abandoned"}
           /\ StatusIn(T, E, q) = "queued"
  <2>1. LedgerStatus(q)' \in {"queued", "leased", "abandoned"}
    BY <1>3, StatusOfTables DEF Ledger!Served
  <2>2. LedgerStatus(q) \in {"absent", "failed", "abandoned"}
    BY <1>3, StatusOfTables
  <2> QED
    BY <1>1, <2>1, <2>2, SubmitStep, Zenon
<1> QED
  BY <1>2, <1>3, EnqueueStatus

\* Every step of a handler is a step of the ledger or none.
LEMMA HandleStep ==
  ASSUME ReplayInv, NEW c \in Callers, Handle(c)
  PROVE  Ledger!Next \/ UNCHANGED Status
<1> DEFINE q == caller[c].request
           p == caller[c].payload
           T == RecycledTransports(transport, q)
           P == RecycledPending(transport, pending, q)
<1> USE DEF ReplayInv, QuotaInv
<1>1. RequestTypeOK /\ CallerTypeOK
  BY DEF TypeOK
<1>2. TransportsWithin(T) /\ PendingWithin(P)
  BY <1>1, RecycledWithin
<1>3. CASE EnqueueJoins(c)
  <2>1. q \in Requests /\ transport' = T
    BY <1>1, <1>3, ZenonT(40) DEF EnqueueJoins, Resting, CallerTypeOK
  <2>2. PICK d : pending' = EnqueuedPending(P, q, p, d)
    BY <1>3, ZenonT(40) DEF EnqueueJoins
  <2>3. \A x \in Requests : Ledger!Served(StatusIn(T, EnqueuedPending(P, q, p, d), x),
                                          StatusIn(transport', pending', x))
    BY <2>1, <2>2 DEF Ledger!Served
  <2> QED
    BY <1>1, <2>1, <2>3, EnqueueStep
<1>4. CASE EnqueueAndDispatch(c)
  <2>1. q \in Requests /\ p \in Payloads
    BY <1>1, <1>4, ZenonT(40) DEF EnqueueAndDispatch, Resting, CallerTypeOK
  <2>2. PICK d \in {"none", "ahead", "passed"} :
          Dispatch(T, ExpiredPending(EnqueuedPending(P, q, p, d)))
    BY <1>4, ZenonT(40) DEF EnqueueAndDispatch, RowDeadlines
  <2> DEFINE E == EnqueuedPending(P, q, p, d)
  <2>3. PendingWithin(E) /\ Consistent(T, E)
    BY <1>1, <1>2, <2>1, EnqueuedWithin, RecycledConsistent, EnqueuedConsistent, ZenonT(40)
  <2>4. PendingWithin(ExpiredPending(E)) /\ Consistent(T, ExpiredPending(E))
    BY <2>3, ExpiredWithin, ExpiredConsistent
  <2>5. ASSUME NEW x \in Requests
        PROVE  Ledger!Served(StatusIn(T, E, x), StatusIn(transport', pending', x))
    <3>1. Ledger!Served(StatusIn(T, E, x), StatusIn(T, ExpiredPending(E), x))
      BY <2>3, ExpiredStatus
    <3>2. Ledger!Served(StatusIn(T, ExpiredPending(E), x), StatusIn(transport', pending', x))
      BY <1>2, <2>2, <2>4, DispatchStatus, ZenonT(40)
    <3> QED
      BY <3>1, <3>2, ServedTransitive, ZenonT(40)
  <2> QED
    BY <1>1, <2>1, <2>5, EnqueueStep
<1>5. CASE DispatchPass(c)
  <2>1. TransportsWithin(transport) /\ PendingWithin(pending)
    BY <1>1 DEF TransportsWithin, PendingWithin, RequestTypeOK
  <2>2. PendingWithin(ExpiredPending(pending)) /\ Consistent(transport, ExpiredPending(pending))
    BY <2>1, ExpiredWithin, ExpiredConsistent
  <2>3. ASSUME NEW x \in Requests
        PROVE  Ledger!Served(StatusIn(transport, pending, x), StatusIn(transport', pending', x))
    <3>1. Ledger!Served(StatusIn(transport, pending, x), StatusIn(transport, ExpiredPending(pending), x))
      BY <2>1, ExpiredStatus
    <3>2. Ledger!Served(StatusIn(transport, ExpiredPending(pending), x), StatusIn(transport', pending', x))
      BY <1>5, <2>1, <2>2, DispatchStatus, ZenonT(40) DEF DispatchPass
    <3> QED
      BY <3>1, <3>2, ServedTransitive
  <2> QED
    BY <2>3, StatusOfTables, ServeStep
<1>6. CASE GiveUp(c)
  <2>1. transport' = transport /\ pending' = CancelledPending(pending, q) /\ OneCarrier(transport)
    BY <1>6, ZenonT(40) DEF GiveUp, Consistent
  <2>2. \A x \in Requests : Ledger!Served(QueueStatus(pending, x), QueueStatus(pending', x))
    BY <1>1, <2>1 DEF Ledger!Served, QueueStatus, CancelledPending, EnqueuedIn, RequestTypeOK, PendingRow
  <2>3. ASSUME NEW x \in Requests
        PROVE  Ledger!Served(StatusIn(transport, pending, x), StatusIn(transport', pending', x))
    <3>1. CASE Carriers(transport, x) = {}
      BY <2>1, <2>2, <3>1, StatusKnown
    <3>2. CASE Carriers(transport, x) # {}
      BY <2>1, <3>2, StatusKnown DEF Ledger!Served
    <3> QED
      BY <3>1, <3>2, Zenon
  <2> QED
    BY <2>3, StatusOfTables, ServeStep
<1>7. CASE \/ FindReplica(c) \/ FindPending(c) \/ CheckRoute(c) \/ EnqueueRefused(c)
           \/ ReadPending(c) \/ ReadTransport(c) \/ ReadReplica(c) \/ KeepWaiting(c)
           \/ DispatchPassRefused(c)
  <2>1. transport' = transport /\ pending' = pending
    BY <1>7, ZenonT(40) DEF FindReplica, FindPending, CheckRoute, EnqueueRefused, ReadPending, ReadTransport,
                ReadReplica, KeepWaiting, DispatchPassRefused, requestVars
  <2> QED
    BY <2>1, QuietStep
<1> QED
  BY <1>3, <1>4, <1>5, <1>6, <1>7 DEF Handle

\* A completion is a step of the ledger or none.
LEMMA CompletionStep ==
  ASSUME ReplayInv, ReplayInv', NEW t \in DOMAIN transport, NEW o \in AllOutcomes,
         CompleteInTx(t, o), pending' = pending
  PROVE  Ledger!Next \/ UNCHANGED Status
<1>1. RequestTypeOK /\ Consistent(transport, pending) /\ Consistent(transport', pending')
  BY DEF ReplayInv, QuotaInv, TypeOK
<1>2. t[1] \in Requests
  BY <1>1, Zenon DEF RequestTypeOK, TransportId
<1>3. CASE \A x \in Requests : LedgerStatus(x)' = LedgerStatus(x)
  BY <1>3, Zenon DEF Status
<1>4. CASE /\ LedgerStatus(t[1]) = "leased"
           /\ LedgerStatus(t[1])' \in {"succeeded", "failed"}
           /\ \A x \in Requests \ {t[1]} : LedgerStatus(x)' = LedgerStatus(x)
  BY <1>2, <1>4, FinishStep, Zenon
<1> QED
  BY <1>1, <1>3, <1>4, CompletionStatus, ZenonT(40)

\* Every step of the scheduler is a step of the ledger or none.
LEMMA NextStep ==
  ASSUME ReplayInv, ReplayInv', [Next]_vars
  PROVE  Ledger!Next \/ UNCHANGED Status
<1> USE DEF ReplayInv, QuotaInv, TypeOK
<1>1. ASSUME NEW c \in Callers, Start(c) \/ CallerDeadline(c) \/ LoseRequester(c)
      PROVE  UNCHANGED Status
  BY <1>1, QuietStep DEF Start, StartRequest, CallerDeadline, LoseRequester, requestVars
<1>2. ASSUME NEW q \in Requests, RowDeadline(q)
      PROVE  UNCHANGED Status
  <2>1. transport' = transport /\ pending' = [pending EXCEPT ![q].deadline = "passed"]
    BY <1>2 DEF RowDeadline
  <2>2. \A x \in Requests : QueueStatus(pending', x) = QueueStatus(pending, x)
    BY <2>1 DEF QueueStatus, RequestTypeOK, PendingRow
  <2>3. ASSUME NEW x \in Requests
        PROVE  StatusIn(transport', pending', x) = StatusIn(transport, pending, x)
    <3>1. CASE Carriers(transport, x) = {}
      <4>1. StatusIn(transport, pending, x) = QueueStatus(pending, x)
        BY <3>1 DEF StatusIn
      <4>2. StatusIn(transport, pending', x) = QueueStatus(pending', x)
        BY <3>1 DEF StatusIn
      <4> QED
        BY <2>1, <2>2, <4>1, <4>2, ZenonT(40)
    <3>2. CASE Carriers(transport, x) # {}
      BY <2>1, <3>2, StatusKnown DEF Consistent
    <3> QED
      BY <3>1, <3>2
  <2> QED
    BY <2>3, StatusOfTables DEF Status
<1>3. ASSUME NEW c \in Callers, NEW o \in Outcomes, CompleteTransport(c, o)
      PROVE  Ledger!Next \/ UNCHANGED Status
  <2>1. caller[c].found \in DOMAIN transport /\ o \in AllOutcomes
    BY <1>3, ConstantsAssumption, ZenonT(40) DEF CompleteTransport, CallerTypeOK, Holding
  <2> QED
    BY <1>3, <2>1, CompletionStep DEF CompleteTransport
<1>4. ASSUME NEW t \in expiring, CleanupExpire(t)
      PROVE  Ledger!Next \/ UNCHANGED Status
  <2>1. t \in DOMAIN transport /\ "expired" \in AllOutcomes
    BY DEF RequestTypeOK, AllOutcomes
  <2> QED
    BY <1>4, <2>1, CompletionStep DEF CleanupExpire
<1>5. CASE (\E t \in DOMAIN transport : TransportAges(t)) \/ CleanupList \/ Restart \/ UNCHANGED vars
  BY <1>5, QuietStep DEF TransportAges, CleanupList, Restart, requestVars, vars
<1>6. CASE ReplicaNext
  BY <1>6, ReplicaKeepsRequests, QuietStep DEF requestVars
<1> QED
  BY <1>1, <1>2, <1>3, <1>4, <1>5, <1>6, HandleStep, Zenon DEF Next, RequestNext, CompletionNext

\* The two tables of the scheduler implement the life of an idempotency key:
\* one lease at a time that ends once, a success that is final, and re-entry
\* only after failure or abandonment, for any number of requests, callers,
\* replicas and restarts.
THEOREM LedgerIsImplemented == Spec => LedgerImplemented
<1>1. Init => Ledger!Init
  BY DEF Init, EmptyTable, Ledger!Init, LedgerStatus, Carriers
<1>2. ReplayInv /\ ReplayInv' /\ [Next]_vars => [Ledger!Next]_Status
  BY NextStep
<1>3. Ledger!Spec <=> Ledger!Init /\ [][Ledger!Next]_Status
  BY DEF Ledger!Spec, Status
<1> QED
  BY <1>1, <1>2, <1>3, ReplayInvariant, PTL DEF Spec, LedgerImplemented

=============================================================================

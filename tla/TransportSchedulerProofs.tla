---------------------- MODULE TransportSchedulerProofs ----------------------
(***************************************************************************)
(* Proofs about TransportScheduler for every value of its constants.       *)
(***************************************************************************)
EXTENDS TransportScheduler, FiniteSetTheorems, TLAPS

PCs == Waiting \cup Resting \cup {"transferring"}

\* An answer that a caller can be left with when D are the known transports.
GoodAnswer(a, D) ==
  /\ a.pc \in PCs
  /\ a.found \in TransportId \cup {Null}
  /\ a.pc \in Holding => a.found \in D

-----------------------------------------------------------------------------
(* What the reads of request_transport can answer.                         *)

\* An answer is good when the transport it names, if any, is known.
LEMMA AnswersGood ==
  ASSUME NEW D, D \subseteq TransportId, NEW pc \in PCs
  PROVE  /\ pc \notin Holding => GoodAnswer(Answer(pc, Null), D)
         /\ \A t \in D : GoodAnswer(Answer(pc, t), D)
BY DEF GoodAnswer, Answer

\* AnswerFor answers with the transport it was given or with none.
LEMMA AnswerForGood ==
  ASSUME NEW D, D \subseteq TransportId, NEW t \in D, NEW row,
         NEW otherwise \in PCs \ Holding
  PROVE  GoodAnswer(AnswerFor(t, row, otherwise), D)
BY DEF GoodAnswer, AnswerFor, Answer, PCs, Waiting, Resting, Holding

\* The transport found under a request id is a row of the table.
LEMMA TransportAnswerGood ==
  ASSUME NEW T, DOMAIN T \subseteq TransportId, NEW q, NEW p,
         NEW unresolved \in {"check", "loop"}
  PROVE  GoodAnswer(TransportAnswer(T, q, p, unresolved), DOMAIN T)
<1>1. CASE Carriers(T, q) = {}
  BY <1>1 DEF TransportAnswer, GoodAnswer, Answer, PCs, Waiting, Resting, Holding
<1>2. CASE Carriers(T, q) # {}
  <2>1. PICK t \in DOMAIN T : TransportAnswer(T, q, p, unresolved) \in
          {Answer("timed_out", Null), Answer("rejected", Null), Answer("read_replica", t)}
    BY <1>2, Zenon DEF TransportAnswer, Carriers
  <2> QED
    BY <2>1, AnswersGood DEF PCs, Waiting, Resting, Holding
<1> QED
  BY <1>1, <1>2

\* So is the one a transaction resolves a request to.
LEMMA ResolutionGood ==
  ASSUME NEW T, DOMAIN T \subseteq TransportId, NEW P, NEW q, NEW p,
         NEW unresolved \in {"check", "loop"}
  PROVE  GoodAnswer(Resolution(T, P, q, p, unresolved), DOMAIN T)
<1> DEFINE a == TransportAnswer(T, q, p, unresolved)
<1>1. GoodAnswer(a, DOMAIN T)
  BY TransportAnswerGood
<1>2. a.pc = "read_replica" => a.found \in DOMAIN T
  BY <1>1 DEF GoodAnswer, Holding
<1>3. a.pc = "read_replica" => GoodAnswer(AnswerFor(a.found, T[a.found], unresolved), DOMAIN T)
  BY <1>2, AnswerForGood DEF PCs, Waiting, Holding
<1>4. GoodAnswer(Answer("timed_out", Null), DOMAIN T) /\ GoodAnswer(Answer(unresolved, Null), DOMAIN T)
  BY DEF GoodAnswer, Answer, PCs, Waiting, Resting, Holding
<1> QED
  BY <1>1, <1>3, <1>4 DEF Resolution

\* The first read of _resolve_existing_request.
LEMMA ExistingAnswerGood ==
  ASSUME RequestTypeOK, NEW q, NEW p
  PROVE  GoodAnswer(ExistingAnswer(q, p), DOMAIN transport)
<1>1. CASE Carriers(transport, q) = {}
  BY <1>1 DEF ExistingAnswer, GoodAnswer, Answer, PCs, Waiting, Resting, Holding
<1>2. CASE Carriers(transport, q) # {}
  <2>1. PICK t \in DOMAIN transport : ExistingAnswer(q, p) \in
          {Answer("route", Null), Answer("rejected", Null), Answer("find_replica", t)}
    BY <1>2, Zenon DEF ExistingAnswer, Carriers
  <2> QED
    BY <2>1, AnswersGood DEF PCs, Waiting, Resting, Holding, RequestTypeOK
<1> QED
  BY <1>1, <1>2

\* A step that leaves a caller with a good answer keeps the callers typed.
LEMMA ProceedTyped ==
  ASSUME CallerTypeOK, NEW c \in Callers, caller[c].pc \notin Resting, NEW a,
         GoodAnswer(a, DOMAIN transport'), Proceed(c, a), calls' = calls,
         DOMAIN transport \subseteq DOMAIN transport'
  PROVE  CallerTypeOK'
<1>1. PICK d \in CallerState : d = caller'[c] /\ (d.pc \notin Resting =>
        /\ d.request \in Requests
        /\ d.payload \in Payloads
        /\ d.pc \in Holding => d.found \in DOMAIN transport')
  <2>1. caller[c] \in CallerState
    BY DEF CallerTypeOK
  <2>2. CASE a.pc \in Resting
    <3>1. caller'[c] = [IdleCaller EXCEPT !.pc = a.pc]
      BY <2>2 DEF Proceed, CallerTypeOK
    <3>2. caller'[c] \in CallerState /\ caller'[c].pc \in Resting
      BY <2>2, <3>1 DEF IdleCaller, CallerState
    <3> QED
      BY <3>2
  <2>3. CASE a.pc \notin Resting
    <3>1. caller'[c] = [caller[c] EXCEPT !.pc = a.pc, !.found = a.found]
      BY <2>3 DEF Proceed, CallerTypeOK
    <3>2. caller'[c] \in CallerState
      BY <2>1, <3>1, Zenon DEF CallerState, GoodAnswer, PCs
    <3>3. /\ caller'[c].request = caller[c].request
          /\ caller'[c].payload = caller[c].payload
          /\ caller'[c].pc = a.pc
          /\ caller'[c].found = a.found
      BY <2>1, <3>1 DEF CallerState
    <3> QED
      BY <3>2, <3>3 DEF CallerTypeOK, GoodAnswer
  <2> QED
    BY <2>2, <2>3
<1>2. caller' = [caller EXCEPT ![c] = caller'[c]]
  BY DEF Proceed, CallerTypeOK
<1>3. d.pc \in Resting => d.pc \notin Holding
  BY DEF Resting, Holding
<1> QED
  BY <1>1, <1>2, <1>3 DEF CallerTypeOK

-----------------------------------------------------------------------------
(* The dispatch transaction.  Its two tables are the stored ones as the      *)
(* earlier statements of the transaction have changed them.                  *)

\* The transport table inside a transaction: the same rows, on the same
\* replicas and in the same status.
TransportsWithin(T) ==
  /\ DOMAIN T = DOMAIN transport
  /\ \A t \in DOMAIN T : /\ T[t] \in TransportRow
                         /\ T[t].replica = transport[t].replica
                         /\ T[t].status = transport[t].status

PendingWithin(P) ==
  /\ DOMAIN P \subseteq Requests
  /\ \A q \in DOMAIN P : P[q] \in PendingRow

\* The ids that a dispatch of the requests in served opens, and those of them
\* on one source.
Opened(T, served) == {<<q, attempts[q] + 1>> : q \in {x \in served : Carriers(T, x) = {}}}
OpenedOn(T, served, src, r) == {t \in Opened(T, served) : src[t[1]] = r}

\* A dispatch opens finitely many transports, all with ids not used before.
LEMMA OpenedFinite ==
  ASSUME NEW T, NEW served, served \subseteq Requests, attempts \in [Requests -> Nat]
  PROVE  /\ Opened(T, served) \subseteq TransportId
         /\ IsFiniteSet(Opened(T, served))
         /\ \A src, r : /\ IsFiniteSet(OpenedOn(T, served, src, r))
                        /\ Cardinality(OpenedOn(T, served, src, r)) \in Nat
<1> DEFINE S == {x \in served : Carriers(T, x) = {}}
           f == [q \in S |-> <<q, attempts[q] + 1>>]
<1>1. Opened(T, served) \subseteq TransportId
  BY DEF Opened, TransportId
<1>2. S \subseteq Requests
  OBVIOUS
<1>3. IsFiniteSet(S)
  BY <1>2, FS_Subset, ConstantsAssumption
<1>4. f \in Surjection(S, Opened(T, served))
  BY DEF Surjection, Opened
<1>5. IsFiniteSet(Opened(T, served))
  BY <1>3, <1>4, FS_Surjection
<1>6. ASSUME NEW src, NEW r
      PROVE  /\ IsFiniteSet(OpenedOn(T, served, src, r))
             /\ Cardinality(OpenedOn(T, served, src, r)) \in Nat
  <2>1. OpenedOn(T, served, src, r) \subseteq Opened(T, served)
    BY DEF OpenedOn
  <2> QED
    BY <2>1, <1>5, FS_Subset, FS_CardinalityType
<1> QED
  BY <1>1, <1>5, <1>6

\* What a dispatch of the requests in served, each from its source in src,
\* does to the four tables it writes.
Dispatches(T, P, served, src) ==
  /\ served \subseteq Requests
  /\ served \subseteq EnqueuedIn(P)
  /\ src \in [served -> DOMAIN replica]
  /\ \A q \in served : src[q] \in DOMAIN counter /\ counter'[src[q]] <= replica[src[q]].max
  /\ counter' = [r \in DOMAIN counter |->
                   counter[r] + Cardinality(OpenedOn(T, served, src, r))]
  /\ transport' = [t \in DOMAIN T \cup Opened(T, served) |->
       IF t \in Opened(T, served)
         THEN [replica |-> src[t[1]], request |-> t[1], payload |-> P[t[1]].payload,
               status |-> "in_progress", outcome |-> Null]
         ELSE T[t]]
  /\ attempts' = [q \in Requests |->
       IF <<q, attempts[q] + 1>> \in Opened(T, served) THEN attempts[q] + 1 ELSE attempts[q]]
  /\ pending' = [q \in DOMAIN P |->
       IF q \in served THEN [P[q] EXCEPT !.state = "dispatched"] ELSE P[q]]

\* Dispatch is such a dispatch.
LEMMA DispatchEffect ==
  ASSUME NEW T, NEW P, PendingWithin(P), Dispatch(T, P)
  PROVE  \E served, src : Dispatches(T, P, served, src)
<1>1. EnqueuedIn(P) \subseteq Requests
  BY DEF EnqueuedIn, PendingWithin
<1>2. PICK scanned \in Scans(P) : \E served \in SUBSET scanned :
             \E src \in [served -> DOMAIN replica] : Serve(T, P, scanned, served, src)
  BY DEF Dispatch
<1>3. PICK served \in SUBSET scanned :
             \E src \in [served -> DOMAIN replica] : Serve(T, P, scanned, served, src)
  BY <1>2
<1>4. PICK src \in [served -> DOMAIN replica] : Serve(T, P, scanned, served, src)
  BY <1>3
<1>5. served \subseteq EnqueuedIn(P)
  BY DEF Scans
<1>6. Dispatches(T, P, served, src)
  BY <1>1, <1>4, <1>5, Zenon DEF Serve, Dispatches, Opened, OpenedOn, WithinConcurrency
<1> QED
  BY <1>6

\* A dispatch writes rows of the schema.
LEMMA DispatchTyped ==
  ASSUME ReplicaTypeOK, RequestTypeOK, NEW T, NEW P, TransportsWithin(T), PendingWithin(P),
         Dispatch(T, P),
         UNCHANGED <<replica, incarnation, unregistering, opening, restarts, cleanupVars>>
  PROVE  ReplicaTypeOK' /\ RequestTypeOK' /\ DOMAIN transport \subseteq DOMAIN transport'
<1>1. PICK served, src : Dispatches(T, P, served, src)
  BY DispatchEffect
<1>2. Opened(T, served) \subseteq TransportId
  BY <1>1, OpenedFinite DEF RequestTypeOK, Dispatches
<1> USE <1>1 DEF Dispatches
<1>3. \A r : Cardinality(OpenedOn(T, served, src, r)) \in Nat
  BY OpenedFinite DEF RequestTypeOK
<1>4. \A r \in DOMAIN counter : counter[r] \in Nat
  BY DEF ReplicaTypeOK
<1>5. DOMAIN counter' = DOMAIN counter /\ \A r \in DOMAIN counter' : counter'[r] \in Nat
  BY <1>3, <1>4
<1>6. ReplicaTypeOK'
  BY <1>5 DEF ReplicaTypeOK
<1>7. \A t \in Opened(T, served) : t[1] \in served
  BY DEF Opened
<1>8. \A q \in served : src[q] \in ReplicaId /\ q \in Requests /\ q \in DOMAIN P /\ P[q] \in PendingRow
  BY DEF ReplicaTypeOK, PendingWithin, EnqueuedIn
<1>9. DOMAIN transport' \subseteq TransportId /\ DOMAIN transport \subseteq DOMAIN transport'
  BY <1>2 DEF RequestTypeOK, TransportsWithin
<1>10. \A t \in DOMAIN transport' : transport'[t] \in TransportRow
  <2> TAKE t \in DOMAIN transport'
  <2>1. CASE t \in Opened(T, served)
    <3>1. P[t[1]].payload \in Payloads
      BY <2>1, <1>7, <1>8 DEF PendingRow
    <3> QED
      BY <2>1, <3>1, <1>7, <1>8 DEF TransportRow
  <2>2. CASE t \notin Opened(T, served)
    BY <2>2, <1>1 DEF TransportsWithin
  <2> QED
    BY <2>1, <2>2
<1>11. attempts' \in [Requests -> Nat]
  BY DEF RequestTypeOK
<1>12. DOMAIN pending' \subseteq Requests
  BY DEF PendingWithin
<1>13. \A q \in DOMAIN pending' : pending'[q] \in PendingRow
  BY DEF PendingWithin, PendingRow
<1>14. aged' \subseteq DOMAIN transport' /\ expiring' \subseteq DOMAIN transport'
  BY <1>9 DEF RequestTypeOK, cleanupVars
<1> QED
  BY <1>6, <1>9, <1>10, <1>11, <1>12, <1>13, <1>14, Zenon DEF RequestTypeOK

-----------------------------------------------------------------------------
(* The statements that come before the dispatch in a transaction.            *)

\* _reconcile_request_replay_state clears a request id or deletes a row.
LEMMA RecycledWithin ==
  ASSUME RequestTypeOK, NEW q
  PROVE  /\ TransportsWithin(RecycledTransports(transport, q))
         /\ PendingWithin(RecycledPending(transport, pending, q))
<1>1. TransportsWithin(RecycledTransports(transport, q))
  <2> DEFINE T == RecycledTransports(transport, q)
  <2>1. DOMAIN T = DOMAIN transport
    BY DEF RecycledTransports
  <2>2. ASSUME NEW t \in DOMAIN transport
        PROVE  /\ T[t] \in TransportRow
               /\ T[t].replica = transport[t].replica
               /\ T[t].status = transport[t].status
    <3>1. transport[t] \in TransportRow
      BY DEF RequestTypeOK
    <3>2. T[t] \in {transport[t], [transport[t] EXCEPT !.request = Null]}
      BY DEF RecycledTransports
    <3> QED
      BY <3>1, <3>2 DEF TransportRow
  <2> QED
    BY <2>1, <2>2 DEF TransportsWithin
<1>2. PendingWithin(RecycledPending(transport, pending, q))
  BY DEF RecycledPending, PendingWithin, RequestTypeOK, Without
<1> QED
  BY <1>1, <1>2

\* create_if_absent_with_cursor inserts a row of the schema.
LEMMA EnqueuedWithin ==
  ASSUME NEW P, PendingWithin(P), NEW q \in Requests, NEW p \in Payloads,
         NEW d \in {"none", "ahead", "passed"}
  PROVE  PendingWithin(EnqueuedPending(P, q, p, d))
BY DEF EnqueuedPending, PendingWithin, With, PendingRow

\* expire_enqueued_deadlines changes only the state of a row.
LEMMA ExpiredWithin ==
  ASSUME NEW P, PendingWithin(P)
  PROVE  PendingWithin(ExpiredPending(P))
BY DEF ExpiredPending, PendingWithin, PendingRow

-----------------------------------------------------------------------------
(* Type correctness, one lemma per group of actions.                         *)

\* The empty tables are typed.
LEMMA InitTyped == Init => TypeOK
BY ConstantsAssumption
DEF Init, TypeOK, ReplicaTypeOK, RequestTypeOK, CallerTypeOK, EmptyTable, IdleCaller,
    CallerState, Resting, Holding

\* A new call remembers only a transport it has read.
LEMMA StartTyped ==
  ASSUME TypeOK, NEW c \in Callers, Start(c)
  PROVE  TypeOK'
<1>1. PICK use \in Uses, wait \in {"zero", "running"} : StartRequest(c, use[1], use[2], wait)
  BY DEF Start
<1>2. use[1] \in Requests /\ use[2] \in Payloads
  BY ConstantsAssumption
<1>3. ReplicaTypeOK' /\ RequestTypeOK'
  BY <1>1 DEF StartRequest, TypeOK, ReplicaTypeOK, RequestTypeOK, replicaVars, requestVars,
              cleanupVars
<1>4. PICK a : /\ GoodAnswer(a, DOMAIN transport)
               /\ caller' = [caller EXCEPT ![c] =
                    IF a.pc = "rejected"
                      THEN [IdleCaller EXCEPT !.pc = "rejected"]
                      ELSE [pc |-> a.pc, request |-> use[1], payload |-> use[2],
                            wait |-> wait, found |-> a.found]]
  BY <1>1, ExistingAnswerGood, Zenon DEF StartRequest, TypeOK
<1>5. caller'[c] \in CallerState
  BY <1>2, <1>4 DEF TypeOK, CallerTypeOK, GoodAnswer, IdleCaller, CallerState, Resting, PCs
<1>6. /\ caller'[c].pc \notin Resting => caller'[c].request \in Requests /\ caller'[c].payload \in Payloads
      /\ caller'[c].pc \in Holding => caller'[c].found \in DOMAIN transport
  BY <1>2, <1>4 DEF TypeOK, CallerTypeOK, GoodAnswer, IdleCaller, Resting, Holding
<1>7. CallerTypeOK'
  BY <1>1, <1>4, <1>5, <1>6 DEF StartRequest, TypeOK, CallerTypeOK, requestVars
<1> QED
  BY <1>3, <1>7 DEF TypeOK

\* The steps of a handler that only read.
LEMMA ReadsTyped ==
  ASSUME TypeOK, NEW c \in Callers, caller[c].pc \notin Resting, NEW a,
         GoodAnswer(a, DOMAIN transport), Proceed(c, a),
         UNCHANGED <<replicaVars, requestVars, cleanupVars, calls, restarts>>
  PROVE  TypeOK'
<1>1. ReplicaTypeOK' /\ RequestTypeOK'
  BY DEF TypeOK, ReplicaTypeOK, RequestTypeOK, replicaVars, requestVars, cleanupVars
<1>2. CallerTypeOK'
  BY ProceedTyped DEF TypeOK, requestVars
<1> QED
  BY <1>1, <1>2 DEF TypeOK

\* A dispatch inside a handler step.
LEMMA DispatchesTyped ==
  ASSUME TypeOK, NEW c \in Callers, caller[c].pc \notin Resting, NEW T, NEW P,
         TransportsWithin(T), PendingWithin(P), Dispatch(T, P), NEW q, NEW p,
         NEW unresolved \in {"check", "loop"},
         Proceed(c, Resolution(transport', pending', q, p, unresolved)),
         UNCHANGED <<replica, incarnation, unregistering, opening, cleanupVars, calls, restarts>>
  PROVE  TypeOK'
<1>1. ReplicaTypeOK' /\ RequestTypeOK' /\ DOMAIN transport \subseteq DOMAIN transport'
  BY DispatchTyped DEF TypeOK
<1>2. GoodAnswer(Resolution(transport', pending', q, p, unresolved), DOMAIN transport')
  BY <1>1, ResolutionGood DEF RequestTypeOK
<1>3. CallerTypeOK'
  BY <1>1, <1>2, ProceedTyped DEF TypeOK
<1> QED
  BY <1>1, <1>3 DEF TypeOK

\* Every step of a handler keeps the tables and its own memory typed.
LEMMA HandleTyped ==
  ASSUME TypeOK, NEW c \in Callers, Handle(c)
  PROVE  TypeOK'
<1> DEFINE q == caller[c].request
           p == caller[c].payload
<1> USE DEF TypeOK
<1>1. DOMAIN transport \subseteq TransportId
  BY DEF RequestTypeOK
<1>2. \A pc \in PCs : /\ pc \notin Holding => GoodAnswer(Answer(pc, Null), DOMAIN transport)
                      /\ \A t \in DOMAIN transport : GoodAnswer(Answer(pc, t), DOMAIN transport)
  BY <1>1, AnswersGood
<1>3. CASE FindReplica(c)
  <2>1. caller[c].found \in DOMAIN transport /\ caller[c].pc \notin Resting
    BY <1>3 DEF FindReplica, CallerTypeOK, Holding, Resting
  <2>2. GoodAnswer(AnswerFor(caller[c].found, transport[caller[c].found], "route"),
                   DOMAIN transport)
    BY <1>1, <2>1, AnswerForGood DEF PCs, Waiting, Holding
  <2> QED
    BY <1>3, <2>1, <2>2, ReadsTyped DEF FindReplica
<1>4. CASE FindPending(c)
  <2>1. caller[c].pc \notin Resting
    BY <1>4 DEF FindPending, Resting
  <2>2. PICK a : GoodAnswer(a, DOMAIN transport) /\ Proceed(c, a)
    BY <1>2, <1>4 DEF FindPending, PCs, Waiting, Resting, Holding
  <2> QED
    BY <1>4, <2>1, <2>2, ReadsTyped DEF FindPending
<1>5. CASE CheckRoute(c)
  <2>1. caller[c].pc \notin Resting
    BY <1>5 DEF CheckRoute, Resting
  <2>2. PICK a : GoodAnswer(a, DOMAIN transport) /\ Proceed(c, a)
    BY <1>2, <1>5 DEF CheckRoute, PCs, Waiting, Resting, Holding
  <2> QED
    BY <1>5, <2>1, <2>2, ReadsTyped DEF CheckRoute
<1>6. CASE EnqueueRefused(c)
  <2>1. caller[c].pc \notin Resting
    BY <1>6 DEF EnqueueRefused, Resting
  <2>2. PICK a : GoodAnswer(a, DOMAIN transport) /\ Proceed(c, a)
    BY <1>2, <1>6 DEF EnqueueRefused, PCs, Waiting, Resting, Holding
  <2> QED
    BY <1>6, <2>1, <2>2, ReadsTyped DEF EnqueueRefused
<1>7. CASE EnqueueJoins(c)
  <2> DEFINE T == RecycledTransports(transport, q)
             P == RecycledPending(transport, pending, q)
  <2>1. caller[c].pc \notin Resting /\ q \in Requests /\ p \in Payloads
    BY <1>7 DEF EnqueueJoins, Resting, CallerTypeOK
  <2>2. TransportsWithin(T) /\ PendingWithin(P)
    BY RecycledWithin, Zenon
  <2>3. PICK d \in {"none", "ahead", "passed"} : pending' = EnqueuedPending(P, q, p, d)
    BY <1>7 DEF EnqueueJoins, RowDeadlines
  <2>4. PendingWithin(pending')
    BY <2>1, <2>2, <2>3, EnqueuedWithin
  <2>5. transport' = T
    BY <1>7, Zenon DEF EnqueueJoins
  <2>6. RequestTypeOK'
    BY <1>7, <2>2, <2>4, <2>5, Zenon DEF EnqueueJoins, RequestTypeOK, TransportsWithin, PendingWithin,
                                 cleanupVars
  <2>7. ReplicaTypeOK'
    BY <1>7, Zenon DEF EnqueueJoins, ReplicaTypeOK, replicaVars
  <2>8. PICK t \in DOMAIN transport : Proceed(c, Answer("transferring", t))
    BY <1>7, <2>2 DEF EnqueueJoins, Carriers, TransportsWithin
  <2>9. DOMAIN transport' = DOMAIN transport
    BY <2>2, <2>5 DEF TransportsWithin
  <2>10. GoodAnswer(Answer("transferring", t), DOMAIN transport')
    BY <1>2, <2>9, Zenon DEF PCs
  <2>11. CallerTypeOK'
    BY <1>7, <2>1, <2>8, <2>9, <2>10, ProceedTyped, ZenonT(40) DEF EnqueueJoins
  <2> QED
    BY <2>6, <2>7, <2>11
<1>8. CASE EnqueueAndDispatch(c)
  <2> DEFINE T == RecycledTransports(transport, q)
             P == RecycledPending(transport, pending, q)
  <2>1. caller[c].pc \notin Resting /\ q \in Requests /\ p \in Payloads
    BY <1>8, Zenon DEF EnqueueAndDispatch, Resting, CallerTypeOK
  <2>2. TransportsWithin(T) /\ PendingWithin(P)
    BY RecycledWithin
  <2>3. PICK d \in {"none", "ahead", "passed"} :
          Dispatch(T, ExpiredPending(EnqueuedPending(P, q, p, d)))
    BY <1>8, Zenon DEF EnqueueAndDispatch, RowDeadlines
  <2>4. PendingWithin(ExpiredPending(EnqueuedPending(P, q, p, d)))
    BY <2>1, <2>2, EnqueuedWithin, ExpiredWithin, Zenon
  <2> QED
    BY <1>8, <2>1, <2>2, <2>3, <2>4, DispatchesTyped, Zenon DEF EnqueueAndDispatch
<1>9. CASE DispatchPass(c)
  <2>1. caller[c].pc \notin Resting
    BY <1>9, Zenon DEF DispatchPass, Resting
  <2>2. TransportsWithin(transport) /\ PendingWithin(pending)
    BY DEF TransportsWithin, PendingWithin, RequestTypeOK
  <2>3. PendingWithin(ExpiredPending(pending))
    BY <2>2, ExpiredWithin
  <2> QED
    BY <1>9, <2>1, <2>2, <2>3, DispatchesTyped, Zenon DEF DispatchPass
<1>10. CASE DispatchPassRefused(c)
  <2>1. caller[c].pc \notin Resting
    BY <1>10, Zenon DEF DispatchPassRefused, Resting
  <2>2. PICK a : GoodAnswer(a, DOMAIN transport) /\ Proceed(c, a)
    BY <1>2, <1>10, Zenon DEF DispatchPassRefused, PCs, Waiting, Resting, Holding
  <2> QED
    BY <1>10, <2>1, <2>2, ReadsTyped, Zenon DEF DispatchPassRefused
<1>11. CASE ReadPending(c)
  <2>1. caller[c].pc \notin Resting
    BY <1>11 DEF ReadPending, Resting
  <2>2. PICK a : GoodAnswer(a, DOMAIN transport) /\ Proceed(c, a)
    BY <1>2, <1>11 DEF ReadPending, PCs, Waiting, Resting, Holding
  <2> QED
    BY <1>11, <2>1, <2>2, ReadsTyped, ZenonT(40) DEF ReadPending
<1>12. CASE ReadTransport(c)
  <2>1. caller[c].pc \notin Resting
    BY <1>12 DEF ReadTransport, Resting
  <2>2. GoodAnswer(TransportAnswer(transport, q, p, "check"), DOMAIN transport)
    BY <1>1, TransportAnswerGood
  <2> QED
    BY <1>12, <2>1, <2>2, ReadsTyped DEF ReadTransport
<1>13. CASE ReadReplica(c)
  <2>1. caller[c].found \in DOMAIN transport /\ caller[c].pc \notin Resting
    BY <1>13 DEF ReadReplica, CallerTypeOK, Holding, Resting
  <2>2. GoodAnswer(AnswerFor(caller[c].found, transport[caller[c].found], "check"),
                   DOMAIN transport)
    BY <1>1, <2>1, AnswerForGood DEF PCs, Waiting, Holding
  <2> QED
    BY <1>13, <2>1, <2>2, ReadsTyped DEF ReadReplica
<1>14. CASE KeepWaiting(c)
  <2>1. caller[c].pc \notin Resting
    BY <1>14 DEF KeepWaiting, Resting
  <2>2. PICK a : GoodAnswer(a, DOMAIN transport) /\ Proceed(c, a)
    BY <1>2, <1>14 DEF KeepWaiting, PCs, Waiting, Resting, Holding
  <2> QED
    BY <1>14, <2>1, <2>2, ReadsTyped DEF KeepWaiting
<1>15. CASE GiveUp(c)
  <2>1. caller[c].pc \notin Resting
    BY <1>15 DEF GiveUp, Resting
  <2>2. GoodAnswer(Answer("timed_out", Null), DOMAIN transport')
    BY <1>2, <1>15 DEF GiveUp, PCs, Waiting, Resting, Holding
  <2>3. CallerTypeOK'
    BY <1>15, <2>1, <2>2, ProceedTyped DEF GiveUp
  <2>4. DOMAIN pending' = DOMAIN pending /\ \A x \in DOMAIN pending : pending'[x] \in PendingRow
    BY <1>15 DEF GiveUp, CancelledPending, RequestTypeOK, PendingRow, EnqueuedIn
  <2>5. RequestTypeOK' /\ ReplicaTypeOK'
    BY <1>15, <2>4 DEF GiveUp, RequestTypeOK, ReplicaTypeOK, replicaVars, cleanupVars
  <2> QED
    BY <2>3, <2>5
<1> QED
  BY <1>3, <1>4, <1>5, <1>6, <1>7, <1>8, <1>9, <1>11, <1>12, <1>13, <1>14, <1>15, <1>10 DEF Handle

\* All steps of request_transport and of its deadlines.
LEMMA RequestTyped ==
  ASSUME TypeOK, RequestNext
  PROVE  TypeOK'
<1> USE DEF TypeOK
<1>1. ASSUME NEW c \in Callers, CallerDeadline(c)
      PROVE  TypeOK'
  <2>1. ReplicaTypeOK' /\ RequestTypeOK'
    BY <1>1 DEF CallerDeadline, ReplicaTypeOK, RequestTypeOK, replicaVars, requestVars, cleanupVars
  <2>2. CallerTypeOK'
    BY <1>1 DEF CallerDeadline, CallerTypeOK, CallerState, requestVars
  <2> QED
    BY <2>1, <2>2
<1>2. ASSUME NEW q \in Requests, RowDeadline(q)
      PROVE  TypeOK'
  <2>1. DOMAIN pending' = DOMAIN pending /\ \A x \in DOMAIN pending : pending'[x] \in PendingRow
    BY <1>2 DEF RowDeadline, RequestTypeOK, PendingRow, EnqueuedIn
  <2>2. ReplicaTypeOK' /\ RequestTypeOK'
    BY <1>2, <2>1 DEF RowDeadline, ReplicaTypeOK, RequestTypeOK, replicaVars, cleanupVars
  <2>3. CallerTypeOK'
    BY <1>2 DEF RowDeadline, CallerTypeOK, callerVars
  <2> QED
    BY <2>2, <2>3
<1> QED
  BY <1>1, <1>2, StartTyped, HandleTyped DEF RequestNext

\* A completion rewrites one row and one counter.
LEMMA CompleteInTxTyped ==
  ASSUME TypeOK, NEW t \in DOMAIN transport, NEW o \in AllOutcomes, CompleteInTx(t, o),
         UNCHANGED <<replica, incarnation, unregistering, opening, attempts, pending, restarts>>,
         expiring' \subseteq expiring
  PROVE  ReplicaTypeOK' /\ RequestTypeOK' /\ DOMAIN transport' = DOMAIN transport
<1> USE DEF TypeOK, CompleteInTx
<1>1. DOMAIN transport' = DOMAIN transport
  BY DEF CompletedTransports
<1>2. \A u \in DOMAIN transport : transport'[u] \in TransportRow
  BY DEF CompletedTransports, RequestTypeOK, TransportRow
<1>3. RequestTypeOK'
  BY <1>1, <1>2 DEF RequestTypeOK
<1>4. DOMAIN counter' = DOMAIN counter /\ \A r \in DOMAIN counter : counter'[r] \in Nat
  BY DEF Released, ReplicaTypeOK
<1>5. ReplicaTypeOK'
  BY <1>4 DEF ReplicaTypeOK
<1> QED
  BY <1>1, <1>3, <1>5

\* All steps of completion and of the cleanup pass.
LEMMA CompletionTyped ==
  ASSUME TypeOK, CompletionNext
  PROVE  TypeOK'
<1> USE DEF TypeOK
<1>1. \A pc \in PCs : \A D : D \subseteq TransportId =>
        /\ pc \notin Holding => GoodAnswer(Answer(pc, Null), D)
        /\ \A t \in D : GoodAnswer(Answer(pc, t), D)
  BY AnswersGood
<1>2. ASSUME NEW c \in Callers, LoseRequester(c)
      PROVE  TypeOK'
  <2>1. GoodAnswer(Answer("idle", Null), DOMAIN transport)
    BY <1>1 DEF PCs, Resting, Holding, RequestTypeOK
  <2> QED
    BY <1>2, <2>1, ReadsTyped DEF LoseRequester, Resting
<1>3. ASSUME NEW c \in Callers, NEW o \in Outcomes, CompleteTransport(c, o)
      PROVE  TypeOK'
  <2>1. caller[c].pc \notin Resting /\ caller[c].found \in DOMAIN transport
    BY <1>3 DEF CompleteTransport, CallerTypeOK, Resting, Holding
  <2>2. ReplicaTypeOK' /\ RequestTypeOK' /\ DOMAIN transport' = DOMAIN transport
    BY <1>3, <2>1, CompleteInTxTyped, ConstantsAssumption, Zenon DEF CompleteTransport
  <2>3. PICK a : GoodAnswer(a, DOMAIN transport') /\ Proceed(c, a)
    BY <1>1, <1>3, <2>1, <2>2, ZenonT(40) DEF CompleteTransport, PCs, Resting, RequestTypeOK
  <2>4. CallerTypeOK'
    BY <1>3, <2>1, <2>2, <2>3, ProceedTyped DEF CompleteTransport
  <2> QED
    BY <2>2, <2>4, Zenon
<1>4. ASSUME NEW t \in DOMAIN transport, TransportAges(t)
      PROVE  TypeOK'
  <2>1. ReplicaTypeOK' /\ RequestTypeOK'
    BY <1>4 DEF TransportAges, ReplicaTypeOK, RequestTypeOK, replicaVars, requestVars
  <2>2. CallerTypeOK'
    BY <1>4 DEF TransportAges, CallerTypeOK, callerVars, requestVars
  <2> QED
    BY <2>1, <2>2
<1>5. CASE CleanupList
  <2>1. ReplicaTypeOK' /\ RequestTypeOK'
    BY <1>5 DEF CleanupList, ReplicaTypeOK, RequestTypeOK, replicaVars, requestVars
  <2>2. CallerTypeOK'
    BY <1>5 DEF CleanupList, CallerTypeOK, callerVars, requestVars
  <2> QED
    BY <2>1, <2>2
<1>6. ASSUME NEW t \in expiring, CleanupExpire(t)
      PROVE  TypeOK'
  <2>1. t \in DOMAIN transport
    BY DEF RequestTypeOK
  <2>2. ReplicaTypeOK' /\ RequestTypeOK' /\ DOMAIN transport' = DOMAIN transport
    BY <1>6, <2>1, CompleteInTxTyped DEF CleanupExpire, AllOutcomes
  <2>3. CallerTypeOK'
    BY <1>6, <2>2 DEF CleanupExpire, CallerTypeOK, callerVars
  <2> QED
    BY <2>2, <2>3
<1> QED
  BY <1>2, <1>3, <1>4, <1>5, <1>6 DEF CompletionNext

\* A new replica enters with a fresh id, a row and a counter.
LEMMA InsertTyped ==
  ASSUME TypeOK, NEW l \in Locations, NEW max \in Concurrency, NEW b \in BOOLEAN,
         NEW refs \in Nat, InsertReplica(l, max, b, refs)
  PROVE  ReplicaTypeOK'
<1> DEFINE r == <<l, incarnation[l] + 1>>
           row == [max |-> max, routable |-> b]
<1>1. ReplicaTypeOK
  BY Zenon DEF TypeOK
<1>2. /\ incarnation \in [Locations -> Nat]
      /\ incarnation' = [incarnation EXCEPT ![l] = @ + 1]
  BY <1>1 DEF ReplicaTypeOK, InsertReplica
<1>3. /\ replica' = With(replica, r, row)
      /\ counter' = With(counter, r, refs)
      /\ opening' = With(opening, r, refs)
      /\ UNCHANGED <<unregistering, restarts>>
  BY DEF InsertReplica
<1>4. r \in ReplicaId /\ row \in ReplicaRow
  BY <1>2 DEF ReplicaId, ReplicaRow
<1>5. incarnation' \in [Locations -> Nat]
  BY <1>2
<1> HIDE DEF r, row
<1>6. DOMAIN replica' = DOMAIN replica \cup {r} /\ \A x \in DOMAIN replica' : replica'[x] \in ReplicaRow
  BY <1>1, <1>3, <1>4 DEF ReplicaTypeOK, With
<1>7. DOMAIN counter' = DOMAIN counter \cup {r} /\ \A x \in DOMAIN counter' : counter'[x] \in Nat
  BY <1>1, <1>3 DEF ReplicaTypeOK, With
<1>8. DOMAIN opening' = DOMAIN opening \cup {r} /\ \A x \in DOMAIN opening' : opening'[x] \in Nat
  BY <1>1, <1>3 DEF ReplicaTypeOK, With
<1> QED
  BY <1>1, <1>3, <1>4, <1>5, <1>6, <1>7, <1>8 DEF ReplicaTypeOK

\* The changes of the replica tables touch no other table.
LEMMA ReplicaKeepsRequests ==
  ASSUME ReplicaNext
  PROVE  UNCHANGED <<requestVars, cleanupVars, callerVars>>
<1> DEFINE Same == UNCHANGED <<requestVars, cleanupVars, callerVars>>
<1>1. \A l, max, b, refs : InsertReplica(l, max, b, refs) => Same
  BY DEF InsertReplica
<1>2. \A l, max, b, refs : UpdateReplica(l, max, b, refs) => Same
  BY DEF UpdateReplica
<1>3. \A r, b : ReconcileUpdate(r, b) => Same
  BY DEF ReconcileUpdate
<1>4. \A r : \/ ReconcileRemove(r) \/ MarkReplicaUnavailable(r)
           \/ UnregisterCounter(r) \/ UnregisterRow(r)
           => Same
  BY DEF ReconcileRemove, MarkReplicaUnavailable, UnregisterCounter, UnregisterRow
<1> HIDE DEF Same
<1>5. Same
  BY <1>1, <1>2, <1>3, <1>4 DEF ReplicaNext, RegisterReplica, ReconcileAdd
<1> QED
  BY <1>5 DEF Same

\* All changes of the replica tables.
LEMMA ReplicaTyped ==
  ASSUME TypeOK, ReplicaNext
  PROVE  TypeOK'
<1> USE DEF TypeOK
<1>1. RequestTypeOK' /\ CallerTypeOK'
  BY ReplicaKeepsRequests DEF RequestTypeOK, CallerTypeOK, requestVars, cleanupVars, callerVars
<1>2. ASSUME NEW l \in Locations, NEW max \in Concurrency, NEW b \in BOOLEAN,
             NEW refs \in ReportedRefs \cup {0}, InsertReplica(l, max, b, refs)
      PROVE  ReplicaTypeOK'
  BY <1>2, InsertTyped, ConstantsAssumption
<1>3. ASSUME NEW l \in Locations, NEW max \in Concurrency, NEW b \in BOOLEAN,
             NEW refs \in ReportedRefs \cup {0}, UpdateReplica(l, max, b, refs)
      PROVE  ReplicaTypeOK'
  <2>1. PICK r \in DOMAIN replica :
          /\ replica' = [replica EXCEPT ![r] = [max |-> max, routable |-> b]]
          /\ counter' = IF r \in DOMAIN counter THEN counter ELSE With(counter, r, refs)
          /\ UNCHANGED <<incarnation, unregistering, opening, restarts>>
    BY <1>3, Zenon DEF UpdateReplica, RowsAt
  <2>2. [max |-> max, routable |-> b] \in ReplicaRow
    BY DEF ReplicaRow
  <2>3. DOMAIN replica' = DOMAIN replica /\ \A x \in DOMAIN replica' : replica'[x] \in ReplicaRow
    BY <2>1, <2>2 DEF ReplicaTypeOK
  <2>4. DOMAIN counter' = DOMAIN counter \cup {r} /\ \A x \in DOMAIN counter' : counter'[x] \in Nat
    BY <2>1, ConstantsAssumption DEF ReplicaTypeOK, With
  <2> QED
    BY <2>1, <2>3, <2>4 DEF ReplicaTypeOK
<1>4. ASSUME NEW r \in DOMAIN replica, NEW b \in BOOLEAN, ReconcileUpdate(r, b)
      PROVE  ReplicaTypeOK'
  BY <1>4 DEF ReconcileUpdate, ReplicaTypeOK, ReplicaRow
<1>5. ASSUME NEW r \in DOMAIN replica, ReconcileRemove(r)
      PROVE  ReplicaTypeOK'
  BY <1>5 DEF ReconcileRemove, ReplicaTypeOK, Without
<1>6. ASSUME NEW r \in DOMAIN replica, MarkReplicaUnavailable(r)
      PROVE  ReplicaTypeOK'
  BY <1>6, Zenon DEF MarkReplicaUnavailable, ReplicaTypeOK, ReplicaRow
<1>7. ASSUME NEW r \in DOMAIN replica, UnregisterCounter(r)
      PROVE  ReplicaTypeOK'
  BY <1>7 DEF UnregisterCounter, ReplicaTypeOK, Without
<1>8. ASSUME NEW r \in unregistering, UnregisterRow(r)
      PROVE  ReplicaTypeOK'
  BY <1>8 DEF UnregisterRow, ReplicaTypeOK, Without
<1>9. ReplicaTypeOK'
  BY <1>2, <1>3, <1>4, <1>5, <1>6, <1>7, <1>8 DEF ReplicaNext, RegisterReplica, ReconcileAdd
<1> QED
  BY <1>1, <1>9

\* A restart forgets memory and keeps the tables.
LEMMA RestartTyped ==
  ASSUME TypeOK, Restart
  PROVE  TypeOK'
<1> USE DEF TypeOK, Restart
<1>1. ReplicaTypeOK'
  <2>1. \A row \in ReplicaRow : [row EXCEPT !.routable = FALSE] \in ReplicaRow
    BY Zenon DEF ReplicaRow
  <2>2. DOMAIN replica' = DOMAIN replica /\ \A r \in DOMAIN replica : replica'[r] \in ReplicaRow
    BY <2>1 DEF ReplicaTypeOK
  <2> QED
    BY <2>2 DEF ReplicaTypeOK
<1>2. RequestTypeOK'
  BY DEF RequestTypeOK, requestVars
<1>3. CallerTypeOK'
  BY DEF CallerTypeOK, CallerState, IdleCaller, Resting, Holding, requestVars
<1> QED
  BY <1>1, <1>2, <1>3

\* A step that changes nothing.
LEMMA StutterTyped ==
  ASSUME TypeOK, UNCHANGED vars
  PROVE  TypeOK'
BY DEF TypeOK, ReplicaTypeOK, RequestTypeOK, CallerTypeOK, vars, replicaVars, requestVars,
       cleanupVars, callerVars

\* TypeOK is inductive.
LEMMA NextTyped == TypeOK /\ [Next]_vars => TypeOK'
BY RequestTyped, CompletionTyped, ReplicaTyped, RestartTyped, StutterTyped DEF Next

\* The tables keep to their schema, and no id remembered in memory dangles,
\* whatever the number of requests, callers, replicas, restarts and deletions.
THEOREM TypeCorrect == Spec => []TypeOK
BY InitTyped, NextTyped, PTL DEF Spec

-----------------------------------------------------------------------------
(* Conservation of source quota.  QuotaConserved is not inductive as it       *)
(* stands: a replica must enter with no transport in flight, and a dispatch   *)
(* must add its transports to the ones that are there.  Both follow from ids  *)
(* never being handed out twice.                                             *)

FreshIds ==
  /\ IsFiniteSet(DOMAIN transport)
  /\ \A t \in DOMAIN transport : t[2] <= attempts[t[1]]
  /\ \A t \in DOMAIN transport :
       transport[t].replica[2] <= incarnation[transport[t].replica[1]]
  /\ \A r \in DOMAIN replica : r[2] <= incarnation[r[1]]

QuotaInv == TypeOK /\ FreshIds /\ QuotaConserved

\* The step that PlacedWithinConcurrency asks of every step.
PlacedStep ==
  \A r \in DOMAIN opening :
    ~(InFlight(r)' \subseteq InFlight(r)) => Cardinality(InFlight(r)') <= replica[r].max

\* The arithmetic of the conservation proofs.
LEMMA CountArithmetic ==
  ASSUME NEW a \in Nat, NEW b \in Nat, NEW n \in Nat
  PROVE  /\ (a + b) + n = a + (b + n)
         /\ (a + b) - 1 = a + (b - 1)
         /\ a + b <= n => b <= n
         /\ a + 1 <= a + 1
OBVIOUS

\* Finitely many transports are in flight from a replica.
LEMMA InFlightFinite ==
  ASSUME FreshIds, NEW r
  PROVE  IsFiniteSet(InFlight(r)) /\ Cardinality(InFlight(r)) \in Nat
<1>1. InFlight(r) \subseteq DOMAIN transport
  BY DEF InFlight
<1> QED
  BY <1>1, FS_Subset, FS_CardinalityType DEF FreshIds

\* Steps that touch neither counters nor the status of a transport.
LEMMA QuietConserves ==
  ASSUME QuotaInv, DOMAIN transport' = DOMAIN transport,
         \A t \in DOMAIN transport : /\ transport'[t].replica = transport[t].replica
                                     /\ transport'[t].status = transport[t].status,
         UNCHANGED <<replicaVars, attempts>>
  PROVE  FreshIds' /\ QuotaConserved' /\ PlacedStep
<1>1. \A r : InFlight(r)' = InFlight(r)
  BY DEF InFlight
<1>2. FreshIds'
  BY DEF QuotaInv, FreshIds, replicaVars
<1>3. QuotaConserved'
  BY <1>1 DEF QuotaInv, QuotaConserved, replicaVars
<1> QED
  BY <1>1, <1>2, <1>3 DEF PlacedStep

\* A dispatch raises the counter of a source by what it places there.
LEMMA DispatchConserves ==
  ASSUME QuotaInv, NEW T, NEW P, TransportsWithin(T), PendingWithin(P), Dispatch(T, P),
         UNCHANGED <<replica, incarnation, unregistering, opening>>
  PROVE  FreshIds' /\ QuotaConserved' /\ PlacedStep
<1> USE DEF QuotaInv, TypeOK
<1>1. PICK served, src : Dispatches(T, P, served, src)
  BY DispatchEffect
<1> DEFINE new == Opened(T, served)
           newOn(r) == OpenedOn(T, served, src, r)
<1>2. /\ served \subseteq Requests
      /\ attempts \in [Requests -> Nat]
  BY <1>1 DEF RequestTypeOK, Dispatches
<1>3. /\ new \subseteq TransportId
      /\ IsFiniteSet(new)
      /\ \A r : IsFiniteSet(newOn(r)) /\ Cardinality(newOn(r)) \in Nat
  BY <1>2, OpenedFinite
<1>4. \A t \in new : t[1] \in served /\ t[2] = attempts[t[1]] + 1
  BY DEF Opened
<1>5. new \cap DOMAIN transport = {}
  <2> SUFFICES ASSUME NEW t \in new, t \in DOMAIN transport PROVE FALSE
    OBVIOUS
  <2>1. attempts[t[1]] \in Nat
    BY <1>2, <1>4
  <2>2. t[2] <= attempts[t[1]]
    BY DEF FreshIds
  <2>3. t[2] = attempts[t[1]] + 1
    BY <1>4
  <2> QED
    BY <2>1, <2>2, <2>3
<1>6. DOMAIN transport' = DOMAIN transport \cup new
  BY <1>1 DEF Dispatches, TransportsWithin
<1>7. \A t \in new : transport'[t].replica = src[t[1]] /\ transport'[t].status = "in_progress"
  BY <1>1 DEF Dispatches
<1>8. \A t \in DOMAIN transport : /\ transport'[t].replica = transport[t].replica
                                  /\ transport'[t].status = transport[t].status
  BY <1>1, <1>5 DEF Dispatches, TransportsWithin
<1>9. FreshIds'
  <2>1. IsFiniteSet(DOMAIN transport')
    BY <1>3, <1>6, FS_Union, Zenon DEF FreshIds
  <2>2. ASSUME NEW t \in DOMAIN transport' PROVE t[2] <= attempts'[t[1]]
    <3>1. t \in TransportId
      BY <1>3, <1>6 DEF RequestTypeOK
    <3>2. t[1] \in Requests /\ t[2] \in Nat /\ t = <<t[1], t[2]>>
      BY <3>1 DEF TransportId
    <3>3. attempts[t[1]] \in Nat
      BY <1>2, <3>2
    <3>4. CASE t \in new
      <4>1. t = <<t[1], attempts[t[1]] + 1>>
        BY <3>2, <3>4, <1>4
      <4>2. attempts'[t[1]] = attempts[t[1]] + 1
        BY <1>1, <3>2, <3>4, <4>1, Zenon DEF Dispatches
      <4>3. t[2] = attempts[t[1]] + 1
        BY <3>4, <1>4
      <4> QED
        BY <3>3, <4>2, <4>3, CountArithmetic, ZenonT(40)
    <3>5. CASE t \in DOMAIN transport
      <4>1. t[2] <= attempts[t[1]]
        BY <3>5 DEF FreshIds
      <4>2. attempts'[t[1]] >= attempts[t[1]]
        BY <1>1, <3>2, <3>3 DEF Dispatches
      <4>3. attempts'[t[1]] \in Nat
        BY <1>1, <3>2, <3>3 DEF Dispatches
      <4> QED
        BY <3>2, <3>3, <4>1, <4>2, <4>3
    <3> QED
      BY <3>4, <3>5, <1>6, Zenon
  <2>3. ASSUME NEW t \in DOMAIN transport'
        PROVE  transport'[t].replica[2] <= incarnation'[transport'[t].replica[1]]
    <3>1. CASE t \in new
      <4>1. src[t[1]] \in DOMAIN replica
        BY <3>1, <1>1, <1>4, Zenon DEF Dispatches
      <4> QED
        BY <3>1, <4>1, <1>7 DEF FreshIds
    <3>2. CASE t \in DOMAIN transport
      BY <3>2, <1>8, ZenonT(40) DEF FreshIds
    <3> QED
      BY <3>1, <3>2, <1>6, Zenon
  <2> QED
    BY <2>1, <2>2, <2>3 DEF FreshIds
<1>10. \A r : InFlight(r)' = InFlight(r) \cup newOn(r)
  BY <1>6, <1>7, <1>8 DEF InFlight, OpenedOn
<1>11. \A r : Cardinality(InFlight(r)') = Cardinality(InFlight(r)) + Cardinality(newOn(r))
  <2> TAKE r
  <2>1. InFlight(r) \cap newOn(r) = {}
    BY <1>5 DEF InFlight, OpenedOn
  <2>2. IsFiniteSet(InFlight(r)) /\ Cardinality(InFlight(r)) \in Nat
    BY InFlightFinite
  <2>3. /\ IsFiniteSet(newOn(r))
        /\ Cardinality(newOn(r)) \in Nat
        /\ InFlight(r)' = InFlight(r) \cup newOn(r)
    BY <1>3, <1>10
  <2> HIDE DEF newOn
  <2>4. Cardinality(InFlight(r) \cup newOn(r))
          = Cardinality(InFlight(r)) + Cardinality(newOn(r)) - Cardinality({})
    BY <2>1, <2>2, <2>3, FS_Union
  <2> QED
    BY <2>2, <2>3, <2>4, FS_EmptySet
<1>12. \A r \in DOMAIN opening : counter'[r] = opening[r] + Cardinality(InFlight(r)')
  <2> TAKE r \in DOMAIN opening
  <2>1. r \in DOMAIN counter /\ opening[r] \in Nat
    BY DEF ReplicaTypeOK
  <2>2. counter'[r] = counter[r] + Cardinality(newOn(r))
    BY <1>1, <2>1 DEF Dispatches
  <2>3. counter[r] = opening[r] + Cardinality(InFlight(r))
    BY DEF QuotaConserved
  <2>4. Cardinality(InFlight(r)) \in Nat /\ Cardinality(newOn(r)) \in Nat
    BY InFlightFinite, <1>3
  <2>5. Cardinality(InFlight(r)') = Cardinality(InFlight(r)) + Cardinality(newOn(r))
    BY <1>11
  <2> HIDE DEF newOn, QuotaInv, TypeOK
  <2>6. counter'[r] = (opening[r] + Cardinality(InFlight(r))) + Cardinality(newOn(r))
    BY <2>2, <2>3
  <2>7. (opening[r] + Cardinality(InFlight(r))) + Cardinality(newOn(r))
          = opening[r] + (Cardinality(InFlight(r)) + Cardinality(newOn(r)))
    BY <2>1, <2>4, CountArithmetic
  <2> QED
    BY <2>5, <2>6, <2>7
<1>13. PlacedStep
  <2> SUFFICES ASSUME NEW r \in DOMAIN opening, ~(InFlight(r)' \subseteq InFlight(r))
               PROVE  Cardinality(InFlight(r)') <= replica[r].max
    BY DEF PlacedStep
  <2>1. PICK t \in new : src[t[1]] = r
    BY <1>10 DEF OpenedOn
  <2>2. counter'[r] <= replica[r].max /\ r \in DOMAIN replica
    BY <1>1, <1>4, <2>1, Zenon DEF Dispatches
  <2>3. counter'[r] = opening[r] + Cardinality(InFlight(r)')
    BY <1>12
  <2>4. Cardinality(InFlight(r)') \in Nat /\ opening[r] \in Nat
    <3>1. Cardinality(InFlight(r)) \in Nat /\ Cardinality(newOn(r)) \in Nat
      BY <1>3, InFlightFinite
    <3>2. Cardinality(InFlight(r)') = Cardinality(InFlight(r)) + Cardinality(newOn(r))
      BY <1>11
    <3>3. opening[r] \in Nat
      BY DEF ReplicaTypeOK
    <3> HIDE DEF newOn, QuotaInv, TypeOK
    <3> QED
      BY <3>1, <3>2, <3>3
  <2>5. replica[r].max \in Nat
    BY <2>2, ConstantsAssumption, Zenon DEF ReplicaTypeOK, ReplicaRow
  <2> HIDE DEF QuotaInv, TypeOK
  <2>6. opening[r] + Cardinality(InFlight(r)') <= replica[r].max
    BY <2>2, <2>3
  <2> QED
    BY <2>4, <2>5, <2>6, CountArithmetic, ZenonT(40)
<1>14. QuotaConserved'
  BY <1>12 DEF QuotaConserved
<1> QED
  BY <1>9, <1>13, <1>14

\* A completion that closes a transport lowers the counter of its source by
\* one; any other completion leaves both alone.  The counter is positive when
\* it is lowered, so the floor at zero never decides.
LEMMA CompletionConserves ==
  ASSUME QuotaInv, NEW t \in DOMAIN transport, NEW o, CompleteInTx(t, o),
         UNCHANGED <<replica, incarnation, unregistering, opening, attempts>>
  PROVE  FreshIds' /\ QuotaConserved' /\ PlacedStep
<1> DEFINE s == transport[t].replica
<1> USE DEF QuotaInv, TypeOK
<1>1. CASE transport[t].status # "in_progress"
  <2>1. transport' = transport /\ counter' = counter
    BY <1>1 DEF CompleteInTx, CompletedTransports
  <2> QED
    BY <2>1, QuietConserves DEF replicaVars
<1>2. CASE transport[t].status = "in_progress"
  <2>1. /\ DOMAIN transport' = DOMAIN transport
        /\ \A u \in DOMAIN transport :
             /\ transport'[u].replica = transport[u].replica
             /\ transport'[u].status = IF u = t THEN "completed" ELSE transport[u].status
    BY <1>2, Zenon DEF CompleteInTx, CompletedTransports, RequestTypeOK, TransportRow
  <2>2. FreshIds'
    BY <2>1, Zenon DEF FreshIds
  <2>3. \A r : InFlight(r)' = InFlight(r) \ {t}
    BY <2>1 DEF InFlight
  <2>4. \A r : r # s => InFlight(r)' = InFlight(r)
    BY <2>3 DEF InFlight
  <2>5. t \in InFlight(s)
    BY <1>2 DEF InFlight
  <2>6. ASSUME NEW r \in DOMAIN opening
        PROVE  counter'[r] = opening[r] + Cardinality(InFlight(r)')
    <3>1. /\ r \in DOMAIN counter
          /\ opening[r] \in Nat
          /\ counter[r] = opening[r] + Cardinality(InFlight(r))
      BY DEF ReplicaTypeOK, QuotaConserved
    <3>2. CASE r # s
      <4>1. counter'[r] = counter[r]
        BY <1>2, <3>1, <3>2, ZenonT(40) DEF CompleteInTx, Released
      <4> QED
        BY <3>1, <3>2, <4>1, <2>4, Zenon
    <3>3. CASE r = s
      <4>1. IsFiniteSet(InFlight(r)) /\ Cardinality(InFlight(r)) \in Nat
        BY InFlightFinite
      <4>2. Cardinality(InFlight(r) \ {t}) = Cardinality(InFlight(r)) - 1
        BY <3>3, <4>1, <2>5, FS_RemoveElement, Zenon
      <4>3. Cardinality(InFlight(r)) # 0
        BY <3>3, <4>1, <2>5, FS_EmptySet, Zenon
      <4>4. counter[r] > 0
        BY <3>1, <4>1, <4>3
      <4>5. counter'[r] = counter[r] - 1
        BY <1>2, <3>1, <3>3, <4>4 DEF CompleteInTx, Released
      <4>6. InFlight(r)' = InFlight(r) \ {t}
        BY <2>3
      <4>7. (opening[r] + Cardinality(InFlight(r))) - 1 = opening[r] + (Cardinality(InFlight(r)) - 1)
        BY <3>1, <4>1, CountArithmetic
      <4> QED
        BY <3>1, <4>2, <4>5, <4>6, <4>7
    <3> QED
      BY <3>2, <3>3
  <2>7. QuotaConserved'
    BY <2>6 DEF QuotaConserved
  <2>8. PlacedStep
    BY <2>3 DEF PlacedStep
  <2> QED
    BY <2>2, <2>7, <2>8
<1> QED
  BY <1>1, <1>2

\* A new row has a fresh id, so nothing is in flight from it.
LEMMA InsertConserves ==
  ASSUME QuotaInv, NEW l \in Locations, NEW max, NEW b, NEW refs \in Nat,
         InsertReplica(l, max, b, refs)
  PROVE  FreshIds' /\ QuotaConserved' /\ PlacedStep
<1> DEFINE r == <<l, incarnation[l] + 1>>
<1>1. ReplicaTypeOK /\ RequestTypeOK /\ FreshIds /\ QuotaConserved
  BY Zenon DEF QuotaInv, TypeOK
<1>2. /\ incarnation \in [Locations -> Nat]
      /\ incarnation' = [incarnation EXCEPT ![l] = @ + 1]
  BY <1>1, ZenonT(40) DEF ReplicaTypeOK, InsertReplica
<1>3. /\ replica' = With(replica, r, [max |-> max, routable |-> b])
      /\ counter' = With(counter, r, refs)
      /\ opening' = With(opening, r, refs)
      /\ transport' = transport /\ attempts' = attempts
  BY DEF InsertReplica, requestVars
<1>4. \A x : InFlight(x)' = InFlight(x)
  BY <1>3, Zenon DEF InFlight
<1>5. InFlight(r) = {}
  <2> SUFFICES ASSUME NEW t \in DOMAIN transport, transport[t].replica = r PROVE FALSE
    BY DEF InFlight
  <2>1. r[2] <= incarnation[r[1]]
    BY <1>1 DEF FreshIds
  <2> QED
    BY <1>2, <2>1
<1>6. r[2] <= incarnation'[r[1]]
  BY <1>2
<1>7. \A x \in ReplicaId : x[2] <= incarnation[x[1]] => x[2] <= incarnation'[x[1]]
  BY <1>2 DEF ReplicaId
<1> HIDE DEF r
<1>8. FreshIds'
  <2>1. \A t \in DOMAIN transport : transport[t].replica \in ReplicaId
    BY <1>1 DEF RequestTypeOK, TransportRow
  <2>2. \A x \in DOMAIN replica : x \in ReplicaId
    BY <1>1, Zenon DEF ReplicaTypeOK
  <2>3. DOMAIN replica' = DOMAIN replica \cup {r}
    BY <1>3 DEF With
  <2> QED
    BY <1>1, <1>3, <1>6, <1>7, <2>1, <2>2, <2>3, Zenon DEF FreshIds
<1>9. QuotaConserved'
  <2> SUFFICES ASSUME NEW x \in DOMAIN opening'
               PROVE  counter'[x] = opening'[x] + Cardinality(InFlight(x)')
    BY DEF QuotaConserved
  <2>1. CASE x = r
    <3>1. counter'[r] = refs /\ opening'[r] = refs
      BY <1>3 DEF With
    <3>2. InFlight(x)' = {}
      BY <2>1, <1>4, <1>5, Zenon
    <3> QED
      BY <2>1, <3>1, <3>2, FS_EmptySet
  <2>2. CASE x # r
    <3>1. x \in DOMAIN opening /\ x \in DOMAIN counter
      BY <1>1, <1>3, <2>2, Zenon DEF ReplicaTypeOK, With
    <3>2. counter'[x] = counter[x] /\ opening'[x] = opening[x]
      BY <1>3, <2>2, <3>1 DEF With
    <3> QED
      BY <1>1, <3>1, <3>2, <1>4 DEF QuotaConserved
  <2> QED
    BY <2>1, <2>2
<1>10. PlacedStep
  BY <1>4 DEF PlacedStep
<1> QED
  BY <1>8, <1>9, <1>10

\* The other changes of the replica tables keep every counter whose opening
\* value they keep.
LEMMA ReplicaConserves ==
  ASSUME QuotaInv, ReplicaNext
  PROVE  FreshIds' /\ QuotaConserved' /\ PlacedStep
<1> USE DEF QuotaInv, TypeOK
<1>1. ASSUME NEW l \in Locations, NEW max \in Concurrency, NEW b \in BOOLEAN,
             NEW refs \in ReportedRefs \cup {0}, InsertReplica(l, max, b, refs)
      PROVE  FreshIds' /\ QuotaConserved' /\ PlacedStep
  BY <1>1, InsertConserves, ConstantsAssumption, Zenon
<1>2. ASSUME DOMAIN replica' \subseteq DOMAIN replica, DOMAIN opening' \subseteq DOMAIN opening,
             \A r \in DOMAIN opening' : opening'[r] = opening[r] /\ counter'[r] = counter[r],
             UNCHANGED <<incarnation, requestVars>>
      PROVE  FreshIds' /\ QuotaConserved' /\ PlacedStep
  <2>1. \A r : InFlight(r)' = InFlight(r)
    BY <1>2 DEF InFlight, requestVars
  <2> QED
    BY <1>2, <2>1 DEF FreshIds, QuotaConserved, PlacedStep, requestVars
<1>3. ASSUME NEW l \in Locations, NEW max \in Concurrency, NEW b \in BOOLEAN,
             NEW refs \in ReportedRefs \cup {0}, UpdateReplica(l, max, b, refs)
      PROVE  FreshIds' /\ QuotaConserved' /\ PlacedStep
  <2>1. DOMAIN replica' = DOMAIN replica
    BY <1>3 DEF UpdateReplica, RowsAt
  <2>2. opening' = opening /\ \A r \in DOMAIN opening : counter'[r] = counter[r]
    BY <1>3 DEF UpdateReplica, With, ReplicaTypeOK
  <2> QED
    BY <1>2, <1>3, <2>1, <2>2, Zenon DEF UpdateReplica
<1>4. ASSUME NEW r \in DOMAIN replica, NEW b,
             ReconcileUpdate(r, b) \/ MarkReplicaUnavailable(r)
      PROVE  FreshIds' /\ QuotaConserved' /\ PlacedStep
  <2>1. DOMAIN replica' = DOMAIN replica
    BY <1>4 DEF ReconcileUpdate, MarkReplicaUnavailable
  <2> QED
    BY <1>2, <1>4, <2>1 DEF ReconcileUpdate, MarkReplicaUnavailable
<1>5. ASSUME NEW r \in DOMAIN replica, ReconcileRemove(r) \/ UnregisterCounter(r)
      PROVE  FreshIds' /\ QuotaConserved' /\ PlacedStep
  <2>1. DOMAIN replica' \subseteq DOMAIN replica /\ DOMAIN opening' \subseteq DOMAIN opening
    BY <1>5 DEF ReconcileRemove, UnregisterCounter, Without
  <2>2. \A x \in DOMAIN opening' : opening'[x] = opening[x] /\ counter'[x] = counter[x]
    BY <1>5 DEF ReconcileRemove, UnregisterCounter, Without, ReplicaTypeOK
  <2> QED
    BY <1>2, <1>5, <2>1, <2>2 DEF ReconcileRemove, UnregisterCounter
<1>6. ASSUME NEW r \in unregistering, UnregisterRow(r)
      PROVE  FreshIds' /\ QuotaConserved' /\ PlacedStep
  <2>1. DOMAIN replica' \subseteq DOMAIN replica
    BY <1>6 DEF UnregisterRow, Without
  <2> QED
    BY <1>2, <1>6, <2>1, Zenon DEF UnregisterRow
<1> QED
  BY <1>1, <1>3, <1>4, <1>5, <1>6 DEF ReplicaNext, RegisterReplica, ReconcileAdd

\* Every step of a handler conserves quota.
LEMMA HandleConserves ==
  ASSUME QuotaInv, NEW c \in Callers, Handle(c)
  PROVE  FreshIds' /\ QuotaConserved' /\ PlacedStep
<1> DEFINE q == caller[c].request
           p == caller[c].payload
           T == RecycledTransports(transport, q)
           P == RecycledPending(transport, pending, q)
<1> USE DEF QuotaInv, TypeOK
<1>1. TransportsWithin(T) /\ PendingWithin(P)
  BY RecycledWithin
<1>2. CASE EnqueueJoins(c)
  <2>1. transport' = T
    BY <1>2, Zenon DEF EnqueueJoins
  <2> QED
    BY <1>1, <1>2, <2>1, QuietConserves, Zenon DEF EnqueueJoins, TransportsWithin
<1>3. CASE EnqueueAndDispatch(c)
  <2>1. q \in Requests /\ p \in Payloads
    BY <1>3, Zenon DEF EnqueueAndDispatch, Resting, CallerTypeOK
  <2>2. PICK d \in {"none", "ahead", "passed"} :
          Dispatch(T, ExpiredPending(EnqueuedPending(P, q, p, d)))
    BY <1>3, Zenon DEF EnqueueAndDispatch, RowDeadlines
  <2>3. PendingWithin(ExpiredPending(EnqueuedPending(P, q, p, d)))
    BY <1>1, <2>1, EnqueuedWithin, ExpiredWithin
  <2> QED
    BY <1>1, <1>3, <2>2, <2>3, DispatchConserves, Zenon DEF EnqueueAndDispatch
<1>4. CASE DispatchPass(c)
  <2>1. TransportsWithin(transport) /\ PendingWithin(pending)
    BY DEF TransportsWithin, PendingWithin, RequestTypeOK
  <2>2. PendingWithin(ExpiredPending(pending))
    BY <2>1, ExpiredWithin
  <2> QED
    BY <1>4, <2>1, <2>2, DispatchConserves, Zenon DEF DispatchPass
<1>5. CASE \/ FindReplica(c) \/ FindPending(c) \/ CheckRoute(c) \/ EnqueueRefused(c)
           \/ ReadPending(c) \/ ReadTransport(c) \/ ReadReplica(c) \/ KeepWaiting(c)
           \/ GiveUp(c) \/ DispatchPassRefused(c)
  <2>1. UNCHANGED <<replicaVars, transport, attempts>>
    BY <1>5, Zenon DEF FindReplica, FindPending, CheckRoute, EnqueueRefused, ReadPending, ReadTransport,
                ReadReplica, KeepWaiting, GiveUp, DispatchPassRefused, requestVars
  <2> QED
    BY <2>1, QuietConserves
<1> QED
  BY <1>2, <1>3, <1>4, <1>5 DEF Handle

\* So does every other step.
LEMMA NextConserves ==
  ASSUME QuotaInv, [Next]_vars
  PROVE  FreshIds' /\ QuotaConserved' /\ PlacedStep
<1> USE DEF QuotaInv, TypeOK
<1>1. ASSUME NEW c \in Callers, Start(c) \/ CallerDeadline(c) \/ LoseRequester(c)
      PROVE  FreshIds' /\ QuotaConserved' /\ PlacedStep
  BY <1>1, QuietConserves
  DEF Start, StartRequest, CallerDeadline, LoseRequester, requestVars
<1>2. ASSUME NEW q \in Requests, RowDeadline(q)
      PROVE  FreshIds' /\ QuotaConserved' /\ PlacedStep
  BY <1>2, QuietConserves DEF RowDeadline
<1>3. ASSUME NEW c \in Callers, NEW o \in Outcomes, CompleteTransport(c, o)
      PROVE  FreshIds' /\ QuotaConserved' /\ PlacedStep
  <2>1. caller[c].found \in DOMAIN transport
    BY <1>3, Zenon DEF CompleteTransport, CallerTypeOK, Holding
  <2> QED
    BY <1>3, <2>1, CompletionConserves, Zenon DEF CompleteTransport
<1>4. ASSUME NEW t \in DOMAIN transport, TransportAges(t)
      PROVE  FreshIds' /\ QuotaConserved' /\ PlacedStep
  BY <1>4, QuietConserves DEF TransportAges, requestVars
<1>5. CASE CleanupList \/ UNCHANGED vars
  BY <1>5, QuietConserves DEF CleanupList, requestVars, vars
<1>6. ASSUME NEW t \in expiring, CleanupExpire(t)
      PROVE  FreshIds' /\ QuotaConserved' /\ PlacedStep
  <2>1. t \in DOMAIN transport
    BY DEF RequestTypeOK
  <2> QED
    BY <1>6, <2>1, CompletionConserves DEF CleanupExpire
<1>7. CASE Restart
  <2>1. \A r : InFlight(r)' = InFlight(r)
    BY <1>7 DEF Restart, InFlight, requestVars
  <2>2. DOMAIN replica' = DOMAIN replica
    BY <1>7 DEF Restart
  <2> QED
    BY <1>7, <2>1, <2>2 DEF Restart, FreshIds, QuotaConserved, PlacedStep, requestVars
<1> QED
  BY <1>1, <1>2, <1>3, <1>4, <1>5, <1>6, <1>7, HandleConserves, ReplicaConserves, ZenonT(40)
  DEF Next, RequestNext, CompletionNext

\* No counter, no transport: nothing to conserve.
LEMMA InitConserves == Init => QuotaInv
<1> SUFFICES ASSUME Init PROVE FreshIds /\ QuotaConserved
  BY InitTyped DEF QuotaInv
<1>1. DOMAIN transport = {} /\ DOMAIN replica = {} /\ DOMAIN opening = {}
  BY DEF Init, EmptyTable
<1> QED
  BY <1>1, FS_EmptySet DEF FreshIds, QuotaConserved

\* QuotaInv is inductive.
LEMMA QuotaInductive == QuotaInv /\ [Next]_vars => QuotaInv'
BY NextTyped, NextConserves DEF QuotaInv

\* Every release that a counter needs happens, and happens once: for any
\* number of requests, callers and replicas, a counter is its opening value
\* plus the transports in flight from the replica.
THEOREM QuotaIsConserved == Spec => []QuotaConserved
<1>1. QuotaInv => QuotaConserved
  BY DEF QuotaInv
<1> QED
  BY <1>1, InitConserves, QuotaInductive, PTL DEF Spec

\* A transport is placed only within the max_concurrency of its source.
THEOREM PlacementIsWithinConcurrency == Spec => PlacedWithinConcurrency
<1>1. QuotaInv /\ [Next]_vars => [PlacedStep]_vars
  BY NextConserves
<1>2. PlacedWithinConcurrency <=> [][PlacedStep]_vars
  BY DEF PlacedWithinConcurrency, PlacedStep
<1> QED
  BY <1>1, <1>2, InitConserves, QuotaInductive, PTL DEF Spec
=============================================================================

------------------------- MODULE ControlPartsProofs -------------------------
(***************************************************************************)
(* The inductive invariants of three components of a daemon's control      *)
(* plane, for every value of the constants: the background scheduler, the  *)
(* retirement of a replica, and the reconcile protocol with the Global     *)
(* Store.                                                                  *)
(***************************************************************************)
EXTENDS MCControl, TLAPS

USE SMTT(20), ZenonT(20)

----------------------------------------------------------------------------
(* The background scheduler. *)

\* stop() takes the mutex between storing running_ and notifying: once it has
\* it, the loop cannot be between the test of the predicate and its sleep.
SchedInv ==
  /\ Sched!TypeOK
  /\ stop # "none" => ~running
  /\ stop \in {"locked", "notified", "joined"} => loop # "blocking"
  /\ Sched!StopNotMissed

\* The longest delay is one of the four, and none is longer.
LEMMA LongestBounds ==
  /\ Sched!Longest \in Nat
  /\ Interval <= Sched!Longest /\ SweepInterval <= Sched!Longest
  /\ RetryDelay <= Sched!Longest /\ MaxDelay <= Sched!Longest
<1>1. \E x \in Sched!Delays : \A y \in Sched!Delays : y <= x
  BY SchedAssumption DEF Sched!Delays
<1>2. Sched!Longest \in Sched!Delays /\ \A y \in Sched!Delays : y <= Sched!Longest
  BY <1>1 DEF Sched!Longest
<1> QED BY <1>2, SchedAssumption DEF Sched!Delays

\* The initial state of the scheduler.
LEMMA SchedInit == InitSched => SchedInv
<1> SUFFICES ASSUME InitSched PROVE SchedInv
  OBVIOUS
<1> USE LongestBounds, SchedAssumption
<1>1. due \in [Sched!Tasks -> 0..Sched!Longest] /\ pending \in [Sched!Tasks -> BOOLEAN]
  BY DEF InitSched, Sched!Init
<1>2. running \in BOOLEAN /\ signal \in BOOLEAN /\ retry \in BOOLEAN
  BY Zenon DEF InitSched, Sched!Init
<1>3. Sched!TypeOK
  BY <1>1, <1>2 DEF InitSched, Sched!Init, Sched!TypeOK
<1> QED BY <1>3 DEF InitSched, Sched!Init, SchedInv, Sched!StopNotMissed

\* What is left of a time stays in its range.
LEMMA SubStays ==
  ASSUME NEW n \in Nat, NEW m \in 0..n \union {None}
  PROVE  Sched!Sub1(m) \in 0..n \union {None} /\ (m # None => Sched!Sub1(m) \in 0..n)
BY NoneAssumption DEF Sched!Sub1

\* The delay of the lifecycle task is one the scheduler knows.
LEMMA DelayStays ==
  ASSUME NEW d \in 0..MaxDelay \union {None}
  PROVE  Sched!Delay(d) \in 0..Sched!Longest
BY LongestBounds, SchedAssumption, NoneAssumption DEF Sched!Delay

\* The steps of the loop keep the invariant.
LEMMA SchedLoop == SchedInv /\ Sched!LoopStep => SchedInv'
<1> SUFFICES ASSUME SchedInv, Sched!LoopStep PROVE SchedInv'
  OBVIOUS
<1> USE LongestBounds, SchedAssumption DEF SchedInv, Sched!TypeOK, Sched!StopNotMissed,
        Sched!sched, Sched!life
<1>1. CASE Sched!Scan
  <2> DEFINE next == [t \in Sched!Tasks |-> IF t \notin Sched!DueTasks THEN due[t]
                                            ELSE IF t = Lifecycle THEN 0 ELSE Interval]
  <2>1. next \in [Sched!Tasks -> 0..Sched!Longest]
    OBVIOUS
  <2>2. due' = next /\ wake' \in {next[t] : t \in Sched!Tasks}
    BY <1>1 DEF Sched!Scan
  <2>4. wake' \in 0..Sched!Longest
    BY <2>1, <2>2
  <2>5. due' \in [Sched!Tasks -> 0..Sched!Longest]
    BY <2>1, <2>2
  <2>6. torun' \subseteq Sched!Tasks
    BY <1>1 DEF Sched!Scan, Sched!DueTasks
  <2>7. pending' \in [Sched!Tasks -> BOOLEAN]
    BY <1>1 DEF Sched!Scan
  <2> QED BY <1>1, <2>4, <2>5, <2>6, <2>7 DEF Sched!Scan
<1>2. CASE Sched!ScanStopped
  BY <1>2 DEF Sched!ScanStopped
<1>3. CASE Sched!Poll
  <2>1. deadline' \in 0..MaxDelay \union {None} /\ polled' \in 0..MaxDelay \union {None}
    BY <1>3 DEF Sched!Poll
  <2>2. retry' \in BOOLEAN
    BY <1>3 DEF Sched!Poll
  <2> QED BY <1>3, <2>1, <2>2 DEF Sched!Poll
<1>4. CASE Sched!Reschedule
  BY <1>4, DelayStays, NoneAssumption DEF Sched!Reschedule, Sched!SetNextDue, Sched!Tasks
<1>5. CASE Sched!AfterRun
  BY <1>5 DEF Sched!AfterRun
<1>6. CASE Sched!CheckPredicate
  BY <1>6 DEF Sched!CheckPredicate
<1>7. CASE Sched!Block
  BY <1>7, ZenonT(40) DEF Sched!Block
<1>8. CASE Sched!Wake
  BY <1>8 DEF Sched!Wake
<1>9. CASE \E t \in Periodic : Sched!RunTask(t)
  BY <1>9 DEF Sched!RunTask
<1> QED BY <1>1, <1>2, <1>3, <1>4, <1>5, <1>6, <1>7, <1>8, <1>9, Zenon DEF Sched!LoopStep

\* The steps of the other threads, and time.
LEMMA SchedOthers ==
  ASSUME SchedInv, Sched!Next, ~Sched!LoopStep
  PROVE  SchedInv'
<1> USE LongestBounds, SchedAssumption DEF SchedInv, Sched!TypeOK, Sched!StopNotMissed,
        Sched!sched, Sched!life, Sched!MutexFree, Sched!NotifyCv
<1>1. CASE Sched!Tick
  <2>1. \A t \in Sched!Tasks : Sched!Sub1(due[t]) \in 0..Sched!Longest
    BY SubStays, NoneAssumption
  <2>2. Sched!Sub1(wake) \in 0..Sched!Longest
    BY SubStays, NoneAssumption
  <2>3. /\ Sched!Sub1(deadline) \in 0..MaxDelay \union {None}
        /\ Sched!Sub1(polled) \in 0..MaxDelay \union {None}
    BY SubStays
  <2> QED BY <1>1, <2>1, <2>2, <2>3 DEF Sched!Tick
<1>2. CASE Sched!StopStore
  BY <1>2, Zenon DEF Sched!StopStore
<1>3. CASE Sched!StopLock
  BY <1>3 DEF Sched!StopLock
<1>4. CASE Sched!StopNotify
  BY <1>4, ZenonT(40) DEF Sched!StopNotify
<1>5. CASE Sched!StopJoin
  BY <1>5 DEF Sched!StopJoin
<1>6. CASE Sched!UnloadFails
  BY <1>6 DEF Sched!UnloadFails, Sched!SetNextDue, Sched!Tasks
<1>7. CASE \E t \in Periodic : Sched!Notify(t)
  BY <1>7 DEF Sched!Notify, Sched!Tasks
<1>8. CASE \E d \in 0..MaxDelay : Sched!AddDeadline(d)
  <2> PICK d \in 0..MaxDelay : Sched!AddDeadline(d)
    BY <1>8
  <2>1. Sched!Delay(d) \in 0..Sched!Longest
    BY DelayStays
  <2> QED BY <2>1 DEF Sched!AddDeadline, Sched!SetNextDue, Sched!Tasks
<1> QED BY <1>1, <1>2, <1>3, <1>4, <1>5, <1>6, <1>7, <1>8, Zenon DEF Sched!Next, Sched!StopStep

\* Every step of the scheduler keeps its invariant.
LEMMA SchedKept == SchedInv /\ SchedStep => SchedInv'
BY SchedLoop, SchedOthers DEF SchedStep

----------------------------------------------------------------------------
(* The retirement of a replica. *)

\* An unload is under way only for an entry whose demotion is complete; what
\* is in use has been taken.
RetiringInv ==
  /\ Retiring!TypeOK
  /\ Retiring!DemotionOwned
  /\ sync \in {"unload", "release"} => queue = "complete"
  /\ uses <= taken

\* Nothing is queued at the start.
LEMMA RetiringInit == InitRetiring => RetiringInv
<1> SUFFICES ASSUME InitRetiring PROVE RetiringInv
  OBVIOUS
<1>1. comm \in BOOLEAN /\ shut \in BOOLEAN /\ stop \in BOOLEAN
  BY Zenon DEF InitRetiring, Retiring!Init
<1>2. Retiring!TypeOK
  BY <1>1, RetiringAssumption DEF InitRetiring, Retiring!Init, Retiring!TypeOK
<1> QED BY <1>2 DEF InitRetiring, Retiring!Init, RetiringInv, Retiring!DemotionOwned

\* Loads, registrations, promotions, uses and the shutdown leave the queue alone.
LEMMA RetiringOthers ==
  ASSUME RetiringInv,
         \/ Retiring!BeginLoad \/ Retiring!FailLoad
         \/ \E p, x \in BOOLEAN : Retiring!EndLoad(p, x)
         \/ Retiring!RegisterExport \/ Retiring!RegisterRecord
         \/ \E ok \in BOOLEAN : Retiring!RegisterAnswer(ok)
         \/ Retiring!Promote \/ Retiring!Use \/ Retiring!EndUse
         \/ Retiring!FinalizeEvicted \/ Retiring!BeginShutdown \/ Retiring!StopLifecycle
  PROVE  RetiringInv'
<1> USE RetiringAssumption DEF RetiringInv, Retiring!TypeOK, Retiring!DemotionOwned
<1>1. CASE Retiring!BeginLoad
  BY <1>1 DEF Retiring!BeginLoad
<1>2. CASE Retiring!FailLoad
  BY <1>2 DEF Retiring!FailLoad
<1>3. CASE \E p, x \in BOOLEAN : Retiring!EndLoad(p, x)
  BY <1>3 DEF Retiring!EndLoad
<1>4. CASE Retiring!RegisterExport
  <2>1. comm' \in BOOLEAN
    BY <1>4, Zenon DEF Retiring!RegisterExport
  <2> QED BY <1>4, <2>1 DEF Retiring!RegisterExport
<1>5. CASE Retiring!RegisterRecord
  BY <1>5 DEF Retiring!RegisterRecord
<1>6. CASE \E ok \in BOOLEAN : Retiring!RegisterAnswer(ok)
  BY <1>6 DEF Retiring!RegisterAnswer
<1>7. CASE Retiring!Promote
  <2>1. comm' \in BOOLEAN
    BY <1>7, Zenon DEF Retiring!Promote
  <2> QED BY <1>7, <2>1 DEF Retiring!Promote
<1>8. CASE Retiring!Use
  BY <1>8 DEF Retiring!Use
<1>9. CASE Retiring!EndUse
  BY <1>9 DEF Retiring!EndUse
<1>10. CASE Retiring!FinalizeEvicted
  <2>1. comm' \in BOOLEAN
    BY <1>10, Zenon DEF Retiring!FinalizeEvicted
  <2>2. CASE fin = "read" /\ exp = "presence"
    BY <1>10, <2>1, <2>2 DEF Retiring!FinalizeEvicted
  <2>3. CASE fin = "read" /\ exp # "presence"
    BY <1>10, <2>1, <2>3 DEF Retiring!FinalizeEvicted
  <2>4. CASE fin = "putPresence"
    BY <1>10, <2>1, <2>4 DEF Retiring!FinalizeEvicted
  <2> QED BY <1>10, <2>2, <2>3, <2>4, ZenonT(40) DEF Retiring!FinalizeEvicted
<1>11. CASE Retiring!BeginShutdown
  BY <1>11 DEF Retiring!BeginShutdown
<1>12. CASE Retiring!StopLifecycle
  BY <1>12 DEF Retiring!StopLifecycle
<1> QED BY <1>1, <1>2, <1>3, <1>4, <1>5, <1>6, <1>7, <1>8, <1>9, <1>10, <1>11, <1>12, ZenonT(40)

\* The state-sync thread puts the replica on the retire queue, starts its
\* demotion, and takes it off after the unload.
LEMMA RetiringSync == RetiringInv /\ Retiring!SyncStep => RetiringInv'
<1> SUFFICES ASSUME RetiringInv, Retiring!SyncStep PROVE RetiringInv'
  OBVIOUS
<1> USE RetiringAssumption DEF RetiringInv, Retiring!TypeOK, Retiring!DemotionOwned
<1>1. CASE Retiring!SyncSend
  BY <1>1 DEF Retiring!SyncSend, Retiring!Inventory
<1>2. CASE Retiring!RetirePass
  <2>1. CASE queue = "new" /\ shut
    BY <1>2, <2>1 DEF Retiring!RetirePass
  <2>2. CASE queue = "new" /\ ~shut
    BY <1>2, <2>2 DEF Retiring!RetirePass
  <2>3. CASE queue # "new" /\ queue = "complete" /\ uses = 0
    BY <1>2, <2>3 DEF Retiring!RetirePass
  <2>4. CASE queue # "new" /\ ~(queue = "complete" /\ uses = 0)
    BY <1>2, <2>4 DEF Retiring!RetirePass
  <2> QED BY <2>1, <2>2, <2>3, <2>4
<1>3. CASE Retiring!UnloadUnexport
  <2>1. comm' \in BOOLEAN
    BY <1>3, Zenon DEF Retiring!UnloadUnexport
  <2> QED BY <1>3, <2>1 DEF Retiring!UnloadUnexport
<1>4. CASE Retiring!UnloadRelease
  <2>1. comm' \in BOOLEAN
    BY <1>4, Zenon DEF Retiring!UnloadRelease
  <2> QED BY <1>4, <2>1 DEF Retiring!UnloadRelease
<1>5. CASE Retiring!ApplyNothing
  BY <1>5 DEF Retiring!ApplyNothing
<1>6. CASE \E r \in BOOLEAN, u \in {None, TRUE, FALSE} : Retiring!ApplyChanges(r, u)
  <2> PICK r \in BOOLEAN, u \in {None, TRUE, FALSE} : Retiring!ApplyChanges(r, u)
    BY <1>6, ZenonT(40)
  <2>1. comm' \in BOOLEAN
    BY Zenon DEF Retiring!ApplyChanges
  <2>2. miss' \in 0..Threshold
    BY DEF Retiring!ApplyChanges, Retiring!Missed
  <2> QED BY <2>1, <2>2 DEF Retiring!ApplyChanges, Retiring!EnqueuedQueue, Retiring!EnqueuedPub
<1>7. CASE \E x \in BOOLEAN : Retiring!ApplyFullState(x)
  <2> PICK x \in BOOLEAN : Retiring!ApplyFullState(x)
    BY <1>7
  <2>1. miss' \in 0..Threshold
    BY DEF Retiring!ApplyFullState, Retiring!Missed
  <2> QED BY <2>1 DEF Retiring!ApplyFullState, Retiring!EnqueuedQueue, Retiring!EnqueuedPub
<1> QED BY <1>1, <1>2, <1>3, <1>4, <1>5, <1>6, <1>7, ZenonT(40) DEF Retiring!SyncStep

\* The demotion task reports to the entry it was started for.
LEMMA RetiringDemotion == RetiringInv /\ Retiring!DemotionStep => RetiringInv'
<1> SUFFICES ASSUME RetiringInv, Retiring!DemotionStep PROVE RetiringInv'
  OBVIOUS
<1> USE RetiringAssumption DEF RetiringInv, Retiring!TypeOK, Retiring!DemotionOwned
<1>1. CASE Retiring!DemoteMark
  BY <1>1 DEF Retiring!DemoteMark
<1>2. CASE Retiring!DemoteGates
  BY <1>2 DEF Retiring!DemoteGates
<1>3. CASE Retiring!DemoteFinalize
  <2>1. comm' \in BOOLEAN
    BY <1>3, Zenon DEF Retiring!DemoteFinalize
  <2> QED BY <1>3, <2>1 DEF Retiring!DemoteFinalize
<1>4. CASE Retiring!DemoteReport
  BY <1>4 DEF Retiring!DemoteReport
<1> QED BY <1>1, <1>2, <1>3, <1>4, Zenon DEF Retiring!DemotionStep

\* Every step around a retiring replica keeps the invariant.
LEMMA RetiringKept == RetiringInv /\ RetiringStep => RetiringInv'
BY RetiringOthers, RetiringSync, RetiringDemotion DEF RetiringStep, Retiring!Next

----------------------------------------------------------------------------
(* The reconcile protocol. *)

WorkerRow == [active : BOOLEAN, gen : Nat, seq : Nat, ver : Nat,
              sum : Worker!Inventory \union {None}]

\* A request is made of its fields (next_state_sync_token, collect_inventory).
LEMMA RequestMade ==
  ASSUME NEW g \in Nat, NEW s \in Nat, NEW inv \in Worker!Inventory, NEW young \in SUBSET Keys,
         NEW over \in BOOLEAN, NEW torn \in BOOLEAN
  PROVE  [gen |-> g, seq |-> s, inv |-> inv, young |-> young, over |-> over, torn |-> torn]
           \in Worker!Request
BY Zenon DEF Worker!Request

\* Tokens are taken in the order of their generations.  A token that is not
\* torn and of the daemon's generation is at most the next one, and was taken
\* after the cursor had been reset.
TokenOrder ==
  /\ dmn.gen <= wrk.gen
  /\ call # None => /\ call.gen <= dmn.gen /\ ~call.over
                    /\ ~call.torn /\ call.gen = dmn.gen =>
                         call.seq = dmn.seq + 1 /\ hb # "registered"
  /\ late # None => /\ late.gen <= dmn.gen
                    /\ ~late.torn /\ late.gen = dmn.gen =>
                         late.seq <= dmn.seq + 1 /\ hb # "registered"
  /\ call # None /\ late # None => /\ late.gen <= call.gen
                                   /\ call.torn => late.gen < call.gen \/ late.torn

\* A request that was overtaken is behind the cursor of the Global Store, or
\* of an earlier generation, unless its token is torn.
OvertakenBehind ==
  late # None /\ late.over /\ ~late.torn =>
    \/ late.gen < wrk.gen
    \/ late.gen = wrk.gen /\ late.seq <= wrk.seq

\* A cache entry of the present generation and cursor, whose replica epoch has
\* not changed, lists no copy whose row says something else.
CacheAgrees ==
  cache # None =>
    /\ cache.gen <= wrk.gen
    /\ wrk.active /\ cache.gen = wrk.gen /\ cache.seq = wrk.seq /\ cache.fresh =>
         \A k \in Keys : cache.inv[k] # "none" => rows[k] = cache.inv[k]

WorkerInv == Worker!TypeOK /\ TokenOrder /\ OvertakenBehind /\ CacheAgrees

\* The daemon and the Global Store start in step.
LEMMA WorkerInit == InitWorker => WorkerInv
<1> SUFFICES ASSUME InitWorker PROVE WorkerInv
  OBVIOUS
<1> USE WorkerAssumption DEF InitWorker, Worker!Init
<1>1. wrk \in WorkerRow
  BY DEF WorkerRow
<1>2. rows \in Worker!Inventory /\ local \in Worker!Inventory /\ missing \in [Keys -> 0..1]
  BY DEF Worker!Inventory, Worker!Copies
<1>3. dmn \in [gen : Nat, seq : Nat, ver : Nat] /\ pending \in BOOLEAN
  BY Zenon
<1>4. budget \in [Worker!Events -> Nat]
  BY DEF Worker!Events
<1>5. Worker!TypeOK
  BY <1>1, <1>2, <1>3, <1>4, Zenon DEF Worker!TypeOK, WorkerRow
<1> QED BY <1>5 DEF WorkerInv, TokenOrder, OvertakenBehind, CacheAgrees

\* What the rows tell of a request under way changes only its young keys and
\* whether it was overtaken.
LEMMA MeanwhileKeeps ==
  ASSUME NEW m \in Worker!Request \union {None}, NEW after, NEW ov \in BOOLEAN
  PROVE  LET n == Worker!Meanwhile(m, after, ov) IN
         /\ n \in Worker!Request \union {None}
         /\ n = None <=> m = None
         /\ m # None => /\ n.gen = m.gen /\ n.seq = m.seq /\ n.torn = m.torn
                        /\ n.over = (m.over \/ ov)
<1> DEFINE n == Worker!Meanwhile(m, after, ov)
<1>1. CASE m = None
  BY <1>1 DEF Worker!Meanwhile
<1>2. CASE m # None
  <2> DEFINE y == {k \in Keys : rows[k] = "none" /\ after[k] # "none"}
  <2>1. n = [m EXCEPT !.young = @ \union y, !.over = @ \/ ov]
    BY <1>2 DEF Worker!Meanwhile
  <2>2. m \in Worker!Request
    BY <1>2
  <2>3. y \subseteq Keys
    OBVIOUS
  <2> HIDE DEF y, n
  <2>4. m.young \union y \in SUBSET Keys
    BY <2>2, <2>3 DEF Worker!Request
  <2>5. (m.over \/ ov) \in BOOLEAN
    OBVIOUS
  <2>6. n \in Worker!Request
    BY <2>1, <2>2, <2>4, <2>5, Zenon DEF Worker!Request
  <2>7. n # None
    BY <2>6, NoneAssumption DEF Worker!Request, Worker!Inventory, Worker!Copies
  <2>8. n.gen = m.gen /\ n.seq = m.seq /\ n.torn = m.torn /\ n.over = (m.over \/ ov)
    BY <2>1, <2>2 DEF Worker!Request
  <2> QED BY <2>6, <2>7, <2>8, <1>2 DEF n
<1> QED BY <1>1, <1>2

\* The rows that a snapshot leaves.
After(m) == IF Worker!NoopCacheHit(m) THEN rows ELSE Worker!Target(m)

\* Target keeps to what is listed.
LEMMA TargetType ==
  ASSUME Worker!TypeOK, NEW m \in Worker!Request
  PROVE  /\ After(m) \in Worker!Inventory
         /\ \A k \in Keys : m.inv[k] # "none" => Worker!Target(m)[k] = m.inv[k]
<1>1. m.inv \in Worker!Inventory /\ rows \in Worker!Inventory
  BY DEF Worker!TypeOK, Worker!Request
<1>2. Worker!Target(m) \in Worker!Inventory
  BY <1>1 DEF Worker!Target, Worker!Inventory
<1>3. \A k \in Keys : m.inv[k] # "none" => Worker!Target(m)[k] = m.inv[k]
  BY <1>1 DEF Worker!Target, Worker!Inventory
<1> QED BY <1>1, <1>2, <1>3, ZenonT(40) DEF After

\* A request that is not accepted changes at most the cache, which it may drop.
LEMMA Refused ==
  ASSUME Worker!TypeOK, NEW m \in Worker!Request, ~Worker!Accepts(m)
  PROVE  LET r == Worker!Reconcile(m) IN
         /\ r.wrk = wrk /\ r.rows = rows /\ r.cache \in {cache, None}
         /\ r.reply \in Worker!Reply
<1> DEFINE said(kind, ver) ==
             [wrk |-> wrk, rows |-> rows, cache |-> cache, reply |->
                [kind |-> kind, ver |-> ver, adds |-> {},
                 gone |-> IF kind = "REBASE" THEN {k \in Keys : rows[k] = "none"} ELSE {}]]
<1>1. ASSUME NEW kind \in Worker!Kinds, NEW ver \in Nat
      PROVE  /\ said(kind, ver).wrk = wrk /\ said(kind, ver).rows = rows
             /\ said(kind, ver).cache = cache /\ said(kind, ver).reply \in Worker!Reply
  BY Zenon DEF Worker!Reply
<1>2. "ERROR" \in Worker!Kinds /\ "NOOP" \in Worker!Kinds /\ "STALE" \in Worker!Kinds
  BY DEF Worker!Kinds
<1>3. CASE ~wrk.active
  <2>1. Worker!Reconcile(m) =
          [said("ERROR", 0) EXCEPT !.cache = IF Worker!CachedReplay(m) THEN None ELSE @]
    BY <1>3, Zenon DEF Worker!Reconcile
  <2> QED BY <2>1, <1>1, <1>2
<1>4. CASE wrk.active /\ Worker!CachedReplay(m)
  <2> DEFINE kind == IF m.seq = cache.seq THEN "NOOP" ELSE "STALE"
  <2>1. Worker!Reconcile(m) = said(kind, cache.ver)
    BY <1>4, Zenon DEF Worker!Reconcile
  <2>2. cache.ver \in Nat
    BY <1>4, Zenon DEF Worker!CachedReplay, Worker!TypeOK, Worker!CacheEntry
  <2>3. kind \in Worker!Kinds
    BY <1>2, ZenonT(40)
  <2> HIDE DEF said, kind
  <2> QED BY <2>1, <2>2, <2>3, <1>1
<1>5. CASE wrk.active /\ ~Worker!CachedReplay(m)
  <2>1. Worker!Reconcile(m) = said(Worker!RefusalKind(m), wrk.ver)
    BY <1>5, Zenon DEF Worker!Reconcile
  <2>2. wrk.ver \in Nat
    BY DEF Worker!TypeOK
  <2>3. Worker!RefusalKind(m) \in Worker!Kinds
    BY ZenonT(40) DEF Worker!RefusalKind, Worker!Kinds
  <2> HIDE DEF said
  <2> QED BY <2>1, <2>2, <2>3, <1>1
<1> QED BY <1>3, <1>4, <1>5

\* An accepted request stores its cursor, its rows and a fresh cache entry.
LEMMA Accepted ==
  ASSUME Worker!TypeOK, NEW m \in Worker!Request, Worker!Accepts(m)
  PROVE  LET r == Worker!Reconcile(m) IN
         /\ r.wrk \in WorkerRow
         /\ r.wrk.gen = wrk.gen /\ r.wrk.active = wrk.active /\ r.wrk.seq = m.seq
         /\ r.rows = After(m)
         /\ r.cache \in Worker!CacheEntry
         /\ r.cache.gen = m.gen /\ r.cache.seq = m.seq /\ r.cache.inv = m.inv
         /\ r.cache.fresh
         /\ r.reply \in Worker!Reply
<1> DEFINE skip == Worker!NoopCacheHit(m)
           after == After(m)
           changed == after # rows
           ver == IF changed THEN wrk.ver + 1 ELSE wrk.ver
           sum == IF skip THEN wrk.sum ELSE after
           w == [wrk EXCEPT !.seq = m.seq, !.ver = ver, !.sum = sum]
           c == [gen |-> m.gen, seq |-> m.seq, ver |-> ver, sum |-> sum,
                 inv |-> m.inv, fresh |-> TRUE]
           a == [kind |-> IF changed THEN "APPLIED" ELSE "NOOP", ver |-> ver,
                 adds |-> {k \in Keys : rows[k] = "none" /\ after[k] # "none"},
                 gone |-> {k \in Keys : rows[k] # "none" /\ after[k] = "none"}]
<1>1. Worker!Reconcile(m) = [wrk |-> w, rows |-> after, cache |-> c, reply |-> a]
  BY Zenon DEF Worker!Reconcile, Worker!Accepts, After
<1>2. wrk \in WorkerRow /\ m.gen \in Nat /\ m.seq \in Nat /\ m.inv \in Worker!Inventory
  BY DEF Worker!TypeOK, WorkerRow, Worker!Request
<1>3. ver \in Nat
  BY <1>2 DEF WorkerRow
<1>4. sum \in Worker!Inventory \union {None}
  BY <1>2, TargetType, ZenonT(40) DEF WorkerRow
<1>5. a \in Worker!Reply
  <2> HIDE DEF ver
  <2> QED BY <1>3 DEF Worker!Reply, Worker!Kinds
<1> HIDE DEF ver, sum, after
<1>6. w \in WorkerRow /\ w.gen = wrk.gen /\ w.active = wrk.active /\ w.seq = m.seq
  BY <1>2, <1>3, <1>4, ZenonT(40) DEF WorkerRow
<1>7. c \in Worker!CacheEntry
  BY <1>2, <1>3, <1>4, Zenon DEF Worker!CacheEntry
<1>8. c.gen = m.gen /\ c.seq = m.seq /\ c.inv = m.inv /\ c.fresh
  OBVIOUS
<1> HIDE DEF w, c, a
<1> QED BY <1>1, <1>5, <1>6, <1>7, <1>8 DEF after

\* A budget that is spent stays a budget.
LEMMA SpendType ==
  ASSUME Worker!TypeOK, NEW e \in Worker!Events, Worker!Spend(e)
  PROVE  budget' \in [Worker!Events -> Nat]
BY DEF Worker!TypeOK, Worker!Spend

\* The names of the events.
LEMMA EventNames ==
  /\ "change" \in Worker!Events /\ "lost" \in Worker!Events /\ "expire" \in Worker!Events
  /\ "restart" \in Worker!Events /\ "register" \in Worker!Events /\ "commit" \in Worker!Events
BY DEF Worker!Events

\* A request and an answer are not None.
LEMMA NoneIsNone ==
  /\ \A m \in Worker!Request : m # None
  /\ \A a \in Worker!Reply : a # None
  /\ Worker!ErrorReply \in Worker!Reply
BY NoneAssumption, ZenonT(40) DEF Worker!Request, Worker!Reply, Worker!Inventory, Worker!Copies, Worker!Kinds,
   Worker!ErrorReply

\* The Global Store handles a request: the generation stays, the cursor moves
\* by one where the request is accepted, and the cache agrees with the rows.
LEMMA Handled ==
  ASSUME WorkerInv, NEW m \in Worker!Request,
         wrk' = Worker!Reconcile(m).wrk, rows' = Worker!Reconcile(m).rows,
         cache' = Worker!Reconcile(m).cache
  PROVE  /\ wrk' \in WorkerRow /\ rows' \in Worker!Inventory
         /\ cache' \in Worker!CacheEntry \union {None}
         /\ wrk'.gen = wrk.gen
         /\ Worker!Accepts(m) => m.gen = wrk.gen /\ wrk'.seq = m.seq /\ m.seq = wrk.seq + 1
         /\ ~Worker!Accepts(m) => wrk'.seq = wrk.seq
         /\ CacheAgrees'
<1>1. Worker!TypeOK /\ CacheAgrees
  BY DEF WorkerInv
<1>2. CASE ~Worker!Accepts(m)
  <2>1. wrk' = wrk /\ rows' = rows /\ cache' \in {cache, None}
    BY <1>1, <1>2, Refused, ZenonT(40)
  <2>2. CacheAgrees'
    BY <1>1, <2>1 DEF CacheAgrees
  <2> QED BY <1>1, <1>2, <2>1, <2>2, ZenonT(40) DEF Worker!TypeOK, WorkerRow
<1>3. CASE Worker!Accepts(m)
  <2>1. /\ wrk' \in WorkerRow /\ wrk'.gen = wrk.gen /\ wrk'.seq = m.seq
        /\ rows' = After(m) /\ cache' \in Worker!CacheEntry
        /\ cache'.gen = m.gen /\ cache'.inv = m.inv
    BY <1>1, <1>3, Accepted, ZenonT(40)
  <2>2. rows' \in Worker!Inventory
    BY <1>1, <2>1, TargetType, ZenonT(40)
  <2>3. wrk.active /\ m.gen = wrk.gen /\ m.seq = wrk.seq + 1
    BY <1>3, ZenonT(40) DEF Worker!Accepts
  <2>4. \A k \in Keys : m.inv[k] # "none" => rows'[k] = m.inv[k]
    <3>1. CASE Worker!NoopCacheHit(m)
      <4>1. rows' = rows
        BY <2>1, <3>1, Zenon DEF After
      <4>2. /\ cache # None /\ cache.gen = wrk.gen /\ cache.seq = wrk.seq /\ cache.fresh
            /\ cache.inv = m.inv
        BY <2>3, <3>1, Zenon DEF Worker!NoopCacheHit
      <4> QED BY <1>1, <2>3, <4>1, <4>2, ZenonT(40) DEF CacheAgrees
    <3>2. CASE ~Worker!NoopCacheHit(m)
      BY <1>1, <2>1, <3>2, TargetType, ZenonT(40) DEF After
    <3> QED BY <3>1, <3>2, ZenonT(40)
  <2>5. CacheAgrees'
    <3>1. wrk.gen \in Nat
      BY <1>1, ZenonT(40) DEF Worker!TypeOK
    <3> QED BY <3>1, <2>1, <2>3, <2>4 DEF CacheAgrees
  <2> QED BY <1>3, <2>1, <2>2, <2>3, <2>5, ZenonT(40)
<1> QED BY <1>2, <1>3

\* The types of the variables that the cases below need.
LEMMA WorkerTypes ==
  ASSUME WorkerInv
  PROVE  /\ wrk.gen \in Nat /\ wrk.seq \in Nat /\ dmn.gen \in Nat /\ dmn.seq \in Nat
         /\ call \in Worker!Request \union {None} /\ late \in Worker!Request \union {None}
         /\ call # None => call.gen \in Nat /\ call.seq \in Nat
         /\ late # None => late.gen \in Nat /\ late.seq \in Nat
         /\ sync # "idle" => call # None
         /\ sync = "reply" <=> reply # None
BY DEF WorkerInv, Worker!TypeOK, Worker!Request

\* The request of the sync thread is handled: one that was sent before it and
\* is still under way is overtaken, and no longer the next.
LEMMA WorkerHandleCall == WorkerInv /\ Worker!HandleCall => WorkerInv'
<1> SUFFICES ASSUME WorkerInv, Worker!HandleCall PROVE WorkerInv'
  OBVIOUS
<1> USE DEF Worker!HandleCall, Worker!dmnVars
<1>1. /\ Worker!TypeOK /\ TokenOrder /\ OvertakenBehind
      /\ call # None /\ call \in Worker!Request /\ late \in Worker!Request \union {None}
  BY WorkerTypes DEF WorkerInv
<1>2. /\ wrk' \in WorkerRow /\ rows' \in Worker!Inventory
      /\ cache' \in Worker!CacheEntry \union {None}
      /\ wrk'.gen = wrk.gen
      /\ Worker!Accepts(call) => call.gen = wrk.gen /\ wrk'.seq = call.seq /\ call.seq = wrk.seq + 1
      /\ ~Worker!Accepts(call) => wrk'.seq = wrk.seq
      /\ CacheAgrees'
  BY <1>1, Handled, ZenonT(40)
<1>3. Worker!Accepts(call) \in BOOLEAN
  BY DEF Worker!Accepts
<1> DEFINE ov == Worker!Accepts(call)
<1>4. late' = Worker!Meanwhile(late, rows', ov)
  BY Zenon
<1>5. /\ late' \in Worker!Request \union {None}
      /\ late' = None <=> late = None
      /\ late # None => /\ late'.gen = late.gen /\ late'.seq = late.seq /\ late'.torn = late.torn
                        /\ late'.over = (late.over \/ ov)
  <2> HIDE DEF ov, Worker!HandleCall
  <2>1. ov \in BOOLEAN
    BY <1>3 DEF ov
  <2> QED BY <1>1, <1>4, <2>1, MeanwhileKeeps
<1>6. reply' \in Worker!Reply /\ reply' # None
  BY <1>1, Accepted, Refused, NoneIsNone, ZenonT(40)
<1>7. budget' \in [Worker!Events -> Nat]
  BY <1>1, SpendType, EventNames, Zenon DEF Worker!TypeOK
<1>8. Worker!TypeOK'
  <2>1. UNCHANGED <<local, dmn, pending, missing, prefetch, call, hb, regs>> /\ sync' = "reply"
    OBVIOUS
  <2> HIDE DEF Worker!HandleCall
  <2> QED BY <1>1, <1>2, <1>5, <1>6, <1>7, <2>1, Zenon DEF Worker!TypeOK, WorkerRow
<1>9. TokenOrder'
  BY <1>1, <1>2, <1>5, ZenonT(40) DEF TokenOrder
<1> HIDE DEF Worker!HandleCall
<1>10. OvertakenBehind'
  <2> SUFFICES ASSUME late' # None, late'.over, ~late'.torn
               PROVE  late'.gen < wrk'.gen \/ (late'.gen = wrk'.gen /\ late'.seq <= wrk'.seq)
    BY DEF OvertakenBehind
  <2>1. CASE late.over
    <3>1. late.gen < wrk.gen \/ (late.gen = wrk.gen /\ late.seq <= wrk.seq)
      BY <1>1, <1>5, <2>1, Zenon DEF OvertakenBehind
    <3>2. wrk'.seq \in {wrk.seq, wrk.seq + 1}
      BY <1>2
    <3>3. late # None
      BY <1>5
    <3>4. late.seq \in Nat /\ wrk.seq \in Nat
      BY <3>3, WorkerTypes, Zenon
    <3> QED BY <1>2, <1>5, <3>1, <3>2, <3>3, <3>4
  <2>2. CASE ~late.over
    <3>1. Worker!Accepts(call)
      BY <1>5, <2>2, Zenon
    <3>2. call.gen = wrk.gen /\ wrk'.seq = call.seq /\ call.gen <= dmn.gen /\ dmn.gen <= wrk.gen
      BY <1>1, <1>2, <3>1, ZenonT(40) DEF TokenOrder
    <3>3. call.gen = dmn.gen
      BY <3>2, <1>1, WorkerTypes
    <3>4. late.gen <= call.gen /\ (call.torn => late.gen < call.gen)
      BY <1>1, <1>5, Zenon DEF TokenOrder
    <3>5. CASE late.gen < call.gen
      BY <3>2, <3>5, <1>2, <1>5, Zenon
    <3>6. CASE late.gen = call.gen
      <4>1. ~call.torn
        BY <3>4, <3>6, <1>1, WorkerTypes
      <4>2. call.seq = dmn.seq + 1 /\ late.seq <= dmn.seq + 1
        BY <1>1, <1>5, <3>3, <3>6, <4>1, ZenonT(40) DEF TokenOrder
      <4> QED BY <4>2, <3>2, <3>6, <1>2, <1>5, Zenon
    <3> QED BY <3>4, <3>5, <3>6, <1>1, <1>5, WorkerTypes
  <2> QED BY <2>1, <2>2
<1> QED BY <1>2, <1>8, <1>9, <1>10, ZenonT(40) DEF WorkerInv

\* An earlier copy is handled: the request of the sync thread was sent later.
LEMMA WorkerHandleLate == WorkerInv /\ Worker!HandleLate => WorkerInv'
<1> SUFFICES ASSUME WorkerInv, Worker!HandleLate PROVE WorkerInv'
  OBVIOUS
<1>1. /\ Worker!TypeOK /\ TokenOrder
      /\ late \in Worker!Request /\ call \in Worker!Request \union {None}
  BY WorkerTypes DEF WorkerInv, Worker!HandleLate
<1>2. /\ wrk' = Worker!Reconcile(late).wrk /\ rows' = Worker!Reconcile(late).rows
      /\ cache' = Worker!Reconcile(late).cache
      /\ call' = Worker!Meanwhile(call, rows', FALSE) /\ late' = None
      /\ UNCHANGED <<local, dmn, pending, missing, prefetch, sync, reply, hb, regs, budget>>
  BY ZenonT(40) DEF Worker!HandleLate, Worker!dmnVars
<1>3. /\ wrk' \in WorkerRow /\ rows' \in Worker!Inventory
      /\ cache' \in Worker!CacheEntry \union {None}
      /\ wrk'.gen = wrk.gen /\ CacheAgrees'
  BY <1>1, <1>2, Handled
<1>4. /\ call' \in Worker!Request \union {None}
      /\ call' = None <=> call = None
      /\ call # None => /\ call'.gen = call.gen /\ call'.seq = call.seq /\ call'.torn = call.torn
                        /\ call'.over => call.over
  <2> DEFINE ov == FALSE
  <2>1. ov \in BOOLEAN /\ call' = Worker!Meanwhile(call, rows', ov)
    BY <1>2, ZenonT(40)
  <2> HIDE DEF ov
  <2>2. /\ call' \in Worker!Request \union {None}
        /\ call' = None <=> call = None
        /\ call # None => /\ call'.gen = call.gen /\ call'.seq = call.seq /\ call'.torn = call.torn
                          /\ call'.over = (call.over \/ ov)
    BY <1>1, <2>1, MeanwhileKeeps
  <2> QED BY <2>2, Zenon DEF ov
<1>5. Worker!TypeOK'
  BY <1>1, <1>2, <1>3, <1>4, Zenon DEF Worker!TypeOK, WorkerRow
<1>6. TokenOrder'
  BY <1>1, <1>2, <1>3, <1>4, Zenon DEF TokenOrder
<1>7. OvertakenBehind'
  BY <1>2, Zenon DEF OvertakenBehind
<1> QED BY <1>3, <1>5, <1>6, <1>7, ZenonT(40) DEF WorkerInv

\* The COMMIT of an accepted request fails: the cache entry is of a cursor
\* that was not stored.
LEMMA WorkerCommitFails == WorkerInv /\ Worker!HandleCallCommitFails => WorkerInv'
<1> SUFFICES ASSUME WorkerInv, Worker!HandleCallCommitFails PROVE WorkerInv'
  OBVIOUS
<1> DEFINE r == Worker!Reconcile(call)
<1>1. /\ Worker!TypeOK /\ TokenOrder /\ OvertakenBehind /\ CacheAgrees
      /\ call \in Worker!Request /\ call # None
  BY WorkerTypes DEF WorkerInv, Worker!HandleCallCommitFails
<1>2. /\ cache' = [r.cache EXCEPT !.fresh = (r.rows = rows)]
      /\ reply' = Worker!ErrorReply /\ sync' = "reply" /\ Worker!Spend("commit")
      /\ Worker!Accepts(call)
      /\ UNCHANGED <<wrk, rows, local, dmn, pending, missing, prefetch, call, late, hb, regs>>
  BY DEF Worker!HandleCallCommitFails, Worker!dmnVars
<1>3. r.cache \in Worker!CacheEntry /\ r.cache.gen = call.gen /\ r.cache.seq = call.seq
  BY <1>1, <1>2, Accepted
<1>4. call.gen = wrk.gen /\ call.seq = wrk.seq + 1
  BY <1>2 DEF Worker!Accepts
<1> HIDE DEF r
<1>5. /\ cache' \in Worker!CacheEntry
      /\ cache'.gen = wrk.gen /\ cache'.seq = wrk.seq + 1
  BY <1>2, <1>3, <1>4, ZenonT(40) DEF Worker!CacheEntry
<1>6. budget' \in [Worker!Events -> Nat]
  BY <1>1, <1>2, SpendType, EventNames
<1>7. Worker!TypeOK'
  BY <1>1, <1>2, <1>5, <1>6, NoneIsNone, ZenonT(40) DEF Worker!TypeOK
<1>8. TokenOrder' /\ OvertakenBehind'
  BY <1>1, <1>2 DEF TokenOrder, OvertakenBehind
<1>9. CacheAgrees'
  BY <1>2, <1>5, WorkerTypes DEF CacheAgrees
<1> QED BY <1>7, <1>8, <1>9 DEF WorkerInv

\* An attempt expires while its request is at the Global Store.
LEMMA WorkerAttemptExpires == WorkerInv /\ Worker!AttemptExpires => WorkerInv'
<1> SUFFICES ASSUME WorkerInv, Worker!AttemptExpires PROVE WorkerInv'
  OBVIOUS
<1>1. /\ Worker!TypeOK /\ TokenOrder /\ OvertakenBehind /\ CacheAgrees
      /\ call \in Worker!Request /\ call # None /\ sync = "rpc"
  BY WorkerTypes DEF WorkerInv, Worker!AttemptExpires
<1>2. /\ late' = call /\ Worker!Spend("lost")
      /\ UNCHANGED <<wrk, rows, cache, local, dmn, pending, missing, prefetch, call, hb, regs>>
      /\ UNCHANGED <<sync, reply>> \/ (sync' = "reply" /\ reply' = Worker!ErrorReply)
  BY DEF Worker!AttemptExpires, Worker!dmnVars, Worker!gsVars
<1>3. budget' \in [Worker!Events -> Nat]
  BY <1>1, <1>2, SpendType, EventNames, ZenonT(40)
<1>4. Worker!TypeOK'
  BY <1>1, <1>2, <1>3, NoneIsNone, ZenonT(40) DEF Worker!TypeOK
<1>5. TokenOrder'
  <2>1. call' = call /\ late' = call /\ wrk' = wrk /\ dmn' = dmn /\ hb' = hb
    BY <1>2, Zenon
  <2>2. call.gen \in Nat /\ call.seq \in Nat /\ dmn.gen \in Nat /\ dmn.seq \in Nat
    BY <1>1, WorkerTypes
  <2> QED BY ONLY <1>1, <2>1, <2>2 DEF TokenOrder
<1>6. OvertakenBehind'
  BY <1>1, <1>2 DEF TokenOrder, OvertakenBehind
<1>7. CacheAgrees'
  BY <1>1, <1>2, ZenonT(40) DEF CacheAgrees
<1> QED BY <1>4, <1>5, <1>6, <1>7, ZenonT(40) DEF WorkerInv

\* The sync thread takes a token; one read between the two stores of a
\* registration is torn.
LEMMA WorkerTakeToken == WorkerInv /\ Worker!TakeToken => WorkerInv'
<1> SUFFICES ASSUME WorkerInv, Worker!TakeToken PROVE WorkerInv'
  OBVIOUS
<1> DEFINE c == [gen |-> dmn.gen, seq |-> dmn.seq + 1, inv |-> local, young |-> {}, over |-> FALSE,
                 torn |-> hb = "registered"]
<1>1. /\ Worker!TypeOK /\ TokenOrder /\ OvertakenBehind /\ CacheAgrees
      /\ dmn.gen \in Nat /\ dmn.seq \in Nat /\ late \in Worker!Request \union {None}
      /\ late # None => late.gen \in Nat
  BY WorkerTypes DEF WorkerInv
<1>2. /\ call' = c /\ sync = "idle" /\ sync' = "token" /\ pending' = FALSE
      /\ UNCHANGED <<wrk, rows, cache, local, dmn, missing, prefetch, reply, late, hb, regs, budget>>
  BY Zenon DEF Worker!TakeToken, Worker!gsVars
<1>3. c \in Worker!Request /\ c # None
  <2>1. (hb = "registered") \in BOOLEAN /\ local \in Worker!Inventory /\ {} \in SUBSET Keys
    BY <1>1 DEF Worker!TypeOK
  <2>2. dmn.seq + 1 \in Nat
    BY ONLY <1>1
  <2>3. c \in Worker!Request
    BY <1>1, <2>1, <2>2, RequestMade, Zenon
  <2> QED BY <2>3, NoneIsNone, Zenon
<1>4. c.gen = dmn.gen /\ c.seq = dmn.seq + 1 /\ c.over = FALSE /\ (c.torn <=> hb = "registered")
  BY Zenon
<1> HIDE DEF c
<1>5. Worker!TypeOK'
  BY <1>1, <1>2, <1>3, ZenonT(40) DEF Worker!TypeOK
<1>6. TokenOrder'
  BY <1>1, <1>2, <1>3, <1>4 DEF TokenOrder
<1>7. OvertakenBehind' /\ CacheAgrees'
  BY <1>1, <1>2, Zenon DEF OvertakenBehind, CacheAgrees
<1> QED BY <1>5, <1>6, <1>7, ZenonT(40) DEF WorkerInv

\* An answer is processed: the cursor of the daemon does not go back.
LEMMA WorkerProcessReply == WorkerInv /\ Worker!ProcessReply => WorkerInv'
<1> SUFFICES ASSUME WorkerInv, Worker!ProcessReply PROVE WorkerInv'
  OBVIOUS
<1>1. /\ Worker!TypeOK /\ TokenOrder /\ OvertakenBehind /\ CacheAgrees
      /\ call \in Worker!Request /\ reply \in Worker!Reply
      /\ dmn \in [gen : Nat, seq : Nat, ver : Nat] /\ pending \in BOOLEAN
  BY WorkerTypes, ZenonT(40) DEF WorkerInv, Worker!ProcessReply, Worker!TypeOK
<1>2. /\ sync' = "idle" /\ call' = None /\ reply' = None
      /\ UNCHANGED <<wrk, rows, cache, late, hb, regs, budget>>
      /\ dmn' \in {dmn, Worker!Ack} /\ prefetch' = prefetch \union reply.adds
  BY Zenon DEF Worker!ProcessReply, Worker!gsVars
<1>3. dmn' \in [gen : Nat, seq : Nat, ver : Nat] /\ dmn'.gen = dmn.gen /\ dmn.seq <= dmn'.seq
  <2> DEFINE seq == IF dmn.seq + 1 = call.seq THEN call.seq ELSE dmn.seq
  <2>1. seq \in Nat /\ dmn.seq <= seq /\ reply.ver \in Nat
    BY <1>1 DEF Worker!Request, Worker!Reply
  <2>2. dmn' \in {dmn, [dmn EXCEPT !.seq = seq, !.ver = reply.ver]}
    BY <1>1, <1>2 DEF Worker!Ack
  <2> HIDE DEF seq
  <2>3. CASE dmn' = dmn
    BY <1>1, <2>3
  <2>4. CASE dmn' = [dmn EXCEPT !.seq = seq, !.ver = reply.ver]
    <3>1. dmn' \in [gen : Nat, seq : Nat, ver : Nat]
      BY <1>1, <2>1, <2>4, ZenonT(40)
    <3> QED BY <1>1, <2>1, <2>4, <3>1
  <2> QED BY <2>2, <2>3, <2>4
<1>4. pending' \in BOOLEAN
  BY <1>1, Zenon DEF Worker!ProcessReply
<1>5. missing' \in [Keys -> 0..1]
  <2> DEFINE seen == {k \in reply.gone : local[k] # "none"}
             retired == {k \in seen : missing[k] = 1}
  <2>1. missing' \in {missing, [k \in Keys |-> IF k \in seen \ retired THEN 1 ELSE 0]}
    BY Zenon DEF Worker!ProcessReply
  <2>2. missing \in [Keys -> 0..1]
    BY <1>1 DEF Worker!TypeOK
  <2> HIDE DEF seen, retired
  <2> QED BY ONLY <2>1, <2>2
<1>6. local' \in Worker!Inventory
  BY <1>1, ZenonT(40) DEF Worker!ProcessReply, Worker!TypeOK, Worker!Inventory, Worker!Copies
<1>7. prefetch' \subseteq Keys
  BY <1>1, <1>2 DEF Worker!TypeOK, Worker!Reply
<1>8. Worker!TypeOK'
  BY <1>1, <1>2, <1>3, <1>4, <1>5, <1>6, <1>7, ZenonT(40) DEF Worker!TypeOK
<1>9. TokenOrder'
  <2>1. late # None => late.gen \in Nat /\ late.seq \in Nat
    BY WorkerTypes
  <2>2. /\ dmn.gen \in Nat /\ dmn.seq \in Nat /\ dmn'.seq \in Nat
        /\ dmn'.gen = dmn.gen /\ dmn.seq <= dmn'.seq
    BY <1>3, WorkerTypes
  <2>3. dmn.gen <= wrk.gen /\ call' = None /\ wrk' = wrk /\ late' = late /\ hb' = hb
    BY <1>1, <1>2, Zenon DEF TokenOrder
  <2>4. late # None => /\ late.gen <= dmn.gen
                       /\ ~late.torn /\ late.gen = dmn.gen =>
                            late.seq <= dmn.seq + 1 /\ hb # "registered"
    BY <1>1, Zenon DEF TokenOrder
  <2> QED BY ONLY <2>1, <2>2, <2>3, <2>4 DEF TokenOrder
<1>10. OvertakenBehind' /\ CacheAgrees'
  BY <1>1, <1>2, ZenonT(40) DEF OvertakenBehind, CacheAgrees
<1> QED BY <1>8, <1>9, <1>10 DEF WorkerInv

\* A registration raises the generation over that of every token.
LEMMA WorkerRegisters == WorkerInv /\ Worker!RegisterWorker => WorkerInv'
<1> SUFFICES ASSUME WorkerInv, Worker!RegisterWorker PROVE WorkerInv'
  OBVIOUS
<1>1. /\ Worker!TypeOK /\ TokenOrder /\ OvertakenBehind /\ CacheAgrees
      /\ wrk \in WorkerRow /\ dmn \in [gen : Nat, seq : Nat, ver : Nat]
  BY DEF WorkerInv, Worker!TypeOK, WorkerRow
<1>2. /\ wrk' = Worker!Registered /\ rows' \in {rows, Worker!AllDown}
      /\ \/ hb' = "registered" /\ dmn' = [dmn EXCEPT !.gen = wrk.gen + 1, !.ver = wrk'.ver]
         \/ hb' = "ok" /\ dmn' = dmn
      /\ UNCHANGED <<cache, local, pending, missing, prefetch, sync, call, reply, late, regs>>
  BY DEF Worker!RegisterWorker, Worker!syncVars
<1>3. wrk' \in WorkerRow /\ wrk'.gen = wrk.gen + 1
  <2> DEFINE ver == IF wrk.active THEN wrk.ver ELSE 1
             sum == IF wrk.active THEN wrk.sum ELSE None
  <2>1. wrk' = [wrk EXCEPT !.gen = wrk.gen + 1, !.seq = 0, !.active = TRUE, !.ver = ver, !.sum = sum]
    BY <1>1, <1>2 DEF Worker!Registered, WorkerRow
  <2>2. ver \in Nat /\ sum \in Worker!Inventory \union {None} /\ wrk.gen + 1 \in Nat
    BY <1>1 DEF WorkerRow
  <2> HIDE DEF ver, sum
  <2> QED BY <1>1, <2>1, <2>2, Zenon DEF WorkerRow
<1>4. rows' \in Worker!Inventory
  BY <1>1, <1>2 DEF Worker!TypeOK, Worker!AllDown, Worker!Inventory, Worker!Copies
<1>5. /\ dmn' \in [gen : Nat, seq : Nat, ver : Nat] /\ dmn'.seq = dmn.seq
      /\ \/ hb' = "registered" /\ dmn'.gen = wrk.gen + 1
         \/ hb' = "ok" /\ dmn'.gen = dmn.gen
  BY <1>1, <1>2, <1>3, ZenonT(40) DEF WorkerRow
<1>6. budget' \in [Worker!Events -> Nat]
  BY <1>1, SpendType, EventNames DEF Worker!RegisterWorker, Worker!TypeOK
<1>7. Worker!TypeOK'
  BY <1>1, <1>2, <1>3, <1>4, <1>5, <1>6, ZenonT(40) DEF Worker!TypeOK, WorkerRow
<1>a. call' = call /\ late' = late /\ cache' = cache
  BY <1>2, Zenon
<1>b. /\ wrk.gen \in Nat /\ dmn.gen \in Nat /\ dmn.seq \in Nat
      /\ call # None => call.gen \in Nat
      /\ late # None => late.gen \in Nat
      /\ cache # None => cache.gen \in Nat
  BY <1>1, WorkerTypes DEF Worker!TypeOK, Worker!CacheEntry
<1>c. TokenOrder /\ OvertakenBehind /\ CacheAgrees /\ wrk'.gen = wrk.gen + 1
  BY <1>1, <1>3, Zenon
<1>d. /\ dmn'.seq = dmn.seq
      /\ \/ hb' = "registered" /\ dmn'.gen = wrk.gen + 1
         \/ hb' = "ok" /\ dmn'.gen = dmn.gen
  BY <1>5, Zenon
<1>8. TokenOrder'
  BY ONLY <1>a, <1>b, <1>c, <1>d, SMTT(40) DEF TokenOrder
<1>9. OvertakenBehind'
  BY ONLY <1>a, <1>b, <1>c, SMTT(40) DEF TokenOrder, OvertakenBehind
<1>10. CacheAgrees'
  <2>1. cache # None => cache.gen <= wrk.gen
    BY <1>c, Zenon DEF CacheAgrees
  <2>2. cache # None => cache.gen <= wrk'.gen /\ cache.gen # wrk'.gen
    BY ONLY <1>b, <1>c, <2>1, SMTT(40)
  <2> QED BY <1>a, <2>2, ZenonT(40) DEF CacheAgrees
<1> QED BY <1>7, <1>8, <1>9, <1>10 DEF WorkerInv

\* The cursor is reset only when no token of the new generation counts on it.
LEMMA WorkerResets == WorkerInv /\ Worker!ResetRequestId => WorkerInv'
<1> SUFFICES ASSUME WorkerInv, Worker!ResetRequestId PROVE WorkerInv'
  OBVIOUS
<1>1. /\ Worker!TypeOK /\ TokenOrder /\ OvertakenBehind /\ CacheAgrees
      /\ dmn \in [gen : Nat, seq : Nat, ver : Nat]
  BY DEF WorkerInv, Worker!TypeOK
<1>2. /\ hb = "registered" /\ hb' = "ok" /\ dmn' = [dmn EXCEPT !.seq = 0] /\ pending' = TRUE
      /\ UNCHANGED <<wrk, rows, cache, local, missing, prefetch, sync, call, reply, late, regs, budget>>
  BY DEF Worker!ResetRequestId, Worker!gsVars, Worker!syncVars
<1>3. dmn' \in [gen : Nat, seq : Nat, ver : Nat] /\ dmn'.gen = dmn.gen
  BY <1>1, <1>2
<1>4. Worker!TypeOK'
  BY <1>1, <1>2, <1>3 DEF Worker!TypeOK
<1>5. TokenOrder'
  BY <1>1, <1>2, <1>3, WorkerTypes DEF TokenOrder
<1>6. OvertakenBehind' /\ CacheAgrees'
  BY <1>1, <1>2 DEF OvertakenBehind, CacheAgrees
<1> QED BY <1>4, <1>5, <1>6 DEF WorkerInv

\* A row is created or updated by the publish path: the replica epoch changes.
LEMMA WorkerRowRegistered ==
  ASSUME WorkerInv, NEW k \in Keys, Worker!HandleRegister(k)
  PROVE  WorkerInv'
<1>1. /\ Worker!TypeOK /\ TokenOrder /\ OvertakenBehind /\ CacheAgrees
      /\ call \in Worker!Request \union {None} /\ late \in Worker!Request \union {None}
  BY WorkerTypes DEF WorkerInv
<1>2. /\ regs' = regs \ {k} /\ rows' = [rows EXCEPT ![k] = "up"]
      /\ cache' = IF cache = None THEN None ELSE [cache EXCEPT !.fresh = FALSE]
      /\ UNCHANGED <<wrk, local, dmn, pending, missing, prefetch, sync, reply, hb, budget>>
  BY DEF Worker!HandleRegister, Worker!dmnVars
<1> DEFINE ov == FALSE
<1>3. call' = Worker!Meanwhile(call, rows', ov) /\ late' = Worker!Meanwhile(late, rows', ov)
  BY DEF Worker!HandleRegister
<1>a. ov \in BOOLEAN
  OBVIOUS
<1>b. call \in Worker!Request \union {None} /\ call' = Worker!Meanwhile(call, rows', ov)
  BY <1>1, <1>3, Zenon
<1> HIDE DEF ov
<1>4. /\ call' \in Worker!Request \union {None}
      /\ call' = None <=> call = None
      /\ call # None => /\ call'.gen = call.gen /\ call'.seq = call.seq /\ call'.torn = call.torn
                        /\ call'.over = (call.over \/ ov)
  BY <1>a, <1>b, MeanwhileKeeps
<1>5. /\ late' \in Worker!Request \union {None}
      /\ late' = None <=> late = None
      /\ late # None => /\ late'.gen = late.gen /\ late'.seq = late.seq /\ late'.torn = late.torn
                        /\ late'.over = (late.over \/ ov)
  BY <1>1, <1>3, <1>a, MeanwhileKeeps
<1>6. rows' \in Worker!Inventory
  BY <1>1, <1>2 DEF Worker!TypeOK, Worker!Inventory, Worker!Copies
<1>7. /\ cache' \in Worker!CacheEntry \union {None}
      /\ cache' # None => cache # None /\ cache'.gen = cache.gen /\ cache'.fresh = FALSE
  BY <1>1, <1>2, Zenon DEF Worker!TypeOK, Worker!CacheEntry
<1>8. Worker!TypeOK'
  BY <1>1, <1>2, <1>4, <1>5, <1>6, <1>7 DEF Worker!TypeOK
<1>9. TokenOrder'
  BY <1>1, <1>2, <1>4, <1>5, Zenon DEF TokenOrder, ov
<1>10. OvertakenBehind'
  BY <1>1, <1>2, <1>5, ZenonT(40) DEF OvertakenBehind, ov
<1>11. CacheAgrees'
  BY <1>1, <1>2, <1>7, Zenon DEF CacheAgrees
<1> QED BY <1>8, <1>9, <1>10, <1>11, Zenon DEF WorkerInv

\* The steps that leave tokens, generations and the cache alone.
LEMMA WorkerSame ==
  ASSUME WorkerInv, Worker!TypeOK', UNCHANGED <<dmn, hb, cache>>,
         wrk'.gen = wrk.gen, wrk'.seq = wrk.seq, wrk'.active => wrk.active /\ rows' = rows,
         call' = call, late' \in {late, None}
  PROVE  WorkerInv'
<1>1. TokenOrder /\ OvertakenBehind /\ CacheAgrees
  BY Zenon DEF WorkerInv
<1>2. TokenOrder' /\ OvertakenBehind'
  BY <1>1 DEF TokenOrder, OvertakenBehind
<1>3. CacheAgrees'
  BY <1>1, Zenon DEF CacheAgrees
<1> QED BY <1>2, <1>3 DEF WorkerInv

\* The request is sent.
LEMMA WorkerSend == WorkerInv /\ Worker!SendCall => WorkerInv'
<1> SUFFICES ASSUME WorkerInv, Worker!SendCall PROVE WorkerInv'
  OBVIOUS
<1>1. Worker!TypeOK'
  BY DEF WorkerInv, Worker!TypeOK, Worker!SendCall, Worker!gsVars, Worker!dmnVars
<1> QED BY <1>1, WorkerSame, Zenon DEF Worker!SendCall, Worker!gsVars, Worker!dmnVars

\* A late copy is dropped.
LEMMA WorkerDrop == WorkerInv /\ Worker!DropLate => WorkerInv'
<1> SUFFICES ASSUME WorkerInv, Worker!DropLate PROVE WorkerInv'
  OBVIOUS
<1>1. Worker!TypeOK'
  BY DEF WorkerInv, Worker!TypeOK, Worker!DropLate, Worker!gsVars, Worker!dmnVars, Worker!syncVars
<1> QED BY <1>1, WorkerSame, Zenon DEF Worker!DropLate, Worker!gsVars, Worker!dmnVars, Worker!syncVars

\* An ADD_REPLICA is carried out.
LEMMA WorkerPrefetch == ASSUME WorkerInv, NEW k \in Keys, Worker!RunPrefetch(k) PROVE WorkerInv'
<1>1. local' \in Worker!Inventory
  BY DEF WorkerInv, Worker!TypeOK, Worker!RunPrefetch, Worker!Inventory, Worker!Copies
<1>2. pending' \in BOOLEAN
  BY Zenon DEF WorkerInv, Worker!TypeOK, Worker!RunPrefetch
<1>3. /\ prefetch' = prefetch \ {k}
      /\ UNCHANGED <<wrk, rows, cache, dmn, missing, sync, call, reply, late, hb, regs, budget>>
  BY Zenon DEF Worker!RunPrefetch, Worker!gsVars, Worker!syncVars
<1>4. Worker!TypeOK'
  BY <1>1, <1>2, <1>3, ZenonT(40) DEF WorkerInv, Worker!TypeOK
<1> QED BY <1>3, <1>4, WorkerSame, ZenonT(40)

\* A copy is loaded, evicted or becomes unavailable.
LEMMA WorkerChange ==
  ASSUME WorkerInv, NEW k \in Keys, NEW c \in Worker!Copies, Worker!Change(k, c)
  PROVE  WorkerInv'
<1>1. local' \in Worker!Inventory
  BY Zenon DEF WorkerInv, Worker!TypeOK, Worker!Change, Worker!Inventory
<1>2. pending' \in BOOLEAN
  BY Zenon DEF Worker!Change
<1>3. UNCHANGED <<wrk, rows, cache, dmn, missing, prefetch, sync, call, reply, late, hb, regs>>
  BY DEF Worker!Change, Worker!gsVars, Worker!syncVars
<1>4. budget' \in [Worker!Events -> Nat]
  BY SpendType, EventNames, Zenon DEF WorkerInv, Worker!Change
<1>5. Worker!TypeOK'
  BY <1>1, <1>2, <1>3, <1>4, ZenonT(40) DEF WorkerInv, Worker!TypeOK
<1> QED BY <1>3, <1>5, WorkerSame

\* The publish path announces a copy.
LEMMA WorkerAnnounce == ASSUME WorkerInv, NEW k \in Keys, Worker!StartRegister(k) PROVE WorkerInv'
<1>1. /\ regs' = regs \union {k}
      /\ UNCHANGED <<wrk, rows, cache, local, dmn, pending, missing, prefetch, sync, call, reply,
                     late, hb>>
  BY ZenonT(40) DEF Worker!StartRegister, Worker!gsVars, Worker!syncVars, Worker!dmnVars
<1>2. budget' \in [Worker!Events -> Nat]
  BY SpendType, EventNames, ZenonT(40) DEF WorkerInv, Worker!StartRegister
<1>3. Worker!TypeOK'
  BY <1>1, <1>2 DEF WorkerInv, Worker!TypeOK
<1> QED BY <1>1, <1>3, WorkerSame

\* A heartbeat that does not find the worker leaves the tokens in order.
LEMMA WorkerHeartbeat == WorkerInv /\ Worker!Heartbeat => WorkerInv'
<1> SUFFICES ASSUME WorkerInv, Worker!Heartbeat PROVE WorkerInv'
  OBVIOUS
<1>1. /\ hb = "ok" /\ hb' \in {"ok", "lost"}
      /\ UNCHANGED <<wrk, rows, cache, local, dmn, missing, prefetch, sync, call, reply, late, regs,
                     budget>>
  BY Zenon DEF Worker!Heartbeat, Worker!gsVars, Worker!syncVars
<1>2. pending' \in BOOLEAN
  BY Zenon DEF WorkerInv, Worker!TypeOK, Worker!Heartbeat
<1>3. Worker!TypeOK'
  BY <1>1, <1>2 DEF WorkerInv, Worker!TypeOK
<1>4. TokenOrder' /\ OvertakenBehind' /\ CacheAgrees'
  BY <1>1, ZenonT(40) DEF WorkerInv, TokenOrder, OvertakenBehind, CacheAgrees
<1> QED BY <1>3, <1>4 DEF WorkerInv

\* The worker expires: the rows go down, and so does active.
LEMMA WorkerExpire == WorkerInv /\ Worker!Expire => WorkerInv'
<1> SUFFICES ASSUME WorkerInv, Worker!Expire PROVE WorkerInv'
  OBVIOUS
<1>1. /\ wrk' = [wrk EXCEPT !.active = FALSE] /\ rows' = Worker!AllDown
      /\ UNCHANGED <<cache, local, dmn, pending, missing, prefetch, sync, call, reply, late, hb, regs>>
  BY ZenonT(40) DEF Worker!Expire, Worker!syncVars, Worker!dmnVars
<1>2. wrk \in WorkerRow /\ rows \in Worker!Inventory
  BY DEF WorkerInv, Worker!TypeOK, WorkerRow
<1>3. wrk' \in WorkerRow /\ wrk'.gen = wrk.gen /\ wrk'.seq = wrk.seq /\ ~wrk'.active
  BY <1>1, <1>2, ZenonT(40) DEF WorkerRow
<1>4. rows' \in Worker!Inventory
  BY <1>1, <1>2 DEF Worker!AllDown, Worker!Inventory, Worker!Copies
<1>5. budget' \in [Worker!Events -> Nat]
  BY SpendType, EventNames DEF WorkerInv, Worker!Expire
<1>6. Worker!TypeOK'
  BY <1>1, <1>3, <1>4, <1>5, ZenonT(40) DEF WorkerInv, Worker!TypeOK, WorkerRow
<1> QED BY <1>1, <1>3, <1>6, WorkerSame

\* A restart of the Global Store takes the cache and the copy with it.
LEMMA WorkerRestart == WorkerInv /\ Worker!Restart => WorkerInv'
<1> SUFFICES ASSUME WorkerInv, Worker!Restart PROVE WorkerInv'
  OBVIOUS
<1>1. /\ cache' = None /\ rows' = Worker!AllDown /\ late' = None
      /\ UNCHANGED <<wrk, local, dmn, pending, missing, prefetch, call, hb, regs>>
      /\ \/ sync = "rpc" /\ sync' = "reply" /\ reply' = Worker!ErrorReply
         \/ UNCHANGED <<sync, reply>>
  BY Zenon DEF Worker!Restart, Worker!dmnVars
<1>2. rows' \in Worker!Inventory
  BY <1>1 DEF WorkerInv, Worker!TypeOK, Worker!AllDown, Worker!Inventory, Worker!Copies
<1>3. budget' \in [Worker!Events -> Nat]
  BY SpendType, EventNames, ZenonT(40) DEF WorkerInv, Worker!Restart
<1>4. Worker!TypeOK'
  BY <1>1, <1>2, <1>3, NoneIsNone DEF WorkerInv, Worker!TypeOK
<1>5. TokenOrder' /\ OvertakenBehind' /\ CacheAgrees'
  BY <1>1, ZenonT(40) DEF WorkerInv, TokenOrder, OvertakenBehind, CacheAgrees
<1> QED BY <1>4, <1>5 DEF WorkerInv

\* Every step of the reconcile protocol keeps the invariant.
LEMMA WorkerKept == WorkerInv /\ WorkerStep => WorkerInv'
<1> SUFFICES ASSUME WorkerInv, Worker!Next PROVE WorkerInv'
  BY DEF WorkerStep
<1>1. CASE \E k \in Keys : \/ Worker!RunPrefetch(k) \/ Worker!StartRegister(k)
                           \/ Worker!HandleRegister(k)
                           \/ \E c \in Worker!Copies : Worker!Change(k, c)
  BY <1>1, WorkerPrefetch, WorkerAnnounce, WorkerRowRegistered, WorkerChange, ZenonT(40)
<1>2. CASE \/ Worker!HandleCall \/ Worker!HandleCallCommitFails \/ Worker!AttemptExpires
           \/ Worker!HandleLate \/ Worker!DropLate \/ Worker!TakeToken \/ Worker!SendCall
  BY <1>2, WorkerHandleCall, WorkerCommitFails, WorkerAttemptExpires, WorkerHandleLate, WorkerDrop,
     WorkerTakeToken, WorkerSend, ZenonT(40)
<1>3. CASE \/ Worker!ProcessReply \/ Worker!Heartbeat \/ Worker!RegisterWorker
           \/ Worker!ResetRequestId \/ Worker!Expire \/ Worker!Restart
  BY <1>3, WorkerProcessReply, WorkerHeartbeat, WorkerRegisters, WorkerResets, WorkerExpire,
     WorkerRestart, ZenonT(40)
<1> QED BY <1>1, <1>2, <1>3 DEF Worker!Next

\* A hit of the no-op cache is of the present generation and cursor, so its
\* listed copies are in the rows.
LEMMA WorkerCacheSound == WorkerInv => Worker!NoopCacheSound
<1> SUFFICES ASSUME WorkerInv, NEW i \in Worker!Inventory
             PROVE  LET m == [gen |-> wrk.gen, seq |-> wrk.seq + 1, inv |-> i, young |-> {},
                              over |-> FALSE, torn |-> FALSE]
                    IN  wrk.active /\ Worker!NoopCacheHit(m) =>
                          \A k \in Keys : i[k] # "none" => rows[k] = i[k]
  BY ZenonT(40) DEF Worker!NoopCacheSound
<1> DEFINE m == [gen |-> wrk.gen, seq |-> wrk.seq + 1, inv |-> i, young |-> {},
                 over |-> FALSE, torn |-> FALSE]
<1>1. m.gen = wrk.gen /\ m.inv = i
  OBVIOUS
<1> HIDE DEF m
<1>2. ASSUME wrk.active, Worker!NoopCacheHit(m)
      PROVE  \A k \in Keys : i[k] # "none" => rows[k] = i[k]
  BY <1>1, <1>2, ZenonT(40) DEF WorkerInv, CacheAgrees, Worker!NoopCacheHit
<1> QED BY <1>2, ZenonT(40) DEF m

\* A request that is accepted has not been overtaken, unless its token is torn.
LEMMA WorkerOrdered == WorkerInv => Worker!AppliedInOrderStep
<1> SUFFICES ASSUME WorkerInv, NEW m \in Worker!TakenNow, m.over PROVE m.torn
  BY Zenon DEF Worker!AppliedInOrderStep
<1>1. m \in {call, late} /\ m # None /\ Worker!Accepts(m)
  BY DEF Worker!TakenNow
<1>2. CASE m = call
  BY <1>1, <1>2 DEF WorkerInv, TokenOrder
<1>3. CASE m = late
  <2>1. m.gen = wrk.gen /\ m.seq = wrk.seq + 1
    BY <1>1, Zenon DEF Worker!Accepts
  <2>2. late.gen \in Nat /\ late.seq \in Nat /\ wrk.seq \in Nat /\ OvertakenBehind
    BY <1>1, <1>3, WorkerTypes DEF WorkerInv
  <2> QED BY <1>1, <1>3, <2>1, <2>2 DEF OvertakenBehind
<1> QED BY <1>1, <1>2, <1>3

=============================================================================

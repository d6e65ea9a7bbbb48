----------------------- MODULE ShardHomeLeasesProofs -----------------------
(***************************************************************************)
(* Proofs about ShardHomeLeases for every value of its constants.          *)
(*                                                                         *)
(* The argument: what the Global Store has granted only grows (Extends),   *)
(* and every copy of a lease, wherever it travels, stays within what was   *)
(* granted for its generation (the Good predicates).  Leases of different  *)
(* generations do not overlap, so a copy that has not run out is the row.  *)
(***************************************************************************)
EXTENDS ShardHomeLeases, SequenceTheorems, TLAPS

Rows == [holder : Daemons, from : Times, until : Times]
RouteEntries == [gen : Gens, holder : Daemons \cup {Null}, expires : Times, refreshed : Times]
OwnedEntries == [gen : Gens, expires : Times, last : Times]
Calls == [pc : Pcs, now : Times, began : Times, attempt : {0, 1}, fence : Fences, lease : Leases,
          target : Daemons \cup {Null}, peer : Handlers \cup {Null}]
Keepalives == [pc : {"idle", "send", "answered", "apply"}, now : Times, gen : Gens, lease : Leases]

\* The leases L granted so far, at time now: none is empty, none begins before
\* the one before it is over, so that there is at most one per unit of time.
GoodRows(L, now) ==
  /\ L \in Seq(Rows)
  /\ \A g \in 1 .. Len(L) : /\ g <= L[g].from
                            /\ L[g].from < L[g].until
                            /\ L[g].from <= now
                            /\ L[g].until <= now + LeaseTtl
  /\ \A g \in 1 .. Len(L) - 1 : L[g].until <= L[g + 1].from

\* M grants what L does, perhaps for longer, and perhaps more.
Extends(L, M) ==
  /\ Len(L) <= Len(M)
  /\ \A g \in 1 .. Len(L) : M[g].holder = L[g].holder /\ L[g].until <= M[g].until

Granted(L, gen, holder, expires) ==
  gen # 0 => gen <= Len(L) /\ holder = L[gen].holder /\ expires <= L[gen].until

\* A token comes with a lease and with its expiry.
GoodLease(L, l) ==
  /\ Granted(L, l.gen, l.holder, l.expires)
  /\ l.token => l.gen # 0 /\ l.expires # 0

GoodOwned(L, d, o) ==
  /\ Granted(L, o.gen, d, o.expires)
  /\ o.gen # 0 => o.expires # 0

GoodEntry(L, d, e) == e # 0 => e <= Len(L) /\ L[e].holder = d

Accepted(L, h, c) ==
  /\ c.fence.gen # 0
  /\ c.fence.gen <= Len(L)
  /\ L[c.fence.gen].holder = DaemonOf[h]
  /\ c.now < L[c.fence.gen].until

GoodCall(L, h, c) ==
  /\ Granted(L, c.fence.gen, c.fence.holder, 0)
  /\ GoodLease(L, c.lease)
  /\ c.pc = "put" => Accepted(L, h, c)
  /\ c.pc = "acquire" => c.target \in Daemons

\* The inductive invariant.
DaemonsGood ==
  \A d \in Daemons :
    /\ Granted(leases, route[d].gen, route[d].holder, route[d].expires)
    /\ GoodOwned(leases, d, owned[d])
    /\ GoodEntry(leases, d, entry[d])
    /\ GoodLease(leases, keepalive[d].lease)

CallsGood == \A h \in Handlers : GoodCall(leases, h, call[h])

IInv == TypeOK /\ GoodRows(leases, clock) /\ DaemonsGood /\ CallsGood

-----------------------------------------------------------------------------
(* The row.                                                                  *)

\* A daemon that has forgotten its caches claims nothing.
LEMMA NothingGood ==
  /\ NoOwned \in OwnedEntries /\ NoRoute \in RouteEntries /\ 0 \in Gens
  /\ \A L, d : GoodOwned(L, d, NoOwned) /\ GoodEntry(L, d, 0)
  /\ \A L : Granted(L, NoRoute.gen, NoRoute.holder, NoRoute.expires)
BY LeaseAssumption DEF NoOwned, OwnedEntries, Gens, Times, GoodOwned, Granted, NoRoute, RouteEntries, GoodEntry

\* Every index of the leases has a row.
LEMMA RowAt ==
  ASSUME NEW L, NEW now, GoodRows(L, now), NEW g \in 1 .. Len(L)
  PROVE  /\ L[g] \in Rows
         /\ L[g].holder \in Daemons /\ L[g].from \in Times /\ L[g].until \in Times
         /\ L[g].from \in Nat /\ L[g].until \in Nat
<1>1. L[g] \in Rows
  BY ElementOfSeq DEF GoodRows
<1>2. MaxTime + LeaseTtl \in Nat
  BY LeaseAssumption
<1> QED
  BY <1>1, <1>2 DEF Rows, Times

\* There are no more leases than units of time.
LEMMA GenerationBounded ==
  ASSUME NEW L, NEW now \in 1 .. MaxTime, GoodRows(L, now)
  PROVE  Len(L) \in Gens
<1>1. Len(L) \in Nat
  BY LenProperties DEF GoodRows
<1>2. CASE Len(L) = 0
  BY <1>2, LeaseAssumption DEF Gens
<1>3. CASE Len(L) # 0
  <2>1. Len(L) \in 1 .. Len(L)
    BY <1>1, <1>3
  <2>2. L[Len(L)].from \in Nat
    BY <2>1, RowAt
  <2>3. Len(L) <= L[Len(L)].from /\ L[Len(L)].from <= now
    BY <2>1 DEF GoodRows
  <2> QED
    BY <1>1, <2>2, <2>3, LeaseAssumption DEF Gens
<1> QED
  BY <1>2, <1>3

\* A renewal makes the last lease longer and changes nothing else.
LEMMA RenewedGood ==
  ASSUME GoodRows(leases, clock), clock \in 1 .. MaxTime, Active
  PROVE  /\ GoodRows(Renewed, clock)
         /\ Extends(leases, Renewed)
         /\ Len(Renewed) = Generation
         /\ Renewed[Generation].holder = Holder
<1> DEFINE n == Len(leases)
           e == [leases[n] EXCEPT !.until = clock + LeaseTtl]
<1>1. leases \in Seq(Rows) /\ n \in Nat /\ n \in 1 .. n
  BY LenProperties DEF GoodRows, Active, Generation
<1>2. leases[n] \in Rows /\ leases[n].from \in Nat /\ leases[n].until \in Nat
  BY <1>1, RowAt
<1>3. clock + LeaseTtl \in Times
  BY LeaseAssumption DEF Times
<1>4. e \in Rows /\ e.from = leases[n].from /\ e.holder = leases[n].holder /\ e.until = clock + LeaseTtl
  BY <1>2, <1>3 DEF Rows
<1>5. Renewed = [leases EXCEPT ![n] = e]
  BY DEF Renewed, Generation
<1>6. /\ Renewed \in Seq(Rows)
      /\ Len(Renewed) = n
      /\ \A j \in 1 .. n : Renewed[j] = IF j = n THEN e ELSE leases[j]
  BY <1>1, <1>4, <1>5, ExceptSeq
<1> HIDE DEF e
<1>7. \A g \in 1 .. n : leases[g].from \in Nat /\ leases[g].until \in Nat
  BY RowAt
<1>8. Extends(leases, Renewed)
  BY <1>1, <1>2, <1>4, <1>6, <1>7 DEF Extends, GoodRows
<1>9. GoodRows(Renewed, clock)
  <2>1. \A g \in 1 .. n : /\ g <= Renewed[g].from
                          /\ Renewed[g].from < Renewed[g].until
                          /\ Renewed[g].from <= clock
                          /\ Renewed[g].until <= clock + LeaseTtl
    BY <1>1, <1>2, <1>4, <1>6, LeaseAssumption DEF GoodRows
  <2>2. \A g \in 1 .. n - 1 : Renewed[g].until <= Renewed[g + 1].from
    BY <1>1, <1>2, <1>4, <1>6 DEF GoodRows
  <2> QED
    BY <1>6, <2>1, <2>2 DEF GoodRows
<1> QED
  BY <1>1, <1>4, <1>6, <1>8, <1>9 DEF Generation, Holder

\* An acquisition that finds no live lease appends one that begins now.
LEMMA AppendedGood ==
  ASSUME GoodRows(leases, clock), clock \in 1 .. MaxTime, ~Active, NEW d \in Daemons,
         NEW M, M = Append(leases, [holder |-> d, from |-> clock, until |-> clock + LeaseTtl])
  PROVE  /\ GoodRows(M, clock)
         /\ Extends(leases, M)
         /\ Len(M) = Generation + 1
<1> DEFINE n == Len(leases)
           e == [holder |-> d, from |-> clock, until |-> clock + LeaseTtl]
<1>1. leases \in Seq(Rows) /\ n \in Nat
  BY LenProperties DEF GoodRows
<1>2. clock \in Nat /\ LeaseTtl \in Nat \ {0} /\ clock \in Times /\ clock + LeaseTtl \in Times
  BY LeaseAssumption DEF Times
<1>3. e \in Rows /\ e.from = clock /\ e.until = clock + LeaseTtl
  BY <1>2 DEF Rows
<1>4. /\ M \in Seq(Rows)
      /\ Len(M) = n + 1
      /\ \A j \in 1 .. n : M[j] = leases[j]
      /\ M[n + 1] = e
  BY <1>1, <1>3, AppendProperties
<1> HIDE DEF e
<1>5. \A g \in 1 .. n : leases[g].from \in Nat /\ leases[g].until \in Nat
  BY RowAt
<1>6. n # 0 => leases[n].until <= clock
  BY <1>1, <1>2, <1>5 DEF Active, Generation, Expires
<1>7. n + 1 <= clock
  BY <1>1, <1>2, <1>5, <1>6 DEF GoodRows
<1>8. \A g \in 1 .. n + 1 : /\ g <= M[g].from
                            /\ M[g].from < M[g].until
                            /\ M[g].from <= clock
                            /\ M[g].until <= clock + LeaseTtl
  BY <1>1, <1>2, <1>3, <1>4, <1>7 DEF GoodRows
<1>9. \A g \in 1 .. n : M[g].until <= M[g + 1].from
  BY <1>1, <1>2, <1>3, <1>4, <1>6 DEF GoodRows
<1> QED
  BY <1>1, <1>4, <1>5, <1>8, <1>9 DEF GoodRows, Extends, Generation

\* What acquire leaves behind, whoever it is for.
LEMMA AcquiredGood ==
  ASSUME GoodRows(leases, clock), clock \in 1 .. MaxTime, NEW d \in Daemons
  PROVE  /\ GoodRows(Acquired(d), clock)
         /\ Extends(leases, Acquired(d))
         /\ Len(Acquired(d)) \in Nat \ {0}
<1>1. leases \in Seq(Rows) /\ Len(leases) \in Nat
  BY LenProperties DEF GoodRows
<1>2. Extends(leases, leases)
  <2>1. \A g \in 1 .. Len(leases) : leases[g].until \in Nat
    BY RowAt
  <2> QED
    BY <1>1, <2>1 DEF Extends
<1>3. CASE Active /\ Holder = d
  BY <1>1, <1>3, RenewedGood DEF Acquired, Active, Generation
<1>4. CASE Active /\ Holder # d
  BY <1>1, <1>2, <1>4 DEF Acquired, Active, Generation
<1>5. CASE ~Active
  <2>1. Acquired(d) = Append(leases, [holder |-> d, from |-> clock, until |-> clock + LeaseTtl])
    BY <1>5 DEF Acquired
  <2>2. /\ GoodRows(Acquired(d), clock)
        /\ Extends(leases, Acquired(d))
        /\ Len(Acquired(d)) = Generation + 1
    BY <1>5, <2>1, AppendedGood, Zenon
  <2> QED
    BY <1>1, <2>2 DEF Generation
<1> QED
  BY <1>3, <1>4, <1>5

\* What an RPC says of a row that exists is good.
LEMMA SeenGood ==
  ASSUME NEW L, GoodRows(L, clock), clock \in 1 .. MaxTime, Len(L) # 0, NEW token \in BOOLEAN
  PROVE  Seen(L, token) \in Leases /\ GoodLease(L, Seen(L, token))
<1>1. Len(L) \in Nat /\ Len(L) \in 1 .. Len(L)
  BY LenProperties DEF GoodRows
<1>2. /\ L[Len(L)].holder \in Daemons /\ L[Len(L)].until \in Times
      /\ L[Len(L)].from \in Nat /\ L[Len(L)].until \in Nat
  BY <1>1, RowAt
<1>3. L[Len(L)].until # 0
  BY <1>1, <1>2 DEF GoodRows
<1>4. Len(L) \in Gens
  BY GenerationBounded
<1> QED
  BY <1>1, <1>2, <1>3, <1>4 DEF Seen, Leases, GoodLease, Granted

\* What was good stays good when more is granted.
LEMMA GrantedExtends ==
  ASSUME NEW L, NEW M, NEW now, NEW then, GoodRows(L, now), GoodRows(M, then), Extends(L, M),
         NEW gen \in Gens, NEW holder, NEW expires \in Times,
         Granted(L, gen, holder, expires)
  PROVE  Granted(M, gen, holder, expires)
<1>1. Len(L) \in Nat /\ Len(M) \in Nat
  BY LenProperties DEF GoodRows
<1>2. gen \in Nat /\ expires \in Nat
  BY LeaseAssumption DEF Gens, Times
<1>3. gen # 0 => gen \in 1 .. Len(L) /\ gen \in 1 .. Len(M)
  BY <1>1, <1>2 DEF Granted, Extends
<1>4. gen # 0 => L[gen].until \in Nat /\ M[gen].until \in Nat
  BY <1>3, RowAt
<1> QED
  BY <1>1, <1>2, <1>3, <1>4 DEF Granted, Extends

\* What was good for the leases L is good for what extends them.
LEMMA GoodExtends ==
  ASSUME NEW L, NEW M, NEW now, NEW then, GoodRows(L, now), GoodRows(M, then), Extends(L, M)
  PROVE  /\ \A l \in Leases : GoodLease(L, l) => GoodLease(M, l)
         /\ \A d \in Daemons, o \in OwnedEntries : GoodOwned(L, d, o) => GoodOwned(M, d, o)
         /\ \A r \in RouteEntries :
              Granted(L, r.gen, r.holder, r.expires) => Granted(M, r.gen, r.holder, r.expires)
         /\ \A d \in Daemons, e \in Gens : GoodEntry(L, d, e) => GoodEntry(M, d, e)
         /\ \A h \in Handlers, c \in Calls : GoodCall(L, h, c) => GoodCall(M, h, c)
<1>1. \A l \in Leases : GoodLease(L, l) => GoodLease(M, l)
  <2> SUFFICES ASSUME NEW l \in Leases, GoodLease(L, l) PROVE GoodLease(M, l)
    OBVIOUS
  <2>1. l.gen \in Gens /\ l.expires \in Times
    BY DEF Leases
  <2> QED
    BY <2>1, GrantedExtends DEF GoodLease
<1>2. \A d \in Daemons, o \in OwnedEntries : GoodOwned(L, d, o) => GoodOwned(M, d, o)
  <2> SUFFICES ASSUME NEW d \in Daemons, NEW o \in OwnedEntries, GoodOwned(L, d, o)
               PROVE  GoodOwned(M, d, o)
    OBVIOUS
  <2>1. o.gen \in Gens /\ o.expires \in Times
    BY DEF OwnedEntries
  <2> QED
    BY <2>1, GrantedExtends DEF GoodOwned
<1>3. \A r \in RouteEntries :
        Granted(L, r.gen, r.holder, r.expires) => Granted(M, r.gen, r.holder, r.expires)
  BY GrantedExtends DEF RouteEntries
<1>4. Len(L) \in Nat /\ Len(M) \in Nat
  BY LenProperties DEF GoodRows
<1>5. \A d \in Daemons, e \in Gens : GoodEntry(L, d, e) => GoodEntry(M, d, e)
  BY <1>4, LeaseAssumption DEF GoodEntry, Extends, Gens
<1>6. \A h \in Handlers, c \in Calls : GoodCall(L, h, c) => GoodCall(M, h, c)
  <2> SUFFICES ASSUME NEW h \in Handlers, NEW c \in Calls, GoodCall(L, h, c)
               PROVE  GoodCall(M, h, c)
    OBVIOUS
  <2>1. c.fence.gen \in Gens /\ c.lease \in Leases /\ c.now \in Times
    BY DEF Calls, Fences
  <2>2. 0 \in Times /\ c.fence.gen \in Nat /\ c.now \in Nat
    BY <2>1, LeaseAssumption DEF Times, Gens
  <2>3. Granted(M, c.fence.gen, c.fence.holder, 0)
    BY <2>1, <2>2, GrantedExtends DEF GoodCall
  <2>4. Accepted(L, h, c) => Accepted(M, h, c)
    <3> SUFFICES ASSUME Accepted(L, h, c) PROVE Accepted(M, h, c)
      OBVIOUS
    <3>1. c.fence.gen \in 1 .. Len(L) /\ c.fence.gen \in 1 .. Len(M)
      BY <1>4, <2>2 DEF Accepted, Extends
    <3>2. L[c.fence.gen].until \in Nat /\ M[c.fence.gen].until \in Nat
      BY <3>1, RowAt
    <3> QED
      BY <1>4, <2>2, <3>1, <3>2 DEF Accepted, Extends
  <2> QED
    BY <1>1, <2>1, <2>3, <2>4 DEF GoodCall
<1> QED
  BY <1>1, <1>2, <1>3, <1>5, <1>6

-----------------------------------------------------------------------------
(* Steps.  A step is good when the leases grow and every record it writes is  *)
(* good for the leases it leaves.                                            *)

LeasesGrow == GoodRows(leases', clock') /\ Extends(leases, leases')

\* The tables of the daemons stay good when they do not change.
LEMMA DaemonsStay ==
  ASSUME IInv, LeasesGrow, UNCHANGED <<route, owned, entry, keepalive>>
  PROVE  DaemonsGood'
<1>1. /\ \A d \in Daemons : /\ route[d] \in RouteEntries
                            /\ owned[d] \in OwnedEntries
                            /\ entry[d] \in Gens
                            /\ keepalive[d].lease \in Leases
  BY DEF IInv, TypeOK, RouteEntries, OwnedEntries
<1> QED
  BY <1>1, GoodExtends DEF IInv, DaemonsGood, LeasesGrow

\* The handlers stay good when they do not change.
LEMMA CallsStay ==
  ASSUME IInv, LeasesGrow, UNCHANGED call
  PROVE  CallsGood'
<1>1. call \in [Handlers -> Calls]
  BY DEF IInv, TypeOK, Calls
<1> QED
  BY <1>1, GoodExtends DEF IInv, CallsGood, LeasesGrow

\* A handler that becomes c.
LEMMA BecomeGood ==
  ASSUME IInv, LeasesGrow, NEW h \in Handlers, NEW c \in Calls, GoodCall(leases', h, c), Become(h, c)
  PROVE  CallsGood' /\ call' \in [Handlers -> Calls]
<1>1. call \in [Handlers -> Calls]
  BY DEF IInv, TypeOK, Calls
<1> QED
  BY <1>1, GoodExtends DEF IInv, CallsGood, LeasesGrow, Become

\* A handler that is idle holds nothing.
LEMMA IdleGood ==
  /\ NoLease \in Leases
  /\ IdleCall \in Calls
  /\ \A L, x : GoodLease(L, NoLease) /\ GoodCall(L, x, IdleCall)
<1>1. NoLease \in Leases
  BY LeaseAssumption DEF NoLease, Leases, Gens, Times
<1>2. FenceOf(NoLease) \in Fences /\ FenceOf(NoLease).gen = 0
  BY LeaseAssumption DEF FenceOf, NoLease, Fences, Gens
<1>3. 0 \in Times
  BY LeaseAssumption DEF Times
<1>4. IdleCall \in Calls
  BY <1>1, <1>2, <1>3 DEF IdleCall, Calls, Pcs
<1>5. \A L : GoodLease(L, NoLease)
  BY DEF GoodLease, Granted, NoLease
<1> QED
  BY <1>1, <1>2, <1>4, <1>5 DEF GoodCall, IdleCall, Granted

\* A home that is done, its requester going on as c.
LEMMA ReplyGood ==
  ASSUME IInv, UNCHANGED leases, NEW h \in Handlers, NEW c, Reply(h, c),
         call[h].peer \in Handlers => c \in Calls /\ GoodCall(leases, call[h].peer, c)
  PROVE  CallsGood' /\ call' \in [Handlers -> Calls]
<1>1. call \in [Handlers -> Calls]
  BY DEF IInv, TypeOK, Calls
<1>2. IdleCall \in Calls /\ \A x \in Handlers : GoodCall(leases, x, IdleCall)
  BY IdleGood
<1>3. \A x \in Handlers : call'[x] \in Calls /\ GoodCall(leases, x, call'[x])
  BY <1>1, <1>2 DEF Reply, IInv, CallsGood
<1>4. call' \in [Handlers -> Calls]
  BY <1>3 DEF Reply
<1> QED
  BY <1>3, <1>4 DEF CallsGood

\* Without a change of the row the leases grow trivially.
LEMMA LeasesStay ==
  ASSUME IInv, UNCHANGED <<clock, leases>>
  PROVE  LeasesGrow
<1>1. leases \in Seq(Rows) /\ Len(leases) \in Nat
  BY LenProperties DEF IInv, GoodRows
<1>2. \A g \in 1 .. Len(leases) : leases[g].until \in Nat
  BY RowAt DEF IInv
<1> QED
  BY <1>1, <1>2 DEF IInv, LeasesGrow, Extends

\* The parts of the invariant after a step.
LEMMA Assemble ==
  ASSUME IInv, LeasesGrow, clock' \in 1 .. MaxTime, calls' \in 0 .. MaxCalls,
         route' \in [Daemons -> RouteEntries], owned' \in [Daemons -> OwnedEntries],
         entry' \in [Daemons -> Gens], keepalive' \in [Daemons -> Keepalives],
         call' \in [Handlers -> Calls], DaemonsGood', CallsGood'
  PROVE  IInv'
<1>1. Len(leases') \in Gens
  BY GenerationBounded DEF LeasesGrow
<1>2. leases' \in Seq(Rows)
  BY DEF LeasesGrow, GoodRows
<1> QED
  BY <1>1, <1>2 DEF IInv, TypeOK, LeasesGrow, Generation, Rows, RouteEntries, OwnedEntries, Calls, Keepalives

\* The types that IInv gives, under the names of this module.
LEMMA Typed ==
  ASSUME IInv
  PROVE  /\ clock \in 1 .. MaxTime /\ clock \in Times /\ calls \in 0 .. MaxCalls
         /\ GoodRows(leases, clock)
         /\ route \in [Daemons -> RouteEntries] /\ owned \in [Daemons -> OwnedEntries]
         /\ entry \in [Daemons -> Gens] /\ keepalive \in [Daemons -> Keepalives]
         /\ call \in [Handlers -> Calls]
         /\ \A h \in Handlers : GoodCall(leases, h, call[h]) /\ DaemonOf[h] \in Daemons
BY LeaseAssumption DEF IInv, TypeOK, RouteEntries, OwnedEntries, Calls, Keepalives, CallsGood, Times

\* A step of one handler that touches no table of a daemon.
LEMMA CallStep ==
  ASSUME IInv, LeasesGrow, UNCHANGED <<clock, daemonVars, keepalive>>, calls' \in 0 .. MaxCalls,
         NEW h \in Handlers, NEW c \in Calls, GoodCall(leases', h, c), Become(h, c)
  PROVE  IInv'
<1>1. DaemonsGood'
  BY DaemonsStay DEF daemonVars
<1>2. CallsGood' /\ call' \in [Handlers -> Calls]
  BY BecomeGood
<1> QED
  BY <1>1, <1>2, Assemble, Typed DEF daemonVars

\* The same where a home replies to its requester.
LEMMA ReplyStep ==
  ASSUME IInv, UNCHANGED <<clock, leases, daemonVars, keepalive, calls>>,
         NEW h \in Handlers, NEW c, Reply(h, c),
         call[h].peer \in Handlers => c \in Calls /\ GoodCall(leases, call[h].peer, c)
  PROVE  IInv'
<1>1. LeasesGrow
  BY LeasesStay
<1>2. DaemonsGood'
  BY <1>1, DaemonsStay DEF daemonVars
<1>3. CallsGood' /\ call' \in [Handlers -> Calls]
  BY ReplyGood
<1> QED
  BY <1>1, <1>2, <1>3, Assemble, Typed DEF daemonVars

\* cache_route_from_lookup with what was granted.
LEMMA LookupCached ==
  ASSUME IInv, UNCHANGED <<clock, leases, keepalive>>, NEW d \in Daemons, NEW l, NEW now \in Times,
         l.gen \in Gens, l.holder \in Daemons \cup {Null}, l.expires \in Times,
         Granted(leases, l.gen, l.holder, l.expires), CacheRouteFromLookup(d, l, now)
  PROVE  /\ DaemonsGood'
         /\ route' \in [Daemons -> RouteEntries]
         /\ owned' \in [Daemons -> OwnedEntries]
         /\ entry' \in [Daemons -> Gens]
<1>1. /\ RouteFrom(l, now) \in RouteEntries
      /\ RouteFrom(l, now).gen = l.gen
      /\ RouteFrom(l, now).holder = l.holder
      /\ RouteFrom(l, now).expires = l.expires
  BY DEF RouteFrom, RouteEntries
<1>2. NoOwned \in OwnedEntries /\ GoodOwned(leases, d, NoOwned)
  BY NothingGood, Zenon
<1> QED
  BY <1>1, <1>2, Typed DEF IInv, DaemonsGood, CacheRouteFromLookup

\* cache_route_from_lease with a good lease.
LEMMA LeaseCached ==
  ASSUME IInv, UNCHANGED <<clock, leases>>, NEW d \in Daemons, NEW l \in Leases, NEW now \in Times,
         GoodLease(leases, l), CacheRouteFromLease(d, l, now),
         \A x \in Daemons : GoodLease(leases, keepalive'[x].lease)
  PROVE  /\ DaemonsGood'
         /\ route' \in [Daemons -> RouteEntries]
         /\ owned' \in [Daemons -> OwnedEntries]
         /\ entry' \in [Daemons -> Gens]
<1>1. /\ RouteFrom(l, now) \in RouteEntries
      /\ RouteFrom(l, now).gen = l.gen
      /\ RouteFrom(l, now).holder = l.holder
      /\ RouteFrom(l, now).expires = l.expires
  BY DEF RouteFrom, RouteEntries, Leases
<1>2. OwnedFrom(d, l, now) \in OwnedEntries /\ GoodOwned(leases, d, OwnedFrom(d, l, now))
  <2>1. NoOwned \in OwnedEntries /\ GoodOwned(leases, d, NoOwned)
    BY NothingGood, Zenon
  <2>2. owned[d] \in OwnedEntries /\ GoodOwned(leases, d, owned[d])
    BY Typed DEF IInv, DaemonsGood
  <2>3. CASE l.holder = d /\ l.token
    <3>1. [gen |-> l.gen, expires |-> l.expires, last |-> now] \in OwnedEntries
      BY DEF OwnedEntries, Leases
    <3>2. GoodOwned(leases, d, [gen |-> l.gen, expires |-> l.expires, last |-> now])
      BY <2>3 DEF GoodOwned, GoodLease, Granted
    <3> QED
      BY <2>2, <2>3, <3>1, <3>2 DEF OwnedFrom
  <2> QED
    BY <2>1, <2>2, <2>3 DEF OwnedFrom
<1>3. Rebound(d, l) \in Gens /\ GoodEntry(leases, d, Rebound(d, l))
  BY Typed, Zenon DEF Rebound, IInv, DaemonsGood, GoodEntry, GoodLease, Granted, Leases
<1> QED
  BY <1>1, <1>2, <1>3, Typed, ZenonT(40) DEF IInv, DaemonsGood, CacheRouteFromLease, GoodLease

-----------------------------------------------------------------------------
(* The actions of a handler.                                                 *)

\* A handler that only moves on keeps what it has.
LEMMA MovedGood ==
  ASSUME IInv, NEW h \in Handlers, NEW pc \in Pcs \ {"put", "acquire"}
  PROVE  /\ [call[h] EXCEPT !.pc = pc] \in Calls
         /\ GoodCall(leases, h, [call[h] EXCEPT !.pc = pc])
<1>1. call[h] \in Calls /\ GoodCall(leases, h, call[h])
  BY Typed
<1> QED
  BY <1>1 DEF Calls, GoodCall

\* A handler that learns l, and one that knows its route.
LEMMA LearnedGood ==
  ASSUME IInv, NEW h \in Handlers, NEW pc \in Pcs \ {"put", "acquire"}, NEW L, NEW l \in Leases,
         GoodLease(L, l), Extends(leases, L), GoodRows(L, clock)
  PROVE  LET c == [call[h] EXCEPT !.pc = pc, !.lease = l]
             e == [call[h] EXCEPT !.pc = pc, !.target = Null, !.lease = l] IN
         c \in Calls /\ GoodCall(L, h, c) /\ e \in Calls /\ GoodCall(L, h, e)
<1>1. call[h] \in Calls /\ GoodCall(leases, h, call[h])
  BY Typed
<1>2. GoodCall(L, h, call[h])
  BY <1>1, GoodExtends, Typed
<1> QED
  BY <1>1, <1>2, Zenon DEF Calls, GoodCall

\* A handler that knows its route has a fence that was granted.
LEMMA RoutedGood ==
  ASSUME IInv, NEW h \in Handlers, NEW x, x.gen \in Gens, x.holder \in Daemons \cup {Null},
         Granted(leases, x.gen, x.holder, 0)
  PROVE  Routed(h, x) \in Calls /\ GoodCall(leases, h, Routed(h, x))
<1>1. call[h] \in Calls
  BY Typed
<1>2. FenceOf(x) \in Fences /\ FenceOf(x).gen = x.gen /\ FenceOf(x).holder = x.holder
  BY DEF FenceOf, Fences
<1>3. NoLease \in Leases /\ GoodLease(leases, NoLease)
  BY IdleGood
<1>4. /\ Routed(h, x) \in Calls
      /\ Routed(h, x).fence = FenceOf(x)
      /\ Routed(h, x).lease = NoLease
      /\ Routed(h, x).pc = "routed"
  BY <1>1, <1>2, <1>3, Zenon DEF Routed, Calls, Pcs
<1> QED
  BY <1>2, <1>3, <1>4 DEF GoodCall

\* What is granted until some time is granted at all.
LEMMA GrantedAtAll ==
  ASSUME NEW L, NEW now, GoodRows(L, now), NEW gen \in Gens, NEW holder, NEW expires,
         Granted(L, gen, holder, expires)
  PROVE  Granted(L, gen, holder, 0)
<1>1. Len(L) \in Nat /\ gen \in Nat
  BY LenProperties, LeaseAssumption DEF GoodRows, Gens
<1>2. gen # 0 => gen \in 1 .. Len(L)
  BY <1>1 DEF Granted
<1>3. gen # 0 => L[gen].until \in Nat
  BY <1>2, RowAt
<1> QED
  BY <1>3 DEF Granted

\* A resolution starts with nothing.
LEMMA StartResolveGood ==
  ASSUME IInv, NEW h \in Handlers, StartResolve(h)
  PROVE  IInv'
<1> DEFINE c == [IdleCall EXCEPT !.pc = "cache", !.now = clock]
<1>1. LeasesGrow
  BY LeasesStay DEF StartResolve
<1>2. c \in Calls /\ GoodCall(leases, h, c)
  BY IdleGood, Typed, ZenonT(40) DEF Calls, Pcs, GoodCall
<1>3. calls' \in 0 .. MaxCalls
  BY Typed, LeaseAssumption DEF StartResolve
<1> HIDE DEF c
<1> QED
  BY <1>1, <1>2, <1>3, CallStep DEF StartResolve, c

\* A cached route is granted (resolve_route).
LEMMA ReadCacheGood ==
  ASSUME IInv, NEW h \in Handlers, ReadCache(h)
  PROVE  IInv'
<1> DEFINE r == route[DaemonOf[h]]
<1>1. LeasesGrow /\ calls' \in 0 .. MaxCalls
  BY LeasesStay, Typed DEF ReadCache
<1>2. r \in RouteEntries /\ Granted(leases, r.gen, r.holder, r.expires)
  BY Typed DEF IInv, DaemonsGood
<1>3. r.gen \in Gens /\ r.holder \in Daemons \cup {Null}
  BY <1>2 DEF RouteEntries
<1>4. Granted(leases, r.gen, r.holder, 0)
  BY <1>2, <1>3, GrantedAtAll, Typed
<1>5. Routed(h, r) \in Calls /\ GoodCall(leases, h, Routed(h, r))
  BY <1>3, <1>4, RoutedGood
<1>6. /\ [call[h] EXCEPT !.pc = "lookup"] \in Calls
      /\ GoodCall(leases, h, [call[h] EXCEPT !.pc = "lookup"])
  BY MovedGood DEF Pcs
<1>7. CASE UsableRoute(r, call[h].now)
  BY <1>1, <1>5, <1>7, CallStep DEF ReadCache
<1>8. CASE ~UsableRoute(r, call[h].now)
  BY <1>1, <1>6, <1>8, CallStep DEF ReadCache
<1> QED
  BY <1>7, <1>8

\* An answer about the live row.
LEMMA ActiveSeen ==
  ASSUME IInv, Active, NEW h \in Handlers, NEW pc \in Pcs \ {"put", "acquire"}
  PROVE  LET c == [call[h] EXCEPT !.pc = pc, !.lease = Seen(leases, FALSE)] IN
         c \in Calls /\ GoodCall(leases, h, c)
<1>1. GoodRows(leases, clock) /\ clock \in 1 .. MaxTime
  BY Typed
<1>2. Len(leases) # 0
  BY <1>1, LenProperties DEF Active, Generation, GoodRows
<1>3. Seen(leases, FALSE) \in Leases /\ GoodLease(leases, Seen(leases, FALSE))
  BY <1>1, <1>2, SeenGood, Zenon
<1>4. Extends(leases, leases)
  <2>1. \A g \in 1 .. Len(leases) : leases[g].until \in Nat
    BY <1>1, RowAt
  <2>2. Len(leases) \in Nat
    BY <1>1, LenProperties DEF GoodRows
  <2> QED
    BY <2>1, <2>2 DEF Extends
<1> QED
  BY <1>1, <1>3, <1>4, LearnedGood, Zenon

\* A lookup reads the row.
LEMMA LookupGood ==
  ASSUME IInv, NEW h \in Handlers, Lookup(h)
  PROVE  IInv'
<1>1. LeasesGrow /\ calls' \in 0 .. MaxCalls
  BY LeasesStay, Typed DEF Lookup
<1>2. CASE Active
  <2> DEFINE c == [call[h] EXCEPT !.pc = "looked", !.lease = Seen(leases, FALSE)]
  <2>1. c \in Calls /\ GoodCall(leases, h, c)
    BY <1>2, ActiveSeen, Zenon DEF Pcs
  <2>2. Become(h, c)
    BY <1>2 DEF Lookup
  <2> HIDE DEF c
  <2> QED
    BY <1>1, <2>1, <2>2, CallStep DEF Lookup
<1>3. CASE ~Active
  BY <1>1, <1>3, MovedGood, CallStep DEF Lookup, Pcs
<1> QED
  BY <1>2, <1>3

\* The lookup after a redirect reads the row (refresh_route_from_redirect).
LEMMA RefreshGood ==
  ASSUME IInv, NEW h \in Handlers, Refresh(h)
  PROVE  IInv'
<1> DEFINE c == [call[h] EXCEPT !.pc = "looked", !.lease = Seen(leases, FALSE)]
<1>1. LeasesGrow /\ calls' \in 0 .. MaxCalls
  BY LeasesStay, Typed DEF Refresh
<1>2. c \in Calls /\ GoodCall(leases, h, c)
  BY ActiveSeen, Zenon DEF Refresh, Pcs
<1>3. Become(h, c)
  BY DEF Refresh
<1> HIDE DEF c
<1> QED
  BY <1>1, <1>2, <1>3, CallStep DEF Refresh

\* The policy learns of another's live lease or picks an eligible daemon.
LEMMA PolicyLookupGood ==
  ASSUME IInv, NEW h \in Handlers, PolicyLookup(h)
  PROVE  IInv'
<1>1. LeasesGrow /\ calls' \in 0 .. MaxCalls
  BY LeasesStay, Typed, ZenonT(40) DEF PolicyLookup
<1>2. CASE Active /\ Holder # DaemonOf[h]
  <2> DEFINE c == [call[h] EXCEPT !.pc = "acquired", !.lease = Seen(leases, FALSE)]
  <2>1. c \in Calls /\ GoodCall(leases, h, c)
    BY <1>2, ActiveSeen, Zenon DEF Pcs
  <2>2. Become(h, c)
    BY <1>2 DEF PolicyLookup
  <2> HIDE DEF c
  <2> QED
    BY <1>1, <2>1, <2>2, CallStep, ZenonT(40) DEF PolicyLookup
<1>3. CASE ~(Active /\ Holder # DaemonOf[h])
  <2>1. PICK t \in PolicyTargets(DaemonOf[h]) :
          Become(h, [call[h] EXCEPT !.pc = "acquire", !.target = t])
    BY <1>3, Zenon DEF PolicyLookup
  <2> DEFINE c == [call[h] EXCEPT !.pc = "acquire", !.target = t]
  <2>2. t \in Daemons
    BY <2>1, LeaseAssumption, Typed DEF PolicyTargets
  <2>3. call[h] \in Calls /\ GoodCall(leases, h, call[h])
    BY Typed
  <2>4. c \in Calls /\ GoodCall(leases, h, c)
    BY <2>2, <2>3, Zenon DEF Calls, Pcs, GoodCall
  <2> HIDE DEF c
  <2> QED
    BY <1>1, <2>1, <2>4, CallStep, ZenonT(40) DEF PolicyLookup, c
<1> QED
  BY <1>2, <1>3

\* An acquisition extends the leases and answers with the last.
LEMMA AcquireGood ==
  ASSUME IInv, NEW h \in Handlers, Acquire(h)
  PROVE  IInv'
<1> DEFINE L == Acquired(call[h].target)
           l == Seen(L, L[Len(L)].holder = call[h].target)
           c == [call[h] EXCEPT !.pc = "acquired", !.target = Null, !.lease = l]
<1>1. call[h].target \in Daemons
  BY Typed DEF Acquire, At, GoodCall
<1>2. GoodRows(L, clock) /\ Extends(leases, L) /\ Len(L) # 0
  BY <1>1, AcquiredGood, Typed
<1>3. l \in Leases /\ GoodLease(L, l)
  BY <1>2, SeenGood, Typed, Zenon
<1>4. leases' = L /\ clock' = clock /\ calls' \in 0 .. MaxCalls /\ Become(h, c)
  BY Typed DEF Acquire
<1> HIDE DEF L, l
<1>5. c \in Calls /\ GoodCall(L, h, c)
  BY <1>2, <1>3, LearnedGood, Zenon DEF Pcs
<1> HIDE DEF c
<1> QED
  BY <1>2, <1>4, <1>5, CallStep DEF Acquire, LeasesGrow

\* Resolution that fails leaves the handler idle or redirecting.
LEMMA FailedGood ==
  ASSUME IInv, NEW h \in Handlers
  PROVE  Failed(h) \in Calls /\ GoodCall(leases, h, Failed(h))
<1>1. call[h] \in Calls /\ GoodCall(leases, h, call[h])
  BY Typed
<1> DEFINE c == [call[h] EXCEPT !.pc = "redirect", !.target = Null]
<1>2. c \in Calls /\ GoodCall(leases, h, c)
  BY <1>1, Zenon DEF Calls, Pcs, GoodCall
<1> QED
  BY <1>2, IdleGood DEF Failed

\* An acquisition whose answer is lost extends the leases all the same.
LEMMA AcquireUnansweredGood ==
  ASSUME IInv, NEW h \in Handlers, AcquireUnanswered(h)
  PROVE  IInv'
<1> DEFINE L == Acquired(call[h].target)
<1>1. call[h].target \in Daemons
  BY Typed DEF AcquireUnanswered, At, GoodCall
<1>2. GoodRows(L, clock) /\ Extends(leases, L)
  BY <1>1, AcquiredGood, Typed
<1>3. Failed(h) \in Calls /\ GoodCall(leases, h, Failed(h))
  BY FailedGood
<1>4. GoodCall(L, h, Failed(h))
  BY <1>2, <1>3, GoodExtends, Typed
<1>5. leases' = L /\ clock' = clock /\ calls' \in 0 .. MaxCalls
  BY Typed DEF AcquireUnanswered
<1> HIDE DEF L
<1> QED
  BY <1>2, <1>3, <1>4, <1>5, CallStep DEF AcquireUnanswered, LeasesGrow

\* An RPC that did not reach the Global Store changes nothing there.
LEMMA RpcFailsGood ==
  ASSUME IInv, NEW h \in Handlers, RpcFails(h)
  PROVE  IInv'
BY LeasesStay, FailedGood, CallStep, Typed DEF RpcFails

\* A requester that gives up is idle.
LEMMA GiveUpGood ==
  ASSUME IInv, NEW h \in Handlers, GiveUp(h)
  PROVE  IInv'
BY LeasesStay, IdleGood, CallStep, Typed DEF GiveUp

\* The answer of a lookup becomes the route, however late.
LEMMA CacheLookupGood ==
  ASSUME IInv, NEW h \in Handlers, CacheLookup(h)
  PROVE  IInv'
<1> DEFINE l == call[h].lease
<1>1. LeasesGrow
  BY LeasesStay, Zenon DEF CacheLookup
<1>2. call[h] \in Calls /\ l \in Leases /\ call[h].now \in Times /\ GoodLease(leases, l)
  BY Typed DEF Calls, GoodCall
<1>3. /\ l.gen \in Gens /\ l.holder \in Daemons \cup {Null} /\ l.expires \in Times
      /\ Granted(leases, l.gen, l.holder, l.expires)
  BY <1>2 DEF Leases, GoodLease
<1>4. Granted(leases, l.gen, l.holder, 0)
  BY <1>3, GrantedAtAll, Typed
<1>5. Routed(h, l) \in Calls /\ GoodCall(leases, h, Routed(h, l))
  BY <1>3, <1>4, RoutedGood, Zenon
<1>6. /\ DaemonsGood'
      /\ route' \in [Daemons -> RouteEntries]
      /\ owned' \in [Daemons -> OwnedEntries]
      /\ entry' \in [Daemons -> Gens]
  BY <1>2, <1>3, LookupCached, Typed DEF CacheLookup
<1>7. CallsGood' /\ call' \in [Handlers -> Calls]
  BY <1>1, <1>5, BecomeGood DEF CacheLookup
<1> QED
  BY <1>1, <1>6, <1>7, Assemble, Typed DEF CacheLookup

\* The answer of an acquisition becomes the route, the owned lease and, at a home, the verdict.
LEMMA CacheLeaseGood ==
  ASSUME IInv, NEW h \in Handlers, CacheLease(h)
  PROVE  IInv'
<1> DEFINE l == call[h].lease
           c == [call[h] EXCEPT !.lease = NoLease, !.pc = IF Accepts(h, l) THEN "put" ELSE "redirect"]
<1>1. LeasesGrow
  BY LeasesStay, Zenon DEF CacheLease
<1>2. call[h] \in Calls /\ l \in Leases /\ call[h].now \in Times /\ GoodLease(leases, l)
  BY Typed DEF Calls, GoodCall
<1>3. /\ l.gen \in Gens /\ l.holder \in Daemons \cup {Null} /\ l.expires \in Times
      /\ Granted(leases, l.gen, l.holder, l.expires)
  BY <1>2 DEF Leases, GoodLease
<1>4. Granted(leases, l.gen, l.holder, 0)
  BY <1>3, GrantedAtAll, Typed
<1>5. Routed(h, l) \in Calls /\ GoodCall(leases, h, Routed(h, l))
  BY <1>3, <1>4, RoutedGood
<1>6. c \in Calls /\ GoodCall(leases, h, c)
  <2>1. GoodCall(leases, h, call[h]) /\ NoLease \in Leases /\ GoodLease(leases, NoLease)
    BY Typed, IdleGood
  <2>2. /\ c \in Calls /\ c.lease = NoLease /\ c.fence = call[h].fence /\ c.now = call[h].now
        /\ c.pc = IF Accepts(h, l) THEN "put" ELSE "redirect"
    BY <1>2, <2>1, Zenon DEF Calls, Pcs
  <2>3. Accepts(h, l) => Accepted(leases, h, c)
    <3> SUFFICES ASSUME Accepts(h, l) PROVE Accepted(leases, h, c)
      OBVIOUS
    <3>1. /\ l.gen = c.fence.gen /\ l.gen # 0 /\ l.holder = DaemonOf[h] /\ l.expires # 0
          /\ l.expires > call[h].now
      BY <1>2, <2>2 DEF Accepts, GoodLease, Unexpired
    <3>2. GoodRows(leases, clock) /\ Len(leases) \in Nat /\ l.gen \in Nat
      BY <1>3, Typed, LenProperties, LeaseAssumption DEF Gens, GoodRows
    <3>3. l.gen \in 1 .. Len(leases)
      BY <1>3, <3>1, <3>2 DEF Granted
    <3>4. leases[l.gen].until \in Nat /\ l.expires \in Nat /\ call[h].now \in Nat
      BY <1>2, <1>3, <3>2, <3>3, RowAt, LeaseAssumption DEF Times
    <3> QED
      BY <1>3, <2>2, <3>1, <3>3, <3>4 DEF Accepted, Granted
  <2> HIDE DEF c
  <2> QED
    BY <2>1, <2>2, <2>3 DEF GoodCall
<1>7. \A x \in Daemons : GoodLease(leases, keepalive'[x].lease)
  BY DEF CacheLease, IInv, DaemonsGood
<1>8. /\ DaemonsGood'
      /\ route' \in [Daemons -> RouteEntries]
      /\ owned' \in [Daemons -> OwnedEntries]
      /\ entry' \in [Daemons -> Gens]
  BY <1>2, <1>7, LeaseCached, Typed DEF CacheLease
<1>9. CallsGood' /\ call' \in [Handlers -> Calls]
  <2>1. CASE ~IsHome(h)
    BY <1>1, <1>5, <2>1, BecomeGood DEF CacheLease
  <2>2. CASE IsHome(h)
    <3>1. Become(h, c)
      BY <2>2 DEF CacheLease
    <3> HIDE DEF c
    <3> QED
      BY <1>1, <1>6, <3>1, BecomeGood DEF CacheLease
  <2> QED
    BY <2>1, <2>2
<1> QED
  BY <1>1, <1>8, <1>9, Assemble, Typed DEF CacheLease

-----------------------------------------------------------------------------
(* The request at the home.                                                  *)

\* A requester that is the home serves itself.
LEMMA ServeLocallyGood ==
  ASSUME IInv, NEW h \in Handlers, ServeLocally(h)
  PROVE  IInv'
<1> DEFINE c == [call[h] EXCEPT !.pc = "owned", !.peer = h]
           e == [call[h] EXCEPT !.pc = "owned", !.peer = h, !.now = clock, !.began = call[h].now]
<1>1. LeasesGrow /\ calls' \in 0 .. MaxCalls
  BY LeasesStay, Typed DEF ServeLocally
<1>2. call[h] \in Calls /\ GoodCall(leases, h, call[h]) /\ clock \in Times
  BY Typed
<1>3. c \in Calls /\ GoodCall(leases, h, c)
  BY <1>2, Zenon DEF Calls, Pcs, GoodCall
<1>4. e \in Calls /\ GoodCall(leases, h, e)
  BY <1>2, Zenon DEF Calls, Pcs, GoodCall
<1>5. Become(h, c) \/ Become(h, e)
  BY DEF ServeLocally
<1> HIDE DEF c, e
<1> QED
  BY <1>1, <1>3, <1>4, <1>5, CallStep DEF ServeLocally

\* A home takes over the fence of its requester.
LEMMA ServeGood ==
  ASSUME IInv, NEW h \in Handlers, NEW k \in Handlers, Serve(h, k)
  PROVE  IInv'
<1> DEFINE c == [IdleCall EXCEPT !.pc = "owned", !.now = clock, !.fence = call[k].fence, !.peer = k]
           e == [call[k] EXCEPT !.pc = "served", !.peer = h]
<1>1. LeasesGrow
  BY LeasesStay DEF Serve
<1>2. call[k] \in Calls /\ GoodCall(leases, k, call[k]) /\ clock \in Times /\ call \in [Handlers -> Calls]
  BY Typed
<1>3. c \in Calls /\ GoodCall(leases, h, c)
  <2>1. IdleCall \in Calls /\ GoodLease(leases, IdleCall.lease)
    BY IdleGood DEF GoodCall
  <2>2. /\ c \in Calls /\ c.fence = call[k].fence /\ c.pc = "owned" /\ c.lease = IdleCall.lease
    BY <1>2, <2>1, Zenon DEF Calls, Pcs
  <2> HIDE DEF c
  <2> QED
    BY <1>2, <2>1, <2>2 DEF GoodCall
<1>4. e \in Calls /\ GoodCall(leases, k, e)
  BY <1>2, Zenon DEF Calls, Pcs, GoodCall
<1>5. h # k /\ call' = [[call EXCEPT ![h] = c] EXCEPT ![k] = e]
  BY <1>2, Zenon DEF Serve
<1> HIDE DEF c, e
<1>6. call' \in [Handlers -> Calls]
  BY <1>2, <1>3, <1>4, <1>5
<1>7. \A x \in Handlers : GoodCall(leases, x, call'[x])
  BY <1>2, <1>3, <1>4, <1>5, Typed
<1>8. CallsGood'
  BY <1>7, Zenon DEF CallsGood, Serve
<1>9. DaemonsGood'
  BY <1>1, DaemonsStay DEF Serve, daemonVars
<1> QED
  BY <1>1, <1>6, <1>8, <1>9, Assemble, Typed DEF Serve, daemonVars

\* A home that accepts under a usable owned lease.
LEMMA CheckOwnedGood ==
  ASSUME IInv, NEW h \in Handlers, CheckOwned(h)
  PROVE  IInv'
<1> DEFINE d == DaemonOf[h]
           o == owned[d]
           c == [call[h] EXCEPT !.pc = IF o.gen = call[h].fence.gen THEN "put" ELSE "redirect"]
           e == [call[h] EXCEPT !.pc = "policy"]
<1>1. LeasesGrow
  BY LeasesStay, Zenon DEF CheckOwned
<1>2. /\ call[h] \in Calls /\ GoodCall(leases, h, call[h]) /\ d \in Daemons
      /\ o \in OwnedEntries /\ GoodOwned(leases, d, o) /\ call[h].now \in Times
  BY Typed DEF IInv, DaemonsGood, Calls
<1>3. e \in Calls /\ GoodCall(leases, h, e)
  BY MovedGood DEF Pcs
<1>4. UsableOwned(o, call[h].now) => c \in Calls /\ GoodCall(leases, h, c)
  <2> SUFFICES ASSUME UsableOwned(o, call[h].now)
               PROVE  c \in Calls /\ GoodCall(leases, h, c)
    OBVIOUS
  <2>1. /\ c \in Calls /\ c.fence = call[h].fence /\ c.lease = call[h].lease /\ c.now = call[h].now
        /\ c.pc = IF o.gen = call[h].fence.gen THEN "put" ELSE "redirect"
    BY <1>2, Zenon DEF Calls, Pcs
  <2>2. o.gen # 0 /\ o.expires > call[h].now /\ o.gen \in Gens /\ o.expires \in Times
    BY <1>2 DEF UsableOwned, Unexpired, GoodOwned, OwnedEntries
  <2>3. GoodRows(leases, clock) /\ Len(leases) \in Nat /\ o.gen \in Nat
    <3>1. leases \in Seq(Rows)
      BY Typed DEF GoodRows
    <3>2. Len(leases) \in Nat
      BY <3>1, LenProperties
    <3> QED
      BY <2>2, <3>2, Typed, LeaseAssumption DEF Gens
  <2>4. o.gen \in 1 .. Len(leases)
    BY <1>2, <2>2, <2>3 DEF GoodOwned, Granted
  <2>5. leases[o.gen].until \in Nat /\ o.expires \in Nat /\ call[h].now \in Nat
    BY <1>2, <2>2, <2>3, <2>4, RowAt, LeaseAssumption DEF Times
  <2> HIDE DEF c
  <2>6. o.gen = call[h].fence.gen => Accepted(leases, h, c)
    BY <1>2, <2>1, <2>2, <2>4, <2>5 DEF Accepted, GoodOwned, Granted
  <2> QED
    BY <1>2, <2>1, <2>6, Zenon DEF GoodCall
<1>5. NoOwned \in OwnedEntries /\ GoodOwned(leases, d, NoOwned)
  BY NothingGood, Zenon
<1>6. owned' \in [Daemons -> OwnedEntries] /\ \A x \in Daemons : GoodOwned(leases, x, owned'[x])
  BY <1>2, <1>5, Typed DEF CheckOwned, IInv, DaemonsGood
<1>7. DaemonsGood'
  BY <1>6 DEF CheckOwned, IInv, DaemonsGood
<1>8. CallsGood' /\ call' \in [Handlers -> Calls]
  <2>1. CASE UsableOwned(o, call[h].now)
    <3>1. Become(h, c)
      BY <2>1 DEF CheckOwned
    <3> HIDE DEF c
    <3> QED
      BY <1>1, <1>4, <2>1, <3>1, BecomeGood DEF CheckOwned
  <2>2. CASE ~UsableOwned(o, call[h].now)
    <3>1. Become(h, e)
      BY <2>2 DEF CheckOwned
    <3> HIDE DEF e
    <3> QED
      BY <1>1, <1>3, <3>1, BecomeGood DEF CheckOwned
  <2> QED
    BY <2>1, <2>2
<1> QED
  BY <1>1, <1>6, <1>7, <1>8, Assemble, Typed DEF CheckOwned

\* A put writes the entry under the accepted generation (put_if_absent).
LEMMA PutGood ==
  ASSUME IInv, NEW h \in Handlers, Put(h)
  PROVE  IInv'
<1>1. LeasesGrow
  BY LeasesStay, Zenon DEF Put
<1>2. call[h] \in Calls /\ Accepted(leases, h, call[h]) /\ DaemonOf[h] \in Daemons
  BY Typed DEF Put, At, GoodCall
<1>3. call[h].fence.gen \in Gens /\ GoodEntry(leases, DaemonOf[h], call[h].fence.gen)
  BY <1>2 DEF Calls, Fences, GoodEntry, Accepted
<1>4. entry' \in [Daemons -> Gens] /\ \A x \in Daemons : GoodEntry(leases, x, entry'[x])
  BY <1>2, <1>3, Typed, ZenonT(40) DEF Put, IInv, DaemonsGood
<1>5. DaemonsGood'
  BY <1>4, Zenon DEF Put, IInv, DaemonsGood
<1>6. CallsGood' /\ call' \in [Handlers -> Calls]
  BY ReplyGood, IdleGood DEF Put
<1> QED
  BY <1>1, <1>4, <1>5, <1>6, Assemble, Typed DEF Put

\* A read writes nothing.
LEMMA ReadGood ==
  ASSUME IInv, NEW h \in Handlers, Read(h)
  PROVE  IInv'
BY ReplyStep, IdleGood DEF Read

\* A redirect passes on what was granted.
LEMMA RedirectedGood ==
  ASSUME IInv, NEW h \in Handlers, NEW f \in Fences, Granted(leases, f.gen, f.holder, 0),
         UNCHANGED leases, Redirected(h, f)
  PROVE  CallsGood' /\ call' \in [Handlers -> Calls]
<1> DEFINE k == call[h].peer
           c == [call[k] EXCEPT !.pc = "refresh", !.attempt = 1, !.fence = f, !.lease = NoLease,
                                !.peer = Null, !.began = 0,
                                !.now = IF k = h THEN call[h].began ELSE @]
<1>1. CASE call[k].attempt = 0 /\ ~LocalPut(h)
  <2>1. Reply(h, c)
    BY <1>1 DEF Redirected
  <2>2. k \in Handlers => c \in Calls /\ GoodCall(leases, k, c)
    <3> SUFFICES ASSUME k \in Handlers PROVE c \in Calls /\ GoodCall(leases, k, c)
      OBVIOUS
    <3>1. call[k] \in Calls /\ call[h] \in Calls /\ NoLease \in Leases /\ GoodLease(leases, NoLease)
      BY Typed, IdleGood, Zenon
    <3>2. 0 \in Times /\ call[h].began \in Times /\ call[k].now \in Times
      BY <3>1, LeaseAssumption DEF Times, Calls
    <3>3. c \in Calls /\ c.fence = f /\ c.lease = NoLease /\ c.pc = "refresh"
      BY <3>1, <3>2, ZenonT(40) DEF Calls, Pcs
    <3> HIDE DEF c
    <3> QED
      BY <3>1, <3>3 DEF GoodCall
  <2> HIDE DEF c
  <2> QED
    BY <2>1, <2>2, ReplyGood
<1>2. CASE ~(call[k].attempt = 0 /\ ~LocalPut(h))
  BY <1>2, ReplyGood, IdleGood DEF Redirected
<1> QED
  BY <1>1, <1>2

\* A redirect from the cached route, or on to the Global Store (populate_redirect).
LEMMA RedirectGood ==
  ASSUME IInv, NEW h \in Handlers, Redirect(h)
  PROVE  IInv'
<1> DEFINE r == route[DaemonOf[h]]
           c == [call[h] EXCEPT !.pc = "redirectLookup"]
<1>1. LeasesGrow
  BY LeasesStay DEF Redirect
<1>2. /\ r \in RouteEntries /\ Granted(leases, r.gen, r.holder, r.expires)
      /\ r.gen \in Gens /\ r.holder \in Daemons \cup {Null}
  BY Typed DEF IInv, DaemonsGood, RouteEntries
<1>3. /\ FenceOf(r) \in Fences
      /\ Granted(leases, FenceOf(r).gen, FenceOf(r).holder, 0)
  <2>1. Granted(leases, r.gen, r.holder, 0)
    BY <1>2, GrantedAtAll, Typed
  <2> QED
    BY <1>2, <2>1, Zenon DEF FenceOf, Fences
<1>4. c \in Calls /\ GoodCall(leases, h, c)
  BY MovedGood DEF Pcs
<1>5. Redirected(h, FenceOf(r)) \/ Become(h, c)
  BY DEF Redirect
<1> HIDE DEF c, r
<1>6. CallsGood' /\ call' \in [Handlers -> Calls]
  BY <1>1, <1>3, <1>4, <1>5, RedirectedGood, BecomeGood DEF Redirect
<1>7. DaemonsGood'
  BY <1>1, DaemonsStay DEF Redirect, daemonVars
<1> QED
  BY <1>1, <1>6, <1>7, Assemble, Typed DEF Redirect, daemonVars

\* The lookup for a redirect reads the row, or gives up.
LEMMA RedirectLookupGood ==
  ASSUME IInv, NEW h \in Handlers, RedirectLookup(h)
  PROVE  IInv'
<1>1. CASE Reply(h, IdleCall)
  BY <1>1, ReplyStep, IdleGood DEF RedirectLookup
<1>2. CASE /\ Active
           /\ Become(h, [call[h] EXCEPT !.pc = "redirectLooked", !.lease = Seen(leases, FALSE)])
  <2> DEFINE c == [call[h] EXCEPT !.pc = "redirectLooked", !.lease = Seen(leases, FALSE)]
  <2>1. "redirectLooked" \in Pcs \ {"put", "acquire"}
    BY DEF Pcs
  <2>2. c \in Calls /\ GoodCall(leases, h, c)
    BY <1>2, <2>1, ActiveSeen, Zenon
  <2>3. LeasesGrow /\ Become(h, c)
    BY <1>2, LeasesStay DEF RedirectLookup
  <2> HIDE DEF c
  <2> QED
    BY <2>2, <2>3, CallStep, Typed DEF RedirectLookup
<1> QED
  BY <1>1, <1>2 DEF RedirectLookup

\* The redirect after a lookup is what was looked up.
LEMMA CacheRedirectLookupGood ==
  ASSUME IInv, NEW h \in Handlers, CacheRedirectLookup(h)
  PROVE  IInv'
<1> DEFINE d == DaemonOf[h]
           l == call[h].lease
<1>1. LeasesGrow
  BY LeasesStay, Zenon DEF CacheRedirectLookup
<1>2. /\ d \in Daemons /\ call[h].now \in Times /\ l.gen \in Gens
      /\ l.holder \in Daemons \cup {Null} /\ l.expires \in Times
      /\ Granted(leases, l.gen, l.holder, l.expires)
  BY Typed, Zenon DEF Calls, Leases, GoodCall, GoodLease
<1>3. /\ FenceOf(l) \in Fences
      /\ Granted(leases, FenceOf(l).gen, FenceOf(l).holder, 0)
  <2>1. Granted(leases, l.gen, l.holder, 0)
    BY <1>2, GrantedAtAll, Typed
  <2> QED
    BY <1>2, <2>1, Zenon DEF FenceOf, Fences
<1>4. CacheRouteFromLookup(d, l, call[h].now) /\ Redirected(h, FenceOf(l))
  BY Zenon DEF CacheRedirectLookup
<1> HIDE DEF d, l
<1>5. /\ DaemonsGood' /\ route' \in [Daemons -> RouteEntries]
      /\ owned' \in [Daemons -> OwnedEntries] /\ entry' \in [Daemons -> Gens]
  BY <1>2, <1>4, LookupCached, Zenon DEF CacheRedirectLookup
<1>6. CallsGood' /\ call' \in [Handlers -> Calls]
  BY <1>3, <1>4, RedirectedGood DEF CacheRedirectLookup
<1> QED
  BY <1>1, <1>5, <1>6, Assemble, Typed, Zenon DEF CacheRedirectLookup

\* A redirect taken for the route, with no expiry, was granted.
LEMMA FollowRedirectGood ==
  ASSUME IInv, NEW h \in Handlers, FollowRedirect(h)
  PROVE  IInv'
<1> DEFINE d == DaemonOf[h]
           f == call[h].fence
           l == [gen |-> f.gen, holder |-> f.holder, expires |-> 0]
<1>1. LeasesGrow
  BY LeasesStay, Zenon DEF FollowRedirect
<1>2. /\ d \in Daemons /\ call[h].now \in Times /\ f.gen \in Gens
      /\ f.holder \in Daemons \cup {Null}
      /\ Granted(leases, f.gen, f.holder, 0)
  BY Typed, Zenon DEF Calls, Fences, GoodCall
<1>3. l.gen = f.gen /\ l.holder = f.holder /\ l.expires = 0 /\ 0 \in Times
  BY LeaseAssumption DEF Times
<1>4. CacheRouteFromLookup(d, l, call[h].now) /\ Become(h, Routed(h, f))
  BY Zenon DEF FollowRedirect
<1> HIDE DEF d, l, f
<1>5. /\ DaemonsGood' /\ route' \in [Daemons -> RouteEntries]
      /\ owned' \in [Daemons -> OwnedEntries] /\ entry' \in [Daemons -> Gens]
  BY <1>2, <1>3, <1>4, LookupCached DEF FollowRedirect
<1>6. Routed(h, f) \in Calls /\ GoodCall(leases, h, Routed(h, f))
  BY <1>2, RoutedGood, Zenon
<1>7. CallsGood' /\ call' \in [Handlers -> Calls]
  BY <1>1, <1>4, <1>6, BecomeGood DEF FollowRedirect
<1> QED
  BY <1>1, <1>5, <1>7, Assemble, Typed, Zenon DEF FollowRedirect

-----------------------------------------------------------------------------
(* The keepalive, time and restarts.                                         *)

\* A keepalive that becomes k while the tables of its daemon stay.
LEMMA KeepaliveStep ==
  ASSUME IInv, LeasesGrow, UNCHANGED <<clock, daemonVars, call, calls>>,
         NEW d \in Daemons, NEW k \in Keepalives, GoodLease(leases', k.lease), KeepaliveBecome(d, k)
  PROVE  IInv'
<1>1. keepalive' \in [Daemons -> Keepalives] /\ keepalive' = [keepalive EXCEPT ![d] = k]
  BY Typed DEF KeepaliveBecome
<1>2. \A x \in Daemons : GoodLease(leases', keepalive'[x].lease)
  <2>1. \A x \in Daemons : keepalive[x].lease \in Leases /\ GoodLease(leases, keepalive[x].lease)
    BY Typed, ZenonT(40) DEF IInv, DaemonsGood, Keepalives
  <2>2. \A l \in Leases : GoodLease(leases, l) => GoodLease(leases', l)
    BY GoodExtends, Typed DEF LeasesGrow
  <2> QED
    BY <1>1, <2>1, <2>2, Typed
<1>3. \A x \in Daemons : /\ Granted(leases', route[x].gen, route[x].holder, route[x].expires)
                         /\ GoodOwned(leases', x, owned[x])
                         /\ GoodEntry(leases', x, entry[x])
  BY GoodExtends, Typed, ZenonT(40) DEF LeasesGrow, IInv, DaemonsGood
<1>4. DaemonsGood'
  BY <1>2, <1>3, Zenon DEF DaemonsGood, daemonVars
<1>5. CallsGood'
  BY CallsStay
<1> QED
  BY <1>1, <1>4, <1>5, Assemble, Typed, ZenonT(40) DEF daemonVars

\* An idle keepalive holds nothing.
LEMMA IdleKeepaliveGood ==
  IdleKeepalive \in Keepalives /\ \A L : GoodLease(L, IdleKeepalive.lease)
BY IdleGood, LeaseAssumption DEF IdleKeepalive, Keepalives, Times, Gens

\* A keepalive starts from the owned lease.
LEMMA KeepaliveScanGood ==
  ASSUME IInv, NEW d \in Daemons, KeepaliveScan(d)
  PROVE  IInv'
<1> DEFINE k == [IdleKeepalive EXCEPT !.pc = "send", !.now = clock, !.gen = owned[d].gen]
<1>1. k \in Keepalives /\ GoodLease(leases, k.lease)
  BY IdleKeepaliveGood, Typed, Zenon DEF Keepalives, OwnedEntries
<1>2. LeasesGrow /\ KeepaliveBecome(d, k)
  BY LeasesStay DEF KeepaliveScan
<1> HIDE DEF k
<1> QED
  BY <1>1, <1>2, KeepaliveStep DEF KeepaliveScan

\* A keepalive renews the lease of its generation while it is live, answered or not.
LEMMA KeepaliveSendGood ==
  ASSUME IInv, NEW d \in Daemons, KeepaliveSend(d)
  PROVE  IInv'
<1> DEFINE k == [keepalive[d] EXCEPT !.pc = "answered",
                   !.lease = IF Revivable(keepalive[d].gen) THEN Seen(Renewed, TRUE) ELSE NoLease]
<1>1. LeasesGrow
  BY LeasesStay, RenewedGood, Typed DEF KeepaliveSend, Revivable, LeasesGrow
<1>2. keepalive[d] \in Keepalives
  BY Typed
<1>3. k \in Keepalives /\ GoodLease(leases', k.lease)
  <2>1. CASE Revivable(keepalive[d].gen)
    <3>1. GoodRows(Renewed, clock) /\ Len(Renewed) # 0 /\ clock \in 1 .. MaxTime /\ leases' = Renewed
      <4>1. Len(leases) \in Nat
        BY LenProperties, Typed DEF GoodRows
      <4> QED
        BY <2>1, <4>1, RenewedGood, Typed DEF KeepaliveSend, Revivable, Active, Generation
    <3>2. Seen(Renewed, TRUE) \in Leases /\ GoodLease(Renewed, Seen(Renewed, TRUE))
      BY <3>1, SeenGood, Zenon
    <3> QED
      BY <1>2, <2>1, <3>1, <3>2, Zenon DEF Keepalives
  <2>2. CASE ~Revivable(keepalive[d].gen)
    BY <1>2, <2>2, IdleGood, Zenon DEF Keepalives
  <2> QED
    BY <2>1, <2>2, Zenon
<1>4. KeepaliveBecome(d, k) \/ KeepaliveBecome(d, IdleKeepalive)
  BY DEF KeepaliveSend
<1> HIDE DEF k
<1> QED
  BY <1>1, <1>3, <1>4, KeepaliveStep, IdleKeepaliveGood DEF KeepaliveSend

\* A keepalive that was not sent changes nothing.
LEMMA KeepaliveFailsGood ==
  ASSUME IInv, NEW d \in Daemons, KeepaliveFails(d)
  PROVE  IInv'
BY LeasesStay, KeepaliveStep, IdleKeepaliveGood DEF KeepaliveFails

\* A refused keepalive ends the ownership, one that is out of date does nothing.
LEMMA KeepaliveCheckGood ==
  ASSUME IInv, NEW d \in Daemons, KeepaliveCheck(d)
  PROVE  IInv'
<1> DEFINE k == [keepalive[d] EXCEPT !.pc = "apply"]
<1>1. LeasesGrow /\ CallsGood'
  BY LeasesStay, CallsStay DEF KeepaliveCheck
<1>2. k \in Keepalives /\ GoodLease(leases, k.lease)
  BY Typed DEF Keepalives, IInv, DaemonsGood
<1>3. KeepaliveBecome(d, k) \/ KeepaliveBecome(d, IdleKeepalive)
  BY DEF KeepaliveCheck
<1> HIDE DEF k
<1>4. keepalive' \in [Daemons -> Keepalives] /\ \A x \in Daemons : GoodLease(leases, keepalive'[x].lease)
  BY <1>2, <1>3, IdleKeepaliveGood, Typed, ZenonT(40) DEF KeepaliveBecome, IInv, DaemonsGood
<1>5. NoOwned \in OwnedEntries /\ GoodOwned(leases, d, NoOwned)
  BY NothingGood, Zenon
<1>6. owned' = owned \/ owned' = [owned EXCEPT ![d] = NoOwned]
  BY DEF KeepaliveCheck
<1>7. owned' \in [Daemons -> OwnedEntries] /\ \A x \in Daemons : GoodOwned(leases, x, owned'[x])
  BY <1>5, <1>6, Typed, Zenon DEF IInv, DaemonsGood
<1>8. DaemonsGood'
  BY <1>4, <1>7 DEF KeepaliveCheck, IInv, DaemonsGood
<1> QED
  BY <1>1, <1>4, <1>7, <1>8, Assemble, Typed DEF KeepaliveCheck

\* A renewed lease is cached.
LEMMA KeepaliveApplyGood ==
  ASSUME IInv, NEW d \in Daemons, KeepaliveApply(d)
  PROVE  IInv'
<1>1. LeasesGrow /\ CallsGood'
  BY LeasesStay, CallsStay DEF KeepaliveApply
<1>2. keepalive[d].lease \in Leases /\ GoodLease(leases, keepalive[d].lease) /\ keepalive[d].now \in Times
  BY Typed, Zenon DEF Keepalives, IInv, DaemonsGood
<1>3. keepalive' \in [Daemons -> Keepalives] /\ \A x \in Daemons : GoodLease(leases, keepalive'[x].lease)
  BY IdleKeepaliveGood, Typed, ZenonT(40) DEF KeepaliveApply, KeepaliveBecome, IInv, DaemonsGood
<1>4. /\ DaemonsGood' /\ route' \in [Daemons -> RouteEntries]
      /\ owned' \in [Daemons -> OwnedEntries] /\ entry' \in [Daemons -> Gens]
  BY <1>2, <1>3, LeaseCached, ZenonT(40) DEF KeepaliveApply
<1> QED
  BY <1>1, <1>3, <1>4, Assemble, Typed, Zenon DEF KeepaliveApply

\* Time passes; what was granted was granted.
LEMMA TickGood ==
  ASSUME IInv, Tick
  PROVE  IInv'
<1>1. /\ clock \in Nat /\ MaxTime \in Nat /\ clock' \in 1 .. MaxTime /\ clock' = clock + 1
      /\ LeaseTtl \in Nat
  BY Typed, LeaseAssumption DEF Tick
<1>2. \A g \in 1 .. Len(leases) : leases[g].from \in Nat /\ leases[g].until \in Nat
  BY RowAt, Typed
<1>3. LeasesGrow
  <2>1. leases \in Seq(Rows)
    BY Typed DEF GoodRows
  <2>2. Len(leases) \in Nat
    BY <2>1, LenProperties
  <2> QED
    BY <1>1, <1>2, <2>2, Typed DEF GoodRows, LeasesGrow, Extends, Tick
<1>4. DaemonsGood' /\ CallsGood'
  BY <1>3, DaemonsStay, CallsStay DEF Tick, daemonVars
<1> QED
  BY <1>1, <1>3, <1>4, Assemble, Typed DEF Tick, daemonVars

\* A daemon restarts with nothing.
LEMMA DaemonRestartGood ==
  ASSUME IInv, NEW d \in Daemons, DaemonRestart(d)
  PROVE  IInv'
<1>1. LeasesGrow
  BY LeasesStay DEF DaemonRestart
<1>2. /\ NoOwned \in OwnedEntries /\ GoodOwned(leases, d, NoOwned)
      /\ NoRoute \in RouteEntries /\ Granted(leases, NoRoute.gen, NoRoute.holder, NoRoute.expires)
      /\ 0 \in Gens /\ GoodEntry(leases, d, 0)
  BY NothingGood, Zenon
<1>3. /\ owned' \in [Daemons -> OwnedEntries] /\ route' \in [Daemons -> RouteEntries]
      /\ entry' \in [Daemons -> Gens] /\ keepalive' \in [Daemons -> Keepalives]
  BY <1>2, IdleKeepaliveGood, Typed DEF DaemonRestart
<1>4. DaemonsGood'
  BY <1>2, IdleKeepaliveGood, Typed, Zenon DEF DaemonRestart, IInv, DaemonsGood
<1>5. call' \in [Handlers -> Calls] /\ CallsGood'
  BY IdleGood, Typed DEF DaemonRestart, CallsGood
<1> QED
  BY <1>1, <1>3, <1>4, <1>5, Assemble, Typed DEF DaemonRestart

-----------------------------------------------------------------------------
(* The theorems.                                                             *)

\* Nothing is granted, cached or under way at the start.
LEMMA InitGood == Init => IInv
<1> SUFFICES ASSUME Init PROVE IInv
  OBVIOUS
<1>1. leases \in Seq(Rows) /\ Len(leases) = 0 /\ clock \in 1 .. MaxTime /\ calls \in 0 .. MaxCalls
  <2>1. leases \in Seq(Rows) /\ Len(leases) = 0
    BY EmptySeq DEF Init
  <2>2. clock \in 1 .. MaxTime /\ calls \in 0 .. MaxCalls
    BY LeaseAssumption DEF Init
  <2> QED
    BY <2>1, <2>2
<1>2. GoodRows(leases, clock)
  BY <1>1 DEF GoodRows
<1>3. /\ NoOwned \in OwnedEntries /\ \A d : GoodOwned(leases, d, NoOwned)
      /\ NoRoute \in RouteEntries /\ Granted(leases, NoRoute.gen, NoRoute.holder, NoRoute.expires)
      /\ 0 \in Gens /\ \A d : GoodEntry(leases, d, 0)
  BY NothingGood, Zenon
<1>4. DaemonsGood
  BY <1>3, IdleKeepaliveGood, Zenon DEF Init, DaemonsGood
<1>5. CallsGood
  BY IdleGood DEF Init, CallsGood
<1>6. TypeOK
  BY <1>1, <1>3, IdleKeepaliveGood, IdleGood
     DEF Init, TypeOK, Generation, Rows, RouteEntries, OwnedEntries, Calls, Keepalives
<1> QED
  BY <1>2, <1>4, <1>5, <1>6 DEF IInv

\* Every step of every handler, daemon and of time keeps the invariant.
LEMMA NextGood == IInv /\ [Next]_vars => IInv'
<1> SUFFICES ASSUME IInv, [Next]_vars PROVE IInv'
  OBVIOUS
<1>1. CASE UNCHANGED vars
  <2>1. LeasesGrow
    BY <1>1, LeasesStay DEF vars
  <2>2. DaemonsGood' /\ CallsGood'
    BY <1>1, <2>1, DaemonsStay, CallsStay DEF vars, daemonVars
  <2> QED
    BY <1>1, <2>1, <2>2, Assemble, Typed, Zenon DEF vars, daemonVars
<1>2. ASSUME NEW h \in Handlers, HandlerStep(h) PROVE IInv'
  <2>1. CASE StartResolve(h) \/ ReadCache(h) \/ Lookup(h) \/ CacheLookup(h) \/ PolicyLookup(h)
    BY <2>1, StartResolveGood, ReadCacheGood, LookupGood, CacheLookupGood, PolicyLookupGood
  <2>2. CASE Acquire(h) \/ AcquireUnanswered(h) \/ RpcFails(h) \/ CacheLease(h) \/ ServeLocally(h)
    BY <2>2, AcquireGood, AcquireUnansweredGood, RpcFailsGood, CacheLeaseGood, ServeLocallyGood
  <2>3. CASE CheckOwned(h) \/ Put(h) \/ Read(h) \/ Redirect(h) \/ RedirectLookup(h)
    BY <2>3, CheckOwnedGood, PutGood, ReadGood, RedirectGood, RedirectLookupGood
  <2>4. CASE CacheRedirectLookup(h) \/ Refresh(h) \/ FollowRedirect(h) \/ GiveUp(h)
    BY <2>4, CacheRedirectLookupGood, RefreshGood, FollowRedirectGood, GiveUpGood
  <2>5. CASE \E k \in Handlers : Serve(h, k)
    BY <2>5, ServeGood
  <2> QED
    BY <1>2, <2>1, <2>2, <2>3, <2>4, <2>5 DEF HandlerStep
<1>3. ASSUME NEW d \in Daemons, DaemonStep(d) PROVE IInv'
  BY <1>3, KeepaliveScanGood, KeepaliveSendGood, KeepaliveFailsGood, KeepaliveCheckGood,
     KeepaliveApplyGood, DaemonRestartGood DEF DaemonStep
<1>4. CASE Tick
  BY <1>4, TickGood
<1> QED
  BY <1>1, <1>2, <1>3, <1>4 DEF Next

\* The inductive invariant holds in every reachable state.
THEOREM Invariance == Spec => []IInv
BY InitGood, NextGood, PTL DEF Spec

\* The variables keep their types; in particular no more generations are
\* granted than there are units of time (acquire appends at most one at a time).
THEOREM TypesKept == Spec => []TypeOK
<1>1. IInv => TypeOK
  BY DEF IInv
<1> QED
  BY <1>1, Invariance, PTL

\* What any daemon remembers or passes on was granted (cache_route_from_lookup,
\* cache_route_from_lease, refresh_route_from_redirect).
THEOREM CopiesStayTruthful == Spec => []CopiesTruthful
<1>1. IInv => CopiesTruthful
  BY ZenonT(40) DEF IInv, CopiesTruthful, Truthful, DaemonsGood, CallsGood, GoodCall, GoodLease, GoodOwned,
         Granted, Generation
<1> QED
  BY <1>1, Invariance, PTL

\* A lease begins when the one before it is over, whatever was renewed, revived
\* or acquired twice meanwhile (acquire, keepalive).
THEOREM LeasesNeverOverlap == Spec => []LeasesDisjoint
<1>1. IInv => LeasesDisjoint
  BY ZenonT(40) DEF IInv, GoodRows, LeasesDisjoint, Generation
<1> QED
  BY <1>1, Invariance, PTL

\* At most one daemon is the home: an owned lease that has not run out is the
\* one in the Global Store, since a later generation would have begun after its
\* end (ensure_home_lease, cache_route_from_lease).
THEOREM OwnersHoldTheLease == Spec => []OwnerHoldsLease
<1>1. IInv => OwnerHoldsLease
  <2> SUFFICES ASSUME IInv, NEW d \in Daemons, UsableOwned(owned[d], clock)
               PROVE  Active /\ Holder = d /\ owned[d].gen = Generation
    BY DEF OwnerHoldsLease
  <2> DEFINE g == owned[d].gen
             n == Len(leases)
  <2>1. /\ clock \in Nat /\ GoodRows(leases, clock) /\ owned[d] \in OwnedEntries
        /\ GoodOwned(leases, d, owned[d])
    <3>1. clock \in 1 .. MaxTime /\ GoodRows(leases, clock) /\ owned \in [Daemons -> OwnedEntries]
      BY Typed, Zenon
    <3>2. GoodOwned(leases, d, owned[d])
      BY Zenon DEF IInv, DaemonsGood
    <3> QED
      BY ONLY <3>1, <3>2, LeaseAssumption, d \in Daemons
  <2>2. leases \in Seq(Rows)
    BY <2>1 DEF GoodRows
  <2>3. n \in Nat /\ g \in Nat /\ owned[d].expires \in Nat
    BY <2>1, <2>2, LenProperties, LeaseAssumption DEF OwnedEntries, Gens, Times
  <2>4. g \in 1 .. n /\ leases[g].holder = d /\ clock < owned[d].expires /\ owned[d].expires <= leases[g].until
    BY <2>1, <2>3 DEF UsableOwned, Unexpired, GoodOwned, Granted
  <2>5. \A i \in 1 .. n : leases[i].from \in Nat /\ leases[i].until \in Nat
    BY <2>1, RowAt
  <2>6. clock < leases[g].until
    BY <2>1, <2>3, <2>4, <2>5
  <2>7. g = n
    <3> SUFFICES ASSUME g # n PROVE FALSE
      OBVIOUS
    <3>1. g \in 1 .. n - 1 /\ g + 1 \in 1 .. n
      BY <2>3, <2>4
    <3>2. leases[g].until <= leases[g + 1].from /\ leases[g + 1].from <= clock
      BY <2>1, <3>1 DEF GoodRows
    <3> QED
      BY <2>1, <2>4, <2>5, <2>6, <3>1, <3>2
  <2> QED
    BY <2>3, <2>4, <2>6, <2>7 DEF Active, Holder, Generation, Expires
<1> QED
  BY <1>1, Invariance, PTL

\* A home serves a request only under a lease of the fence's generation that was
\* its own and not over when the request began (ensure_home_lease).
THEOREM RequestsServedUnderLease == Spec => []AcceptedUnderLease
<1>1. IInv => AcceptedUnderLease
  <2> SUFFICES ASSUME IInv, NEW h \in Handlers, At(h, "put")
               PROVE  LET g == call[h].fence.gen IN
                      /\ g \in 1 .. Generation
                      /\ leases[g].holder = DaemonOf[h]
                      /\ call[h].now < leases[g].until
    BY Zenon DEF AcceptedUnderLease
  <2>1. Accepted(leases, h, call[h])
    BY Typed, Zenon DEF GoodCall, At
  <2>2. leases \in Seq(Rows) /\ call[h].fence.gen \in Nat
    BY Typed, LeaseAssumption DEF GoodRows, Calls, Fences, Gens
  <2>3. Len(leases) \in Nat
    BY <2>2, LenProperties, Zenon
  <2> QED
    BY <2>1, <2>2, <2>3 DEF Accepted, Generation
<1> QED
  BY <1>1, Invariance, PTL

\* The authority entry of a daemon carries a generation that was the daemon's
\* own, also when it was rebound to a new one (cache_route_from_lease, put_if_absent).
THEOREM EntriesUnderOwnLease == Spec => []EntryUnderOwnLease
<1>1. IInv => EntryUnderOwnLease
  BY DEF IInv, DaemonsGood, GoodEntry, EntryUnderOwnLease, Generation
<1> QED
  BY <1>1, Invariance, PTL
=============================================================================

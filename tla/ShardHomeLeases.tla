-------------------------- MODULE ShardHomeLeases --------------------------
(***************************************************************************)
(* The home of a shard of byte artifacts: the lease that the Global Store  *)
(* keeps (shard_home_lease_repository.py) and the copies of it on which    *)
(* daemons act (byte_artifact_route_resolver.cc).  A daemon that receives  *)
(* a put resolves the home, sends the request there with a fence (lease    *)
(* generation and holder), and the home serves it only under the           *)
(* generation it owns.                                                     *)
(*                                                                         *)
(* One shard and one artifact of it.  Shards share no state.               *)
(***************************************************************************)
EXTENDS Naturals, Sequences

CONSTANTS
  Daemons,
  Eligible,           \* daemons started with shard_home_eligible
  Handlers,           \* RPC handler threads
  DaemonOf,           \* [Handlers -> Daemons]
  LeaseTtl,           \* lease_ttl, the same at every daemon
  RouteStaleness,     \* route_staleness_budget
  KeepaliveInterval,  \* keepalive_interval
  MaxTime,            \* bound: last instant of a behaviour
  MaxCalls,           \* bound: requests that begin
  Null

ASSUME LeaseAssumption ==
  /\ Eligible \subseteq Daemons
  /\ DaemonOf \in [Handlers -> Daemons]
  /\ LeaseTtl \in Nat \ {0}
  /\ RouteStaleness \in Nat
  /\ KeepaliveInterval \in Nat
  /\ MaxTime \in Nat \ {0}
  /\ MaxCalls \in Nat
  /\ Null \notin Daemons /\ Null \notin Handlers

VARIABLES
  clock,      \* time, as the Global Store and the daemons read it
  leases,     \* the row of shard_home_leases, with the rows it replaced
  route,      \* [Daemons -> shard_routes entry]
  owned,      \* [Daemons -> owned_shard_leases entry]
  entry,      \* [Daemons -> lease_generation of the authority entry, 0 for none]
  call,       \* [Handlers -> state of the handler]
  keepalive,  \* [Daemons -> state of the keepalive task]
  calls       \* requests begun so far

daemonVars == <<route, owned, entry>>
vars == <<clock, leases, route, owned, entry, call, keepalive, calls>>

-----------------------------------------------------------------------------
(* The row.  Its lease_generation is the length of leases: only an           *)
(* acquisition that changes the token raises it.  A token is a fresh uuid, so *)
(* it is identified with the generation it was made for.                      *)

Generation == Len(leases)

Holder == leases[Generation].holder

Expires == leases[Generation].until

\* ShardHomeLeaseService._is_active.
Active == Generation > 0 /\ Expires > clock

\* What an RPC says of the row; a lookup does not carry the token.
Seen(L, token) ==
  [gen |-> Len(L), holder |-> L[Len(L)].holder, expires |-> L[Len(L)].until, token |-> token]

NoLease == [gen |-> 0, holder |-> Null, expires |-> 0, token |-> FALSE]

Renewed == [leases EXCEPT ![Generation].until = clock + LeaseTtl]

\* Mutant of Acquired: a lease that ends within one unit of time is taken over.
AcquiredEarly(d) ==
  IF Active /\ (Holder = d \/ Expires > clock + 1)
    THEN IF Holder = d THEN Renewed ELSE leases
    ELSE Append(leases, [holder |-> d, from |-> clock, until |-> clock + LeaseTtl])

\* acquire: refresh one's own live lease, take over one that has run out (or
\* create the row), and leave another's live lease alone.
Acquired(d) ==
  IF Active
    THEN IF Holder = d THEN Renewed ELSE leases
    ELSE Append(leases, [holder |-> d, from |-> clock, until |-> clock + LeaseTtl])

-----------------------------------------------------------------------------
(* The daemon's tables, each operator under one hold of state_.mu.           *)

NoRoute == [gen |-> 0, holder |-> Null, expires |-> 0, refreshed |-> 0]

NoOwned == [gen |-> 0, expires |-> 0, last |-> 0]

\* An expiry of 0 (UnixEpoch) means that none is known.
Unexpired(e, now) == e.expires = 0 \/ e.expires > now

UsableRoute(r, now) ==
  /\ r.gen # 0
  /\ Unexpired(r, now)
  /\ now <= r.refreshed + RouteStaleness

UsableOwned(o, now) == o.gen # 0 /\ Unexpired(o, now)

RouteFrom(l, now) ==
  [gen |-> l.gen, holder |-> l.holder, expires |-> l.expires, refreshed |-> now]

CacheRouteFromLookup(d, l, now) ==
  /\ route' = [route EXCEPT ![d] = RouteFrom(l, now)]
  /\ owned' = [owned EXCEPT ![d] = IF l.holder # d THEN NoOwned ELSE @]
  /\ UNCHANGED entry

\* The generation under which the daemon last knew itself to be the home.
PreviousLocalGeneration(d) ==
  IF route[d].holder = d THEN route[d].gen ELSE owned[d].gen

\* Mutant of Rebound: also when the new generation is another daemon's.
ReboundToAny(d, l) ==
  IF PreviousLocalGeneration(d) \notin {0, l.gen} /\ entry[d] # 0 THEN l.gen ELSE entry[d]

\* The authority entry moves along to a new generation of one's own.
Rebound(d, l) ==
  IF /\ l.holder = d
     /\ PreviousLocalGeneration(d) \notin {0, l.gen}
     /\ entry[d] # 0
    THEN l.gen
    ELSE entry[d]

OwnedFromEndless(d, l, now) ==
  IF l.holder # d THEN NoOwned
  ELSE IF l.token /\ Unexpired(l, now)
    THEN [gen |-> l.gen, expires |-> 0, last |-> now]
    ELSE owned[d]

OwnedFrom(d, l, now) ==
  IF l.holder # d THEN NoOwned
  ELSE IF l.token /\ Unexpired(l, now)
    THEN [gen |-> l.gen, expires |-> l.expires, last |-> now]
    ELSE owned[d]

CacheRouteFromLease(d, l, now) ==
  /\ route' = [route EXCEPT ![d] = RouteFrom(l, now)]
  /\ entry' = [entry EXCEPT ![d] = Rebound(d, l)]
  /\ owned' = [owned EXCEPT ![d] = OwnedFrom(d, l, now)]

-----------------------------------------------------------------------------
(* Handlers.  A requester resolves the route ("cache" to "acquired"), has the *)
(* request served ("routed", "served") and follows one redirect ("refresh").  *)
(* A home checks its lease ("owned" to "acquired") and serves ("put") or      *)
(* redirects.  now is read once, when the handler starts; a read that the     *)
(* requester serves itself has a time of its own, and began keeps the other.  *)

FenceOf(x) == [gen |-> x.gen, holder |-> x.holder]

IdleCall ==
  [pc |-> "idle", now |-> 0, began |-> 0, attempt |-> 0, fence |-> FenceOf(NoLease),
   lease |-> NoLease, target |-> Null, peer |-> Null]

At(h, pc) == call[h].pc = pc

\* A home has a requester; a requester that serves itself is its own peer.
IsHome(h) == call[h].peer # Null

Become(h, c) == call' = [call EXCEPT ![h] = c]

Routed(h, x) ==
  [call[h] EXCEPT !.pc = "routed", !.fence = FenceOf(x), !.lease = NoLease]

StartResolve(h) ==
  /\ At(h, "idle")
  /\ calls < MaxCalls
  /\ calls' = calls + 1
  /\ Become(h, [IdleCall EXCEPT !.pc = "cache", !.now = clock])
  /\ UNCHANGED <<clock, leases, daemonVars, keepalive>>

ReadCache(h) ==
  /\ At(h, "cache")
  /\ LET r == route[DaemonOf[h]] IN
     Become(h, IF UsableRoute(r, call[h].now)
                 THEN Routed(h, r)
                 ELSE [call[h] EXCEPT !.pc = "lookup"])
  /\ UNCHANGED <<clock, leases, daemonVars, keepalive, calls>>

\* batch_get_shard_home_leases answers with live leases only.
Lookup(h) ==
  /\ At(h, "lookup")
  /\ Become(h, IF Active
                 THEN [call[h] EXCEPT !.pc = "looked", !.lease = Seen(leases, FALSE)]
                 ELSE [call[h] EXCEPT !.pc = "policy"])
  /\ UNCHANGED <<clock, leases, daemonVars, keepalive, calls>>

CacheLookup(h) ==
  /\ At(h, "looked")
  /\ CacheRouteFromLookup(DaemonOf[h], call[h].lease, call[h].now)
  /\ Become(h, Routed(h, call[h].lease))
  /\ UNCHANGED <<clock, leases, keepalive, calls>>

\* Whom acquire_shard_home_lease_with_policy acquires for: the holder of a live
\* lease keeps it, else the best of the eligible workers registered now.
PolicyTargets(d) == IF Active THEN {d} \cap Eligible ELSE Eligible

PolicyLookup(h) ==
  LET d == DaemonOf[h] IN
  /\ At(h, "policy")
  /\ IF Active /\ Holder # d
       THEN Become(h, [call[h] EXCEPT !.pc = "acquired", !.lease = Seen(leases, FALSE)])
       ELSE \E t \in PolicyTargets(d) :
              Become(h, [call[h] EXCEPT !.pc = "acquire", !.target = t])
  /\ UNCHANGED <<clock, leases, daemonVars, keepalive, calls>>

\* The token comes back only to who acquired for the holder.
Acquire(h) ==
  LET t == call[h].target
      L == Acquired(t) IN
  /\ At(h, "acquire")
  /\ leases' = L
  /\ Become(h, [call[h] EXCEPT !.pc = "acquired", !.target = Null,
                               !.lease = Seen(L, L[Len(L)].holder = t)])
  /\ UNCHANGED <<clock, daemonVars, keepalive, calls>>

\* Resolution fails; a home without a lease redirects.
Failed(h) ==
  IF IsHome(h) THEN [call[h] EXCEPT !.pc = "redirect", !.target = Null] ELSE IdleCall

AcquireUnanswered(h) ==
  /\ At(h, "acquire")
  /\ leases' = Acquired(call[h].target)
  /\ Become(h, Failed(h))
  /\ UNCHANGED <<clock, daemonVars, keepalive, calls>>

RpcFails(h) ==
  /\ call[h].pc \in {"lookup", "policy", "acquire"}
  /\ Become(h, Failed(h))
  /\ UNCHANGED <<clock, leases, daemonVars, keepalive, calls>>

\* is_global_store_lease_active for the daemon itself, and the fence test.
Accepts(h, l) ==
  /\ l.token
  /\ Unexpired(l, call[h].now)
  /\ l.holder = DaemonOf[h]
  /\ l.gen = call[h].fence.gen

CacheLease(h) ==
  LET l == call[h].lease IN
  /\ At(h, "acquired")
  /\ CacheRouteFromLease(DaemonOf[h], l, call[h].now)
  /\ Become(h, IF ~IsHome(h) THEN Routed(h, l)
               ELSE [call[h] EXCEPT !.lease = NoLease,
                                    !.pc = IF Accepts(h, l) THEN "put" ELSE "redirect"])
  /\ UNCHANGED <<clock, leases, keepalive, calls>>

-----------------------------------------------------------------------------
(* The request at the home.                                                  *)

Serve(h, k) ==
  /\ h # k
  /\ At(h, "idle") /\ At(k, "routed")
  /\ call[k].fence.holder = DaemonOf[h]
  /\ call' = [call EXCEPT ![h] = [IdleCall EXCEPT !.pc = "owned", !.now = clock,
                                                  !.fence = call[k].fence, !.peer = k],
                          ![k].pc = "served", ![k].peer = h]
  /\ UNCHANGED <<clock, leases, daemonVars, keepalive, calls>>

\* The requester is the home: a put keeps its time, a read calls the handler
\* of the home, which takes the time again.
ServeLocally(h) ==
  /\ At(h, "routed")
  /\ call[h].fence.holder = DaemonOf[h]
  /\ \/ Become(h, [call[h] EXCEPT !.pc = "owned", !.peer = h])
     \/ Become(h, [call[h] EXCEPT !.pc = "owned", !.peer = h,
                                  !.now = clock, !.began = call[h].now])
  /\ UNCHANGED <<clock, leases, daemonVars, keepalive, calls>>

\* Mutant of CheckOwned: any owned lease will do, also one that ran out.
CheckOwnedAnyAge(h) ==
  LET d == DaemonOf[h] IN
  /\ At(h, "owned")
  /\ Become(h, [call[h] EXCEPT
       !.pc = IF owned[d].gen = 0 THEN "policy"
              ELSE IF owned[d].gen = call[h].fence.gen THEN "put" ELSE "redirect"])
  /\ UNCHANGED <<clock, leases, daemonVars, keepalive, calls>>

\* ensure_home_lease up to its RPC: a lease that ran out is dropped.
CheckOwned(h) ==
  LET d == DaemonOf[h] IN
  /\ At(h, "owned")
  /\ IF UsableOwned(owned[d], call[h].now)
       THEN /\ Become(h, [call[h] EXCEPT
                  !.pc = IF owned[d].gen = call[h].fence.gen THEN "put" ELSE "redirect"])
            /\ UNCHANGED owned
       ELSE /\ Become(h, [call[h] EXCEPT !.pc = "policy"])
            /\ owned' = [owned EXCEPT ![d] = NoOwned]
  /\ UNCHANGED <<clock, leases, route, entry, keepalive, calls>>

\* The home is done with h and its requester, if it still waits, goes on as c.
Reply(h, c) ==
  LET k == call[h].peer IN
  call' = [x \in Handlers |->
    IF x = k /\ (k = h \/ (At(k, "served") /\ call[k].peer = h)) THEN c
    ELSE IF x = h THEN IdleCall
    ELSE call[x]]

LocalPut(h) == call[h].peer = h /\ call[h].began = 0
LocalRead(h) == call[h].peer = h /\ call[h].began # 0

\* put_if_absent writes the authority entry under the accepted generation,
\* replacing one of another generation.
Put(h) ==
  /\ At(h, "put") /\ ~LocalRead(h)
  /\ entry' = [entry EXCEPT ![DaemonOf[h]] = call[h].fence.gen]
  /\ Reply(h, IdleCall)
  /\ UNCHANGED <<clock, leases, route, owned, keepalive, calls>>

\* batch_exists, batch_get and batch_touch_ttl leave the entry as it is.
Read(h) ==
  /\ At(h, "put") /\ ~LocalPut(h)
  /\ Reply(h, IdleCall)
  /\ UNCHANGED <<clock, leases, daemonVars, keepalive, calls>>

\* A redirect is followed once; a local put does not follow it.
Redirected(h, f) ==
  LET k == call[h].peer IN
  IF call[k].attempt = 0 /\ ~LocalPut(h)
    THEN Reply(h, [call[k] EXCEPT !.pc = "refresh", !.attempt = 1, !.fence = f,
                                  !.lease = NoLease, !.peer = Null, !.began = 0,
                                  !.now = IF k = h THEN call[h].began ELSE @])
    ELSE Reply(h, IdleCall)

\* populate_redirect: the cached route unless it ran out.
Redirect(h) ==
  LET r == route[DaemonOf[h]] IN
  /\ At(h, "redirect")
  /\ IF r.gen # 0 /\ Unexpired(r, call[h].now)
       THEN Redirected(h, FenceOf(r))
       ELSE Become(h, [call[h] EXCEPT !.pc = "redirectLookup"])
  /\ UNCHANGED <<clock, leases, daemonVars, keepalive, calls>>

RedirectLookup(h) ==
  /\ At(h, "redirectLookup")
  /\ \/ Active /\ Become(h, [call[h] EXCEPT !.pc = "redirectLooked",
                                            !.lease = Seen(leases, FALSE)])
     \/ Reply(h, IdleCall)
  /\ UNCHANGED <<clock, leases, daemonVars, keepalive, calls>>

CacheRedirectLookup(h) ==
  /\ At(h, "redirectLooked")
  /\ CacheRouteFromLookup(DaemonOf[h], call[h].lease, call[h].now)
  /\ Redirected(h, FenceOf(call[h].lease))
  /\ UNCHANGED <<clock, leases, keepalive, calls>>

\* refresh_route_from_redirect: the Global Store is asked first.
Refresh(h) ==
  /\ At(h, "refresh")
  /\ Active
  /\ Become(h, [call[h] EXCEPT !.pc = "looked", !.lease = Seen(leases, FALSE)])
  /\ UNCHANGED <<clock, leases, daemonVars, keepalive, calls>>

\* No answer, or no live lease: the redirect itself becomes the route, with no
\* known expiry.
FollowRedirect(h) ==
  LET d == DaemonOf[h]
      f == call[h].fence IN
  /\ At(h, "refresh")
  /\ CacheRouteFromLookup(d, [gen |-> f.gen, holder |-> f.holder, expires |-> 0], call[h].now)
  /\ Become(h, Routed(h, f))
  /\ UNCHANGED <<clock, leases, keepalive, calls>>

\* No endpoint for the holder, or its RPC fails or runs out of time.
GiveUp(h) ==
  /\ call[h].pc \in {"routed", "served"}
  /\ Become(h, IdleCall)
  /\ UNCHANGED <<clock, leases, daemonVars, keepalive, calls>>

-----------------------------------------------------------------------------
(* keepalive_owned_shard_leases_once.                                        *)

IdleKeepalive == [pc |-> "idle", now |-> 0, gen |-> 0, lease |-> NoLease]

KeepaliveAt(d, pc) == keepalive[d].pc = pc

KeepaliveBecome(d, k) == keepalive' = [keepalive EXCEPT ![d] = k]

KeepaliveDue(o) ==
  \/ clock >= o.last + KeepaliveInterval
  \/ o.expires <= clock + KeepaliveInterval

KeepaliveScan(d) ==
  /\ KeepaliveAt(d, "idle")
  /\ UsableOwned(owned[d], clock)
  /\ KeepaliveDue(owned[d])
  /\ KeepaliveBecome(d, [IdleKeepalive EXCEPT !.pc = "send", !.now = clock,
                                              !.gen = owned[d].gen])
  /\ UNCHANGED <<clock, leases, daemonVars, call, calls>>

\* The Global Store knows a lease by its token and revives no expired one.
Revivable(gen) == Active /\ Generation = gen

KeepaliveSend(d) ==
  LET gen == keepalive[d].gen IN
  /\ KeepaliveAt(d, "send")
  /\ leases' = IF Revivable(gen) THEN Renewed ELSE leases
  /\ \/ KeepaliveBecome(d, [keepalive[d] EXCEPT
          !.pc = "answered",
          !.lease = IF Revivable(gen) THEN Seen(Renewed, TRUE) ELSE NoLease])
     \/ KeepaliveBecome(d, IdleKeepalive)
  /\ UNCHANGED <<clock, daemonVars, call, calls>>

KeepaliveFails(d) ==
  /\ KeepaliveAt(d, "send")
  /\ KeepaliveBecome(d, IdleKeepalive)
  /\ UNCHANGED <<clock, leases, daemonVars, call, calls>>

\* An answer about a lease that the daemon no longer owns is dropped, a refusal
\* ends the ownership.
KeepaliveCheck(d) ==
  LET k == keepalive[d] IN
  /\ KeepaliveAt(d, "answered")
  /\ IF owned[d].gen = k.gen /\ k.lease.gen = k.gen /\ k.lease.holder = d
       THEN KeepaliveBecome(d, [k EXCEPT !.pc = "apply"])
       ELSE KeepaliveBecome(d, IdleKeepalive)
  /\ owned' = IF owned[d].gen = k.gen /\ k.lease.gen # k.gen
                THEN [owned EXCEPT ![d] = NoOwned] ELSE owned
  /\ UNCHANGED <<clock, leases, route, entry, call, calls>>

KeepaliveApply(d) ==
  /\ KeepaliveAt(d, "apply")
  /\ CacheRouteFromLease(d, keepalive[d].lease, keepalive[d].now)
  /\ KeepaliveBecome(d, IdleKeepalive)
  /\ UNCHANGED <<clock, leases, call, calls>>

-----------------------------------------------------------------------------
Tick ==
  /\ clock < MaxTime
  /\ clock' = clock + 1
  /\ UNCHANGED <<leases, daemonVars, call, keepalive, calls>>

\* A daemon keeps nothing of this over a restart.
DaemonRestart(d) ==
  /\ route' = [route EXCEPT ![d] = NoRoute]
  /\ owned' = [owned EXCEPT ![d] = NoOwned]
  /\ entry' = [entry EXCEPT ![d] = 0]
  /\ call' = [h \in Handlers |-> IF DaemonOf[h] = d THEN IdleCall ELSE call[h]]
  /\ keepalive' = [keepalive EXCEPT ![d] = IdleKeepalive]
  /\ UNCHANGED <<clock, leases, calls>>

\* The clock starts after the Unix epoch, which stands for "no time".
Init ==
  /\ clock = 1
  /\ leases = <<>>
  /\ route = [d \in Daemons |-> NoRoute]
  /\ owned = [d \in Daemons |-> NoOwned]
  /\ entry = [d \in Daemons |-> 0]
  /\ call = [h \in Handlers |-> IdleCall]
  /\ keepalive = [d \in Daemons |-> IdleKeepalive]
  /\ calls = 0

HandlerStep(h) ==
  \/ StartResolve(h) \/ ReadCache(h) \/ Lookup(h) \/ CacheLookup(h)
  \/ PolicyLookup(h) \/ Acquire(h) \/ AcquireUnanswered(h) \/ RpcFails(h)
  \/ CacheLease(h) \/ ServeLocally(h) \/ CheckOwned(h) \/ Put(h) \/ Read(h)
  \/ Redirect(h) \/ RedirectLookup(h) \/ CacheRedirectLookup(h)
  \/ Refresh(h) \/ FollowRedirect(h) \/ GiveUp(h)
  \/ \E k \in Handlers : Serve(h, k)

DaemonStep(d) ==
  \/ KeepaliveScan(d) \/ KeepaliveSend(d) \/ KeepaliveFails(d)
  \/ KeepaliveCheck(d) \/ KeepaliveApply(d) \/ DaemonRestart(d)

Next ==
  \/ \E h \in Handlers : HandlerStep(h)
  \/ \E d \in Daemons : DaemonStep(d)
  \/ Tick

Spec == Init /\ [][Next]_vars

-----------------------------------------------------------------------------
(* Properties.                                                               *)

Times == 0 .. MaxTime + LeaseTtl
Gens == 0 .. MaxTime
Fences == [gen : Gens, holder : Daemons \cup {Null}]
Leases == [gen : Gens, holder : Daemons \cup {Null}, expires : Times, token : BOOLEAN]
Pcs ==
  {"idle", "cache", "lookup", "looked", "policy", "acquire", "acquired", "routed", "served",
   "owned", "put", "redirect", "redirectLookup", "redirectLooked", "refresh"}

\* The types of the variables.  At most one lease begins per unit of time.
TypeOK ==
  /\ clock \in 1 .. MaxTime
  /\ calls \in 0 .. MaxCalls
  /\ leases \in Seq([holder : Daemons, from : Times, until : Times])
  /\ Generation \in Gens
  /\ route \in [Daemons -> [gen : Gens, holder : Daemons \cup {Null},
                            expires : Times, refreshed : Times]]
  /\ owned \in [Daemons -> [gen : Gens, expires : Times, last : Times]]
  /\ entry \in [Daemons -> Gens]
  /\ call \in [Handlers -> [pc : Pcs, now : Times, began : Times, attempt : {0, 1}, fence : Fences,
                            lease : Leases, target : Daemons \cup {Null},
                            peer : Handlers \cup {Null}]]
  /\ keepalive \in [Daemons -> [pc : {"idle", "send", "answered", "apply"}, now : Times,
                                gen : Gens, lease : Leases]]

\* What is remembered of generation gen is what the Global Store granted: the
\* holder was the same, and the expiry is not later than the granted one.
Truthful(gen, holder, expires) ==
  gen # 0 =>
    /\ gen <= Generation
    /\ holder = leases[gen].holder
    /\ expires <= leases[gen].until

\* No route, owned lease, fence or answer still under way names a wrong holder
\* for its generation or a time that was not granted, however late it is applied
\* and whichever daemon passed it on (cache_route_from_lookup,
\* cache_route_from_lease, refresh_route_from_redirect).
CopiesTruthful ==
  /\ \A d \in Daemons :
       /\ Truthful(route[d].gen, route[d].holder, route[d].expires)
       /\ Truthful(owned[d].gen, d, owned[d].expires)
       /\ Truthful(keepalive[d].lease.gen, keepalive[d].lease.holder, keepalive[d].lease.expires)
  /\ \A h \in Handlers :
       /\ Truthful(call[h].fence.gen, call[h].fence.holder, 0)
       /\ Truthful(call[h].lease.gen, call[h].lease.holder, call[h].lease.expires)

\* An owned lease that its daemon would use now is the lease in the Global
\* Store: at any time at most one daemon is the home (ensure_home_lease).
OwnerHoldsLease ==
  \A d \in Daemons :
    UsableOwned(owned[d], clock) => Active /\ Holder = d /\ owned[d].gen = Generation

\* A request is accepted only by a daemon that held the fence's generation at
\* some instant since the request began, although the handler compares with the
\* time at which it began (ensure_home_lease).
AcceptedUnderLease ==
  \A h \in Handlers : At(h, "put") =>
    LET g == call[h].fence.gen IN
    /\ g \in 1 .. Generation
    /\ leases[g].holder = DaemonOf[h]
    /\ call[h].now < leases[g].until

\* A lease begins when the one before it is over (acquire, keepalive).
LeasesDisjoint ==
  \A g \in 1 .. Generation - 1 : leases[g].until <= leases[g + 1].from

\* An authority entry carries a generation that its daemon held, also when it
\* was moved to a new generation (cache_route_from_lease, put_if_absent).
EntryUnderOwnLease ==
  \A d \in Daemons : entry[d] # 0 => entry[d] <= Generation /\ leases[entry[d]].holder = d
=============================================================================

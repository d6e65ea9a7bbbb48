------------------------------ MODULE LipLeases ------------------------------
(***************************************************************************)
(* Leases in place: an artifact that stays in the device memory of its     *)
(* owner, lent to the daemon as an IPC region.                             *)
(*                                                                         *)
(* LipManager keeps one lease per artifact, view and device (here: one     *)
(* key), a map from registration ids to keys, the routable export of the   *)
(* lease, the staged exports made from copies of it and the replica id the *)
(* Global Store gave out.  These live under three mutexes, so a commit, a  *)
(* publication, a revocation and the sweep interleave between them.  Every *)
(* export holds a reference of the region in IpcRegionRegistry, which      *)
(* takes a region out in two critical sections with a callback in between. *)
(***************************************************************************)
EXTENDS Naturals, FiniteSets

CONSTANTS Regs,      \* registration ids of commits of the same key
          Tokens,    \* staged exports
          MaxCalls,  \* bound on the publications, exports and removals begun
          None

VARIABLES view,      \* the key names a view of the artifact
          lease,     \* leases_ of the key: its registration and its expiry
          regmap,    \* reg_to_key_: the registrations that name the key
          quiesced,  \* quiesced_ holds the key
          routable,  \* routable_exports_ holds a record
          rid,       \* routable_replica_ids_ holds a replica id
          gs,        \* the Global Store lists the replica
          staged,    \* exports_
          pc,        \* where the call of each registration or token is
          refs,      \* refcount of the region
          region,    \* "live", "retiring" or "gone"
          why,       \* why the region is being taken out
          sweeper,   \* the lease sweep between its two locks
          owner,     \* the owner process is alive
          calls

lipVars == <<view, lease, regmap, quiesced, routable, rid, gs, staged, sweeper>>
regionVars == <<refs, region, why, owner>>
vars == <<lipVars, regionVars, pc, calls>>

Callers == Regs \cup Tokens
Active == lease # None /\ lease.exp # "over"
At(c, l) == pc[c] = l
Goto(c, l) == pc' = [pc EXCEPT ![c] = l]
Call == calls < MaxCalls /\ calls' = calls + 1

TypeOK == /\ lease = None \/ lease \in [reg : Regs, exp : {"never", "live", "over"}]
          /\ regmap \subseteq Regs /\ staged \subseteq Tokens
          /\ {view, quiesced, routable, rid, gs, owner} \subseteq BOOLEAN
          /\ refs \in Nat /\ region \in {"live", "retiring", "gone"}
          /\ why \in {None, "idle", "force", "exit"}
          /\ sweeper \in {"idle", "erased"} /\ calls \in 0..MaxCalls
          /\ pc \in [Callers -> {"idle", "checked", "committed", "found", "acquired", "held",
                                 "attach", "erased", "copying", "view", "viewAcquired", "viewPut",
                                 "done"}]

Init == /\ view \in BOOLEAN /\ lease = None /\ regmap = {} /\ quiesced = FALSE /\ routable = FALSE
        /\ rid = FALSE /\ gs = FALSE /\ staged = {} /\ sweeper = "idle"
        /\ refs = 0 /\ region = "live" /\ why = None /\ owner = TRUE
        /\ pc = [c \in Callers |-> "idle"] /\ calls = 0

(***************************************************************************)
(* IpcRegionRegistry                                                       *)
(***************************************************************************)

\* acquire refuses a region that is gone or being taken out.
Acquire == region = "live" /\ refs' = refs + 1 /\ UNCHANGED <<region, why, owner>>

\* release of a region that is gone fails, and is ignored.
Release == /\ refs' = IF region = "gone" \/ refs = 0 THEN refs ELSE refs - 1
           /\ UNCHANGED <<region, why, owner>>

\* unregister_region and sweep_expired mark the region first: without force
\* only when nobody holds a reference.
RegionRetire(force) ==
    /\ region = "live" /\ (force \/ refs = 0) /\ Call
    /\ region' = "retiring" /\ why' = IF force THEN "force" ELSE "idle"
    /\ UNCHANGED <<lipVars, refs, owner, pc>>

\* The owner dies; handle_pid_exit takes its regions out.
OwnerExit ==
    /\ owner /\ Call
    /\ owner' = FALSE
    /\ region' = IF region = "live" THEN "retiring" ELSE region
    /\ why' = "exit"
    /\ UNCHANGED <<lipVars, refs, pc>>

\* After the callback the record is erased, whatever its refcount is now.
RegionErase ==
    /\ region = "retiring"
    /\ region' = "gone" /\ refs' = 0
    /\ UNCHANGED <<lipVars, why, owner, pc, calls>>

(***************************************************************************)
(* Commit, keepalive, expiry.                                              *)
(***************************************************************************)

\* commit_lease_in_place: no active lease on the device, ...
CommitCheck(r) ==
    /\ At(r, "idle") /\ ~view
    /\ IF Active THEN Goto(r, "done") ELSE Goto(r, "checked")
    /\ UNCHANGED <<lipVars, regionVars, calls>>

\* ... then, under the mutex again, put_lease.
CommitPut(r) ==
    /\ At(r, "checked") /\ Goto(r, "committed")
    /\ \E exp \in {"never", "live"} : lease' = [reg |-> r, exp |-> exp]
    /\ regmap' = regmap \cup {r}
    /\ UNCHANGED <<view, quiesced, routable, rid, gs, staged, sweeper, regionVars, calls>>

\* commit_routable_view_lease_in_place is commit and publication in one:
\* the quiesced mark and the lease of the key are looked at, ...
ViewCheck(r) ==
    /\ At(r, "idle") /\ view
    /\ IF quiesced \/ Active THEN Goto(r, "done") ELSE Goto(r, "view")
    /\ UNCHANGED <<lipVars, regionVars, calls>>

\* ... the reference is taken, ...
ViewAcquire(r) ==
    /\ At(r, "view")
    /\ \/ Acquire /\ Goto(r, "viewAcquired")
       \/ region # "live" /\ Goto(r, "done") /\ UNCHANGED regionVars
    /\ UNCHANGED <<lipVars, calls>>

\* ... the keys are registered and the lease put, or the reference goes back, ...
ViewPut(r) ==
    /\ At(r, "viewAcquired")
    /\ \/ /\ \E exp \in {"never", "live"} : lease' = [reg |-> r, exp |-> exp]
          /\ regmap' = regmap \cup {r}
          /\ Goto(r, "viewPut") /\ UNCHANGED regionVars
       \/ Release /\ Goto(r, "done") /\ UNCHANGED <<lease, regmap>>
    /\ UNCHANGED <<view, quiesced, routable, rid, gs, staged, sweeper, calls>>

\* ... and the export is inserted under its own mutex.
ViewInsert(r) ==
    /\ At(r, "viewPut") /\ Goto(r, "attach")
    /\ routable' = TRUE
    /\ UNCHANGED <<view, lease, regmap, quiesced, rid, gs, staged, sweeper, regionVars, calls>>

\* keepalive_lease and extend_ttl_for_artifact set a new expiry.
Extend ==
    /\ lease # None /\ lease.exp # "never"
    /\ lease' = [lease EXCEPT !.exp = "live"] /\ lease # lease'
    /\ Call
    /\ UNCHANGED <<view, regmap, quiesced, routable, rid, gs, staged, sweeper, regionVars, pc>>

Expire ==
    /\ lease # None /\ lease.exp = "live"
    /\ lease' = [lease EXCEPT !.exp = "over"]
    /\ UNCHANGED <<view, regmap, quiesced, routable, rid, gs, staged, sweeper, regionVars, pc, calls>>

Quiesce ==
    /\ ~quiesced /\ quiesced' = TRUE /\ Call
    /\ UNCHANGED <<view, lease, regmap, routable, rid, gs, staged, sweeper, regionVars, pc>>

(***************************************************************************)
(* Exports                                                                 *)
(***************************************************************************)

\* publish_committed_lease_routable: the lease and an existing export are
\* looked up under their mutexes, ...
PublishFind(r) ==
    /\ At(r, "committed") /\ Call
    /\ r \in regmap /\ Active
    /\ Goto(r, IF routable THEN "attach" ELSE "found")
    /\ UNCHANGED <<lipVars, regionVars>>

\* ... a reference of the region is taken for the lifetime of the export, ...
PublishAcquire(r) ==
    /\ At(r, "found")
    /\ \/ Acquire /\ Goto(r, "acquired")
       \/ region # "live" /\ Goto(r, "committed") /\ UNCHANGED regionVars
    /\ UNCHANGED <<lipVars, calls>>

\* ... and the record is inserted, replacing what is there; or the
\* communicator refuses the memory and the reference goes back.
PublishInsert(r) ==
    /\ At(r, "acquired")
    /\ \/ routable' = TRUE /\ Goto(r, "attach") /\ UNCHANGED regionVars
       \/ Release /\ Goto(r, "committed") /\ UNCHANGED routable
    /\ UNCHANGED <<view, lease, regmap, quiesced, rid, gs, staged, sweeper, calls>>

\* The caller registers the replica with the Global Store and attaches the
\* id, which is dropped when the registration is gone.
Attach(r) ==
    /\ At(r, "attach") /\ Goto(r, "committed")
    /\ gs' = TRUE
    /\ rid' = (rid \/ r \in regmap)
    /\ UNCHANGED <<view, lease, regmap, quiesced, routable, staged, sweeper, regionVars, calls>>

\* create_staged_export works on a copy of the lease.
StageAcquire(t) ==
    /\ At(t, "idle") /\ Call
    /\ ~quiesced /\ Active /\ Acquire
    /\ Goto(t, "acquired")
    /\ UNCHANGED lipVars

\* A chunk that cannot be registered ends the call; only its keys go back.
StageInsert(t) ==
    /\ At(t, "acquired")
    /\ \/ staged' = staged \cup {t} /\ Goto(t, "held")
       \/ Goto(t, "done") /\ UNCHANGED staged
    /\ UNCHANGED <<view, lease, regmap, quiesced, routable, rid, gs, sweeper, regionVars, calls>>

\* release_staged_export: the record goes first, then the reference.
StageRelease(t) ==
    /\ t \in staged /\ staged' = staged \ {t}
    /\ Goto(t, "done") /\ Release
    /\ UNCHANGED <<view, lease, regmap, quiesced, routable, rid, gs, sweeper, calls>>

\* copy_active_lease_range_to_host and copy_to_new_coalesced hold the
\* region only while they copy.
CopyBegin(t) ==
    /\ At(t, "idle") /\ Call
    /\ Active /\ Acquire /\ Goto(t, "copying")
    /\ UNCHANGED lipVars

CopyEnd(t) ==
    /\ At(t, "copying") /\ Goto(t, "done") /\ Release
    /\ UNCHANGED <<lipVars, calls>>

(***************************************************************************)
(* Revocation and sweep.                                                   *)
(***************************************************************************)

\* revoke_by_registration_id: the lease of the key, this registration and
\* the quiesced mark go in one critical section ...
RevokeErase(r) ==
    /\ At(r, "committed") /\ r \in regmap /\ Call
    /\ lease' = None /\ regmap' = regmap \ {r} /\ quiesced' = FALSE
    /\ Goto(r, "erased")
    /\ UNCHANGED <<view, routable, rid, gs, staged, sweeper, regionVars>>

\* What both revocation and sweep do afterwards: take the export out, tell
\* the Global Store, unregister the keys and give the reference back.
DropExport ==
    /\ routable' = FALSE /\ rid' = FALSE
    /\ gs' = (gs /\ ~rid)
    /\ IF routable THEN Release ELSE UNCHANGED regionVars

RevokeDrop(r) ==
    /\ At(r, "erased") /\ Goto(r, "done")
    /\ DropExport
    /\ UNCHANGED <<view, lease, regmap, quiesced, staged, sweeper, calls>>

\* sweep_expired_and_dead_pids: the expired lease, or that of a dead owner.
SweepErase ==
    /\ sweeper = "idle" /\ lease # None /\ (lease.exp = "over" \/ ~owner)
    /\ lease' = None /\ regmap' = {} /\ quiesced' = FALSE
    /\ sweeper' = "erased"
    /\ UNCHANGED <<view, routable, rid, gs, staged, regionVars, pc, calls>>

SweepDrop ==
    /\ sweeper = "erased" /\ sweeper' = "idle"
    /\ DropExport
    /\ UNCHANGED <<view, lease, regmap, quiesced, staged, pc, calls>>

\* revoke_commit_lease_if_owner_matches leaves the routable export alone.
RevokeByOwner ==
    /\ lease # None /\ Call
    /\ lease' = None /\ regmap' = {} /\ quiesced' = FALSE
    /\ UNCHANGED <<view, routable, rid, gs, staged, sweeper, regionVars, pc>>

Next ==
    \/ \E r \in Regs : \/ CommitCheck(r) \/ CommitPut(r) \/ PublishFind(r) \/ PublishAcquire(r)
                       \/ PublishInsert(r) \/ ViewCheck(r) \/ ViewAcquire(r) \/ ViewPut(r)
                       \/ ViewInsert(r) \/ Attach(r) \/ RevokeErase(r) \/ RevokeDrop(r)
    \/ \E t \in Tokens : StageAcquire(t) \/ StageInsert(t) \/ StageRelease(t)
                         \/ CopyBegin(t) \/ CopyEnd(t)
    \/ Extend \/ Expire \/ Quiesce \/ SweepErase \/ SweepDrop \/ RevokeByOwner
    \/ OwnerExit \/ RegionErase \/ \E force \in BOOLEAN : RegionRetire(force)

Spec == Init /\ [][Next]_vars

(***************************************************************************)
(* Properties                                                              *)
(***************************************************************************)

Holders == (IF routable THEN 1 ELSE 0) + Cardinality(staged)
           + Cardinality({c \in Callers : pc[c] \in {"acquired", "copying", "viewAcquired", "viewPut"}})

\* The refcount of a region covers every export that reads the memory, and
\* every one being made, however publications, revocations and sweeps of
\* the same key overlap: an export never loses its reference to another.
RefsCover == region # "gone" => refs >= Holders

\* A region that goes because it is idle or expired has no export left, in
\* spite of the callback that runs between marking and erasing it.
IdleRegionUnused == region = "gone" /\ why = "idle" => Holders = 0

\* A lease can be kept alive and revoked by its owner: the registration it
\* was committed under still names it.
LeaseReachable == lease # None => lease.reg \in regmap
=============================================================================

--------------------------- MODULE BindingValues ---------------------------
(***************************************************************************)
(* The current value of an owned binding and its publication.              *)
(*                                                                         *)
(* A binding is a piece of device memory with one record.  Calls replace   *)
(* its current value (an artifact commit, an update that is frozen or      *)
(* sealed, a refill, a promotion) in two critical sections of the record's *)
(* mutex with Global Store calls, hashing or the write itself in between.  *)
(* A new artifact value is given a publication token, and a publication    *)
(* walks through six owners: the publication registry, the capability, the *)
(* lease in place, the Global Store, a lifecycle lease, and the guard in   *)
(* the record that keeps the published value from being replaced.          *)
(***************************************************************************)
EXTENDS Naturals, Sequences, FiniteSetsExt

CONSTANTS Callers,   \* threads that serve calls
          Ops,       \* the calls they make
          MaxGen,    \* bound on the values a binding has had
          MaxPubs,   \* bound on the publications minted
          MaxCalls,  \* bound on the calls begun
          MaxJobs,   \* bound on the promotion jobs
          None

VARIABLES rec,       \* BindingRegistry::Record
          mem,       \* what the memory holds
          call,      \* the call of each thread: where it is and what it read
          jobs,      \* the promotion jobs, in the order they were made
          pubs,      \* records_ of the publication registry
          latest,    \* latest_by_subject_
          scope,     \* the value each token was minted for
          caps,      \* publications whose capability is live
          lease,     \* the lease in place of each artifact
          replica,   \* publications the Global Store lists
          life,      \* publications with a lifecycle lease
          ending,    \* lifecycle leases whose finalizer is still to run
          expiring,  \* tokens whose retention lease saw them unpublished
          calls

pubVars == <<pubs, latest, scope, caps, expiring>>
outVars == <<lease, replica, life, ending>>
vars == <<rec, mem, call, jobs, pubVars, outVars, calls>>

Pubs == 1..MaxPubs
\* An artifact of the store, and the one a promotion makes of the content.
Artifacts == {"msa", "mi2"}
Idle == [at |-> "idle", val |-> 0, art |-> None, pub |-> 0, epoch |-> 0, job |-> 0,
         copy |-> None]
Record == [present : BOOLEAN, closed : BOOLEAN, retired : BOOLEAN,
           state : {"allocated", "mutable", "dirty", "local", "artifact"},
           val : Nat, gen : Nat, art : Artifacts \cup {None}, idx : BOOLEAN,
           token : 0..MaxPubs, guard : 0..MaxPubs, epoch : Nat, epochs : Nat,
           verif : {"none", "local", "pending", "verified", "failed"}]
Publication == [val : Nat, art : Artifacts, done : BOOLEAN, life : BOOLEAN, bound : BOOLEAN]

TypeOK ==
    /\ rec \in Record
    /\ mem \in Artifacts \cup {"user", "torn"}
    /\ \A j \in DOMAIN jobs :
         jobs[j] \in [val : Nat, st : {"pending", "running", "done", "failed", "canceled"}]
    /\ \A p \in Pubs : pubs[p] = None \/ pubs[p] \in Publication
    /\ latest \in [Artifacts -> 0..MaxPubs] /\ DOMAIN call = Callers
    /\ {caps, replica, life, ending, expiring} \subseteq SUBSET Pubs
    /\ lease \in [Artifacts -> 0..(MaxPubs + 1)]

\* The lease a promotion commits has a registration id of its own.
Promoted == MaxPubs + 1

Init ==
    /\ rec = [present |-> TRUE, closed |-> FALSE, retired |-> FALSE, state |-> "allocated",
              val |-> 0, gen |-> 0, art |-> None, idx |-> FALSE, token |-> 0, guard |-> 0,
              epoch |-> 0, epochs |-> 0, verif |-> "none"]
    /\ mem = "user" /\ call = [c \in Callers |-> Idle] /\ jobs = <<>>
    /\ pubs = [p \in Pubs |-> None] /\ latest = [a \in Artifacts |-> 0]
    /\ scope = [p \in Pubs |-> None] /\ caps = {} /\ expiring = {}
    /\ lease = [a \in Artifacts |-> 0] /\ replica = {} /\ life = {} /\ ending = {}
    /\ calls = 0

(***************************************************************************)
(* The record.                                                             *)
(***************************************************************************)

\* ensure_binding_current_value_not_published: the guard names the value.
Guarded(r) == r.guard # 0 /\ scope[r.guard].val = r.val
Replaceable(r) == ~r.closed /\ r.state \notin {"mutable", "dirty"} /\ ~Guarded(r)

\* What every change of the current value clears.
Cleared(r) == [r EXCEPT !.art = None, !.idx = FALSE, !.token = 0, !.val = 0, !.epoch = 0,
                        !.verif = "none"]
Artifact(r, a, idx) ==
    [Cleared(r) EXCEPT !.state = "artifact", !.art = a, !.idx = idx, !.val = r.gen + 1,
                       !.gen = r.gen + 1, !.verif = IF a = "mi2" THEN "verified" ELSE "local"]
Local(r, verif) ==
    [Cleared(r) EXCEPT !.state = "local", !.val = r.gen + 1, !.gen = r.gen + 1, !.verif = verif]
Mutable(r) ==
    [Cleared(r) EXCEPT !.state = "mutable", !.epochs = r.epochs + 1, !.epoch = r.epochs + 1]
Dirty(r) == [Cleared(r) EXCEPT !.state = "dirty"]

\* promotion_job_ids_by_value_: the last job made for the value.
JobOf(v) == LET of == {j \in DOMAIN jobs : jobs[j].val = v} IN IF of = {} THEN 0 ELSE Max(of)

\* cancel_promotion_jobs_for_value.
Canceled(v) ==
    IF v # 0 /\ JobOf(v) # 0 /\ jobs[JobOf(v)].st \in {"pending", "running"}
    THEN [jobs EXCEPT ![JobOf(v)].st = "canceled"] ELSE jobs

At(c, l) == call[c].at = l
Goto(c, l) == call' = [call EXCEPT ![c].at = l]
\* A call returns; the job of a promotion still has to record how it went.
Return(c, how) ==
    call' = [call EXCEPT ![c] = IF call[c].job # 0 THEN [@ EXCEPT !.at = how] ELSE Idle]
Begin(c, op, first) ==
    /\ op \in Ops /\ At(c, "idle") /\ calls < MaxCalls /\ calls' = calls + 1
    /\ call' = [call EXCEPT ![c] = first]
BeginOnValue(c, op, a) ==
    Begin(c, op, [Idle EXCEPT !.at = op, !.val = rec.val, !.art = a])
Unmoved(c) == call[c].val = 0 \/ rec.val = call[c].val

(***************************************************************************)
(* Calls that replace the current value.                                   *)
(***************************************************************************)

CommitBegin(c) ==
    /\ rec.present /\ Replaceable(rec) /\ rec.gen < MaxGen
    /\ BeginOnValue(c, "commit", "msa")
    /\ UNCHANGED <<rec, mem, jobs, pubVars, outVars>>

\* commit_binding_artifact gives mark_ready_artifact no canonical index.
\* Mutant: the second hold does not look at the guard again.
CommitEndUnguarded(c) ==
    /\ At(c, "commit")
    /\ jobs' = Canceled(call[c].val)
    /\ IF rec.present /\ Unmoved(c)
       THEN rec' = Artifact(rec, call[c].art, FALSE) /\ Goto(c, "mint")
       ELSE rec' = rec /\ Return(c, "fail")
    /\ UNCHANGED <<mem, pubVars, outVars, calls>>

CommitEnd(c) ==
    /\ At(c, "commit")
    /\ jobs' = Canceled(call[c].val)
    /\ IF Replaceable(rec) /\ Unmoved(c)
       THEN rec' = Artifact(rec, call[c].art, FALSE) /\ Goto(c, "mint")
       ELSE rec' = rec /\ Return(c, "fail")
    /\ UNCHANGED <<mem, pubVars, outVars, calls>>

UpdateBegin(c) ==
    /\ rec.present /\ Replaceable(rec) /\ rec.gen < MaxGen
    /\ BeginOnValue(c, "update", None)
    /\ UNCHANGED <<rec, mem, jobs, pubVars, outVars>>

UpdateEnd(c) ==
    /\ At(c, "update")
    /\ jobs' = Canceled(call[c].val)
    /\ rec' = IF Replaceable(rec) /\ Unmoved(c) THEN Mutable(rec) ELSE rec
    /\ Return(c, "fail")
    /\ UNCHANGED <<mem, pubVars, outVars, calls>>

\* The client writes while the binding is mutable.
ClientWrite ==
    /\ rec.state = "mutable" /\ mem # "user" /\ mem' = "user"
    /\ UNCHANGED <<rec, call, jobs, pubVars, outVars, calls>>

\* freeze_binding_current_value and seal_binding check the epoch they are
\* given, work, and check it again; a wrong epoch makes the binding dirty.
CloseUpdateBegin(c, op, e) ==
    /\ rec.present /\ ~rec.closed /\ rec.state = "mutable"
    /\ IF e = rec.epoch
       THEN Begin(c, op, [Idle EXCEPT !.at = op, !.epoch = e]) /\ rec' = rec
       ELSE /\ op \in Ops /\ At(c, "idle") /\ calls < MaxCalls /\ calls' = calls + 1
            /\ rec' = Dirty(rec) /\ UNCHANGED call
    /\ UNCHANGED <<mem, jobs, pubVars, outVars>>

CloseUpdateEnd(c, op, verif) ==
    /\ At(c, op)
    /\ rec' = IF rec.closed \/ rec.state # "mutable" THEN rec
              ELSE IF rec.epoch # call[c].epoch THEN Dirty(rec)
              ELSE IF Guarded(rec) THEN rec ELSE Local(rec, verif)
    /\ Return(c, "fail")
    /\ UNCHANGED <<mem, jobs, pubVars, outVars, calls>>

Freeze(c) ==
    \/ \E e \in 1..rec.epochs : CloseUpdateBegin(c, "freeze", e)
    \/ CloseUpdateEnd(c, "freeze", "pending")
Seal(c) ==
    \/ \E e \in 1..rec.epochs : CloseUpdateBegin(c, "seal", e)
    \/ CloseUpdateEnd(c, "seal", "verified")

\* A refill looks at the value, ...
RefillBegin(c, a) ==
    /\ rec.present /\ ~rec.closed /\ rec.state # "mutable" /\ ~Guarded(rec) /\ rec.gen < MaxGen
    /\ BeginOnValue(c, "refill", a)
    /\ UNCHANGED <<rec, mem, jobs, pubVars, outVars>>

\* ... resolves the artifact and plans, ...
RefillPlan(c) ==
    /\ At(c, "refill")
    /\ Goto(c, "planned")
    /\ UNCHANGED <<rec, mem, jobs, pubVars, outVars, calls>>

\* ... prepares the execution and starts to write into the memory, ...
RefillWrite(c) ==
    /\ At(c, "planned")
    /\ mem' = "torn" /\ Goto(c, "writing")
    /\ UNCHANGED <<rec, jobs, pubVars, outVars, calls>>

\* ... which fails and leaves the binding dirty, whatever its value is by now,
RefillFail(c) ==
    /\ At(c, "writing") \/ At(c, "written")
    /\ rec' = Dirty(rec) /\ Return(c, "fail")
    /\ UNCHANGED <<mem, jobs, pubVars, outVars, calls>>

RefillWritten(c) ==
    /\ At(c, "writing")
    /\ mem' = IF \E d \in Callers \ {c} : At(d, "writing") THEN "torn" ELSE call[c].art
    /\ Goto(c, "written")
    /\ UNCHANGED <<rec, jobs, pubVars, outVars, calls>>

\* ... or hands the memory to the client as a mutable binding, ...
RefillMutable(c) ==
    /\ At(c, "written")
    /\ jobs' = Canceled(call[c].val)
    /\ rec' = IF rec.closed THEN Dirty(rec)
              ELSE IF Unmoved(c) /\ ~Guarded(rec) THEN Mutable(rec) ELSE rec
    /\ Return(c, "fail")
    /\ UNCHANGED <<mem, pubVars, outVars, calls>>

\* ... or makes the artifact the current value.
RefillEnd(c) ==
    /\ At(c, "written")
    /\ IF Unmoved(c) /\ ~Guarded(rec)
       THEN rec' = Artifact(rec, call[c].art, TRUE) /\ Goto(c, "mint")
       ELSE rec' = rec /\ Return(c, "fail")
    /\ UNCHANGED <<mem, jobs, pubVars, outVars, calls>>

\* A call is refused between its critical sections: the value has live
\* contributions, ...
Contributed(c) ==
    /\ call[c].at \in {"commit", "update", "refill", "promote", "known"} /\ call[c].val # 0
    /\ Return(c, "fail")
    /\ UNCHANGED <<rec, mem, jobs, pubVars, outVars, calls>>

\* ... or a plan, a layout or a descriptor cannot be had.
Refused(c) ==
    /\ call[c].at \in {"refill", "planned", "promote", "known", "freeze", "seal"}
    /\ Return(c, "fail")
    /\ UNCHANGED <<rec, mem, jobs, pubVars, outVars, calls>>

(***************************************************************************)
(* Promotion: the content becomes an artifact of its own.                  *)
(***************************************************************************)

Promotable == /\ rec.present /\ ~rec.closed /\ rec.state \notin {"mutable", "dirty"} /\ rec.val # 0
PromoteFirst(j) ==
    [Idle EXCEPT !.at = IF rec.art = "mi2" THEN "known" ELSE "promote", !.val = rec.val, !.job = j]

PromoteBegin(c) ==
    /\ Promotable
    /\ Begin(c, "promote", PromoteFirst(0))
    /\ UNCHANGED <<rec, mem, jobs, pubVars, outVars>>

\* The value is already such an artifact: it may only lack its token.
PromoteKnown(c) ==
    /\ At(c, "known")
    /\ IF rec.val # call[c].val THEN rec' = rec /\ Return(c, "fail")
       ELSE /\ rec' = [rec EXCEPT !.verif = "verified"]
            /\ IF rec.token = 0 /\ rec.idx THEN Goto(c, "mint") ELSE Return(c, "ok")
    /\ UNCHANGED <<mem, jobs, pubVars, outVars, calls>>

PromoteLease(c) ==
    /\ At(c, "promote")
    /\ IF lease["mi2"] # 0 THEN Return(c, "fail") /\ UNCHANGED lease
       ELSE lease' = [lease EXCEPT !["mi2"] = Promoted] /\ Goto(c, "promoted")
    /\ UNCHANGED <<rec, mem, jobs, pubVars, replica, life, ending, calls>>

PromoteEnd(c) ==
    /\ At(c, "promoted")
    /\ IF rec.val = call[c].val /\ ~Guarded(rec)
       THEN /\ rec' = [rec EXCEPT !.art = "mi2", !.idx = TRUE, !.token = 0, !.state = "artifact",
                                  !.epoch = 0, !.verif = "verified"]
            /\ Goto(c, "mint")
       ELSE rec' = rec /\ Return(c, "fail")
    /\ UNCHANGED <<mem, jobs, pubVars, outVars, calls>>

\* start_promote_binding_current_value: a value that has a job, or is verified
\* and has an artifact, needs none; ...
JobBegin(c) ==
    /\ Promotable /\ JobOf(rec.val) = 0
    /\ rec.verif # "verified"
    /\ BeginOnValue(c, "job", None)
    /\ UNCHANGED <<rec, mem, jobs, pubVars, outVars>>

\* ... the job is made under another lock, whatever there is by then.
JobStart(c) ==
    /\ At(c, "job") /\ Len(jobs) < MaxJobs
    /\ jobs' = Append(jobs, [val |-> call[c].val, st |-> "pending"])
    /\ rec' = IF rec.val = call[c].val THEN [rec EXCEPT !.verif = "pending"] ELSE rec
    /\ Return(c, "ok")
    /\ UNCHANGED <<mem, pubVars, outVars, calls>>

JobRun(c, j) ==
    /\ At(c, "idle") /\ jobs[j].st = "pending"
    /\ jobs' = [jobs EXCEPT ![j].st = "running"]
    /\ call' = [call EXCEPT ![c] =
                   IF Promotable /\ rec.val = jobs[j].val THEN PromoteFirst(j)
                   ELSE [Idle EXCEPT !.at = "fail", !.val = jobs[j].val, !.job = j]]
    /\ UNCHANGED <<rec, mem, pubVars, outVars, calls>>

\* The end of the job, unless it was canceled meanwhile.
JobEnd(c) ==
    LET j == call[c].job IN
    /\ j # 0 /\ call[c].at \in {"ok", "fail"}
    /\ LET live == jobs[j].st = "running"
           failed == live /\ At(c, "fail")
       IN /\ jobs' = IF live THEN [jobs EXCEPT ![j].st = IF failed THEN "failed" ELSE "done"] ELSE jobs
          /\ rec' = IF failed /\ rec.present /\ rec.val = jobs[j].val
                    THEN [rec EXCEPT !.verif = "failed"] ELSE rec
    /\ call' = [call EXCEPT ![c] = Idle]
    /\ UNCHANGED <<mem, pubVars, outVars, calls>>

(***************************************************************************)
(* The publication token of a new artifact value.                          *)
(***************************************************************************)

Publishable(r) == r.present /\ ~r.closed /\ ~r.retired /\ r.state = "artifact"
\* validate_publication_snapshot_unchanged.
Unchanged(v, a) == ~rec.closed /\ ~rec.retired /\ rec.state = "artifact"
                   /\ rec.val = v /\ rec.art = a /\ ~Guarded(rec)

MintSnapshot(c) ==
    /\ At(c, "mint")
    /\ IF Unchanged(rec.val, rec.art) /\ rec.val # 0 /\ rec.idx
       THEN call' = [call EXCEPT ![c].at = "remember", ![c].val = rec.val, ![c].art = rec.art]
       ELSE Return(c, "fail")
    /\ UNCHANGED <<rec, mem, jobs, pubVars, outVars, calls>>

\* remember_target_publication: a record, the latest of its subject, and a
\* capability.
MintRemember(c, p) ==
    /\ At(c, "remember") /\ scope[p] = None /\ \A q \in 1..(p - 1) : scope[q] # None
    /\ scope' = [scope EXCEPT ![p] = [val |-> call[c].val, art |-> call[c].art]]
    /\ pubs' = [pubs EXCEPT ![p] = [val |-> call[c].val, art |-> call[c].art, done |-> FALSE,
                                    life |-> FALSE, bound |-> FALSE]]
    /\ latest' = [latest EXCEPT ![call[c].art] = p]
    /\ caps' = caps \cup {p}
    /\ call' = [call EXCEPT ![c].at = "store", ![c].pub = p]
    /\ UNCHANGED <<rec, mem, jobs, expiring, outVars, calls>>

MintRefused(c) ==
    /\ At(c, "remember") /\ Return(c, "fail")
    /\ UNCHANGED <<rec, mem, jobs, pubVars, outVars, calls>>

\* A record leaves the registry, and so does its subject if it is the latest.
Dropped(p) ==
    /\ pubs' = [pubs EXCEPT ![p] = None]
    /\ latest' = [a \in Artifacts |-> IF latest[a] = p /\ pubs[p] # None THEN 0 ELSE latest[a]]

\* terminalize, clear_binding_published_guard and release_capability.
Forget(p) ==
    /\ Dropped(p)
    /\ caps' = IF pubs[p] # None THEN caps \ {p} ELSE caps
    /\ UNCHANGED <<scope, expiring>>
Unguarded(r, p) == IF r.present /\ r.guard = p THEN [r EXCEPT !.guard = 0] ELSE r

MintStore(c) ==
    /\ At(c, "store")
    /\ IF Unchanged(call[c].val, call[c].art)
       THEN /\ rec' = [rec EXCEPT !.token = call[c].pub]
            /\ Return(c, "ok") /\ UNCHANGED pubVars
       ELSE /\ Forget(call[c].pub) /\ Return(c, "fail")
            /\ rec' = IF pubs[call[c].pub] # None THEN Unguarded(rec, call[c].pub) ELSE rec
    /\ UNCHANGED <<mem, jobs, outVars, calls>>

(***************************************************************************)
(* Publication.                                                            *)
(***************************************************************************)

\* A client that was given the token publishes: the record is looked up.
PublishBegin(c, p) ==
    /\ pubs[p] # None /\ \A d \in Callers : ~(At(d, "store") /\ call[d].pub = p)
    /\ Begin(c, "publish", [Idle EXCEPT !.at = "found", !.pub = p, !.copy = pubs[p]])
    /\ UNCHANGED <<rec, mem, jobs, pubVars, outVars>>

\* A first operation id is written back: the copy read before is inserted.
PublishBind(c) ==
    LET p == call[c].pub IN
    /\ At(c, "found") /\ ~call[c].copy.bound
    /\ pubs' = [pubs EXCEPT ![p] = [call[c].copy EXCEPT !.bound = TRUE]]
    /\ latest' = [latest EXCEPT ![scope[p].art] = p]
    /\ Goto(c, "bound")
    /\ UNCHANGED <<rec, mem, jobs, scope, caps, expiring, outVars, calls>>

\* validate_binding_current_value_against_publication, and the subject's
\* latest publication is this one.
Admissible(p) ==
    /\ Publishable(rec) /\ rec.val = scope[p].val /\ rec.art = scope[p].art
    /\ Guarded(rec) => rec.guard = p
    /\ latest[scope[p].art] = p /\ pubs[p] # None

\* The capability is admitted and the value checked; a publication that is
\* done, or whose lease exists, is answered from what there is.
PublishAdmit(c) ==
    LET p == call[c].pub IN
    /\ At(c, "found") \/ At(c, "bound")
    /\ IF p \in caps /\ Admissible(p) /\ ~call[c].copy.done /\ lease[scope[p].art] = 0
       THEN Goto(c, "admitted") ELSE Return(c, "fail")
    /\ UNCHANGED <<rec, mem, jobs, pubVars, outVars, calls>>

PublishLease(c) ==
    LET p == call[c].pub
        a == scope[p].art IN
    /\ At(c, "admitted")
    /\ IF lease[a] = 0 THEN lease' = [lease EXCEPT ![a] = p] /\ Goto(c, "leased")
       ELSE UNCHANGED lease /\ Return(c, "fail")
    /\ UNCHANGED <<rec, mem, jobs, pubVars, replica, life, ending, calls>>

Revoked(p) == [a \in Artifacts |-> IF lease[a] = p THEN 0 ELSE lease[a]]

\* LipRollback and ReplicaRollback.
Rollback(c) ==
    /\ lease' = Revoked(call[c].pub) /\ replica' = replica \ {call[c].pub}
    /\ Return(c, "fail")

PublishRegister(c) ==
    /\ At(c, "leased")
    /\ replica' = replica \cup {call[c].pub} /\ Goto(c, "registered")
    /\ UNCHANGED <<rec, mem, jobs, pubVars, lease, life, ending, calls>>

\* The worker has no identity, the Global Store refuses, the barrier times
\* out, or no lifecycle lease is given.
PublishRefused(c) ==
    /\ At(c, "leased") \/ At(c, "registered")
    /\ Rollback(c)
    /\ UNCHANGED <<rec, mem, jobs, pubVars, life, ending, calls>>

PublishUse(c) ==
    /\ At(c, "registered")
    /\ life' = life \cup {call[c].pub} /\ Goto(c, "used")
    /\ UNCHANGED <<rec, mem, jobs, pubVars, lease, replica, ending, calls>>

\* release_lease: the finalizer runs, once.
Released(p) == /\ life' = life \ {p}
               /\ ending' = IF p \in life THEN ending \cup {p} ELSE ending

\* mark_binding_published: the guard is set if the value is still current.
PublishMark(c) ==
    LET p == call[c].pub IN
    /\ At(c, "used")
    /\ IF rec.present /\ rec.val = scope[p].val /\ (Guarded(rec) => rec.guard = p)
       THEN /\ rec' = [rec EXCEPT !.guard = p] /\ Goto(c, "marked")
            /\ UNCHANGED outVars
       ELSE rec' = rec /\ Released(p) /\ Rollback(c)
    /\ UNCHANGED <<mem, jobs, pubVars, calls>>

PublishDone(c) ==
    LET p == call[c].pub IN
    /\ At(c, "marked")
    /\ IF pubs[p] # None
       THEN /\ pubs' = [pubs EXCEPT ![p].done = TRUE, ![p].life = TRUE]
            /\ Return(c, "ok") /\ UNCHANGED <<rec, outVars>>
       ELSE rec' = Unguarded(rec, p) /\ Released(p) /\ Rollback(c) /\ UNCHANGED pubs
    /\ UNCHANGED <<mem, jobs, latest, scope, caps, expiring, calls>>

\* RetirePublishedReplica drains and revokes the lease of the artifact, ...
RetireDrain(c, a) ==
    /\ lease[a] # 0
    /\ Begin(c, "retire", [Idle EXCEPT !.at = "drained", !.pub = lease[a] % Promoted])
    /\ lease' = [lease EXCEPT ![a] = 0] /\ replica' = replica \ {lease[a]}
    /\ UNCHANGED <<rec, mem, jobs, pubVars, life, ending>>

\* ... then ends the publication the lease was registered for.
RetireEnd(c) ==
    LET p == call[c].pub IN
    /\ At(c, "drained")
    /\ IF p = 0 \/ pubs[p] = None THEN UNCHANGED <<rec, pubVars, life, ending>>
       ELSE /\ Forget(p) /\ rec' = Unguarded(rec, p)
            /\ IF pubs[p].life THEN Released(p) ELSE UNCHANGED <<life, ending>>
    /\ Return(c, "ok")
    /\ UNCHANGED <<mem, jobs, lease, replica, calls>>

\* The owner process exits or is released: the finalizer takes the replica
\* back, ends the publication and revokes the lease.
OwnerExit(p) ==
    /\ "exit" \in Ops /\ p \in life /\ Released(p)
    /\ UNCHANGED <<rec, mem, call, jobs, pubVars, lease, replica, calls>>

Finalize(p) ==
    /\ p \in ending
    /\ ending' = ending \ {p} /\ replica' = replica \ {p} /\ lease' = Revoked(p)
    /\ IF pubs[p] = None THEN UNCHANGED <<rec, pubVars>> ELSE Forget(p) /\ rec' = Unguarded(rec, p)
    /\ UNCHANGED <<mem, call, jobs, life, calls>>

\* The retention lease of a token ends: the finalizer sees it unpublished, ...
TokenExpires(p) ==
    /\ "expire" \in Ops /\ p \in caps \ expiring
    /\ pubs[p] # None => ~pubs[p].done
    /\ expiring' = expiring \cup {p}
    /\ UNCHANGED <<rec, mem, call, jobs, pubs, latest, scope, caps, outVars, calls>>

\* ... and erases it, and its capability.
TokenErased(p) ==
    /\ p \in expiring /\ expiring' = expiring \ {p}
    /\ Dropped(p) /\ caps' = caps \ {p}
    /\ UNCHANGED <<rec, mem, call, jobs, scope, outVars, calls>>

\* The registry prunes an expired record, or evicts one at its capacity.
Prune(p) ==
    /\ "expire" \in Ops /\ pubs[p] # None /\ ~pubs[p].done
    /\ Dropped(p)
    /\ UNCHANGED <<rec, mem, call, jobs, scope, caps, expiring, outVars, calls>>

\* close_control, which leaves the token and the guard as they are; the
\* record goes with its last reference.
Close(gone) ==
    /\ "close" \in Ops /\ rec.present
    /\ rec' = [rec EXCEPT !.closed = TRUE, !.present = ~gone]
    /\ UNCHANGED <<mem, call, jobs, pubVars, outVars, calls>>

\* retire_retained.
RetireRetained ==
    /\ "close" \in Ops /\ rec.present /\ ~rec.retired
    /\ rec' = [rec EXCEPT !.retired = TRUE, !.token = 0, !.guard = 0]
    /\ UNCHANGED <<mem, call, jobs, pubVars, outVars, calls>>

Values(c) ==
    \/ CommitBegin(c) \/ CommitEnd(c) \/ UpdateBegin(c) \/ UpdateEnd(c) \/ Freeze(c) \/ Seal(c)
    \/ (\E a \in Artifacts : RefillBegin(c, a)) \/ RefillPlan(c) \/ RefillWrite(c) \/ RefillFail(c) \/ RefillWritten(c) \/ RefillMutable(c)
    \/ RefillEnd(c) \/ Contributed(c) \/ Refused(c)
    \/ PromoteBegin(c) \/ PromoteKnown(c) \/ PromoteLease(c) \/ PromoteEnd(c)
    \/ JobBegin(c) \/ JobStart(c) \/ (\E j \in DOMAIN jobs : JobRun(c, j)) \/ JobEnd(c)
    \/ MintSnapshot(c) \/ (\E p \in Pubs : MintRemember(c, p)) \/ MintRefused(c) \/ MintStore(c)

Publishing(c) ==
    \/ \E p \in Pubs : PublishBegin(c, p)
    \/ PublishBind(c) \/ PublishAdmit(c) \/ PublishLease(c) \/ PublishRegister(c)
    \/ PublishRefused(c) \/ PublishUse(c) \/ PublishMark(c) \/ PublishDone(c)
    \/ (\E a \in Artifacts : RetireDrain(c, a)) \/ RetireEnd(c)

Next ==
    \/ \E c \in Callers : Values(c) \/ Publishing(c)
    \/ ClientWrite \/ (\E gone \in BOOLEAN : Close(gone)) \/ RetireRetained
    \/ \E p \in Pubs : OwnerExit(p) \/ Finalize(p) \/ TokenExpires(p) \/ TokenErased(p) \/ Prune(p)

Spec == Init /\ [][Next]_vars

(***************************************************************************)
(* Properties.                                                             *)
(***************************************************************************)

\* A token in the record was minted for the value the record has now,
\* although it is minted outside the record's mutex.
TokenCurrent == rec.token # 0 => scope[rec.token] = [val |-> rec.val, art |-> rec.art]

\* A published value is not replaced by another one; a refill that had begun
\* before and fails may only declare it dirty.
GuardKeepsValueStep ==
    Guarded(rec) /\ (rec'.val # rec.val \/ rec'.art # rec.art) => rec'.state = "dirty"

\* A replica of the Global Store has somebody who will take it back: its
\* lifecycle lease, the finalizer of that lease, or the call that made it.
ReplicaOwned ==
    \A p \in replica : p \in life \cup ending \/ \E c \in Callers : call[c].pub = p

\* "Make `BeginBindingUpdate`, refill, direct artifact commit, freeze, seal,
\* dirty transition, close, and other mutation paths reject while an active
\* published current value exists": while the guard is up and the Global Store
\* lists the replica, its memory is not being rewritten.
PublishedIntact == Guarded(rec) /\ rec.guard \in replica => mem # "torn"
=============================================================================

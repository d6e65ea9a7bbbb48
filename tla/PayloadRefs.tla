---------------------------- MODULE PayloadRefs ----------------------------
(***************************************************************************)
(* Payload references of the byte-artifact transport                       *)
(* (daemon/service/payload_transport_broker.cc).  Issuing a reference is   *)
(* several critical sections of mu_ with calls of the session lifecycle    *)
(* manager, the lifecycle kernel and the communicator between them, and    *)
(* one action for each.  The retention lease of a reference ends by its    *)
(* own clock, and its finalizer runs on the thread that ends it.           *)
(*                                                                         *)
(* Kinds: "inline", "body" (a body handle that is read in place),          *)
(* "snapshot" (a body handle whose bytes were copied for a GET), "batch",  *)
(* and the batches readable over the communicator: "slab" (memory of the   *)
(* payload), "segments" (exports owned by others), "regions".              *)
(***************************************************************************)
EXTENDS Naturals, FiniteSets

CONSTANTS Refs, Readers, None,
          Kinds,   \* kinds of references that are issued
          Ttl,     \* options_.ttl
          MaxTime, \* bound on the clock
          Prompt   \* whether an issuing call outruns the time to live

VARIABLES now,
          mu,     \* the call that never returns mu_, or None
          kind, at, exp,    \* the issuing call of each reference
          lease, due, fin,  \* its retention lease and the finalizer
          rec,    \* its entry in records_ or batch_records_
          cap,    \* its capability in the lifecycle kernel
          reg,    \* communicator registrations owned by the broker
          owner,  \* whether somebody else holds the body handle
          retired,\* bodies the broker retired
          reader  \* what each reader does

issuing == <<kind, at, exp>>
leasing == <<lease, due, fin>>
tables == <<rec, cap, reg, retired>>
vars == <<now, mu, issuing, leasing, tables, owner, reader>>

Bodies == {"body", "snapshot"}
Singles == {"inline"} \union Bodies
Exported == {"slab", "segments", "regions"}
Owned == {"slab", "regions"}       \* communicator_export_requires_unregister
Idle == [at |-> "idle", ref |-> None]

Ended == {"issued", "failed"}
ReaderAt == {"idle", "found", "local", "remote", "fetched", "rdma"}

\* The variables have their types.
TypeOK ==
  /\ now \in 0..MaxTime /\ mu \in Refs \union {None}
  /\ kind \in [Refs -> Kinds \union {None}]
  /\ at \in [Refs -> {"new", "minted", "leased", "capped", "inserted", "attach", "stuck"} \union Ended]
  /\ exp \in [Refs -> 0..(MaxTime + Ttl)] /\ due \in [Refs -> 0..(MaxTime + Ttl)]
  /\ lease \in [Refs -> {"none", "live", "ended"}]
  /\ fin \in [Refs -> {"no", "erase", "finish", "done"}]
  /\ rec \in [Refs -> {"none", "plain", "export"}]
  /\ cap \in [Refs -> {"none", "live", "released"}]
  /\ reg \subseteq Refs /\ owner \subseteq Refs /\ retired \subseteq Refs
  /\ reader \in [Readers -> [at : ReaderAt, ref : Refs \union {None}]]

Init ==
  /\ now = 0 /\ mu = None
  /\ kind = [r \in Refs |-> None] /\ at = [r \in Refs |-> "new"]
  /\ exp = [r \in Refs |-> 0] /\ due = [r \in Refs |-> 0]
  /\ lease = [r \in Refs |-> "none"] /\ fin = [r \in Refs |-> "no"]
  /\ rec = [r \in Refs |-> "none"] /\ cap = [r \in Refs |-> "none"]
  /\ reg = {} /\ owner = {} /\ retired = {}
  /\ reader = [c \in Readers |-> Idle]

----------------------------------------------------------------------------
(* Records.                                                                *)

Holds(c, r) == reader[c].ref = r /\ reader[c].at \in {"found", "local"}

\* A record erased with the only copy of a body handle retires the body.
Retires(gone) ==
  {r \in gone : kind[r] \in Bodies /\ r \notin owner /\ \A c \in Readers : ~Holds(c, r)}

Without(gone) == [r \in Refs |-> IF r \in gone THEN "none" ELSE rec[r]]

Expired == {r \in Refs : rec[r] # "none" /\ exp[r] <= now}

\* prune_locked: the registrations of a batch go with its record.  The lease
\* and the capability are left to the finalizer.
Prune ==
  /\ rec' = Without(Expired)
  /\ retired' = retired \union Retires(Expired)
  /\ reg' = reg \ {r \in Expired : rec[r] = "export" /\ kind[r] \in Owned}

----------------------------------------------------------------------------
(* Issuing.                                                                *)

Become(r, x) == at' = [at EXCEPT ![r] = x]

\* Checks, register_memory for an exported batch, the expiry, and the critical
\* section that prunes and mints the id.
IssueBegin(r, k, shared) ==
  /\ at[r] = "new" /\ mu = None /\ now + Ttl <= MaxTime
  /\ shared => k \in Bodies
  /\ kind' = [kind EXCEPT ![r] = k]
  /\ exp' = [exp EXCEPT ![r] = now + Ttl]
  /\ owner' = IF shared THEN owner \union {r} ELSE owner
  /\ Become(r, "minted")
  /\ LET gone == Expired IN
     /\ rec' = Without(gone) /\ retired' = retired \union Retires(gone)
     /\ reg' = (reg \ {x \in gone : rec[x] = "export" /\ kind[x] \in Owned})
               \union (IF k \in Owned THEN {r} ELSE {})
  /\ UNCHANGED <<now, mu, leasing, cap, reader>>

\* create_retention_lease(expires_at - now): the lease counts from this call.
IssueLease(r) ==
  /\ at[r] = "minted" /\ now + Ttl <= MaxTime
  /\ lease' = [lease EXCEPT ![r] = "live"]
  /\ due' = [due EXCEPT ![r] = now + Ttl]
  /\ Become(r, "leased")
  /\ UNCHANGED <<now, mu, kind, exp, fin, tables, owner, reader>>

\* No lease: the call fails, and the export takes its registration back.
LeaseRefused(r) ==
  /\ at[r] = "minted"
  /\ reg' = reg \ {r}
  /\ Become(r, "failed")
  /\ UNCHANGED <<now, mu, kind, exp, leasing, rec, cap, retired, owner, reader>>

\* mint_capability: batch references have no capability in the kernel.
IssueMint(r) ==
  /\ at[r] = "leased" /\ kind[r] \in Singles
  /\ cap' = [cap EXCEPT ![r] = "live"]
  /\ Become(r, "capped")
  /\ UNCHANGED <<now, mu, kind, exp, leasing, rec, reg, retired, owner, reader>>

\* The record of a single reference.
IssueInsert(r) ==
  /\ mu = None
  /\ at[r] = "capped" /\ kind[r] \in Singles
  /\ rec' = [rec EXCEPT ![r] = "plain"]
  /\ Become(r, "inserted")
  /\ UNCHANGED <<now, mu, kind, exp, leasing, cap, reg, retired, owner, reader>>

\* The record of a batch, which has no export yet.
IssueBatchInsert(r) ==
  /\ mu = None
  /\ at[r] = "leased" /\ kind[r] \notin Singles
  /\ rec' = [rec EXCEPT ![r] = "plain"]
  /\ Become(r, "inserted")
  /\ UNCHANGED <<now, mu, kind, exp, leasing, cap, reg, retired, owner, reader>>

\* The token: a single reference and a plain batch are handed out.
IssueToken(r) ==
  /\ at[r] = "inserted"
  /\ Become(r, IF kind[r] \in Exported THEN "attach" ELSE "issued")
  /\ UNCHANGED <<now, mu, kind, exp, leasing, tables, owner, reader>>

\* The finalizer of a live lease, run by the thread that ends the lease.
EndLease(r) ==
  /\ lease' = [lease EXCEPT ![r] = IF @ = "live" THEN "ended" ELSE @]
  /\ fin' = [fin EXCEPT ![r] = IF lease[r] = "live" THEN "erase" ELSE @]

\* mint_capability, the scope or the token fails: release_lease.
IssueFails(r) ==
  /\ at[r] \in {"leased", "inserted"}
  /\ at[r] = "leased" => kind[r] \in Singles
  /\ EndLease(r)
  /\ reg' = IF kind[r] \in Owned THEN reg \ {r} ELSE reg
  /\ Become(r, "failed")
  /\ UNCHANGED <<now, mu, kind, exp, due, rec, cap, retired, owner, reader>>

\* issue_batch_payload_communicator_export: the registration joins its record.
Attach(r) ==
  /\ mu = None
  /\ at[r] = "attach" /\ rec[r] # "none"
  /\ rec' = [rec EXCEPT ![r] = "export"]
  /\ Become(r, "issued")
  /\ UNCHANGED <<now, mu, kind, exp, leasing, cap, reg, retired, owner, reader>>

\* The record has gone: the memory is unregistered and release_lease called
\* with mu_ held.  A lease that is still live runs its finalizer here, which
\* waits for mu_.
AttachMissing(r) ==
  /\ mu = None
  /\ at[r] = "attach" /\ rec[r] = "none"
  /\ EndLease(r)
  /\ reg' = reg \ {r}
  /\ Become(r, IF lease[r] = "live" THEN "stuck" ELSE "failed")
  /\ mu' = IF lease[r] = "live" THEN r ELSE None
  /\ UNCHANGED <<now, kind, exp, due, rec, cap, retired, owner, reader>>

----------------------------------------------------------------------------
(* Leases.                                                                 *)

\* expire_due of the session lifecycle manager.
LeaseExpires(r) ==
  /\ lease[r] = "live" /\ due[r] <= now
  /\ EndLease(r)
  /\ UNCHANGED <<now, mu, issuing, due, tables, owner, reader>>

\* The finalizer of a single reference erases the record under mu_ ...
FinalizeErase(r) ==
  /\ mu = None
  /\ fin[r] = "erase" /\ kind[r] \in Singles
  /\ rec' = Without({r})
  /\ retired' = IF rec[r] # "none" THEN retired \union Retires({r}) ELSE retired
  /\ fin' = [fin EXCEPT ![r] = "finish"]
  /\ UNCHANGED <<now, mu, issuing, lease, due, cap, reg, owner, reader>>

\* ... and releases the capability after it.
FinalizeCapability(r) ==
  /\ fin[r] = "finish" /\ kind[r] \in Singles
  /\ cap' = [cap EXCEPT ![r] = IF @ = "live" THEN "released" ELSE @]
  /\ fin' = [fin EXCEPT ![r] = "done"]
  /\ UNCHANGED <<now, mu, issuing, lease, due, rec, reg, retired, owner, reader>>

\* The finalizer of a batch takes the export and its keepalives out ...
FinalizeBatch(r) ==
  /\ mu = None
  /\ fin[r] = "erase" /\ kind[r] \notin Singles
  /\ rec' = Without({r})
  /\ fin' = [fin EXCEPT ![r] = IF rec[r] = "export" THEN "finish" ELSE "done"]
  /\ UNCHANGED <<now, mu, issuing, lease, due, cap, reg, retired, owner, reader>>

\* The keepalives it took live until it has unregistered; the payload of a
\* slab was destroyed with the record.
KeptByFinalizer(r) == fin[r] = "finish" /\ kind[r] \in {"segments", "regions"}

\* ... and unregisters the memory after it.
FinalizeUnregister(r) ==
  /\ fin[r] = "finish" /\ kind[r] \notin Singles
  /\ reg' = reg \ {r}
  /\ fin' = [fin EXCEPT ![r] = "done"]
  /\ UNCHANGED <<now, mu, issuing, lease, due, rec, cap, retired, owner, reader>>

----------------------------------------------------------------------------
(* Redeeming.                                                              *)

Set(c, x) == reader' = [reader EXCEPT ![c] = x]

\* The capability token of r: issued, and not yet expired.
TokenValid(r) == at[r] = "issued" /\ now < exp[r]

\* resolve_local_payload_ref_record: prunes, and copies the record under mu_.
Lookup(c, r) ==
  /\ mu = None
  /\ reader[c] = Idle /\ kind[r] \in Singles
  /\ TokenValid(r)
  /\ Prune
  /\ rec[r] # "none"
  /\ Set(c, [at |-> "found", ref |-> r])
  /\ UNCHANGED <<now, mu, issuing, leasing, cap, owner>>

\* resolve_payload_ref_issuer_reply: admit_redemption, and the backing that
\* the caller reads; the use guard is released on every path.
Admit(c, remote) ==
  /\ reader[c].at = "found"
  /\ LET r == reader[c].ref IN
     IF cap[r] = "live" /\ now < exp[r]
     THEN Set(c, [at |-> IF remote THEN "remote" ELSE "local", ref |-> r])
     ELSE Set(c, Idle)
  /\ UNCHANGED <<now, mu, issuing, leasing, tables, owner>>

\* read_local_payload_ref_chunk: each chunk of a remote consumer looks the
\* record up again.
RemoteChunk(c) ==
  /\ mu = None
  /\ reader[c].at = "remote"
  /\ Prune
  /\ LET r == reader[c].ref IN
     Set(c, IF now < exp[r] /\ rec[r] # "none" THEN [at |-> "fetched", ref |-> r] ELSE Idle)
  /\ UNCHANGED <<now, mu, issuing, leasing, cap, owner>>

\* read_source_fully: the next chunk, or the end of the payload.
NextChunk(c, eof) ==
  /\ reader[c].at = "fetched"
  /\ Set(c, IF eof THEN Idle ELSE [reader[c] EXCEPT !.at = "remote"])
  /\ UNCHANGED <<now, mu, issuing, leasing, tables, owner>>

\* fetch_batch_payload_ref and the local communicator source: the batch is
\* copied, or kept alive, under mu_.
BatchLookup(c, r) ==
  /\ mu = None
  /\ reader[c] = Idle /\ kind[r] \notin Singles
  /\ TokenValid(r)
  /\ Prune
  /\ rec[r] # "none"
  /\ Set(c, [at |-> "local", ref |-> r])
  /\ UNCHANGED <<now, mu, issuing, leasing, cap, owner>>

\* open_batch_payload_communicator_source at another daemon: its token is
\* checked there, the issuer is not asked and the memory read over its keys.
RemoteRead(c, r) ==
  /\ reader[c] = Idle /\ kind[r] \in Exported
  /\ TokenValid(r)
  /\ Set(c, [at |-> "rdma", ref |-> r])
  /\ UNCHANGED <<now, mu, issuing, leasing, tables, owner>>

\* The reader drops its source or body handle.
ReadEnds(c) ==
  /\ reader[c].at \in {"local", "rdma"}
  /\ Set(c, Idle)
  /\ UNCHANGED <<now, mu, issuing, leasing, tables, owner>>

\* The controller that issued the reference drops its copy of the handle.
DropOwner(r) ==
  /\ r \in owner
  /\ owner' = owner \ {r}
  /\ UNCHANGED <<now, mu, issuing, leasing, tables, reader>>

Tick ==
  /\ now < MaxTime
  /\ Prompt => \A r \in Refs : at[r] \in Ended \union {"new"}
  /\ now' = now + 1
  /\ UNCHANGED <<mu, issuing, leasing, tables, owner, reader>>

----------------------------------------------------------------------------
Issue(r) == \/ IssueLease(r) \/ IssueMint(r) \/ IssueInsert(r) \/ IssueBatchInsert(r)
            \/ IssueToken(r) \/ Attach(r) \/ AttachMissing(r)

Finalize(r) == \/ FinalizeErase(r) \/ FinalizeCapability(r)
               \/ FinalizeBatch(r) \/ FinalizeUnregister(r)

Done ==
  /\ now = MaxTime
  /\ \A r \in Refs : lease[r] # "live" /\ fin[r] \in {"no", "done"}
  /\ UNCHANGED vars

Next ==
  \/ \E r \in Refs : \E k \in Kinds : \E s \in BOOLEAN : IssueBegin(r, k, s)
  \/ \E r \in Refs : \/ Issue(r) \/ LeaseRefused(r) \/ IssueFails(r)
                     \/ LeaseExpires(r) \/ Finalize(r) \/ DropOwner(r)
  \/ \E c \in Readers : \E r \in Refs : Lookup(c, r) \/ BatchLookup(c, r) \/ RemoteRead(c, r)
  \/ \E c \in Readers : \E b \in BOOLEAN : Admit(c, b) \/ NextChunk(c, b)
  \/ \E c \in Readers : RemoteChunk(c) \/ ReadEnds(c)
  \/ Tick \/ Done

\* Issuing threads run on, the clock advances, the sweeper expires leases and
\* the thread that ends a lease runs its finalizer.
Fairness ==
  /\ \A r \in Refs : WF_vars(Issue(r)) /\ WF_vars(LeaseExpires(r)) /\ WF_vars(Finalize(r))
  /\ WF_vars(Tick)

Spec == Init /\ [][Next]_vars /\ Fairness

----------------------------------------------------------------------------
\* A reader that holds the body handle of a record never finds the body
\* retired by the broker: unique_owner is asked under mu_, where handles are
\* copied out.
ReaderBacked == \A c \in Readers : \A r \in Refs : Holds(c, r) => r \notin retired

\* A registration of the communicator always has somebody who will take it
\* back: the issuing call, the record, or the finalizer.
RegistrationOwned ==
  \A r \in reg : at[r] \notin Ended \/ rec[r] = "export" \/ fin[r] = "finish"

Alive(r) ==
  \/ at[r] \notin Ended \/ rec[r] # "none" \/ KeptByFinalizer(r)
  \/ \E c \in Readers : Holds(c, r)

\* Memory of regions stays alive as long as it is registered with the
\* communicator: the finalizer drops the keepalives after unregistering.
RegisteredAlive == \A r \in reg : Alive(r)

\* Nothing is left of a reference whose lease has ended.
Gone(r) == rec[r] = "none" /\ r \notin reg /\ cap[r] # "live" /\ lease[r] = "ended"

\* Issuance rollback completes.
RollbackCompletes == \A r \in Refs : at[r] # "stuck"

\* The memory behind a batch outlives the remote reads of it.
KeepalivesOutliveReads ==
  \A c \in Readers : reader[c].at = "rdma" => Alive(reader[c].ref)
============================================================================

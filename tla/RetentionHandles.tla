-------------------------- MODULE RetentionHandles --------------------------
(***************************************************************************)
(* Retention handles (daemon/state/retention_registry.cc): clients keep a  *)
(* selection in the stable cache by holding handles that expire.  The      *)
(* registry aggregates the handles of one selection into an effective      *)
(* policy, computed under mu_ and applied to the cache outside it.         *)
(*                                                                         *)
(* One selection is modelled.  The lease of a handle is retired by its     *)
(* deadline or by a release; its finalizers expire the handle and release  *)
(* the capability.  Which ttl is asked for is abstracted: a lease may be   *)
(* retired at any time after it was created.                               *)
(***************************************************************************)
EXTENDS Naturals, FiniteSets

CONSTANTS Handles,
          Policies,     \* ranks of the policies asked for; 0 is best effort
          Renewals,     \* whether clients renew
          EarlyRetire,  \* whether a lease may run out before acquire returns
          AdmitMayFail, \* whether the stable cache may refuse an admission
          None

VARIABLES phase,    \* progress of acquire for each handle
          policy,   \* HandleRecord::policy
          lease,    \* retention lease: none, live, expire, apply, capability, gone
          recorded, \* keys of handles_
          cap,      \* handles with a capability in the lifecycle kernel
          renewal,  \* progress of renew for each handle
          pending,  \* effective policy computed by an operation and not yet applied
          cache     \* policy of the entry in the stable cache

vars == <<phase, policy, lease, recorded, cap, renewal, pending, cache>>

Ops == {"acquire", "renew", "release", "expire"}

RetentionInit ==
  /\ phase = [h \in Handles |-> "new"]
  /\ policy = [h \in Handles |-> 0]
  /\ lease = [h \in Handles |-> "none"]
  /\ recorded = {}
  /\ cap = {}
  /\ renewal = [h \in Handles |-> "idle"]
  /\ pending = [o \in Ops |-> [h \in Handles |-> None]]
  /\ cache = 0

\* compute_effective_policy_locked_: the strongest policy of the handles that
\* are recorded, best effort without handles.
Effective(hs) ==
  CHOOSE p \in {policy[h] : h \in hs} \cup {0} : \A h \in hs : policy[h] <= p

\* admit of the cache only ever upgrades.
Upgraded(h) == IF policy[h] > cache THEN policy[h] ELSE cache

Compute(o, h, hs) == pending' = [pending EXCEPT ![o][h] = Effective(hs)]

----------------------------------------------------------------------------
\* Validation, a fresh handle id, and the lease with its two finalizers.
Acquire(h) ==
  /\ phase[h] = "new"
  /\ \E p \in Policies : policy' = [policy EXCEPT ![h] = p]
  /\ phase' = [phase EXCEPT ![h] = "leased"]
  /\ lease' = [lease EXCEPT ![h] = "live"]
  /\ UNCHANGED <<recorded, cap, renewal, pending, cache>>

\* backend_->admit; a refusal releases the lease and fails the call.
Admit(h) ==
  /\ phase[h] = "leased"
  /\ \/ /\ cache' = Upgraded(h)
        /\ phase' = [phase EXCEPT ![h] = "admitted"]
        /\ UNCHANGED lease
     \/ /\ AdmitMayFail
        /\ phase' = [phase EXCEPT ![h] = "failed"]
        /\ lease' = [lease EXCEPT ![h] = IF @ = "live" THEN "expire" ELSE @]
        /\ UNCHANGED cache
  /\ UNCHANGED <<policy, recorded, cap, renewal, pending>>

MintCapability(h) ==
  /\ phase[h] = "admitted"
  /\ cap' = cap \cup {h}
  /\ phase' = [phase EXCEPT ![h] = "minted"]
  /\ UNCHANGED <<policy, lease, recorded, renewal, pending, cache>>

\* The handle is inserted and the effective policy computed, under mu_.
Record(h) ==
  /\ phase[h] = "minted"
  /\ recorded' = recorded \cup {h}
  /\ Compute("acquire", h, recorded')
  /\ phase' = [phase EXCEPT ![h] = "recorded"]
  /\ UNCHANGED <<policy, lease, cap, renewal, cache>>

\* apply_effective_policy_, outside mu_: update_policy overwrites the entry.
\* The finalizer of an expired handle goes on to the next one; acquire returns.
Apply(o, h) ==
  /\ pending[o][h] # None
  /\ cache' = pending[o][h]
  /\ pending' = [pending EXCEPT ![o][h] = None]
  /\ phase' = [phase EXCEPT ![h] = IF o = "acquire" THEN "held" ELSE @]
  /\ lease' = [lease EXCEPT ![h] = IF o = "expire" THEN "capability" ELSE @]
  /\ UNCHANGED <<policy, recorded, cap, renewal>>

----------------------------------------------------------------------------
\* The deadline of the lease passes and the lifecycle manager retires it.
Deadline(h) ==
  /\ lease[h] = "live"
  /\ ~EarlyRetire => phase[h] = "held"
  /\ lease' = [lease EXCEPT ![h] = "expire"]
  /\ UNCHANGED <<phase, policy, recorded, cap, renewal, pending, cache>>

\* expire_handle_, the first finalizer: a no-op for a handle not in handles_.
ExpireHandle(h) ==
  /\ lease[h] = "expire"
  /\ IF h \in recorded
       THEN /\ recorded' = recorded \ {h}
            /\ Compute("expire", h, recorded')
            /\ lease' = [lease EXCEPT ![h] = "apply"]
       ELSE /\ lease' = [lease EXCEPT ![h] = "capability"]
            /\ UNCHANGED <<recorded, pending>>
  /\ UNCHANGED <<phase, policy, cap, renewal, cache>>

\* The second finalizer releases the capability.
ReleaseCapability(h) ==
  /\ lease[h] = "capability"
  /\ cap' = cap \ {h}
  /\ lease' = [lease EXCEPT ![h] = "gone"]
  /\ UNCHANGED <<phase, policy, recorded, renewal, pending, cache>>

\* release: erase and compute under mu_, then retire the lease and release the
\* capability; the policy is applied last.  Unknown handles are answered false.
Release(h) ==
  /\ phase[h] = "held"
  /\ h \in recorded
  /\ recorded' = recorded \ {h}
  /\ Compute("release", h, recorded')
  /\ lease' = [lease EXCEPT ![h] = IF @ = "live" THEN "expire" ELSE @]
  /\ cap' = cap \ {h}
  /\ UNCHANGED <<phase, policy, renewal, cache>>

----------------------------------------------------------------------------
\* renew copies the record under mu_; the token must not have expired.
Renew(h) ==
  /\ Renewals
  /\ phase[h] = "held"
  /\ renewal[h] = "idle"
  /\ h \in recorded
  /\ pending["renew"][h] = None
  /\ renewal' = [renewal EXCEPT ![h] = "admit"]
  /\ UNCHANGED <<phase, policy, lease, recorded, cap, pending, cache>>

\* The admission is repeated with the copied policy.
RenewAdmit(h) ==
  /\ renewal[h] = "admit"
  /\ \/ /\ cache' = Upgraded(h)
        /\ renewal' = [renewal EXCEPT ![h] = "lease"]
     \/ /\ AdmitMayFail
        /\ renewal' = [renewal EXCEPT ![h] = "idle"]
        /\ UNCHANGED cache
  /\ UNCHANGED <<phase, policy, lease, recorded, cap, pending>>

\* renew_retention fails when the lease is retired; renew_capability when the
\* capability is gone.
RenewLease(h) ==
  /\ renewal[h] = "lease"
  /\ renewal' = [renewal EXCEPT ![h] =
       IF lease[h] = "live" /\ h \in cap THEN "record" ELSE "idle"]
  /\ UNCHANGED <<phase, policy, lease, recorded, cap, pending, cache>>

RenewRecord(h) ==
  /\ renewal[h] = "record"
  /\ renewal' = [renewal EXCEPT ![h] = "idle"]
  /\ IF h \in recorded THEN Compute("renew", h, recorded) ELSE UNCHANGED pending
  /\ UNCHANGED <<phase, policy, lease, recorded, cap, cache>>

----------------------------------------------------------------------------
Acquiring(h) == Admit(h) \/ MintCapability(h) \/ Record(h)
Finalizing(h) == ExpireHandle(h) \/ ReleaseCapability(h)
Renewing(h) == RenewAdmit(h) \/ RenewLease(h) \/ RenewRecord(h)

Next ==
  \E h \in Handles :
    \/ Acquire(h) \/ Deadline(h) \/ Release(h) \/ Renew(h)
    \/ Acquiring(h) \/ Finalizing(h) \/ Renewing(h)
    \/ \E o \in Ops : Apply(o, h)

\* Each call that was started runs to its end, as do the finalizers of a retired
\* lease; the deadline of a lease comes (clients bound their renewals).
Spec ==
  /\ RetentionInit /\ [][Next]_vars
  /\ \A h \in Handles :
       /\ WF_vars(Acquiring(h)) /\ WF_vars(Finalizing(h)) /\ WF_vars(Renewing(h))
       /\ WF_vars(Deadline(h))
       /\ \A o \in Ops : WF_vars(Apply(o, h))

----------------------------------------------------------------------------
TypeOK ==
  /\ policy \in [Handles -> Policies \cup {0}]
  /\ recorded \cup cap \subseteq Handles
  /\ cache \in Policies \cup {0}
  /\ \A o \in Ops, h \in Handles : pending[o][h] \in Policies \cup {0, None}

\* "Time-bounded: handles MUST expire" (designs/0034): a recorded handle still
\* has a lease whose finalizers will expire it.
RecordedHasLease == \A h \in recorded : lease[h] \in {"live", "expire"}

\* What a handle brought with it is gone in the end: no record and no
\* capability stays behind the handle (acquire registers both as finalizers).
HandlesEnd == \A h \in Handles : (h \in recorded \cup cap) ~> (h \notin recorded \cup cap)

Quiet ==
  /\ \A h \in Handles : phase[h] \in {"new", "held", "failed"} /\ renewal[h] = "idle"
  /\ \A h \in Handles : lease[h] \in {"none", "live", "gone"}
  /\ \A o \in Ops, h \in Handles : pending[o][h] = None

\* "Downgrade on last release (required)" (designs/0034): once the last handle
\* is released or expired, the cache may reclaim the bytes again.
DowngradedAtLast == Quiet /\ recorded = {} => cache = 0

\* The registry "aggregates them into an effective retention intent": the
\* cache retains what the strongest of the active handles asks for.
EffectiveCovers == Quiet => cache >= Effective(recorded)
=============================================================================

-------------------------- MODULE LifecycleKernel --------------------------
(* The issuer-local table of capabilities of a daemon                       *)
(* (daemon/state/lifecycle_kernel.{h,cc}, design 0094).  A capability is    *)
(* minted over a lease, redeemed any number of times before it expires, and *)
(* released by the finalizer of its lease.  Every redemption that is        *)
(* admitted holds a use guard; the entry of a released or expired           *)
(* capability stays until the last guard is given back.                     *)
(*                                                                          *)
(* Every operation runs under the kernel's one mutex and is one action.     *)
(* Capability ids, binding keys and binding ids are random tokens minted    *)
(* with the capability (payload ids, handle ids, lease tokens), so one      *)
(* identifier stands for all three.  Epochs and constraint claims are the   *)
(* ones the capability was minted with: a credential that does not match    *)
(* is the rejected admission that changes nothing but the expiry marks.     *)
EXTENDS Naturals, FiniteSets

CONSTANTS
  Caps,        \* capability ids
  Bound,       \* the ones in binding_record mode; the others are address-derived
  Guards,      \* use guard ids (lkg-<n>), never reused while held
  Lifetimes,   \* time to live a mint or a renewal may ask for
  MaxTime,     \* bound on the clock
  None

VARIABLES
  cap,       \* capabilities_by_id_
  addr,      \* keys of address_to_capability_id_
  bind,      \* bindings_by_id_: state of the record
  guards,    \* use_guard_to_capability_id_
  now,       \* absl::Now(), in ticks
  released   \* ghost: release_capability has been called

kernelVars == <<cap, addr, bind, guards, now, released>>

States == {"active", "draining", "expired"}
Entry == [state : States, exp : Nat, uses : Nat]

KernelTypeOK ==
  /\ cap \in [Caps -> {None} \cup Entry]
  /\ addr \subseteq Caps
  /\ bind \in [Caps -> {"none", "active", "expired", "revoked"}]
  /\ guards \in [Guards -> Caps \cup {None}]
  /\ now \in 0..MaxTime
  /\ released \subseteq Caps

KernelInit ==
  /\ cap = [c \in Caps |-> None]
  /\ addr = {}
  /\ bind = [c \in Caps |-> "none"]
  /\ guards = [g \in Guards |-> None]
  /\ now = 0
  /\ released = {}

Holding(c) == {g \in Guards : guards[g] = c}

(* mint_capability: a fresh id; an address-derived capability enters the   *)
(* address index, the others get an active binding record that expires     *)
(* with the capability.                                                     *)
Mint(c, exp) ==
  /\ cap[c] = None
  /\ cap' = [cap EXCEPT ![c] = [state |-> "active", exp |-> exp, uses |-> 0]]
  /\ IF c \in Bound
       THEN bind' = [bind EXCEPT ![c] = "active"] /\ UNCHANGED addr
       ELSE addr' = addr \cup {c} /\ UNCHANGED bind
  /\ UNCHANGED <<guards, now, released>>

(* renew_capability: a new expiry; an entry that had expired is active again. *)
RenewRevives(c, exp) ==
  /\ cap[c] # None
  /\ cap' = [cap EXCEPT ![c].exp = exp, ![c].state = "active"]
  /\ UNCHANGED <<addr, bind, guards, now, released>>

Renew(c, exp) ==
  /\ cap[c] # None
  /\ cap' = [cap EXCEPT ![c].exp = exp,
                        ![c].state = IF @ = "expired" THEN "active" ELSE @]
  /\ UNCHANGED <<addr, bind, guards, now, released>>

(* erase_entry_locked_: the entry, its index key and its binding record.    *)
EraseEntry(c) ==
  /\ cap' = [cap EXCEPT ![c] = None]
  /\ addr' = addr \ {c}
  /\ bind' = [bind EXCEPT ![c] = "none"]

(* resolve_entry_for_credential_locked_: a binding record that is missing,  *)
(* revoked or past its expiry (the capability's own, no renewal moves one   *)
(* without the other) resolves to nothing.                                  *)
Resolves(c) ==
  /\ IF c \in Bound THEN bind[c] \in {"active", "expired"} /\ now < cap[c].exp
                    ELSE c \in addr
  /\ cap[c] # None

(* admit_redemption: resolve, expire if due, refuse unless active, else     *)
(* take a guard.                                                            *)
AdmitExpired(c, g) ==
  /\ cap[c] # None /\ Resolves(c) /\ guards[g] = None
  /\ cap[c].state = "active"
  /\ cap' = [cap EXCEPT ![c].uses = @ + 1]
  /\ guards' = [guards EXCEPT ![g] = c]
  /\ UNCHANGED <<addr, bind, now, released>>

Admit(c, g) ==
  /\ cap[c] # None /\ Resolves(c) /\ guards[g] = None
  /\ cap[c].state = "active" /\ now < cap[c].exp
  /\ cap' = [cap EXCEPT ![c].uses = @ + 1]
  /\ guards' = [guards EXCEPT ![g] = c]
  /\ UNCHANGED <<addr, bind, now, released>>

(* An admission refused because the lifetime is over leaves the expiry      *)
(* marks behind: on the binding record it looked up first, or on the entry. *)
RefuseExpired(c) ==
  /\ cap[c] # None /\ cap[c].exp <= now
  /\ \/ /\ c \in Bound /\ bind[c] \in {"active", "expired"}
        /\ bind' = [bind EXCEPT ![c] = "expired"] /\ UNCHANGED cap
     \/ /\ c \in addr
        /\ cap' = [cap EXCEPT ![c].state = "expired"] /\ UNCHANGED bind
  /\ UNCHANGED <<addr, guards, now, released>>

ReleaseGuard(g) ==
  LET c == guards[g] IN
  /\ c # None
  /\ guards' = [guards EXCEPT ![g] = None]
  /\ IF cap[c].uses = 1 /\ cap[c].state # "active"
       THEN EraseEntry(c)
       ELSE cap' = [cap EXCEPT ![c].uses = @ - 1] /\ UNCHANGED <<addr, bind>>
  /\ UNCHANGED <<now, released>>

(* release_capability: drain at once, erase when no guard is out.           *)
Release(c) ==
  /\ released' = released \cup {c}
  /\ IF cap[c] = None THEN UNCHANGED <<cap, addr, bind>>
     ELSE IF cap[c].uses = 0 THEN EraseEntry(c)
     ELSE /\ cap' = [cap EXCEPT ![c].state = "draining"]
          /\ addr' = addr \ {c}
          /\ bind' = IF c \in Bound /\ bind[c] # "none"
                       THEN [bind EXCEPT ![c] = "revoked"] ELSE bind
  /\ UNCHANGED <<guards, now>>

Tick ==
  /\ now < MaxTime
  /\ now' = now + 1
  /\ UNCHANGED <<cap, addr, bind, guards, released>>

(* The callers: a capability is minted once, renewed only in the address-   *)
(* derived mode, released by its lease's finalizer at any time.             *)
\* The holder of a lease ends it once.
ReleaseMinted(c) == cap[c] # None /\ c \notin released /\ Release(c)

KernelNext ==
  \/ \E c \in Caps, d \in Lifetimes :
       \/ c \notin released /\ Mint(c, now + d)
       \/ c \notin Bound /\ Renew(c, now + d)
  \/ \E c \in Caps :
       \/ \E g \in Guards : Admit(c, g)
       \/ RefuseExpired(c)
       \/ ReleaseMinted(c)
  \/ \E g \in Guards : ReleaseGuard(g)
  \/ Tick

(* Every caller gives its guard back on every path, and a lease ends.       *)
KernelFairness ==
  /\ \A g \in Guards : WF_kernelVars(ReleaseGuard(g))
  /\ \A c \in Caps : WF_kernelVars(ReleaseMinted(c))

KernelSpec == KernelInit /\ [][KernelNext]_kernelVars /\ KernelFairness

(* The number of uses of an entry is the number of guards that name it, and *)
(* a guard never names an erased entry: release_use_guard and               *)
(* release_capability erase only at zero, in either order.                  *)
GuardsCounted ==
  \A c \in Caps : IF cap[c] = None THEN Holding(c) = {}
                                   ELSE cap[c].uses = Cardinality(Holding(c))

(* Admission fails closed when it races with release or expiry (0094, 7.2): *)
(* a new guard is for a capability that is neither released nor over.       *)
AdmitFailsClosedStep ==
  \A g \in Guards : guards[g] = None /\ guards'[g] # None =>
    guards'[g] \notin released /\ now < cap[guards'[g]].exp

(* Once released and with no guard out, nothing is left of a capability: no *)
(* entry, no index key, no binding record.                                  *)
ReleasedIsErased ==
  \A c \in released : Holding(c) = {} =>
    cap[c] = None /\ c \notin addr /\ bind[c] = "none"

(* A released capability never becomes active again, whatever renewals,     *)
(* expiries and returned guards come between.                               *)
NoRevival ==
  \A c \in released : cap[c] # None => cap[c].state = "draining"

(* Every capability that was minted is erased in the end.                   *)
EventuallyErased == \A c \in Caps : cap[c] # None ~> cap[c] = None
============================================================================

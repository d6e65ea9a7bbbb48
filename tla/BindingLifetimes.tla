--------------------------- MODULE BindingLifetimes ---------------------------
(***************************************************************************)
(* The life of one binding record: creation, serving prefetch, attachment  *)
(* by workers, retention and removal from the registry.                    *)
(*                                                                         *)
(* A record is kept while it is neither closed nor retired, while it is    *)
(* retained, and while an export or an attachment refers to it.  Every     *)
(* call that may have dropped the last reason changes the record under its *)
(* mutex, then reads the reasons under a second hold, then erases the      *)
(* record under the registry's mutex: three critical sections between      *)
(* which creation, acquires, releases, the sweep and process exits run.    *)
(***************************************************************************)
EXTENDS Naturals, FiniteSets

CONSTANTS Workers, Kinds, MaxAcquires, None

VARIABLES kind,     \* which call creates the binding
          grouped,  \* the value is staged for a group realization
          rec,      \* the Record
          reg,      \* records_ holds it
          pc,       \* where the creating call is
          lease,    \* the export lease handed out with the memory handle
          att,      \* the attachment of each worker
          erase,    \* erase_if_reclaimable_ of each actor
          due,      \* the reservation's deadline has passed
          tx,       \* the group transaction, in the Global Store
          owner,    \* the owner process: alive, its leases released, gone
          acquires

vars == <<kind, grouped, rec, reg, pc, lease, att, erase, due, tx, owner, acquires>>

Actors == Workers \cup {"create", "lease", "close", "sweep", "exit"}
Quiet(a) == erase[a] = "no"
Erasing(a) == erase' = [erase EXCEPT ![a] = "check"]

Reclaimable == (rec.closed \/ rec.retired) /\ ~rec.retained /\ rec.exports = 0 /\ rec.refs = 0
Counted == {w \in Workers : att[w].pc \in {"counted", "held", "given"}}

TypeOK == /\ kind \in Kinds /\ {grouped, reg, due} \subseteq BOOLEAN
          /\ rec \in [closed : BOOLEAN, retired : BOOLEAN, retained : BOOLEAN, staged : BOOLEAN,
                      acquired : BOOLEAN, serving : BOOLEAN, exports : 0..1,
                      refs : 0..Cardinality(Workers)]
          /\ pc \in {"insert", "stage", "mint", "token", "report", "undo", "undone", "retain",
                     "hand", "cancel", "retire", "made", "failed"}
          /\ lease \in {"none", "held", "over"}
          /\ att \in [Workers -> [pc : {"idle", "published", "valid", "counted", "held", "given"},
                                  local : BOOLEAN]]
          /\ erase \in [Actors -> {"no", "check", "erase"}]
          /\ tx \in {"open", "published", "aborted"} /\ owner \in {"alive", "exiting", "gone"}
          /\ acquires \in 0..MaxAcquires

Init == /\ kind \in Kinds /\ grouped \in (IF kind = "client" THEN {FALSE} ELSE BOOLEAN)
        /\ rec = [closed |-> FALSE, retired |-> FALSE, retained |-> FALSE, staged |-> FALSE,
                  acquired |-> FALSE, serving |-> FALSE, exports |-> 0, refs |-> 0]
        /\ reg = FALSE /\ pc = "insert" /\ lease = "none"
        /\ att = [w \in Workers |-> [pc |-> "idle", local |-> FALSE]]
        /\ erase = [a \in Actors |-> "no"] /\ due = FALSE /\ tx = "open" /\ owner = "alive"
        /\ acquires = 0

-----------------------------------------------------------------------------
(* The three critical sections of a removal.                               *)

EraseCheck(a) ==
    /\ erase[a] = "check"
    /\ erase' = [erase EXCEPT ![a] = IF Reclaimable THEN "erase" ELSE "no"]
    /\ UNCHANGED <<kind, grouped, rec, reg, pc, lease, att, due, tx, owner, acquires>>

EraseRecord(a) ==
    /\ erase[a] = "erase"
    /\ erase' = [erase EXCEPT ![a] = "no"] /\ reg' = FALSE
    /\ UNCHANGED <<kind, grouped, rec, pc, lease, att, due, tx, owner, acquires>>

(* release_export_ref, the callback of the export lease.                   *)
ReleaseExport(a) ==
    /\ rec' = [rec EXCEPT !.exports = IF reg THEN 0 ELSE @]
    /\ IF reg THEN Erasing(a) ELSE UNCHANGED erase

(* close_control.                                                          *)
CloseControl(a) ==
    /\ rec' = IF reg THEN [rec EXCEPT !.closed = TRUE, !.staged = FALSE,
                                      !.retained = @ /\ rec.serving]
              ELSE rec
    /\ IF reg THEN Erasing(a) ELSE UNCHANGED erase

-----------------------------------------------------------------------------
(* CreateBinding, CreateOwnedBinding and, for "serving", the retention     *)
(* that PrefetchServingBinding adds to what CreateOwnedBinding made.       *)

CreateInsert ==
    /\ pc = "insert" /\ reg' = TRUE
    /\ rec' = [rec EXCEPT !.exports = IF kind = "client" THEN 0 ELSE 1]
    /\ pc' = CASE grouped -> "stage" [] kind = "client" -> "token" [] OTHER -> "mint"
    /\ UNCHANGED <<kind, grouped, lease, att, erase, due, tx, owner, acquires>>

CreateStage ==
    /\ pc = "stage"
    /\ IF reg /\ ~rec.closed /\ ~rec.retired
       THEN rec' = [rec EXCEPT !.staged = TRUE] /\ pc' = "mint"
       ELSE UNCHANGED rec /\ pc' = "undo"
    /\ UNCHANGED <<kind, grouped, reg, lease, att, erase, due, tx, owner, acquires>>

CreateMint(ok) ==
    /\ pc = "mint"
    /\ lease' = IF ok THEN "held" ELSE lease
    /\ pc' = IF ~ok THEN "undo" ELSE IF grouped THEN "report" ELSE "token"
    /\ UNCHANGED <<kind, grouped, rec, reg, att, erase, due, tx, owner, acquires>>

Created == IF kind = "serving" THEN "retain" ELSE "made"

CreateToken(ok) ==
    /\ pc = "token" /\ pc' = IF ok THEN Created ELSE "undo"
    /\ UNCHANGED <<kind, grouped, rec, reg, lease, att, erase, due, tx, owner, acquires>>

(* The staged value of a failed report is removed, unless it is attached.  *)
CreateReport(ok) ==
    /\ pc = "report" /\ pc' = IF ok THEN Created ELSE "undo"
    /\ rec' = [rec EXCEPT !.staged = @ /\ (ok \/ rec.refs > 0)]
    /\ UNCHANGED <<kind, grouped, reg, lease, att, erase, due, tx, owner, acquires>>

(* A failed creation closes the record and gives back its export: before   *)
(* it has a lease in this order, afterwards through the lease and first.   *)
UndoClose ==
    /\ pc = (IF lease = "none" THEN "undo" ELSE "undone") /\ Quiet("create")
    /\ pc' = IF lease = "none" THEN "undone" ELSE "failed"
    /\ CloseControl("create")
    /\ UNCHANGED <<kind, grouped, reg, lease, att, due, tx, owner, acquires>>

UndoRelease ==
    /\ pc = (IF lease = "none" THEN "undone" ELSE "undo") /\ Quiet("create")
    /\ pc' = IF lease = "none" THEN "failed" ELSE "undone"
    /\ IF lease = "over" THEN UNCHANGED <<rec, erase>> ELSE ReleaseExport("create")
    /\ lease' = IF lease = "held" THEN "over" ELSE lease
    /\ UNCHANGED <<kind, grouped, reg, att, due, tx, owner, acquires>>

(* The retention is written under one hold of the record; a binding that   *)
(* is gone, or whose staged value is, is cleaned up like a cancelled one.  *)
PrefetchRetain ==
    /\ pc = "retain"
    /\ rec' = IF reg THEN [rec EXCEPT !.retained = TRUE, !.serving = TRUE] ELSE rec
    /\ pc' = IF reg /\ (grouped => rec.staged) THEN "hand" ELSE "cancel"
    /\ UNCHANGED <<kind, grouped, reg, lease, att, erase, due, tx, owner, acquires>>

(* cleanup_prefetch_created_binding: drop the staged value, release the    *)
(* export lease and, unless the value was attached, retire the record.     *)
PrefetchCancel ==
    /\ pc \in {"retain", "hand", "cancel"} /\ Quiet("create")
    /\ pc' = IF rec.staged /\ rec.refs > 0 THEN "failed" ELSE "retire"
    /\ rec' = [rec EXCEPT !.staged = @ /\ rec.refs > 0, !.exports = IF reg THEN 0 ELSE @]
    /\ IF reg THEN Erasing("create") ELSE UNCHANGED erase
    /\ lease' = "over"
    /\ UNCHANGED <<kind, grouped, reg, att, due, tx, owner, acquires>>

(* retire_retained.                                                        *)
PrefetchRetire ==
    /\ pc = "retire" /\ Quiet("create") /\ pc' = "failed"
    /\ IF reg THEN /\ rec' = [rec EXCEPT !.retired = TRUE, !.retained = FALSE, !.staged = FALSE]
                   /\ Erasing("create")
              ELSE UNCHANGED <<rec, erase>>
    /\ UNCHANGED <<kind, grouped, reg, lease, att, due, tx, owner, acquires>>

PrefetchHandOver ==
    /\ pc = "hand" /\ Quiet("create")
    /\ ReleaseExport("create") /\ lease' = "over" /\ pc' = "made"
    /\ UNCHANGED <<kind, grouped, reg, att, due, tx, owner, acquires>>

-----------------------------------------------------------------------------
(* AcquireBindingValue.                                                    *)

Move(w, l) == att' = [att EXCEPT ![w].pc = l]
Acquired == [rec EXCEPT !.refs = @ + 1, !.acquired = TRUE]

(* A group's value is served once the transaction is published; one that   *)
(* ended otherwise takes the staged value with it.                         *)
VerifyPublished(w) ==
    /\ grouped /\ pc = "made" /\ att[w].pc = "idle" /\ acquires < MaxAcquires
    /\ acquires' = acquires + 1
    /\ CASE tx = "published" -> Move(w, "published") /\ UNCHANGED rec
         [] tx = "aborted" -> /\ rec' = [rec EXCEPT !.staged = @ /\ rec.refs > 0]
                              /\ UNCHANGED att
         [] OTHER -> UNCHANGED <<rec, att>>
    /\ UNCHANGED <<kind, grouped, reg, pc, lease, erase, due, tx, owner>>

ValidateStaged(w) ==
    /\ att[w].pc = "published"
    /\ Move(w, IF /\ reg /\ ~rec.closed /\ ~rec.retired /\ rec.staged /\ ~due
                  /\ rec.serving => rec.retained
               THEN "valid" ELSE "idle")
    /\ UNCHANGED <<kind, grouped, rec, reg, pc, lease, erase, due, tx, owner, acquires>>

AcquireStaged(w) ==
    /\ grouped /\ att[w].pc = "valid"
    /\ IF reg /\ ~rec.closed /\ ~rec.retired
       THEN rec' = Acquired /\ Move(w, "counted")
       ELSE UNCHANGED rec /\ Move(w, "idle")
    /\ UNCHANGED <<kind, grouped, reg, pc, lease, erase, due, tx, owner, acquires>>

Validate(w) ==
    /\ ~grouped /\ pc = "made" /\ att[w].pc = "idle" /\ acquires < MaxAcquires
    /\ acquires' = acquires + 1
    /\ Move(w, IF reg /\ ~rec.retired /\ rec.retained /\ ~due THEN "valid" ELSE "idle")
    /\ UNCHANGED <<kind, grouped, rec, reg, pc, lease, erase, due, tx, owner>>

Acquire(w) ==
    /\ ~grouped /\ att[w].pc = "valid"
    /\ IF reg /\ ~rec.retired /\ rec.retained
       THEN rec' = Acquired /\ Move(w, "counted")
       ELSE UNCHANGED rec /\ Move(w, "idle")
    /\ UNCHANGED <<kind, grouped, reg, pc, lease, erase, due, tx, owner, acquires>>

(* By local_serving_ref the checks and the count share one hold.           *)
AcquireLocal(w) ==
    /\ ~grouped /\ pc = "made" /\ reg /\ att[w].pc = "idle" /\ acquires < MaxAcquires
    /\ ~rec.retired /\ rec.retained
    /\ acquires' = acquires + 1 /\ rec' = Acquired
    /\ att' = [att EXCEPT ![w] = [pc |-> "counted", local |-> TRUE]]
    /\ UNCHANGED <<kind, grouped, reg, pc, lease, erase, due, tx, owner>>

MintAttachment(w) ==
    /\ att[w].pc = "counted"
    /\ att' = [att EXCEPT ![w].pc = IF att[w].local THEN "given" ELSE "held"]
    /\ UNCHANGED <<kind, grouped, rec, reg, pc, lease, erase, due, tx, owner, acquires>>

(* The reply is built from the record, and for a group from the staged     *)
(* value, read again.                                                      *)
GiveAttachment(w) ==
    /\ att[w].pc = "held" /\ reg /\ (grouped => rec.staged)
    /\ Move(w, "given")
    /\ UNCHANGED <<kind, grouped, rec, reg, pc, lease, erase, due, tx, owner, acquires>>

(* release_attachment_ref: the lease could not be minted, the reply could  *)
(* not be built, or the worker released its lease or exited.               *)
ReleaseAttachment(w) ==
    /\ att[w].pc \in {"counted", "held", "given"} /\ Quiet(w)
    /\ att[w].pc = "held" => ~reg \/ (grouped /\ ~rec.staged)
    /\ att' = [att EXCEPT ![w] = [pc |-> "idle", local |-> FALSE]]
    /\ rec' = IF reg /\ rec.refs > 0 THEN [rec EXCEPT !.refs = @ - 1] ELSE rec
    /\ IF reg THEN Erasing(w) ELSE UNCHANGED erase
    /\ UNCHANGED <<kind, grouped, reg, pc, lease, due, tx, owner, acquires>>

-----------------------------------------------------------------------------
(* The owner: releasing its lease, closing, exiting.                       *)

ReleaseLease ==
    /\ lease = "held" /\ pc = "made" /\ Quiet("lease") /\ owner = "alive"
    /\ lease' = "over" /\ ReleaseExport("lease")
    /\ UNCHANGED <<kind, grouped, reg, pc, att, due, tx, owner, acquires>>

Close ==
    /\ pc = "made" /\ Quiet("close") /\ reg /\ ~rec.closed
    /\ CloseControl("close")
    /\ UNCHANGED <<kind, grouped, reg, pc, lease, att, due, tx, owner, acquires>>

(* The pid monitor releases the process's leases, then takes its bindings. *)
ExitLeases ==
    /\ owner = "alive" /\ kind # "serving" /\ pc # "insert" /\ Quiet("exit")
    /\ owner' = "exiting"
    /\ IF lease = "held" THEN lease' = "over" /\ ReleaseExport("exit")
                         ELSE UNCHANGED <<lease, rec, erase>>
    /\ UNCHANGED <<kind, grouped, reg, pc, att, due, tx, acquires>>

ExitBinding ==
    /\ owner = "exiting" /\ Quiet("exit") /\ owner' = "gone"
    /\ IF reg THEN /\ rec' = [rec EXCEPT !.closed = TRUE, !.retained = FALSE, !.exports = 0]
                   /\ Erasing("exit")
              ELSE UNCHANGED <<rec, erase>>
    /\ UNCHANGED <<kind, grouped, reg, pc, lease, att, due, tx, acquires>>

-----------------------------------------------------------------------------
(* BindingRetentionSweepTask and what it observes.                         *)

Expire ==
    /\ pc = "made" /\ ~due /\ due' = TRUE
    /\ UNCHANGED <<kind, grouped, rec, reg, pc, lease, att, erase, tx, owner, acquires>>

Realize(s) ==
    /\ grouped /\ pc \in {"retain", "hand", "made"} /\ tx = "open" /\ tx' = s
    /\ UNCHANGED <<kind, grouped, rec, reg, pc, lease, att, erase, due, owner, acquires>>

SweepRetention ==
    /\ reg /\ Quiet("sweep") /\ ~rec.retired /\ rec.retained /\ ~rec.acquired /\ due
    /\ rec' = [rec EXCEPT !.retired = TRUE, !.retained = FALSE]
    /\ Erasing("sweep")
    /\ UNCHANGED <<kind, grouped, reg, pc, lease, att, due, tx, owner, acquires>>

(* Staged values that expired, or whose transaction ended unpublished.     *)
SweepStaged ==
    /\ reg /\ Quiet("sweep") /\ rec.staged /\ rec.refs = 0
    /\ (due /\ rec.serving) \/ tx = "aborted"
    /\ rec' = [rec EXCEPT !.staged = FALSE]
    /\ UNCHANGED <<kind, grouped, reg, pc, lease, att, erase, due, tx, owner, acquires>>

Next == \/ \E a \in Actors : EraseCheck(a) \/ EraseRecord(a)
        \/ CreateInsert \/ CreateStage \/ UndoRelease \/ UndoClose
        \/ \E ok \in BOOLEAN : CreateMint(ok) \/ CreateToken(ok) \/ CreateReport(ok)
        \/ PrefetchRetain \/ PrefetchCancel \/ PrefetchRetire \/ PrefetchHandOver
        \/ \E w \in Workers : \/ VerifyPublished(w) \/ ValidateStaged(w) \/ AcquireStaged(w)
                              \/ Validate(w) \/ Acquire(w) \/ AcquireLocal(w)
                              \/ MintAttachment(w) \/ GiveAttachment(w) \/ ReleaseAttachment(w)
        \/ ReleaseLease \/ Close \/ ExitLeases \/ ExitBinding
        \/ Expire \/ SweepRetention \/ SweepStaged
        \/ \E s \in {"published", "aborted"} : Realize(s)

Spec == Init /\ [][Next]_vars

-----------------------------------------------------------------------------
(* Active attachments prevent free: a record that an attachment counts on  *)
(* is not erased, although the reasons to keep it are read under one lock  *)
(* and the record is erased under another.                                 *)
AttachedKept == Counted # {} => reg /\ rec.refs = Cardinality(Counted)

(* The export lease keeps the record while its owner lives.                *)
ExportedKept == lease = "held" /\ owner = "alive" => reg /\ rec.exports = 1

(* A record nobody has a reason to keep is on its way out: whichever call  *)
(* dropped the last reason has its removal still to finish.                *)
UnkeptErased == reg /\ pc # "insert" /\ Reclaimable => \E a \in Actors : ~Quiet(a)

(* A creation that failed leaves nothing behind.                           *)
FailedGone == pc = "failed" /\ (\A a \in Actors : Quiet(a)) /\ Counted = {} => ~reg

=============================================================================

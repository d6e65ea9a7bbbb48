---------------------------- MODULE RequestLedger ----------------------------
(***************************************************************************)
(* What the transport scheduler promises about one idempotency key: a      *)
(* request is queued, holds one lease, and ends; a success is final, and   *)
(* only a failed or abandoned request can be submitted again.              *)
(***************************************************************************)
CONSTANT Requests

VARIABLE status

Status == {"absent", "queued", "leased", "succeeded", "failed", "abandoned"}

Init == status = [q \in Requests |-> "absent"]

\* Requests in the queue get a lease or are abandoned, several at a time.
Served(before, after) ==
  \/ after = before
  \/ before = "queued" /\ after \in {"leased", "abandoned"}

\* A submission re-enters the queue and may be served at once, with others.
Submit(q) ==
  /\ status[q] \in {"absent", "failed", "abandoned"}
  /\ status'[q] \in {"queued", "leased", "abandoned"}
  /\ \A x \in Requests \ {q} : Served(status[x], status'[x])

Serve == \A q \in Requests : Served(status[q], status'[q])

\* One lease ends at a time, and it ends once.
Finish(q) ==
  /\ status[q] = "leased"
  /\ \E end \in {"succeeded", "failed"} : status' = [status EXCEPT ![q] = end]

Next ==
  /\ status' \in [Requests -> Status]
  /\ \/ \E q \in Requests : Submit(q) \/ Finish(q)
     \/ Serve

Spec == Init /\ [][Next]_status
=============================================================================

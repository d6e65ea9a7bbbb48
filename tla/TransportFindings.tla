-------------------------- MODULE TransportFindings --------------------------
(***************************************************************************)
(* Statements that the documentation, a docstring or a test makes about    *)
(* the transport scheduler, and that TransportScheduler does not satisfy.  *)
(***************************************************************************)
EXTENDS MCTransportScheduler

\* A request id whose transport failed can be used again: a call is refused
\* only for a clash with another request, or for sending another payload under
\* an id in use.  The retry of a part of a group is refused because of the
\* request's own failed transport.
\* tests/python/global_store/test_services.py:817, against
\* transport_service.py _validate_group_contract_with_cursor.
FailedRequestIsRecyclable ==
  [][\A c \in Callers :
       caller[c].pc = "enqueue" /\ caller'[c].pc = "rejected" =>
         LET q == caller[c].request
             p == caller[c].payload
         IN \/ \E x \in EnqueuedIn(pending) \ {q} : Clash(pending[x].payload, p)
            \/ \E t \in DOMAIN transport : t[1] # q /\ Clash(transport[t].payload, p)
            \/ q \in DOMAIN pending /\ pending[q].payload # p]_vars

\* TimeoutError means that no replica was available: a caller that gives up
\* leaves no transport in flight for its request that no caller knows of.  The
\* pass that found nothing and mark_cancelled are separate steps, and the
\* result of mark_cancelled is not looked at, so a dispatch in between goes
\* unnoticed.
\* transport_service.py:445.
TimeoutMeansNoReplica ==
  [][\A c \in Callers :
       caller[c].pc = "check" /\ caller'[c].pc = "timed_out" =>
         \A t \in Carriers(transport, caller[c].request) :
           transport[t].status = "in_progress" =>
             \E d \in Callers : caller[d].found = t]_vars

\* A replica serves at most max_concurrency transfers: a transport is placed
\* only within that limit, whatever became of the replica's counter row.  A
\* registration between the two statements of delete() starts the counter of
\* a loaded replica again from zero.
\* tensorcast/global_store/README.md:129.
ConcurrencyRespected ==
  [][\A r \in DOMAIN replica :
       ~(InFlight(r)' \subseteq InFlight(r)) =>
         Cardinality(InFlight(r)') <= replica[r].max]_vars

\* Drain waits for the transports in flight: a registered replica that reads
\* as drained has none.  A replica without a counter row reads as drained.
\* docs/designs/0072-replica-promotion-export.md:154.
DrainedMeansNoTransports ==
  \A r \in DOMAIN replica : CurrentRequests(r) = 0 => InFlight(r) = {}
=============================================================================

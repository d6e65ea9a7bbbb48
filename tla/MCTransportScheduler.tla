------------------------ MODULE MCTransportScheduler ------------------------
(***************************************************************************)
(* Small instances of TransportScheduler for TLC.                          *)
(***************************************************************************)
EXTENDS TransportScheduler, TLC

CONSTANTS q1, q2, l1, canonical, view, g

AllCanonical == [l \in Locations |-> canonical]

Plain(v) == [view |-> v, group |-> Null, part |-> 0, total |-> 0]
Part(v, n) == [view |-> v, group |-> g, part |-> n, total |-> 2]

PlainPayloads == {Plain(canonical)}
PlainUses == {<<q, Plain(canonical)>> : q \in Requests}

\* Two byte spaces, and a request id reused with another payload.
ViewPayloads == {Plain(canonical), Plain(view)}
ViewUses == {<<q1, Plain(canonical)>>, <<q1, Plain(view)>>}

\* Two requests for parts of one group: both ask for part 1, one also for
\* part 2, and one for part 2 of another byte space.
GroupPayloads == {Part(canonical, 1), Part(canonical, 2), Part(view, 2)}
GroupUses == {<<q1, Part(canonical, 1)>>, <<q2, Part(canonical, 1)>>,
              <<q2, Part(canonical, 2)>>, <<q2, Part(view, 2)>>}

\* Request ids and callers are interchangeable where every request may send
\* the same payloads.
Symmetry == Permutations(Requests) \cup Permutations(Callers)
CallerSymmetry == Permutations(Callers)

=============================================================================

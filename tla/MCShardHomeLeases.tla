------------------------- MODULE MCShardHomeLeases -------------------------
(* Values of the constants of ShardHomeLeases for TLC.                        *)
EXTENDS ShardHomeLeases, TLC

CONSTANTS d1, d2, h1, h2

\* One handler at each of two daemons.
MCDaemonOf == h1 :> d1 @@ h2 :> d2

\* The two daemons are alike, each with its own handler.
MCSwap ==
  {f \in Permutations({d1, d2, h1, h2}) :
     \A h \in {h1, h2} : f[h] \in {h1, h2} /\ MCDaemonOf[f[h]] = f[MCDaemonOf[h]]}
=============================================================================

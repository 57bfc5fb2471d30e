----------------------------- MODULE MCCluster -----------------------------
(***************************************************************************)
(* The coordinator with its workers, for TLC.                              *)
(***************************************************************************)
EXTENDS Cluster, TLC

CONSTANTS c1, c2, w1, w2, a1

MCClients == {c1, c2}
MCOneClient == {c1}
MCNoGhosts == {}
MCOneGhost == {c2}
MCTwoIDs == {w1, w2}
MCAddresses == {a1}
MCZero == {0}

Symmetry == Permutations(WorkerIDs)
=============================================================================

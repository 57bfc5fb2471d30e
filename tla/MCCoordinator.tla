--------------------------- MODULE MCCoordinator ---------------------------
(***************************************************************************)
(* The coordinator alone, in an open environment, for TLC.                 *)
(***************************************************************************)
EXTENDS Coordinator

CONSTANTS c1, c2, w1, w2, a1, a2

MCClients == {c1, c2}
MCWorkerIDs == {w1, w2}
MCAddresses == {a1, a2}
MCDeltas == {1}
MCRates == {0, 1}
=============================================================================

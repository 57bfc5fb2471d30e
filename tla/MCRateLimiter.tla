--------------------------- MODULE MCRateLimiter ---------------------------
(***************************************************************************)
(* The rate limiter with a few handlers, two of them for the goroutines of *)
(* one worker, for TLC.                                                    *)
(***************************************************************************)
EXTENDS ClientBackoff, TLC

CONSTANTS h1, h2, h3, k1

MCHandlers == {h1, h2, h3}
MCCallers == {h1, h2}
MCKeys == {k1}
MCExempt == {}

Symmetry == Permutations(MCCallers)
=============================================================================

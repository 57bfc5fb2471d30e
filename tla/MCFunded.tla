------------------------------ MODULE MCFunded ------------------------------
(***************************************************************************)
(* The two halves of the funded package, for TLC: a small index with two   *)
(* wallets, and the files of the coordinator with one worker.  They share  *)
(* no variable, so a step of one half is seen only from the initial state  *)
(* of the other.                                                           *)
(***************************************************************************)
EXTENDS FundedIndex, CacheSync

CONSTANTS t1, t2, w1

MCHashes == 1..3
MCBalances == 1..3
MCFalsePositives == {{}, 0..3}
MCWallets ==
    {[compressed |-> 1, uncompressed |-> 2, p2sh |-> 2, taproot |-> 1],
     [compressed |-> 3, uncompressed |-> 1, p2sh |-> 3, taproot |-> 3]}

MCThresholds == {t1, t2}
MCWorkers == {w1}

FundedInit == IndexInit /\ Init

FundedNext ==
    \/ Init /\ IndexNext /\ UNCHANGED vars
    \/ IndexInit /\ Next /\ UNCHANGED indexVars

FundedSpec == FundedInit /\ [][FundedNext]_<<indexVars, vars>>
=============================================================================

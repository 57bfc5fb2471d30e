-------------------------- MODULE MCSearchForever --------------------------
(***************************************************************************)
(* Searches on small batches, for TLC: the standalone program's limited    *)
(* and bounded searches and the worker's with its reports, all in one      *)
(* directory.                                                              *)
(***************************************************************************)
EXTENDS StatsReport

MCConfigs ==
    {WorkerConfig,
     [forever |-> TRUE, limit |-> 3, checkpoints |-> TRUE],
     [forever |-> FALSE, limit |-> 3, checkpoints |-> FALSE]}
=============================================================================

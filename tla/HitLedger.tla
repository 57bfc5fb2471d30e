----------------------------- MODULE HitLedger -----------------------------
(***************************************************************************)
(* What the coordinator promises about wallets.txt: a ledger that only     *)
(* grows, where one coordinator process enters an address at most once and *)
(* never touches the entries of an earlier process.                        *)
(***************************************************************************)
EXTENDS Naturals

CONSTANTS Addresses, Processes

VARIABLES ledger, writer

vars == <<ledger, writer>>

Init ==
    /\ ledger = [p \in 1..Processes |-> [a \in Addresses |-> 0]]
    /\ writer = 1

\* The current process enters a new address.
Enter(a) ==
    /\ ledger[writer][a] = 0
    /\ ledger' = [ledger EXCEPT ![writer][a] = 1]
    /\ UNCHANGED writer

\* The next process takes over.
TakeOver ==
    /\ writer < Processes
    /\ writer' = writer + 1
    /\ UNCHANGED ledger

Next == TakeOver \/ \E a \in Addresses : Enter(a)

Spec == Init /\ [][Next]_vars
=============================================================================

--------------------------- MODULE ClientBackoff ---------------------------
(***************************************************************************)
(* The retries of the worker's client (src/worker/client.go, doJSON and    *)
(* DownloadCache) against the coordinator's rate limiter.                  *)
(*                                                                         *)
(* The main, poll, stats and heartbeat goroutines of a worker share one    *)
(* Client, and with it the field backoff, which no lock protects.  Some    *)
(* handlers of the limiter serve these callers, the others anybody else    *)
(* behind the same address.  A call that is refused, or fails in another   *)
(* way, is repeated after backoff.  The test of the cap loads the field,   *)
(* and the doubling loads it again and stores it; a compiler may also use  *)
(* the first load for both.  Between any of these accesses a goroutine may *)
(* be suspended while others double or reset the field.  A call whose      *)
(* context ends leaves the loop, which looks like one never repeated.      *)
(***************************************************************************)
EXTENDS RateLimiter

CONSTANTS
    Callers,  \* goroutines that share the client, each with its handler
    Base,     \* the first backoff, a second
    Cap,      \* doubling ends at Cap, 60 s
    MaxLoad   \* bound: the highest backoff a doubling loads again

ASSUME BackoffAssumption ==
    /\ Callers \subseteq Handlers
    /\ Base \in Nat \ {0}
    /\ Cap \in Nat /\ Base < Cap
    /\ MaxLoad \in Nat

VARIABLES
    backoff,  \* Client.backoff
    at,       \* where a caller is in doJSON
    wake,     \* when its time.After fires
    seen      \* the backoff it has loaded last and is about to double

clientVars == <<backoff, at, wake, seen>>
backoffVars == <<vars, clientVars>>

Stages == {"call", "sleep", "double"}

BackoffInit ==
    /\ Init
    /\ backoff = Base
    /\ at = [c \in Callers |-> "call"]
    /\ wake = [c \in Callers |-> 0]
    /\ seen = [c \in Callers |-> 0]

\* A caller sends its request, or sends it again.
Send(c, k) ==
    /\ at[c] = "call"
    /\ ReadClock(c, k)
    /\ UNCHANGED clientVars

\* A bug: a good reply clears the backoff, which no doubling raises again.
SucceedClears(c, k) ==
    /\ Grant(c, k)
    /\ at[c] = "call"
    /\ backoff' = 0
    /\ UNCHANGED <<at, wake, seen>>

\* The reply is good, or a 304.
Succeed(c, k) ==
    /\ Grant(c, k)
    /\ at[c] = "call"
    /\ backoff' = Base
    /\ UNCHANGED <<at, wake, seen>>

\* Refused, or admitted and failed: an error status, or no reply.
Fail(c, k) ==
    /\ Deny(c, k) \/ Grant(c, k)
    /\ at[c] = "call"
    /\ at' = [at EXCEPT ![c] = "sleep"]
    /\ wake' = [wake EXCEPT ![c] = clock + backoff]
    /\ UNCHANGED <<backoff, seen>>

Wake(c) ==
    /\ at[c] = "sleep"
    /\ clock >= wake[c]
    /\ wake' = [wake EXCEPT ![c] = 0]

\* The test finds the cap reached: the call is repeated at once.
AtCap(c) ==
    /\ Wake(c)
    /\ backoff >= Cap
    /\ at' = [at EXCEPT ![c] = "call"]
    /\ UNCHANGED <<vars, backoff, seen>>

\* The test allows a doubling.
BelowCap(c) ==
    /\ Wake(c)
    /\ backoff < Cap
    /\ at' = [at EXCEPT ![c] = "double"]
    /\ seen' = [seen EXCEPT ![c] = backoff]
    /\ UNCHANGED <<vars, backoff>>

\* The doubling loads the field as it is by now, which others may have doubled.
LoadAgain(c) ==
    /\ at[c] = "double"
    /\ backoff # seen[c] /\ backoff <= MaxLoad
    /\ seen' = [seen EXCEPT ![c] = backoff]
    /\ UNCHANGED <<vars, backoff, at, wake>>

\* The store, which may undo a doubling or a reset of another caller.
Double(c) ==
    /\ at[c] = "double"
    /\ backoff' = 2 * seen[c]
    /\ at' = [at EXCEPT ![c] = "call"]
    /\ seen' = [seen EXCEPT ![c] = 0]
    /\ UNCHANGED <<vars, wake>>

\* The other handlers serve requests of their own.
Others ==
    /\ \/ Tick
       \/ \E h \in Handlers \ Callers, k \in Keys :
             ReadClock(h, k) \/ Grant(h, k) \/ Deny(h, k)
    /\ UNCHANGED clientVars

BackoffNext ==
    \/ Others
    \/ \E c \in Callers :
          \/ AtCap(c) \/ BelowCap(c) \/ LoadAgain(c) \/ Double(c)
          \/ \E k \in Keys : Send(c, k) \/ Succeed(c, k) \/ Fail(c, k)

BackoffSpec == BackoffInit /\ [][BackoffNext]_backoffVars
-----------------------------------------------------------------------------
(* Properties.                                                             *)

\* A call that failed is not repeated at once, nor within the first backoff:
\* however the goroutines store old doubles over each other's doublings and
\* resets of the field, none reads a shorter wait from it (doJSON,
\* DownloadCache).
RetriesArePaced ==
    [][\A c \in Callers :
         at[c] = "call" /\ at'[c] = "sleep" => wake'[c] >= clock + Base]_backoffVars
=============================================================================

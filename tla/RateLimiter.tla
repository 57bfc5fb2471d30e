---------------------------- MODULE RateLimiter ----------------------------
(***************************************************************************)
(* The sliding-window rate limiter of src/coordinator/limits.go.           *)
(*                                                                         *)
(* allow reads the clock before it takes r.mu, so a request carries a      *)
(* stamp that may be old, and out of order, by the time it is decided.     *)
(* Between the two it is an entry of stamps.  MaxDelay bounds how long a   *)
(* handler goroutine can take from time.Now to the lock.                   *)
(*                                                                         *)
(* A bucket is a list of times whose order nothing reads: here it is a set *)
(* of numbered grants, each with its stamp and, for the properties only,   *)
(* the moment it was decided.                                              *)
(***************************************************************************)
EXTENDS Integers, FiniteSets

CONSTANTS
    Keys,      \* client addresses
    Handlers,  \* handler goroutines
    Limit,     \* requests per window, 0 where newRateLimiter returns nil
    Window,    \* length of the window
    MaxDelay,  \* longest time between time.Now and r.mu.Lock
    Exempt,    \* addresses inside --allow-cidr
    MaxTime    \* bound: the clock stops at MaxTime

ASSUME LimiterAssumption ==
    /\ Limit \in Nat
    /\ Window \in Nat \ {0}
    /\ MaxDelay \in Nat /\ MaxDelay < Window
    /\ MaxTime \in Nat
    /\ Exempt \subseteq Keys

VARIABLES
    clock,    \* time.Now
    stamps,   \* per handler and address: now, once read and not yet decided
    buckets,  \* r.buckets
    granted   \* every grant the limiter made, by address

vars == <<clock, stamps, buckets, granted>>

NotAsking == -1
Grants == [no : Nat \ {0}, stamp : Nat, at : Nat]

Init ==
    /\ clock = 0
    /\ stamps = [h \in Handlers |-> [k \in Keys |-> NotAsking]]
    /\ buckets = [k \in Keys |-> {}]
    /\ granted = [k \in Keys |-> {}]

\* A request from an exempt address, or to a route without a limiter, never
\* reaches allow.
Limited(k) == Limit > 0 /\ k \notin Exempt

ReadClock(h, k) ==
    /\ Limited(k)
    /\ stamps[h] = [x \in Keys |-> NotAsking]
    /\ stamps' = [stamps EXCEPT ![h][k] = clock]
    /\ UNCHANGED <<clock, buckets, granted>>

\* A bug: entries at the far end of the window are cut off one unit early.
RecentTooShort(k, now) == {g \in buckets[k] : g.stamp > now - Window + 1}

\* What is left of a bucket for a request stamped now: t.After(cutoff).
Recent(k, now) == {g \in buckets[k] : g.stamp > now - Window}

Answered(h, k) == stamps' = [stamps EXCEPT ![h][k] = NotAsking]

\* The grant of a request stamped now; numbers only keep grants apart.
NewGrant(k, now) == [no |-> Cardinality(granted[k]) + 1, stamp |-> now, at |-> clock]

\* Under r.mu: drop old times, and keep and admit this one if there is room.
Grant(h, k) ==
    /\ stamps[h][k] # NotAsking
    /\ Cardinality(Recent(k, stamps[h][k])) < Limit
    /\ LET g == NewGrant(k, stamps[h][k]) IN
         /\ buckets' = [buckets EXCEPT ![k] = Recent(k, stamps[h][k]) \cup {g}]
         /\ granted' = [granted EXCEPT ![k] = @ \cup {g}]
    /\ Answered(h, k)
    /\ UNCHANGED clock

\* A bug: a refused request counts against the limit as well.
DenyAndCharge(h, k) ==
    /\ stamps[h][k] # NotAsking
    /\ Cardinality(Recent(k, stamps[h][k])) >= Limit
    /\ buckets' = [buckets EXCEPT
                     ![k] = Recent(k, stamps[h][k])
                              \cup {[no |-> 0, stamp |-> stamps[h][k], at |-> clock]}]
    /\ Answered(h, k)
    /\ UNCHANGED <<clock, granted>>

\* 429.  The old times are dropped all the same, the request is not kept.
Deny(h, k) ==
    /\ stamps[h][k] # NotAsking
    /\ Cardinality(Recent(k, stamps[h][k])) >= Limit
    /\ buckets' = [buckets EXCEPT ![k] = Recent(k, stamps[h][k])]
    /\ Answered(h, k)
    /\ UNCHANGED <<clock, granted>>

\* Time passes, but no handler waits longer than MaxDelay for the lock.
Tick ==
    /\ clock < MaxTime
    /\ \A h \in Handlers, k \in Keys :
          stamps[h][k] # NotAsking => clock < stamps[h][k] + MaxDelay
    /\ clock' = clock + 1
    /\ UNCHANGED <<stamps, buckets, granted>>

Next ==
    \/ Tick
    \/ \E h \in Handlers, k \in Keys : ReadClock(h, k) \/ Grant(h, k) \/ Deny(h, k)

Spec == Init /\ [][Next]_vars
-----------------------------------------------------------------------------
(* Properties.                                                             *)

\* The limiter's data keeps its shape (rateLimiter).
TypeOK ==
    /\ clock \in Nat
    /\ stamps \in [Handlers -> [Keys -> Nat \cup {NotAsking}]]
    /\ buckets \in [Keys -> SUBSET Grants]
    /\ granted \in [Keys -> SUBSET Grants]

\* Grants of address k that were decided in the last Window - MaxDelay units.
InWindow(k) == {g \in granted[k] : g.at > clock - (Window - MaxDelay)}

\* At no moment were more than Limit requests of an address admitted within
\* the window, shortened by the time a stamp can be late, although handlers
\* decide in another order than they read the clock (allow).
WindowBound == \A k \in Keys : Limited(k) => Cardinality(InWindow(k)) <= Limit

Refused(h, k) ==
    stamps[h][k] # NotAsking /\ stamps'[h][k] = NotAsking /\ granted' = granted

\* A refused address has really been granted Limit requests stamped within the
\* window before the refused one, or later: refusals are never charged, so a
\* client that keeps asking is not shut out (allow, rateLimit).
RefusalsAreEarned ==
    [][\A h \in Handlers, k \in Keys :
         Refused(h, k) =>
            Cardinality({g \in granted[k] : g.stamp > stamps[h][k] - Window}) >= Limit]_vars
=============================================================================

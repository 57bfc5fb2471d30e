------------------------ MODULE ClientBackoffProofs ------------------------
(***************************************************************************)
(* Proofs about ClientBackoff, for any number of callers and any cap: each *)
(* step of the callers is one of the limiter or leaves the limiter alone,  *)
(* whatever the shared backoff has become, so that what RateLimiter        *)
(* promises holds under their retries.  The field and all that callers     *)
(* have loaded of it never fall below the first backoff.                   *)
(***************************************************************************)
EXTENDS ClientBackoff, RateLimiterProofs

\* Each step of the callers is one of the limiter or leaves it alone.
LEMMA StepOfLimiter == [BackoffNext]_backoffVars => [Next]_vars
  <1> SUFFICES ASSUME [BackoffNext]_backoffVars PROVE [Next]_vars
    OBVIOUS
  <1> USE BackoffAssumption
  <1>1. CASE Others
    BY <1>1 DEF Others, Next
  <1>2. ASSUME NEW c \in Callers,
               AtCap(c) \/ BelowCap(c) \/ LoadAgain(c) \/ Double(c)
        PROVE  UNCHANGED vars
    BY <1>2 DEF AtCap, BelowCap, LoadAgain, Double
  <1>3. ASSUME NEW c \in Callers, NEW k \in Keys, Send(c, k) \/ Succeed(c, k) \/ Fail(c, k)
        PROVE  Next
    BY <1>3 DEF Send, Succeed, Fail, Next
  <1>4. CASE UNCHANGED backoffVars
    BY <1>4 DEF backoffVars
  <1> QED
    BY <1>1, <1>2, <1>3, <1>4 DEF BackoffNext

\* A limiter that is shared by a worker's goroutines and other clients is the
\* limiter of RateLimiter (rateLimit, doJSON).
THEOREM LimiterRefined == BackoffSpec => Spec
  <1>1. BackoffInit => Init
    BY DEF BackoffInit
  <1> QED
    BY <1>1, StepOfLimiter, PTL DEF BackoffSpec, Spec

\* The limiter's invariant holds under the callers.
LEMMA LimiterInv == BackoffSpec => []IInv
  BY LimiterRefined, IInvHolds, PTL

\* The limiter keeps its types under the callers' retries.
THEOREM TypesUnderRetries == BackoffSpec => []TypeOK
  <1>1. IInv => TypeOK
    BY DEF IInv
  <1> QED
    BY <1>1, LimiterInv, PTL

\* The limit holds however the callers repeat their requests.
THEOREM WindowBoundUnderRetries == BackoffSpec => []WindowBound
  BY LimiterRefined, WindowBoundHolds, PTL

\* No caller is refused without cause, however the others repeat theirs.
THEOREM RefusalsUnderRetries == BackoffSpec => RefusalsAreEarned
  BY LimiterRefined, RefusalsEarned, PTL

\* Neither the field nor what a caller has loaded of it is below the first
\* backoff.  The field has no upper bound, and TypeOK gives the clock's type.
PaceInv ==
    /\ backoff \in Nat /\ Base <= backoff
    /\ seen \in [Callers -> Nat]
    /\ at \in [Callers -> Stages]
    /\ wake \in [Callers -> Nat]
    /\ \A c \in Callers : at[c] = "double" => Base <= seen[c]

\* Loads, stores and resets keep it, in any order.
LEMMA NextPaceInv == TypeOK /\ PaceInv /\ [BackoffNext]_backoffVars => PaceInv'
  <1> SUFFICES ASSUME TypeOK, PaceInv, [BackoffNext]_backoffVars PROVE PaceInv'
    OBVIOUS
  <1> USE BackoffAssumption DEF PaceInv, Stages
  <1>1. CASE Others
    BY <1>1 DEF Others, clientVars
  <1>2. ASSUME NEW c \in Callers, NEW k \in Keys, Send(c, k) \/ Succeed(c, k) \/ Fail(c, k)
        PROVE  PaceInv'
    <2>1. CASE Send(c, k) \/ Succeed(c, k)
      BY <2>1 DEF Send, Succeed, clientVars
    <2>2. CASE Fail(c, k)
      <3>1. /\ wake' = [wake EXCEPT ![c] = clock + backoff]
            /\ at' = [at EXCEPT ![c] = "sleep"]
            /\ UNCHANGED <<backoff, seen>>
        BY <2>2 DEF Fail
      <3>2. clock + backoff \in Nat
        BY DEF TypeOK
      <3> QED
        BY <3>1, <3>2
    <2> QED
      BY <1>2, <2>1, <2>2
  <1>3. ASSUME NEW c \in Callers, AtCap(c) \/ BelowCap(c) \/ LoadAgain(c)
        PROVE  PaceInv'
    BY <1>3 DEF AtCap, BelowCap, LoadAgain, Wake
  <1>4. ASSUME NEW c \in Callers, Double(c) PROVE PaceInv'
    <2>1. seen[c] \in Nat /\ Base <= seen[c]
      BY <1>4 DEF Double
    <2> QED
      BY <1>4, <2>1 DEF Double
  <1>5. CASE UNCHANGED backoffVars
    BY <1>5 DEF backoffVars, clientVars
  <1> QED
    BY <1>1, <1>2, <1>3, <1>4, <1>5 DEF BackoffNext

\* A failed call sleeps for at least the first backoff.
LEMMA SleepsOfFails ==
    ASSUME TypeOK, PaceInv, [BackoffNext]_backoffVars, NEW c \in Callers,
           at[c] = "call", at'[c] = "sleep"
    PROVE  wake'[c] >= clock + Base
  <1> USE BackoffAssumption
  <1>1. CASE \E k \in Keys : Fail(c, k)
    BY <1>1 DEF Fail, TypeOK, PaceInv
  <1>2. ASSUME NEW d \in Callers, NEW k \in Keys, Send(d, k) \/ Succeed(d, k)
        PROVE  FALSE
    BY <1>2 DEF Send, Succeed, clientVars
  <1>3. ASSUME NEW d \in Callers, d # c, NEW k \in Keys, Fail(d, k) PROVE FALSE
    BY <1>3 DEF Fail, PaceInv
  <1>4. ASSUME NEW d \in Callers,
               AtCap(d) \/ BelowCap(d) \/ LoadAgain(d) \/ Double(d)
        PROVE  FALSE
    BY <1>4 DEF AtCap, BelowCap, LoadAgain, Double, Wake, PaceInv
  <1>5. CASE Others \/ UNCHANGED backoffVars
    BY <1>5 DEF Others, backoffVars, clientVars
  <1> QED
    BY <1>1, <1>2, <1>3, <1>4, <1>5 DEF BackoffNext

\* Whatever the race on the field, failed calls are repeated no sooner than
\* after the first backoff (doJSON, DownloadCache).
THEOREM RetriesPaced == BackoffSpec => RetriesArePaced
  <1>1. BackoffInit => PaceInv
    BY BackoffAssumption DEF BackoffInit, PaceInv, Stages
  <1>2. BackoffSpec => []PaceInv
    BY <1>1, NextPaceInv, TypesUnderRetries, PTL DEF BackoffSpec
  <1>3. TypeOK /\ PaceInv /\ [BackoffNext]_backoffVars
          => [\A c \in Callers : at[c] = "call" /\ at'[c] = "sleep"
                => wake'[c] >= clock + Base]_backoffVars
    BY SleepsOfFails
  <1> QED
    BY <1>2, <1>3, TypesUnderRetries, PTL DEF BackoffSpec, RetriesArePaced
=============================================================================

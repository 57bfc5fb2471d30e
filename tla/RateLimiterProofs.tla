------------------------- MODULE RateLimiterProofs -------------------------
(***************************************************************************)
(* Proofs about RateLimiter: the limit holds for every window, delay,      *)
(* number of handlers and number of addresses.  The invariant says that a  *)
(* bucket still has every grant of the shortened window, because a stamp   *)
(* is at most MaxDelay older than the moment it is used.                   *)
(***************************************************************************)
EXTENDS RateLimiter, FiniteSetTheorems, TLAPS

\* A stamp in use is not from the future and at most MaxDelay old.
AskingInv ==
    \A h \in Handlers, k \in Keys :
        stamps[h][k] # NotAsking =>
            stamps[h][k] <= clock /\ clock <= stamps[h][k] + MaxDelay

\* A grant was decided at most MaxDelay after it was stamped.
GrantInv ==
    \A k \in Keys : \A g \in granted[k] :
        g.at <= clock /\ g.stamp <= g.at /\ g.at <= g.stamp + MaxDelay

\* A bucket is within the limit and still holds the grants of the window.
BucketInv ==
    \A k \in Keys :
        /\ IsFiniteSet(buckets[k])
        /\ Cardinality(buckets[k]) <= Limit
        /\ IsFiniteSet(granted[k])
        /\ \A g \in granted[k] : g.at > clock - (Window - MaxDelay) => g \in buckets[k]

IInv == TypeOK /\ AskingInv /\ GrantInv /\ BucketInv

\* Nobody asks and nothing is granted at first.
LEMMA InitIInv == Init => IInv
  <1> SUFFICES ASSUME Init PROVE IInv
    OBVIOUS
  <1>1. TypeOK
    BY DEF Init, TypeOK
  <1>2. AskingInv /\ GrantInv
    BY DEF Init, AskingInv, GrantInv
  <1>3. BucketInv
    BY FS_EmptySet, LimiterAssumption DEF Init, BucketInv
  <1> QED
    BY <1>1, <1>2, <1>3 DEF IInv

\* Dropping the times before the cutoff of a stamp in use keeps the window.
LEMMA RecentKeeps ==
    ASSUME IInv, NEW h \in Handlers, NEW k \in Keys, stamps[h][k] # NotAsking
    PROVE  /\ IsFiniteSet(Recent(k, stamps[h][k]))
           /\ Cardinality(Recent(k, stamps[h][k])) \in Nat
           /\ Cardinality(Recent(k, stamps[h][k])) <= Limit
           /\ Recent(k, stamps[h][k]) \in SUBSET Grants
           /\ \A g \in granted[k] :
                 g.at > clock - (Window - MaxDelay) => g \in Recent(k, stamps[h][k])
  <1> DEFINE now == stamps[h][k]
             R == Recent(k, now)
  <1>1. now \in Nat /\ now <= clock /\ clock \in Nat
    BY DEF IInv, TypeOK, AskingInv, NotAsking
  <1>2. R \in SUBSET buckets[k] /\ IsFiniteSet(buckets[k])
    BY DEF Recent, IInv, BucketInv
  <1>3. IsFiniteSet(R) /\ Cardinality(R) <= Cardinality(buckets[k])
    BY <1>2, FS_Subset
  <1>4. /\ Cardinality(R) \in Nat
        /\ Cardinality(buckets[k]) \in Nat
        /\ Cardinality(buckets[k]) <= Limit
    BY <1>2, <1>3, FS_CardinalityType DEF IInv, BucketInv
  <1>5. R \in SUBSET Grants
    BY <1>2 DEF IInv, TypeOK
  <1>6. ASSUME NEW g \in granted[k], g.at > clock - (Window - MaxDelay)
        PROVE  g \in R
    <2>1. g \in Grants /\ g.at <= g.stamp + MaxDelay /\ g \in buckets[k]
      BY <1>6 DEF IInv, TypeOK, GrantInv, BucketInv
    <2>2. g.stamp > now - Window
      BY <1>1, <1>6, <2>1, LimiterAssumption DEF Grants
    <2> QED
      BY <2>1, <2>2 DEF Recent
  <1> QED
    BY <1>3, <1>4, <1>5, <1>6, LimiterAssumption

\* Every step keeps the buckets complete and within the limit.
LEMMA NextIInv == IInv /\ [Next]_vars => IInv'
  <1> SUFFICES ASSUME IInv, [Next]_vars PROVE IInv'
    OBVIOUS
  <1>1. ASSUME Tick PROVE IInv'
    <2>1. clock' = clock + 1 /\ clock \in Nat /\ UNCHANGED <<stamps, buckets, granted>>
      BY <1>1 DEF Tick, IInv, TypeOK
    <2>2. TypeOK'
      BY <2>1 DEF IInv, TypeOK
    <2>3. AskingInv'
      BY <1>1, <2>1, LimiterAssumption DEF Tick, IInv, TypeOK, AskingInv, NotAsking
    <2>4. GrantInv'
      BY <2>1 DEF IInv, TypeOK, GrantInv, Grants
    <2>5. BucketInv'
      <3>1. ASSUME NEW k \in Keys, NEW g \in granted[k],
                   g.at > clock' - (Window - MaxDelay)
            PROVE  g.at > clock - (Window - MaxDelay)
        BY <2>1, <3>1, LimiterAssumption DEF IInv, TypeOK, Grants
      <3> QED
        BY <2>1, <3>1 DEF IInv, BucketInv
    <2> QED
      BY <2>2, <2>3, <2>4, <2>5 DEF IInv
  <1>2. ASSUME NEW h \in Handlers, NEW k \in Keys, ReadClock(h, k) PROVE IInv'
    <2>1. TypeOK'
      BY <1>2 DEF ReadClock, IInv, TypeOK
    <2>2. AskingInv'
      BY <1>2, LimiterAssumption DEF ReadClock, IInv, TypeOK, AskingInv
    <2>3. GrantInv' /\ BucketInv'
      BY <1>2 DEF ReadClock, IInv, GrantInv, BucketInv
    <2> QED
      BY <2>1, <2>2, <2>3 DEF IInv
  <1>3. ASSUME NEW h \in Handlers, NEW k \in Keys, Grant(h, k) PROVE IInv'
    <2> DEFINE now == stamps[h][k]
               g == NewGrant(k, now)
               R == Recent(k, now)
    <2>0. now # NotAsking /\ now \in Nat /\ now <= clock /\ clock <= now + MaxDelay
      BY <1>3 DEF Grant, IInv, TypeOK, AskingInv, NotAsking
    <2>1. /\ IsFiniteSet(R) /\ Cardinality(R) \in Nat /\ R \in SUBSET Grants
          /\ \A x \in granted[k] : x.at > clock - (Window - MaxDelay) => x \in R
      BY <2>0, RecentKeeps
    <2>2. Cardinality(R) < Limit
      BY <1>3 DEF Grant
    <2>3. g \in Grants /\ g.stamp = now /\ g.at = clock
      <3>1. Cardinality(granted[k]) \in Nat
        BY FS_CardinalityType DEF IInv, BucketInv
      <3> QED
        BY <2>0, <3>1 DEF NewGrant, Grants, IInv, TypeOK
    <2>4. /\ buckets' = [buckets EXCEPT ![k] = R \cup {g}]
          /\ granted' = [granted EXCEPT ![k] = granted[k] \cup {g}]
          /\ stamps' = [stamps EXCEPT ![h][k] = NotAsking]
          /\ UNCHANGED clock
      BY <1>3 DEF Grant, Answered
    <2>5. TypeOK'
      BY <2>1, <2>3, <2>4 DEF IInv, TypeOK
    <2>6. AskingInv'
      BY <2>4 DEF IInv, TypeOK, AskingInv
    <2>7. GrantInv'
      BY <2>0, <2>3, <2>4 DEF IInv, TypeOK, GrantInv
    <2>8. IsFiniteSet(R \cup {g}) /\ Cardinality(R \cup {g}) <= Limit
      <3> HIDE DEF R, g
      <3>0. IsFiniteSet(R)
        BY <2>1
      <3>1. /\ IsFiniteSet(R \cup {g})
            /\ Cardinality(R \cup {g}) =
                 IF g \in R THEN Cardinality(R) ELSE Cardinality(R) + 1
        BY <3>0, FS_AddElement, Zenon
      <3> QED
        BY <2>1, <2>2, <3>1, LimiterAssumption
    <2>9. IsFiniteSet(granted[k] \cup {g})
      BY FS_AddElement DEF IInv, BucketInv
    <2>10. BucketInv'
      BY <2>1, <2>4, <2>8, <2>9 DEF IInv, TypeOK, BucketInv
    <2> QED
      BY <2>5, <2>6, <2>7, <2>10 DEF IInv
  <1>4. ASSUME NEW h \in Handlers, NEW k \in Keys, Deny(h, k) PROVE IInv'
    <2> DEFINE R == Recent(k, stamps[h][k])
    <2>1. /\ IsFiniteSet(R) /\ Cardinality(R) <= Limit /\ R \in SUBSET Grants
          /\ \A x \in granted[k] : x.at > clock - (Window - MaxDelay) => x \in R
      BY <1>4, RecentKeeps DEF Deny
    <2>2. /\ buckets' = [buckets EXCEPT ![k] = R]
          /\ stamps' = [stamps EXCEPT ![h][k] = NotAsking]
          /\ UNCHANGED <<clock, granted>>
      BY <1>4 DEF Deny, Answered
    <2>3. TypeOK'
      BY <2>1, <2>2 DEF IInv, TypeOK
    <2>4. AskingInv' /\ GrantInv'
      BY <2>2 DEF IInv, TypeOK, AskingInv, GrantInv
    <2>5. BucketInv'
      BY <2>1, <2>2 DEF IInv, TypeOK, BucketInv
    <2> QED
      BY <2>3, <2>4, <2>5 DEF IInv
  <1>5. CASE UNCHANGED vars
    BY <1>5 DEF vars, IInv, TypeOK, AskingInv, GrantInv, BucketInv
  <1> QED
    BY <1>1, <1>2, <1>3, <1>4, <1>5 DEF Next

\* They stay so throughout.
LEMMA IInvHolds == Spec => []IInv
  BY InitIInv, NextIInv, PTL DEF Spec

\* In every execution at most Limit requests of an address are admitted within
\* the window shortened by the lateness of a stamp (allow).
THEOREM WindowBoundHolds == Spec => []WindowBound
  <1>1. ASSUME IInv PROVE WindowBound
    <2> SUFFICES ASSUME NEW k \in Keys PROVE Cardinality(InWindow(k)) <= Limit
      BY DEF WindowBound
    <2>1. InWindow(k) \in SUBSET buckets[k] /\ IsFiniteSet(buckets[k])
      BY <1>1 DEF InWindow, IInv, BucketInv
    <2>2. IsFiniteSet(InWindow(k)) /\ Cardinality(InWindow(k)) <= Cardinality(buckets[k])
      BY <2>1, FS_Subset
    <2>3. Cardinality(buckets[k]) <= Limit
      BY <1>1 DEF IInv, BucketInv
    <2>4. Cardinality(InWindow(k)) \in Nat /\ Cardinality(buckets[k]) \in Nat
      BY <2>1, <2>2, FS_CardinalityType
    <2> QED
      BY <2>2, <2>3, <2>4, LimiterAssumption
  <1> QED
    BY <1>1, IInvHolds, PTL
\* The limiter's data keeps its shape for all constants (rateLimiter).
THEOREM TypeCorrect == Spec => []TypeOK
  <1>1. IInv => TypeOK
    BY DEF IInv
  <1> QED
    BY <1>1, IInvHolds, PTL

\* Only grants are in a bucket, and they are numbered up to how many there are.
ChargedInv ==
    \A k \in Keys :
        /\ buckets[k] \subseteq granted[k]
        /\ \A g \in granted[k] : g.no <= Cardinality(granted[k])

\* The number of a new grant is beyond all others.
LEMMA NewGrantIsNew ==
    ASSUME IInv, ChargedInv, NEW k \in Keys, NEW now
    PROVE  /\ Cardinality(granted[k]) \in Nat
           /\ NewGrant(k, now) \notin granted[k]
           /\ Cardinality(granted[k] \cup {NewGrant(k, now)}) = Cardinality(granted[k]) + 1
  <1>1. IsFiniteSet(granted[k])
    BY DEF IInv, BucketInv
  <1>2. Cardinality(granted[k]) \in Nat
    BY <1>1, FS_CardinalityType
  <1>3. NewGrant(k, now).no = Cardinality(granted[k]) + 1
    BY DEF NewGrant
  <1>4. NewGrant(k, now) \notin granted[k]
    BY <1>2, <1>3 DEF ChargedInv
  <1>5. Cardinality(granted[k] \cup {NewGrant(k, now)}) = Cardinality(granted[k]) + 1
    <2> DEFINE g == NewGrant(k, now)
    <2> HIDE DEF g
    <2>1. Cardinality(granted[k] \cup {g}) =
            IF g \in granted[k] THEN Cardinality(granted[k]) ELSE Cardinality(granted[k]) + 1
      BY <1>1, FS_AddElement, Zenon
    <2> QED
      BY <1>4, <2>1 DEF g
  <1> QED
    BY <1>2, <1>4, <1>5

\* Every step keeps the buckets to what was granted.
LEMMA NextCharged == IInv /\ ChargedInv /\ [Next]_vars => ChargedInv'
  <1> SUFFICES ASSUME IInv, ChargedInv, [Next]_vars PROVE ChargedInv'
    OBVIOUS
  <1>1. ASSUME UNCHANGED <<buckets, granted>> PROVE ChargedInv'
    BY <1>1 DEF ChargedInv
  <1>2. CASE Tick \/ UNCHANGED vars \/ \E h \in Handlers, k \in Keys : ReadClock(h, k)
    BY <1>1, <1>2 DEF Tick, vars, ReadClock
  <1>3. ASSUME NEW h \in Handlers, NEW k \in Keys, Grant(h, k) PROVE ChargedInv'
    <2> DEFINE g == NewGrant(k, stamps[h][k])
               R == Recent(k, stamps[h][k])
    <2>1. /\ buckets' = [buckets EXCEPT ![k] = R \cup {g}]
          /\ granted' = [granted EXCEPT ![k] = granted[k] \cup {g}]
      BY <1>3 DEF Grant
    <2>2. R \subseteq granted[k]
      BY DEF Recent, ChargedInv
    <2>3. g.no = Cardinality(granted[k]) + 1
      BY DEF NewGrant
    <2>4. /\ Cardinality(granted[k]) \in Nat
          /\ Cardinality(granted[k] \cup {g}) = Cardinality(granted[k]) + 1
      BY NewGrantIsNew
    <2>5. \A x \in granted[k] : x.no \in Nat
      BY DEF IInv, TypeOK, Grants
    <2>6. /\ buckets \in [Keys -> SUBSET Grants]
          /\ granted \in [Keys -> SUBSET Grants]
      BY DEF IInv, TypeOK
    <2> HIDE DEF g, R
    <2>7. \A x \in granted[k] \cup {g} : x.no <= Cardinality(granted[k] \cup {g})
      BY <2>3, <2>4, <2>5 DEF ChargedInv
    <2> QED
      BY <2>1, <2>2, <2>6, <2>7 DEF ChargedInv
  <1>4. ASSUME NEW h \in Handlers, NEW k \in Keys, Deny(h, k) PROVE ChargedInv'
    <2>1. /\ buckets' = [buckets EXCEPT ![k] = Recent(k, stamps[h][k])]
          /\ granted' = granted
      BY <1>4 DEF Deny
    <2> QED
      BY <2>1 DEF ChargedInv, Recent, IInv, TypeOK
  <1> QED
    BY <1>2, <1>3, <1>4 DEF Next

\* What is in a bucket was granted, throughout.
LEMMA ChargedHolds == Spec => []ChargedInv
  <1>1. Init => ChargedInv
    BY FS_EmptySet DEF Init, ChargedInv
  <1> QED
    BY <1>1, NextCharged, IInvHolds, PTL DEF Spec

\* No client is refused unless it used up its limit (allow).
THEOREM RefusalsEarned == Spec => RefusalsAreEarned
  <1> DEFINE Earned(h, k) ==
        Cardinality({g \in granted[k] : g.stamp > stamps[h][k] - Window}) >= Limit
  <1>1. ASSUME IInv, ChargedInv, [Next]_vars,
               NEW h \in Handlers, NEW k \in Keys, Refused(h, k)
        PROVE  Earned(h, k)
    <2>1. /\ stamps[h][k] # NotAsking /\ stamps'[h][k] = NotAsking
          /\ granted' = granted
      BY <1>1 DEF Refused
    <2>2. stamps \in [Handlers -> [Keys -> Nat \cup {NotAsking}]]
      BY <1>1 DEF IInv, TypeOK
    <2>3. ~Tick /\ ~UNCHANGED vars
      BY <2>1 DEF Tick, vars
    <2>4. ASSUME NEW x \in Handlers, NEW y \in Keys, ReadClock(x, y) PROVE FALSE
      BY <1>1, <2>1, <2>2, <2>4 DEF ReadClock, IInv, TypeOK, NotAsking
    <2>5. ASSUME NEW x \in Handlers, NEW y \in Keys, Grant(x, y) PROVE FALSE
      <3>1. NewGrant(y, stamps[x][y]) \notin granted[y]
        BY <1>1, NewGrantIsNew
      <3>2. granted' = [granted EXCEPT ![y] = granted[y] \cup {NewGrant(y, stamps[x][y])}]
        BY <2>5 DEF Grant
      <3>3. granted \in [Keys -> SUBSET Grants]
        BY <1>1 DEF IInv, TypeOK
      <3> QED
        BY <2>1, <3>1, <3>2, <3>3
    <2>6. ASSUME NEW x \in Handlers, NEW y \in Keys, Deny(x, y) PROVE x = h /\ y = k
      BY <2>1, <2>2, <2>6 DEF Deny, Answered
    <2>7. Deny(h, k)
      BY <1>1, <2>3, <2>4, <2>5, <2>6 DEF Next
    <2> DEFINE A == {g \in granted[k] : g.stamp > stamps[h][k] - Window}
               R == Recent(k, stamps[h][k])
    <2>8. R \subseteq A /\ A \subseteq granted[k] /\ IsFiniteSet(granted[k])
      BY <1>1 DEF Recent, ChargedInv, IInv, BucketInv
    <2>9. IsFiniteSet(A) /\ IsFiniteSet(R)
      BY <2>8, FS_Subset
    <2>10. Cardinality(R) <= Cardinality(A)
      BY <2>8, <2>9, FS_Subset
    <2>11. Cardinality(R) \in Nat /\ Cardinality(A) \in Nat
      BY <2>9, FS_CardinalityType
    <2>12. Cardinality(R) >= Limit
      BY <2>7 DEF Deny
    <2> QED
      BY <2>10, <2>11, <2>12, LimiterAssumption
  <1>2. IInv /\ ChargedInv /\ [Next]_vars =>
          [\A h \in Handlers, k \in Keys : Refused(h, k) => Earned(h, k)]_vars
    BY <1>1
  <1> QED
    BY <1>2, IInvHolds, ChargedHolds, PTL DEF Spec, RefusalsAreEarned
=============================================================================

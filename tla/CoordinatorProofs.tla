------------------------- MODULE CoordinatorProofs -------------------------
(***************************************************************************)
(* Proofs about Coordinator: type correctness, the inductive invariants    *)
(* behind the safety properties, and the refinement of HitLedger.          *)
(***************************************************************************)
EXTENDS Coordinator, FiniteSetTheorems, TLAPS

-----------------------------------------------------------------------------
(* Type correctness.                                                       *)

\* Ages stay in their range.
LEMMA OlderType ==
    ASSUME NEW age \in 0..OldAge
    PROVE  Older(age) \in 0..OldAge
  BY SizeAssumption DEF Older, OldAge

\* The missing entry is an entry.
LEMMA OfflineType == Offline \in WorkerEntry
  BY SizeAssumption, ValueAssumption DEF Offline, WorkerEntry, WorkerStates, OldAge

\* A new Server has its types.
LEMMA InitType == Init => TypeOK
  <1> SUFFICES ASSUME Init PROVE TypeOK
    OBVIOUS
  <1>1. workers \in [WorkerIDs -> WorkerEntry]
    BY OfflineType DEF Init
  <1>2. wallets \in [1..Processes -> [Addresses -> Nat]]
    BY DEF Init, NoRecords
  <1>3. clusterKPS \in [WorkerIDs -> Rates]
    BY ValueAssumption DEF Init, NoRates
  <1>4. clusterTotal \in 0..MaxTotal /\ pruneIn \in 0..PruneEvery /\ process \in 1..Processes
    BY SizeAssumption DEF Init
  <1> QED
    BY <1>1, <1>2, <1>3, <1>4 DEF Init, TypeOK, RunStates

\* Every handler and every step of Run keeps the types.
LEMMA NextType == TypeOK /\ [Next]_coordVars => TypeOK'
  <1> SUFFICES ASSUME TypeOK, [Next]_coordVars PROVE TypeOK'
    OBVIOUS
  <1> USE SizeAssumption, ValueAssumption DEF TypeOK
  <1>1. ASSUME NEW c \in Clients, AdmitRegister(c) PROVE TypeOK'
    BY <1>1 DEF AdmitRegister, serverVars, processVars
  <1>2. ASSUME NEW c \in Clients, RefuseRegister(c) PROVE TypeOK'
    BY <1>2 DEF RefuseRegister, serverVars, processVars
  <1>3. ASSUME NEW c \in Clients, NEW w \in WorkerIDs, Register(c, w) PROVE TypeOK'
    <2>1. [state |-> "waiting", age |-> 0, kps |-> 0] \in WorkerEntry
      BY DEF WorkerEntry, WorkerStates, OldAge
    <2>2. workers' \in [WorkerIDs -> WorkerEntry]
      BY <1>3, <2>1 DEF Register, AddWorker
    <2> QED
      BY <1>3, <2>2 DEF Register, AddWorker, serverVars, processVars
  <1>4. ASSUME NEW w \in WorkerIDs, NEW state \in {"waiting", "running"},
               Heartbeat(w, state)
        PROVE  TypeOK'
    <2>1. [state |-> state, age |-> 0, kps |-> workers[w].kps] \in WorkerEntry
      BY DEF WorkerEntry, WorkerStates, OldAge
    <2>2. workers' \in [WorkerIDs -> WorkerEntry]
      BY <1>4, <2>1 DEF Heartbeat
    <2> QED
      BY <1>4, <2>2 DEF Heartbeat, serverVars, processVars
  <1>5. ASSUME NEW w \in WorkerIDs, NEW delta \in Deltas, NEW kps \in Rates,
               RecordStats(w, delta, kps)
        PROVE  TypeOK'
    <2>1. workers' \in [WorkerIDs -> WorkerEntry]
      BY <1>5 DEF RecordStats, WorkerEntry, WorkerStates, OldAge
    <2>2. clusterTotal' \in 0..MaxTotal
      BY <1>5 DEF RecordStats
    <2>3. clusterKPS' \in [WorkerIDs -> Rates]
      BY <1>5, <2>1 DEF RecordStats, WorkerEntry
    <2> QED
      BY <1>5, <2>1, <2>2, <2>3 DEF RecordStats, processVars
  <1>6. ASSUME NEW w \in WorkerIDs, NEW a \in Addresses, NEW outcome \in AppendOutcomes,
               HandleHit(w, a, outcome)
        PROVE  TypeOK'
    <2>1. wallets' \in [1..Processes -> [Addresses -> Nat]]
      BY <1>6 DEF HandleHit, AppendRecord
    <2>2. clusterHits' \in Nat
      BY <1>6 DEF HandleHit
    <2> QED
      BY <1>6, <2>1, <2>2 DEF HandleHit, processVars
  <1>7. ASSUME Tick PROVE TypeOK'
    <2>1. ASSUME NEW w \in WorkerIDs
          PROVE  [workers[w] EXCEPT !.age = Older(@)] \in WorkerEntry
      BY OlderType DEF WorkerEntry
    <2>2. workers' \in [WorkerIDs -> WorkerEntry]
      BY <1>7, <2>1 DEF Tick
    <2>3. pruneIn' \in 0..PruneEvery
      BY <1>7 DEF Tick
    <2> QED
      BY <1>7, <2>2, <2>3 DEF Tick, serverVars, processVars
  <1>8. ASSUME PruneStale PROVE TypeOK'
    <2>1. workers' \in [WorkerIDs -> WorkerEntry]
      BY <1>8, OfflineType DEF PruneStale
    <2>2. pruneIn' \in 0..PruneEvery
      BY <1>8 DEF PruneStale
    <2> QED
      BY <1>8, <2>1, <2>2 DEF PruneStale, serverVars, processVars
  <1>9. ASSUME StartRun PROVE TypeOK'
    <2>1. ASSUME NEW w \in WorkerIDs
          PROVE  [state |-> "running", age |-> workers[w].age, kps |-> 0] \in WorkerEntry
      BY DEF WorkerEntry, WorkerStates
    <2>2. workers' \in [WorkerIDs -> WorkerEntry]
      BY <1>9, <2>1 DEF StartRun
    <2>3. clusterTotal' \in 0..MaxTotal /\ runState' \in RunStates
      BY <1>9 DEF StartRun, RunStates
    <2> QED
      BY <1>9, <2>2, <2>3 DEF StartRun, processVars
  <1>10. ASSUME Interrupt \/ StopRun \/ EndRun PROVE TypeOK'
    <2>1. CASE Interrupt
      BY <2>1 DEF Interrupt, serverVars
    <2>2. CASE StopRun
      BY <2>2 DEF StopRun, RunStates, serverVars, processVars
    <2>3. CASE EndRun
      BY <2>3 DEF EndRun, RunStates, serverVars, processVars
    <2> QED
      BY <1>10, <2>1, <2>2, <2>3
  <1>11. ASSUME Shutdown \/ Crash PROVE TypeOK'
    <2>1. Gone
      BY <1>11 DEF Shutdown, Crash
    <2>2. workers' \in [WorkerIDs -> WorkerEntry] /\ clusterKPS' \in [WorkerIDs -> Rates]
      BY <2>1, OfflineType DEF Gone, NoRates
    <2>3. clusterTotal' \in 0..MaxTotal /\ pruneIn' \in 0..PruneEvery /\ runState' \in RunStates
      BY <2>1 DEF Gone, RunStates
    <2>4. interrupted' \in BOOLEAN /\ serving' \in BOOLEAN
      BY <2>1 DEF Gone
    <2> QED
      BY <2>1, <2>2, <2>3, <2>4 DEF Gone
  <1>12. ASSUME Restart PROVE TypeOK'
    BY <1>12 DEF Restart, serverVars
  <1>13. CASE UNCHANGED coordVars
    BY <1>13 DEF coordVars, serverVars, processVars
  <1>14. ASSUME NEW c \in Clients, NEW g \in Clients, AbandonRegister(c, g)
        PROVE  TypeOK'
    BY <1>14 DEF AbandonRegister, serverVars, processVars
  <1> QED
    BY <1>1, <1>2, <1>3, <1>4, <1>5, <1>6, <1>7, <1>8, <1>9, <1>10, <1>11, <1>12, <1>13, <1>14
    DEF Next, ServerStep

\* The Server fields keep their shapes in every execution (lobby.go).
THEOREM TypeCorrect == Spec => []TypeOK
  BY InitType, NextType, PTL DEF Spec
-----------------------------------------------------------------------------
(* The worker limit.  CapacityRespected is inductive given TypeOK.         *)

\* There are finitely many registered workers, now ...
LEMMA RegisteredFinite ==
    IsFiniteSet(Registered) /\ Cardinality(Registered) \in Nat
  BY ValueAssumption, FS_Subset, FS_CardinalityType DEF Registered

\* ... and after a step.
LEMMA RegisteredFinite2 ==
    IsFiniteSet(Registered') /\ Cardinality(Registered') \in Nat
  BY ValueAssumption, FS_Subset, FS_CardinalityType DEF Registered

\* A step that adds no worker keeps the limit.
LEMMA FewerRegistered ==
    ASSUME CapacityRespected, Registered' \subseteq Registered
    PROVE  CapacityRespected'
  BY RegisteredFinite, RegisteredFinite2, FS_Subset, SizeAssumption
  DEF CapacityRespected

\* Every step keeps the limit.
LEMMA NextCapacity ==
    TypeOK /\ CapacityRespected /\ [Next]_coordVars => CapacityRespected'
  <1> SUFFICES ASSUME TypeOK, CapacityRespected, [Next]_coordVars
               PROVE  CapacityRespected'
    OBVIOUS
  <1>1. ASSUME NEW c \in Clients, NEW w \in WorkerIDs, Register(c, w)
        PROVE  CapacityRespected'
    <2>1. Registered' \subseteq Registered \cup {w}
      BY <1>1 DEF Register, AddWorker, Registered, TypeOK
    <2>2. /\ IsFiniteSet(Registered \cup {w})
          /\ Cardinality(Registered \cup {w}) <= Cardinality(Registered) + 1
      <3>1. IsFiniteSet(Registered)
        BY RegisteredFinite
      <3>2. /\ IsFiniteSet(Registered \cup {w})
            /\ Cardinality(Registered \cup {w}) =
                 IF w \in Registered THEN Cardinality(Registered)
                                    ELSE Cardinality(Registered) + 1
        BY <3>1, FS_AddElement, Zenon
      <3> QED
        BY <3>2, RegisteredFinite
    <2>3. Cardinality(Registered') <= Cardinality(Registered) + 1
      BY <2>1, <2>2, RegisteredFinite, RegisteredFinite2, FS_Subset, FS_CardinalityType
    <2>4. MaxWorkers > 0 => Cardinality(Registered) < MaxWorkers
      BY <1>1, RegisteredFinite, SizeAssumption DEF Register, Full
    <2> QED
      BY <2>3, <2>4, RegisteredFinite, RegisteredFinite2, SizeAssumption
      DEF CapacityRespected
  <1>2. ASSUME UNCHANGED workers PROVE CapacityRespected'
    BY <1>2, FewerRegistered DEF Registered
  <1>3. ASSUME NEW w \in WorkerIDs, NEW state \in {"waiting", "running"},
               Heartbeat(w, state)
        PROVE  CapacityRespected'
    BY <1>3, FewerRegistered DEF Heartbeat, Registered, TypeOK
  <1>4. ASSUME NEW w \in WorkerIDs, NEW delta \in Deltas, NEW kps \in Rates,
               RecordStats(w, delta, kps)
        PROVE  CapacityRespected'
    BY <1>4, FewerRegistered DEF FromSearch, RecordStats, Registered, TypeOK
  <1>5. ASSUME Tick PROVE CapacityRespected'
    BY <1>5, FewerRegistered DEF Tick, Registered, TypeOK, WorkerEntry
  <1>6. ASSUME PruneStale PROVE CapacityRespected'
    BY <1>6, FewerRegistered DEF PruneStale, Registered, Offline
  <1>7. ASSUME StartRun PROVE CapacityRespected'
    BY <1>7, FewerRegistered DEF StartRun, Registered
  <1>8. ASSUME Gone PROVE CapacityRespected'
    BY <1>8, FewerRegistered DEF Gone, Registered, Offline
  <1>9. ASSUME NEW c \in Clients, AdmitRegister(c) \/ RefuseRegister(c)
        PROVE  CapacityRespected'
    BY <1>9, <1>2 DEF AdmitRegister, RefuseRegister
  <1>10. ASSUME NEW w \in WorkerIDs, NEW a \in Addresses, NEW outcome \in AppendOutcomes,
                HandleHit(w, a, outcome)
         PROVE  CapacityRespected'
    BY <1>10, <1>2 DEF HandleHit
  <1>11. ASSUME Interrupt \/ StopRun \/ EndRun \/ Restart PROVE CapacityRespected'
    BY <1>11, <1>2 DEF Interrupt, StopRun, EndRun, Restart
  <1>12. CASE UNCHANGED coordVars
    BY <1>12, <1>2 DEF coordVars
  <1>13. ASSUME NEW c \in Clients, NEW g \in Clients, AbandonRegister(c, g)
        PROVE  CapacityRespected'
    BY <1>13, <1>2 DEF AbandonRegister
  <1> QED
    BY <1>1, <1>3, <1>4, <1>5, <1>6, <1>7, <1>8, <1>9, <1>10, <1>11, <1>12, <1>13
    DEF Next, ServerStep, Shutdown, Crash

\* The worker limit holds in every execution, although registration gives up
\* the lock between its early check and the insertion (handleRegister).
THEOREM CapacityHolds == Spec => []CapacityRespected
  <1>1. Init => CapacityRespected
    <2> SUFFICES ASSUME Init PROVE CapacityRespected
      OBVIOUS
    <2>1. Registered = {}
      BY DEF Init, Registered, Offline
    <2> QED
      BY <2>1, FS_EmptySet, SizeAssumption DEF CapacityRespected
  <1> QED
    BY <1>1, TypeCorrect, NextCapacity, PTL DEF Spec
-----------------------------------------------------------------------------
(* wallets.txt.  That no address is entered twice is not inductive: it     *)
(* takes what the dedup list says of the file, and that the file has       *)
(* nothing of this process while startRun can still empty that list.       *)

LedgerInv ==
    /\ OneRecordPerAddress
    /\ serving => \A a \in Addresses : a \notin hitAddresses => wallets[process][a] = 0
    /\ serving /\ runState = "lobby" => \A a \in Addresses : wallets[process][a] = 0
    /\ \A p \in 1..Processes : p > process => \A a \in Addresses : wallets[p][a] = 0

\* No records and no addresses at first.
LEMMA InitLedger == Init => LedgerInv
  BY SizeAssumption DEF Init, LedgerInv, OneRecordPerAddress, NoRecords

\* What HandleHit does to the file.
LEMMA HitEffect ==
    ASSUME TypeOK, LedgerInv, NEW w \in WorkerIDs, NEW a \in Addresses,
           NEW outcome \in AppendOutcomes, HandleHit(w, a, outcome)
    PROVE  /\ wallets[process][a] = 0
           /\ \/ wallets' = wallets /\ outcome = "lost"
              \/ wallets' = [wallets EXCEPT ![process][a] = 1]
  <1>1. wallets[process][a] = 0
    BY DEF HandleHit, LedgerInv
  <1>2. wallets[process][a] + 1 = 1
    BY <1>1
  <1>3. CASE outcome = "lost"
    BY <1>1, <1>3 DEF HandleHit, AppendRecord
  <1>4. CASE outcome # "lost"
    <2>1. wallets' = [wallets EXCEPT ![process][a] = wallets[process][a] + 1]
      BY <1>4 DEF HandleHit, AppendRecord, TypeOK
    <2> QED
      BY <1>1, <1>2, <2>1
  <1> QED
    BY <1>3, <1>4

\* Every step keeps records and addresses together.
LEMMA NextLedger == TypeOK /\ LedgerInv /\ [Next]_coordVars => LedgerInv'
  <1> SUFFICES ASSUME TypeOK, LedgerInv, [Next]_coordVars PROVE LedgerInv'
    OBVIOUS
  <1>1. ASSUME NEW w \in WorkerIDs, NEW a \in Addresses, NEW outcome \in AppendOutcomes,
               HandleHit(w, a, outcome)
        PROVE  LedgerInv'
    <2>1. UNCHANGED <<runState, serving, process>> /\ runState # "lobby"
      BY <1>1 DEF FromSearch, HandleHit, processVars
    <2>2. hitAddresses' = hitAddresses \cup {a}
      BY <1>1 DEF HandleHit
    <2>3. CASE wallets' = wallets
      BY <2>1, <2>2, <2>3 DEF LedgerInv, OneRecordPerAddress
    <2>4. CASE wallets' = [wallets EXCEPT ![process][a] = 1]
      BY <2>1, <2>2, <2>4 DEF LedgerInv, OneRecordPerAddress, TypeOK
    <2> QED
      BY <1>1, <2>3, <2>4, HitEffect
  <1>2. ASSUME UNCHANGED <<runState, hitAddresses, wallets, serving, process>>
        PROVE  LedgerInv'
    BY <1>2 DEF LedgerInv, OneRecordPerAddress
  <1>3. ASSUME NEW c \in Clients, AdmitRegister(c) \/ RefuseRegister(c) PROVE LedgerInv'
    BY <1>3, <1>2 DEF AdmitRegister, RefuseRegister, serverVars, processVars
  <1>4. ASSUME NEW c \in Clients, NEW w \in WorkerIDs, Register(c, w) PROVE LedgerInv'
    BY <1>4, <1>2 DEF Register, AddWorker, serverVars, processVars
  <1>5. ASSUME NEW w \in WorkerIDs, NEW state \in {"waiting", "running"},
               Heartbeat(w, state)
        PROVE  LedgerInv'
    BY <1>5, <1>2 DEF Heartbeat, serverVars, processVars
  <1>6. ASSUME NEW w \in WorkerIDs, NEW delta \in Deltas, NEW kps \in Rates,
               RecordStats(w, delta, kps)
        PROVE  LedgerInv'
    BY <1>6, <1>2 DEF RecordStats, processVars
  <1>7. ASSUME Tick \/ PruneStale PROVE LedgerInv'
    BY <1>7, <1>2 DEF Tick, PruneStale, serverVars, processVars
  <1>8. ASSUME StartRun PROVE LedgerInv'
    BY <1>8 DEF StartRun, processVars, LedgerInv, OneRecordPerAddress
  <1>9. ASSUME Interrupt PROVE LedgerInv'
    BY <1>9, <1>2 DEF Interrupt, serverVars
  <1>10. ASSUME StopRun \/ EndRun PROVE LedgerInv'
    BY <1>10 DEF StopRun, EndRun, serverVars, processVars, LedgerInv, OneRecordPerAddress
  <1>11. ASSUME Gone PROVE LedgerInv'
    BY <1>11 DEF Gone, LedgerInv, OneRecordPerAddress
  <1>12. ASSUME Restart PROVE LedgerInv'
    <2>1. process' = process + 1 /\ process' \in 1..Processes /\ UNCHANGED wallets
      BY <1>12, SizeAssumption DEF Restart, TypeOK
    <2>2. \A a \in Addresses : wallets'[process'][a] = 0
      BY <2>1 DEF LedgerInv, TypeOK
    <2>3. \A p \in 1..Processes : p > process' => p > process
      BY <2>1 DEF TypeOK
    <2> QED
      BY <2>1, <2>2, <2>3 DEF LedgerInv, OneRecordPerAddress
  <1>13. CASE UNCHANGED coordVars
    BY <1>13, <1>2 DEF coordVars, serverVars, processVars
  <1>14. ASSUME NEW c \in Clients, NEW g \in Clients, AbandonRegister(c, g)
        PROVE  LedgerInv'
    BY <1>14, <1>2 DEF AbandonRegister, serverVars, processVars
  <1> QED
    BY <1>1, <1>3, <1>4, <1>5, <1>6, <1>7, <1>8, <1>9, <1>10, <1>11, <1>12, <1>13, <1>14
    DEF Next, ServerStep, Shutdown, Crash

\* They stay together throughout.
LEMMA LedgerHolds == Spec => []LedgerInv
  BY InitLedger, NextLedger, TypeCorrect, PTL DEF Spec

\* In every execution a coordinator process writes at most one record for an
\* address, whatever is reported, repeated or fails (handleHit, startRun).
THEOREM OneRecord == Spec => []OneRecordPerAddress
  <1>1. LedgerInv => OneRecordPerAddress
    BY DEF LedgerInv
  <1> QED
    BY <1>1, LedgerHolds, PTL
-----------------------------------------------------------------------------
(* Refinement of HitLedger.                                                *)

\* Every step is a step of the ledger or leaves it alone.
LEMMA StepRefines ==
    TypeOK /\ LedgerInv /\ [Next]_coordVars => [Ledger!Next]_(Ledger!vars)
  <1> SUFFICES ASSUME TypeOK, LedgerInv, [Next]_coordVars
               PROVE  [Ledger!Next]_(Ledger!vars)
    OBVIOUS
  <1>1. ASSUME NEW w \in WorkerIDs, NEW a \in Addresses, NEW outcome \in AppendOutcomes,
               HandleHit(w, a, outcome)
        PROVE  [Ledger!Next]_(Ledger!vars)
    <2>1. UNCHANGED process
      BY <1>1 DEF HandleHit, processVars
    <2>2. CASE wallets' = wallets
      BY <2>1, <2>2 DEF Ledger!vars
    <2>3. CASE wallets' = [wallets EXCEPT ![process][a] = 1]
      <3>1. Ledger!Enter(a)
        BY <1>1, <2>1, <2>3, HitEffect DEF Ledger!Enter
      <3> QED
        BY <3>1 DEF Ledger!Next
    <2> QED
      BY <1>1, <2>2, <2>3, HitEffect
  <1>2. ASSUME Restart PROVE [Ledger!Next]_(Ledger!vars)
    BY <1>2 DEF Restart, Ledger!Next, Ledger!TakeOver
  <1>3. ASSUME UNCHANGED <<wallets, process>> PROVE [Ledger!Next]_(Ledger!vars)
    BY <1>3 DEF Ledger!vars
  <1>4. ASSUME NEW c \in Clients, NEW w \in WorkerIDs,
               AdmitRegister(c) \/ RefuseRegister(c) \/ Register(c, w)
        PROVE  [Ledger!Next]_(Ledger!vars)
    BY <1>4, <1>3 DEF AdmitRegister, RefuseRegister, Register, AddWorker, processVars
  <1>5. ASSUME NEW w \in WorkerIDs, NEW state \in {"waiting", "running"},
               Heartbeat(w, state)
        PROVE  [Ledger!Next]_(Ledger!vars)
    BY <1>5, <1>3 DEF Heartbeat, processVars
  <1>6. ASSUME NEW w \in WorkerIDs, NEW delta \in Deltas, NEW kps \in Rates,
               RecordStats(w, delta, kps)
        PROVE  [Ledger!Next]_(Ledger!vars)
    BY <1>6, <1>3 DEF RecordStats, processVars
  <1>7. ASSUME \/ Tick \/ PruneStale \/ StartRun \/ Interrupt \/ StopRun \/ EndRun \/ Gone
        PROVE  [Ledger!Next]_(Ledger!vars)
    BY <1>7, <1>3 DEF Tick, PruneStale, StartRun, Interrupt, StopRun, EndRun, Gone,
                      processVars
  <1>8. ASSUME NEW c \in Clients, AdmitRegister(c) \/ RefuseRegister(c)
        PROVE  [Ledger!Next]_(Ledger!vars)
    BY <1>8, <1>3 DEF AdmitRegister, RefuseRegister, processVars
  <1>9. CASE UNCHANGED coordVars
    BY <1>9, <1>3 DEF coordVars, processVars
  <1>10. ASSUME NEW c \in Clients, NEW g \in Clients, AbandonRegister(c, g)
        PROVE  [Ledger!Next]_(Ledger!vars)
    BY <1>10, <1>3 DEF AbandonRegister, processVars
  <1> QED
    BY <1>1, <1>2, <1>4, <1>5, <1>6, <1>7, <1>8, <1>9, <1>10
    DEF Next, ServerStep, Shutdown, Crash

\* The coordinator implements the ledger (HitLedger.tla) for every number of
\* workers, addresses and restarts.
THEOREM Refinement == Spec => ImplementsLedger
  <1>1. Init => Ledger!Init
    BY DEF Init, Ledger!Init, NoRecords
  <1> QED
    BY <1>1, StepRefines, TypeCorrect, LedgerHolds, PTL
    DEF Spec, ImplementsLedger, Ledger!Spec
-----------------------------------------------------------------------------
(* The hit count.                                                          *)

CountInv == CountedHitsAreRecorded /\ (~serving => clusterHits = 0)

\* The recorded addresses can be counted.
LEMMA RecordedFinite == IsFiniteSet(Recorded) /\ Cardinality(Recorded) \in Nat
  BY ValueAssumption, FS_Subset, FS_CardinalityType DEF Recorded

\* Every step keeps the count covered by records.
LEMMA NextCount ==
    TypeOK /\ TypeOK' /\ LedgerInv /\ CountInv /\ [Next]_coordVars => CountInv'
  <1> SUFFICES ASSUME TypeOK, TypeOK', LedgerInv, CountInv, [Next]_coordVars
               PROVE  CountInv'
    OBVIOUS
  <1>1. ASSUME NEW w \in WorkerIDs, NEW a \in Addresses, NEW outcome \in AppendOutcomes,
               HandleHit(w, a, outcome)
        PROVE  CountInv'
    <2>1. UNCHANGED <<serving, process>> /\ serving
      BY <1>1 DEF HandleHit, processVars
    <2>2. CASE wallets' = wallets /\ outcome = "lost"
      <3>1. Recorded' = Recorded /\ clusterHits' = clusterHits
        BY <1>1, <2>1, <2>2 DEF Recorded, HandleHit
      <3> QED
        BY <2>1, <3>1 DEF CountInv, CountedHitsAreRecorded
    <2>3. CASE wallets' = [wallets EXCEPT ![process][a] = 1]
      <3>1. a \notin Recorded /\ Recorded' = Recorded \cup {a}
        <4>1. wallets[process][a] = 0
          BY <1>1, HitEffect
        <4>2. \A b \in Addresses :
                wallets'[process'][b] = IF b = a THEN 1 ELSE wallets[process][b]
          BY <2>1, <2>3 DEF TypeOK
        <4> QED
          BY <4>1, <4>2 DEF Recorded
      <3>2. Cardinality(Recorded \cup {a}) =
              IF a \in Recorded THEN Cardinality(Recorded) ELSE Cardinality(Recorded) + 1
        <4>1. IsFiniteSet(Recorded)
          BY RecordedFinite
        <4> QED
          BY <4>1, FS_AddElement, Zenon
      <3>3. clusterHits' \in {clusterHits, clusterHits + 1}
        BY <1>1 DEF HandleHit
      <3> QED
        BY <2>1, <3>1, <3>2, <3>3, RecordedFinite
        DEF CountInv, CountedHitsAreRecorded, TypeOK
    <2> QED
      BY <1>1, <2>2, <2>3, HitEffect
  <1>2. ASSUME UNCHANGED <<clusterHits, wallets, serving, process>> PROVE CountInv'
    BY <1>2 DEF CountInv, CountedHitsAreRecorded, Recorded
  <1>3. ASSUME clusterHits' = 0 PROVE CountInv'
    <2>1. Cardinality(Recorded') \in Nat
      BY ValueAssumption, FS_Subset, FS_CardinalityType DEF Recorded
    <2> QED
      BY <1>3, <2>1 DEF CountInv, CountedHitsAreRecorded
  <1>4. ASSUME NEW c \in Clients, AdmitRegister(c) \/ RefuseRegister(c) PROVE CountInv'
    BY <1>4, <1>2 DEF AdmitRegister, RefuseRegister, serverVars, processVars
  <1>5. ASSUME NEW c \in Clients, NEW w \in WorkerIDs, Register(c, w) PROVE CountInv'
    BY <1>5, <1>2 DEF Register, AddWorker, serverVars, processVars
  <1>6. ASSUME NEW w \in WorkerIDs, NEW state \in {"waiting", "running"},
               Heartbeat(w, state)
        PROVE  CountInv'
    BY <1>6, <1>2 DEF Heartbeat, serverVars, processVars
  <1>7. ASSUME NEW w \in WorkerIDs, NEW delta \in Deltas, NEW kps \in Rates,
               RecordStats(w, delta, kps)
        PROVE  CountInv'
    BY <1>7, <1>2 DEF RecordStats, processVars
  <1>8. ASSUME Tick \/ PruneStale \/ Interrupt \/ StopRun \/ EndRun PROVE CountInv'
    BY <1>8, <1>2 DEF Tick, PruneStale, Interrupt, StopRun, EndRun, serverVars, processVars
  <1>9. ASSUME StartRun \/ Gone PROVE CountInv'
    BY <1>9, <1>3 DEF StartRun, Gone
  <1>10. ASSUME Restart PROVE CountInv'
    BY <1>10, <1>3 DEF Restart, serverVars, CountInv
  <1>11. CASE UNCHANGED coordVars
    BY <1>11, <1>2 DEF coordVars, serverVars, processVars
  <1>12. ASSUME NEW c \in Clients, NEW g \in Clients, AbandonRegister(c, g)
        PROVE  CountInv'
    BY <1>12, <1>2 DEF AbandonRegister, serverVars, processVars
  <1> QED
    BY <1>1, <1>4, <1>5, <1>6, <1>7, <1>8, <1>9, <1>10, <1>11, <1>12
    DEF Next, ServerStep, Shutdown, Crash

\* In every execution the hit count is at most the number of addresses this
\* process wrote to wallets.txt (handleHit).
THEOREM CountSound == Spec => []CountedHitsAreRecorded
  <1>1. Init => CountInv
    <2> SUFFICES ASSUME Init PROVE CountInv
      OBVIOUS
    <2>1. clusterHits = 0 /\ Cardinality(Recorded) \in Nat
      BY RecordedFinite DEF Init
    <2> QED
      BY <2>1 DEF CountInv, CountedHitsAreRecorded
  <1>2. CountInv => CountedHitsAreRecorded
    BY DEF CountInv
  <1> QED
    BY <1>1, <1>2, NextCount, TypeCorrect, LedgerHolds, PTL DEF Spec
-----------------------------------------------------------------------------
(* Pruning.  The bound on the age of a worker is inductive only together   *)
(* with the time left to the next tick of the prune loop.                  *)

SilenceInv ==
    ~interrupted =>
        \A w \in WorkerIDs : workers[w].age + pruneIn <= StaleAfter + PruneEvery

\* Nobody is silent at first.
LEMMA InitSilence == Init => SilenceInv
  BY SizeAssumption DEF Init, SilenceInv, Offline

\* Every step keeps age and time to the next tick within their sum.
LEMMA NextSilence == TypeOK /\ SilenceInv /\ [Next]_coordVars => SilenceInv'
  <1> SUFFICES ASSUME TypeOK, SilenceInv, [Next]_coordVars, ~interrupted',
                      NEW v \in WorkerIDs
               PROVE  workers'[v].age + pruneIn' <= StaleAfter + PruneEvery
    BY DEF SilenceInv
  <1> DEFINE Goal == workers'[v].age + pruneIn' <= StaleAfter + PruneEvery
  <1>0. /\ workers[v].age \in Nat /\ pruneIn \in 0..PruneEvery
        /\ StaleAfter \in Nat /\ PruneEvery \in Nat
    BY SizeAssumption DEF TypeOK, WorkerEntry, OldAge
  <1>1. ASSUME workers'[v].age \in {0, workers[v].age}, UNCHANGED <<pruneIn, interrupted>>
        PROVE  Goal
    BY <1>0, <1>1 DEF SilenceInv
  <1>2. ASSUME UNCHANGED <<workers, pruneIn, interrupted>> PROVE Goal
    BY <1>1, <1>2
  <1>3. ASSUME NEW c \in Clients, AdmitRegister(c) \/ RefuseRegister(c) PROVE Goal
    BY <1>3, <1>2 DEF AdmitRegister, RefuseRegister, processVars
  <1>4. ASSUME NEW c \in Clients, NEW w \in WorkerIDs, Register(c, w) PROVE Goal
    BY <1>4, <1>1 DEF Register, AddWorker, processVars, TypeOK
  <1>5. ASSUME NEW w \in WorkerIDs, NEW state \in {"waiting", "running"},
               Heartbeat(w, state)
        PROVE  Goal
    BY <1>5, <1>1 DEF Heartbeat, processVars, TypeOK
  <1>6. ASSUME NEW w \in WorkerIDs, NEW delta \in Deltas, NEW kps \in Rates,
               RecordStats(w, delta, kps)
        PROVE  Goal
    BY <1>6, <1>1 DEF RecordStats, processVars, TypeOK
  <1>7. ASSUME NEW w \in WorkerIDs, NEW a \in Addresses, NEW outcome \in AppendOutcomes,
               HandleHit(w, a, outcome)
        PROVE  Goal
    BY <1>7, <1>2 DEF HandleHit, processVars
  <1>8. ASSUME Tick PROVE Goal
    <2>1. pruneIn' = pruneIn - 1 /\ UNCHANGED interrupted
      BY <1>8, <1>0 DEF Tick, processVars
    <2>2. workers'[v].age \in {workers[v].age, workers[v].age + 1}
      BY <1>8 DEF Tick, Older, TypeOK, WorkerEntry
    <2> QED
      BY <1>0, <2>1, <2>2 DEF SilenceInv
  <1>9. ASSUME PruneStale PROVE Goal
    <2>1. pruneIn' = PruneEvery
      BY <1>9 DEF PruneStale
    <2>2. CASE workers[v].age > StaleAfter
      <3>1. workers'[v].age = 0
        BY <1>9, <2>2 DEF PruneStale, Offline
      <3> QED
        BY <1>0, <2>1, <3>1
    <2>3. CASE ~(workers[v].age > StaleAfter)
      <3>1. workers'[v].age = workers[v].age
        BY <1>9, <2>3 DEF PruneStale
      <3> QED
        BY <1>0, <2>1, <2>3, <3>1
    <2> QED
      BY <2>2, <2>3
  <1>10. ASSUME StartRun PROVE Goal
    BY <1>10, <1>1 DEF StartRun, processVars
  <1>11. ASSUME Interrupt PROVE Goal
    BY <1>11 DEF Interrupt
  <1>12. ASSUME StopRun \/ EndRun PROVE Goal
    BY <1>12, <1>2 DEF StopRun, EndRun, processVars
  <1>13. ASSUME Gone PROVE Goal
    BY <1>13, <1>0 DEF Gone, Offline
  <1>14. ASSUME Restart PROVE Goal
    BY <1>14, <1>2 DEF Restart
  <1>15. CASE UNCHANGED coordVars
    BY <1>15, <1>2 DEF coordVars, processVars
  <1>16. ASSUME NEW c \in Clients, NEW g \in Clients, AbandonRegister(c, g)
        PROVE  Goal
    BY <1>16, <1>2 DEF AbandonRegister, processVars
  <1> QED
    BY <1>3, <1>4, <1>5, <1>6, <1>7, <1>8, <1>9, <1>10, <1>11, <1>12, <1>13, <1>14, <1>15, <1>16
    DEF Next, ServerStep, Shutdown, Crash

\* In every execution and for every choice of the two periods, a worker still
\* in the map was heard from at most one cutoff and one ticker period ago.
THEOREM SilenceBounded == Spec => []SilentWorkersLeave
  <1>1. TypeOK /\ SilenceInv => SilentWorkersLeave
    BY SizeAssumption
    DEF TypeOK, SilenceInv, SilentWorkersLeave, Registered, WorkerEntry, OldAge
  <1> QED
    BY <1>1, InitSilence, NextSilence, TypeCorrect, PTL DEF Spec
=============================================================================

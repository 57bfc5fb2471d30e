------------------------- MODULE StatsReportProofs -------------------------
(***************************************************************************)
(* Proofs about StatsReport, for any configurations, batch sizes and       *)
(* numbers of searches, keys and lost replies.  Reporting leaves the       *)
(* search as SearchForever has it, so its theorems hold here too; what the *)
(* hook adds up is conserved on its way to the cluster total, and never    *)
(* exceeds what the session holds.                                         *)
(***************************************************************************)
EXTENDS StatsReport, SearchForeverProofs

\* The types of the counters and reports.
ReportTypes ==
    /\ worker \in {"out", "search", "last"}
    /\ lastTotal \in Nat /\ runKeys \in Nat /\ sinceReport \in Nat /\ added \in Nat
    /\ posting \in [Callers -> Report]
    /\ late \in Report
    /\ clusterTotal \in Nat /\ repeated \in Nat /\ dropped \in Nat

\* Nothing is left in the counter or in a report of a search that is over.
Settled ==
    /\ worker # "search" => sinceReport = 0
    /\ worker # "last" => posting["last"] = None
    /\ worker = "out" => posting["ticker"] = None

\* The counter of the run is the total the hook saw last.
HookInv == worker # "out" => runKeys = lastTotal /\ lastTotal <= Updated.keys

RInv == ReportTypes /\ Settled /\ HookInv /\ DeltasConserved
-----------------------------------------------------------------------------
(* The search below the reports.                                           *)

\* Every step is a step of the search or leaves it alone.
LEMMA StepOfSearch == [ReportNext]_allVars => [Next]_vars
  <1> SUFFICES ASSUME [ReportNext]_allVars PROVE [Next]_vars
    OBVIOUS
  <1>1. CASE StartWorker \/ StartStandalone
    BY <1>1 DEF StartWorker, StartStandalone, Next
  <1>2. CASE HitFails \/ Search \/ Progress
    BY <1>2 DEF HitFails, Search, Progress, Next
  <1>3. CASE WorkerCrash
    BY <1>3 DEF WorkerCrash, Next
  <1>4. CASE Tick \/ TickAfterStop \/ LastReport \/ GiveUp \/ LateArrives \/ EndSearch \/ Forget
    BY <1>4 DEF Tick, TickAfterStop, LastReport, GiveUp, LateArrives, EndSearch, Forget
  <1>5. ASSUME NEW c \in Callers, Delivered(c) \/ Unheard(c) PROVE UNCHANGED vars
    BY <1>5 DEF Delivered, Unheard
  <1>6. CASE UNCHANGED allVars
    BY <1>6 DEF allVars
  <1> QED
    BY <1>1, <1>2, <1>3, <1>4, <1>5, <1>6 DEF ReportNext, ReportStep

\* A search with reports is a search: hooks, tickers and reports neither stop
\* nor disturb it (searchUntilStop, search.Run).
THEOREM SearchRefined == ReportSpec => Spec
  <1>1. ReportInit => Init
    BY DEF ReportInit
  <1> QED
    BY <1>1, StepOfSearch, PTL DEF ReportSpec, Spec

\* What a search promises it promises under reports as well.
THEOREM SearchPromises ==
    ReportSpec =>
        /\ [](TypeOK /\ KeysAndHitsAccounted /\ FileTrailsMemory /\ MaxKeysRespected)
        /\ KeyIndexSteps
  BY SearchRefined, TypeCorrect, Accounted, FileTrails, LimitHolds, IndexSteps, PTL
-----------------------------------------------------------------------------
(* The reports.                                                            *)

\* No report is a report of nothing.
LEMMA NoneIsReport ==
    None \in Report /\ None.delta = 0 /\ None.counted = 0 /\ Uncounted(None) = 0
  BY ReportAssumption DEF None, Report, Uncounted

\* What a report holds is a number of keys.
LEMMA UncountedType ==
    ASSUME NEW r \in Report
    PROVE  Uncounted(r) \in Nat /\ r.delta \in Nat /\ r.counted \in Nat
  BY ReportAssumption DEF Report, Uncounted

\* A fresh report holds the counter.
LEMMA PostType ==
    ASSUME sinceReport \in Nat
    PROVE  /\ [delta |-> sinceReport, counted |-> 0] \in Report
           /\ Uncounted([delta |-> sinceReport, counted |-> 0]) = sinceReport
  BY ReportAssumption DEF Report, Uncounted

\* There are two callers.
LEMMA CallersAre == "ticker" \in Callers /\ "last" \in Callers
  BY DEF Callers

\* At first there is nothing to report.
LEMMA InitRInv == ReportInit => RInv
  <1> SUFFICES ASSUME ReportInit PROVE RInv
    OBVIOUS
  <1>1. ReportTypes /\ Settled /\ HookInv
    BY NoneIsReport, CallersAre DEF ReportInit, InitReports, ReportTypes, Settled, HookInv
  <1>2. DeltasConserved
    BY NoneIsReport, CallersAre DEF ReportInit, InitReports, DeltasConserved
  <1> QED
    BY <1>1, <1>2 DEF RInv

\* A step of the search that takes no keys back leaves the reports in order.
LEMMA QuietStep ==
    ASSUME RInv, UNCHANGED reports,
           worker # "out" => Updated.keys \in Nat /\ Updated'.keys \in Nat
                              /\ Updated.keys <= Updated'.keys
    PROVE  RInv'
  <1>1. ReportTypes' /\ Settled' /\ DeltasConserved'
    BY DEF RInv, reports, hook, server, ReportTypes, Settled, DeltasConserved, Uncounted
  <1>2. HookInv'
    BY DEF RInv, reports, hook, ReportTypes, HookInv, Updated
  <1> QED
    BY <1>1, <1>2 DEF RInv

\* The total of the session grows with every step of the search.
LEMMA TotalGrows ==
    ASSUME TypeOK, HitFails \/ Search \/ BatchDone, worker # "out"
    PROVE  /\ Updated.keys \in Nat /\ Updated'.keys \in Nat
           /\ Updated.keys <= Updated'.keys
  <1>1. /\ session.keys \in Nat /\ processed \in Nat
        /\ Updated.keys = session.keys + processed
        /\ Updated'.keys = session'.keys + processed'
    BY DEF TypeOK, Count, Updated
  <1>2. CASE Checkpoint
    BY <1>1, <1>2 DEF Checkpoint
  <1>3. CASE TryMiss \/ TryHit
    BY <1>1, <1>3 DEF TryMiss, TryHit, Try, Counted
  <1>4. CASE Produce \/ Cancel \/ WaitForBatch \/ Receive \/ BatchDone
    BY <1>1, <1>4 DEF Produce, Cancel, WaitForBatch, Receive, BatchDone, counters
  <1>5. CASE StopOnCancel \/ StopOnMaxKeys \/ TryFails
    BY <1>1, <1>5 DEF StopOnCancel, StopOnMaxKeys, TryFails
  <1> QED
    BY <1>2, <1>3, <1>4, <1>5 DEF HitFails, Search

\* An attempt that is counted adds its report to the total, and to repeated if
\* the report was counted before.
LEMMA RecordedOnce ==
    ASSUME NEW r \in Report, RecordStats(r, TRUE), clusterTotal \in Nat, repeated \in Nat
    PROVE  /\ clusterTotal' \in Nat /\ repeated' \in Nat
           /\ clusterTotal' - repeated' = clusterTotal - repeated + Uncounted(r)
  <1>1. r.delta \in Nat /\ r.counted \in Nat
    BY UncountedType
  <1>2. CASE r.counted = 0
    BY <1>1, <1>2 DEF RecordStats, Uncounted
  <1>3. CASE r.counted > 0
    BY <1>1, <1>3 DEF RecordStats, Uncounted
  <1> QED
    BY <1>1, <1>2, <1>3

\* A report in Callers changes, or late does, and the sums with it.
LEMMA ReportStepKeeps ==
    ASSUME RInv, UNCHANGED <<vars, lastTotal, runKeys, added>>,
           ReportTypes', Settled', worker' # "out" => worker # "out",
           DeltasConserved'
    PROVE  RInv'
  BY DEF RInv, HookInv, Updated, vars

\* Every step moves keys from one place to the next.
LEMMA NextRInv == TypeOK /\ TypeOK' /\ RInv /\ [ReportNext]_allVars => RInv'
  <1> SUFFICES ASSUME TypeOK, TypeOK', RInv, [ReportNext]_allVars PROVE RInv'
    OBVIOUS
  <1> DEFINE T == posting["ticker"]
             L == posting["last"]
  <1>0. /\ ReportTypes /\ Settled /\ HookInv /\ DeltasConserved
        /\ T \in Report /\ L \in Report /\ late \in Report
        /\ Uncounted(T) \in Nat /\ Uncounted(L) \in Nat /\ Uncounted(late) \in Nat
    BY UncountedType, CallersAre DEF RInv, ReportTypes
  <1>1. CASE StartWorker
    <2>1. /\ worker = "out" /\ worker' = "search"
          /\ lastTotal' = 0 /\ runKeys' = 0 /\ sinceReport' = 0
          /\ UNCHANGED <<added, posting, late, clusterTotal, repeated, dropped>>
      BY <1>1 DEF StartWorker, server
    <2>2. Updated'.keys \in Nat
      BY DEF TypeOK, Count, Updated
    <2>3. ReportTypes' /\ Settled' /\ HookInv'
      BY <1>0, <2>1, <2>2 DEF ReportTypes, Settled, HookInv
    <2>4. DeltasConserved'
      BY <1>0, <2>1 DEF Settled, DeltasConserved, Uncounted
    <2> QED
      BY <2>3, <2>4 DEF RInv
  <1>2. CASE StartStandalone
    BY <1>2, QuietStep DEF StartStandalone
  <1>3. CASE HitFails \/ Search
    <2>1. UNCHANGED reports
      BY <1>3 DEF HitFails, Search
    <2> QED
      BY <1>3, <2>1, QuietStep, TotalGrows
  <1>4. CASE Progress
    <2> DEFINE D == Updated.keys - lastTotal
    <2>1. /\ worker = "search"
          /\ lastTotal' = Updated.keys
          /\ runKeys' = runKeys + D
          /\ sinceReport' = sinceReport + D
          /\ added' = added + D
          /\ UNCHANGED <<worker, posting, late, clusterTotal, repeated, dropped>>
      BY <1>4 DEF Progress, server
    <2>2. Updated.keys \in Nat /\ Updated'.keys \in Nat /\ Updated.keys <= Updated'.keys
      BY <1>4, <2>1, TotalGrows DEF Progress
    <2>3. D \in Nat /\ runKeys = lastTotal
      BY <1>0, <2>1, <2>2 DEF ReportTypes, HookInv
    <2>4. ReportTypes' /\ Settled'
      BY <1>0, <2>1, <2>2, <2>3 DEF ReportTypes, Settled
    <2>5. HookInv'
      BY <1>0, <2>1, <2>2, <2>3 DEF ReportTypes, HookInv
    <2>6. DeltasConserved'
      BY <1>0, <2>1, <2>3 DEF ReportTypes, DeltasConserved, Uncounted
    <2> QED
      BY <2>4, <2>5, <2>6 DEF RInv
  <1>5. CASE Tick
    <2>1. /\ worker = "search" /\ T = None
          /\ posting' = [posting EXCEPT !["ticker"] = [delta |-> sinceReport, counted |-> 0]]
          /\ sinceReport' = 0
          /\ UNCHANGED <<vars, worker, lastTotal, runKeys, added, late,
                         clusterTotal, repeated, dropped>>
      BY <1>5 DEF Tick, Post, server
    <2>2. /\ posting'["ticker"] = [delta |-> sinceReport, counted |-> 0]
          /\ posting'["last"] = L
          /\ posting' \in [Callers -> Report]
      BY <1>0, <2>1, PostType, CallersAre DEF ReportTypes
    <2>3. ReportTypes' /\ Settled'
      BY <1>0, <2>1, <2>2 DEF ReportTypes, Settled
    <2>4. Uncounted(T) = 0 /\ Uncounted(posting'["ticker"]) = sinceReport
      BY <1>0, <2>1, <2>2, PostType, NoneIsReport DEF ReportTypes
    <2>5. DeltasConserved'
      BY <1>0, <2>1, <2>2, <2>4 DEF ReportTypes, DeltasConserved, Uncounted
    <2> QED
      BY <2>1, <2>3, <2>5, ReportStepKeeps
  <1>6. CASE TickAfterStop
    <2>1. /\ sinceReport' = 0 /\ dropped' = dropped + sinceReport
          /\ UNCHANGED <<vars, worker, lastTotal, runKeys, added, posting, late,
                         clusterTotal, repeated>>
      BY <1>6 DEF TickAfterStop, server
    <2>2. ReportTypes' /\ Settled'
      BY <1>0, <2>1 DEF ReportTypes, Settled
    <2>3. DeltasConserved'
      BY <1>0, <2>1 DEF ReportTypes, DeltasConserved, Uncounted
    <2> QED
      BY <2>1, <2>2, <2>3, ReportStepKeeps
  <1>7. CASE LastReport
    <2>1. /\ worker = "search" /\ worker' = "last"
          /\ posting' = [posting EXCEPT !["last"] = [delta |-> sinceReport, counted |-> 0]]
          /\ sinceReport' = 0
          /\ UNCHANGED <<vars, lastTotal, runKeys, added, late,
                         clusterTotal, repeated, dropped>>
      BY <1>7 DEF LastReport, Post, server
    <2>2. /\ posting'["last"] = [delta |-> sinceReport, counted |-> 0]
          /\ posting'["ticker"] = T
          /\ posting' \in [Callers -> Report]
          /\ L = None
      BY <1>0, <2>1, PostType, CallersAre DEF ReportTypes, Settled
    <2>3. ReportTypes' /\ Settled'
      BY <1>0, <2>1, <2>2 DEF ReportTypes, Settled
    <2>4. Uncounted(L) = 0 /\ Uncounted(posting'["last"]) = sinceReport
      BY <1>0, <2>1, <2>2, PostType, NoneIsReport DEF ReportTypes
    <2>5. DeltasConserved'
      BY <1>0, <2>1, <2>2, <2>4 DEF ReportTypes, DeltasConserved, Uncounted
    <2> QED
      BY <2>1, <2>3, <2>5, ReportStepKeeps
  <1>8. CASE GiveUp
    <2>1. /\ worker # "out"
          /\ posting' = [posting EXCEPT !["ticker"] = None]
          /\ \/ late = None /\ late' = T /\ UNCHANGED dropped
             \/ dropped' = dropped + Uncounted(T) /\ UNCHANGED late
          /\ UNCHANGED <<vars, worker, lastTotal, runKeys, sinceReport, added,
                         clusterTotal, repeated>>
      BY <1>8 DEF GiveUp, Abandon, hook, server
    <2>2. /\ posting'["ticker"] = None /\ posting'["last"] = L
          /\ posting' \in [Callers -> Report]
      BY <1>0, <2>1, NoneIsReport, CallersAre DEF ReportTypes
    <2>3. late' \in Report /\ dropped' \in Nat
      BY <1>0, <2>1 DEF ReportTypes
    <2>4. ReportTypes' /\ Settled'
      BY <1>0, <2>1, <2>2, <2>3 DEF ReportTypes, Settled
    <2>5. dropped' + Uncounted(late') = dropped + Uncounted(late) + Uncounted(T)
      BY <1>0, <2>1, NoneIsReport DEF ReportTypes
    <2>6. DeltasConserved'
      <3>1. Uncounted(posting'["ticker"]) = 0 /\ Uncounted(posting'["last"]) = Uncounted(L)
        BY <2>2, NoneIsReport
      <3>2. Uncounted(late') \in Nat
        BY <2>3, UncountedType
      <3> QED
        BY <1>0, <2>1, <2>3, <2>5, <3>1, <3>2 DEF ReportTypes, DeltasConserved
    <2> QED
      BY <2>1, <2>4, <2>6, ReportStepKeeps
  <1>9. CASE LateArrives
    <2>1. /\ late' = None
          /\ \/ RecordStats(late, TRUE) /\ UNCHANGED dropped
             \/ dropped' = dropped + Uncounted(late) /\ UNCHANGED server
          /\ UNCHANGED <<vars, worker, lastTotal, runKeys, sinceReport, added, posting>>
      BY <1>9 DEF LateArrives, hook
    <2>2. CASE RecordStats(late, TRUE) /\ UNCHANGED dropped
      <3>1. /\ clusterTotal' \in Nat /\ repeated' \in Nat
            /\ clusterTotal' - repeated' = clusterTotal - repeated + Uncounted(late)
        BY <1>0, <2>2, RecordedOnce DEF ReportTypes
      <3>2. ReportTypes' /\ Settled'
        BY <1>0, <2>1, <2>2, <3>1, NoneIsReport DEF ReportTypes, Settled
      <3>3. DeltasConserved'
        <4>1. Uncounted(late') = 0
          BY <2>1, NoneIsReport
        <4>2. /\ Uncounted(posting'["ticker"]) = Uncounted(T)
              /\ Uncounted(posting'["last"]) = Uncounted(L)
          BY <2>1
        <4> QED
          BY <1>0, <2>1, <2>2, <3>1, <4>1, <4>2 DEF ReportTypes, DeltasConserved
      <3> QED
        BY <2>1, <3>2, <3>3, ReportStepKeeps
    <2>3. CASE dropped' = dropped + Uncounted(late) /\ UNCHANGED server
      <3>1. ReportTypes' /\ Settled'
        BY <1>0, <2>1, <2>3, NoneIsReport DEF ReportTypes, Settled, server
      <3>2. DeltasConserved'
        <4>1. Uncounted(late') = 0
          BY <2>1, NoneIsReport
        <4>2. /\ Uncounted(posting'["ticker"]) = Uncounted(T)
              /\ Uncounted(posting'["last"]) = Uncounted(L)
          BY <2>1
        <4> QED
          BY <1>0, <2>1, <2>3, <4>1, <4>2 DEF ReportTypes, DeltasConserved, server
      <3> QED
        BY <2>1, <3>1, <3>2, ReportStepKeeps
    <2> QED
      BY <2>1, <2>2, <2>3
  <1>10. CASE EndSearch
    <2>1. /\ worker = "last" /\ worker' = "out" /\ T = None /\ L = None
          /\ UNCHANGED <<vars, lastTotal, runKeys, sinceReport, added, posting, late,
                         clusterTotal, repeated, dropped>>
      BY <1>10, CallersAre DEF EndSearch, hook, server
    <2>2. ReportTypes' /\ Settled'
      BY <1>0, <2>1 DEF ReportTypes, Settled
    <2>3. DeltasConserved'
      BY <1>0, <2>1 DEF DeltasConserved, Uncounted
    <2> QED
      BY <2>1, <2>2, <2>3, ReportStepKeeps
  <1>11. CASE Forget
    <2>1. UNCHANGED <<vars, worker, hook, posting, late, server, dropped>>
      BY <1>11 DEF Forget
    <2>2. ReportTypes' /\ Settled' /\ DeltasConserved'
      BY <1>0, <2>1 DEF hook, server, ReportTypes, Settled, DeltasConserved, Uncounted
    <2> QED
      BY <2>1, <2>2, ReportStepKeeps DEF hook
  <1>12. CASE WorkerCrash
    <2>1. PICK r \in {late, T, L} :
            /\ late # None => r = late
            /\ late' = r
            /\ dropped' = dropped + sinceReport + Uncounted(T) + Uncounted(L)
                           + Uncounted(late) - Uncounted(r)
      BY <1>12, Zenon DEF WorkerCrash
    <2>2. /\ worker' = "out" /\ sinceReport' = 0
          /\ posting' = [c \in Callers |-> None]
          /\ UNCHANGED <<lastTotal, runKeys, added, clusterTotal, repeated>>
      BY <1>12 DEF WorkerCrash, server
    <2>3. r \in Report /\ Uncounted(r) \in Nat
      BY <1>0, <2>1, UncountedType
    <2>4. dropped' \in Nat
      BY <1>0, <2>1, <2>3 DEF ReportTypes
    <2>5. ReportTypes' /\ Settled' /\ HookInv'
      BY <1>0, <2>1, <2>2, <2>3, <2>4, NoneIsReport, CallersAre
         DEF ReportTypes, Settled, HookInv
    <2>6. DeltasConserved'
      <3>1. Uncounted(posting'["ticker"]) = 0 /\ Uncounted(posting'["last"]) = 0
        BY <2>2, NoneIsReport, CallersAre
      <3>2. Uncounted(late') = Uncounted(r)
        BY <2>1
      <3> QED
        BY <1>0, <2>1, <2>2, <2>3, <3>1, <3>2 DEF ReportTypes, DeltasConserved
    <2> QED
      BY <2>5, <2>6 DEF RInv
  <1>13. ASSUME NEW c \in Callers, Delivered(c) PROVE RInv'
    <2> DEFINE r == posting[c]
    <2>1. /\ r # None
          /\ RecordStats(r, known)
          /\ posting' = [posting EXCEPT ![c] = None]
          /\ dropped' = dropped + (IF known THEN 0 ELSE Uncounted(r))
          /\ UNCHANGED <<vars, worker, lastTotal, runKeys, sinceReport, added, late>>
      BY <1>13 DEF Delivered, hook
    <2>2. /\ r \in Report /\ Uncounted(r) \in Nat
      BY <1>0, UncountedType DEF ReportTypes
    <2>3. /\ clusterTotal' \in Nat /\ repeated' \in Nat /\ dropped' \in Nat
          /\ clusterTotal' + dropped' - repeated' =
               clusterTotal + dropped - repeated + Uncounted(r)
      <3>1. CASE known
        <4>1. RecordStats(r, TRUE)
          BY <2>1, <3>1 DEF RecordStats
        <4>2. /\ clusterTotal' \in Nat /\ repeated' \in Nat
              /\ clusterTotal' - repeated' = clusterTotal - repeated + Uncounted(r)
          BY <1>0, <2>2, <4>1, RecordedOnce DEF ReportTypes
        <4>3. dropped' = dropped
          BY <1>0, <2>1, <3>1 DEF ReportTypes
        <4>4. clusterTotal \in Nat /\ repeated \in Nat /\ dropped \in Nat
          BY <1>0 DEF ReportTypes
        <4> QED
          BY <2>2, <4>2, <4>3, <4>4
      <3>2. CASE ~known
        <4>1. UNCHANGED <<clusterTotal, repeated>>
          BY <2>1, <3>2 DEF RecordStats
        <4>2. dropped' = dropped + Uncounted(r)
          BY <2>1, <3>2
        <4> QED
          BY <1>0, <2>2, <4>1, <4>2 DEF ReportTypes
      <3> QED
        BY <3>1, <3>2
    <2>4. ReportTypes' /\ Settled'
      BY <1>0, <2>1, <2>3, NoneIsReport, CallersAre DEF ReportTypes, Settled
    <2>5. Uncounted(posting'["ticker"]) + Uncounted(posting'["last"]) =
            Uncounted(T) + Uncounted(L) - Uncounted(r)
      <3>1. CASE c = "ticker"
        <4>1. posting'["ticker"] = None /\ posting'["last"] = L
          BY <1>0, <2>1, <3>1, CallersAre DEF ReportTypes
        <4> QED
          BY <1>0, <3>1, <4>1, NoneIsReport
      <3>2. CASE c = "last"
        <4>1. posting'["ticker"] = T /\ posting'["last"] = None
          BY <1>0, <2>1, <3>2, CallersAre DEF ReportTypes
        <4> QED
          BY <1>0, <3>2, <4>1, NoneIsReport
      <3> QED
        BY <3>1, <3>2 DEF Callers
    <2>6. Uncounted(posting'["ticker"]) \in Nat /\ Uncounted(posting'["last"]) \in Nat
      BY <2>4, UncountedType, CallersAre DEF ReportTypes
    <2>7. Uncounted(late') = Uncounted(late)
      BY <2>1
    <2>8. DeltasConserved'
      BY <1>0, <2>1, <2>2, <2>3, <2>5, <2>6, <2>7 DEF ReportTypes, DeltasConserved
    <2> QED
      BY <2>1, <2>4, <2>8, ReportStepKeeps
  <1>14. ASSUME NEW c \in Callers, Unheard(c) PROVE RInv'
    <2> DEFINE r == posting[c]
               n == [delta |-> r.delta, counted |-> r.counted + 1]
    <2>1. /\ r # None /\ r.counted < MaxUnheard
          /\ RecordStats(r, TRUE)
          /\ UNCHANGED <<vars, worker, lastTotal, runKeys, sinceReport, added, late, dropped>>
      BY <1>14 DEF Unheard, hook
    <2>2. /\ r \in Report /\ Uncounted(r) \in Nat /\ r.delta \in Nat /\ r.counted \in Nat
      BY <1>0, UncountedType DEF ReportTypes
    <2>3. posting' = [posting EXCEPT ![c] = n]
      BY <1>14 DEF Unheard
    <2>4. n \in Report /\ Uncounted(n) = 0
      BY <2>1, <2>2, ReportAssumption DEF Report, Uncounted
    <2>5. /\ clusterTotal' \in Nat /\ repeated' \in Nat
          /\ clusterTotal' - repeated' = clusterTotal - repeated + Uncounted(r)
      BY <1>0, <2>1, <2>2, RecordedOnce DEF ReportTypes
    <2>6. posting' \in [Callers -> Report]
      BY <1>0, <2>3, <2>4 DEF ReportTypes
    <2>7. ReportTypes'
      BY <1>0, <2>1, <2>5, <2>6 DEF ReportTypes
    <2>8. Settled'
      BY <1>0, <2>1, <2>3 DEF ReportTypes, Settled
    <2>9. Uncounted(posting'["ticker"]) + Uncounted(posting'["last"]) =
            Uncounted(T) + Uncounted(L) - Uncounted(r)
      <3>1. CASE c = "ticker"
        <4>1. posting'["ticker"] = n /\ posting'["last"] = L
          BY <1>0, <2>3, <3>1, CallersAre DEF ReportTypes
        <4> QED
          BY <1>0, <2>4, <3>1, <4>1
      <3>2. CASE c = "last"
        <4>1. posting'["ticker"] = T /\ posting'["last"] = n
          BY <1>0, <2>3, <3>2, CallersAre DEF ReportTypes
        <4> QED
          BY <1>0, <2>4, <3>2, <4>1
      <3> QED
        BY <3>1, <3>2 DEF Callers
    <2>10. Uncounted(posting'["ticker"]) \in Nat /\ Uncounted(posting'["last"]) \in Nat
      BY <2>6, UncountedType, CallersAre
    <2>11. Uncounted(late') = Uncounted(late)
      BY <2>1
    <2>12. DeltasConserved'
      <3>1. sinceReport' = sinceReport /\ added' = added /\ dropped' = dropped
        BY <2>1
      <3>2. /\ sinceReport \in Nat /\ added \in Nat /\ dropped \in Nat
            /\ clusterTotal \in Nat /\ repeated \in Nat
        BY <1>0 DEF ReportTypes
      <3>3. added + repeated = clusterTotal + dropped + sinceReport + Uncounted(late)
                                 + Uncounted(T) + Uncounted(L)
        BY <1>0 DEF DeltasConserved
      <3>4. /\ Uncounted(T) \in Nat /\ Uncounted(L) \in Nat /\ Uncounted(late) \in Nat
        BY <1>0
      <3>5. added' + repeated' = clusterTotal' + dropped' + sinceReport' + Uncounted(late')
                                 + Uncounted(posting'["ticker"]) + Uncounted(posting'["last"])
        BY <2>2, <2>5, <2>9, <2>10, <2>11, <3>1, <3>2, <3>3, <3>4
      <3> QED
        BY <3>5 DEF DeltasConserved
    <2> QED
      BY <2>1, <2>7, <2>8, <2>12, ReportStepKeeps
  <1>15. CASE UNCHANGED allVars
    <2>1. UNCHANGED reports /\ Updated' = Updated
      BY <1>15 DEF allVars, vars, Updated
    <2>2. Updated.keys \in Nat
      BY DEF TypeOK, Count, Updated
    <2> QED
      BY <2>1, <2>2, QuietStep
  <1> QED
    BY <1>1, <1>2, <1>3, <1>4, <1>5, <1>6, <1>7, <1>8, <1>9, <1>10, <1>11, <1>12,
       <1>13, <1>14, <1>15 DEF ReportNext, ReportStep

\* The books of the reports stay balanced throughout.
LEMMA RInvHolds == ReportSpec => []RInv
  <1>1. ReportSpec => []TypeOK
    BY SearchRefined, TypeCorrect, PTL
  <1> QED
    BY <1>1, InitRInv, NextRInv, PTL DEF ReportSpec

\* Every key the progress hook added is in the counter, in a report, in the
\* cluster total once per count, or known to be lost (searchUntilStop,
\* recordStats).
THEOREM Conserved == ReportSpec => []DeltasConserved
  <1>1. RInv => DeltasConserved
    BY DEF RInv
  <1> QED
    BY <1>1, RInvHolds, PTL

\* Deltas never wrap round, and a search never reports more than the session
\* holds (OnForeverProgress of searchUntilStop).
THEOREM ReportsAreCovered == ReportSpec => []ReportedKeysWereTried
  <1>1. RInv => ReportedKeysWereTried
    BY DEF RInv, HookInv, ReportedKeysWereTried
  <1> QED
    BY <1>1, RInvHolds, PTL

\* The cluster total never shows more keys than progress hooks have counted,
\* but for those that were reported again after a lost reply, although reports
\* are cancelled, overtaken and forgotten on their way (recordStats).
THEOREM ClusterTotalIsCovered == ReportSpec => [](clusterTotal <= added + repeated)
  <1>1. RInv => clusterTotal <= added + repeated
    <2> SUFFICES ASSUME RInv PROVE clusterTotal <= added + repeated
      OBVIOUS
    <2>1. /\ clusterTotal \in Nat /\ added \in Nat /\ repeated \in Nat
          /\ dropped \in Nat /\ sinceReport \in Nat
          /\ posting["ticker"] \in Report /\ posting["last"] \in Report /\ late \in Report
      BY CallersAre DEF RInv, ReportTypes
    <2>2. /\ Uncounted(late) \in Nat /\ Uncounted(posting["ticker"]) \in Nat
          /\ Uncounted(posting["last"]) \in Nat
      BY <2>1, UncountedType
    <2> QED
      BY <2>1, <2>2 DEF RInv, DeltasConserved
  <1> QED
    BY <1>1, RInvHolds, PTL

\* The promises of the session file hold while workers report their searches
\* and while the standalone program uses the file between them.
THEOREM FilePromises ==
    ReportSpec =>
        /\ [][StopOnMaxKeys => runProcessed = cfg.limit]_vars
        /\ [][CountsStay]_vars
        /\ [](disk.hits <= disk.keys)
  BY SearchRefined, LimitIsExact, FileNeverFalls, HitsWithinKeys, PTL
=============================================================================

--------------------------- MODULE ClusterProofs ---------------------------
(***************************************************************************)
(* Proofs about Cluster: every behaviour of the composed system is one of  *)
(* the coordinator, and the invariants that relate the workers and the     *)
(* requests under way to the coordinator that happens to be there.         *)
(***************************************************************************)
EXTENDS Cluster, CoordinatorProofs

\* What a session holds at each of its places.
Session(c) ==
    /\ id[c] = NoID \/ id[c] \in issued
    /\ pc[c] \notin {"register", "exited"} => id[c] # NoID
    /\ pc[c] # "poll" => seen[c] = NoStatus
    /\ pc[c] = "hit" => hit[c] \in Addresses

SessionInv == \A c \in Programs : Session(c)

\* A late request comes from a session that was registered.
LateIssued == \A m \in late : m.id \in issued

Typed == ClusterTypeOK /\ SessionInv /\ LateIssued

\* The places that send a heartbeat, and its wording.
LEMMA BeatKinds ==
    ASSUME NEW p \in DOMAIN BeatState
    PROVE  /\ p \in {"lobbyBeat", "startBeat", "finalBeat", "stopBeat"}
           /\ BeatState[p] \in {"waiting", "running"}
  BY DEF BeatState

\* Where a status can send a worker.
LEMMA PlaceForPlaces ==
    ASSUME NEW s PROVE PlaceFor(s) \in {"lobbyBeat", "startBeat", "stopBeat"}
  BY DEF PlaceFor
-----------------------------------------------------------------------------
(* Every step of the cluster is a step of the coordinator or none.         *)

\* A hit, however it is answered, is a step of the coordinator or none.
LEMMA HitStep ==
    ASSUME NEW w, NEW a \in Addresses, HitAccepted(w, a) \/ HitFailed(w, a)
    PROVE  [Next]_coordVars
  <1>1. ASSUME NEW outcome \in AppendOutcomes, HandleHit(w, a, outcome)
        PROVE  Next
    BY <1>1 DEF Next, HandleHit, FromSearch, Registered
  <1> QED
    BY <1>1 DEF HitAccepted, HitFailed, AppendOutcomes

\* So is every step of the system.
LEMMA StepOfCoordinator == Typed /\ [ClusterNext]_vars => [Next]_coordVars
  <1> SUFFICES ASSUME Typed, [ClusterNext]_vars PROVE [Next]_coordVars
    OBVIOUS
  <1> USE DEF Typed
  <1>1. ASSUME NEW w, NEW state \in {"waiting", "running"}, Heartbeat(w, state)
        PROVE  Next
    BY <1>1 DEF Next, Heartbeat, Registered
  <1>2. ASSUME NEW w, NEW delta \in Deltas, NEW kps \in Rates, RecordStats(w, delta, kps)
        PROVE  Next
    BY <1>2 DEF Next, RecordStats, FromSearch, Registered
  <1>3. ASSUME NEW c \in Programs, WorkerStep(c) PROVE [Next]_coordVars
    <2>1. c \in Clients
      BY DEF Programs
    <2>2. CASE SendRegister(c) \/ (\E g \in Ghosts : GiveUpRegister(c, g))
               \/ (\E w \in WorkerIDs : Registered200(c, w))
      BY <2>1, <2>2, ClusterAssumption
      DEF SendRegister, GiveUpRegister, Registered200, Next
    <2>3. CASE Beat(c) \/ BeatReplyLost(c) \/ (\E w \in WorkerIDs : LoopBeat(c, w))
      BY <1>1, <2>3, BeatKinds DEF Beat, BeatReplyLost, LoopBeat
    <2>4. CASE ReportStats(c) \/ Flush(c)
      BY <1>2, <2>4 DEF ReportStats, Flush
    <2>5. CASE PostHit(c) \/ PostHitAgain(c)
      BY <2>5, HitStep DEF PostHit, PostHitAgain, SessionInv, Session
    <2>6. CASE \/ Sync(c) \/ LoadFails(c) \/ ReadStatus(c) \/ ActOnStatus(c)
               \/ ReloadFails(c) \/ PollRead(c) \/ PollAct(c)
               \/ (\E a \in Addresses : FindHit(c, a))
               \/ AbandonHit(c) \/ LeaveSearch(c) \/ GiveUpAttempt(c)
               \/ Signal(c) \/ HeedSignal(c) \/ HeedSignalLate(c) \/ Kill(c)
      BY <2>6 DEF Sync, LoadFails, ReadStatus, ActOnStatus, ReloadFails, PollRead, PollAct,
                  FindHit, AbandonHit, LeaveSearch, EndSearch, GiveUpAttempt, Signal,
                  HeedSignal, HeedSignalLate, Kill
    <2> QED
      BY <1>3, <2>2, <2>3, <2>4, <2>5, <2>6 DEF WorkerStep
  <1>4. ASSUME NEW r \in Clients,
               Register503(r) \/ \E w \in WorkerIDs : RegisterUnheard(r, w)
        PROVE  [Next]_coordVars
    BY <1>4 DEF Register503, RegisterUnheard, Next
  <1>5. ASSUME NEW m \in late, HandleLate(m) \/ LoseLate(m) PROVE [Next]_coordVars
    <2>1. m.kind = "heartbeat" => m.state \in {"waiting", "running"}
      BY DEF ClusterTypeOK, Requests
    <2>2. m.kind = "hit" => m.address \in Addresses
      BY DEF ClusterTypeOK, Requests
    <2> QED
      BY <1>1, <1>5, <2>1, <2>2, HitStep DEF HandleLate, LoseLate
  <1>6. CASE ServerStep
    BY <1>6 DEF Next
  <1>7. CASE UNCHANGED vars
    BY <1>7 DEF vars
  <1> QED
    BY <1>3, <1>4, <1>5, <1>6, <1>7 DEF ClusterNext
-----------------------------------------------------------------------------
(* What a coordinator knows of an id never comes back once it is lost, and *)
(* while it knows the id its run only goes forward.                        *)

RegisteredIssued == Registered \subseteq issued /\ (serving \/ Registered = {})

Over == {"stopping", "ended"}

KnownOnward ==
    /\ issued \subseteq issued'
    /\ \A w \in issued :
          serving' /\ w \in Registered'
            => /\ serving /\ w \in Registered
               /\ runState # "lobby" => runState' # "lobby"
               /\ runState \in Over => runState' \in Over

\* A step of the coordinator never learns an id again, and its run goes forward
\* as long as it knows one.
LEMMA NextKnown ==
    TypeOK /\ RegisteredIssued /\ [Next]_coordVars => RegisteredIssued' /\ KnownOnward
  <1> SUFFICES ASSUME TypeOK, RegisteredIssued, [Next]_coordVars
               PROVE  RegisteredIssued' /\ KnownOnward
    OBVIOUS
  <1> DEFINE Goal == RegisteredIssued' /\ KnownOnward
  <1> USE DEF RegisteredIssued, KnownOnward, Over
  <1>1. ASSUME Registered' \subseteq Registered, UNCHANGED <<issued, runState, serving>>
        PROVE  Goal
    BY <1>1
  <1>2. ASSUME NEW c \in Clients, NEW w \in WorkerIDs, Register(c, w) PROVE Goal
    <2>1. Registered' = Registered \cup {w}
      BY <1>2 DEF Register, AddWorker, Registered, TypeOK
    <2> QED
      BY <1>2, <2>1 DEF Register, AddWorker, processVars
  <1>3. ASSUME NEW c \in Clients, NEW g \in Clients,
               AdmitRegister(c) \/ RefuseRegister(c) \/ AbandonRegister(c, g)
        PROVE  Goal
    BY <1>1, <1>3 DEF AdmitRegister, RefuseRegister, AbandonRegister, Registered, processVars
  <1>4. ASSUME NEW w \in WorkerIDs, NEW state \in {"waiting", "running"},
               Heartbeat(w, state)
        PROVE  Goal
    <2>1. Registered' \subseteq Registered
      BY <1>4 DEF Heartbeat, Registered, TypeOK
    <2> QED
      BY <1>1, <1>4, <2>1 DEF Heartbeat, processVars
  <1>5. ASSUME NEW w \in WorkerIDs, NEW delta \in Deltas, NEW kps \in Rates,
               RecordStats(w, delta, kps)
        PROVE  Goal
    <2>1. Registered' \subseteq Registered
      BY <1>5 DEF RecordStats, FromSearch, Registered, TypeOK
    <2> QED
      BY <1>1, <1>5, <2>1 DEF RecordStats, processVars
  <1>6. ASSUME NEW w \in WorkerIDs, NEW a \in Addresses, NEW outcome \in AppendOutcomes,
               HandleHit(w, a, outcome)
        PROVE  Goal
    BY <1>1, <1>6 DEF HandleHit, Registered, processVars
  <1>7. ASSUME Tick PROVE Goal
    <2>1. Registered' \subseteq Registered
      BY <1>7 DEF Tick, Registered, TypeOK, WorkerEntry
    <2> QED
      BY <1>1, <1>7, <2>1 DEF Tick, processVars
  <1>8. ASSUME PruneStale PROVE Goal
    <2>1. Registered' \subseteq Registered
      BY <1>8 DEF PruneStale, Registered, Offline
    <2> QED
      BY <1>1, <1>8, <2>1 DEF PruneStale, processVars
  <1>9. ASSUME StartRun PROVE Goal
    <2>1. Registered' \subseteq Registered
      BY <1>9 DEF StartRun, Registered
    <2> QED
      BY <1>9, <2>1 DEF StartRun, processVars
  <1>10. ASSUME Interrupt PROVE Goal
    BY <1>1, <1>10 DEF Interrupt, Registered
  <1>11. ASSUME StopRun \/ EndRun PROVE Goal
    <2>1. Registered' = Registered
      BY <1>11 DEF StopRun, EndRun, Registered
    <2> QED
      BY <1>11, <2>1 DEF StopRun, EndRun, processVars
  <1>12. ASSUME Gone PROVE Goal
    <2>1. Registered' = {}
      BY <1>12 DEF Gone, Registered, Offline
    <2> QED
      BY <1>12, <2>1 DEF Gone
  <1>13. ASSUME Restart PROVE Goal
    <2>1. Registered' = {}
      BY <1>13 DEF Restart, Registered
    <2> QED
      BY <1>13, <2>1 DEF Restart
  <1>14. CASE UNCHANGED coordVars
    BY <1>1, <1>14 DEF coordVars, processVars, Registered
  <1> QED
    BY <1>2, <1>3, <1>4, <1>5, <1>6, <1>7, <1>8, <1>9, <1>10, <1>11, <1>12, <1>13, <1>14
    DEF Next, ServerStep, Shutdown, Crash
-----------------------------------------------------------------------------
(* Types, sessions and ids.                                                *)

\* Fresh workers have their types.
LEMMA InitTyped == ClusterInit => Typed /\ RegisteredIssued
  <1> SUFFICES ASSUME ClusterInit PROVE Typed /\ RegisteredIssued
    OBVIOUS
  <1>1. TypeOK /\ RegisteredIssued
    BY InitType DEF ClusterInit, Init, RegisteredIssued, Registered, Offline
  <1>2. ClusterTypeOK
    BY <1>1 DEF ClusterInit, ClusterTypeOK, Places, Statuses
  <1>3. SessionInv /\ LateIssued
    BY DEF ClusterInit, SessionInv, Session, LateIssued
  <1> QED
    BY <1>1, <1>2, <1>3 DEF Typed

\* Everything Typed says besides the types of the coordinator.
WorkersTyped ==
    /\ pc \in [Programs -> Places]
    /\ id \in [Programs -> WorkerIDs \cup {NoID}]
    /\ seen \in [Programs -> Statuses]
    /\ polled \in [Programs -> Statuses]
    /\ cancelled \in [Programs -> BOOLEAN]
    /\ signalled \in [Programs -> BOOLEAN]
    /\ beats \in [Programs -> SUBSET WorkerIDs]
    /\ hit \in [Programs -> Addresses \cup {NoHit}]
    /\ SessionInv

NetTyped ==
    /\ late \subseteq Requests
    /\ acked \subseteq Addresses
    /\ lostAppends \subseteq Addresses
    /\ LateIssued

\* The invariant falls into three parts.
LEMMA TypedParts == Typed <=> TypeOK /\ WorkersTyped /\ NetTyped
  BY DEF Typed, ClusterTypeOK, WorkersTyped, NetTyped

\* Every step keeps the types of the workers.
LEMMA NextWorkersTyped ==
    TypeOK /\ WorkersTyped /\ TypeOK' /\ issued \subseteq issued' /\ [ClusterNext]_vars
      => WorkersTyped'
  <1> SUFFICES ASSUME TypeOK, WorkersTyped, TypeOK', issued \subseteq issued',
                      [ClusterNext]_vars
               PROVE  WorkersTyped'
    OBVIOUS
  <1> USE NullAssumption DEF WorkersTyped, SessionInv, Session
  <1>1. ASSUME UNCHANGED workerVars PROVE WorkersTyped'
    BY <1>1 DEF workerVars, sessionVars
  <1>2. ASSUME NEW c \in Programs, WorkerStep(c) PROVE WorkersTyped'
    <2>1. CASE \/ SendRegister(c) \/ BeatReplyLost(c) \/ ReportStats(c)
               \/ PostHitAgain(c) \/ GiveUpAttempt(c)
               \/ (\E g \in Ghosts : GiveUpRegister(c, g))
               \/ (\E w \in WorkerIDs : LoopBeat(c, w))
      BY <1>1, <2>1 DEF SendRegister, BeatReplyLost, ReportStats, PostHitAgain,
                        GiveUpAttempt, GiveUpRegister, LoopBeat
    <2>2. ASSUME NEW w \in WorkerIDs, Registered200(c, w) PROVE WorkersTyped'
      <3>1. w \in issued'
        BY <2>2 DEF Registered200, Register, AddWorker
      <3> QED
        BY <2>2, <3>1 DEF Registered200, GoTo, Places
    <2>3. ASSUME Exit(c) PROVE WorkersTyped'
      BY <2>3 DEF Exit, GoTo, Places, Statuses
    <2>4. ASSUME EndSearch(c), pc[c] \in {"search", "hit"} PROVE WorkersTyped'
      BY <2>4 DEF EndSearch, GoTo, Places, Statuses
    <2>5. CASE HeedSignal(c) \/ Kill(c)
      BY <2>3, <2>5 DEF HeedSignal, Kill
    <2>6. CASE AbandonHit(c) \/ LeaveSearch(c)
      BY <2>4, <2>6 DEF AbandonHit, LeaveSearch
    <2>7. CASE Sync(c)
      BY <2>7 DEF Sync, GoTo, Places
    <2>8. CASE LoadFails(c)
      BY <2>8 DEF LoadFails, GoTo, Places
    <2>9. CASE ReadStatus(c)
      BY <2>9 DEF ReadStatus, Statuses, TypeOK
    <2>10. CASE ActOnStatus(c)
      BY <2>10, PlaceForPlaces DEF ActOnStatus, GoTo, Places, Statuses
    <2>11. CASE ReloadFails(c)
      BY <2>11 DEF ReloadFails, GoTo, Places, Statuses
    <2>12. CASE Beat(c)
      <3>1. pc[c] \in {"lobbyBeat", "startBeat", "finalBeat", "stopBeat"}
        BY <2>12, BeatKinds DEF Beat
      <3>2. \/ Exit(c)
            \/ GoTo(c, "search") /\ UnchangedButPlace
            \/ GoTo(c, "poll") /\ UnchangedButPlace
        BY <2>12, <3>1 DEF Beat
      <3> QED
        BY <2>3, <3>1, <3>2 DEF GoTo, UnchangedButPlace, Places
    <2>13. CASE PollRead(c)
      BY <2>13 DEF PollRead, Statuses, TypeOK
    <2>14. CASE PollAct(c)
      <3>1. (cancelled[c] \/ polled[c] # "running") \in BOOLEAN
        OBVIOUS
      <3> QED
        BY <2>14, <3>1 DEF PollAct, Statuses
    <2>15. ASSUME NEW a \in Addresses, FindHit(c, a) PROVE WorkersTyped'
      BY <2>15 DEF FindHit, GoTo, Places
    <2>16. CASE PostHit(c)
      BY <2>16 DEF PostHit, HitDone, GoTo, Places
    <2>17. CASE Flush(c)
      BY <2>17 DEF Flush, GoTo, Places
    <2>18. CASE Signal(c)
      BY <2>18 DEF Signal, sessionVars
    <2>19. CASE HeedSignalLate(c)
      BY <2>19 DEF HeedSignalLate, GoTo, UnchangedButPlace, Places
    <2> QED
      BY <1>2, <2>1, <2>2, <2>5, <2>6, <2>7, <2>8, <2>9, <2>10, <2>11, <2>12, <2>13, <2>14,
         <2>15, <2>16, <2>17, <2>18, <2>19
      DEF WorkerStep
  <1>3. ASSUME NEW r \in Clients,
               Register503(r) \/ \E w \in WorkerIDs : RegisterUnheard(r, w)
        PROVE  WorkersTyped'
    BY <1>1, <1>3 DEF Register503, RegisterUnheard
  <1>4. ASSUME NEW m \in late, HandleLate(m) \/ LoseLate(m) PROVE WorkersTyped'
    BY <1>1, <1>4 DEF HandleLate, LoseLate
  <1> QED
    BY <1>1, <1>2, <1>3, <1>4 DEF ClusterNext, vars
\* Every step keeps the types of the requests under way.
LEMMA NextNetTyped ==
    TypeOK /\ WorkersTyped /\ NetTyped /\ issued \subseteq issued' /\ [ClusterNext]_vars
      => NetTyped'
  <1> SUFFICES ASSUME TypeOK, WorkersTyped, NetTyped, issued \subseteq issued',
                      [ClusterNext]_vars
               PROVE  NetTyped'
    OBVIOUS
  <1>1. ASSUME late' \subseteq late, acked' \subseteq Addresses, lostAppends' \subseteq Addresses
        PROVE  NetTyped'
    BY <1>1 DEF NetTyped, LateIssued
  <1>2. ASSUME UNCHANGED netVars PROVE NetTyped'
    BY <1>1, <1>2 DEF netVars, NetTyped
  <1>3. ASSUME NEW w, NEW a \in Addresses, HitAccepted(w, a) \/ HitFailed(w, a)
        PROVE  lostAppends' \subseteq Addresses
    BY <1>3 DEF HitAccepted, HitFailed, NetTyped
  <1>4. ASSUME NEW c \in Programs, WorkerStep(c) PROVE NetTyped'
    <2>1. pc[c] = "hit" => hit[c] \in Addresses
      BY DEF WorkersTyped, SessionInv, Session
    <2>2. CASE PostHit(c) \/ PostHitAgain(c)
      BY <1>1, <1>3, <2>1, <2>2 DEF PostHit, PostHitAgain, NetTyped
    <2>3. CASE GiveUpAttempt(c)
      <3>1. id[c] \in WorkerIDs /\ id[c] \in issued
        BY <2>3, BeatKinds, NullAssumption
        DEF GiveUpAttempt, WorkersTyped, SessionInv, Session
      <3>2. Outstanding(c) \in Requests
        BY <2>1, <2>3, <3>1, BeatKinds DEF GiveUpAttempt, Outstanding, Requests
      <3>3. Outstanding(c).id \in issued
        BY <3>1 DEF Outstanding
      <3> QED
        BY <2>3, <3>2, <3>3 DEF GiveUpAttempt, NetTyped, LateIssued
    <2>4. CASE \/ SendRegister(c) \/ Sync(c) \/ LoadFails(c)
               \/ (\E g \in Ghosts : GiveUpRegister(c, g))
               \/ (\E w \in WorkerIDs : Registered200(c, w) \/ LoopBeat(c, w))
               \/ ReadStatus(c) \/ ActOnStatus(c) \/ ReloadFails(c) \/ Beat(c)
               \/ BeatReplyLost(c) \/ PollRead(c) \/ PollAct(c) \/ ReportStats(c)
               \/ (\E a \in Addresses : FindHit(c, a))
               \/ AbandonHit(c) \/ LeaveSearch(c) \/ Flush(c) \/ Signal(c)
               \/ HeedSignal(c) \/ HeedSignalLate(c) \/ Kill(c)
      BY <1>2, <2>4 DEF SendRegister, Sync, LoadFails, GiveUpRegister, Registered200,
                        LoopBeat, ReadStatus, ActOnStatus, ReloadFails, Beat, BeatReplyLost,
                        PollRead, PollAct, ReportStats, FindHit, AbandonHit, LeaveSearch,
                        EndSearch, Flush, Signal, HeedSignal, HeedSignalLate, Kill
    <2> QED
      BY <1>4, <2>2, <2>3, <2>4 DEF WorkerStep
  <1>5. ASSUME NEW r \in Clients,
               Register503(r) \/ \E w \in WorkerIDs : RegisterUnheard(r, w)
        PROVE  NetTyped'
    BY <1>2, <1>5 DEF Register503, RegisterUnheard
  <1>6. ASSUME NEW m \in late, HandleLate(m) \/ LoseLate(m) PROVE NetTyped'
    <2>1. m.kind = "hit" => m.address \in Addresses
      BY DEF NetTyped, Requests
    <2>2. lostAppends' \subseteq Addresses
      BY <1>3, <1>6, <2>1 DEF HandleLate, LoseLate, NetTyped
    <2> QED
      BY <1>1, <1>6, <2>2 DEF HandleLate, LoseLate, NetTyped
  <1> QED
    BY <1>2, <1>4, <1>5, <1>6 DEF ClusterNext, vars

\* Every step keeps all types.
LEMMA NextTyped ==
    Typed /\ RegisteredIssued /\ [ClusterNext]_vars => Typed' /\ RegisteredIssued'
  <1> SUFFICES ASSUME Typed, RegisteredIssued, [ClusterNext]_vars
               PROVE  Typed' /\ RegisteredIssued'
    OBVIOUS
  <1>1. TypeOK /\ WorkersTyped /\ NetTyped
    BY TypedParts
  <1>2. [Next]_coordVars
    BY StepOfCoordinator
  <1>3. TypeOK'
    BY <1>1, <1>2, NextType
  <1>4. RegisteredIssued' /\ issued \subseteq issued'
    BY <1>1, <1>2, NextKnown DEF KnownOnward
  <1>5. WorkersTyped' /\ NetTyped'
    BY <1>1, <1>3, <1>4, NextWorkersTyped, NextNetTyped
  <1>6. Typed'
    BY <1>3, <1>5 DEF Typed, ClusterTypeOK, WorkersTyped, NetTyped
  <1> QED
    BY <1>4, <1>6

\* The types hold throughout.
LEMMA TypedHolds == ClusterSpec => [](Typed /\ RegisteredIssued)
  BY InitTyped, NextTyped, PTL DEF ClusterSpec

\* The worker programs and the requests under way keep their shapes, and the
\* coordinator keeps its own under them (run.go, client.go, lobby.go).
THEOREM ClusterTypeCorrect == ClusterSpec => []ClusterTypeOK
  <1>1. Typed => ClusterTypeOK
    BY DEF Typed
  <1> QED
    BY <1>1, TypedHolds, PTL

\* The composed system implements Coordinator: with any number of workers, and
\* with retries, late requests, signals and kills, the coordinator sees calls
\* that Coordinator allows (run.go, client.go, handlers.go).
THEOREM ClusterRefinesCoordinator == ClusterSpec => Spec
  <1>1. ClusterInit => Init
    BY DEF ClusterInit
  <1>2. Typed /\ [ClusterNext]_vars => [Next]_coordVars
    BY StepOfCoordinator
  <1> QED
    BY <1>1, <1>2, TypedHolds, PTL DEF ClusterSpec, Spec

\* What CoordinatorProofs proves of the coordinator holds in the cluster: the
\* capacity, the one record per address, the hit count and the pruning.
THEOREM CoordinatorUnderWorkers ==
    ClusterSpec => [](/\ CapacityRespected /\ OneRecordPerAddress
                      /\ CountedHitsAreRecorded /\ SilentWorkersLeave)
  BY ClusterRefinesCoordinator, CapacityHolds, OneRecord, CountSound, SilenceBounded, PTL

\* wallets.txt is a HitLedger however workers report their hits.
THEOREM LedgerUnderWorkers == ClusterSpec => ImplementsLedger
  BY ClusterRefinesCoordinator, Refinement, PTL
-----------------------------------------------------------------------------
(* The workers a coordinator knows never run ahead of it.  A status is read *)
(* in one step and used in a later one, so the invariant also covers the    *)
(* status a session has read and not yet used.                              *)

SearchPlaces == {"startBeat", "search", "hit", "flush", "finalBeat"}

Follows(c) ==
    Known(c) =>
        /\ pc[c] \in SearchPlaces \/ seen[c] = "running" => runState # "lobby"
        /\ pc[c] = "stopBeat" \/ seen[c] \in Over => runState \in Over

LateFollows(m) ==
    m.kind = "hit" /\ serving /\ m.id \in Registered => runState # "lobby"

FollowInv ==
    /\ \A c \in Programs : Follows(c)
    /\ \A m \in late : LateFollows(m)

\* Workers without an id are behind every run.
LEMMA InitFollow == ClusterInit => FollowInv
  BY NullAssumption DEF ClusterInit, FollowInv, Follows, Known, Registered

\* A worker that takes no step towards the run stays behind it.
LEMMA FollowUndisturbed ==
    ASSUME NEW d \in Programs, Session(d), Follows(d), KnownOnward,
           id'[d] = id[d], seen'[d] = seen[d],
           \/ pc'[d] = pc[d]
           \/ pc'[d] \notin SearchPlaces \cup {"stopBeat"}
           \/ pc[d] \in SearchPlaces /\ pc'[d] \in SearchPlaces
    PROVE  Follows(d)'
  <1>1. Known(d)' => id[d] \in issued /\ Known(d)
    BY NullAssumption DEF Known, Registered, Session, KnownOnward
  <1> QED
    BY <1>1 DEF Follows, Known, KnownOnward, SearchPlaces

\* A worker without an id is behind every run.
LEMMA FollowUnknown ==
    ASSUME NEW d \in Programs, id'[d] = NoID
    PROVE  Follows(d)'
  BY NullAssumption DEF Follows, Known, Registered

\* Every step keeps the workers behind the run.
LEMMA NextWorkersFollow ==
    ASSUME Typed, FollowInv, KnownOnward, [ClusterNext]_vars, NEW d \in Programs
    PROVE  Follows(d)'
  <1>0. Session(d) /\ Follows(d)
    BY DEF Typed, SessionInv, FollowInv
  <1>t. /\ pc \in [Programs -> Places] /\ id \in [Programs -> WorkerIDs \cup {NoID}]
        /\ seen \in [Programs -> Statuses] /\ runState \in RunStates
    BY DEF Typed, ClusterTypeOK, TypeOK
  <1>1. ASSUME UNCHANGED workerVars PROVE Follows(d)'
    BY <1>0, <1>1, FollowUndisturbed DEF workerVars, sessionVars
  <1>2. ASSUME NEW c \in Programs, WorkerStep(c) PROVE Follows(d)'
    <2>0. ASSUME c # d PROVE Follows(d)'
      <3>1. pc'[d] = pc[d] /\ id'[d] = id[d] /\ seen'[d] = seen[d]
        BY <1>t, <1>2, <2>0
        DEF WorkerStep, SendRegister, Sync, LoadFails, GiveUpRegister, Registered200,
            LoopBeat, ReadStatus, ActOnStatus, ReloadFails, Beat, BeatReplyLost, PollRead,
            PollAct, ReportStats, FindHit, PostHit, PostHitAgain, HitDone, AbandonHit,
            LeaveSearch, EndSearch, Flush, GiveUpAttempt, Signal, HeedSignal,
            HeedSignalLate, Kill, Exit, GoTo, UnchangedButPlace, workerVars, sessionVars
      <3> QED
        BY <1>0, <3>1, FollowUndisturbed
    <2> SUFFICES ASSUME c = d PROVE Follows(d)'
      BY <2>0
    <2>1. CASE \/ SendRegister(d) \/ BeatReplyLost(d) \/ ReportStats(d)
               \/ PostHitAgain(d) \/ GiveUpAttempt(d)
               \/ (\E g \in Ghosts : GiveUpRegister(d, g))
               \/ (\E w \in WorkerIDs : LoopBeat(d, w))
      BY <1>1, <2>1 DEF SendRegister, BeatReplyLost, ReportStats, PostHitAgain,
                        GiveUpAttempt, GiveUpRegister, LoopBeat
    <2>2. ASSUME NEW w \in WorkerIDs, Registered200(d, w) PROVE Follows(d)'
      BY <1>0, <1>t, <2>2
      DEF Registered200, GoTo, Follows, Session, SearchPlaces, Over, NoStatus
    <2>3. ASSUME Exit(d) PROVE Follows(d)'
      BY <1>t, <2>3, FollowUnknown DEF Exit
    <2>4. ASSUME EndSearch(d), pc[d] \in {"search", "hit"} PROVE Follows(d)'
      <3>1. pc[d] \in SearchPlaces /\ pc'[d] \in SearchPlaces
        BY <1>t, <2>4 DEF EndSearch, GoTo, SearchPlaces
      <3> QED
        BY <1>0, <2>4, <3>1, FollowUndisturbed DEF EndSearch
    <2>5. CASE HeedSignal(d) \/ Kill(d)
      BY <2>3, <2>5 DEF HeedSignal, Kill
    <2>6. CASE AbandonHit(d) \/ LeaveSearch(d)
      BY <2>4, <2>6 DEF AbandonHit, LeaveSearch
    <2>7. CASE LoadFails(d) \/ ReloadFails(d)
      BY <1>t, <2>7, FollowUnknown DEF LoadFails, ReloadFails
    <2>8. CASE Sync(d)
      BY <1>0, <1>t, <2>8, FollowUndisturbed DEF Sync, GoTo, SearchPlaces
    <2>9. CASE ReadStatus(d)
      BY <1>0, <1>t, <2>9
      DEF ReadStatus, coordVars, processVars, Follows, Known, Registered, SearchPlaces, Over
    <2>10. CASE ActOnStatus(d)
      <3>1. seen[d] \in {"lobby", "running", "stopping", "ended"}
        BY <1>t, <2>10 DEF ActOnStatus, Statuses, RunStates
      <3>2. /\ pc'[d] = PlaceFor(seen[d]) /\ seen'[d] = NoStatus
            /\ UNCHANGED <<coordVars, id>>
        BY <1>t, <2>10 DEF ActOnStatus, GoTo
      <3> QED
        BY <1>0, <3>1, <3>2
        DEF PlaceFor, coordVars, processVars, Follows, Known, Registered, SearchPlaces,
            Over, NoStatus
    <2>11. CASE Beat(d)
      <3>1. pc[d] \in {"lobbyBeat", "startBeat", "finalBeat", "stopBeat"}
        BY <2>11, BeatKinds DEF Beat
      <3>2. \/ Exit(d)
            \/ pc[d] = "startBeat" /\ GoTo(d, "search") /\ UnchangedButPlace
            \/ GoTo(d, "poll") /\ UnchangedButPlace
        BY <2>11, <3>1 DEF Beat
      <3> QED
        BY <1>0, <1>t, <2>3, <3>2, FollowUndisturbed
        DEF GoTo, UnchangedButPlace, SearchPlaces
    <2>12. CASE PollRead(d) \/ PollAct(d) \/ Signal(d)
      BY <1>0, <2>12, FollowUndisturbed DEF PollRead, PollAct, Signal, sessionVars
    <2>13. ASSUME NEW a \in Addresses, FindHit(d, a) PROVE Follows(d)'
      BY <1>0, <1>t, <2>13, FollowUndisturbed DEF FindHit, GoTo, SearchPlaces
    <2>14. CASE PostHit(d)
      BY <1>0, <1>t, <2>14, FollowUndisturbed DEF PostHit, HitDone, GoTo, SearchPlaces
    <2>15. CASE Flush(d)
      BY <1>0, <1>t, <2>15, FollowUndisturbed DEF Flush, GoTo, SearchPlaces
    <2>16. CASE HeedSignalLate(d)
      BY <1>0, <1>t, <2>16, FollowUndisturbed
      DEF HeedSignalLate, GoTo, UnchangedButPlace, SearchPlaces
    <2> QED
      BY <1>2, <2>1, <2>2, <2>5, <2>6, <2>7, <2>8, <2>9, <2>10, <2>11, <2>12, <2>13, <2>14,
         <2>15, <2>16
      DEF WorkerStep
  <1>3. ASSUME NEW r \in Clients,
               Register503(r) \/ \E w \in WorkerIDs : RegisterUnheard(r, w)
        PROVE  Follows(d)'
    BY <1>1, <1>3 DEF Register503, RegisterUnheard
  <1>4. ASSUME NEW m \in late, HandleLate(m) \/ LoseLate(m) PROVE Follows(d)'
    BY <1>1, <1>4 DEF HandleLate, LoseLate
  <1> QED
    BY <1>1, <1>2, <1>3, <1>4 DEF ClusterNext, vars

\* Every step keeps the late hits behind the run.
LEMMA NextLateFollow ==
    ASSUME Typed, FollowInv, KnownOnward, [ClusterNext]_vars, NEW m \in late'
    PROVE  LateFollows(m)'
  <1>1. ASSUME m \in late PROVE LateFollows(m)'
    <2>1. m.id \in issued /\ LateFollows(m)
      BY <1>1 DEF Typed, LateIssued, FollowInv
    <2> QED
      BY <2>1 DEF LateFollows, KnownOnward
  <1>2. CASE \E c \in Programs : GiveUpAttempt(c)
    <2>1. PICK c \in Programs : GiveUpAttempt(c)
      BY <1>2
    <2>2. /\ Follows(c)
          /\ serving' = serving /\ workers' = workers /\ runState' = runState
          /\ m \in late \/ m = Outstanding(c)
      BY <2>1 DEF GiveUpAttempt, FollowInv, coordVars, processVars
    <2>3. CASE pc[c] = "hit" /\ m = Outstanding(c)
      <3>1. m.id = id[c]
        BY <2>3 DEF Outstanding
      <3> QED
        BY <2>2, <2>3, <3>1
        DEF LateFollows, Follows, Known, SearchPlaces, Registered
    <2>4. CASE pc[c] # "hit" /\ m = Outstanding(c)
      <3>1. m.kind = "heartbeat"
        BY <2>4 DEF Outstanding
      <3> QED
        BY <3>1 DEF LateFollows
    <2> QED
      BY <1>1, <2>2, <2>3, <2>4
  <1>3. CASE ~\E c \in Programs : GiveUpAttempt(c)
    <2>1. late' \subseteq late
      BY <1>3
      DEF ClusterNext, WorkerStep, SendRegister, Sync, LoadFails, GiveUpRegister,
          Registered200, LoopBeat, ReadStatus, ActOnStatus, ReloadFails, Beat, BeatReplyLost,
          PollRead, PollAct, ReportStats, FindHit, PostHit, PostHitAgain, AbandonHit,
          LeaveSearch, EndSearch, Flush, Signal, HeedSignal, HeedSignalLate, Kill,
          Register503, RegisterUnheard, HandleLate, LoseLate, netVars, vars
    <2> QED
      BY <1>1, <2>1
  <1> QED
    BY <1>2, <1>3

\* Every step keeps both behind the run.
LEMMA NextFollow ==
    Typed /\ RegisteredIssued /\ FollowInv /\ [ClusterNext]_vars => FollowInv'
  <1> SUFFICES ASSUME Typed, RegisteredIssued, FollowInv, [ClusterNext]_vars
               PROVE  FollowInv'
    OBVIOUS
  <1>1. KnownOnward
    BY StepOfCoordinator, NextKnown DEF Typed, ClusterTypeOK
  <1>2. \A c \in Programs : Follows(c)'
    BY <1>1, NextWorkersFollow
  <1>3. \A m \in late' : LateFollows(m)'
    BY <1>1, NextLateFollow
  <1> QED
    BY <1>2, <1>3 DEF FollowInv

\* Workers and late hits stay behind the run throughout.
LEMMA FollowHolds == ClusterSpec => []FollowInv
  BY InitFollow, NextFollow, TypedHolds, PTL DEF ClusterSpec

\* A coordinator that knows a worker never finds it ahead of its own run, with
\* any number of workers, restarts and late requests (runSession, runStatus).
THEOREM WorkersStayBehind == ClusterSpec => []WorkersFollowRun
  <1>1. FollowInv => WorkersFollowRun
    BY DEF FollowInv, Follows, WorkersFollowRun, SearchPlaces, Over
  <1> QED
    BY <1>1, FollowHolds, PTL

\* Nor does a report that a worker gave up arrive from before the run of the
\* process it arrives at (doJSON, handleHit).
THEOREM LateHitsStayBehind == ClusterSpec => []LateHitsFollowRun
  <1>1. FollowInv => LateHitsFollowRun
    BY DEF FollowInv, LateFollows, LateHitsFollowRun
  <1> QED
    BY <1>1, FollowHolds, PTL
-----------------------------------------------------------------------------
(* A reply of 204 is accounted for.                                        *)

Accounted(a) == EverRecorded(a) \/ a \in lostAppends

AccountInv == \A a \in hitAddresses \cup acked : Accounted(a)

\* A record is never taken back, by this process or a later one.
LEMMA RecordsStay ==
    ASSUME TypeOK, [Next]_coordVars, NEW a \in Addresses, EverRecorded(a)
    PROVE  EverRecorded(a)'
  <1>1. PICK p \in 1..Processes : wallets[p][a] > 0
    BY DEF EverRecorded
  <1>2. ASSUME UNCHANGED wallets PROVE EverRecorded(a)'
    BY <1>1, <1>2 DEF EverRecorded
  <1>3. ASSUME NEW b \in Addresses, NEW outcome \in AppendOutcomes, AppendRecord(b, outcome)
        PROVE  EverRecorded(a)'
    <2>1. wallets[p][a] \in Nat /\ wallets[process][b] \in Nat
      BY DEF TypeOK
    <2>2. wallets'[p][a] \in {wallets[p][a], wallets[p][a] + 1}
      BY <1>3, <2>1 DEF AppendRecord, TypeOK
    <2>3. wallets'[p][a] > 0
      BY <1>1, <2>1, <2>2
    <2> QED
      BY <2>3 DEF EverRecorded
  <1>4. CASE \E w \in WorkerIDs, b \in Addresses, outcome \in AppendOutcomes :
                HandleHit(w, b, outcome)
    BY <1>3, <1>4 DEF HandleHit
  <1>5. CASE UNCHANGED coordVars
    BY <1>2, <1>5 DEF coordVars
  <1>6. CASE Next /\ ~\E w \in WorkerIDs, b \in Addresses, outcome \in AppendOutcomes :
                       HandleHit(w, b, outcome)
    BY <1>2, <1>6
    DEF Next, ServerStep, AdmitRegister, RefuseRegister, Register, AddWorker,
        AbandonRegister, Heartbeat, RecordStats, Tick, PruneStale, StartRun, Interrupt,
        StopRun, EndRun, Shutdown, Crash, Gone, Restart
  <1> QED
    BY <1>4, <1>5, <1>6
\* What was accounted for stays so.
LEMMA AccountedStays ==
    ASSUME TypeOK, [Next]_coordVars, lostAppends \subseteq lostAppends',
           NEW a \in Addresses, Accounted(a)
    PROVE  Accounted(a)'
  BY RecordsStay DEF Accounted

\* A hit whose append was not lost is recorded.
LEMMA HitEntered ==
    ASSUME TypeOK, NEW w, NEW a \in Addresses, NEW outcome \in {"ok", "unsynced"},
           HandleHit(w, a, outcome)
    PROVE  EverRecorded(a)'
  <1>1. wallets'[process][a] = wallets[process][a] + 1
    BY DEF HandleHit, AppendRecord, TypeOK
  <1>2. wallets[process][a] \in Nat /\ process \in 1..Processes
    BY DEF TypeOK
  <1> QED
    BY <1>1, <1>2 DEF EverRecorded

\* The reply decides what a report leaves behind.
LEMMA HitOutcome ==
    ASSUME TypeOK, NEW w, NEW a \in Addresses, HitAccepted(w, a) \/ HitFailed(w, a)
    PROVE  /\ lostAppends \subseteq lostAppends'
           /\ hitAddresses' \subseteq hitAddresses \cup {a}
           /\ a \in hitAddresses \/ Accounted(a)'
  <1>1. ASSUME HandleHit(w, a, "ok"), UNCHANGED lostAppends
        PROVE  hitAddresses' \subseteq hitAddresses \cup {a} /\ Accounted(a)'
    BY <1>1, HitEntered DEF HandleHit, Accounted
  <1>2. ASSUME NEW outcome \in {"lost", "unsynced"}, HandleHit(w, a, outcome),
               lostAppends' = IF outcome = "lost" THEN lostAppends \cup {a} ELSE lostAppends
        PROVE  hitAddresses' \subseteq hitAddresses \cup {a} /\ Accounted(a)'
    <2>1. hitAddresses' \subseteq hitAddresses \cup {a}
      BY <1>2 DEF HandleHit
    <2>2. CASE outcome = "lost"
      BY <1>2, <2>1, <2>2 DEF Accounted
    <2>3. CASE outcome = "unsynced"
      BY <1>2, <2>1, <2>3, HitEntered DEF Accounted
    <2> QED
      BY <2>2, <2>3
  <1>3. CASE HitAccepted(w, a)
    BY <1>1, <1>3 DEF HitAccepted, coordVars, serverVars
  <1>4. CASE HitFailed(w, a)
    BY <1>2, <1>4 DEF HitFailed, AppendOutcomes
  <1> QED
    BY <1>3, <1>4

\* Nothing is reported or acknowledged at first.
LEMMA InitAccount == ClusterInit => AccountInv
  BY DEF ClusterInit, Init, AccountInv

\* Every step accounts for what it reports or acknowledges.
LEMMA NextAccount ==
    Typed /\ AccountInv /\ [ClusterNext]_vars => AccountInv'
  <1> SUFFICES ASSUME Typed, AccountInv, [ClusterNext]_vars PROVE AccountInv'
    OBVIOUS
  <1>1. /\ TypeOK /\ [Next]_coordVars
        /\ acked \subseteq Addresses /\ hitAddresses \subseteq Addresses
    BY StepOfCoordinator DEF Typed, ClusterTypeOK, TypeOK
  <1>2. ASSUME hitAddresses' \subseteq hitAddresses, UNCHANGED <<acked, lostAppends>>
        PROVE  AccountInv'
    BY <1>1, <1>2, AccountedStays DEF AccountInv
  <1>3. ASSUME NEW w, NEW a \in Addresses, HitAccepted(w, a) \/ HitFailed(w, a),
               acked' \subseteq acked \cup {a}
        PROVE  AccountInv'
    <2>1. /\ lostAppends \subseteq lostAppends'
          /\ hitAddresses' \subseteq hitAddresses \cup {a}
          /\ a \in hitAddresses \/ Accounted(a)'
      BY <1>1, <1>3, HitOutcome
    <2>2. \A b \in hitAddresses \cup acked : Accounted(b)'
      BY <1>1, <2>1, AccountedStays DEF AccountInv
    <2> QED
      BY <1>3, <2>1, <2>2 DEF AccountInv
  <1>4. ASSUME NEW c \in Programs, PostHit(c) \/ PostHitAgain(c) PROVE AccountInv'
    <2>1. hit[c] \in Addresses
      BY <1>4 DEF PostHit, PostHitAgain, Typed, SessionInv, Session
    <2> QED
      BY <1>3, <1>4, <2>1 DEF PostHit, PostHitAgain
  <1>5. ASSUME NEW m \in late, HandleLate(m), m.kind = "hit" PROVE AccountInv'
    <2>1. m.address \in Addresses
      BY <1>5 DEF Typed, ClusterTypeOK, Requests
    <2> QED
      BY <1>3, <1>5, <2>1 DEF HandleLate
  <1>6. CASE ServerStep /\ UNCHANGED <<workerVars, netVars>>
    <2>1. hitAddresses' \subseteq hitAddresses
      BY <1>6 DEF ServerStep, Tick, PruneStale, StartRun, Interrupt, StopRun, EndRun,
                  Shutdown, Crash, Gone, Restart, serverVars
    <2> QED
      BY <1>2, <1>6, <2>1 DEF netVars
  <1>7. ASSUME UNCHANGED <<hitAddresses, netVars>> PROVE AccountInv'
    BY <1>2, <1>7 DEF netVars
  <1>8. ASSUME NEW c \in Programs, WorkerStep(c), ~PostHit(c), ~PostHitAgain(c)
        PROVE  AccountInv'
    <2>1. UNCHANGED <<hitAddresses, acked, lostAppends>>
      BY <1>8
      DEF WorkerStep, SendRegister, AdmitRegister, Sync, LoadFails, GiveUpRegister,
          AbandonRegister, Registered200, Register, AddWorker, LoopBeat, Heartbeat,
          ReadStatus, ActOnStatus, ReloadFails, Beat, BeatReplyLost, PollRead, PollAct,
          ReportStats, RecordStats, FindHit, AbandonHit, LeaveSearch, EndSearch, Flush,
          GiveUpAttempt, Signal, HeedSignal, HeedSignalLate, Kill, netVars, coordVars,
          serverVars
    <2> QED
      BY <1>2, <2>1
  <1>9. ASSUME NEW r \in Clients,
               Register503(r) \/ \E w \in WorkerIDs : RegisterUnheard(r, w)
        PROVE  AccountInv'
    BY <1>7, <1>9 DEF Register503, RegisterUnheard, RefuseRegister, Register, AddWorker,
                      serverVars
  <1>10. ASSUME NEW m \in late, LoseLate(m) \/ (HandleLate(m) /\ m.kind # "hit")
         PROVE  AccountInv'
    BY <1>2, <1>10 DEF HandleLate, LoseLate, Heartbeat, coordVars, serverVars
  <1>11. CASE UNCHANGED vars
    BY <1>7, <1>11 DEF vars, coordVars, serverVars
  <1>12. ASSUME NEW c \in Programs, WorkerStep(c) PROVE AccountInv'
    BY <1>4, <1>8, <1>12
  <1>13. ASSUME NEW m \in late, HandleLate(m) \/ LoseLate(m) PROVE AccountInv'
    BY <1>5, <1>10, <1>13
  <1> QED
    BY <1>6, <1>9, <1>11, <1>12, <1>13 DEF ClusterNext

\* A worker that was told its hit is safe is right, or appending that very
\* record failed: retries, late requests, forgotten ids and restarts invent no
\* reply (doJSON, PostHit, handleHit).
THEOREM AckedHitsAccounted == ClusterSpec => []AckedHitIsAccounted
  <1>1. AccountInv => AckedHitIsAccounted
    BY DEF AccountInv, Accounted, AckedHitIsAccounted
  <1>2. ClusterSpec => []AccountInv
    BY InitAccount, NextAccount, TypedHolds, PTL DEF ClusterSpec
  <1> QED
    BY <1>1, <1>2, PTL
-----------------------------------------------------------------------------
(* A search is cancelled for the run it belongs to.                        *)

\* What the main goroutine and the poll goroutine of worker c hold.
Held(c) == <<pc[c], id[c], seen[c], polled[c], cancelled[c], signalled[c], hit[c]>>

\* The shapes that the cases below need.
LEMMA HeldShapes ==
    ASSUME Typed
    PROVE  /\ pc \in [Programs -> Places] /\ id \in [Programs -> WorkerIDs \cup {NoID}]
           /\ seen \in [Programs -> Statuses] /\ polled \in [Programs -> Statuses]
           /\ cancelled \in [Programs -> BOOLEAN] /\ signalled \in [Programs -> BOOLEAN]
           /\ hit \in [Programs -> Addresses \cup {NoHit}] /\ runState \in RunStates
  BY DEF Typed, ClusterTypeOK, TypeOK

\* A step of a worker leaves the other workers alone.
LEMMA OthersStand ==
    ASSUME Typed, NEW c \in Programs, WorkerStep(c), NEW d \in Programs, d # c
    PROVE  UNCHANGED Held(d)
  BY HeldShapes
  DEF WorkerStep, SendRegister, Sync, LoadFails, GiveUpRegister, Registered200, LoopBeat,
      ReadStatus, ActOnStatus, ReloadFails, Beat, BeatReplyLost, PollRead, PollAct,
      ReportStats, FindHit, PostHit, PostHitAgain, HitDone, AbandonHit, LeaveSearch,
      EndSearch, Flush, GiveUpAttempt, Signal, HeedSignal, HeedSignalLate, Kill, Exit,
      GoTo, UnchangedButPlace, workerVars, sessionVars, Held

\* The steps that move no worker: those of the coordinator, of requests nobody
\* waits for, and of calls that are repeated.
LEMMA StepOfWorkers ==
    ASSUME [ClusterNext]_vars
    PROVE  UNCHANGED workerVars \/ \E c \in Programs : WorkerStep(c)
  BY DEF ClusterNext, vars, Register503, RegisterUnheard, HandleLate, LoseLate

\* The places a worker's own step leads to.
LEMMA StepPlaces ==
    ASSUME Typed, NEW c \in Programs, WorkerStep(c)
    PROVE  \/ UNCHANGED <<pc[c], id[c]>>
           \/ pc[c] = "register" /\ pc'[c] = "sync"
                /\ \E w \in WorkerIDs : Registered200(c, w)
           \/ pc'[c] \in {"register", "exited"} /\ id'[c] = NoID
           \/ id'[c] = id[c] /\ <<pc[c], pc'[c]>> \in
                {<<"sync", "poll">>, <<"poll", "lobbyBeat">>, <<"poll", "startBeat">>,
                 <<"poll", "stopBeat">>, <<"lobbyBeat", "poll">>, <<"finalBeat", "poll">>,
                 <<"startBeat", "search">>, <<"search", "hit">>, <<"hit", "search">>,
                 <<"search", "flush">>, <<"hit", "flush">>, <<"flush", "finalBeat">>}
  <1>. DEFINE Goal ==
           \/ UNCHANGED <<pc[c], id[c]>>
           \/ pc[c] = "register" /\ pc'[c] = "sync"
                /\ \E w \in WorkerIDs : Registered200(c, w)
           \/ pc'[c] \in {"register", "exited"} /\ id'[c] = NoID
           \/ id'[c] = id[c] /\ <<pc[c], pc'[c]>> \in
                {<<"sync", "poll">>, <<"poll", "lobbyBeat">>, <<"poll", "startBeat">>,
                 <<"poll", "stopBeat">>, <<"lobbyBeat", "poll">>, <<"finalBeat", "poll">>,
                 <<"startBeat", "search">>, <<"search", "hit">>, <<"hit", "search">>,
                 <<"search", "flush">>, <<"hit", "flush">>, <<"flush", "finalBeat">>}
  <1>t. pc \in [Programs -> Places] /\ id \in [Programs -> WorkerIDs \cup {NoID}]
    BY HeldShapes
  <1>1. ASSUME UNCHANGED <<pc, id>> PROVE Goal
    BY <1>1
  <1>2. CASE \/ SendRegister(c) \/ BeatReplyLost(c) \/ ReportStats(c) \/ PollRead(c)
             \/ PollAct(c) \/ PostHitAgain(c) \/ GiveUpAttempt(c) \/ Signal(c)
             \/ ReadStatus(c)
             \/ (\E g \in Ghosts : GiveUpRegister(c, g))
             \/ (\E w \in WorkerIDs : LoopBeat(c, w))
    BY <1>1, <1>2
    DEF SendRegister, BeatReplyLost, ReportStats, PollRead, PollAct, PostHitAgain,
        GiveUpAttempt, Signal, ReadStatus, GiveUpRegister, LoopBeat, workerVars, sessionVars
  <1>3. ASSUME NEW w \in WorkerIDs, Registered200(c, w) PROVE Goal
    BY <1>3, <1>t DEF Registered200, GoTo
  <1>4. ASSUME Exit(c) PROVE Goal
    BY <1>4, <1>t DEF Exit, GoTo
  <1>5. CASE LoadFails(c) \/ ReloadFails(c)
    BY <1>5, <1>t DEF LoadFails, ReloadFails, GoTo
  <1>6. CASE ActOnStatus(c)
    <2>1. pc[c] = "poll" /\ id' = id /\ pc'[c] = PlaceFor(seen[c])
      BY <1>6, <1>t DEF ActOnStatus, GoTo
    <2> QED
      BY <2>1, PlaceForPlaces
  <1>7. CASE Beat(c)
    <2>1. pc[c] \in {"lobbyBeat", "startBeat", "finalBeat", "stopBeat"}
      BY <1>7, BeatKinds DEF Beat
    <2>2. \/ Exit(c)
          \/ pc[c] = "startBeat" /\ GoTo(c, "search") /\ UnchangedButPlace
          \/ pc[c] \in {"lobbyBeat", "finalBeat"} /\ GoTo(c, "poll") /\ UnchangedButPlace
      BY <1>7, <2>1 DEF Beat
    <2> QED
      BY <1>4, <1>t, <2>2 DEF GoTo, UnchangedButPlace
  <1>8. CASE Sync(c) \/ Flush(c) \/ HeedSignalLate(c) \/ PostHit(c)
    BY <1>8, <1>t
    DEF Sync, Flush, HeedSignalLate, PostHit, HitDone, GoTo, UnchangedButPlace
  <1>9. CASE AbandonHit(c) \/ LeaveSearch(c)
    BY <1>9, <1>t DEF AbandonHit, LeaveSearch, EndSearch, GoTo
  <1>10. ASSUME NEW a \in Addresses, FindHit(c, a) PROVE Goal
    BY <1>10, <1>t DEF FindHit, GoTo
  <1>11. CASE HeedSignal(c) \/ Kill(c)
    BY <1>4, <1>11 DEF HeedSignal, Kill
  <1> QED
    BY <1>2, <1>3, <1>5, <1>6, <1>7, <1>8, <1>9, <1>10, <1>11 DEF WorkerStep
\* The poll goroutine and searchCtx belong to one search, and what they know of
\* the run is behind the coordinator that knows the worker.
Stops(c) ==
    /\ ~Searching(c) => polled[c] = NoStatus /\ ~cancelled[c]
    /\ Known(c) =>
         /\ polled[c] # "lobby"
         /\ cancelled[c] \/ polled[c] \in Over => runState \in Over

StopInv == \A c \in Programs : Stops(c)

\* A worker whose poll goroutine does nothing keeps this.
LEMMA StopUndisturbed ==
    ASSUME NEW d \in Programs, Session(d), Stops(d), KnownOnward,
           UNCHANGED <<id[d], polled[d], cancelled[d]>>,
           Searching(d) => Searching(d)'
    PROVE  Stops(d)'
  <1>1. Known(d)' => id[d] \in issued /\ Known(d)
    BY NullAssumption DEF Known, Registered, Session, KnownOnward
  <1> QED
    BY <1>1 DEF Stops, Known, KnownOnward

\* So does one that is not searching any more.
LEMMA StopEnded ==
    ASSUME NEW d \in Programs, polled'[d] = NoStatus, cancelled'[d] = FALSE
    PROVE  Stops(d)'
  BY DEF Stops, NoStatus, Over

\* Every step keeps searchCtx and the status of the poll behind the run.
LEMMA NextStops ==
    ASSUME Typed, FollowInv, StopInv, KnownOnward, [ClusterNext]_vars, NEW d \in Programs
    PROVE  Stops(d)'
  <1>0. Session(d) /\ Follows(d) /\ Stops(d)
    BY DEF Typed, SessionInv, FollowInv, StopInv
  <1>t. /\ pc \in [Programs -> Places] /\ polled \in [Programs -> Statuses]
        /\ cancelled \in [Programs -> BOOLEAN] /\ runState \in RunStates
    BY HeldShapes
  <1>1. ASSUME UNCHANGED <<pc[d], id[d], polled[d], cancelled[d]>> PROVE Stops(d)'
    BY <1>0, <1>1, StopUndisturbed DEF Searching
  <1>2. ASSUME WorkerStep(d) PROVE Stops(d)'
    <2>1. CASE PollRead(d)
      <3>1. /\ UNCHANGED <<pc, id, cancelled, serving, workers, runState>>
            /\ Searching(d) /\ polled'[d] = runState
        BY <1>t, <2>1 DEF PollRead, Searching, coordVars, processVars
      <3>2. Known(d) => runState # "lobby"
        BY <1>0, <3>1 DEF Follows, Searching, SearchPlaces
      <3> QED
        BY <1>0, <1>t, <3>1, <3>2 DEF Stops, Known, Registered, Searching
    <2>2. CASE PollAct(d)
      <3>1. /\ UNCHANGED <<pc, id, serving, workers, runState>>
            /\ Searching(d) /\ polled'[d] = NoStatus
            /\ cancelled'[d] = (cancelled[d] \/ polled[d] # "running")
            /\ polled[d] \in {"lobby", "running"} \cup Over
        BY <1>t, <2>2
        DEF PollAct, Searching, coordVars, processVars, Statuses, RunStates, Over
      <3> QED
        BY <1>0, <1>t, <3>1
        DEF Stops, Known, Registered, Searching, NoStatus, Over
    <2>3. CASE AbandonHit(d) \/ LeaveSearch(d) \/ HeedSignal(d) \/ Kill(d)
      BY <1>t, <2>3, StopEnded
      DEF AbandonHit, LeaveSearch, EndSearch, HeedSignal, Kill, Exit
    <2>4. CASE Beat(d)
      <3>1. pc[d] \in {"lobbyBeat", "startBeat", "finalBeat", "stopBeat"}
        BY <2>4, BeatKinds DEF Beat
      <3>2. Exit(d) \/ UNCHANGED <<id, polled, cancelled>>
        BY <2>4, <3>1 DEF Beat, UnchangedButPlace
      <3> QED
        BY <1>0, <1>t, <3>1, <3>2, StopEnded, StopUndisturbed DEF Exit, Searching
    <2>5. CASE (\E a \in Addresses : FindHit(d, a)) \/ PostHit(d)
      <3>1. UNCHANGED <<id, polled, cancelled>> /\ Searching(d)'
        BY <1>t, <2>5 DEF FindHit, PostHit, HitDone, GoTo, Searching
      <3> QED
        BY <1>0, <3>1, StopUndisturbed
    <2>6. CASE \/ Sync(d) \/ ActOnStatus(d) \/ Flush(d) \/ HeedSignalLate(d)
      <3>1. UNCHANGED <<id, polled, cancelled>> /\ ~Searching(d)
        BY <1>t, <2>6
        DEF Sync, ActOnStatus, Flush, HeedSignalLate, UnchangedButPlace, Searching
      <3> QED
        BY <1>0, <3>1, StopUndisturbed
    <2>7. CASE LoadFails(d) \/ ReloadFails(d) \/ \E w \in WorkerIDs : Registered200(d, w)
      <3>1. UNCHANGED <<polled, cancelled>> /\ ~Searching(d)
        BY <1>t, <2>7 DEF LoadFails, ReloadFails, Registered200, Searching
      <3> QED
        BY <1>0, <1>t, <3>1, StopEnded DEF Stops
    <2>8. CASE \/ SendRegister(d) \/ BeatReplyLost(d) \/ ReportStats(d)
               \/ PostHitAgain(d) \/ GiveUpAttempt(d) \/ Signal(d) \/ ReadStatus(d)
               \/ (\E g \in Ghosts : GiveUpRegister(d, g))
               \/ (\E w \in WorkerIDs : LoopBeat(d, w))
      BY <1>1, <2>8
      DEF SendRegister, BeatReplyLost, ReportStats, PostHitAgain, GiveUpAttempt, Signal,
          ReadStatus, GiveUpRegister, LoopBeat, workerVars, sessionVars
    <2> QED
      BY <1>2, <2>1, <2>2, <2>3, <2>4, <2>5, <2>6, <2>7, <2>8 DEF WorkerStep
  <1>3. ASSUME NEW c \in Programs, WorkerStep(c), c # d PROVE Stops(d)'
    BY <1>1, <1>3, OthersStand DEF Held
  <1>4. CASE UNCHANGED workerVars
    BY <1>1, <1>4 DEF workerVars, sessionVars
  <1> QED
    BY <1>2, <1>3, <1>4, StepOfWorkers

\* They stay behind it throughout.
LEMMA StopHolds == ClusterSpec => []StopInv
  <1>1. ClusterInit => StopInv
    BY NullAssumption DEF ClusterInit, StopInv, Stops, Known, Registered, Over, NoStatus
  <1>2. Typed /\ RegisteredIssued /\ FollowInv /\ StopInv /\ [ClusterNext]_vars => StopInv'
    BY StepOfCoordinator, NextKnown, NextStops DEF StopInv, Typed, ClusterTypeOK
  <1> QED
    BY <1>1, <1>2, TypedHolds, FollowHolds, PTL DEF ClusterSpec

\* As long as the coordinator that knows a worker goes on with its run, the
\* worker's search is not cancelled, whatever statuses of earlier searches and
\* processes it has read (searchUntilStop).
THEOREM SearchesLastAsLongAsRun == ClusterSpec => []NoSearchCutShort
  <1>1. StopInv => NoSearchCutShort
    BY DEF StopInv, Stops, NoSearchCutShort, Over
  <1> QED
    BY <1>1, StopHolds, PTL
-----------------------------------------------------------------------------
(* The worker limit and the workers that take part.                        *)

\* No two worker programs have the same id.
DistinctIDs == \A c, d \in Programs : id[c] = id[d] /\ id[c] # NoID => c = d

\* The id of every session was issued to it and to no other.
LEMMA DistinctHolds == ClusterSpec => []DistinctIDs
  <1>1. ClusterInit => DistinctIDs
    BY DEF ClusterInit, DistinctIDs
  <1>2. Typed /\ DistinctIDs /\ [ClusterNext]_vars => DistinctIDs'
    <2> SUFFICES ASSUME Typed, DistinctIDs, [ClusterNext]_vars PROVE DistinctIDs'
      OBVIOUS
    <2>1. CASE UNCHANGED workerVars
      BY <2>1 DEF workerVars, sessionVars, DistinctIDs
    <2>2. ASSUME NEW c \in Programs, WorkerStep(c) PROVE DistinctIDs'
      <3>1. \A d \in Programs \ {c} : id'[d] = id[d]
        BY <2>2, OthersStand DEF Held
      <3>2. CASE id'[c] \in {id[c], NoID}
        BY <3>1, <3>2 DEF DistinctIDs
      <3>3. ASSUME NEW w \in WorkerIDs, Registered200(c, w) PROVE DistinctIDs'
        <4>1. id'[c] = w /\ w \notin issued
          BY <3>3, HeldShapes DEF Registered200, Register, AddWorker
        <4>2. \A d \in Programs : id[d] = NoID \/ id[d] \in issued
          BY DEF Typed, SessionInv, Session
        <4> QED
          BY <3>1, <4>1, <4>2 DEF DistinctIDs
      <3> QED
        BY <2>2, <3>2, <3>3, StepPlaces
    <2> QED
      BY <2>1, <2>2, StepOfWorkers
  <1> QED
    BY <1>1, <1>2, TypedHolds, PTL DEF ClusterSpec

\* The worker programs that the coordinator knows.
TakingPart == {c \in Programs : Known(c)}

\* --max-workers also bounds the worker programs that take part in a run: no
\* two of them share a registration, however often they register, lose the
\* answer, open new sessions or meet another coordinator (register, runSession).
THEOREM LimitedWorkersTakePart ==
    ClusterSpec => [](MaxWorkers > 0 => /\ IsFiniteSet(TakingPart)
                                        /\ Cardinality(TakingPart) <= MaxWorkers)
  <1>1. TypeOK /\ DistinctIDs /\ CapacityRespected
          => (MaxWorkers > 0 => /\ IsFiniteSet(TakingPart)
                                /\ Cardinality(TakingPart) <= MaxWorkers)
    <2> SUFFICES ASSUME TypeOK, DistinctIDs, CapacityRespected, MaxWorkers > 0
                 PROVE  IsFiniteSet(TakingPart) /\ Cardinality(TakingPart) <= MaxWorkers
      OBVIOUS
    <2>. DEFINE f == [c \in TakingPart |-> id[c]]
    <2>1. IsFiniteSet(Registered) /\ Cardinality(Registered) \in Nat
      BY ValueAssumption, FS_Subset, FS_CardinalityType DEF Registered
    <2>2. f \in Injection(TakingPart, Registered)
      BY NullAssumption
      DEF TakingPart, Known, Registered, DistinctIDs, Injection, IsInjective
    <2>3. IsFiniteSet(TakingPart) /\ Cardinality(TakingPart) <= Cardinality(Registered)
      BY <2>1, <2>2, FS_Injection
    <2>4. Cardinality(TakingPart) \in Nat
      BY <2>3, FS_CardinalityType
    <2> QED
      BY <2>1, <2>3, <2>4, SizeAssumption DEF CapacityRespected
  <1> QED
    BY <1>1, ClusterTypeCorrect, DistinctHolds, CoordinatorUnderWorkers, PTL
    DEF ClusterTypeOK
-----------------------------------------------------------------------------
(* The safety half of the liveness properties: what a worker that was      *)
(* signalled, or whose search was cancelled, can still do.                 *)

\* How many moves through Run, runSession and searchUntilStop are left to a
\* worker that was signalled.
Remaining == [exited |-> 0, register |-> 1, sync |-> 1, stopBeat |-> 1, poll |-> 1,
              lobbyBeat |-> 2, finalBeat |-> 2, flush |-> 3, hit |-> 4, search |-> 5,
              startBeat |-> 6]
Distance(c) == IF seen[c] # NoStatus THEN 7 ELSE Remaining[pc[c]]

\* A signal is not forgotten, and each move brings the worker nearer to its end.
OnlyLeaves(c) ==
    signalled[c] =>
        /\ signalled'[c]
        /\ UNCHANGED <<pc[c], seen[c]>> \/ Distance(c)' < Distance(c)

\* A signalled worker never starts a new session, goes round a loop of Run or
\* runSession again, or goes on searching: at most seven moves end it, unless
\* one of its last calls waits for ever (Run, runSession, searchUntilStop).
THEOREM SignalledWorkersOnlyLeave ==
    ClusterSpec => [][\A c \in Programs : OnlyLeaves(c)]_vars
  <1>1. ASSUME Typed, [ClusterNext]_vars, NEW d \in Programs PROVE OnlyLeaves(d)
    <2>t. /\ pc \in [Programs -> Places] /\ seen \in [Programs -> Statuses]
          /\ signalled \in [Programs -> BOOLEAN] /\ runState \in RunStates
      BY <1>1, HeldShapes
    <2>0. pc[d] # "poll" => seen[d] = NoStatus
      BY <1>1 DEF Typed, SessionInv, Session
    <2>1. ASSUME UNCHANGED <<pc[d], seen[d]>>, signalled[d] => signalled'[d]
          PROVE  OnlyLeaves(d)
      BY <2>1 DEF OnlyLeaves
    <2>2. ASSUME WorkerStep(d) PROVE OnlyLeaves(d)
      <3>1. CASE \/ SendRegister(d) \/ BeatReplyLost(d) \/ ReportStats(d) \/ PollRead(d)
                 \/ PollAct(d) \/ PostHitAgain(d) \/ GiveUpAttempt(d)
                 \/ (\E g \in Ghosts : GiveUpRegister(d, g))
                 \/ (\E w \in WorkerIDs : LoopBeat(d, w))
        BY <2>1, <3>1
        DEF SendRegister, BeatReplyLost, ReportStats, PollRead, PollAct, PostHitAgain,
            GiveUpAttempt, GiveUpRegister, LoopBeat, workerVars, sessionVars
      <3>2. CASE Signal(d)
        BY <2>1, <3>2 DEF Signal, sessionVars
      <3>3. CASE \/ Sync(d) \/ LoadFails(d) \/ ReadStatus(d) \/ PostHit(d)
                 \/ \E w \in WorkerIDs : Registered200(d, w)
        BY <3>3
        DEF Sync, LoadFails, ReadStatus, PostHit, SearchCancelled, Registered200, OnlyLeaves
      <3>4. ASSUME Exit(d), pc[d] # "exited" PROVE OnlyLeaves(d)
        <4>1. pc'[d] = "exited" /\ seen'[d] = NoStatus /\ signalled' = signalled
          BY <2>t, <3>4 DEF Exit, GoTo
        <4>2. Distance(d)' = 0 /\ Distance(d) \in 1..7
          BY <2>t, <3>4, <4>1 DEF Distance, Remaining, Places
        <4> QED
          BY <4>1, <4>2 DEF OnlyLeaves
      <3>5. CASE HeedSignal(d) \/ Kill(d)
        BY <3>4, <3>5 DEF HeedSignal, Kill
      <3>6. CASE ActOnStatus(d) \/ ReloadFails(d)
        <4>1. /\ pc'[d] \in {"lobbyBeat", "startBeat", "stopBeat", "register"}
              /\ seen'[d] = NoStatus /\ seen[d] # NoStatus /\ signalled' = signalled
          BY <2>t, <3>6, PlaceForPlaces DEF ActOnStatus, ReloadFails, GoTo, NoStatus
        <4> QED
          BY <4>1 DEF OnlyLeaves, Distance, Remaining
      <3>7. CASE Beat(d)
        <4>1. pc[d] \in {"lobbyBeat", "startBeat", "finalBeat", "stopBeat"}
          BY <3>7, BeatKinds DEF Beat
        <4>2. \/ Exit(d)
              \/ /\ pc[d] = "startBeat" /\ pc'[d] = "search"
                 /\ UNCHANGED <<seen, signalled>>
              \/ /\ pc[d] \in {"lobbyBeat", "finalBeat"} /\ pc'[d] = "poll"
                 /\ UNCHANGED <<seen, signalled>>
          BY <2>t, <3>7, <4>1 DEF Beat, GoTo, UnchangedButPlace
        <4> QED
          BY <2>0, <3>4, <4>1, <4>2 DEF OnlyLeaves, Distance, Remaining
      <3>8. CASE \/ (\E a \in Addresses : FindHit(d, a)) \/ AbandonHit(d)
                 \/ LeaveSearch(d) \/ Flush(d) \/ HeedSignalLate(d)
        <4>1. /\ <<pc[d], pc'[d]>> \in {<<"search", "hit">>, <<"hit", "flush">>,
                    <<"search", "flush">>, <<"flush", "finalBeat">>, <<"startBeat", "search">>}
              /\ UNCHANGED <<seen, signalled>>
          BY <2>t, <3>8
          DEF FindHit, AbandonHit, LeaveSearch, EndSearch, Flush, HeedSignalLate, GoTo,
              UnchangedButPlace
        <4> QED
          BY <2>0, <4>1 DEF OnlyLeaves, Distance, Remaining
      <3> QED
        BY <2>2, <3>1, <3>2, <3>3, <3>5, <3>6, <3>7, <3>8 DEF WorkerStep
    <2>3. ASSUME NEW c \in Programs, WorkerStep(c), c # d PROVE OnlyLeaves(d)
      BY <1>1, <2>1, <2>3, OthersStand DEF Held
    <2>4. CASE UNCHANGED workerVars
      BY <2>1, <2>4 DEF workerVars, sessionVars
    <2> QED
      BY <1>1, <2>2, <2>3, <2>4, StepOfWorkers
  <1>2. Typed /\ [ClusterNext]_vars => [\A c \in Programs : OnlyLeaves(c)]_vars
    BY <1>1
  <1> QED
    BY <1>2, TypedHolds, PTL DEF ClusterSpec
\* A cancelled search stays cancelled and finds at most one more hit.
OnlyEnds(c) ==
    SearchCancelled(c) /\ Searching(c) =>
        \/ pc'[c] \in {"flush", "exited"}
        \/ /\ SearchCancelled(c)'
           /\ UNCHANGED <<pc[c], hit[c]>> \/ (pc[c] = "search" /\ pc'[c] = "hit")

\* A hit report is repeated as it is until it is answered with success, unless
\* its search was cancelled or the worker died.
IsReported(c) ==
    pc[c] = "hit" =>
        \/ UNCHANGED <<pc[c], hit[c]>>
        \/ hit[c] \in acked' \/ SearchCancelled(c) \/ pc'[c] = "exited"

\* Nothing revives a search that was cancelled, and nothing replaces or ends a
\* hit report early, neither a lost reply nor a refusal nor a coordinator that
\* is gone (searchUntilStop, runForever, PostHit, doJSON).
THEOREM SearchesEndInOrder ==
    ClusterSpec => [][\A c \in Programs : OnlyEnds(c) /\ IsReported(c)]_vars
  <1>1. ASSUME Typed, [ClusterNext]_vars, NEW d \in Programs
        PROVE  OnlyEnds(d) /\ IsReported(d)
    <2>t. /\ pc \in [Programs -> Places] /\ hit \in [Programs -> Addresses \cup {NoHit}]
          /\ cancelled \in [Programs -> BOOLEAN] /\ signalled \in [Programs -> BOOLEAN]
      BY <1>1, HeldShapes
    <2>1. ASSUME UNCHANGED <<pc[d], hit[d]>>, SearchCancelled(d) => SearchCancelled(d)'
          PROVE  OnlyEnds(d) /\ IsReported(d)
      BY <2>1 DEF OnlyEnds, IsReported
    <2>2. ASSUME ~Searching(d) PROVE OnlyEnds(d) /\ IsReported(d)
      BY <2>2 DEF OnlyEnds, IsReported, Searching
    <2>3. ASSUME WorkerStep(d), Searching(d) PROVE OnlyEnds(d) /\ IsReported(d)
      <3>1. CASE \/ PollRead(d) \/ ReportStats(d) \/ PostHitAgain(d) \/ GiveUpAttempt(d)
                 \/ (\E w \in WorkerIDs : LoopBeat(d, w))
        <4>1. UNCHANGED <<pc, hit, cancelled, signalled>>
          BY <3>1 DEF PollRead, ReportStats, PostHitAgain, GiveUpAttempt, LoopBeat,
                      workerVars, sessionVars
        <4> QED
          BY <2>1, <4>1 DEF SearchCancelled
      <3>2. CASE PollAct(d) \/ Signal(d)
        <4>1. UNCHANGED <<pc, hit>> /\ (SearchCancelled(d) => SearchCancelled(d)')
          BY <2>t, <3>2 DEF PollAct, Signal, sessionVars, SearchCancelled
        <4> QED
          BY <2>1, <4>1
      <3>3. CASE \E a \in Addresses : FindHit(d, a)
        BY <2>t, <3>3 DEF FindHit, GoTo, SearchCancelled, OnlyEnds, IsReported
      <3>4. CASE PostHit(d)
        <4>1. hit[d] \in acked' /\ ~SearchCancelled(d)
          BY <3>4 DEF PostHit
        <4> QED
          BY <4>1 DEF OnlyEnds, IsReported
      <3>5. CASE AbandonHit(d) \/ LeaveSearch(d)
        <4>1. pc'[d] = "flush" /\ SearchCancelled(d)
          BY <2>t, <3>5 DEF AbandonHit, LeaveSearch, EndSearch, GoTo
        <4> QED
          BY <4>1 DEF OnlyEnds, IsReported
      <3>6. CASE Kill(d)
        <4>1. pc'[d] = "exited"
          BY <2>t, <3>6 DEF Kill, Exit, GoTo
        <4> QED
          BY <4>1 DEF OnlyEnds, IsReported
      <3>7. CASE \/ SendRegister(d) \/ Sync(d) \/ LoadFails(d) \/ ReadStatus(d)
                 \/ ActOnStatus(d) \/ ReloadFails(d) \/ Beat(d) \/ BeatReplyLost(d)
                 \/ Flush(d) \/ HeedSignal(d) \/ HeedSignalLate(d)
                 \/ (\E g \in Ghosts : GiveUpRegister(d, g))
                 \/ (\E w \in WorkerIDs : Registered200(d, w))
        BY <2>3, <3>7, BeatKinds
        DEF SendRegister, Sync, LoadFails, ReadStatus, ActOnStatus, ReloadFails, Beat,
            BeatReplyLost, Flush, HeedSignal, HeedSignalLate, GiveUpRegister,
            Registered200, Searching
      <3> QED
        BY <2>3, <3>1, <3>2, <3>3, <3>4, <3>5, <3>6, <3>7 DEF WorkerStep
    <2>4. ASSUME NEW c \in Programs, WorkerStep(c), c # d
          PROVE  OnlyEnds(d) /\ IsReported(d)
      BY <1>1, <2>1, <2>4, OthersStand DEF Held, SearchCancelled
    <2>5. CASE UNCHANGED workerVars
      BY <2>1, <2>5 DEF workerVars, sessionVars, SearchCancelled
    <2> QED
      BY <1>1, <2>2, <2>3, <2>4, <2>5, StepOfWorkers
  <1>2. Typed /\ [ClusterNext]_vars
          => [\A c \in Programs : OnlyEnds(c) /\ IsReported(c)]_vars
    BY <1>1
  <1> QED
    BY <1>2, TypedHolds, PTL DEF ClusterSpec
-----------------------------------------------------------------------------
(* An id that was forgotten.                                               *)

\* The coordinator that is there, if any, does not know an id handed out once.
Forgotten(w) == w \in issued /\ ~(serving /\ w \in Registered)

\* A coordinator process that has forgotten an id, or one that came after the
\* process that issued it, never knows the id again, whatever calls the worker
\* repeats with it (register, pruneStale, New).
THEOREM ForgottenForGood ==
    ASSUME NEW w
    PROVE  Spec => [](Forgotten(w) => []Forgotten(w))
  <1>1. Init => RegisteredIssued
    BY DEF Init, RegisteredIssued, Registered, Offline
  <1>2. TypeOK /\ RegisteredIssued /\ [Next]_coordVars => RegisteredIssued'
    BY NextKnown
  <1>3. TypeOK /\ RegisteredIssued /\ [Next]_coordVars => (Forgotten(w) => Forgotten(w)')
    BY NextKnown DEF KnownOnward, Forgotten
  <1> QED
    BY <1>1, <1>2, <1>3, TypeCorrect, PTL DEF Spec

\* A worker that the coordinator has forgotten is known again only under
\* another id, which means in another session: the calls it repeats in this one
\* are answered with 404 for good (doJSON, runSession).
THEOREM ForgottenUnderItsID ==
    ClusterSpec =>
        [][\A c \in Programs : id[c] # NoID /\ ~Known(c) /\ Known(c)' => id'[c] # id[c]]_vars
  <1>1. ASSUME Typed, RegisteredIssued, [ClusterNext]_vars,
               NEW c \in Programs, id[c] # NoID, ~Known(c), Known(c)'
        PROVE  id'[c] # id[c]
    <2>1. KnownOnward
      BY <1>1, StepOfCoordinator, NextKnown DEF Typed, ClusterTypeOK
    <2>2. id[c] \in issued
      BY <1>1 DEF Typed, SessionInv, Session
    <2> QED
      BY <1>1, <2>1, <2>2 DEF KnownOnward, Known, Registered
  <1>2. Typed /\ RegisteredIssued /\ [ClusterNext]_vars
          => [\A c \in Programs :
                id[c] # NoID /\ ~Known(c) /\ Known(c)' => id'[c] # id[c]]_vars
    BY <1>1
  <1> QED
    BY <1>2, TypedHolds, PTL DEF ClusterSpec
=============================================================================

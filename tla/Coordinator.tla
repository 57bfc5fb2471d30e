---------------------------- MODULE Coordinator ----------------------------
(***************************************************************************)
(* The cluster coordinator: the Server of src/coordinator/lobby.go with    *)
(* its hit handler (hits.go), the two-step registration handler            *)
(* (handlers.go) and the life of the process around it (server.go, Run).   *)
(*                                                                         *)
(* Every handler works on the Server under s.mu, so one action is one      *)
(* critical section.  handleRegister takes the lock twice, so it is two    *)
(* actions.  Requests come from an open environment: any client may make   *)
(* any call the worker program makes.  A call that the code refuses        *)
(* without touching the Server (404 for an unknown id, 400 for a hit of an *)
(* unknown worker, 503 before registration, the dropped stats of an        *)
(* unknown worker) is no step here; Cluster.tla gives it its reply.        *)
(*                                                                         *)
(* Time is discrete.  The 10 s ticker of Run is PruneEvery units and the   *)
(* 30 s cutoff of pruneStale and recordStats is StaleAfter units.          *)
(***************************************************************************)
EXTENDS Integers, FiniteSets

CONSTANTS
    Clients,      \* requests that may be inside handleRegister
    WorkerIDs,    \* the random ids newWorkerID can return
    Addresses,    \* addresses a hit can be for
    Deltas,       \* values of keys_tried_delta
    Rates,        \* values of keys_per_second
    MaxWorkers,   \* --max-workers, 0 for no limit
    StaleAfter,   \* age at which a worker counts as stale
    PruneEvery,   \* period of the prune ticker
    MaxTotal,     \* bound: clusterTotal stays at most MaxTotal
    Processes     \* bound: coordinator processes are 1..Processes

ASSUME SizeAssumption ==
    /\ MaxWorkers \in Nat
    /\ StaleAfter \in Nat \ {0}
    /\ PruneEvery \in Nat \ {0}
    /\ MaxTotal \in Nat
    /\ Processes \in Nat \ {0}

ASSUME ValueAssumption ==
    /\ IsFiniteSet(WorkerIDs)
    /\ IsFiniteSet(Addresses)
    /\ Deltas \subseteq Nat
    /\ Rates \subseteq Nat
    /\ 0 \in Rates

VARIABLES
    workers,       \* s.workers, "offline" where the map has no entry
    runState,      \* s.runState
    clusterTotal,  \* s.clusterTotal
    clusterKPS,    \* s.clusterKPS, kept as the addends of its last sum
    clusterHits,   \* s.clusterHits
    hitAddresses,  \* s.hitAddresses, whose order nothing reads
    wallets,       \* wallets.txt: records per appending process and address
    admitted,      \* clients between the two critical sections of handleRegister
    issued,        \* every id ever returned by newWorkerID
    pruneIn,       \* time to the next tick of the prune ticker
    interrupted,   \* ctx of Run is done (SIGINT or SIGTERM)
    serving,       \* the process is alive and answers requests
    process        \* number of the current coordinator process

serverVars == <<clusterTotal, clusterKPS, clusterHits, hitAddresses>>
processVars == <<interrupted, serving, process>>
coordVars == <<workers, runState, serverVars, wallets, admitted, issued,
               pruneIn, processVars>>

RunStates == {"lobby", "running", "stopping", "ended"}
WorkerStates == {"waiting", "running", "offline"}

\* LastSeen is kept as an age, which nothing tells apart beyond OldAge.
OldAge == StaleAfter + PruneEvery + 1
WorkerEntry == [state : WorkerStates, age : 0..OldAge, kps : Rates]
Offline == [state |-> "offline", age |-> 0, kps |-> 0]

Registered == {w \in WorkerIDs : workers[w].state # "offline"}
Full == MaxWorkers > 0 /\ Cardinality(Registered) >= MaxWorkers
NoRecords == [a \in Addresses |-> 0]
NoRates == [w \in WorkerIDs |-> 0]

Init ==
    /\ workers = [w \in WorkerIDs |-> Offline]
    /\ runState = "lobby"
    /\ clusterTotal = 0
    /\ clusterKPS = NoRates
    /\ clusterHits = 0
    /\ hitAddresses = {}
    /\ wallets = [p \in 1..Processes |-> NoRecords]
    /\ admitted = {}
    /\ issued = {}
    /\ pruneIn = PruneEvery
    /\ interrupted = FALSE
    /\ serving = TRUE
    /\ process = 1
-----------------------------------------------------------------------------
(* handleRegister: a check under RLock, then register under Lock.          *)

\* The early check lets client c through; other handlers run before register.
AdmitRegister(c) ==
    /\ serving
    /\ c \notin admitted
    /\ ~Full
    /\ admitted' = admitted \cup {c}
    /\ UNCHANGED <<workers, runState, serverVars, wallets, issued, pruneIn, processVars>>

AddWorker(c, w) ==
    /\ serving
    /\ c \in admitted
    /\ w \notin issued
    /\ workers' = [workers EXCEPT ![w] = [state |-> "waiting", age |-> 0, kps |-> 0]]
    /\ issued' = issued \cup {w}
    /\ admitted' = admitted \ {c}
    /\ UNCHANGED <<runState, serverVars, wallets, pruneIn, processVars>>

\* A bug: register trusts the check handleRegister already made.
RegisterUnchecked(c, w) == AddWorker(c, w)

Register(c, w) ==
    /\ ~Full
    /\ AddWorker(c, w)

\* register finds the map full after all and returns no id.
RefuseRegister(c) ==
    /\ serving
    /\ c \in admitted
    /\ Full
    /\ admitted' = admitted \ {c}
    /\ UNCHANGED <<workers, runState, serverVars, wallets, issued, pruneIn, processVars>>

\* The client of request c has given it up and may send another one, while the
\* server goes on with the old request, from now on called g.
AbandonRegister(c, g) ==
    /\ serving
    /\ c \in admitted /\ g \notin admitted
    /\ admitted' = (admitted \ {c}) \cup {g}
    /\ UNCHANGED <<workers, runState, serverVars, wallets, issued, pruneIn, processVars>>
-----------------------------------------------------------------------------
(* Calls of a registered worker.                                           *)

Heartbeat(w, state) ==
    /\ serving
    /\ w \in Registered
    /\ workers' = [workers EXCEPT ![w] = [state |-> state, age |-> 0, kps |-> @.kps]]
    /\ UNCHANGED <<runState, serverVars, wallets, admitted, issued, pruneIn, processVars>>

\* The workers whose rate recordStats adds up.
Contributes(w, entries) ==
    entries[w].state = "running" /\ entries[w].age < StaleAfter

\* Stats and hits come from a search.  Their handlers do not ask for the run
\* state, but no worker searches before it has read that the run was started,
\* and its id is worth nothing to a later process (WorkersFollowRun and
\* LateHitsFollowRun of Cluster.tla check that).
FromSearch(w) == w \in Registered /\ runState # "lobby"

RecordStats(w, delta, kps) ==
    /\ serving
    /\ FromSearch(w)
    /\ clusterTotal + delta <= MaxTotal
    /\ workers' = [workers EXCEPT ![w] = [state |-> "running", age |-> 0, kps |-> kps]]
    /\ clusterTotal' = clusterTotal + delta
    /\ clusterKPS' = [x \in WorkerIDs |->
                        IF Contributes(x, workers') THEN workers'[x].kps ELSE 0]
    /\ UNCHANGED <<runState, clusterHits, hitAddresses, wallets, admitted, issued,
                   pruneIn, processVars>>

\* How appendWalletHit can end.  "lost": os.OpenFile, Chmod or the write
\* failed.  "unsynced": the record is in the file but Sync reported an error.
AppendOutcomes == {"ok", "lost", "unsynced"}

AppendRecord(a, outcome) ==
    wallets' = IF outcome = "lost" THEN wallets
               ELSE [wallets EXCEPT ![process][a] = @ + 1]

\* A bug: the address is remembered only when the append succeeded.
HandleHitRememberLate(w, a, outcome) ==
    /\ serving
    /\ FromSearch(w)
    /\ a \notin hitAddresses
    /\ hitAddresses' = IF outcome = "ok" THEN hitAddresses \cup {a} ELSE hitAddresses
    /\ AppendRecord(a, outcome)
    /\ clusterHits' = IF outcome = "ok" THEN clusterHits + 1 ELSE clusterHits
    /\ UNCHANGED <<workers, runState, clusterTotal, clusterKPS, admitted, issued,
                   pruneIn, processVars>>

\* A bug: the hit is counted before its record is written.
HandleHitCountFirst(w, a, outcome) ==
    /\ serving
    /\ FromSearch(w)
    /\ a \notin hitAddresses
    /\ hitAddresses' = hitAddresses \cup {a}
    /\ AppendRecord(a, outcome)
    /\ clusterHits' = clusterHits + 1
    /\ UNCHANGED <<workers, runState, clusterTotal, clusterKPS, admitted, issued,
                   pruneIn, processVars>>

\* A hit whose address was not reported before; a duplicate changes nothing.
HandleHit(w, a, outcome) ==
    /\ serving
    /\ FromSearch(w)
    /\ a \notin hitAddresses
    /\ hitAddresses' = hitAddresses \cup {a}
    /\ AppendRecord(a, outcome)
    /\ clusterHits' = IF outcome = "ok" THEN clusterHits + 1 ELSE clusterHits
    /\ UNCHANGED <<workers, runState, clusterTotal, clusterKPS, admitted, issued,
                   pruneIn, processVars>>
-----------------------------------------------------------------------------
(* Time and the prune loop, which stops when ctx is done.                  *)

Older(age) == IF age = OldAge THEN age ELSE age + 1

\* The ticker is prompt: time does not pass a due pruneStale.
Tick ==
    /\ serving
    /\ interrupted \/ pruneIn > 0
    /\ workers' = [w \in WorkerIDs |->
                     IF w \in Registered THEN [workers[w] EXCEPT !.age = Older(@)]
                     ELSE workers[w]]
    /\ pruneIn' = IF pruneIn > 0 THEN pruneIn - 1 ELSE 0
    /\ UNCHANGED <<runState, serverVars, wallets, admitted, issued, processVars>>

\* A bug: the prune loop forgets workers only while the lobby is open.
PruneStaleInLobby ==
    /\ serving /\ ~interrupted
    /\ pruneIn = 0
    /\ workers' = [w \in WorkerIDs |->
                     IF runState = "lobby" /\ workers[w].age > StaleAfter THEN Offline
                     ELSE workers[w]]
    /\ pruneIn' = PruneEvery
    /\ UNCHANGED <<runState, serverVars, wallets, admitted, issued, processVars>>

PruneStale ==
    /\ serving /\ ~interrupted
    /\ pruneIn = 0
    /\ workers' = [w \in WorkerIDs |->
                     IF workers[w].age > StaleAfter THEN Offline ELSE workers[w]]
    /\ pruneIn' = PruneEvery
    /\ UNCHANGED <<runState, serverVars, wallets, admitted, issued, processVars>>
-----------------------------------------------------------------------------
(* The life of the process: Run, waitEnterOrWorkers and the signals.       *)

\* A bug: the operator can start another run after the end of one.
StartRunAgain ==
    /\ serving
    /\ runState \in {"lobby", "ended"}
    /\ runState' = "running"
    /\ clusterTotal' = 0
    /\ clusterHits' = 0
    /\ hitAddresses' = {}
    /\ workers' = [w \in WorkerIDs |->
                     IF w \in Registered
                     THEN [state |-> "running", age |-> workers[w].age, kps |-> 0]
                     ELSE workers[w]]
    /\ UNCHANGED <<clusterKPS, wallets, admitted, issued, pruneIn, processVars>>

\* Enter, end of input, or --auto-start.  clusterKPS keeps its value.
StartRun ==
    /\ serving
    /\ runState = "lobby"
    /\ runState' = "running"
    /\ clusterTotal' = 0
    /\ clusterHits' = 0
    /\ hitAddresses' = {}
    /\ workers' = [w \in WorkerIDs |->
                     IF w \in Registered
                     THEN [state |-> "running", age |-> workers[w].age, kps |-> 0]
                     ELSE workers[w]]
    /\ UNCHANGED <<clusterKPS, wallets, admitted, issued, pruneIn, processVars>>

Interrupt ==
    /\ serving
    /\ ~interrupted
    /\ interrupted' = TRUE
    /\ UNCHANGED <<workers, runState, serverVars, wallets, admitted, issued, pruneIn,
                   serving, process>>

\* A bug: stopRun sets a state that the API does not have.
StopRunMisnamed ==
    /\ serving
    /\ runState = "running"
    /\ interrupted
    /\ runState' = "stopped"
    /\ UNCHANGED <<workers, serverVars, wallets, admitted, issued, pruneIn, processVars>>

\* The select of Run, reached only after waitEnterOrWorkers has returned.
StopRun ==
    /\ serving
    /\ runState = "running"
    /\ interrupted
    /\ runState' = "stopping"
    /\ UNCHANGED <<workers, serverVars, wallets, admitted, issued, pruneIn, processVars>>

\* A bug: Run waits for the workers to leave before it ends the run.
EndRunDrained ==
    /\ serving
    /\ runState = "stopping"
    /\ Registered = {}
    /\ runState' = "ended"
    /\ UNCHANGED <<workers, serverVars, wallets, admitted, issued, pruneIn, processVars>>

\* After a sleep of 2 s, whatever the workers are doing.
EndRun ==
    /\ serving
    /\ runState = "stopping"
    /\ runState' = "ended"
    /\ UNCHANGED <<workers, serverVars, wallets, admitted, issued, pruneIn, processVars>>

\* A bug: the coordinator saves its workers and loads them when it is restarted.
GoneRemembersWorkers ==
    /\ serving' = FALSE
    /\ interrupted' = FALSE
    /\ runState' = "lobby"
    /\ clusterTotal' = 0
    /\ clusterKPS' = NoRates
    /\ clusterHits' = 0
    /\ hitAddresses' = {}
    /\ admitted' = {}
    /\ pruneIn' = PruneEvery
    /\ UNCHANGED <<workers, wallets, issued, process>>

\* The Server goes with its process.  Only wallets.txt stays, and the ids
\* handed out are not handed out again.
Gone ==
    /\ serving' = FALSE
    /\ interrupted' = FALSE
    /\ runState' = "lobby"
    /\ workers' = [w \in WorkerIDs |-> Offline]
    /\ clusterTotal' = 0
    /\ clusterKPS' = NoRates
    /\ clusterHits' = 0
    /\ hitAddresses' = {}
    /\ admitted' = {}
    /\ pruneIn' = PruneEvery
    /\ UNCHANGED <<wallets, issued, process>>

\* httpSrv.Shutdown, the summary and the return of Run.
Shutdown == serving /\ runState = "ended" /\ Gone

\* The process dies at any moment.
Crash == serving /\ Gone

\* The operator starts the coordinator again, on the empty Server of New.
Restart ==
    /\ ~serving
    /\ process < Processes
    /\ process' = process + 1
    /\ serving' = TRUE
    /\ UNCHANGED <<workers, runState, serverVars, wallets, admitted, issued, pruneIn,
                   interrupted>>

ServerStep ==
    \/ Tick \/ PruneStale \/ StartRun \/ Interrupt \/ StopRun \/ EndRun
    \/ Shutdown \/ Crash \/ Restart

Next ==
    \/ \E c \in Clients : AdmitRegister(c) \/ RefuseRegister(c)
    \/ \E c \in Clients, w \in WorkerIDs : Register(c, w)
    \/ \E c, g \in Clients : AbandonRegister(c, g)
    \/ \E w \in WorkerIDs, state \in {"waiting", "running"} : Heartbeat(w, state)
    \/ \E w \in WorkerIDs, delta \in Deltas, kps \in Rates : RecordStats(w, delta, kps)
    \/ \E w \in WorkerIDs, a \in Addresses, outcome \in AppendOutcomes :
          HandleHit(w, a, outcome)
    \/ ServerStep

Spec == Init /\ [][Next]_coordVars

\* Run goes on by itself once it may: its sleeps and Shutdown are bounded.
\* Nothing obliges the operator to press Enter, interrupt or restart.
Fairness == WF_coordVars(StopRun) /\ WF_coordVars(EndRun) /\ WF_coordVars(Shutdown)

FairSpec == Spec /\ Fairness
-----------------------------------------------------------------------------
(* Properties.                                                             *)

\* The Server fields keep their shapes (lobby.go, workerEntry and Server).
TypeOK ==
    /\ workers \in [WorkerIDs -> WorkerEntry]
    /\ runState \in RunStates
    /\ clusterTotal \in 0..MaxTotal
    /\ clusterKPS \in [WorkerIDs -> Rates]
    /\ clusterHits \in Nat
    /\ hitAddresses \subseteq Addresses
    /\ wallets \in [1..Processes -> [Addresses -> Nat]]
    /\ admitted \subseteq Clients
    /\ issued \subseteq WorkerIDs
    /\ pruneIn \in 0..PruneEvery
    /\ interrupted \in BOOLEAN
    /\ serving \in BOOLEAN
    /\ process \in 1..Processes

\* --max-workers holds although handleRegister gives up the lock between its
\* early check and register, so that several clients pass the check at once.
CapacityRespected == MaxWorkers > 0 => Cardinality(Registered) <= MaxWorkers

\* One coordinator process writes at most one wallets.txt record for an
\* address, however often workers report it and however the append of an
\* earlier report ended (handleHit).
OneRecordPerAddress ==
    \A p \in 1..Processes, a \in Addresses : wallets[p][a] <= 1

Recorded == {a \in Addresses : wallets[process][a] > 0}

\* The hit count of the dashboard and of the summary never exceeds the number
\* of addresses this process wrote to wallets.txt (handleHit).
CountedHitsAreRecorded == clusterHits <= Cardinality(Recorded)

Ledger == INSTANCE HitLedger WITH ledger <- wallets, writer <- process

\* The coordinator implements HitLedger: whatever else a step does, it enters
\* at most one new address in wallets.txt, or a new process takes over, under
\* any mix of reports, prunes, crashes and restarts (handleHit, startRun).
ImplementsLedger == Ledger!Spec

\* Until the signal, a worker is forgotten at the first tick of the prune
\* loop that finds it silent for longer than the cutoff (pruneStale, Run), in
\* the lobby and in a run alike.
SilentWorkersLeave ==
    serving /\ ~interrupted =>
        \A w \in Registered : workers[w].age <= StaleAfter + PruneEvery

\* Once a run was started, the signal takes the process down, whatever the
\* workers do (Run stops, ends, shuts down and returns).
SignalEndsRun == (interrupted /\ runState # "lobby") ~> ~serving

\* What the dashboard promises in the lobby, "(Ctrl+C to stop)": the signal
\* takes the process down whether or not a run was started.
SignalEndsProcess == interrupted ~> ~serving
=============================================================================

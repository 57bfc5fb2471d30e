------------------------------ MODULE Cluster ------------------------------
(***************************************************************************)
(* The coordinator composed with its worker programs over HTTP             *)
(* (src/worker/run.go and client.go).                                      *)
(*                                                                         *)
(* A worker's main goroutine is in one place of Run, runSession or         *)
(* searchUntilStop; beside it run the heartbeatLoop goroutines of its      *)
(* sessions, and during a search the poll and the stats goroutine.         *)
(*                                                                         *)
(* Every call goes through doJSON, which retries for ever, whatever the    *)
(* error, until its context is done.  A call is therefore modelled by how  *)
(* an attempt may end: its reply arrives and the goroutine goes on; the    *)
(* request is handled but the reply is lost or is an error, and the        *)
(* goroutine stays where it is; or the client gives the attempt up (time-  *)
(* out, cancelled context) while the request is still under way and may be *)
(* handled later, which puts it in late.  An attempt that is never handled *)
(* changes nothing.  A status is read in one step and used in another.     *)
(*                                                                         *)
(* The cache download is the step Sync here, the key search is the choice  *)
(* of the moment a hit is found, and the stats numbers are those of the    *)
(* coordinator's constants.                                                *)
(***************************************************************************)
EXTENDS Coordinator

CONSTANTS
    Ghosts,    \* names for registration requests that were given up
    NoID,      \* no worker id
    NoHit,     \* no hit being reported
    MaxLate    \* bound: abandoned requests still under way

ASSUME ClusterAssumption == Ghosts \subseteq Clients /\ MaxLate \in Nat

ASSUME NullAssumption == NoID \notin WorkerIDs /\ NoHit \notin Addresses

VARIABLES
    pc,         \* where the main goroutine is
    id,         \* workerID of the session
    seen,       \* status.State read by runSession, not yet acted on
    polled,     \* status.State read by the poll goroutine, not yet acted on
    cancelled,  \* searchCancel has been called
    signalled,  \* ctx of the worker is done (SIGINT or SIGTERM)
    beats,      \* ids for which a heartbeatLoop runs
    hit,        \* address OnHit is reporting
    late,       \* abandoned requests that may still reach the coordinator
    acked,      \* addresses for which PostHit returned nil
    lostAppends \* addresses whose record the coordinator failed to write

sessionVars == <<pc, id, seen, polled, cancelled, hit>>
workerVars == <<sessionVars, signalled, beats>>
netVars == <<late, acked, lostAppends>>
vars == <<coordVars, workerVars, netVars>>

\* The worker programs.
Programs == Clients \ Ghosts

Places == {"register", "sync", "poll", "lobbyBeat", "startBeat", "search", "hit",
           "flush", "finalBeat", "stopBeat", "exited"}
NoStatus == "none"
Statuses == RunStates \cup {NoStatus}

\* How a heartbeat is worded at the place that sends it.
BeatState == [lobbyBeat |-> "waiting", startBeat |-> "running",
              finalBeat |-> "waiting", stopBeat |-> "waiting"]

Requests == [kind : {"heartbeat"}, id : WorkerIDs, state : {"waiting", "running"}]
              \cup [kind : {"hit"}, id : WorkerIDs, address : Addresses]

ClusterInit ==
    /\ Init
    /\ pc = [c \in Programs |-> "register"]
    /\ id = [c \in Programs |-> NoID]
    /\ seen = [c \in Programs |-> NoStatus]
    /\ polled = [c \in Programs |-> NoStatus]
    /\ cancelled = [c \in Programs |-> FALSE]
    /\ signalled = [c \in Programs |-> FALSE]
    /\ beats = [c \in Programs |-> {}]
    /\ hit = [c \in Programs |-> NoHit]
    /\ late = {}
    /\ acked = {}
    /\ lostAppends = {}

\* searchCtx is derived from ctx.
SearchCancelled(c) == cancelled[c] \/ signalled[c]
Known(c) == serving /\ id[c] \in Registered
GoTo(c, place) == pc' = [pc EXCEPT ![c] = place]

\* The worker program ends, and its goroutines with it.
Exit(c) ==
    /\ GoTo(c, "exited")
    /\ id' = [id EXCEPT ![c] = NoID]
    /\ seen' = [seen EXCEPT ![c] = NoStatus]
    /\ polled' = [polled EXCEPT ![c] = NoStatus]
    /\ cancelled' = [cancelled EXCEPT ![c] = FALSE]
    /\ hit' = [hit EXCEPT ![c] = NoHit]
    /\ beats' = [beats EXCEPT ![c] = {}]
    /\ UNCHANGED signalled

UnchangedButPlace == UNCHANGED <<id, seen, polled, cancelled, hit, signalled, beats>>
-----------------------------------------------------------------------------
(* Registration and cache sync.                                            *)

SendRegister(c) ==
    /\ pc[c] = "register" /\ ~signalled[c]
    /\ AdmitRegister(c)
    /\ UNCHANGED <<workerVars, netVars>>

\* register runs and its answer arrives.
Registered200(c, w) ==
    /\ pc[c] = "register" /\ ~signalled[c]
    /\ Register(c, w)
    /\ id' = [id EXCEPT ![c] = w]
    /\ GoTo(c, "sync")
    /\ UNCHANGED <<seen, polled, cancelled, hit, signalled, beats, netVars>>

\* The worker gives up a request that is inside handleRegister and sends a new
\* one.  The old request goes on under the name g.
GiveUpRegister(c, g) ==
    /\ pc[c] = "register"
    /\ AbandonRegister(c, g)
    /\ UNCHANGED <<workerVars, netVars>>

\* register runs for request r but nobody learns the id: the worker registers
\* again, or is no longer there.
RegisterUnheard(r, w) ==
    /\ Register(r, w)
    /\ UNCHANGED <<workerVars, netVars>>

\* 503, which doJSON retries like any other error.
Register503(r) ==
    /\ RefuseRegister(r)
    /\ UNCHANGED <<workerVars, netVars>>

\* DownloadCache and LoadFromCacheFile succeed; heartbeatLoop is started.
Sync(c) ==
    /\ pc[c] = "sync" /\ ~signalled[c]
    /\ serving
    /\ beats' = [beats EXCEPT ![c] = @ \cup {id[c]}]
    /\ GoTo(c, "poll")
    /\ UNCHANGED <<coordVars, id, seen, polled, cancelled, hit, signalled, netVars>>

\* LoadFromCacheFile fails: Run sleeps and opens a new session.
LoadFails(c) ==
    /\ pc[c] = "sync" /\ ~signalled[c]
    /\ GoTo(c, "register")
    /\ id' = [id EXCEPT ![c] = NoID]
    /\ UNCHANGED <<coordVars, seen, polled, cancelled, hit, signalled, beats, netVars>>
-----------------------------------------------------------------------------
(* The session loop of runSession.                                         *)

ReadStatus(c) ==
    /\ pc[c] = "poll" /\ ~signalled[c]
    /\ serving
    /\ seen[c] = NoStatus
    /\ seen' = [seen EXCEPT ![c] = runState]
    /\ UNCHANGED <<coordVars, pc, id, polled, cancelled, hit, signalled, beats, netVars>>

\* The switch on status.State.
PlaceFor(state) ==
    CASE state = "lobby" -> "lobbyBeat"
      [] state = "running" -> "startBeat"
      [] OTHER -> "stopBeat"

ActOnStatus(c) ==
    /\ pc[c] = "poll"
    /\ seen[c] # NoStatus
    /\ GoTo(c, PlaceFor(seen[c]))
    /\ seen' = [seen EXCEPT ![c] = NoStatus]
    /\ UNCHANGED <<coordVars, id, polled, cancelled, hit, signalled, beats, netVars>>

\* The run's ETag is not the one of the local cache and loading the new file
\* fails: a new session is opened, the heartbeatLoop of this one stays.
ReloadFails(c) ==
    /\ pc[c] = "poll"
    /\ seen[c] = "running"
    /\ seen' = [seen EXCEPT ![c] = NoStatus]
    /\ id' = [id EXCEPT ![c] = NoID]
    /\ GoTo(c, "register")
    /\ UNCHANGED <<coordVars, polled, cancelled, hit, signalled, beats, netVars>>

\* A bug: a worker waiting in the lobby does not ask for the status again.
BeatNoPoll(c) ==
    /\ pc[c] \in DOMAIN BeatState
    /\ Heartbeat(id[c], BeatState[pc[c]])
    /\ CASE pc[c] = "startBeat" -> GoTo(c, "search") /\ UnchangedButPlace
         [] pc[c] = "stopBeat" -> Exit(c)
         [] pc[c] = "lobbyBeat" -> UNCHANGED workerVars
         [] OTHER -> GoTo(c, "poll") /\ UnchangedButPlace
    /\ UNCHANGED netVars

\* The heartbeat is answered.  After the last one of a session Run returns.
Beat(c) ==
    /\ pc[c] \in DOMAIN BeatState
    /\ Heartbeat(id[c], BeatState[pc[c]])
    /\ CASE pc[c] = "startBeat" -> GoTo(c, "search") /\ UnchangedButPlace
         [] pc[c] = "stopBeat" -> Exit(c)
         [] OTHER -> GoTo(c, "poll") /\ UnchangedButPlace
    /\ UNCHANGED netVars

\* The coordinator has the heartbeat, the worker sends it again.
BeatReplyLost(c) ==
    /\ pc[c] \in DOMAIN BeatState
    /\ Heartbeat(id[c], BeatState[pc[c]])
    /\ UNCHANGED <<workerVars, netVars>>

\* heartbeatLoop, of this session or of an earlier one: always "waiting".
LoopBeat(c, w) ==
    /\ w \in beats[c]
    /\ ~signalled[c] /\ pc[c] # "exited"
    /\ Heartbeat(w, "waiting")
    /\ UNCHANGED <<workerVars, netVars>>
-----------------------------------------------------------------------------
(* searchUntilStop.                                                        *)

PollRead(c) ==
    /\ pc[c] \in {"search", "hit"} /\ ~SearchCancelled(c)
    /\ serving
    /\ polled[c] = NoStatus
    /\ polled' = [polled EXCEPT ![c] = runState]
    /\ UNCHANGED <<coordVars, pc, id, seen, cancelled, hit, signalled, beats, netVars>>

\* A bug: only the state "stopping" ends the search.
PollActStopping(c) ==
    /\ pc[c] \in {"search", "hit"}
    /\ polled[c] # NoStatus
    /\ polled' = [polled EXCEPT ![c] = NoStatus]
    /\ cancelled' = [cancelled EXCEPT ![c] = @ \/ polled[c] = "stopping"]
    /\ UNCHANGED <<coordVars, pc, id, seen, hit, signalled, beats, netVars>>

PollAct(c) ==
    /\ pc[c] \in {"search", "hit"}
    /\ polled[c] # NoStatus
    /\ polled' = [polled EXCEPT ![c] = NoStatus]
    /\ cancelled' = [cancelled EXCEPT ![c] = @ \/ polled[c] # "running"]
    /\ UNCHANGED <<coordVars, pc, id, seen, hit, signalled, beats, netVars>>

ReportStats(c) ==
    /\ pc[c] \in {"search", "hit"} /\ ~SearchCancelled(c)
    /\ \E delta \in Deltas, kps \in Rates : RecordStats(id[c], delta, kps)
    /\ UNCHANGED <<workerVars, netVars>>

\* runForever looks at ctx before a wallet, so a hit may be found just after
\* searchCtx is done.
FindHit(c, a) ==
    /\ pc[c] = "search"
    /\ hit' = [hit EXCEPT ![c] = a]
    /\ GoTo(c, "hit")
    /\ UNCHANGED <<coordVars, id, seen, polled, cancelled, signalled, beats, netVars>>

\* A hit that the coordinator answers with 204.
HitAccepted(w, a) ==
    /\ \/ HandleHit(w, a, "ok")
       \/ /\ serving /\ w \in Registered
          /\ a \in hitAddresses
          /\ UNCHANGED coordVars
    /\ UNCHANGED lostAppends

\* A hit that reaches handleHit but is answered with 400: appendWalletHit
\* returned an error.
HitFailed(w, a) ==
    \E outcome \in AppendOutcomes \ {"ok"} :
        /\ HandleHit(w, a, outcome)
        /\ lostAppends' = IF outcome = "lost" THEN lostAppends \cup {a} ELSE lostAppends

HitDone(c) ==
    /\ GoTo(c, "search")
    /\ hit' = [hit EXCEPT ![c] = NoHit]
    /\ UNCHANGED <<id, seen, polled, cancelled, signalled, beats>>

\* A bug: the hit of an unknown worker is dropped with 204, as stats are.
PostHitLenient(c) ==
    /\ pc[c] = "hit" /\ ~SearchCancelled(c)
    /\ \/ HitAccepted(id[c], hit[c])
       \/ /\ serving /\ id[c] \notin Registered
          /\ UNCHANGED <<coordVars, lostAppends>>
    /\ acked' = acked \cup {hit[c]}
    /\ HitDone(c)
    /\ UNCHANGED late

PostHit(c) ==
    /\ pc[c] = "hit" /\ ~SearchCancelled(c)
    /\ HitAccepted(id[c], hit[c])
    /\ acked' = acked \cup {hit[c]}
    /\ HitDone(c)
    /\ UNCHANGED late

\* A bug: a hit report is not repeated after an error.
PostHitFailsOnce(c) ==
    /\ pc[c] = "hit" /\ ~SearchCancelled(c)
    /\ \/ serving /\ UNCHANGED <<coordVars, lostAppends>>
       \/ HitFailed(id[c], hit[c])
    /\ HitDone(c)
    /\ UNCHANGED <<late, acked>>

\* The report reached the coordinator but was refused, or its reply is lost.
PostHitAgain(c) ==
    /\ pc[c] = "hit" /\ ~SearchCancelled(c)
    /\ HitAccepted(id[c], hit[c]) \/ HitFailed(id[c], hit[c])
    /\ UNCHANGED <<workerVars, late, acked>>

\* A bug: the next search gets the searchCtx of this one.
EndSearchKeepsContext(c) ==
    /\ GoTo(c, "flush")
    /\ polled' = [polled EXCEPT ![c] = NoStatus]
    /\ hit' = [hit EXCEPT ![c] = NoHit]
    /\ UNCHANGED <<coordVars, id, seen, cancelled, signalled, beats, netVars>>

\* search.Run returns; the poll and the stats goroutine end with searchCtx.
EndSearch(c) ==
    /\ GoTo(c, "flush")
    /\ polled' = [polled EXCEPT ![c] = NoStatus]
    /\ cancelled' = [cancelled EXCEPT ![c] = FALSE]
    /\ hit' = [hit EXCEPT ![c] = NoHit]
    /\ UNCHANGED <<coordVars, id, seen, signalled, beats, netVars>>

\* PostHit returns the context's error, ProcessWallet and runForever pass it
\* on: the hit is given up.
AbandonHit(c) ==
    /\ pc[c] = "hit" /\ SearchCancelled(c)
    /\ EndSearch(c)

LeaveSearch(c) ==
    /\ pc[c] = "search" /\ SearchCancelled(c)
    /\ EndSearch(c)

\* The last PostStats, with context.Background().  recordStats ignores an
\* unknown worker and handleStats answers 204 all the same.
Flush(c) ==
    /\ pc[c] = "flush"
    /\ \/ \E delta \in Deltas, kps \in Rates : RecordStats(id[c], delta, kps)
       \/ serving /\ id[c] \notin Registered /\ UNCHANGED coordVars
    /\ GoTo(c, "finalBeat")
    /\ UNCHANGED <<id, seen, polled, cancelled, hit, signalled, beats, netVars>>
-----------------------------------------------------------------------------
(* Abandoned requests, signals and crashes.                                *)

\* The client stops waiting for an attempt that is still under way.
Outstanding(c) ==
    IF pc[c] = "hit"
    THEN [kind |-> "hit", id |-> id[c], address |-> hit[c]]
    ELSE [kind |-> "heartbeat", id |-> id[c], state |-> BeatState[pc[c]]]

GiveUpAttempt(c) ==
    /\ pc[c] = "hit" \/ pc[c] \in DOMAIN BeatState
    /\ serving
    /\ Cardinality(late) < MaxLate
    /\ late' = late \cup {Outstanding(c)}
    /\ UNCHANGED <<coordVars, workerVars, acked, lostAppends>>

\* A late request is handled, nobody waits for its reply.
HandleLate(m) ==
    /\ m \in late
    /\ \/ /\ m.kind = "heartbeat"
          /\ Heartbeat(m.id, m.state)
          /\ UNCHANGED lostAppends
       \/ /\ m.kind = "hit"
          /\ HitAccepted(m.id, m.address) \/ HitFailed(m.id, m.address)
    /\ late' = late \ {m}
    /\ UNCHANGED <<workerVars, acked>>

\* A late request is lost, refused, or dies with the connection.
LoseLate(m) ==
    /\ m \in late
    /\ late' = late \ {m}
    /\ UNCHANGED <<coordVars, workerVars, acked, lostAppends>>

Signal(c) ==
    /\ pc[c] # "exited" /\ ~signalled[c]
    /\ signalled' = [signalled EXCEPT ![c] = TRUE]
    /\ UNCHANGED <<coordVars, sessionVars, beats, netVars>>

\* A bug: the heartbeat of the lobby is sent with another context.
HeedSignalNotInLobby(c) ==
    /\ signalled[c]
    /\ \/ pc[c] \in {"register", "sync", "stopBeat"}
       \/ pc[c] = "poll" /\ seen[c] = NoStatus
    /\ Exit(c)
    /\ UNCHANGED <<coordVars, netVars>>

\* A done ctx ends the call the main goroutine is in, and the program with it.
HeedSignal(c) ==
    /\ signalled[c]
    /\ \/ pc[c] \in {"register", "sync", "lobbyBeat", "stopBeat"}
       \/ pc[c] = "poll" /\ seen[c] = NoStatus
    /\ Exit(c)
    /\ UNCHANGED <<coordVars, netVars>>

\* searchUntilStop ignores the error of its first heartbeat and goes on, with
\* a searchCtx that is done from the start.
HeedSignalLate(c) ==
    /\ signalled[c]
    /\ pc[c] = "startBeat"
    /\ GoTo(c, "search")
    /\ UnchangedButPlace
    /\ UNCHANGED <<coordVars, netVars>>

\* The worker process is killed.
Kill(c) ==
    /\ pc[c] # "exited"
    /\ Exit(c)
    /\ UNCHANGED <<coordVars, netVars>>

WorkerStep(c) ==
    \/ SendRegister(c) \/ Sync(c) \/ LoadFails(c)
    \/ \E g \in Ghosts : GiveUpRegister(c, g)
    \/ \E w \in WorkerIDs : Registered200(c, w) \/ LoopBeat(c, w)
    \/ ReadStatus(c) \/ ActOnStatus(c) \/ ReloadFails(c) \/ Beat(c) \/ BeatReplyLost(c)
    \/ PollRead(c) \/ PollAct(c) \/ ReportStats(c)
    \/ \E a \in Addresses : FindHit(c, a)
    \/ PostHit(c) \/ PostHitAgain(c) \/ AbandonHit(c) \/ LeaveSearch(c) \/ Flush(c)
    \/ GiveUpAttempt(c) \/ Signal(c)
    \/ HeedSignal(c) \/ HeedSignalLate(c) \/ Kill(c)

ClusterNext ==
    \/ ServerStep /\ UNCHANGED <<workerVars, netVars>>
    \/ \E c \in Programs : WorkerStep(c)
    \/ \E r \in Clients : Register503(r) \/ \E w \in WorkerIDs : RegisterUnheard(r, w)
    \/ \E m \in late : HandleLate(m) \/ LoseLate(m)

ClusterSpec == ClusterInit /\ [][ClusterNext]_vars

\* Every goroutine is scheduled.  A call whose success stays possible succeeds
\* in the end: doJSON tries again for ever and the network is not down for ever.
WorkerFairness(c) ==
    /\ WF_vars(SendRegister(c)) /\ WF_vars(\E w \in WorkerIDs : Registered200(c, w))
    /\ WF_vars(Sync(c)) /\ WF_vars(ReadStatus(c)) /\ WF_vars(ActOnStatus(c))
    /\ WF_vars(Beat(c)) /\ WF_vars(PollRead(c)) /\ WF_vars(PollAct(c))
    /\ WF_vars(PostHit(c)) /\ WF_vars(AbandonHit(c)) /\ WF_vars(LeaveSearch(c))
    /\ WF_vars(Flush(c)) /\ WF_vars(HeedSignal(c)) /\ WF_vars(HeedSignalLate(c))

RunFairness ==
    /\ WF_vars(StopRun /\ UNCHANGED <<workerVars, netVars>>)
    /\ WF_vars(EndRun /\ UNCHANGED <<workerVars, netVars>>)
    /\ WF_vars(Shutdown /\ UNCHANGED <<workerVars, netVars>>)

FairClusterSpec == ClusterSpec /\ RunFairness /\ \A c \in Programs : WorkerFairness(c)
-----------------------------------------------------------------------------
(* Properties.                                                             *)

\* The variables of the worker programs keep their shapes (run.go).
ClusterTypeOK ==
    /\ TypeOK
    /\ pc \in [Programs -> Places]
    /\ id \in [Programs -> WorkerIDs \cup {NoID}]
    /\ seen \in [Programs -> Statuses]
    /\ polled \in [Programs -> Statuses]
    /\ cancelled \in [Programs -> BOOLEAN]
    /\ signalled \in [Programs -> BOOLEAN]
    /\ beats \in [Programs -> SUBSET WorkerIDs]
    /\ hit \in [Programs -> Addresses \cup {NoHit}]
    /\ late \subseteq Requests
    /\ acked \subseteq Addresses
    /\ lostAppends \subseteq Addresses

Searching(c) == pc[c] \in {"search", "hit"}

\* A coordinator that knows a worker never finds it ahead of its own run: the
\* worker searches, reports or flushes only after this process started a run
\* and takes leave only after this process stopped one, however old the status
\* it acts on is and whichever process it got it from (runSession, runStatus).
WorkersFollowRun ==
    \A c \in Programs :
        Known(c) =>
            /\ pc[c] \in {"startBeat", "search", "hit", "flush", "finalBeat"}
                 => runState # "lobby"
            /\ pc[c] = "stopBeat" => runState \in {"stopping", "ended"}

\* A late report is not from before this process's run either, so a restarted
\* coordinator never books a hit in its lobby (handleHit).
LateHitsFollowRun ==
    \A m \in late :
        m.kind = "hit" /\ serving /\ m.id \in Registered => runState # "lobby"

\* No worker breaks off its search while the coordinator that knows it goes on
\* with the run: not for the status of an earlier process, not for one read in
\* an earlier search, and not for what a restarted coordinator answers to an id
\* it does not know (the poll goroutine of searchUntilStop, handleRun).
NoSearchCutShort ==
    \A c \in Programs :
        Known(c) /\ cancelled[c] => runState \in {"stopping", "ended"}

EverRecorded(a) == \E p \in 1..Processes : wallets[p][a] > 0

\* A worker that was told its hit is safe is right, unless appending that very
\* record failed: no reply is invented by retries, restarts, pruned ids or
\* late requests (PostHit, handleHit).
AckedHitIsAccounted == \A a \in acked : EverRecorded(a) \/ a \in lostAppends

\* What plans/net/design.md has the coordinator own, "the canonical hit log":
\* a hit it answered with 204 is in wallets.txt.
AckedHitIsRecorded == \A a \in acked : EverRecorded(a)

\* Connected workers join the run: after the coordinator started it, a worker
\* in the lobby searches, unless the run, the worker or its registration ends.
WorkersJoinRun ==
    \A c \in Programs :
        (runState = "running" /\ Known(c) /\ pc[c] = "poll")
            ~> (Searching(c) \/ runState # "running" \/ ~Known(c) \/ pc[c] = "register"
                \/ signalled[c] \/ pc[c] = "exited")

\* A hit is reported until the coordinator has it, unless the search was
\* cancelled, the worker died, or the coordinator died or forgot the worker.
HitIsDelivered ==
    \A c \in Programs, a \in Addresses :
        (pc[c] = "hit" /\ hit[c] = a)
            ~> (a \in acked \/ SearchCancelled(c) \/ ~Known(c) \/ pc[c] = "exited")

\* A worker that has read that the run is over, in whichever state it found
\* it, ends its search, even in the middle of a hit report and even if the
\* coordinator is gone by then (the poll goroutine of searchUntilStop).
SearchFollowsStop ==
    \A c \in Programs :
        (Searching(c) /\ polled[c] \notin {NoStatus, "running"}) ~> ~Searching(c)

\* What share/worker/README.md promises of a worker that is told to quit: "Press
\* Ctrl+C. The worker exits cleanly."
SignalledWorkerExits == \A c \in Programs : signalled[c] ~> pc[c] = "exited"

\* A worker told to quit does so, wherever the signal finds it, or stands in one
\* of the last calls of searchUntilStop, which no context ends: the final
\* PostStats while nobody answers, or the final Heartbeat to a coordinator that
\* does not know it.  Those two are what SignalledWorkerExits fails on, and
\* nothing else keeps it (Run, runSession, searchUntilStop).
SignalledWorkerLeaves ==
    \A c \in Programs :
        signalled[c] ~> \/ pc[c] = "exited"
                        \/ pc[c] = "flush" /\ ~serving
                        \/ pc[c] = "finalBeat" /\ ~Known(c)

\* What plans/net/low/01 promises of a worker whose id the coordinator does
\* not know: it registers again.
ForgottenWorkerReturns ==
    \A c \in Programs :
        (id[c] # NoID /\ serving /\ id[c] \notin Registered)
            ~> (id[c] = NoID \/ Known(c) \/ signalled[c] \/ pc[c] = "exited" \/ ~serving)
=============================================================================

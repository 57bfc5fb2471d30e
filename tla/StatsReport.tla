---------------------------- MODULE StatsReport ----------------------------
(***************************************************************************)
(* The stats of a worker's search (src/worker/run.go, searchUntilStop):    *)
(* the progress hook of the search adds what is new to two atomic          *)
(* counters, a goroutine takes the counter sinceReport every two seconds   *)
(* and posts it, and the last report follows the search.  The coordinator  *)
(* adds up the deltas of the ids it knows (src/coordinator/lobby.go,       *)
(* recordStats).                                                           *)
(*                                                                         *)
(* The search is SearchForever with the worker's configuration.  Between a *)
(* worker's searches the standalone program may use the same session file. *)
(* One coordinator process is followed; it may forget the worker, and      *)
(* knows it again when a new session begins.  Reports of nothing are left  *)
(* out, as they add nothing.                                               *)
(***************************************************************************)
EXTENDS SearchForever

CONSTANT
    MaxUnheard  \* bound: handled attempts of one report whose reply is lost

ASSUME ReportAssumption == MaxUnheard \in Nat

VARIABLES
    worker,       \* where searchUntilStop is
    lastTotal,    \* its local of that name
    runKeys,      \* the atomic counter of that name
    sinceReport,  \* the other one
    posting,      \* the report the goroutine and the last call are posting
    late,         \* a report given up by its caller and still on its way
    known,        \* the coordinator knows the worker's id
    clusterTotal, \* Server.clusterTotal
    added,        \* keys the hook added in all
    repeated,     \* keys that were added to clusterTotal again
    dropped       \* keys that were counted and never will be in clusterTotal

hook == <<lastTotal, runKeys, sinceReport, added>>
server == <<clusterTotal, repeated>>
reports == <<worker, hook, posting, late, known, server, dropped>>
allVars == <<vars, reports>>

\* The goroutine of the ticker, and searchUntilStop after search.Run.
Callers == {"ticker", "last"}
Report == [delta : Nat, counted : 0..MaxUnheard + 1]
None == [delta |-> 0, counted |-> 0]

\* search.Config as searchUntilStop fills it in.
WorkerConfig == [forever |-> TRUE, limit |-> 0, checkpoints |-> FALSE]

InitReports ==
    /\ worker = "out"
    /\ lastTotal = 0 /\ runKeys = 0 /\ sinceReport = 0
    /\ posting = [c \in Callers |-> None]
    /\ late = None
    /\ known = FALSE
    /\ clusterTotal = 0
    /\ added = 0 /\ repeated = 0 /\ dropped = 0

\* The keys of a report that no attempt has brought into clusterTotal.
Uncounted(r) == IF r.counted = 0 THEN r.delta ELSE 0
-----------------------------------------------------------------------------
(* The search.                                                             *)

\* A bug: lastTotal outlives the search.
StartWorkerKeepsTotal ==
    /\ worker = "out"
    /\ Resume
    /\ cfg' = WorkerConfig
    /\ worker' = "search"
    /\ runKeys' = 0 /\ sinceReport' = 0
    /\ known' = TRUE
    /\ UNCHANGED <<lastTotal, added, posting, late, server, dropped>>

\* searchUntilStop in a session whose registration was accepted.
StartWorker ==
    /\ worker = "out"
    /\ Resume
    /\ cfg' = WorkerConfig
    /\ worker' = "search"
    /\ lastTotal' = 0 /\ runKeys' = 0 /\ sinceReport' = 0
    /\ known' = TRUE
    /\ UNCHANGED <<added, posting, late, server, dropped>>

\* The standalone program, in the worker's directory.
StartStandalone ==
    /\ worker = "out"
    /\ Resume \/ Reset \/ BeginBounded
    /\ cfg' # WorkerConfig
    /\ UNCHANGED reports

\* PostHit fails only when the search is cancelled; printing a hit never does.
HitFails ==
    /\ worker = "search" /\ ctxDone
    /\ TryFails
    /\ UNCHANGED reports

Search ==
    /\ \/ Produce \/ Cancel \/ WaitForBatch \/ Receive \/ TryMiss \/ TryHit
       \/ StopOnCancel \/ StopOnMaxKeys \/ BatchDone \/ Checkpoint
       \/ (worker = "out" /\ Unreadable)
       \/ (worker = "out" /\ Crash)
    /\ UNCHANGED reports

\* A batch is done and OnForeverProgress is due.
Progress ==
    /\ worker = "search"
    /\ BatchDone
    /\ lastTotal' = Updated.keys
    /\ runKeys' = runKeys + Updated.keys - lastTotal
    /\ sinceReport' = sinceReport + Updated.keys - lastTotal
    /\ added' = added + Updated.keys - lastTotal
    /\ UNCHANGED <<worker, posting, late, known, server, dropped>>
-----------------------------------------------------------------------------
(* Reports.                                                                *)

Post(c) == posting' = [posting EXCEPT ![c] = [delta |-> sinceReport, counted |-> 0]]

\* A bug: the counter is read for the report and cleared when it was sent.
TickReads ==
    /\ worker = "search" /\ ~ctxDone
    /\ posting["ticker"] = None
    /\ sinceReport > 0
    /\ Post("ticker")
    /\ UNCHANGED <<vars, worker, hook, late, known, server, dropped>>

\* The ticker's goroutine takes the counter and posts it.
Tick ==
    /\ worker = "search" /\ ~ctxDone
    /\ posting["ticker"] = None
    /\ sinceReport > 0
    /\ Post("ticker")
    /\ sinceReport' = 0
    /\ UNCHANGED <<vars, worker, lastTotal, runKeys, added, late, known, server, dropped>>

\* Both channels of its select are ready and it takes the tick: the request
\* fails at once, for statsCtx is done.
TickAfterStop ==
    /\ worker \in {"search", "last"} /\ ctxDone
    /\ posting["ticker"] = None
    /\ sinceReport > 0
    /\ sinceReport' = 0
    /\ dropped' = dropped + sinceReport
    /\ UNCHANGED <<vars, worker, lastTotal, runKeys, added, posting, late, known, server>>

\* A bug: the search ends without a last report.
LastReportMissing ==
    /\ worker = "search" /\ pc = "idle"
    /\ worker' = "last"
    /\ UNCHANGED <<vars, hook, posting, late, known, server, dropped>>

\* search.Run is back: the rest is posted with a context that is never done.
LastReport ==
    /\ worker = "search" /\ pc = "idle"
    /\ worker' = "last"
    /\ Post("last")
    /\ sinceReport' = 0
    /\ UNCHANGED <<vars, lastTotal, runKeys, added, late, known, server, dropped>>

\* recordStats: a report of an unknown worker is answered with 204 and ignored.
RecordStats(r, counts) ==
    /\ clusterTotal' = IF counts THEN clusterTotal + r.delta ELSE clusterTotal
    /\ repeated' = IF counts /\ r.counted > 0 THEN repeated + r.delta ELSE repeated

\* handled and answered
Delivered(c) ==
    /\ posting[c] # None
    /\ RecordStats(posting[c], known)
    /\ posting' = [posting EXCEPT ![c] = None]
    /\ dropped' = dropped + (IF known THEN 0 ELSE Uncounted(posting[c]))
    /\ UNCHANGED <<vars, worker, hook, late, known>>

\* handled, but the answer is lost and doJSON repeats it; no attempt follows
\* the end of statsCtx
Unheard(c) ==
    /\ posting[c] # None
    /\ known
    /\ c = "ticker" => ~ctxDone
    /\ posting[c].counted < MaxUnheard
    /\ RecordStats(posting[c], TRUE)
    /\ posting' = [posting EXCEPT ![c] = [delta |-> @.delta, counted |-> @.counted + 1]]
    /\ UNCHANGED <<vars, worker, hook, late, known, dropped>>

\* A report nobody waits for may still arrive.
Abandon(r) ==
    \/ /\ late = None
       /\ late' = r
       /\ UNCHANGED dropped
    \/ /\ dropped' = dropped + Uncounted(r)
       /\ UNCHANGED late

\* statsCtx is done: the goroutine gives up its report.
GiveUp ==
    /\ worker \in {"search", "last"} /\ ctxDone
    /\ posting["ticker"] # None
    /\ posting' = [posting EXCEPT !["ticker"] = None]
    /\ Abandon(posting["ticker"])
    /\ UNCHANGED <<vars, worker, hook, known, server>>

LateArrives ==
    /\ late # None
    /\ late' = None
    /\ \/ /\ RecordStats(late, TRUE)
          /\ UNCHANGED dropped
       \/ /\ dropped' = dropped + Uncounted(late)
          /\ UNCHANGED server
    /\ UNCHANGED <<vars, worker, hook, posting, known>>

\* searchUntilStop is over.
EndSearch ==
    /\ worker = "last"
    /\ \A c \in Callers : posting[c] = None
    /\ worker' = "out"
    /\ UNCHANGED <<vars, hook, posting, late, known, server, dropped>>

\* The worker was silent for too long (pruneStale).
Forget ==
    /\ known
    /\ known' = FALSE
    /\ UNCHANGED <<vars, worker, hook, posting, late, server, dropped>>

\* The worker's process dies in a search or while it posts the last report.
\* One of its requests may be on its way.
WorkerCrash ==
    /\ worker # "out"
    /\ IF pc = "idle" THEN UNCHANGED vars ELSE Crash
    /\ worker' = "out"
    /\ sinceReport' = 0
    /\ posting' = [c \in Callers |-> None]
    /\ \E r \in {late, posting["ticker"], posting["last"]} :
          /\ late # None => r = late
          /\ late' = r
          /\ dropped' = dropped + sinceReport + Uncounted(posting["ticker"])
                         + Uncounted(posting["last"]) + Uncounted(late) - Uncounted(r)
    /\ UNCHANGED <<lastTotal, runKeys, added, known, server>>

ReportStep ==
    \/ Tick \/ TickAfterStop \/ LastReport \/ GiveUp \/ LateArrives \/ EndSearch
    \/ Forget \/ WorkerCrash
    \/ \E c \in Callers : Delivered(c) \/ Unheard(c)

ReportNext ==
    \/ StartWorker \/ StartStandalone \/ HitFails \/ Search \/ Progress \/ ReportStep

ReportInit == Init /\ InitReports

ReportSpec == ReportInit /\ [][ReportNext]_allVars

\* The goroutines are scheduled, and a report that is repeated for ever is
\* answered at last.
FairReportSpec ==
    /\ ReportSpec
    /\ Consumer
    /\ WF_allVars(Tick) /\ WF_allVars(LastReport) /\ WF_allVars(GiveUp)
    /\ \A c \in Callers : WF_allVars(Delivered(c))
-----------------------------------------------------------------------------
(* Properties.                                                             *)

\* Whatever the ticker, the end of the search, lost replies, late arrivals,
\* crashes and a forgetful coordinator do, a key the hook has added waits in
\* the counter or in one report, or is in the cluster total once for every
\* time it was counted, or is known to be lost (Swap and Add of searchUntilStop,
\* recordStats).
DeltasConserved ==
    added + repeated =
        clusterTotal + dropped + sinceReport + Uncounted(late)
        + Uncounted(posting["ticker"]) + Uncounted(posting["last"])

\* The totals the hook is called with never fall below lastTotal, which would
\* wrap the unsigned delta round, and the deltas of a search never add up to more than
\* the session's total, even if the file was used, reset or damaged in between.
ReportedKeysWereTried ==
    worker # "out" => lastTotal <= Updated.keys /\ runKeys <= Updated.keys

\* What the hook counted does not stay in the counter: a tick or the report
\* after the search takes it, or the process dies.
CountedKeysAreTaken == sinceReport > 0 ~> sinceReport = 0

\* plans/net/medium/01-stats-aggregation/plan.md: run_keys_tried counts since
\* the last change to RUNNING.  The code counts the keys of earlier searches.
RunKeysSinceStart == worker # "out" => runKeys <= runProcessed
=============================================================================

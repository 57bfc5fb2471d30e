--------------------------- MODULE SearchForever ---------------------------
(***************************************************************************)
(* The searches of src/search/run.go, runForever with its session file     *)
(* btcfind.session and runBounded without one, the key producers of        *)
(* workers.go (startWorkers) and the per-wallet check of process.go        *)
(* (ProcessWallet).  Every call has a configuration of its own.            *)
(*                                                                         *)
(* The consumer loop takes a batch from the channel and goes through it    *)
(* wallet by wallet.  runForever counts the keys of the current segment in *)
(* processed and adds them to the session at a checkpoint and on every way *)
(* out.  writeSession writes a temporary file and renames it; its error is *)
(* ignored.  A crash loses the memory and keeps the file.  A file that     *)
(* cannot be read or parsed counts as absent (loadSession).                *)
(*                                                                         *)
(* Key generation, the funded index and the rates are left out: whether a  *)
(* wallet is a hit, and what OnHit returns, is a choice.                   *)
(***************************************************************************)
EXTENDS Integers

CONSTANTS
    BatchSize,    \* KeyBatchSize
    ChannelCap,   \* capacity of the wallet channel, one per producer
    Configs,      \* the configurations searches are called with
    MaxTried,     \* bound: keys tried in all by runForever
    MaxRuns       \* bound: searches

\* forever: runForever, not runBounded; limit: cfg.MaxKeys, 0 for none, or
\* cfg.NumKeys of runBounded; checkpoints: cfg.CheckpointInterval > 0.
Config == [forever : BOOLEAN, limit : Nat, checkpoints : BOOLEAN]

ASSUME SearchAssumption ==
    /\ BatchSize \in Nat \ {0}
    /\ ChannelCap \in Nat \ {0}
    /\ Configs \subseteq Config
    /\ MaxTried \in Nat
    /\ MaxRuns \in Nat

VARIABLES
    cfg,          \* the configuration of the last search
    pc,           \* where the consumer is
    ctxDone,      \* ctx of the search is done
    channel,      \* batches waiting in the channel
    left,         \* wallets of the current batch not yet looked at
    session,      \* the session in memory: keys and hits
    processed,    \* keys of the current segment
    runProcessed, \* keys of this search
    hits,         \* hits, those of earlier runs included
    disk,         \* what loadSession would return
    lastIndex,    \* key_index of the last wallet handed to ProcessWallet
    runs,         \* searches so far
    tried,        \* keys runForever checked since the last reset
    found,        \* hits of runForever since the last reset
    lost          \* keys and hits a crash, a failed write or a bad file took away

vars == <<cfg, pc, ctxDone, channel, left, session, processed, runProcessed, hits, disk,
          lastIndex, runs, tried, found, lost>>
counters == <<cfg, session, processed, runProcessed, hits, disk, lastIndex, runs, tried,
              found, lost>>

Places == {"idle", "top", "wait", "batch"}
Count == [keys : Nat, hits : Nat]
Zero == [keys |-> 0, hits |-> 0]

Init ==
    /\ cfg \in Configs
    /\ pc = "idle"
    /\ ctxDone = FALSE
    /\ channel = 0
    /\ left = 0
    /\ session = Zero
    /\ processed = 0
    /\ runProcessed = 0
    /\ hits = 0
    /\ disk = Zero
    /\ lastIndex = 0
    /\ runs = 0
    /\ tried = 0
    /\ found = 0
    /\ lost = Zero

\* The session as it is written: TotalKeysTried += processed, TotalHits = hits.
Updated == [keys |-> session.keys + processed, hits |-> hits]

\* runBounded stops at NumKeys = 0 too.
Limited == cfg.forever => cfg.limit > 0

\* A bug: one key more than the limit.
MaxReachedLate == Limited /\ runProcessed > cfg.limit

MaxReached == Limited /\ runProcessed >= cfg.limit
-----------------------------------------------------------------------------
(* Entry, producers and cancellation.                                      *)

Begin(s) ==
    /\ pc = "idle"
    /\ runs < MaxRuns
    /\ runs' = runs + 1
    /\ pc' = "top"
    /\ ctxDone' = FALSE
    /\ channel' = 0
    /\ left' = 0
    /\ session' = s
    /\ processed' = 0
    /\ runProcessed' = 0
    /\ hits' = s.hits
    /\ lastIndex' = s.keys

\* A bug: a run without --reset-session starts from an empty session too.
ResumeFresh ==
    /\ Begin(Zero)
    /\ cfg' \in {c \in Configs : c.forever}
    /\ UNCHANGED <<disk, tried, found, lost>>

\* initForeverSession without reset: go on from the file.
Resume ==
    /\ Begin(disk)
    /\ cfg' \in {c \in Configs : c.forever}
    /\ UNCHANGED <<disk, tried, found, lost>>

\* --reset-session: the file and its temporary are removed.
Reset ==
    /\ Begin(Zero)
    /\ cfg' \in {c \in Configs : c.forever}
    /\ disk' = Zero
    /\ tried' = 0
    /\ found' = 0
    /\ lost' = Zero

\* runBounded knows no session.
BeginBounded ==
    /\ Begin(Zero)
    /\ cfg' \in {c \in Configs : ~c.forever}
    /\ UNCHANGED <<disk, tried, found, lost>>

\* loadSession will find no usable file: it was removed or damaged.
Unreadable ==
    /\ pc = "idle"
    /\ disk # Zero
    /\ disk' = Zero
    /\ lost' = [keys |-> lost.keys + disk.keys, hits |-> lost.hits + disk.hits]
    /\ UNCHANGED <<cfg, pc, ctxDone, channel, left, session, processed, runProcessed,
                   hits, lastIndex, runs, tried, found>>

\* A bug: the producers do not wait for the consumer.
ProduceUnbounded ==
    /\ pc # "idle"
    /\ channel' = channel + 1
    /\ UNCHANGED <<pc, ctxDone, left, counters>>

\* A producer has a full batch and there is room for it.  It may be past its
\* own look at ctx when ctx is done.
Produce ==
    /\ pc # "idle"
    /\ channel < ChannelCap
    /\ channel' = channel + 1
    /\ UNCHANGED <<pc, ctxDone, left, counters>>

Cancel ==
    /\ pc # "idle" /\ ~ctxDone
    /\ ctxDone' = TRUE
    /\ UNCHANGED <<pc, channel, left, counters>>
-----------------------------------------------------------------------------
(* The loop.                                                               *)

\* The head of the for loop: ctx and MaxKeys allow another batch.
WaitForBatch ==
    /\ pc = "top"
    /\ ~ctxDone /\ ~MaxReached
    /\ pc' = "wait"
    /\ UNCHANGED <<ctxDone, channel, left, counters>>

\* The second select takes a batch, even though ctx may be done as well.
Receive ==
    /\ pc = "wait"
    /\ channel > 0
    /\ channel' = channel - 1
    /\ left' = BatchSize
    /\ pc' = "batch"
    /\ UNCHANGED <<ctxDone, counters>>

\* One wallet: ProcessWallet with its key index.  runBounded does not look at
\* ctx inside a batch.
Try ==
    /\ pc = "batch"
    /\ left > 0
    /\ ~MaxReached
    /\ cfg.forever => ~ctxDone /\ tried < MaxTried
    /\ lastIndex' = session.keys + processed + 1
    /\ UNCHANGED <<cfg, ctxDone, channel, session, disk, runs, lost>>

Counted ==
    /\ processed' = processed + 1
    /\ runProcessed' = runProcessed + 1
    /\ tried' = IF cfg.forever THEN tried + 1 ELSE tried
    /\ left' = left - 1
    /\ UNCHANGED pc

TryMiss == Try /\ Counted /\ UNCHANGED <<hits, found>>

TryHit ==
    /\ Try /\ Counted
    /\ hits' = hits + 1
    /\ found' = IF cfg.forever THEN found + 1 ELSE found

\* Leaving the search; runForever brings the session up to date and writes it.
Return ==
    /\ pc' = "idle"
    /\ left' = 0
    /\ channel' = 0
    /\ UNCHANGED <<cfg, ctxDone>>

\* writeSession either replaces the file or fails; the error is dropped.
Save ==
    \/ /\ ~cfg.forever
       /\ UNCHANGED <<disk, lost>>
    \/ /\ cfg.forever
       /\ disk' = Updated
       /\ UNCHANGED lost
    \/ /\ cfg.forever
       /\ UNCHANGED disk
       /\ lost' = [keys |-> lost.keys + Updated.keys - disk.keys,
                   hits |-> lost.hits + Updated.hits - disk.hits]

\* OnHit failed: the wallet is not counted, the session is written as it is.
TryFails ==
    /\ pc = "batch"
    /\ left > 0
    /\ ~MaxReached
    /\ Return
    /\ Save
    /\ lastIndex' = session.keys + processed + 1
    /\ UNCHANGED <<session, processed, runProcessed, hits, runs, tried, found>>

\* A bug: the way out on cancellation forgets the keys of the last segment.
StopOnCancelForgetful ==
    /\ pc \in {"top", "wait", "batch"}
    /\ pc = "batch" => left > 0
    /\ ctxDone
    /\ cfg.forever
    /\ Return
    /\ disk' = [keys |-> session.keys, hits |-> hits]
    /\ UNCHANGED <<session, processed, runProcessed, hits, lastIndex, runs, tried,
                   found, lost>>

\* A bug: the loop waits for a batch without listening to ctx.
StopOnCancelDeaf ==
    /\ pc \in {"top", "batch"}
    /\ pc = "batch" => left > 0
    /\ ctxDone
    /\ Return
    /\ Save
    /\ UNCHANGED <<session, processed, runProcessed, hits, lastIndex, runs, tried, found>>

\* One of the selects on ctx.Done: at the head of the loop, in place of a batch,
\* or, in runForever, before a wallet.
StopOnCancel ==
    /\ pc \in {"top", "wait", "batch"}
    /\ pc = "batch" => left > 0 /\ cfg.forever
    /\ ~cfg.forever => ~MaxReached
    /\ ctxDone
    /\ Return
    /\ Save
    /\ UNCHANGED <<session, processed, runProcessed, hits, lastIndex, runs, tried, found>>

StopOnMaxKeys ==
    /\ pc \in {"top", "batch"}
    /\ pc = "batch" => left > 0 /\ (cfg.forever => ~ctxDone)
    /\ MaxReached
    /\ Return
    /\ Save
    /\ UNCHANGED <<session, processed, runProcessed, hits, lastIndex, runs, tried, found>>

\* A batch is done and no checkpoint is due.
BatchDone ==
    /\ pc = "batch"
    /\ left = 0
    /\ pc' = "top"
    /\ UNCHANGED <<ctxDone, channel, left, counters>>

\* A bug: the checkpoint does not start a new segment.
CheckpointKeepsSegment ==
    /\ cfg.forever /\ cfg.checkpoints
    /\ pc = "batch"
    /\ left = 0
    /\ session' = Updated
    /\ disk' \in {disk, Updated}
    /\ pc' = "top"
    /\ UNCHANGED <<cfg, ctxDone, channel, left, processed, runProcessed, hits,
                   lastIndex, runs, tried, found, lost>>

\* The interval has passed: the segment moves into the session, written or not.
Checkpoint ==
    /\ cfg.forever /\ cfg.checkpoints
    /\ pc = "batch"
    /\ left = 0
    /\ session' = Updated
    /\ processed' = 0
    /\ disk' \in {disk, Updated}
    /\ pc' = "top"
    /\ UNCHANGED <<cfg, ctxDone, channel, left, runProcessed, hits, lastIndex, runs,
                   tried, found, lost>>

\* The process dies: what the file lacks is lost.
Crash ==
    /\ pc # "idle"
    /\ Return
    /\ IF cfg.forever
       THEN lost' = [keys |-> lost.keys + Updated.keys - disk.keys,
                     hits |-> lost.hits + Updated.hits - disk.hits]
       ELSE UNCHANGED lost
    /\ UNCHANGED <<session, processed, runProcessed, hits, disk, lastIndex, runs, tried,
                   found>>

Next ==
    \/ Resume \/ Reset \/ BeginBounded \/ Unreadable \/ Produce \/ Cancel \/ WaitForBatch \/ Receive
    \/ TryMiss \/ TryHit \/ TryFails
    \/ StopOnCancel \/ StopOnMaxKeys \/ BatchDone \/ Checkpoint \/ Crash

Spec == Init /\ [][Next]_vars

\* The consumer goroutine is scheduled.  OnHit may block in a worker's search,
\* but not in a bounded one, which the standalone program runs.
Consumer ==
    /\ WF_vars(StopOnCancel) /\ WF_vars(StopOnMaxKeys)
    /\ WF_vars(WaitForBatch) /\ WF_vars(BatchDone \/ Checkpoint)
    /\ WF_vars(~cfg.forever /\ (TryMiss \/ TryHit))

FairSpec == Spec /\ Consumer
-----------------------------------------------------------------------------
(* Properties.                                                             *)

\* The variables of the searches and the session file keep their shapes.
TypeOK ==
    /\ cfg \in Configs
    /\ pc \in Places
    /\ ctxDone \in BOOLEAN
    /\ channel \in 0..ChannelCap
    /\ left \in 0..BatchSize
    /\ session \in Count
    /\ processed \in Nat
    /\ runProcessed \in Nat
    /\ hits \in Nat
    /\ disk \in Count
    /\ lastIndex \in Nat
    /\ runs \in Nat
    /\ tried \in Nat
    /\ found \in Nat
    /\ lost \in Count

\* The total in force: the session in memory during a run of runForever, the
\* file otherwise.
Total == IF pc = "idle" \/ ~cfg.forever THEN disk ELSE Updated

\* Across runs, checkpoints and every way out, a key and a hit are counted
\* exactly once in the session totals, but for what a crash, a failed write or
\* a bad file took away; a later checkpoint makes up for a failed one
\* (runForever, writeSession).
KeysAndHitsAccounted ==
    /\ tried = Total.keys + lost.keys
    /\ found = Total.hits + lost.hits

\* Memory is never behind the file, so no save takes counts back (runForever).
FileTrailsMemory ==
    pc # "idle" /\ cfg.forever => disk.keys <= Updated.keys /\ disk.hits <= Updated.hits

\* The key_index put in the hit records numbers the keys of a run one after
\* the other, over every checkpoint, going on where the session file left off
\* (runForever, runBounded, ProcessWallet).
KeyIndexSteps ==
    [][runs' = runs /\ lastIndex' # lastIndex => lastIndex' = lastIndex + 1]_vars

\* A limited search never tries more keys than it was allowed, wherever in a
\* batch the limit falls (runForever with MaxKeys, runBounded with NumKeys).
MaxKeysRespected == Limited => runProcessed <= cfg.limit

\* A cancelled search returns, whether it is at the head of the loop, waiting
\* for a batch no producer will send, or inside one (runForever, runBounded).
CancelIsHeeded == ctxDone ~> pc = "idle"
=============================================================================

# A TLA+ model of btcfind

btcfind looks for private keys whose addresses hold bitcoin. A *coordinator*
loads the list of funded addresses, registers *workers* over HTTP, starts one
run when the operator presses Enter, and writes hits to `wallets.txt`. A
*worker* downloads the coordinator's index, waits for the run, and then
generates keys and looks them up until the run ends. The same search runs
without a cluster in the standalone program.

This directory holds TLA+ modules for the parts with state worth checking, TLC
configurations for small instances of them, and TLAPS proofs of the safety
properties of all of them. `PROJECT.json` maps every definition to the lines
it models and lists runs, hazards, findings and theorems.

    tlc -config MCCoordinator.cfg MCCoordinator.tla   # check a run
    tlapm CoordinatorProofs.tla                       # check proofs

## 1. Inventory

| Part | State | Operations | Hard behaviour | What makes it correct |
|---|---|---|---|---|
| coordinator registry and run (`coordinator/lobby.go`, `handlers.go`) | workers, run state, totals, rate | register, heartbeat, stats, start/stop/end, prune | registration in two critical sections; pruning against late calls | worker limit, silent workers leave |
| hit log (`coordinator/hits.go`) | reported addresses, hit count, `wallets.txt` | handleHit | append fails after the address was noted; repeated reports; restart | one record per address and process, honest count |
| coordinator process (`coordinator/server.go`) | signal, listener | Run | signal in the lobby, 2 s of stopping, crash | the signal ends it |
| rate limiter (`coordinator/limits.go`) | times per address | allow | clock read outside the lock | bounded admissions, no unearned refusals |
| worker (`worker/run.go`) | session, id, last status, goroutines | register, sync, poll, search, report | statuses that are old when used, several heartbeat loops, signals | follows the run, delivers hits, ends |
| worker client (`worker/client.go`) | backoff | doJSON, DownloadCache | endless retries, lost replies, late requests; one backoff field shared by all goroutines without a lock | nothing acknowledged that is not accounted for, no retry too soon |
| stats reports (`worker/run.go`, `searchUntilStop`) | lastTotal, two atomic counters, cluster total | progress hook, ticker, last report | counter taken before the report is sent; cancelled, repeated and late reports; totals that start at an old session | no key is lost or counted twice unnoticed |
| search (`search/run.go`, `workers.go`, `process.go`) | session in memory and file, channel | runForever, runBounded: batches, checkpoints, ways out | crash between checkpoints, failing writes, damaged file, limit inside a batch | exact totals, consecutive key numbers |
| funded index (`funded/builder.go`, `sets.go`, `cache.go`, `mmap.go`; `search/workers.go`) | sorted hashes, balances, filters | build, encode, decode, match | parallel sequences, offsets, keys left underived | hits are real, none is missed |
| funded files (`funded/download.go`, `load.go`) | `funded.tsv`, caches | download, stamp, load, store | crash between rename, stamp and removal; a newer list during a download | an accepted cache is current |
| cache sync (`worker/client.go`, `coordinator/handlers.go`) | local file, ETag | 304 or download | coordinator restarted with another list or threshold; a file cut off by a power failure | a worker searches what is served |
| standalone program, dashboard, authentication, flags, address codecs | none or output | | | not modelled, see section 7 |

Interaction: workers call the coordinator over HTTP; the coordinator never
calls a worker. Inside the coordinator all handlers share one `Server` under
one mutex. Inside a worker the main goroutine, the poll and stats goroutines
and any number of heartbeat loops share the client and the contexts. The
search calls back into the worker for hits (synchronously) and progress. The
coordinator's files connect one process to the next; so do the worker's cache
and session file.

`Server.resetLobby` exists but nothing calls it: after a run the process ends.

## 2. Modules

| Module | Models | State and actions against the code |
|---|---|---|
| `HitLedger` | what `wallets.txt` promises | abstract: enter a new address, or hand over to the next process |
| `Coordinator` | `Server`, its handlers, `Run` | fields of `Server` keep their names; one action per critical section; `AdmitRegister` and `Register`/`RefuseRegister` are the two halves of `handleRegister` |
| `Cluster` | `Coordinator` and worker programs | `pc` is the place in `Run`, `runSession`, `searchUntilStop`; calls use the coordinator's actions, reply by reply |
| `RateLimiter` | `rateLimiter.allow` | `ReadClock`, then `Grant` or `Deny` under the lock |
| `ClientBackoff` | `RateLimiter` and the goroutines of a `Client` | `at` is the place in `doJSON`; sending and answers are steps of the limiter; testing the field (`BelowCap`), loading it again (`LoadAgain`) and storing its double (`Double`) are steps of their own |
| `SearchForever` | `runForever`, `runBounded`, session file, producers | variables are the functions' locals; one action per select, wallet, checkpoint and way out; `cfg` is the configuration of the call |
| `StatsReport` | `SearchForever` and the reports of `searchUntilStop` | `lastTotal`, `runKeys`, `sinceReport` are the function's locals; `posting` and `late` are reports on their way |
| `FundedIndex` | Builder, Sort, filters, cache format, derivation, Match | a hash is a number, a filter the set of keys it passes, a file a sequence of entries |
| `FundedFiles` | `EnsureTSV`, `downloadTSV`, `Load`, caches per threshold | `step` is where the process is; file contents are version numbers |
| `CacheSync` | `FundedFiles` and workers' caches | `Register`, `Sync`, `ReadStatus`, `Search` or `Resync`, ... of a session |
| `CoordinatorProofs`, `ClusterProofs`, `RateLimiterProofs`, `ClientBackoffProofs`, `SearchForeverProofs`, `StatsReportProofs`, `FundedIndexProofs`, `CacheSyncProofs` | | theorems and proofs, the last one also about `FundedFiles` |
| `MC...` | | instances for TLC |

Operators whose comment starts with "A bug:" are faulty variants of the
definition that follows them. No specification uses them. Each one, put in
place of the right definition, makes the property listed beside it in
`PROJECT.json` fail, which shows that the property depends on that code.

Composition: `Cluster` extends `Coordinator`, `ClientBackoff` extends
`RateLimiter`, `StatsReport` extends `SearchForever`, and `CacheSync` extends
`FundedFiles`. The steps of the lower module are used as they are, with their
guards, and for each pair a theorem says that the composition refines the lower
module. `Coordinator` in turn refines `HitLedger`.

### Choices worth knowing

*Requests* (`Cluster`). `doJSON` repeats a call until it succeeds or its context
is done. An attempt therefore succeeds; or is handled while its reply is lost
or an error; or is given up by the client and handled later (`late`), in any
order. An attempt that is never handled changes nothing. A registration given
up between its two critical sections goes on under another name
(`AbandonRegister`, `Ghosts`) and may take the last place under `--max-workers`.
Stats reports carry free numbers here; `StatsReport` follows them, abandoned
ones included.

*Open environment* (`Coordinator`). Any registered id may make any call, with
one exception: stats and hits come only after a run was started (`FromSearch`),
because a worker searches only after it read that state. That is an assumption
of this module, and the composed module checks it: `WorkersFollowRun` for the
worker's own calls and `LateHitsFollowRun` for abandoned ones.

*Ids.* `newWorkerID` returns random ids; the model never returns one twice.

*Rate.* `clusterKPS` is kept as the addends of the last sum. The dashboard
shows it and nothing decides by it, so no property speaks of it.

*Backoff* (`ClientBackoff`). `Client.backoff` is read and written by all
goroutines of a worker without a lock. `if c.backoff < 60s { c.backoff *= 2 }`
loads the field for the test and again for the doubling; under a data race a
compiler may also use the first load for both. The model allows either: between
test and store a goroutine may load what the others have doubled or reset since
(`LoadAgain`), or double what it tested. A store can undo a doubling or a reset,
and goroutines that have passed the test can raise the field without limit, so
no property bounds the wait from above; `MaxLoad` bounds the values explored.
The wait itself uses a load of its own.

*Searches* (`SearchForever`). Each call has a configuration: `runForever` with or
without a limit and checkpoints, or `runBounded`, which has no session. All of
them may follow each other in one directory. A session file that cannot be
parsed counts as absent, and what it held is in `lost`.

*Reports* (`StatsReport`). `dropped` and `repeated` are what the observer knows
of keys that will never reach the cluster total, or reached it more than once.
With them the sum is exact (`DeltasConserved`), so that a key that gets lost in
any other way, or is counted twice by the worker itself, breaks it. What is
added after the last progress call of a search is not reported at all; it never
enters `added`.

*Time* is a counter: ages saturate, the prune ticker is prompt.

*Files* (`FundedFiles`). Modification times are ticks of one clock, so equal
times mean a copied time. Real times with a resolution of a second, or hosts
whose clocks disagree, are outside. `raced` records that a list was published
between the download and its second HEAD request; then an old list carries a
new time and nothing can notice (`funded/download.go:195`). The properties of
`FundedFiles` and `CacheSync` say "unless raced".

*Local caches* (`CacheSync`). A download is not synced, so a power failure may
leave a file that is cut off behind its header, or empty. Full length with
wrong content is left out: the format has no checksum, and nothing could notice.

*Truncation* (`FundedIndex`) happens between entries; a cut inside an entry is
the same error as a cut before it.

*Bounds.* Every bound is a CONSTANT whose comment says "bound:", and appears
as a guard of the action that would exceed it.

## 3. Runs

| Run | Instance | Shows |
|---|---|---|
| `coordinator` | 2 clients, 2 ids, 2 addresses, limit 1, 2 processes | all safety properties of the server, refinement of `HitLedger`, `SignalEndsRun` |
| `cluster` | 1 worker program, 2 ids, 1 address, 2 processes, 1 abandoned request | worker and coordinator agree; no search is cut short; acknowledged hits are accounted for |
| `cluster_live` | as above, limit 1, 1 process, 1 registration request that may be given up | joining, delivering, ending |
| `rate_limiter` | `ClientBackoff`: 2 goroutines of one client and 1 other handler, 1 address, limit 2, window 3, delay 1, backoff from 2 with cap 3, loaded again up to 4 | the window bound; refusals are earned; a failed call waits at least the first backoff |
| `search_forever` | `StatsReport`: batches of 2; a worker's search, a limited one of 3 keys with checkpoints, a bounded one of 3; 4 keys, 2 searches, 1 lost reply per report | exact accounting of session and reports; cancellation; no key stays in the counter |
| `funded` | `FundedIndex`: 3 hashes, 3 balances, 3 lines, 2 wallets, all masks; `CacheSync`: 2 versions, 2 thresholds, 3 processes, 1 worker whose files may be cut off | lookups, balances, cache layout; caches are current, a 304 is true |
| `acked_hit_lost`, `forgotten_worker`, `lobby_signal`, `history_counted`, `signalled_worker`, `any_format` | the instances of `cluster_live`, `coordinator`, `search_forever` and `funded` or smaller ones | the six findings below, one each |

`FundedIndex` and `CacheSync` share no variable. Their run puts them side by side
and steps each only while the other is in its initial state, so that every
state of both is seen and no product of them (`MCFunded`).

Why the bounds are enough. Registration races need two clients and one place.
A hit needs two addresses to confuse, and two processes to be reported again
after a restart. A stale id needs two ids and two processes. One abandoned
request can overtake everything the worker does later. Several worker programs
interact only through the registry, which `coordinator` covers with an open
environment, so `cluster` has one; the theorems of section 6 are for any number.
A window of three with a limit of two and three handlers lets an old stamp be
decided after newer ones on both sides of the edge. With base 2 and cap 3 the
first doubling leaves the cap behind, as 64 s does with 60 s; two goroutines are
enough for a stale store and for a doubling of a doubled value (4 is loaded
again), and a third party keeps the limiter busy. Batches of
two and a limit of three put the limit inside a batch; the second search starts
from the file of the first, whichever configuration wrote it, and that is what
the deltas of the next worker start from. One lost reply makes a report count
twice. Three lines give a bucket two
hashes, so the order matters, and leave one for another bucket. Three processes
and two thresholds let a cache of the first process survive a download made by
the second under another threshold and be met by the third.

`CHECK_DEADLOCK FALSE` stands in the runs whose system may stop: an exited
coordinator without a successor, an exited worker, a finished index, a
simulated clock at its end, all runs used up.

## 4. Fairness

* `Coordinator`: the steps that `Run` takes by itself after the signal (stop, 2 s,
  end, Shutdown with a 5 s limit). Nobody has to press Enter, interrupt or
  restart.
* `Cluster`: in addition, every step a scheduled goroutine takes, and every call
  whose success stays possible: `doJSON` repeats it without limit, and the
  network is assumed not to lose every attempt for ever. Killing, signalling,
  failing and losing replies are never fair.
* `SearchForever`: the consumer goroutine. Producers need no fairness: a
  cancelled search returns even if no batch ever comes.
* `StatsReport`: in addition the ticker, the last report, the end of a call
  whose context is done, and that a report repeated for ever is answered at last.

Several liveness properties list when they need not hold (`~Known(c)`,
`SearchCancelled(c)`, ...); these are the cases in which the code really gives up.

## 5. Findings

1. **An acknowledged hit can be lost** (`AckedHitIsRecorded`, `coordinator/hits.go:77`).
   The address is noted before the append; if the append fails, the repeated
   report is a duplicate and is answered with success. `plans/net/design.md` has
   the coordinator own the canonical hit log.
2. **A forgotten worker never returns** (`ForgottenWorkerReturns`,
   `worker/client.go:92`). 404 for an unknown id is retried for ever;
   `plans/net/low/01-reconnect/plan.md` has the worker register again.
3. **A signal in the lobby is swallowed** (`SignalEndsProcess`,
   `coordinator/server.go:96`), although the dashboard offers "Ctrl+C to stop".
4. **A search reports the keys of earlier ones** (`RunKeysSinceStart`,
   `worker/run.go:224`). The first delta is measured from 0, while the total
   continues from `btcfind.session`;
   `plans/net/medium/01-stats-aggregation/plan.md` counts from the last change to
   RUNNING.
5. **A signalled worker may never exit** (`SignalledWorkerExits`,
   `worker/run.go:251`). When its search ends it sends a last stats report and a
   heartbeat under `context.Background()`, and `doJSON` repeats them for ever when
   the coordinator is gone or does not know the worker's id; main catches further
   signals. `share/worker/README.md` says "Press Ctrl+C. The worker exits cleanly."
   These two calls are the exceptions of `SignalledWorkerLeaves`, which says that
   a signalled worker exits otherwise, whatever it is doing.
6. **Taproot is not searched with other formats** (`AnyFormatIsFound`,
   `search/workers.go:84`), unless a filter of another format passes by chance.

Further observations, stated inside the properties or the models:

* `plans/net/low/01-reconnect/plan.md` caps the backoff at 60 s. It reaches 64 s in
  a single goroutine, as it doubles while it is below 60 s, and more when several
  have passed the test before one of them stores (`ClientBackoff`, in which
  `LoadAgain` and `Double` can be followed to any value up to `MaxLoad` and twice
  it). No run is spent on this;
* a stats report that is cancelled loses its delta, one whose reply is lost is
  counted again, and keys checked after the last progress call of a search are
  never reported (`dropped` and `repeated` in `StatsReport`);
* `plans/net/medium/02-hit-pipeline` sketches three retries of a hit and then a log
  on the worker. The code repeats the report until it succeeds or the search
  is cancelled, and keeps no such log; `HitIsDelivered` is about the code.

Three simplifications bear on these results. `HandleHit` leaves out the answer to
an empty address (`coordinator/hits.go:70`), which the worker never sends.
`SearchUsesServedCache` does not cover a search that goes on under a restarted
coordinator (its `status.process` is the old one's). A cache file of the
coordinator that a power failure cut off is left out.

## 6. Proofs

All theorems are about the specifications without fairness and hold for all
constants allowed by the ASSUMEs of the modules: any number of workers, requests,
goroutines, addresses, thresholds, searches and processes.

`CoordinatorProofs`
* `TypeCorrect`: `TypeOK` is inductive.
* `CapacityHolds`: `CapacityRespected` is inductive relative to `TypeOK`; only
  `Register` enlarges the registry, by one, and it asks for room itself.
* `OneRecord`: a record implies that the address is in `hitAddresses`, and
  processes to come have no records. Starting a run empties `hitAddresses`, so
  the invariant also says that a coordinator in its lobby has no records yet;
  this is where `FromSearch` and "no second run" enter.
* `Refinement`: with the same invariant every step is a step of `HitLedger` or
  leaves the ledger alone.
* `CountSound`: each count comes with an address that was not recorded before.
* `SilenceBounded`: a worker's age plus the time to the next tick is at most the
  cutoff plus one period; only this sum is inductive, the property follows.

`RateLimiterProofs`
* `TypeCorrect`, and `WindowBoundHolds`: a bucket has at most `Limit` entries and still holds every
  grant of the shortened window. The second half needs that a stamp is at most
  `MaxDelay` older than the moment it is used, for waiting handlers and for
  grants; that is also why the window is shortened.
* `RefusalsEarned`, an action property: what is in a bucket was granted, so a
  full bucket is `Limit` grants.

`ClientBackoffProofs`
* `LimiterRefined`: the callers add nothing to the limiter, so its theorems hold
  under their retries (`TypesUnderRetries`, `WindowBoundUnderRetries`, `RefusalsUnderRetries`).
* `RetriesPaced`: the field alone is not inductive, as a store may come from an
  old load. The invariant adds that whatever a goroutine has loaded and is about
  to double is not below the first backoff.

`SearchForeverProofs`
* one invariant joins the types, the two sums and the order of file and memory;
  `Accounted`, `FileTrails`, `LimitHolds` and the action property `IndexSteps`
  follow.
* `LimitIsExact`: a search that stops for its limit is neither short nor over,
  since no step counts a key at the limit. `FileNeverFalls`: a step that writes
  the file writes what the memory holds, which the file trails.
* `HitsWithinKeys`: the hits in memory stay within the keys of session and segment,
  so what is written has no more hits than keys.

`StatsReportProofs`
* `SearchRefined`: the search with its reports is the search, and
  `SearchPromises` carries its theorems over.
* `ReportsAreCovered`: the hook's totals never fall, because the session in
  memory plus the segment only grows within a search, whatever happens to the file.
* `Conserved`: each step moves a delta from one place to the next; a report that
  was counted and is counted again enters `repeated`.
* `ClusterTotalIsCovered`: what the cluster shows was counted by a hook or was
  repeated. `FilePromises` carries the results on limit and session file over.

`ClusterProofs`
* `ClusterRefinesCoordinator`: every step of the system is a step of the
  coordinator or leaves it alone, and `CoordinatorUnderWorkers` and
  `LedgerUnderWorkers` carry the theorems above over. A late request is typed
  because the session that sent it was registered, and a hit under way has an
  address because its place says so (`Session`).
* `WorkersStayBehind`, `LateHitsStayBehind`: what a coordinator knows of an id
  never comes back once it is lost, and while it knows the id its run only goes
  forward (`NextKnown`). A status is used in a later step than it is read in, so
  the invariant also covers the status in hand. These two theorems discharge the
  assumption `FromSearch` of `Coordinator`: its guard never stops a call that a
  worker makes.
* `AckedHitsAccounted`: every address that was reported or acknowledged was
  recorded by some process, or its append is known to have failed; records stay.
* `SearchesLastAsLongAsRun`: `searchCtx` and what the poll goroutine read belong to
  one search (`EndSearch` drops both), and each is behind the run of the coordinator
  that knows the worker; a search begins behind the run by `WorkersStayBehind`.
* `LimitedWorkersTakePart`: `--max-workers` bounds worker programs too, not only
  registrations. An id is issued once, so programs that take part map injectively
  into the registry (`DistinctHolds`).
* `SignalledWorkersOnlyLeave`, `SearchesEndInOrder`: the safety halves of
  `SignalledWorkerLeaves`, `SearchFollowsStop` and `HitIsDelivered`. The first is a
  rank: each move of a signalled worker through `Run`, `runSession` and
  `searchUntilStop` lowers `Distance`, which is at most seven, so that only a call
  that never returns can keep it. The second: a cancelled search stays cancelled
  until it ends, and the hit under way is the same one until it succeeds, its
  search is cancelled or the worker dies.
* `ForgottenForGood`, `ForgottenUnderItsID`: an id that was lost never comes back.
  This is why finding 2 has no cure within the session.

`CacheSyncProofs`
* `CacheIsCurrent`, `UpdatesNoticed`: a modification time stands for one version
  of the list in the whole directory, since a step stores what is there already
  or something with a new time (`NextStored`). The one exception is a stamp
  after a download that was overtaken, which is `raced`.
* `FilesGoForward`, an action property: neither `funded.tsv` nor a cache is replaced
  by an older list. The invariant `LagInv` puts each cache behind the list beside it
  and both behind what was fetched last, which also covers the time in which
  `funded.tsv` is deleted and the caches are not. It holds for raced downloads too.
* `FilesUnderWorkers`: the workers leave the coordinator's files alone.
* `BelievedIsLocal`, `DamagedIsNotSearched`: a session's ETag is its local file's
  from registration on, and whatever it has loaded was whole.
* `SearchesServedCache`: the workers' copies join the same relation of times and
  versions, and a status of the process that is serving has the ETag served;
  then equal ETags mean equal lists.
* `NotModifiedHolds`: with the same invariant (`CopiesHold`) an ETag determines
  list and threshold (`SameETagSameContent`), so a 304 is true.

`FundedIndexProofs`
* `SearchIndexFinds`: the binary search ends at the first hash that is not below
  the key. The interval is halved, so the proof goes by its length.
* `IndexIsBuiltFromLines` (`IndexInv`): the builder holds the largest qualifying
  balance of every listed address, and the buckets are its contents in order,
  hash by balance. The invariant has to relate the set of lines read so far to
  the builder; the properties below say nothing of it and are not inductive.
* `HitsAlwaysReal`, `FundedWalletsAreFound`: a wallet's keys are derived for
  every format that is searched, filters pass every hash they were built from,
  and the binary search finds what is listed. Taproot with other formats is found
  when a filter lets one of the wallet's keys pass; finding 6 is the other case.
* `CacheIsReadBack`, `TruncationAlwaysNoticed`: the file is laid out region by
  region, and each of the reader's offsets is shown to be where the writer put the
  region (`FileLayout`, `ReadersRegion`). The offsets are a recursive function
  over the buckets, of which there are four; it is unrolled.
* Induction over data, which sorting and searching need, is stated as the
  least-element principle: a set of counterexamples that is not empty has a least
  member in a well-founded relation (`WFMin`). A recursive function is shown to
  exist by a witness before its equations are used (`BisectionExists`).

Every safety invariant and action property of the passing runs is a theorem.
Only model-checked are the liveness properties (`SignalEndsRun`, `WorkersJoinRun`,
`HitIsDelivered`, `SearchFollowsStop`, `SignalledWorkerLeaves`, `CancelIsHeeded`,
`CountedKeysAreTaken`): they rest on fairness and ENABLED, which the prover does
not handle. The safety halves of `SignalledWorkerLeaves`, `SearchFollowsStop` and
`HitIsDelivered` are the theorems `SignalledWorkersOnlyLeave` and `SearchesEndInOrder`.

## 7. Not modelled

Authentication, TLS and headers (stateless); output of coordinator, worker and
standalone program; command lines; address codecs and key generation (library
code, pure); simulated and injected hits; rates, `BestKeysPerSecond` and dates;
the lifetime of memory mappings; two workers in one directory, which share
temporary files (the scripts give each its own). The root package repeats some
functions of `search` and `funded`; only the latter are mapped.

## 8. Plan

Done: all modules of section 2 and the proofs of section 6. Still to do, in the
order of importance:

1. Two workers in one directory: the shared temporary file of the cache download
   and the shared session file.
2. The rate of the cluster as a property, once the code or a document says what
   it should be while a heartbeat says "waiting".

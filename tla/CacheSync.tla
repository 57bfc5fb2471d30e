----------------------------- MODULE CacheSync -----------------------------
(***************************************************************************)
(* How the workers come by the cache of the coordinator: handleCache       *)
(* (src/coordinator/handlers.go), DownloadCache (src/worker/client.go) and *)
(* the two places of runSession (src/worker/run.go) that call it, over the *)
(* files of FundedFiles.tla.                                               *)
(*                                                                         *)
(* Each worker has a directory of its own, where it stores a download      *)
(* under the name for the threshold it was registered with, whatever       *)
(* threshold the download is for.  A failed attempt leaves nothing behind  *)
(* and is repeated, so a download is one step.  The file is not synced to  *)
(* the disk, so a power failure may cut it off behind its header, or leave *)
(* it empty.  Of the run only the status "running" is seen here; its other *)
(* states and the loss of registrations are in Cluster.tla.                *)
(***************************************************************************)
EXTENDS FundedFiles

CONSTANT Workers

VARIABLES
    place,   \* where runSession is
    path,    \* threshold of the registration, which names the local file
    local,   \* the cache files in the worker's directory, by path
    have,    \* remoteETag
    status,  \* the last status: the run's ETag and the process it is from
    loaded   \* the content of sets

workerVars == <<place, path, local, have, status, loaded>>
vars == <<fileVars, workerVars>>

WorkerPlaces == {"register", "sync", "poll", "check", "search"}
NoETag == <<0, DefaultThreshold>>
NoStatus == [etag |-> NoETag, process |-> 0]

\* A bug: the threshold is left out of the ETag.
ETagOfTime(mtime, t) == <<mtime, DefaultThreshold>>

\* CacheETag: the two header fields.
ETag(mtime, t) == <<mtime, t>>

\* What handleCache serves: a file, and for which threshold it was made.
Serving == step = "serve"
Served == [version |-> caches[threshold].version,
           etag |-> ETag(caches[threshold].mtime, threshold),
           for |-> threshold,
           whole |-> TRUE]

Content(file) == [version |-> file.version, for |-> file.for]
Blank == [version |-> 0, etag |-> NoETag, for |-> DefaultThreshold,
          whole |-> FALSE]

Init ==
    /\ FilesInit
    /\ place = [w \in Workers |-> "register"]
    /\ path = [w \in Workers |-> DefaultThreshold]
    /\ local = [w \in Workers |-> [t \in Thresholds |-> Blank]]
    /\ have = [w \in Workers |-> NoETag]
    /\ status = [w \in Workers |-> NoStatus]
    /\ loaded = [w \in Workers |-> Content(Blank)]
-----------------------------------------------------------------------------
(* The steps of a session.                                                 *)

\* Registration names the file, and CacheETag reads its header.
Register(w) ==
    /\ place[w] = "register" /\ Serving
    /\ path' = [path EXCEPT ![w] = threshold]
    /\ have' = [have EXCEPT ![w] = local[w][threshold].etag]
    /\ place' = [place EXCEPT ![w] = "sync"]
    /\ UNCHANGED <<fileVars, local, status, loaded>>

\* A 304 keeps the local file, another answer replaces it.
Fetched(w) ==
    IF have[w] = Served.etag THEN local[w]
    ELSE [local[w] EXCEPT ![path[w]] = Served]

\* A bug: the worker notes the ETag of the run, not that of the answer.
DownloadNotesStatus(w, next) ==
    /\ Serving
    /\ Fetched(w)[path[w]].whole
    /\ local' = [local EXCEPT ![w] = Fetched(w)]
    /\ have' = [have EXCEPT ![w] = status[w].etag]
    /\ loaded' = [loaded EXCEPT ![w] = Content(Fetched(w)[path[w]])]
    /\ place' = [place EXCEPT ![w] = next]
    /\ UNCHANGED <<fileVars, path, status>>

\* A bug: a file that was cut off is loaded as far as it goes.
DownloadLoadsAnything(w, next) ==
    /\ Serving
    /\ local' = [local EXCEPT ![w] = Fetched(w)]
    /\ have' = [have EXCEPT ![w] = Served.etag]
    /\ loaded' = [loaded EXCEPT ![w] = Content(Fetched(w)[path[w]])]
    /\ place' = [place EXCEPT ![w] = next]
    /\ UNCHANGED <<fileVars, path, status>>

\* DownloadCache and LoadFromCacheFile.
Download(w, next) ==
    /\ Serving
    /\ Fetched(w)[path[w]].whole
    /\ local' = [local EXCEPT ![w] = Fetched(w)]
    /\ have' = [have EXCEPT ![w] = Served.etag]
    /\ loaded' = [loaded EXCEPT ![w] = Content(Fetched(w)[path[w]])]
    /\ place' = [place EXCEPT ![w] = next]
    /\ UNCHANGED <<fileVars, path, status>>

\* The file at hand is confirmed by 304 and cannot be loaded: the session ends
\* and Run begins another one.
LocalLoadFails(w) ==
    /\ place[w] = "sync" /\ Serving
    /\ ~Fetched(w)[path[w]].whole
    /\ place' = [place EXCEPT ![w] = "register"]
    /\ status' = [status EXCEPT ![w] = NoStatus]
    /\ UNCHANGED <<fileVars, path, local, have, loaded>>

Sync(w) == place[w] = "sync" /\ Download(w, "poll")

\* GET /run answers "running" with the run's configuration.
ReadStatus(w) ==
    /\ place[w] = "poll" /\ Serving
    /\ status' = [status EXCEPT ![w] = [etag |-> Served.etag, process |-> process]]
    /\ place' = [place EXCEPT ![w] = "check"]
    /\ UNCHANGED <<fileVars, path, local, have, loaded>>

\* A bug: the cache of the registration is used for every run.
SearchUnchecked(w) ==
    /\ place[w] = "check"
    /\ place' = [place EXCEPT ![w] = "search"]
    /\ UNCHANGED <<fileVars, path, local, have, status, loaded>>

\* The cache at hand is the one of the run.
Search(w) ==
    /\ place[w] = "check"
    /\ status[w].etag = have[w]
    /\ place' = [place EXCEPT ![w] = "search"]
    /\ UNCHANGED <<fileVars, path, local, have, status, loaded>>

\* It is not: download and load again, then search with what came.
Resync(w) ==
    /\ place[w] = "check"
    /\ status[w].etag # have[w]
    /\ Download(w, "search")

\* searchUntilStop returns.
EndSearch(w) ==
    /\ place[w] = "search"
    /\ place' = [place EXCEPT ![w] = "poll"]
    /\ UNCHANGED <<fileVars, path, local, have, status, loaded>>

\* The session or the worker ends and another one begins.
NewSession(w) ==
    /\ place[w] # "register"
    /\ place' = [place EXCEPT ![w] = "register"]
    /\ status' = [status EXCEPT ![w] = NoStatus]
    /\ UNCHANGED <<fileVars, path, local, have, loaded>>

\* The worker's host loses power; a file is cut off, or empty and without a
\* header to take an ETag from.
PowerFailure(w) ==
    /\ \E t \in Thresholds :
          /\ local[w][t].whole
          /\ \E damaged \in {[local[w][t] EXCEPT !.whole = FALSE], Blank} :
                local' = [local EXCEPT ![w] = [@ EXCEPT ![t] = damaged]]
    /\ place' = [place EXCEPT ![w] = "register"]
    /\ status' = [status EXCEPT ![w] = NoStatus]
    /\ UNCHANGED <<fileVars, path, have, loaded>>

Next ==
    \/ FilesNext /\ UNCHANGED workerVars
    \/ \E w \in Workers :
          \/ Register(w) \/ Sync(w) \/ ReadStatus(w) \/ Search(w) \/ Resync(w)
          \/ EndSearch(w) \/ NewSession(w) \/ LocalLoadFails(w) \/ PowerFailure(w)

Spec == Init /\ [][Next]_vars
-----------------------------------------------------------------------------
(* Properties.                                                             *)

\* A worker that searches for a run of the current coordinator process uses
\* the very list and threshold that the coordinator serves, although its local
\* file may be from another process, another list or another threshold and a
\* 304 is decided by two header fields; unless a download of the coordinator
\* was overtaken, which puts two lists under one ETag (runSession, handleCache).
SearchUsesServedCache ==
    \A w \in Workers :
        /\ place[w] = "search" /\ Serving /\ ~raced
        /\ status[w].process = process
        => loaded[w] = Content(Served)

\* A 304 is true: a worker that asks with the ETag of its file, before or after
\* a registration, a restart or an update, and finds it unchanged has the list
\* and the threshold that are served (handleCache, DownloadCache).
NotModifiedIsTrue ==
    \A w \in Workers :
        /\ place[w] \in {"sync", "check"} /\ Serving /\ ~raced
        /\ have[w] = Served.etag
        => Content(local[w][path[w]]) = Content(Served)

\* A worker never searches with a file that was cut off, although such a file
\* still has the header that a 304 is decided by: it is loaded after every 304
\* (LoadFromCacheFile in runSession).
DamagedCacheIsNotSearched ==
    \A w \in Workers :
        place[w] \in {"poll", "check", "search"} => local[w][path[w]].whole

\* The local file is never behind what the worker believes to have: a later
\* 304 keeps the file that its ETag names (DownloadCache, CacheETag).
BelievedCacheIsLocal ==
    \A w \in Workers :
        place[w] \in {"poll", "check", "search"} => local[w][path[w]].etag = have[w]
=============================================================================

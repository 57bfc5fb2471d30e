---------------------------- MODULE FundedFiles ----------------------------
(***************************************************************************)
(* The files of a coordinator's directory: funded.tsv, kept up to date by  *)
(* EnsureTSV and downloadTSV (src/funded/download.go), and its caches, one *)
(* per minimum balance, written and read by Load (load.go, cache.go).      *)
(*                                                                         *)
(* One coordinator process at a time works in the directory: it goes       *)
(* through EnsureTSV and Load and then serves its cache.  It can crash at  *)
(* any step; files survive.  Meanwhile the remote list may be replaced.    *)
(*                                                                         *)
(* The content of a file is the number of the version of the list it was   *)
(* made from.  Modification times tick with every event that sets one, so  *)
(* two of them are equal only when one was copied from the other, and the  *)
(* clocks of the two hosts agree.  Files are replaced by writing a         *)
(* temporary file and renaming it.                                         *)
(***************************************************************************)
EXTENDS Integers

CONSTANTS
    Thresholds,        \* values of --min-balance
    DefaultThreshold,  \* DefaultMinBalanceSats, whose cache is funded.cache
    MaxVersion,        \* bound: versions of the list published
    MaxClock,          \* bound: modification times
    Processes          \* bound: coordinator processes are 1..Processes

ASSUME FilesAssumption ==
    /\ DefaultThreshold \in Thresholds
    /\ MaxVersion \in Nat \ {0}
    /\ MaxClock \in Nat \ {0}
    /\ Processes \in Nat

VARIABLES
    clock,      \* the last modification time
    remote,     \* the list at DownloadURL: version and Last-Modified
    tsv,        \* funded.tsv
    caches,     \* the cache file of each threshold; mtime is the header's
    step,       \* where the process is
    threshold,  \* its --min-balance
    fetched,    \* version of the body it downloads
    process,    \* its number
    raced       \* a download was overtaken by a new version

fileVars == <<clock, remote, tsv, caches, step, threshold, fetched, process, raced>>

NoFile == [version |-> 0, mtime |-> 0]
Files == [version : 0..remote.version, mtime : 0..clock]
Steps == {"down", "check", "get", "copy", "stamp", "clean", "load", "serve"}

FilesInit ==
    /\ clock = 1
    /\ remote = [version |-> 1, mtime |-> 1]
    /\ tsv = NoFile
    /\ caches = [t \in Thresholds |-> NoFile]
    /\ step = "down"
    /\ threshold = DefaultThreshold
    /\ fetched = 0
    /\ process = 0
    /\ raced = FALSE
-----------------------------------------------------------------------------
(* The world around the process.                                           *)

Publish ==
    /\ remote.version < MaxVersion /\ clock < MaxClock
    /\ clock' = clock + 1
    /\ remote' = [version |-> remote.version + 1, mtime |-> clock + 1]
    /\ UNCHANGED <<tsv, caches, step, threshold, fetched, process, raced>>

\* The operator removes funded.tsv to have it downloaded again.
DeleteTSV ==
    /\ step = "down"
    /\ tsv # NoFile
    /\ tsv' = NoFile
    /\ UNCHANGED <<clock, remote, caches, step, threshold, fetched, process, raced>>

StartProcess(t) ==
    /\ step = "down"
    /\ process < Processes
    /\ process' = process + 1
    /\ threshold' = t
    /\ step' = "check"
    /\ UNCHANGED <<clock, remote, tsv, caches, fetched, raced>>

\* The process ends or dies.
StopProcess ==
    /\ step # "down"
    /\ step' = "down"
    /\ UNCHANGED <<clock, remote, tsv, caches, threshold, fetched, process, raced>>

Proceed(place) ==
    /\ step' = place
    /\ UNCHANGED <<clock, remote, threshold, process>>
-----------------------------------------------------------------------------
(* EnsureTSV and downloadTSV.                                              *)

\* There is no file, or a newer one is offered and the operator says yes.
WantDownload ==
    /\ step = "check"
    /\ tsv = NoFile \/ remote.mtime > tsv.mtime
    /\ Proceed("get")
    /\ UNCHANGED <<tsv, caches, fetched, raced>>

\* The file is up to date, or HEAD fails, or the operator says no.
KeepLocal ==
    /\ step = "check"
    /\ tsv # NoFile
    /\ Proceed("load")
    /\ UNCHANGED <<tsv, caches, fetched, raced>>

Get ==
    /\ step = "get"
    /\ fetched' = remote.version
    /\ Proceed("copy")
    /\ UNCHANGED <<tsv, caches, raced>>

\* A bug: an update that could not be stored is stamped all the same.
DownloadFailsUnseen ==
    /\ step \in {"get", "copy"}
    /\ Proceed(IF tsv = NoFile THEN "load" ELSE "stamp")
    /\ UNCHANGED <<tsv, caches, fetched, raced>>

\* The download, the copy or the rename fails.  The caller goes on without
\* looking at the error of EnsureTSV.
DownloadFails ==
    /\ step \in {"get", "copy"}
    /\ Proceed("load")
    /\ UNCHANGED <<tsv, caches, fetched, raced>>

Rename ==
    /\ step = "copy"
    /\ clock < MaxClock
    /\ clock' = clock + 1
    /\ tsv' = [version |-> fetched, mtime |-> clock + 1]
    /\ raced' = (raced \/ remote.version # fetched)
    /\ step' = "stamp"
    /\ UNCHANGED <<remote, caches, threshold, fetched, process>>

\* A bug: the file is given the time at which the stamping ends.
StampNow ==
    /\ step = "stamp"
    /\ tsv' = [tsv EXCEPT !.mtime = clock + 1]
    /\ raced' = (raced \/ remote.version # fetched)
    /\ Proceed("clean")
    /\ UNCHANGED <<caches, fetched>>

\* A second HEAD gives the file the time of the list that is published now.
Stamp ==
    /\ step = "stamp"
    /\ tsv' = [tsv EXCEPT !.mtime = remote.mtime]
    /\ raced' = (raced \/ remote.version # fetched)
    /\ Proceed("clean")
    /\ UNCHANGED <<caches, fetched>>

\* HEAD or Chtimes fails: the file keeps the time of its rename.
StampFails ==
    /\ step = "stamp"
    /\ Proceed("clean")
    /\ UNCHANGED <<tsv, caches, fetched, raced>>

\* RemoveDefaultCache, whose failure is only a warning.  The caches of other
\* thresholds stay.
Clean ==
    /\ step = "clean"
    /\ caches' \in {caches, [caches EXCEPT ![DefaultThreshold] = NoFile]}
    /\ Proceed("load")
    /\ UNCHANGED <<tsv, fetched, raced>>
-----------------------------------------------------------------------------
(* Load, and the ETag that Run takes from the cache.                       *)

\* A bug: the cache of the right threshold is used whatever its time is.
AcceptableOfAnyTime(cache) == cache # NoFile

\* DecodeCache: the time in the header is that of funded.tsv.
Acceptable(cache) == cache # NoFile /\ cache.mtime = tsv.mtime

LoadFromCache ==
    /\ step = "load"
    /\ tsv # NoFile /\ Acceptable(caches[threshold])
    /\ Proceed("serve")
    /\ UNCHANGED <<tsv, caches, fetched, raced>>

\* Parse funded.tsv and store the result.
LoadFromTSV ==
    /\ step = "load"
    /\ tsv # NoFile /\ ~Acceptable(caches[threshold])
    /\ caches' = [caches EXCEPT ![threshold] = tsv]
    /\ Proceed("serve")
    /\ UNCHANGED <<tsv, fetched, raced>>

\* WriteCache fails, which is only a warning: an old cache is served, and
\* without one CacheETag ends Run.
StoreFails ==
    /\ step = "load"
    /\ tsv # NoFile /\ ~Acceptable(caches[threshold])
    /\ Proceed(IF caches[threshold] = NoFile THEN "down" ELSE "serve")
    /\ UNCHANGED <<tsv, caches, fetched, raced>>

\* Without funded.tsv Load fails and Run with it.
LoadFails ==
    /\ step = "load"
    /\ tsv = NoFile
    /\ Proceed("down")
    /\ UNCHANGED <<tsv, caches, fetched, raced>>

FilesNext ==
    \/ Publish \/ DeleteTSV \/ StopProcess
    \/ \E t \in Thresholds : StartProcess(t)
    \/ WantDownload \/ KeepLocal \/ Get \/ DownloadFails \/ Rename \/ Stamp \/ StampFails
    \/ Clean \/ LoadFromCache \/ LoadFromTSV \/ StoreFails \/ LoadFails

FilesSpec == FilesInit /\ [][FilesNext]_fileVars
-----------------------------------------------------------------------------
(* Properties.                                                             *)

\* The files and the process keep their shapes, and no file is newer than the
\* clock or the published list.
FilesTypeOK ==
    /\ clock \in 1..MaxClock
    /\ remote \in Files
    /\ tsv \in Files
    /\ caches \in [Thresholds -> Files]
    /\ step \in Steps
    /\ threshold \in Thresholds
    /\ fetched \in 0..MaxVersion
    /\ process \in 0..Processes
    /\ raced \in BOOLEAN

\* At every moment, after any crash and for every threshold, a cache that Load
\* would accept holds what funded.tsv holds, unless a download was overtaken
\* by a new version of the list (Load, DecodeCache, downloadTSV).
AcceptedCacheIsCurrent ==
    ~raced /\ tsv # NoFile =>
        \A t \in Thresholds :
            Acceptable(caches[t]) => caches[t].version = tsv.version

\* An old funded.tsv is seen to be old by the next EnsureTSV, however the
\* download that brought it ended, unless it was overtaken by a new version.
UpdateIsNoticed ==
    ~raced /\ tsv # NoFile /\ tsv.version # remote.version => remote.mtime > tsv.mtime
=============================================================================

-------------------------- MODULE CacheSyncProofs --------------------------
(***************************************************************************)
(* Proofs about FundedFiles and CacheSync: a modification time stands for  *)
(* one version of the list, in the coordinator's directory and in those of *)
(* the workers, and that is enough to tell a cache by its time.            *)
(***************************************************************************)
EXTENDS CacheSync, TLAPS

OneVersionPerTime(S) == \A f, g \in S : f.mtime = g.mtime => f.version = g.version

\* The contents of the coordinator's directory and of the remote list.
Stored == {NoFile, tsv, remote} \cup {caches[t] : t \in Thresholds}

FilesInv ==
    /\ FilesTypeOK
    /\ fetched <= remote.version
    /\ remote.version <= MaxVersion
    /\ process = 0 => step = "down"
    /\ step = "stamp" => tsv.version = fetched
    /\ step = "serve" => caches[threshold] # NoFile
    /\ UpdateIsNoticed

TimesInv == ~raced => OneVersionPerTime(Stored)

\* A fresh directory has no file that could be out of date.
LEMMA InitFiles == FilesInit => FilesInv /\ TimesInv
  <1> SUFFICES ASSUME FilesInit PROVE FilesInv /\ TimesInv
    OBVIOUS
  <1> USE FilesAssumption DEF FilesInit, NoFile
  <1>0. Files = [version : 0..1, mtime : 0..1] /\ remote.version = 1
    BY DEF Files
  <1>1. FilesTypeOK
    <2>1. NoFile \in Files /\ remote \in Files
      BY <1>0
    <2>2. caches \in [Thresholds -> Files] /\ tsv \in Files
      BY <2>1
    <2>3. clock \in 1..MaxClock /\ fetched \in 0..MaxVersion /\ process \in 0..Processes
      OBVIOUS
    <2>4. step \in Steps /\ threshold \in Thresholds /\ raced \in BOOLEAN
      BY DEF Steps
    <2> HIDE DEF FilesInit, NoFile
    <2> QED
      BY <2>1, <2>2, <2>3, <2>4 DEF FilesTypeOK
  <1>2. FilesInv
    BY <1>0, <1>1 DEF FilesInv, UpdateIsNoticed
  <1>3. Stored \subseteq {NoFile, [version |-> 1, mtime |-> 1]}
    BY DEF Stored
  <1> QED
    BY <1>2, <1>3 DEF TimesInv, OneVersionPerTime

\* A file of the past is a file of the future: clock and versions only grow.
LEMMA FilesGrow ==
    ASSUME FilesInv, clock' \in Nat, clock' >= clock, remote'.version \in Nat,
           remote'.version >= remote.version
    PROVE  Files \subseteq Files'
  <1>1. clock \in Nat /\ remote.version \in Nat
    BY FilesAssumption DEF FilesInv, FilesTypeOK, Files
  <1>2. 0..clock \subseteq 0..clock' /\ 0..remote.version \subseteq 0..remote'.version
    BY <1>1
  <1> QED
    BY <1>2 DEF Files

\* Every step keeps files, clock and process in their ranges.
LEMMA NextFiles == FilesInv /\ [FilesNext]_fileVars => FilesInv'
  <1> SUFFICES ASSUME FilesInv, [FilesNext]_fileVars PROVE FilesInv'
    OBVIOUS
  <1> USE FilesAssumption
  <1>t. /\ clock \in 1..MaxClock /\ remote \in Files /\ tsv \in Files /\ NoFile \in Files
        /\ caches \in [Thresholds -> Files] /\ step \in Steps /\ threshold \in Thresholds
        /\ fetched \in 0..MaxVersion /\ process \in 0..Processes /\ raced \in BOOLEAN
        /\ remote.version \in 0..MaxVersion /\ remote.mtime \in 0..clock
        /\ tsv.version \in 0..remote.version /\ tsv.mtime \in 0..clock
        /\ fetched <= remote.version
    BY DEF FilesInv, FilesTypeOK, Files, NoFile
  <1>1. CASE Publish
    <2>1. /\ clock' = clock + 1 /\ clock' \in 1..MaxClock
          /\ remote'.version = remote.version + 1 /\ remote'.mtime = clock + 1
          /\ remote' = [version |-> remote.version + 1, mtime |-> clock + 1]
          /\ UNCHANGED <<tsv, caches, step, threshold, fetched, process, raced>>
      BY <1>1, <1>t DEF Publish
    <2>2. Files \subseteq Files' /\ remote' \in Files'
      BY <1>t, <2>1, FilesGrow DEF Files
    <2>3. FilesTypeOK'
      BY <1>t, <2>1, <2>2 DEF FilesTypeOK
    <2>4. UpdateIsNoticed'
      BY <1>t, <2>1 DEF UpdateIsNoticed
    <2> QED
      BY <1>1, <1>t, <2>1, <2>3, <2>4 DEF FilesInv, Publish
  <1>2. ASSUME UNCHANGED <<clock, remote, tsv, caches, fetched, raced>>,
               step' \in Steps, threshold' \in Thresholds, process' \in 0..Processes,
               process' = 0 => step' = "down", step' # "stamp",
               step' = "serve" => caches[threshold'] # NoFile
        PROVE  FilesInv'
    <2>1. FilesTypeOK' /\ UpdateIsNoticed'
      BY <1>2, <1>t DEF FilesTypeOK, FilesInv, UpdateIsNoticed, Files, NoFile
    <2> QED
      BY <1>2, <2>1 DEF FilesInv
  <1>3. CASE \/ WantDownload \/ KeepLocal \/ DownloadFails \/ StampFails \/ LoadFromCache
             \/ StoreFails \/ LoadFails \/ StopProcess
    <2>1. process # 0 /\ process' = process /\ threshold' = threshold
      BY <1>3 DEF WantDownload, KeepLocal, DownloadFails, StampFails, LoadFromCache,
                  StoreFails, LoadFails, StopProcess, Proceed, FilesInv
    <2>2. /\ step' \in {"get", "load", "clean", "serve", "down"}
          /\ step' = "serve" => caches[threshold] # NoFile
      BY <1>3 DEF WantDownload, KeepLocal, DownloadFails, StampFails, LoadFromCache,
                  StoreFails, LoadFails, StopProcess, Proceed, Acceptable
    <2>3. UNCHANGED <<clock, remote, tsv, caches, fetched, raced>>
      BY <1>3 DEF WantDownload, KeepLocal, DownloadFails, StampFails, LoadFromCache,
                  StoreFails, LoadFails, StopProcess, Proceed
    <2> QED
      BY <1>2, <1>t, <2>1, <2>2, <2>3 DEF Steps
  <1>4. ASSUME NEW t \in Thresholds, StartProcess(t) PROVE FilesInv'
    <2>1. process' \in 0..Processes /\ process' # 0
      BY <1>4, <1>t DEF StartProcess
    <2> QED
      BY <1>2, <1>4, <2>1 DEF StartProcess, Steps
  <1>5. CASE DeleteTSV
    <2>1. FilesTypeOK' /\ UpdateIsNoticed'
      BY <1>5, <1>t DEF DeleteTSV, FilesTypeOK, UpdateIsNoticed, Files, NoFile
    <2> QED
      BY <1>5, <2>1 DEF DeleteTSV, FilesInv
  <1>6. CASE Get
    <2>1. FilesTypeOK' /\ UpdateIsNoticed'
      BY <1>6, <1>t DEF Get, Proceed, FilesInv, FilesTypeOK, UpdateIsNoticed, Files, NoFile,
                        Steps
    <2>2. fetched' <= remote.version
      BY <1>6, <1>t DEF Get
    <2> QED
      BY <1>6, <2>1, <2>2 DEF Get, Proceed, FilesInv
  <1>7. CASE Rename
    <2>1. /\ clock' = clock + 1 /\ clock' \in 1..MaxClock
          /\ tsv' = [version |-> fetched, mtime |-> clock + 1]
          /\ raced' = (raced \/ remote.version # fetched)
          /\ step' = "stamp"
          /\ UNCHANGED <<remote, caches, threshold, fetched, process>>
      BY <1>7, <1>t DEF Rename
    <2>2. Files \subseteq Files' /\ tsv' \in Files'
      BY <1>t, <2>1, FilesGrow DEF Files
    <2>3. FilesTypeOK'
      BY <1>t, <2>1, <2>2 DEF FilesTypeOK, Steps
    <2>4. UpdateIsNoticed'
      BY <2>1 DEF UpdateIsNoticed
    <2> QED
      BY <1>7, <2>1, <2>3, <2>4 DEF Rename, FilesInv
  <1>8. CASE Stamp
    <2>1. /\ tsv' = [version |-> tsv.version, mtime |-> remote.mtime]
          /\ raced' = (raced \/ remote.version # fetched)
          /\ tsv.version = fetched
      BY <1>8, <1>t DEF Stamp, Files, FilesInv
    <2>2. FilesTypeOK' /\ UpdateIsNoticed'
      BY <1>8, <1>t, <2>1 DEF Stamp, Proceed, FilesTypeOK, UpdateIsNoticed, Files, Steps
    <2> QED
      BY <1>8, <2>2 DEF Stamp, Proceed, FilesInv
  <1>9. CASE Clean
    <2>1. FilesTypeOK' /\ UpdateIsNoticed'
      BY <1>9, <1>t DEF Clean, Proceed, FilesInv, FilesTypeOK, UpdateIsNoticed, Files, NoFile,
                        Steps
    <2> QED
      BY <1>9, <2>1 DEF Clean, Proceed, FilesInv
  <1>10. CASE LoadFromTSV
    <2>1. FilesTypeOK' /\ UpdateIsNoticed'
      BY <1>10, <1>t DEF LoadFromTSV, Proceed, FilesInv, FilesTypeOK, UpdateIsNoticed, Files,
                         NoFile, Steps
    <2>2. caches'[threshold] # NoFile
      BY <1>10, <1>t DEF LoadFromTSV
    <2> QED
      BY <1>10, <2>1, <2>2 DEF LoadFromTSV, Proceed, FilesInv
  <1>11. CASE UNCHANGED fileVars
    BY <1>11 DEF fileVars, FilesInv, FilesTypeOK, UpdateIsNoticed, Files
  <1> QED
    BY <1>1, <1>3, <1>4, <1>5, <1>6, <1>7, <1>8, <1>9, <1>10, <1>11 DEF FilesNext
-----------------------------------------------------------------------------
(* Which contents a step stores: those there were, or one of a new time.   *)

\* No file is newer than the clock, now ...
LEMMA StoredTimes == FilesInv => \A f \in Stored : f.mtime \in 0..clock
  BY FilesAssumption DEF FilesInv, FilesTypeOK, Stored, Files, NoFile

\* ... and after a step.
LEMMA NextTimesBound == FilesInv' => \A f \in Stored' : f.mtime \in 0..clock'
  BY FilesAssumption DEF FilesInv, FilesTypeOK, Stored, Files, NoFile

\* A step stores what is there already, or one thing with a new time, unless a
\* download was overtaken.
LEMMA NextStored ==
    ASSUME FilesInv, [FilesNext]_fileVars, ~raced'
    PROVE  \/ Stored' \subseteq Stored
           \/ \E n : n.mtime = clock + 1 /\ Stored' \subseteq Stored \cup {n}
  <1>t. /\ tsv \in Files /\ remote \in Files /\ caches \in [Thresholds -> Files]
        /\ clock \in Nat /\ threshold \in Thresholds
    BY FilesAssumption DEF FilesInv, FilesTypeOK
  <1>1. ASSUME UNCHANGED <<tsv, remote, caches>> PROVE Stored' \subseteq Stored
    BY <1>1 DEF Stored
  <1>2. CASE Publish
    <2>1. Stored' \subseteq Stored \cup {remote'} /\ remote'.mtime = clock + 1
      BY <1>2 DEF Publish, Stored
    <2> QED
      BY <2>1
  <1>3. CASE Rename
    <2>1. Stored' \subseteq Stored \cup {tsv'} /\ tsv'.mtime = clock + 1
      BY <1>3 DEF Rename, Stored
    <2> QED
      BY <2>1
  <1>4. CASE Stamp
    <2>1. /\ tsv' = [version |-> tsv.version, mtime |-> remote.mtime]
          /\ remote.version = fetched /\ tsv.version = fetched
          /\ UNCHANGED <<remote, caches>>
      BY <1>4, <1>t DEF Stamp, Proceed, Files, FilesInv
    <2>2. tsv' = remote
      BY <1>t, <2>1 DEF Files
    <2> QED
      BY <2>1, <2>2 DEF Stored
  <1>5. CASE DeleteTSV
    BY <1>5 DEF DeleteTSV, Stored
  <1>6. CASE Clean
    <2>1. UNCHANGED <<tsv, remote>>
      BY <1>6 DEF Clean, Proceed
    <2>2. \A t \in Thresholds : caches'[t] \in {caches[t], NoFile}
      BY <1>6, <1>t DEF Clean
    <2> QED
      BY <2>1, <2>2 DEF Stored
  <1>7. CASE LoadFromTSV
    <2>1. UNCHANGED <<tsv, remote>>
      BY <1>7 DEF LoadFromTSV, Proceed
    <2>2. \A t \in Thresholds : caches'[t] \in {caches[t], tsv}
      BY <1>7, <1>t DEF LoadFromTSV
    <2> QED
      BY <2>1, <2>2 DEF Stored
  <1>8. CASE \/ (\E t \in Thresholds : StartProcess(t)) \/ StopProcess
             \/ WantDownload \/ KeepLocal \/ Get \/ DownloadFails \/ StampFails
             \/ LoadFromCache \/ StoreFails \/ LoadFails \/ UNCHANGED fileVars
    BY <1>1, <1>8 DEF StartProcess, StopProcess, WantDownload, KeepLocal, Get, DownloadFails,
                      StampFails, LoadFromCache, StoreFails, LoadFails, Proceed, fileVars
  <1> QED
    BY <1>2, <1>3, <1>4, <1>5, <1>6, <1>7, <1>8 DEF FilesNext

\* Adding one content with a new time keeps times and versions in step.
LEMMA OneVersionStays ==
    ASSUME NEW S, OneVersionPerTime(S), \A f \in S : f.mtime \in 0..clock, clock \in Nat,
           NEW T, \/ T \subseteq S
                  \/ \E n : n.mtime = clock + 1 /\ T \subseteq S \cup {n}
    PROVE  OneVersionPerTime(T)
  <1>1. CASE T \subseteq S
    BY <1>1 DEF OneVersionPerTime
  <1>2. CASE \E n : n.mtime = clock + 1 /\ T \subseteq S \cup {n}
    <2>1. PICK n : n.mtime = clock + 1 /\ T \subseteq S \cup {n}
      BY <1>2
    <2>2. \A f \in S : f.mtime # n.mtime
      BY <2>1
    <2> QED
      BY <2>1, <2>2 DEF OneVersionPerTime
  <1> QED
    BY <1>1, <1>2

\* A race is not forgotten.
LEMMA RacedStays == [FilesNext]_fileVars /\ raced => raced'
  BY DEF FilesNext, Publish, DeleteTSV, StopProcess, StartProcess, WantDownload, KeepLocal,
         Get, DownloadFails, Rename, Stamp, StampFails, Clean, LoadFromCache, LoadFromTSV,
         StoreFails, LoadFails, fileVars

\* Every step keeps one version per time.
LEMMA NextTimes == FilesInv /\ TimesInv /\ [FilesNext]_fileVars => TimesInv'
  <1> SUFFICES ASSUME FilesInv, TimesInv, [FilesNext]_fileVars, ~raced'
               PROVE  OneVersionPerTime(Stored')
    BY DEF TimesInv, OneVersionPerTime
  <1>1. OneVersionPerTime(Stored)
    BY RacedStays DEF TimesInv, FilesInv, FilesTypeOK
  <1>2. clock \in Nat
    BY FilesAssumption DEF FilesInv, FilesTypeOK
  <1> QED
    BY <1>1, <1>2, StoredTimes, NextStored, OneVersionStays

\* The coordinator's files keep both invariants.
LEMMA FilesHold == FilesSpec => [](FilesInv /\ TimesInv)
  BY InitFiles, NextFiles, NextTimes, PTL DEF FilesSpec
\* The coordinator's files keep their shapes through any crashes (download.go,
\* load.go).
THEOREM FilesTypeCorrect == FilesSpec => []FilesTypeOK
  <1>1. FilesInv => FilesTypeOK
    BY DEF FilesInv
  <1> QED
    BY <1>1, FilesHold, PTL

\* One version per time makes an accepted cache current.
LEMMA CurrentFromTimes == TimesInv => AcceptedCacheIsCurrent
  BY DEF TimesInv, OneVersionPerTime, Stored, AcceptedCacheIsCurrent, Acceptable

\* A cache that Load would accept is made from the list it stands beside, for
\* any number of thresholds, versions and crashes (Load, DecodeCache).
THEOREM CacheIsCurrent == FilesSpec => []AcceptedCacheIsCurrent
  BY CurrentFromTimes, FilesHold, PTL

\* An outdated list is noticed however the download that brought it ended
\* (EnsureTSV, downloadTSV).
THEOREM UpdatesNoticed == FilesSpec => []UpdateIsNoticed
  <1>1. FilesInv => UpdateIsNoticed
    BY DEF FilesInv
  <1> QED
    BY <1>1, FilesHold, PTL
-----------------------------------------------------------------------------
(* The lists only go forward.                                              *)

\* No file is ahead of the last answer of the server, and no cache is ahead of
\* a list it stands beside.
LagInv ==
    /\ tsv.version <= fetched
    /\ \A t \in Thresholds :
          /\ caches[t].version <= fetched
          /\ tsv # NoFile => caches[t].version <= tsv.version

\* A step never puts an older list in the place of a newer one.
ListsGoForward ==
    /\ tsv # NoFile /\ tsv' # NoFile => tsv.version <= tsv'.version
    /\ \A t \in Thresholds :
          caches'[t] # NoFile => caches[t].version <= caches'[t].version

\* Every step keeps the caches behind the list, and the list behind what was
\* fetched last.
LEMMA NextLag == FilesInv /\ LagInv /\ [FilesNext]_fileVars => LagInv' /\ ListsGoForward
  <1> SUFFICES ASSUME FilesInv, LagInv, [FilesNext]_fileVars PROVE LagInv' /\ ListsGoForward
    OBVIOUS
  <1>t. /\ remote.version \in Nat /\ tsv \in Files /\ tsv.version \in Nat /\ fetched \in Nat
        /\ caches \in [Thresholds -> Files] /\ threshold \in Thresholds
        /\ DefaultThreshold \in Thresholds
        /\ \A t \in Thresholds : caches[t].version \in Nat
        /\ NoFile.version = 0 /\ fetched <= remote.version
    BY FilesAssumption DEF FilesInv, FilesTypeOK, Files, NoFile
  <1>1. CASE UNCHANGED <<tsv, caches, fetched>>
    BY <1>1, <1>t DEF LagInv, ListsGoForward
  <1>2. CASE DeleteTSV
    BY <1>2, <1>t DEF DeleteTSV, LagInv, ListsGoForward
  <1>3. CASE Get
    BY <1>3, <1>t DEF Get, LagInv, ListsGoForward
  <1>4. CASE Rename
    <2>1. /\ tsv'.version = fetched
          /\ UNCHANGED <<caches, fetched>>
      BY <1>4 DEF Rename
    <2> QED
      BY <2>1, <1>t DEF LagInv, ListsGoForward
  <1>5. CASE Stamp
    <2>1. /\ tsv'.version = tsv.version
          /\ UNCHANGED <<caches, fetched>>
      BY <1>5, <1>t DEF Stamp, Files
    <2>2. step = "stamp" /\ tsv.version = fetched
      BY <1>5 DEF Stamp, FilesInv
    <2> QED
      BY <2>1, <2>2, <1>t DEF LagInv, ListsGoForward
  <1>6. CASE Clean
    <2>1. UNCHANGED <<tsv, fetched>> /\ \A t \in Thresholds : caches'[t] \in {caches[t], NoFile}
      BY <1>6, <1>t DEF Clean
    <2> QED
      BY <2>1, <1>t DEF LagInv, ListsGoForward
  <1>7. CASE LoadFromTSV
    <2>1. /\ UNCHANGED <<tsv, fetched>> /\ tsv # NoFile
          /\ \A t \in Thresholds : caches'[t] \in {caches[t], tsv}
      BY <1>7, <1>t DEF LoadFromTSV
    <2> QED
      BY <2>1, <1>t DEF LagInv, ListsGoForward
  <1>8. CASE \/ Publish \/ (\E t \in Thresholds : StartProcess(t)) \/ StopProcess
             \/ WantDownload \/ KeepLocal \/ DownloadFails \/ StampFails
             \/ LoadFromCache \/ StoreFails \/ LoadFails \/ UNCHANGED fileVars
    BY <1>1, <1>8 DEF Publish, StartProcess, StopProcess, WantDownload, KeepLocal,
                      DownloadFails, StampFails, LoadFromCache, StoreFails, LoadFails, Proceed,
                      fileVars
  <1> QED
    BY <1>2, <1>3, <1>4, <1>5, <1>6, <1>7, <1>8 DEF FilesNext

\* Whatever is published, deleted, fails or crashes, and whichever thresholds
\* the processes are started with, funded.tsv and each cache file are only ever
\* replaced by a list at least as new (downloadTSV, Load, RemoveDefaultCache).
THEOREM FilesGoForward == FilesSpec => [][ListsGoForward]_fileVars
  <1>1. FilesInit => LagInv
    BY DEF FilesInit, LagInv, NoFile
  <1>2. FilesSpec => []LagInv
    BY <1>1, NextLag, FilesHold, PTL DEF FilesSpec
  <1>3. FilesInv /\ LagInv /\ [FilesNext]_fileVars => [ListsGoForward]_fileVars
    BY NextLag
  <1> QED
    BY <1>2, <1>3, FilesHold, PTL DEF FilesSpec
-----------------------------------------------------------------------------
(* The workers: types, and what a session knows of its local file.         *)

LocalFiles == [version : Nat, etag : Nat \X Thresholds, for : Thresholds, whole : BOOLEAN]

StatusTypes == [etag : Nat \X Thresholds, process : Nat]

SyncTypes ==
    /\ place \in [Workers -> WorkerPlaces]
    /\ path \in [Workers -> Thresholds]
    /\ local \in [Workers -> [Thresholds -> LocalFiles]]
    /\ have \in [Workers -> Nat \X Thresholds]
    /\ status \in [Workers -> StatusTypes]
    /\ loaded \in [Workers -> [version : Nat, for : Thresholds]]

Using(w) == place[w] \in {"poll", "check", "search"}

SessionInv ==
    \A w \in Workers :
        /\ Using(w) \/ place[w] = "sync" => have[w] = local[w][path[w]].etag
        /\ Using(w) => /\ local[w][path[w]].whole
                       /\ loaded[w] = Content(local[w][path[w]])

SyncInv == SyncTypes /\ SessionInv

\* What is served is a file a worker can store.
LEMMA ServedType == FilesInv => Served \in LocalFiles
  BY FilesAssumption DEF FilesInv, FilesTypeOK, Files, Served, ETag, LocalFiles

\* So is a file that was cut off.
LEMMA CutOffType ==
    ASSUME NEW f \in LocalFiles PROVE [f EXCEPT !.whole = FALSE] \in LocalFiles
  BY DEF LocalFiles

\* A worker begins with blank files and no session.
LEMMA InitSync == Init => SyncInv
  <1> SUFFICES ASSUME Init PROVE SyncInv
    OBVIOUS
  <1>1. Blank \in LocalFiles /\ NoETag \in Nat \X Thresholds
    BY FilesAssumption DEF Blank, NoETag, LocalFiles
  <1>2. Content(Blank) \in [version : Nat, for : Thresholds]
    BY <1>1 DEF Content, LocalFiles
  <1>3. NoStatus \in StatusTypes
    BY <1>1 DEF NoStatus, StatusTypes
  <1> QED
    BY <1>1, <1>2, <1>3, FilesAssumption
    DEF Init, SyncInv, SyncTypes, SessionInv, Using, WorkerPlaces

\* A download leaves the file, its ETag and what is loaded in agreement.
LEMMA DownloadSync ==
    ASSUME FilesInv, SyncInv, NEW w \in Workers, NEW next \in WorkerPlaces,
           Using(w) \/ place[w] = "sync", Download(w, next)
    PROVE  /\ SyncInv'
           /\ local'[w][path[w]].etag = Served.etag
           /\ local' \in {local, [local EXCEPT ![w][path[w]] = Served]}
  <1>t. /\ path[w] \in Thresholds /\ local[w] \in [Thresholds -> LocalFiles]
        /\ local \in [Workers -> [Thresholds -> LocalFiles]]
        /\ Served \in LocalFiles
    BY ServedType DEF SyncInv, SyncTypes
  <1>1. local' \in {local, [local EXCEPT ![w][path[w]] = Served]}
    BY <1>t DEF Download, Fetched
  <1>2. local'[w] = Fetched(w) /\ local' \in [Workers -> [Thresholds -> LocalFiles]]
    BY <1>t DEF Download, Fetched
  <1>3. local'[w][path[w]].etag = Served.etag /\ local'[w][path[w]].whole
    BY <1>t, <1>2 DEF Download, Fetched, SyncInv, SessionInv
  <1>4. local'[w][path[w]] \in LocalFiles
    BY <1>t, <1>2
  <1>5. Content(local'[w][path[w]]) \in [version : Nat, for : Thresholds]
    BY <1>4 DEF Content, LocalFiles
  <1>6. Served.etag \in Nat \X Thresholds
    BY <1>t DEF LocalFiles
  <1>7. SyncTypes'
    BY <1>2, <1>5, <1>6 DEF Download, SyncInv, SyncTypes
  <1>8. SessionInv'
    BY <1>2, <1>3 DEF Download, SyncInv, SyncTypes, SessionInv, Using
  <1> QED
    BY <1>1, <1>3, <1>7, <1>8 DEF SyncInv
\* The steps of a worker that leave its files as they are.
QuietStep(w) ==
    \/ Register(w) \/ LocalLoadFails(w) \/ ReadStatus(w) \/ Search(w) \/ EndSearch(w)
    \/ NewSession(w)

\* Every step keeps the sessions in agreement with their files.
LEMMA NextSync ==
    FilesInv /\ SyncInv /\ [Next]_vars => SyncInv'
  <1> SUFFICES ASSUME FilesInv, SyncInv, [Next]_vars PROVE SyncInv'
    OBVIOUS
  <1>t. SyncTypes /\ SessionInv /\ threshold \in Thresholds /\ process \in Nat
    BY FilesAssumption DEF SyncInv, FilesInv, FilesTypeOK
  <1>n. NoStatus \in StatusTypes
    BY FilesAssumption DEF NoStatus, NoETag, StatusTypes
  <1>1. ASSUME UNCHANGED workerVars PROVE SyncInv'
    BY <1>t, <1>1 DEF workerVars, SyncInv, SyncTypes, SessionInv, Using, Content
  <1>2. ASSUME NEW w \in Workers, QuietStep(w) PROVE SyncInv'
    <2>1. CASE Register(w)
      <3>1. local[w][threshold].etag \in Nat \X Thresholds
        BY <1>t DEF SyncTypes, LocalFiles
      <3> QED
        BY <1>t, <2>1, <3>1
        DEF Register, SyncInv, SyncTypes, SessionInv, Using, WorkerPlaces, Content
    <2>2. CASE LocalLoadFails(w) \/ NewSession(w)
      <3>1. SyncTypes'
        <4>1. /\ place' = [place EXCEPT ![w] = "register"]
              /\ status' = [status EXCEPT ![w] = NoStatus]
              /\ UNCHANGED <<path, local, have, loaded>>
          BY <2>2 DEF LocalLoadFails, NewSession
        <4>2. place' \in [Workers -> WorkerPlaces]
          BY <1>t, <4>1 DEF SyncTypes, WorkerPlaces
        <4>3. status' \in [Workers -> StatusTypes]
          BY <1>t, <1>n, <4>1 DEF SyncTypes
        <4> QED
          BY <1>t, <4>1, <4>2, <4>3 DEF SyncTypes
      <3>2. SessionInv'
        BY <1>t, <2>2 DEF LocalLoadFails, NewSession, SyncTypes, SessionInv, Using, Content
      <3> QED
        BY <3>1, <3>2 DEF SyncInv
    <2>3. CASE ReadStatus(w)
      <3>1. [etag |-> Served.etag, process |-> process] \in StatusTypes
        BY <1>t, ServedType DEF LocalFiles, StatusTypes
      <3> QED
        BY <1>t, <2>3, <3>1 DEF ReadStatus, SyncInv, SyncTypes, SessionInv, Using,
                                WorkerPlaces, Content
    <2>4. CASE Search(w) \/ EndSearch(w)
      BY <1>t, <2>4 DEF Search, EndSearch, SyncInv, SyncTypes, SessionInv, Using,
                        WorkerPlaces, Content
    <2> QED
      BY <1>2, <2>1, <2>2, <2>3, <2>4 DEF QuietStep
  <1>3. ASSUME NEW w \in Workers, Sync(w) \/ Resync(w) PROVE SyncInv'
    BY <1>3, DownloadSync DEF Sync, Resync, Using, WorkerPlaces
  <1>4. ASSUME NEW w \in Workers, PowerFailure(w) PROVE SyncInv'
    <2>0. PICK t \in Thresholds :
             \E damaged \in {[local[w][t] EXCEPT !.whole = FALSE], Blank} :
                local' = [local EXCEPT ![w] = [@ EXCEPT ![t] = damaged]]
      BY <1>4 DEF PowerFailure
    <2>1. PICK damaged \in {[local[w][t] EXCEPT !.whole = FALSE], Blank} :
             local' = [local EXCEPT ![w] = [@ EXCEPT ![t] = damaged]]
      BY <2>0
    <2>2. Blank \in LocalFiles
      BY FilesAssumption DEF Blank, NoETag, LocalFiles
    <2>3. [local[w][t] EXCEPT !.whole = FALSE] \in LocalFiles
      BY <1>t, CutOffType DEF SyncTypes
    <2>4. local' \in [Workers -> [Thresholds -> LocalFiles]]
      BY <1>t, <2>1, <2>2, <2>3 DEF SyncTypes
    <2>5. \A v \in Workers : v # w => local'[v] = local[v]
      BY <1>t, <2>1 DEF SyncTypes
    <2>6. SyncTypes'
      BY <1>t, <1>n, <1>4, <2>4 DEF PowerFailure, SyncTypes, WorkerPlaces
    <2>7. SessionInv'
      BY <1>t, <1>4, <2>5 DEF PowerFailure, SyncTypes, SessionInv, Using, Content
    <2> QED
      BY <2>6, <2>7 DEF SyncInv
  <1> QED
    BY <1>1, <1>2, <1>3, <1>4 DEF Next, QuietStep, vars

\* A step of the composition is a step of the coordinator's files or none.
LEMMA FilesOfSync == [Next]_vars => [FilesNext]_fileVars
  BY DEF Next, Register, Sync, ReadStatus, Search, Resync, EndSearch, NewSession,
         LocalLoadFails, PowerFailure, Download, vars

\* The workers do not disturb the coordinator's files: what is proved of
\* FundedFiles holds beside any number of them (handleCache only reads).
THEOREM FilesUnderWorkers == Spec => FilesSpec
  <1>1. Init => FilesInit
    BY DEF Init
  <1> QED
    BY <1>1, FilesOfSync, PTL DEF Spec, FilesSpec

\* Files and sessions keep their invariants together.
LEMMA SyncHolds == Spec => [](FilesInv /\ TimesInv /\ SyncInv)
  <1>1. Init => FilesInv /\ TimesInv /\ SyncInv
    BY InitFiles, InitSync DEF Init
  <1>2. FilesInv /\ TimesInv /\ SyncInv /\ [Next]_vars => (FilesInv /\ TimesInv /\ SyncInv)'
    BY FilesOfSync, NextFiles, NextTimes, NextSync
  <1> QED
    BY <1>1, <1>2, PTL DEF Spec

\* A 304 keeps the file that the believed ETag names, for any number of
\* workers and thresholds (DownloadCache, CacheETag).
THEOREM BelievedIsLocal == Spec => []BelievedCacheIsLocal
  <1>1. SyncInv => BelievedCacheIsLocal
    BY DEF SyncInv, SessionInv, Using, BelievedCacheIsLocal
  <1> QED
    BY <1>1, SyncHolds, PTL

\* A file that was cut off is never searched with (LoadFromCacheFile).
THEOREM DamagedIsNotSearched == Spec => []DamagedCacheIsNotSearched
  <1>1. SyncInv => DamagedCacheIsNotSearched
    BY DEF SyncInv, SessionInv, Using, DamagedCacheIsNotSearched
  <1> QED
    BY <1>1, SyncHolds, PTL
-----------------------------------------------------------------------------
(* The copies in the workers' directories.  What a header says of a copy is *)
(* true, and its time stands for the same version as everywhere else.       *)

Copy(w, t) == [version |-> local[w][t].version, mtime |-> local[w][t].etag[1]]

AllStored == Stored \cup {Copy(w, t) : w \in Workers, t \in Thresholds}

CopiesInv ==
    /\ \A f \in AllStored : f.mtime \in 0..clock
    /\ \A w \in Workers, t \in Thresholds : local[w][t].for = local[w][t].etag[2]
    /\ ~raced => OneVersionPerTime(AllStored)

\* Blank copies tell nothing false.
LEMMA InitCopies == Init => CopiesInv
  <1> SUFFICES ASSUME Init PROVE CopiesInv
    OBVIOUS
  <1>1. FilesInv /\ TimesInv
    BY InitFiles DEF Init
  <1>2. \A w \in Workers, t \in Thresholds : local[w][t] = Blank
    BY DEF Init
  <1>3. \A w \in Workers, t \in Thresholds : Copy(w, t) = NoFile
    BY <1>2 DEF Copy, Blank, NoETag, NoFile
  <1>4. AllStored = Stored
    BY <1>3 DEF AllStored, Stored
  <1>5. \A w \in Workers, t \in Thresholds : local[w][t].for = local[w][t].etag[2]
    BY <1>2 DEF Blank, NoETag
  <1> QED
    BY <1>1, <1>4, <1>5, StoredTimes DEF CopiesInv, TimesInv

\* A step of a worker keeps to the contents that are there.
LEMMA CopiesKept ==
    ASSUME CopiesInv, UNCHANGED fileVars,
           \A w \in Workers, t \in Thresholds :
              /\ Copy(w, t)' \in AllStored
              /\ local'[w][t].for = local'[w][t].etag[2]
    PROVE  CopiesInv'
  <1>1. Stored' = Stored
    BY DEF fileVars, Stored
  <1>2. AllStored' \subseteq AllStored
    BY <1>1 DEF AllStored
  <1> QED
    BY <1>2 DEF CopiesInv, OneVersionPerTime, fileVars

\* Steps that touch no file keep the copies.
LEMMA CopiesUntouched ==
    ASSUME CopiesInv, UNCHANGED <<fileVars, local>>
    PROVE  CopiesInv'
  <1>1. \A w \in Workers, t \in Thresholds : Copy(w, t)' \in AllStored
    BY DEF Copy, AllStored
  <1> QED
    BY <1>1, CopiesKept DEF CopiesInv

\* What is served is one of the coordinator's files.
LEMMA ServedCopy ==
    FilesInv => [version |-> Served.version, mtime |-> Served.etag[1]] \in Stored
  <1> SUFFICES ASSUME FilesInv
               PROVE  [version |-> Served.version, mtime |-> Served.etag[1]] \in Stored
    OBVIOUS
  <1>1. caches[threshold] \in Files /\ threshold \in Thresholds
    BY DEF FilesInv, FilesTypeOK
  <1>2. caches[threshold]
          = [version |-> caches[threshold].version, mtime |-> caches[threshold].mtime]
    BY <1>1 DEF Files
  <1> QED
    BY <1>1, <1>2 DEF Served, ETag, Stored

\* Every step keeps the copies true to their headers.
LEMMA NextCopies ==
    FilesInv /\ SyncInv /\ CopiesInv /\ [Next]_vars => CopiesInv'
  <1> SUFFICES ASSUME FilesInv, SyncInv, CopiesInv, [Next]_vars PROVE CopiesInv'
    OBVIOUS
  <1>t. local \in [Workers -> [Thresholds -> LocalFiles]] /\ clock \in Nat
    BY FilesAssumption DEF SyncInv, SyncTypes, FilesInv, FilesTypeOK
  <1>1. CASE FilesNext /\ UNCHANGED workerVars
    <2>1. Stored' \subseteq AllStored' /\ clock' \in Nat /\ clock' >= clock
      BY <1>1, <1>t
      DEF AllStored, FilesNext, Publish, DeleteTSV, StopProcess, StartProcess, WantDownload,
          KeepLocal, Get, DownloadFails, Rename, Stamp, StampFails, Clean, LoadFromCache,
          LoadFromTSV, StoreFails, LoadFails, Proceed
    <2>2. \A w \in Workers, t \in Thresholds : Copy(w, t)' = Copy(w, t)
      BY <1>1 DEF workerVars, Copy
    <2>3. \A f \in Stored' : f.mtime \in 0..clock'
      BY <1>1, NextFiles, NextTimesBound
    <2>4. \A f \in AllStored' : f.mtime \in 0..clock'
      BY <1>t, <2>1, <2>2, <2>3 DEF AllStored, CopiesInv
    <2>5. ASSUME ~raced' PROVE OneVersionPerTime(AllStored')
      <3>1. OneVersionPerTime(AllStored)
        BY <1>1, <2>5, RacedStays DEF CopiesInv, FilesInv, FilesTypeOK
      <3>2. \/ Stored' \subseteq Stored
            \/ \E n : n.mtime = clock + 1 /\ Stored' \subseteq Stored \cup {n}
        BY <1>1, <2>5, NextStored
      <3>3. \/ AllStored' \subseteq AllStored
            \/ \E n : n.mtime = clock + 1 /\ AllStored' \subseteq AllStored \cup {n}
        BY <2>2, <3>2 DEF AllStored
      <3> QED
        BY <1>t, <3>1, <3>3, OneVersionStays DEF CopiesInv
    <2> QED
      BY <1>1, <2>4, <2>5 DEF CopiesInv, workerVars, OneVersionPerTime
  <1>2. ASSUME NEW w \in Workers, QuietStep(w) PROVE CopiesInv'
    BY <1>2, CopiesUntouched DEF QuietStep, Register, LocalLoadFails, ReadStatus, Search,
                                 EndSearch, NewSession
  <1>3. ASSUME NEW w \in Workers, Sync(w) \/ Resync(w) PROVE CopiesInv'
    <2>1. local' \in {local, [local EXCEPT ![w][path[w]] = Served]} /\ UNCHANGED fileVars
      BY <1>3, DownloadSync DEF Sync, Resync, Using, WorkerPlaces, Download
    <2>2. path[w] \in Thresholds
      BY DEF SyncInv, SyncTypes
    <2>3. \A v \in Workers, t \in Thresholds : local'[v][t] \in {local[v][t], Served}
      BY <1>t, <2>1, <2>2
    <2>4. Served.for = Served.etag[2]
      BY DEF Served, ETag
    <2>5. \A v \in Workers, t \in Thresholds :
             /\ Copy(v, t)' \in AllStored
             /\ local'[v][t].for = local'[v][t].etag[2]
      BY <2>3, <2>4, ServedCopy DEF Copy, AllStored, CopiesInv
    <2> QED
      BY <2>1, <2>5, CopiesKept
  <1>4. ASSUME NEW w \in Workers, PowerFailure(w) PROVE CopiesInv'
    <2>0. PICK t \in Thresholds :
             \E damaged \in {[local[w][t] EXCEPT !.whole = FALSE], Blank} :
                local' = [local EXCEPT ![w] = [@ EXCEPT ![t] = damaged]]
      BY <1>4 DEF PowerFailure
    <2>1. PICK damaged \in {[local[w][t] EXCEPT !.whole = FALSE], Blank} :
             local' = [local EXCEPT ![w] = [@ EXCEPT ![t] = damaged]]
      BY <2>0
    <2>2. /\ damaged.for = damaged.etag[2]
          /\ [version |-> damaged.version, mtime |-> damaged.etag[1]] \in AllStored
      <3>1. CASE damaged = Blank
        BY <3>1 DEF Blank, NoETag, AllStored, Stored, NoFile
      <3>2. CASE damaged = [local[w][t] EXCEPT !.whole = FALSE]
        <4>1. /\ damaged.version = local[w][t].version /\ damaged.etag = local[w][t].etag
              /\ damaged.for = local[w][t].for
          BY <1>t, <3>2 DEF LocalFiles
        <4> QED
          BY <4>1 DEF CopiesInv, AllStored, Copy
      <3> QED
        BY <3>1, <3>2
    <2>3. \A v \in Workers, s \in Thresholds : local'[v][s] \in {local[v][s], damaged}
      BY <1>t, <2>1
    <2>4. \A v \in Workers, s \in Thresholds :
             /\ Copy(v, s)' \in AllStored
             /\ local'[v][s].for = local'[v][s].etag[2]
      BY <2>2, <2>3 DEF Copy, AllStored, CopiesInv
    <2> QED
      BY <1>4, <2>4, CopiesKept DEF PowerFailure
  <1>5. CASE UNCHANGED vars
    BY <1>5, CopiesUntouched DEF vars, workerVars
  <1> QED
    BY <1>1, <1>2, <1>3, <1>4, <1>5 DEF Next, QuietStep
-----------------------------------------------------------------------------
(* The run: a process serves one cache, and a status tells its ETag.       *)

Follows(w) ==
    /\ status[w].process <= process
    /\ status[w].process = process => step \in {"serve", "down"}
    /\ status[w].process = process /\ Serving
         => /\ status[w].etag = Served.etag
            /\ place[w] = "search" => have[w] = Served.etag

RunInv == \A w \in Workers : Follows(w)

\* Without a status there is no run to follow.
LEMMA InitRun == Init => RunInv
  BY DEF Init, FilesInit, RunInv, Follows, NoStatus, Serving

\* While a process lives on it does not leave its cache for another one.
LEMMA ServingStays ==
    ASSUME FilesInv, [FilesNext]_fileVars
    PROVE  \/ process' = process + 1 /\ step' # "serve"
           \/ /\ process' = process
              /\ step \in {"serve", "down"} => step' \in {"serve", "down"}
              /\ step \in {"serve", "down"} /\ step' = "serve"
                   => step = "serve" /\ UNCHANGED <<threshold, caches>>
  BY DEF FilesNext, Publish, DeleteTSV, StopProcess, StartProcess, WantDownload, KeepLocal,
         Get, DownloadFails, Rename, Stamp, StampFails, Clean, LoadFromCache, LoadFromTSV,
         StoreFails, LoadFails, Proceed, fileVars

\* A step of the coordinator keeps what a status of its process says.
LEMMA FollowsUntouched ==
    ASSUME FilesInv, SyncInv, [FilesNext]_fileVars, NEW w \in Workers, Follows(w),
           UNCHANGED <<status[w], have[w]>>, place'[w] = place[w] \/ place'[w] # "search"
    PROVE  Follows(w)'
  <1>1. status[w].process \in Nat /\ process \in Nat
    BY FilesAssumption DEF SyncInv, SyncTypes, StatusTypes, FilesInv, FilesTypeOK
  <1>2. CASE process' = process + 1 /\ step' # "serve"
    BY <1>1, <1>2 DEF Follows, Serving
  <1>3. CASE /\ process' = process
             /\ step \in {"serve", "down"} => step' \in {"serve", "down"}
             /\ step \in {"serve", "down"} /\ step' = "serve"
                  => step = "serve" /\ UNCHANGED <<threshold, caches>>
    BY <1>1, <1>3 DEF Follows, Serving, Served
  <1> QED
    BY <1>2, <1>3, ServingStays

\* A worker without a status asserts nothing.
LEMMA FollowsNothing ==
    ASSUME FilesInv, NEW w \in Workers, UNCHANGED fileVars, status'[w] = NoStatus
    PROVE  Follows(w)'
  <1>1. process \in Nat /\ (process = 0 => step = "down")
    BY FilesAssumption DEF FilesInv, FilesTypeOK
  <1> QED
    BY <1>1 DEF Follows, NoStatus, Serving, fileVars

\* Every step keeps the statuses true of the process they are from.
LEMMA NextRun == FilesInv /\ SyncInv /\ RunInv /\ [Next]_vars => RunInv'
  <1> SUFFICES ASSUME FilesInv, SyncInv, RunInv, [Next]_vars, NEW v \in Workers
               PROVE  Follows(v)'
    BY DEF RunInv
  <1>t. /\ place \in [Workers -> WorkerPlaces] /\ status \in [Workers -> StatusTypes]
        /\ have \in [Workers -> Nat \X Thresholds] /\ Follows(v)
    BY DEF SyncInv, SyncTypes, RunInv
  <1>f. [FilesNext]_fileVars
    BY FilesOfSync
  <1>1. ASSUME UNCHANGED workerVars PROVE Follows(v)'
    BY <1>1, <1>f, <1>t, FollowsUntouched DEF workerVars
  <1>2. ASSUME NEW w \in Workers,
               \/ QuietStep(w) \/ Sync(w) \/ Resync(w) \/ PowerFailure(w)
        PROVE  Follows(v)'
    <2>0. UNCHANGED fileVars
      BY <1>2 DEF QuietStep, Register, Sync, ReadStatus, Search, Resync, EndSearch,
                  NewSession, LocalLoadFails, PowerFailure, Download
    <2>1. CASE w # v
      <3>1. UNCHANGED <<status[v], have[v], place[v]>>
        BY <1>2, <1>t, <2>1
        DEF QuietStep, Register, Sync, ReadStatus, Search, Resync, EndSearch, NewSession,
            LocalLoadFails, PowerFailure, Download
      <3> QED
        BY <1>f, <1>t, <3>1, FollowsUntouched
    <2>2. CASE w = v /\ (LocalLoadFails(v) \/ NewSession(v) \/ PowerFailure(v))
      <3>1. status'[v] = NoStatus
        BY <1>t, <2>2 DEF LocalLoadFails, NewSession, PowerFailure
      <3> QED
        BY <2>0, <3>1, FollowsNothing
    <2>3. CASE w = v /\ EndSearch(v)
      BY <1>f, <1>t, <2>3, FollowsUntouched DEF EndSearch
    <2>4. CASE w = v /\ (Register(v) \/ Sync(v))
      <3>1. place'[v] # "search" /\ status' = status
        BY <1>t, <2>4 DEF Register, Sync, Download
      <3> QED
        BY <1>t, <2>0, <3>1 DEF Follows, Serving, Served, fileVars
    <2>5. CASE w = v /\ ReadStatus(v)
      <3>1. /\ status'[v] = [etag |-> Served.etag, process |-> process]
            /\ place'[v] # "search" /\ step = "serve"
        BY <1>t, <2>5 DEF ReadStatus, Serving
      <3>2. status'[v].etag = Served.etag /\ status'[v].process = process
        BY <3>1
      <3>3. process \in Nat
        BY FilesAssumption DEF FilesInv, FilesTypeOK
      <3> QED
        BY <2>0, <3>1, <3>2, <3>3 DEF Follows, Serving, Served, fileVars
    <2>6. CASE w = v /\ Search(v)
      BY <1>t, <2>0, <2>6 DEF Search, Follows, Serving, Served, fileVars
    <2>7. CASE w = v /\ Resync(v)
      <3>1. have'[v] = Served.etag /\ status' = status
        BY <1>t, <2>7 DEF Resync, Download
      <3> QED
        BY <1>t, <2>0, <3>1 DEF Follows, Serving, Served, fileVars
    <2> QED
      BY <1>2, <2>1, <2>2, <2>3, <2>4, <2>5, <2>6, <2>7 DEF QuietStep
  <1> QED
    BY <1>1, <1>2 DEF Next, QuietStep, vars

\* The copies and the run keep their relations for any number of workers.
LEMMA CopiesHold == Spec => [](CopiesInv /\ RunInv)
  <1>1. Init => CopiesInv /\ RunInv
    BY InitCopies, InitRun
  <1>2. /\ FilesInv /\ TimesInv /\ SyncInv /\ CopiesInv /\ RunInv /\ [Next]_vars
          => (CopiesInv /\ RunInv)'
    BY NextCopies, NextRun
  <1> QED
    BY <1>1, <1>2, SyncHolds, PTL DEF Spec

\* A copy with the ETag that is served has the content that is served.
LEMMA SameETagSameContent ==
    ASSUME FilesInv, CopiesInv, ~raced, NEW w \in Workers, NEW t \in Thresholds,
           local[w][t].etag = Served.etag
    PROVE  Content(local[w][t]) = Content(Served)
  <1>1. local[w][t].for = Served.for
    BY DEF CopiesInv, Served, ETag
  <1>2. Copy(w, t) \in AllStored /\ Copy(w, t).mtime = Served.etag[1]
    BY DEF Copy, AllStored
  <1>3. [version |-> Served.version, mtime |-> Served.etag[1]] \in AllStored
    BY ServedCopy DEF AllStored
  <1>4. Copy(w, t).version = Served.version
    BY <1>2, <1>3 DEF CopiesInv, OneVersionPerTime
  <1> QED
    BY <1>1, <1>4 DEF Content, Copy

\* A 304 is true for any number of workers, thresholds and lists: equal ETags
\* mean equal lists and thresholds (handleCache, DownloadCache).
THEOREM NotModifiedHolds == Spec => []NotModifiedIsTrue
  <1>1. FilesInv /\ SyncInv /\ CopiesInv => NotModifiedIsTrue
    <2> SUFFICES ASSUME FilesInv, SyncInv, CopiesInv, NEW w \in Workers,
                        place[w] \in {"sync", "check"}, ~raced, have[w] = Served.etag
                 PROVE  Content(local[w][path[w]]) = Content(Served)
      BY DEF NotModifiedIsTrue
    <2>1. path[w] \in Thresholds /\ local[w][path[w]].etag = Served.etag
      BY DEF SyncInv, SyncTypes, SessionInv, Using
    <2> QED
      BY <2>1, SameETagSameContent
  <1> QED
    BY <1>1, SyncHolds, CopiesHold, PTL

\* A worker that searches for a run uses the list and the threshold of that
\* run's coordinator, for any number of workers, thresholds, versions of the
\* list and restarts (runSession, handleCache, DownloadCache).
THEOREM SearchesServedCache == Spec => []SearchUsesServedCache
  <1>1. FilesInv /\ SyncInv /\ CopiesInv /\ RunInv => SearchUsesServedCache
    <2> SUFFICES ASSUME FilesInv, SyncInv, CopiesInv, RunInv, NEW w \in Workers,
                        place[w] = "search", Serving, ~raced, status[w].process = process
                 PROVE  loaded[w] = Content(Served)
      BY DEF SearchUsesServedCache
    <2> DEFINE f == local[w][path[w]]
    <2>1. f.etag = Served.etag /\ loaded[w] = Content(f) /\ path[w] \in Thresholds
      BY DEF SyncInv, SyncTypes, SessionInv, Using, RunInv, Follows
    <2> QED
      BY <2>1, SameETagSameContent
  <1> QED
    BY <1>1, SyncHolds, CopiesHold, PTL
=============================================================================

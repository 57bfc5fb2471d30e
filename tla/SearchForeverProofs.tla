------------------------ MODULE SearchForeverProofs ------------------------
(***************************************************************************)
(* Proofs about SearchForever, for any batch size, configurations and      *)
(* number of searches.                                                     *)
(***************************************************************************)
EXTENDS SearchForever, TLAPS

\* Within a run the last index handed out is the number of keys counted.
IndexInv == pc # "idle" => lastIndex = session.keys + processed

\* What the counts rest on: no save takes counts back, or lost would shrink.
IInv == TypeOK /\ FileTrailsMemory /\ KeysAndHitsAccounted /\ IndexInv

\* What writeSession can leave behind keeps the books straight.
LEMMA SaveAccounts ==
    ASSUME IInv, pc # "idle", Save
    PROVE  /\ disk' \in Count
           /\ lost' \in Count
           /\ tried = disk'.keys + lost'.keys
           /\ found = disk'.hits + lost'.hits
  <1>1. /\ session \in Count /\ disk \in Count /\ lost \in Count
        /\ processed \in Nat /\ hits \in Nat
    BY DEF IInv, TypeOK
  <1>2. Updated \in Count /\ Updated.hits = hits
    BY <1>1 DEF Updated, Count
  <1>0. CASE ~cfg.forever /\ UNCHANGED <<disk, lost>>
    BY <1>0, <1>1 DEF IInv, KeysAndHitsAccounted, Total
  <1>3. cfg.forever => /\ tried = Updated.keys + lost.keys /\ found = Updated.hits + lost.hits
                       /\ disk.keys <= Updated.keys /\ disk.hits <= Updated.hits
    BY DEF IInv, KeysAndHitsAccounted, Total, FileTrailsMemory
  <1>4. CASE cfg.forever /\ disk' = Updated /\ UNCHANGED lost
    BY <1>1, <1>2, <1>3, <1>4
  <1>5. CASE /\ cfg.forever
             /\ UNCHANGED disk
             /\ lost' = [keys |-> lost.keys + Updated.keys - disk.keys,
                         hits |-> lost.hits + Updated.hits - disk.hits]
    BY <1>1, <1>2, <1>3, <1>5 DEF Count
  <1> QED BY <1>0, <1>4, <1>5 DEF Save

\* A way out that saves keeps the invariant.
LEMMA ReturnKeeps ==
    ASSUME IInv, pc # "idle", Return, Save, lastIndex' \in Nat,
           UNCHANGED <<session, processed, runProcessed, hits, runs, tried, found>>
    PROVE  IInv'
  <1>1. pc' = "idle" /\ left' = 0 /\ channel' = 0 /\ ctxDone' = ctxDone /\ cfg' = cfg
    BY DEF Return
  <1>2. TypeOK'
    BY <1>1, SaveAccounts, SearchAssumption DEF IInv, TypeOK, Places
  <1>3. KeysAndHitsAccounted'
    BY <1>1, SaveAccounts DEF KeysAndHitsAccounted, Total
  <1>4. FileTrailsMemory' /\ IndexInv'
    BY <1>1 DEF FileTrailsMemory, IndexInv
  <1> QED BY <1>2, <1>3, <1>4 DEF IInv

\* At first nothing is tried and nothing is stored.
LEMMA InitIInv == Init => IInv
  <1> SUFFICES ASSUME Init PROVE IInv
    OBVIOUS
  <1>1. Zero \in Count /\ Zero.keys = 0 /\ Zero.hits = 0
    BY DEF Zero, Count
  <1>2. 0 \in 0..ChannelCap /\ 0 \in 0..BatchSize
    BY SearchAssumption
  <1>3. TypeOK
    BY <1>1, <1>2 DEF Init, TypeOK, Places
  <1>4. KeysAndHitsAccounted
    BY <1>1 DEF Init, KeysAndHitsAccounted, Total
  <1>5. FileTrailsMemory /\ IndexInv
    BY DEF Init, FileTrailsMemory, IndexInv
  <1> QED BY <1>3, <1>4, <1>5 DEF IInv

\* A step of the loop that keeps file, session and totals keeps the invariant.
LEMMA LoopKeeps ==
    ASSUME IInv, pc # "idle", UNCHANGED counters,
           pc' \in Places \ {"idle"}, ctxDone' \in BOOLEAN,
           channel' \in 0..ChannelCap, left' \in 0..BatchSize
    PROVE  IInv'
  <1>1. Updated' = Updated
    BY DEF Updated, counters
  <1>2. TypeOK'
    BY DEF IInv, TypeOK, counters
  <1>3. KeysAndHitsAccounted' /\ FileTrailsMemory' /\ IndexInv'
    BY <1>1 DEF IInv, KeysAndHitsAccounted, FileTrailsMemory, IndexInv, Total, counters
  <1> QED BY <1>2, <1>3 DEF IInv

\* A counted wallet, a hit or not, is counted in memory at once.
LEMMA TryKeeps ==
    ASSUME IInv, Try, Counted,
           \/ UNCHANGED <<hits, found>>
           \/ hits' = hits + 1 /\ found' = IF cfg.forever THEN found + 1 ELSE found
    PROVE  IInv'
  <1>1. /\ pc = "batch" /\ pc' = "batch" /\ left > 0 /\ left' = left - 1
        /\ processed' = processed + 1 /\ runProcessed' = runProcessed + 1
        /\ tried' = IF cfg.forever THEN tried + 1 ELSE tried
        /\ lastIndex' = session.keys + processed + 1
        /\ UNCHANGED <<cfg, ctxDone, channel, session, disk, runs, lost>>
    BY DEF Try, Counted
  <1>2. /\ session \in Count /\ disk \in Count /\ lost \in Count /\ left \in 0..BatchSize
        /\ processed \in Nat /\ runProcessed \in Nat /\ hits \in Nat /\ tried \in Nat
        /\ found \in Nat /\ session.keys \in Nat /\ disk.keys \in Nat /\ disk.hits \in Nat
        /\ lost.keys \in Nat /\ lost.hits \in Nat
    BY DEF IInv, TypeOK, Count
  <1>3. /\ lastIndex' \in Nat /\ processed' \in Nat /\ runProcessed' \in Nat
        /\ hits' \in Nat /\ tried' \in Nat /\ found' \in Nat /\ left' \in 0..BatchSize
    BY <1>1, <1>2, SearchAssumption
  <1>4. TypeOK'
    BY <1>1, <1>3 DEF IInv, TypeOK, Places
  <1>5. /\ Updated.keys = session.keys + processed /\ Updated.hits = hits
        /\ Updated'.keys = session.keys + processed + 1 /\ Updated'.hits = hits'
    BY <1>1, <1>2 DEF Updated
  <1>6. cfg.forever => /\ tried = Updated.keys + lost.keys /\ found = Updated.hits + lost.hits
                       /\ disk.keys <= Updated.keys /\ disk.hits <= Updated.hits
    BY <1>1 DEF IInv, KeysAndHitsAccounted, Total, FileTrailsMemory
  <1>7. IndexInv'
    BY <1>1, <1>2 DEF IndexInv
  <1>8. CASE ~cfg.forever
    <2>1. tried' = tried /\ found' = found /\ Total' = disk /\ Total = disk
      BY <1>1, <1>8 DEF Total
    <2>2. KeysAndHitsAccounted' /\ FileTrailsMemory'
      BY <1>1, <1>8, <2>1 DEF IInv, KeysAndHitsAccounted, FileTrailsMemory
    <2> QED BY <1>4, <1>7, <2>2 DEF IInv
  <1>9. CASE cfg.forever
    <2>1. tried' = Updated'.keys + lost'.keys
      BY <1>1, <1>2, <1>5, <1>6, <1>9
    <2>2. found' = Updated'.hits + lost'.hits
      BY <1>1, <1>2, <1>5, <1>6, <1>9
    <2>3. Total' = Updated'
      BY <1>1, <1>9 DEF Total
    <2>4. KeysAndHitsAccounted'
      BY <2>1, <2>2, <2>3 DEF KeysAndHitsAccounted
    <2>5. FileTrailsMemory'
      BY <1>1, <1>2, <1>5, <1>6, <1>9 DEF FileTrailsMemory
    <2> QED BY <1>4, <1>7, <2>4, <2>5 DEF IInv
  <1> QED BY <1>8, <1>9

\* A checkpoint, written or not, keeps the invariant.
LEMMA CheckpointKeeps ==
    ASSUME IInv, Checkpoint
    PROVE  IInv'
  <1>1. /\ pc = "batch" /\ pc' = "top" /\ cfg.forever
        /\ session' = Updated /\ processed' = 0 /\ disk' \in {disk, Updated}
        /\ UNCHANGED <<cfg, ctxDone, channel, left, runProcessed, hits, lastIndex, runs,
                       tried, found, lost>>
    BY DEF Checkpoint
  <1>2. /\ session \in Count /\ disk \in Count /\ processed \in Nat /\ hits \in Nat
    BY DEF IInv, TypeOK
  <1>3. /\ Updated \in Count /\ Updated.hits = hits
        /\ Updated.keys = session.keys + processed
    BY <1>2 DEF Updated, Count
  <1>4. Updated'.keys = Updated.keys /\ Updated'.hits = Updated.hits
    BY <1>1, <1>2, <1>3 DEF Updated, Count
  <1>5. TypeOK'
    BY <1>1, <1>2, <1>3 DEF IInv, TypeOK, Places
  <1>6. disk.keys <= Updated.keys /\ disk.hits <= Updated.hits
    BY <1>1 DEF IInv, FileTrailsMemory
  <1>7. disk'.keys <= Updated.keys /\ disk'.hits <= Updated.hits
    BY <1>1, <1>3, <1>6 DEF Count
  <1>8. FileTrailsMemory'
    BY <1>4, <1>7 DEF FileTrailsMemory
  <1>9. KeysAndHitsAccounted'
    BY <1>1, <1>4 DEF IInv, KeysAndHitsAccounted, Total
  <1>10. IndexInv'
    BY <1>1, <1>2, <1>3 DEF IInv, IndexInv, Count
  <1> QED BY <1>5, <1>8, <1>9, <1>10 DEF IInv

\* A new run from the file, or from nothing once the file is gone.
LEMMA BeginKeeps ==
    ASSUME IInv, NEW s \in Count, Begin(s), cfg' \in Configs,
           disk' \in Count, lost' \in Count, cfg'.forever => disk' = s,
           tried' = disk'.keys + lost'.keys, found' = disk'.hits + lost'.hits
    PROVE  IInv'
  <1>1. /\ pc' = "top" /\ ctxDone' = FALSE /\ channel' = 0 /\ left' = 0
        /\ session' = s /\ processed' = 0 /\ runProcessed' = 0
        /\ hits' = s.hits /\ lastIndex' = s.keys /\ runs' = runs + 1
    BY DEF Begin
  <1>2. /\ s.keys \in Nat /\ s.hits \in Nat /\ lost'.keys \in Nat /\ lost'.hits \in Nat
        /\ disk'.keys \in Nat /\ disk'.hits \in Nat /\ runs \in Nat
    BY DEF IInv, TypeOK, Count
  <1>3. TypeOK'
    <2>1. runs' \in Nat /\ tried' \in Nat /\ found' \in Nat
      BY <1>1, <1>2
    <2>2. channel' \in 0..ChannelCap /\ left' \in 0..BatchSize
      BY <1>1, SearchAssumption
    <2> QED BY <1>1, <1>2, <2>1, <2>2 DEF TypeOK, Places
  <1>4. Updated'.keys = s.keys /\ Updated'.hits = s.hits
    BY <1>1, <1>2 DEF Updated
  <1>5. KeysAndHitsAccounted' /\ FileTrailsMemory'
    BY <1>1, <1>2, <1>4 DEF KeysAndHitsAccounted, FileTrailsMemory, Total
  <1>6. IndexInv'
    BY <1>1, <1>2 DEF IndexInv
  <1> QED BY <1>3, <1>5, <1>6 DEF IInv

\* Every step keeps the invariant.
LEMMA NextIInv == IInv /\ [Next]_vars => IInv'
  <1> SUFFICES ASSUME IInv, [Next]_vars PROVE IInv'
    OBVIOUS
  <1>0. /\ Zero \in Count /\ Zero.keys = 0 /\ Zero.hits = 0
        /\ disk \in Count /\ lost \in Count /\ session \in Count
        /\ disk.keys \in Nat /\ disk.hits \in Nat /\ lost.keys \in Nat /\ lost.hits \in Nat
        /\ session.keys \in Nat /\ processed \in Nat
        /\ channel \in 0..ChannelCap /\ left \in 0..BatchSize
        /\ ctxDone \in BOOLEAN /\ pc \in Places
    BY DEF IInv, TypeOK, Count, Zero
  <1>1. CASE Resume
    <2>1. tried = disk.keys + lost.keys /\ found = disk.hits + lost.hits
      BY <1>1 DEF Resume, Begin, IInv, KeysAndHitsAccounted, Total
    <2> QED BY <1>0, <1>1, <2>1, BeginKeeps DEF Resume
  <1>2. CASE Reset
    BY <1>0, <1>2, BeginKeeps DEF Reset
  <1>17. CASE BeginBounded
    <2>1. tried = disk.keys + lost.keys /\ found = disk.hits + lost.hits
      BY <1>17 DEF BeginBounded, Begin, IInv, KeysAndHitsAccounted, Total
    <2>2. cfg' \in Configs /\ ~cfg'.forever
      BY <1>17 DEF BeginBounded
    <2> QED BY <1>0, <1>17, <2>1, <2>2, BeginKeeps DEF BeginBounded
  <1>3. CASE Unreadable
    <2>1. /\ pc = "idle" /\ pc' = "idle" /\ disk' = Zero
          /\ lost' = [keys |-> lost.keys + disk.keys, hits |-> lost.hits + disk.hits]
          /\ UNCHANGED <<cfg, ctxDone, channel, left, session, processed, runProcessed,
                         hits, lastIndex, runs, tried, found>>
      BY <1>3 DEF Unreadable
    <2>2. /\ lost' \in Count /\ lost'.keys = lost.keys + disk.keys
          /\ lost'.hits = lost.hits + disk.hits
      BY <1>0, <2>1 DEF Count
    <2>3. TypeOK'
      BY <1>0, <2>1, <2>2 DEF IInv, TypeOK
    <2>4. tried = disk.keys + lost.keys /\ found = disk.hits + lost.hits
      BY <2>1 DEF IInv, KeysAndHitsAccounted, Total
    <2>5. KeysAndHitsAccounted'
      BY <1>0, <2>1, <2>2, <2>4 DEF KeysAndHitsAccounted, Total
    <2>6. FileTrailsMemory' /\ IndexInv'
      BY <2>1 DEF FileTrailsMemory, IndexInv
    <2> QED BY <2>3, <2>5, <2>6 DEF IInv
  <1>4. CASE Produce
    BY <1>0, <1>4, LoopKeeps, SearchAssumption DEF Produce
  <1>5. CASE Cancel
    BY <1>0, <1>5, LoopKeeps DEF Cancel
  <1>6. CASE WaitForBatch
    BY <1>0, <1>6, LoopKeeps DEF WaitForBatch, Places
  <1>7. CASE Receive
    BY <1>0, <1>7, LoopKeeps, SearchAssumption DEF Receive, Places
  <1>8. CASE TryMiss
    BY <1>8, TryKeeps DEF TryMiss
  <1>9. CASE TryHit
    BY <1>9, TryKeeps DEF TryHit
  <1>10. CASE TryFails
    BY <1>0, <1>10, ReturnKeeps DEF TryFails
  <1>11. CASE StopOnCancel
    <2>1. lastIndex' \in Nat
      BY <1>11 DEF StopOnCancel, IInv, TypeOK
    <2> QED BY <1>11, <2>1, ReturnKeeps DEF StopOnCancel
  <1>12. CASE StopOnMaxKeys
    <2>1. lastIndex' \in Nat
      BY <1>12 DEF StopOnMaxKeys, IInv, TypeOK
    <2> QED BY <1>12, <2>1, ReturnKeeps DEF StopOnMaxKeys
  <1>13. CASE BatchDone
    BY <1>0, <1>13, LoopKeeps DEF BatchDone, Places
  <1>14. CASE Checkpoint
    BY <1>14, CheckpointKeeps
  <1>15. CASE Crash
    \* A crash is a way out whose save failed.
    <2>1. lastIndex' \in Nat /\ Save
      BY <1>15 DEF Crash, IInv, TypeOK, Save
    <2> QED BY <1>15, <2>1, ReturnKeeps DEF Crash
  <1>16. CASE UNCHANGED vars
    <2>1. Updated' = Updated
      BY <1>16 DEF vars, Updated
    <2> QED BY <1>16, <2>1 DEF vars, IInv, TypeOK, FileTrailsMemory,
               KeysAndHitsAccounted, IndexInv, Total
  <1> QED
    BY <1>1, <1>2, <1>3, <1>4, <1>5, <1>6, <1>7, <1>8, <1>9, <1>10, <1>11, <1>12,
       <1>13, <1>14, <1>15, <1>16, <1>17 DEF Next

\* It holds throughout.
LEMMA IInvHolds == Spec => []IInv
  BY InitIInv, NextIInv, PTL DEF Spec

\* The counters of runForever and the session file keep their shapes.
THEOREM TypeCorrect == Spec => []TypeOK
  <1>1. IInv => TypeOK
    BY DEF IInv
  <1> QED BY <1>1, IInvHolds, PTL

\* Every key and every hit is in the session totals exactly once, but for what
\* a crash, a failed write or a bad file took away, across all runs.
THEOREM Accounted == Spec => []KeysAndHitsAccounted
  <1>1. IInv => KeysAndHitsAccounted
    BY DEF IInv
  <1> QED BY <1>1, IInvHolds, PTL

\* No save takes counts back.
THEOREM FileTrails == Spec => []FileTrailsMemory
  <1>1. IInv => FileTrailsMemory
    BY DEF IInv
  <1> QED BY <1>1, IInvHolds, PTL

\* The key_index of a run's wallets are consecutive, over every checkpoint.
THEOREM IndexSteps == Spec => KeyIndexSteps
  <1>1. ASSUME IInv, [Next]_vars
        PROVE  [runs' = runs /\ lastIndex' # lastIndex => lastIndex' = lastIndex + 1]_vars
    <2>1. CASE Try \/ TryFails
      <3>1. lastIndex = session.keys + processed
        BY <1>1, <2>1 DEF Try, TryFails, IInv, IndexInv
      <3>2. lastIndex' = session.keys + processed + 1
        BY <2>1 DEF Try, TryFails
      <3> QED BY <3>1, <3>2
    <2>2. CASE Resume \/ Reset \/ BeginBounded
      <3>1. runs' = runs + 1 /\ runs \in Nat
        BY <1>1, <2>2 DEF Resume, Reset, BeginBounded, Begin, IInv, TypeOK
      <3> QED BY <3>1
    <2>3. CASE ~(Try \/ TryFails \/ Resume \/ Reset \/ BeginBounded)
      <3>1. UNCHANGED lastIndex
        BY <1>1, <2>3 DEF Next, TryMiss, TryHit, Unreadable, Produce, Cancel, WaitForBatch,
           Receive, StopOnCancel, StopOnMaxKeys, BatchDone, Checkpoint, Crash, counters, vars
      <3> QED BY <3>1
    <2> QED BY <2>1, <2>2, <2>3
  <1> QED BY <1>1, IInvHolds, PTL DEF Spec, KeyIndexSteps

\* A limited search, of either kind, never tries more keys than it was allowed,
\* wherever in a batch the limit falls.
THEOREM LimitHolds == Spec => []MaxKeysRespected
  <1>0. \A c \in Configs : c.limit \in Nat
    BY SearchAssumption DEF Config
  <1>1. Init => MaxKeysRespected
    BY <1>0 DEF Init, MaxKeysRespected
  <1>2. TypeOK /\ MaxKeysRespected /\ [Next]_vars => MaxKeysRespected'
    <2> SUFFICES ASSUME TypeOK, MaxKeysRespected, [Next]_vars PROVE MaxKeysRespected'
      OBVIOUS
    <2>1. CASE Try /\ Counted
      <3>1. cfg' = cfg /\ cfg.limit \in Nat /\ runProcessed \in Nat
        BY <1>0, <2>1 DEF Try, TypeOK
      <3>2. runProcessed' = runProcessed + 1 /\ (Limited => ~(runProcessed >= cfg.limit))
        BY <2>1 DEF Try, Counted, MaxReached
      <3> QED BY <3>1, <3>2 DEF MaxKeysRespected, Limited
    <2>2. CASE Resume \/ Reset \/ BeginBounded
      <3>1. runProcessed' = 0 /\ cfg' \in Configs
        BY <2>2 DEF Resume, Reset, BeginBounded, Begin
      <3> QED BY <1>0, <3>1 DEF MaxKeysRespected
    <2>3. CASE ~((Try /\ Counted) \/ Resume \/ Reset \/ BeginBounded)
      <3>1. UNCHANGED <<cfg, runProcessed>>
        BY <2>3 DEF Next, TryMiss, TryHit, TryFails, Unreadable, Produce, Cancel,
           WaitForBatch, Receive, StopOnCancel, StopOnMaxKeys, BatchDone, Checkpoint,
           Crash, Return, counters, vars
      <3> QED BY <3>1 DEF MaxKeysRespected, Limited
    <2> QED BY <2>1, <2>2, <2>3
  <1> QED BY <1>1, <1>2, TypeCorrect, PTL DEF Spec

\* A search that stops for its limit has tried exactly that many keys, neither
\* one less nor one more, however the limit falls into batches and segments
\* (runForever with MaxKeys, runBounded with NumKeys).
THEOREM LimitIsExact == Spec => [][StopOnMaxKeys => runProcessed = cfg.limit]_vars
  <1>1. ASSUME TypeOK, MaxKeysRespected, StopOnMaxKeys
        PROVE  runProcessed = cfg.limit
    <2>0. \A c \in Configs : c.limit \in Nat
      BY SearchAssumption DEF Config
    <2>1. cfg.limit \in Nat /\ runProcessed \in Nat
      BY <1>1, <2>0 DEF TypeOK
    <2>2. runProcessed >= cfg.limit /\ runProcessed <= cfg.limit
      <3>1. MaxReached
        BY <1>1 DEF StopOnMaxKeys
      <3> QED BY <1>1, <3>1 DEF MaxReached, MaxKeysRespected
    <2> QED BY <2>1, <2>2
  <1>2. TypeOK /\ MaxKeysRespected /\ [Next]_vars
          => [StopOnMaxKeys => runProcessed = cfg.limit]_vars
    BY <1>1
  <1> QED BY <1>2, TypeCorrect, LimitHolds, PTL DEF Spec

\* A step that does not empty the session file leaves its counts or raises them.
CountsStay ==
    disk' # Zero => disk.keys <= disk'.keys /\ disk.hits <= disk'.hits

\* The totals in the session file never fall, whichever searches use it and
\* however they end, unless the file is reset or damaged (writeSession,
\* initForeverSession, loadSession).
THEOREM FileNeverFalls == Spec => [][CountsStay]_vars
  <1>1. ASSUME IInv, [Next]_vars
        PROVE  CountsStay
    <2>1. disk.keys \in Nat /\ disk.hits \in Nat
      BY <1>1 DEF IInv, TypeOK, Count
    <2>2. CASE /\ pc # "idle" /\ cfg.forever
               /\ disk' \in {disk, Updated}
      BY <1>1, <2>1, <2>2 DEF IInv, FileTrailsMemory, CountsStay
    <2>3. CASE disk' = disk
      BY <2>1, <2>3 DEF CountsStay
    <2>4. CASE TryFails \/ StopOnCancel \/ StopOnMaxKeys \/ Checkpoint
      <3>1. pc # "idle" /\ (disk' = disk \/ (cfg.forever /\ disk' \in {disk, Updated}))
        BY <2>4 DEF TryFails, StopOnCancel, StopOnMaxKeys, Checkpoint, Save
      <3> QED BY <3>1, <2>2, <2>3
    <2>5. CASE Reset \/ Unreadable
      BY <2>5 DEF Reset, Unreadable, CountsStay
    <2>6. CASE ~(TryFails \/ StopOnCancel \/ StopOnMaxKeys \/ Checkpoint \/ Reset \/ Unreadable)
      <3>1. UNCHANGED disk
        BY <1>1, <2>6 DEF Next, Resume, BeginBounded, Produce, Cancel, WaitForBatch, Receive,
           TryMiss, TryHit, Try, BatchDone, Crash, counters, vars
      <3> QED BY <3>1, <2>3
    <2> QED BY <2>4, <2>5, <2>6
  <1>2. IInv /\ [Next]_vars
          => [CountsStay]_vars
    BY <1>1
  <1> QED BY <1>2, IInvHolds, PTL DEF Spec
\* A wallet is a hit at most once, in the file and in memory.
HitsInv ==
    /\ disk.hits <= disk.keys
    /\ pc # "idle" => hits <= session.keys + processed

\* Every step keeps the hits within the keys.
LEMMA NextHits == IInv /\ HitsInv /\ [Next]_vars => HitsInv'
  <1> SUFFICES ASSUME IInv, HitsInv, [Next]_vars PROVE HitsInv'
    OBVIOUS
  <1>t. /\ session \in Count /\ disk \in Count /\ processed \in Nat /\ hits \in Nat
        /\ session.keys \in Nat /\ disk.keys \in Nat /\ disk.hits \in Nat
        /\ Zero.keys = 0 /\ Zero.hits = 0
        /\ Updated.keys = session.keys + processed /\ Updated.hits = hits
    BY DEF IInv, TypeOK, Count, Zero, Updated
  <1>1. ASSUME NEW s, Begin(s), s.hits <= s.keys, s.keys \in Nat, disk' \in {disk, Zero}
        PROVE  HitsInv'
    BY <1>1, <1>t DEF Begin, HitsInv
  <1>2. CASE Resume \/ Reset \/ BeginBounded
    BY <1>1, <1>2, <1>t DEF Resume, Reset, BeginBounded, HitsInv
  <1>3. CASE TryMiss \/ TryHit
    BY <1>3, <1>t DEF TryMiss, TryHit, Try, Counted, HitsInv
  <1>4. CASE TryFails \/ StopOnCancel \/ StopOnMaxKeys \/ Crash
    <2>1. pc # "idle" /\ pc' = "idle" /\ disk' \in {disk, Updated}
      BY <1>4 DEF TryFails, StopOnCancel, StopOnMaxKeys, Crash, Return, Save
    <2> QED
      BY <2>1, <1>t DEF HitsInv
  <1>5. CASE Checkpoint
    <2>1. /\ pc # "idle" /\ disk' \in {disk, Updated} /\ hits' = hits
          /\ session' = Updated /\ processed' = 0
      BY <1>5 DEF Checkpoint
    <2> QED
      BY <2>1, <1>t DEF HitsInv
  <1>6. CASE Unreadable
    BY <1>6, <1>t DEF Unreadable, HitsInv
  <1>7. CASE \/ Produce \/ Cancel \/ WaitForBatch \/ Receive \/ BatchDone
             \/ UNCHANGED vars
    <2>1. /\ UNCHANGED <<disk, hits, session, processed>>
          /\ pc' # "idle" => pc # "idle"
      BY <1>7 DEF Produce, Cancel, WaitForBatch, Receive, BatchDone, counters, vars
    <2> QED
      BY <2>1 DEF HitsInv
  <1> QED
    BY <1>2, <1>3, <1>4, <1>5, <1>6, <1>7 DEF Next

\* The session file never counts more hits than keys, although the keys are
\* counted per segment and added up at a checkpoint, while the hits run on
\* (runForever, writeSession).
THEOREM HitsWithinKeys == Spec => [](disk.hits <= disk.keys)
  <1>1. Init => HitsInv
    BY DEF Init, HitsInv, Zero
  <1>2. HitsInv => disk.hits <= disk.keys
    BY DEF HitsInv
  <1> QED
    BY <1>1, <1>2, NextHits, IInvHolds, PTL DEF Spec
=============================================================================

--------------------------- MODULE RuntimeProofs ---------------------------
(***************************************************************************)
(* Proofs about the packages every service runs on.  Persist: the snapshot *)
(* file is never torn, temporary files are not left behind, completed      *)
(* saves are durable and no notification is lost, for every bound on       *)
(* versions, generations and restarts.  WorkerGroup: for any number of     *)
(* goroutines, callbacks and calls of Stop, the Stop that does the work    *)
(* joins every goroutine and leaves no timer to fire.  SingleRun: for any  *)
(* number of runs and of goroutines that call Stop, no run is left without *)
(* anybody to cancel it, and a Stop that does not give up returns after    *)
(* its run.                                                                *)
(***************************************************************************)
EXTENDS Persist, WorkerGroup, SingleRun, TLAPS

-----------------------------------------------------------------------------
(* Persist.                                                                *)

\* A generation that is pending or still to come has no callback yet, and
\* SaveAll has not begun before closing.
FreshSaves ==
  /\ timer # 0 => timer = gen
  /\ \A g \in Saves : (g > gen \/ (g = timer /\ g # 0)) => pc[g] = "idle"
  /\ ~closing => pc[All] = "idle"

\* Only an fsynced file is renamed.
FlushedFirst == \A s \in Saves : pc[s] = "rename" => s \in flushed

\* Snapshots come from the present or the past.
NotAhead ==
  /\ mem <= last /\ told <= mem /\ acked <= mem
  /\ \A s \in Saves : data[s] <= mem
  /\ \A v \in may : v <= last

\* While no saves overlapped: one writer at a time, newer than everything that
\* was saved before it.
InTurn ==
  ~overlapped =>
    /\ \A s, t \in Saves : Writing(s) /\ Writing(t) => s = t
    /\ \A s \in Saves : Writing(s) => data[s] >= acked
    /\ \A s, t \in Saves : Writing(s) /\ pc[t] = "dirsync" => data[s] >= data[t]
    /\ \A t \in Saves : pc[t] = "dirsync" => file >= data[t]

\* While no saves overlapped, no content the directory may come back with is older
\* than a save that returned.
Synced == ~overlapped => \A v \in may : v >= acked

\* Somebody is responsible for the last notification until the file has it.
Covered ==
  ~failed /\ ~overlapped =>
    \/ timer # 0
    \/ gen # 0 /\ pc[gen] = "fired"
    \/ \E s \in Saves : pc[s] = "snapshot"
    \/ \E s \in Saves : Writing(s) /\ data[s] >= told
    \/ file >= told /\ \A s \in Saves : ~Writing(s)

IInv ==
  /\ TypeOK /\ FreshSaves /\ NoTempLeft /\ FlushedFirst /\ WholeFile
  /\ NotAhead /\ InTurn /\ Synced /\ Covered

-----------------------------------------------------------------------------
LEMMA InitIInv == Init => IInv
<1> SUFFICES ASSUME Init PROVE IInv
  OBVIOUS
<1> USE BoundsAssumption DEF Init, Saves, All, Torn
<1>1. \A s \in Saves : pc[s] = "idle" /\ data[s] = 0
  OBVIOUS
<1>2. pc \in [Saves -> Steps] /\ data \in [Saves -> Nat]
  BY DEF Steps
<1>3. closing \in BOOLEAN /\ failed \in BOOLEAN /\ overlapped \in BOOLEAN
  BY Zenon
<1>4. TypeOK
  BY <1>2, <1>3 DEF TypeOK
<1>5. FreshSaves
  BY <1>1 DEF FreshSaves
<1>6. NoTempLeft /\ FlushedFirst /\ WholeFile /\ Synced
  BY <1>1 DEF NoTempLeft, FlushedFirst, WholeFile, Synced
<1>7. NotAhead
  BY <1>1 DEF NotAhead
<1>8. InTurn
  BY <1>1 DEF InTurn, Writing
<1>9. Covered
  BY <1>1 DEF Covered, Writing
<1> QED
  BY <1>4, <1>5, <1>6, <1>7, <1>8, <1>9 DEF IInv

\* Every step keeps the inductive invariant; each step below names the parts
\* of it that the part in question rests on.
LEMMA NextIInv == IInv /\ [Next]_vars => IInv'
<1> SUFFICES ASSUME IInv, [Next]_vars PROVE IInv'
  OBVIOUS
<1> USE BoundsAssumption DEF Saves, All, disk, history, Torn
<1>0. /\ TypeOK /\ FreshSaves /\ NoTempLeft /\ FlushedFirst /\ WholeFile
      /\ NotAhead /\ InTurn /\ Synced /\ Covered
  BY DEF IInv
<1>1. ASSUME NEW changes \in BOOLEAN, Request(changes) PROVE IInv'
  <2>1. TypeOK'
    BY <1>0, <1>1 DEF Request, TypeOK, Steps
  <2>2. FreshSaves'
    BY <1>0, <1>1 DEF Request, TypeOK, FreshSaves
  <2>3. NoTempLeft'
    BY <1>0, <1>1 DEF Request, TypeOK, FreshSaves, NoTempLeft
  <2>4. FlushedFirst'
    BY <1>0, <1>1 DEF Request, TypeOK, FreshSaves, FlushedFirst
  <2>5. WholeFile'
    BY <1>0, <1>1 DEF Request, TypeOK, FlushedFirst, WholeFile
  <2>6. NotAhead'
    BY <1>0, <1>1 DEF Request, TypeOK, NotAhead, WholeFile
  <2>7. InTurn'
    BY <1>0, <1>1
    DEF Request, TypeOK, FreshSaves, NotAhead, InTurn, Synced,
        Writing
  <2>8. Synced'
    BY <1>0, <1>1
    DEF Request, TypeOK, WholeFile, InTurn, Synced, Writing
  <2>9. Covered'
    BY <1>0, <1>1
    DEF Request, TypeOK, FreshSaves, NotAhead, InTurn, WholeFile, Covered,
        Writing
  <2> QED  BY <2>1, <2>2, <2>3, <2>4, <2>5, <2>6, <2>7, <2>8, <2>9 DEF IInv
<1>2. ASSUME ImportAll PROVE IInv'
  <2>1. TypeOK'
    BY <1>0, <1>2 DEF ImportAll, TypeOK, Steps
  <2>2. FreshSaves'
    BY <1>0, <1>2 DEF ImportAll, TypeOK, FreshSaves
  <2>3. NoTempLeft'
    BY <1>0, <1>2 DEF ImportAll, TypeOK, FreshSaves, NoTempLeft
  <2>4. FlushedFirst'
    BY <1>0, <1>2 DEF ImportAll, TypeOK, FreshSaves, FlushedFirst
  <2>5. WholeFile'
    BY <1>0, <1>2 DEF ImportAll, TypeOK, FlushedFirst, WholeFile
  <2>6. NotAhead'
    BY <1>0, <1>2 DEF ImportAll, TypeOK, NotAhead, WholeFile
  <2>7. InTurn'
    BY <1>0, <1>2
    DEF ImportAll, TypeOK, FreshSaves, NotAhead, InTurn, Synced,
        Writing
  <2>8. Synced'
    BY <1>0, <1>2
    DEF ImportAll, TypeOK, WholeFile, InTurn, Synced, Writing
  <2>9. Covered'
    BY <1>0, <1>2
    DEF ImportAll, TypeOK, FreshSaves, NotAhead, InTurn, WholeFile, Covered,
        Writing
  <2> QED  BY <2>1, <2>2, <2>3, <2>4, <2>5, <2>6, <2>7, <2>8, <2>9 DEF IInv
<1>3. ASSUME Notify PROVE IInv'
  <2>1. TypeOK'
    BY <1>0, <1>3 DEF Notify, TypeOK, Steps
  <2>2. FreshSaves'
    BY <1>0, <1>3 DEF Notify, TypeOK, FreshSaves
  <2>3. NoTempLeft'
    BY <1>0, <1>3 DEF Notify, TypeOK, FreshSaves, NoTempLeft
  <2>4. FlushedFirst'
    BY <1>0, <1>3 DEF Notify, TypeOK, FreshSaves, FlushedFirst
  <2>5. WholeFile'
    BY <1>0, <1>3 DEF Notify, TypeOK, FlushedFirst, WholeFile
  <2>6. NotAhead'
    BY <1>0, <1>3 DEF Notify, TypeOK, NotAhead, WholeFile
  <2>7. InTurn'
    BY <1>0, <1>3
    DEF Notify, TypeOK, FreshSaves, NotAhead, InTurn, Synced,
        Writing
  <2>8. Synced'
    BY <1>0, <1>3
    DEF Notify, TypeOK, WholeFile, InTurn, Synced, Writing
  <2>9. Covered'
    BY <1>0, <1>3
    DEF Notify, TypeOK, FreshSaves, NotAhead, InTurn, WholeFile, Covered,
        Writing
  <2> QED  BY <2>1, <2>2, <2>3, <2>4, <2>5, <2>6, <2>7, <2>8, <2>9 DEF IInv
<1>4. ASSUME Fire PROVE IInv'
  <2>1. TypeOK'
    BY <1>0, <1>4 DEF Fire, TypeOK, Steps
  <2>2. FreshSaves'
    BY <1>0, <1>4 DEF Fire, TypeOK, FreshSaves
  <2>3. NoTempLeft'
    BY <1>0, <1>4 DEF Fire, TypeOK, FreshSaves, NoTempLeft
  <2>4. FlushedFirst'
    BY <1>0, <1>4 DEF Fire, TypeOK, FreshSaves, FlushedFirst
  <2>5. WholeFile'
    BY <1>0, <1>4 DEF Fire, TypeOK, FlushedFirst, WholeFile
  <2>6. NotAhead'
    BY <1>0, <1>4 DEF Fire, TypeOK, NotAhead, WholeFile
  <2>7. InTurn'
    BY <1>0, <1>4
    DEF Fire, TypeOK, FreshSaves, NotAhead, InTurn, Synced, Writing
  <2>8. Synced'
    BY <1>0, <1>4 DEF Fire, TypeOK, WholeFile, InTurn, Synced, Writing
  <2>9. Covered'
    BY <1>0, <1>4
    DEF Fire, TypeOK, FreshSaves, NotAhead, InTurn, WholeFile, Covered,
        Writing
  <2> QED  BY <2>1, <2>2, <2>3, <2>4, <2>5, <2>6, <2>7, <2>8, <2>9 DEF IInv
<1>5. ASSUME SaveAll PROVE IInv'
  <2>1. TypeOK'
    BY <1>0, <1>5 DEF SaveAll, TypeOK, Steps
  <2>2. FreshSaves'
    BY <1>0, <1>5 DEF SaveAll, TypeOK, FreshSaves
  <2>3. NoTempLeft'
    BY <1>0, <1>5 DEF SaveAll, TypeOK, FreshSaves, NoTempLeft
  <2>4. FlushedFirst'
    BY <1>0, <1>5 DEF SaveAll, TypeOK, FreshSaves, FlushedFirst
  <2>5. WholeFile'
    BY <1>0, <1>5 DEF SaveAll, TypeOK, FlushedFirst, WholeFile
  <2>6. NotAhead'
    BY <1>0, <1>5 DEF SaveAll, TypeOK, NotAhead, WholeFile
  <2>7. InTurn'
    BY <1>0, <1>5
    DEF SaveAll, TypeOK, FreshSaves, NotAhead, InTurn, Synced,
        Writing
  <2>8. Synced'
    BY <1>0, <1>5
    DEF SaveAll, TypeOK, WholeFile, InTurn, Synced, Writing
  <2>9. Covered'
    BY <1>0, <1>5
    DEF SaveAll, TypeOK, FreshSaves, NotAhead, InTurn, WholeFile, Covered,
        Writing
  <2> QED  BY <2>1, <2>2, <2>3, <2>4, <2>5, <2>6, <2>7, <2>8, <2>9 DEF IInv
<1>6. ASSUME NEW g \in Saves, SaveIfCurrent(g) PROVE IInv'
  <2>1. TypeOK'
    BY <1>0, <1>6 DEF SaveIfCurrent, TypeOK, Steps
  <2>2. FreshSaves'
    BY <1>0, <1>6 DEF SaveIfCurrent, TypeOK, FreshSaves
  <2>3. NoTempLeft'
    BY <1>0, <1>6 DEF SaveIfCurrent, TypeOK, FreshSaves, NoTempLeft
  <2>4. FlushedFirst'
    BY <1>0, <1>6 DEF SaveIfCurrent, TypeOK, FreshSaves, FlushedFirst
  <2>5. WholeFile'
    BY <1>0, <1>6 DEF SaveIfCurrent, TypeOK, FlushedFirst, WholeFile
  <2>6. NotAhead'
    BY <1>0, <1>6 DEF SaveIfCurrent, TypeOK, NotAhead, WholeFile
  <2>7. InTurn'
    BY <1>0, <1>6
    DEF SaveIfCurrent, TypeOK, FreshSaves, NotAhead, InTurn, Synced,
        Writing
  <2>8. Synced'
    BY <1>0, <1>6
    DEF SaveIfCurrent, TypeOK, WholeFile, InTurn, Synced, Writing
  <2>9. Covered'
    BY <1>0, <1>6
    DEF SaveIfCurrent, TypeOK, FreshSaves, NotAhead, InTurn, WholeFile,
        Covered, Writing
  <2> QED  BY <2>1, <2>2, <2>3, <2>4, <2>5, <2>6, <2>7, <2>8, <2>9 DEF IInv
<1>7. ASSUME NEW s \in Saves, Snapshot(s) PROVE IInv'
  <2>1. TypeOK'
    BY <1>0, <1>7 DEF Snapshot, Writing, TypeOK, Steps
  <2>2. FreshSaves'
    BY <1>0, <1>7 DEF Snapshot, Writing, TypeOK, FreshSaves
  <2>3. NoTempLeft'
    BY <1>0, <1>7 DEF Snapshot, Writing, TypeOK, FreshSaves, NoTempLeft
  <2>4. FlushedFirst'
    BY <1>0, <1>7 DEF Snapshot, Writing, TypeOK, FreshSaves, FlushedFirst
  <2>5. WholeFile'
    BY <1>0, <1>7 DEF Snapshot, Writing, TypeOK, FlushedFirst, WholeFile
  <2>6. NotAhead'
    BY <1>0, <1>7 DEF Snapshot, Writing, TypeOK, NotAhead, WholeFile
  <2>7. InTurn'
    BY <1>0, <1>7
    DEF Snapshot, Writing, TypeOK, FreshSaves, NotAhead, InTurn,
        Synced
  <2>8. Synced'
    BY <1>0, <1>7
    DEF Snapshot, Writing, TypeOK, WholeFile, InTurn, Synced
  <2>9. Covered'
    BY <1>0, <1>7
    DEF Snapshot, Writing, TypeOK, FreshSaves, NotAhead, InTurn, WholeFile,
        Covered
  <2> QED  BY <2>1, <2>2, <2>3, <2>4, <2>5, <2>6, <2>7, <2>8, <2>9 DEF IInv
<1>8. ASSUME NEW s \in Saves, CreateTemp(s) PROVE IInv'
  <2>1. TypeOK'
    BY <1>0, <1>8 DEF CreateTemp, TypeOK, Steps
  <2>2. FreshSaves'
    BY <1>0, <1>8 DEF CreateTemp, TypeOK, FreshSaves
  <2>3. NoTempLeft'
    BY <1>0, <1>8 DEF CreateTemp, TypeOK, FreshSaves, NoTempLeft
  <2>4. FlushedFirst'
    BY <1>0, <1>8 DEF CreateTemp, TypeOK, FreshSaves, FlushedFirst
  <2>5. WholeFile'
    BY <1>0, <1>8 DEF CreateTemp, TypeOK, FlushedFirst, WholeFile
  <2>6. NotAhead'
    BY <1>0, <1>8 DEF CreateTemp, TypeOK, NotAhead, WholeFile
  <2>7. InTurn'
    BY <1>0, <1>8
    DEF CreateTemp, TypeOK, FreshSaves, NotAhead, InTurn, Synced,
        Writing
  <2>8. Synced'
    BY <1>0, <1>8
    DEF CreateTemp, TypeOK, WholeFile, InTurn, Synced, Writing
  <2>9. Covered'
    BY <1>0, <1>8
    DEF CreateTemp, TypeOK, FreshSaves, NotAhead, InTurn, WholeFile, Covered,
        Writing
  <2> QED  BY <2>1, <2>2, <2>3, <2>4, <2>5, <2>6, <2>7, <2>8, <2>9 DEF IInv
<1>9. ASSUME NEW s \in Saves, WriteTemp(s) PROVE IInv'
  <2>1. TypeOK'
    BY <1>0, <1>9 DEF WriteTemp, TypeOK, Steps
  <2>2. FreshSaves'
    BY <1>0, <1>9 DEF WriteTemp, TypeOK, FreshSaves
  <2>3. NoTempLeft'
    BY <1>0, <1>9 DEF WriteTemp, TypeOK, FreshSaves, NoTempLeft
  <2>4. FlushedFirst'
    BY <1>0, <1>9 DEF WriteTemp, TypeOK, FreshSaves, FlushedFirst
  <2>5. WholeFile'
    BY <1>0, <1>9 DEF WriteTemp, TypeOK, FlushedFirst, WholeFile
  <2>6. NotAhead'
    BY <1>0, <1>9 DEF WriteTemp, TypeOK, NotAhead, WholeFile
  <2>7. InTurn'
    BY <1>0, <1>9
    DEF WriteTemp, TypeOK, FreshSaves, NotAhead, InTurn, Synced,
        Writing
  <2>8. Synced'
    BY <1>0, <1>9
    DEF WriteTemp, TypeOK, WholeFile, InTurn, Synced, Writing
  <2>9. Covered'
    BY <1>0, <1>9
    DEF WriteTemp, TypeOK, FreshSaves, NotAhead, InTurn, WholeFile, Covered,
        Writing
  <2> QED  BY <2>1, <2>2, <2>3, <2>4, <2>5, <2>6, <2>7, <2>8, <2>9 DEF IInv
<1>10. ASSUME NEW s \in Saves, SyncTemp(s) PROVE IInv'
  <2>1. TypeOK'
    BY <1>0, <1>10 DEF SyncTemp, TypeOK, Steps
  <2>2. FreshSaves'
    BY <1>0, <1>10 DEF SyncTemp, TypeOK, FreshSaves
  <2>3. NoTempLeft'
    BY <1>0, <1>10 DEF SyncTemp, TypeOK, FreshSaves, NoTempLeft
  <2>4. FlushedFirst'
    BY <1>0, <1>10 DEF SyncTemp, TypeOK, FreshSaves, FlushedFirst
  <2>5. WholeFile'
    BY <1>0, <1>10 DEF SyncTemp, TypeOK, FlushedFirst, WholeFile
  <2>6. NotAhead'
    BY <1>0, <1>10 DEF SyncTemp, TypeOK, NotAhead, WholeFile
  <2>7. InTurn'
    BY <1>0, <1>10
    DEF SyncTemp, TypeOK, FreshSaves, NotAhead, InTurn, Synced,
        Writing
  <2>8. Synced'
    BY <1>0, <1>10
    DEF SyncTemp, TypeOK, WholeFile, InTurn, Synced, Writing
  <2>9. Covered'
    BY <1>0, <1>10
    DEF SyncTemp, TypeOK, FreshSaves, NotAhead, InTurn, WholeFile, Covered,
        Writing
  <2> QED  BY <2>1, <2>2, <2>3, <2>4, <2>5, <2>6, <2>7, <2>8, <2>9 DEF IInv
<1>11. ASSUME NEW s \in Saves, Rename(s) PROVE IInv'
  <2>0. ~overlapped' => data[s] >= acked /\ may' = may \cup {data[s]}
    BY <1>0, <1>11 DEF Rename, FlushedFirst, InTurn, Writing
  <2>1. TypeOK'
    BY <1>0, <1>11, ZenonT(40) DEF Rename, TypeOK, Steps
  <2>2. FreshSaves'
    BY <1>0, <1>11 DEF Rename, TypeOK, FreshSaves
  <2>3. NoTempLeft'
    BY <1>0, <1>11 DEF Rename, TypeOK, FreshSaves, NoTempLeft
  <2>4. FlushedFirst'
    BY <1>0, <1>11 DEF Rename, TypeOK, FreshSaves, FlushedFirst
  <2>5. WholeFile'
    BY <1>0, <1>11 DEF Rename, TypeOK, FlushedFirst, WholeFile
  <2>6. NotAhead'
    BY <1>0, <1>11 DEF Rename, TypeOK, NotAhead, WholeFile
  <2>7. InTurn'
    BY <1>0, <1>11
    DEF Rename, TypeOK, FreshSaves, NotAhead, InTurn, Synced,
        Writing
  <2>8. Synced'
    BY <1>0, <1>11, <2>0 DEF Rename, TypeOK, Synced
  <2>9. Covered'
    BY <1>0, <1>11
    DEF Rename, TypeOK, FreshSaves, NotAhead, InTurn, WholeFile, Covered,
        Writing
  <2> QED  BY <2>1, <2>2, <2>3, <2>4, <2>5, <2>6, <2>7, <2>8, <2>9 DEF IInv
<1>12. ASSUME NEW s \in Saves, SyncDir(s) PROVE IInv'
  <2>1. TypeOK'
    BY <1>0, <1>12 DEF SyncDir, Newer, TypeOK, Steps
  <2>2. FreshSaves'
    BY <1>0, <1>12 DEF SyncDir, Newer, TypeOK, FreshSaves
  <2>3. NoTempLeft'
    BY <1>0, <1>12 DEF SyncDir, Newer, TypeOK, FreshSaves, NoTempLeft
  <2>4. FlushedFirst'
    BY <1>0, <1>12 DEF SyncDir, Newer, TypeOK, FreshSaves, FlushedFirst
  <2>5. WholeFile'
    BY <1>0, <1>12 DEF SyncDir, Newer, TypeOK, FlushedFirst, WholeFile
  <2>6. NotAhead'
    BY <1>0, <1>12 DEF SyncDir, Newer, TypeOK, NotAhead, WholeFile
  <2>7. InTurn'
    BY <1>0, <1>12
    DEF SyncDir, Newer, TypeOK, FreshSaves, NotAhead, InTurn,
        Synced, Writing
  <2>8. Synced'
    BY <1>0, <1>12
    DEF SyncDir, Newer, TypeOK, WholeFile, InTurn, Synced, Writing
  <2>9. Covered'
    BY <1>0, <1>12
    DEF SyncDir, Newer, TypeOK, FreshSaves, NotAhead, InTurn, WholeFile,
        Covered, Writing
  <2> QED  BY <2>1, <2>2, <2>3, <2>4, <2>5, <2>6, <2>7, <2>8, <2>9 DEF IInv
<1>13. ASSUME NEW s \in Saves, Fail(s) PROVE IInv'
  <2>1. TypeOK'
    BY <1>0, <1>13 DEF Fail, Saving, TypeOK, Steps
  <2>2. FreshSaves'
    BY <1>0, <1>13 DEF Fail, Saving, TypeOK, FreshSaves
  <2>3. NoTempLeft'
    BY <1>0, <1>13 DEF Fail, Saving, TypeOK, FreshSaves, NoTempLeft
  <2>4. FlushedFirst'
    BY <1>0, <1>13 DEF Fail, Saving, TypeOK, FreshSaves, FlushedFirst
  <2>5. WholeFile'
    BY <1>0, <1>13 DEF Fail, Saving, TypeOK, FlushedFirst, WholeFile
  <2>6. NotAhead'
    BY <1>0, <1>13 DEF Fail, Saving, TypeOK, NotAhead, WholeFile
  <2>7. InTurn'
    BY <1>0, <1>13
    DEF Fail, Saving, TypeOK, FreshSaves, NotAhead, InTurn, Synced,
        Writing
  <2>8. Synced'
    BY <1>0, <1>13
    DEF Fail, Saving, TypeOK, WholeFile, InTurn, Synced, Writing
  <2>9. Covered'
    BY <1>0, <1>13
    DEF Fail, Saving, TypeOK, FreshSaves, NotAhead, InTurn, WholeFile,
        Covered, Writing
  <2> QED  BY <2>1, <2>2, <2>3, <2>4, <2>5, <2>6, <2>7, <2>8, <2>9 DEF IInv
<1>14. ASSUME NEW left \in Left, NEW restored \in BOOLEAN, Restart(left, restored) PROVE IInv'
  <2>0. \A s \in Saves : pc'[s] = "idle" /\ data'[s] = 0
    BY <1>14 DEF Restart
  <2>1. TypeOK'
    <3>1. pc' \in [Saves -> Steps] /\ data' \in [Saves -> Nat]
      BY <1>14 DEF Restart, Steps
    <3>2. closing' \in BOOLEAN /\ failed' \in BOOLEAN /\ overlapped' \in BOOLEAN
      BY <1>14, Zenon DEF Restart
    <3>3. left \in Nat /\ mem' \in Nat
      BY <1>0, <1>14 DEF Restart, Left, TypeOK, WholeFile
    <3>4. told' \in Nat /\ acked' \in Nat /\ last' \in Nat /\ boots' \in Nat
      BY <1>0, <1>14, <3>3 DEF Restart, TypeOK
    <3>5. /\ file' \in Nat /\ may' = {file'} /\ tmps' = {} /\ flushed' = {}
          /\ dir' \in {"none", "made", "durable"}
      BY <1>0, <1>14, <3>3 DEF Restart, TypeOK
    <3>6. gen' = 0 /\ timer' = 0 /\ owed' = 0
      BY <1>14 DEF Restart
    <3> QED  BY <3>1, <3>2, <3>3, <3>4, <3>5, <3>6 DEF TypeOK
  <2>2. FreshSaves'
    BY <1>0, <1>14, <2>0 DEF Restart, FreshSaves
  <2>3. NoTempLeft'
    BY <1>0, <1>14 DEF Restart, TypeOK, FreshSaves, NoTempLeft
  <2>4. FlushedFirst'
    BY <1>0, <1>14 DEF Restart, TypeOK, FreshSaves, FlushedFirst
  <2>5. WholeFile'
    BY <1>0, <1>14 DEF Restart, Left, TypeOK, FlushedFirst, WholeFile
  <2>6. NotAhead'
    BY <1>0, <1>14, <2>0 DEF Restart, Left, TypeOK, NotAhead, WholeFile
  <2>7. InTurn'
    <3>1. \A s \in Saves : ~(Writing(s)') /\ pc'[s] # "dirsync"
      <4> TAKE s \in Saves
      <4>1. pc'[s] = "idle"
        BY <2>0
      <4> QED  BY <4>1 DEF Writing
    <3> QED  BY <3>1 DEF InTurn
  <2>8. Synced'
    BY <1>0, <1>14
    DEF Restart, Left, TypeOK, WholeFile, InTurn, Synced, Writing
  <2>9. Covered'
    BY <1>0, <1>14
    DEF Restart, Left, TypeOK, FreshSaves, NotAhead, InTurn, WholeFile, Covered,
        Writing
  <2> QED  BY <2>1, <2>2, <2>3, <2>4, <2>5, <2>6, <2>7, <2>8, <2>9 DEF IInv
<1>15. CASE DirReachesDisk
  BY <1>0, <1>15
  DEF IInv, DirReachesDisk, TypeOK, FreshSaves, NoTempLeft, FlushedFirst, WholeFile,
      NotAhead, InTurn, Synced, Covered, Writing
<1>16. CASE UNCHANGED vars
  BY <1>0, <1>16
  DEF IInv, vars, TypeOK, FreshSaves, NoTempLeft, FlushedFirst, WholeFile,
      NotAhead, InTurn, Synced, Covered, Writing
<1> QED
  BY <1>1, <1>2, <1>3, <1>4, <1>5, <1>6, <1>7, <1>8, <1>9, <1>10, <1>11,
     <1>12, <1>13, <1>14, <1>15, <1>16
  DEF Next, SaveStep

\* Persistence is crash safe and loses nothing (Manager and FileStore.Save):
\* at every power loss the snapshot file is whole, no temporary file is left
\* by a failed save, a save that returned nil is durable, and a quiet manager
\* has saved what the last Notify announced.  The last two hold while no two
\* saves overlap, durability once the service's directory is on the disk.
THEOREM PersistSafe ==
  Spec => [](TypeOK /\ WholeFile /\ NoTempLeft /\ DurableOnceSaved /\ SettledFile)
<1>1. IInv => TypeOK /\ WholeFile /\ NoTempLeft /\ DurableOnceSaved /\ SettledFile
  BY DEF IInv, TypeOK, Synced, DurableOnceSaved, Left, Covered, SettledFile, Quiet, Writing
<1> QED
  BY <1>1, InitIInv, NextIInv, PTL DEF Spec
-----------------------------------------------------------------------------
(* WorkerGroup.                                                            *)

Stopping(s) == st[s] \in {"cancel", "timers", "joined"}

\* One call of Stop sets the flag, empties the map and does the work.
OneStopper ==
  /\ \A s \in Stoppers : Stopping(s) => stopped
  /\ \A s, t \in Stoppers : Stopping(s) /\ Stopping(t) => s = t
  /\ stopped => timers = {}
  /\ \A s \in Stoppers : st[s] = "joined" => rest[s] = {}

\* A timer that may still fire is in the map or in the stopper's copy of it.
Tracked ==
  \A c \in Callbacks :
    cb[c] = "pending" =>
      c \in timers \/ \E s \in Stoppers : Stopping(s) /\ c \in rest[s]

WGInv == WGTypeOK /\ OneStopper /\ Tracked /\ Joined

LEMMA InitWGInv == WGInit => WGInv
<1> SUFFICES ASSUME WGInit PROVE WGInv
  OBVIOUS
<1>1. WGTypeOK
  BY DEF WGInit, WGTypeOK, Running
<1>2. OneStopper /\ Tracked /\ Joined
  BY DEF WGInit, OneStopper, Tracked, Joined, Stopping
<1> QED
  BY <1>1, <1>2 DEF WGInv

\* The steps of workers change wk and wg only, and start none once stopped.
LEMMA WorkersKeepWGInv ==
  ASSUME WGInv, NEW w \in Workers,
         Go(w) \/ GoRefused(w) \/ Tick(w) \/ SweepEnds(w) \/ Done(w)
  PROVE  WGInv'
<1> USE DEF WGInv, Go, GoRefused, Tick, SweepEnds, Done
<1>1. WGTypeOK'
  BY DEF WGTypeOK, Running
<1>2. OneStopper'
  BY DEF OneStopper, Stopping
<1>3. Tracked'
  BY DEF Tracked, Stopping
<1>4. Joined'
  BY DEF WGTypeOK, Joined, Running, OneStopper, Stopping
<1> QED
  BY <1>1, <1>2, <1>3, <1>4

\* The steps of callbacks; only After makes one pending, and it tracks it.
LEMMA CallbacksKeepWGInv ==
  ASSUME WGInv, NEW c \in Callbacks,
         After(c) \/ AfterRefused(c) \/ FireCallback(c) \/ RemoveTimer(c) \/ CallbackEnds(c)
  PROVE  WGInv'
<1> USE DEF WGInv, After, AfterRefused, FireCallback, RemoveTimer, CallbackEnds
<1>1. WGTypeOK'
  BY DEF WGTypeOK, Running
<1>2. OneStopper'
  BY DEF OneStopper, Stopping
<1>3. Tracked'
  BY DEF WGTypeOK, Tracked, Stopping
<1>4. Joined'
  BY DEF Joined, Running
<1> QED
  BY <1>1, <1>2, <1>3, <1>4

\* The steps of Stop: the copy takes over what the map tracked.
LEMMA StopKeepsWGInv ==
  ASSUME WGInv, NEW s \in Stoppers,
         \/ StopAgain(s) \/ Stop(s) \/ Cancel(s) \/ Wait(s)
         \/ \E c \in Callbacks : StopTimer(s, c)
  PROVE  WGInv'
<1> USE DEF WGInv
<1>1. CASE StopAgain(s)
  BY <1>1 DEF StopAgain, WGTypeOK, Running, OneStopper, Stopping, Tracked, Joined
<1>2. CASE Stop(s)
  <2>1. WGTypeOK'
    BY <1>2 DEF Stop, WGTypeOK, Running
  <2>2. OneStopper'
    BY <1>2 DEF Stop, WGTypeOK, OneStopper, Stopping
  <2>3. Tracked'
    BY <1>2 DEF Stop, WGTypeOK, OneStopper, Stopping, Tracked
  <2>4. Joined'
    BY <1>2 DEF Stop, WGTypeOK, Joined, Running
  <2> QED  BY <2>1, <2>2, <2>3, <2>4
<1>3. CASE Cancel(s)
  BY <1>3 DEF Cancel, WGTypeOK, Running, OneStopper, Stopping, Tracked, Joined
<1>4. CASE Wait(s)
  <2>1. WGTypeOK'
    BY <1>4 DEF Wait, WGTypeOK, Running
  <2>2. OneStopper'
    BY <1>4 DEF Wait, WGTypeOK, OneStopper, Stopping
  <2>3. Tracked'
    BY <1>4 DEF Wait, WGTypeOK, Stopping, Tracked
  <2>4. Joined'
    BY <1>4 DEF Wait, WGTypeOK, Joined, Running
  <2> QED  BY <2>1, <2>2, <2>3, <2>4
<1>5. ASSUME NEW c \in Callbacks, StopTimer(s, c) PROVE WGInv'
  <2>1. WGTypeOK'
    BY <1>5 DEF StopTimer, WGTypeOK, Running
  <2>2. OneStopper'
    BY <1>5 DEF StopTimer, WGTypeOK, OneStopper, Stopping
  <2>3. Tracked'
    BY <1>5 DEF StopTimer, WGTypeOK, Stopping, Tracked
  <2>4. Joined'
    BY <1>5 DEF StopTimer, Joined, Running
  <2> QED  BY <2>1, <2>2, <2>3, <2>4
<1> QED
  BY <1>1, <1>2, <1>3, <1>4, <1>5

LEMMA NextWGInv == WGInv /\ [WGNext]_wgVars => WGInv'
<1> SUFFICES ASSUME WGInv, [WGNext]_wgVars PROVE WGInv'
  OBVIOUS
<1>1. CASE WGNext
  BY <1>1, WorkersKeepWGInv, CallbacksKeepWGInv, StopKeepsWGInv DEF WGNext
<1>2. CASE UNCHANGED wgVars
  BY <1>2 DEF wgVars, WGInv, WGTypeOK, Running, OneStopper, Stopping, Tracked, Joined
<1> QED
  BY <1>1, <1>2

\* worker.Group.Stop: when the call that did the work has returned, none of
\* the goroutines of Go and Ticker runs and no callback of After will fire.
THEOREM GroupStops == WGSpec => [](WGTypeOK /\ Joined /\ NothingPending)
<1>1. WGInv => WGTypeOK /\ Joined /\ NothingPending
  <2> SUFFICES ASSUME WGInv PROVE NothingPending
    BY DEF WGInv
  <2> SUFFICES ASSUME NEW s \in Stoppers, st[s] = "joined", NEW c \in Callbacks,
                      cb[c] = "pending"
               PROVE  FALSE
    BY DEF NothingPending
  <2>1. stopped /\ timers = {} /\ rest[s] = {}
    BY DEF WGInv, OneStopper, Stopping
  <2>2. PICK t \in Stoppers : Stopping(t) /\ c \in rest[t]
    BY <2>1 DEF WGInv, Tracked
  <2>3. s = t
    BY <2>2 DEF WGInv, OneStopper, Stopping
  <2> QED  BY <2>1, <2>2, <2>3
<1> QED
  BY <1>1, InitWGInv, NextWGInv, PTL DEF WGSpec
-----------------------------------------------------------------------------
(* SingleRun.                                                              *)

\* A call of Stop that goes on after the exchange has a run to stop.
HoldsRun == \A s \in Callers : stop[s] \in {"cancel", "wait"} => held[s] # NoRun

RInv == SRTypeOK /\ HoldsRun /\ NoRunForgotten /\ StopWaited

\* At the start there is no run.
LEMMA InitRInv == SRInit => RInv
<1> SUFFICES ASSUME SRInit PROVE RInv
  OBVIOUS
<1> USE RunsAssumption DEF SRInit, NoRun, Runs
<1>1. SRTypeOK
  BY DEF SRTypeOK
<1>2. HoldsRun /\ NoRunForgotten /\ StopWaited
  BY DEF HoldsRun, NoRunForgotten, StopWaited
<1> QED
  BY <1>1, <1>2 DEF RInv

\* One step per action; each conjunct names the parts it rests on.
LEMMA NextRInv ==
  ASSUME RInv, [SRNext]_srVars
  PROVE  RInv'
<1> USE RunsAssumption DEF NoRun, Runs
<1>0. SRTypeOK /\ HoldsRun /\ NoRunForgotten /\ StopWaited
  BY DEF RInv
<1>1. CASE Start
  <2>1. SRTypeOK'
    BY <1>0, <1>1 DEF Start, SRTypeOK
  <2>2. HoldsRun'
    BY <1>0, <1>1 DEF Start, HoldsRun
  <2>3. NoRunForgotten'
    BY <1>0, <1>1 DEF Start, SRTypeOK, NoRunForgotten
  <2>4. StopWaited'
    BY <1>0, <1>1 DEF Start, SRTypeOK, StopWaited
  <2> QED  BY <2>1, <2>2, <2>3, <2>4 DEF RInv
<1>2. ASSUME NEW r \in Runs, RunEnds(r) PROVE RInv'
  <2>1. SRTypeOK'
    BY <1>0, <1>2 DEF RunEnds, SRTypeOK
  <2>2. HoldsRun'
    BY <1>0, <1>2 DEF RunEnds, HoldsRun
  <2>3. NoRunForgotten'
    BY <1>0, <1>2 DEF RunEnds, SRTypeOK, NoRunForgotten
  <2>4. StopWaited'
    BY <1>0, <1>2 DEF RunEnds, SRTypeOK, StopWaited
  <2> QED  BY <2>1, <2>2, <2>3, <2>4 DEF RInv
<1>3. ASSUME NEW s \in Callers, Take(s) PROVE RInv'
  <2>1. SRTypeOK'
    BY <1>0, <1>3 DEF Take, SRTypeOK
  <2>2. HoldsRun'
    BY <1>0, <1>3 DEF Take, SRTypeOK, HoldsRun
  <2>3. NoRunForgotten'
    <3> SUFFICES ASSUME NEW r \in Runs, run'[r] = "running"
                 PROVE  \/ r = cur' \/ r \in ctxDone'
                        \/ \E u \in Callers : stop'[u] = "cancel" /\ held'[u] = r
      BY DEF NoRunForgotten
    <3>1. CASE r = cur
      BY <1>0, <1>3, <3>1 DEF Take, SRTypeOK
    <3>2. CASE \E u \in Callers : stop[u] = "cancel" /\ held[u] = r
      BY <1>0, <1>3, <3>2 DEF Take, SRTypeOK
    <3> QED
      BY <1>0, <1>3, <3>1, <3>2 DEF Take, NoRunForgotten
  <2>4. StopWaited'
    BY <1>0, <1>3 DEF Take, SRTypeOK, StopWaited
  <2> QED  BY <2>1, <2>2, <2>3, <2>4 DEF RInv
<1>4. ASSUME NEW s \in Callers, CancelRun(s) PROVE RInv'
  <2>1. SRTypeOK'
    <3>1. held[s] \in 1 .. started
      <4>1. held[s] \in 0 .. started /\ held[s] # 0
        BY <1>0, <1>4 DEF CancelRun, SRTypeOK, HoldsRun
      <4>2. started \in Int
        BY <1>0 DEF SRTypeOK
      <4> QED  BY <4>1, <4>2
    <3>2. ctxDone' \subseteq 1 .. started'
      BY <1>0, <1>4, <3>1 DEF CancelRun, SRTypeOK
    <3>3. stop' \in [Callers -> {"out", "cancel", "wait", "back", "gaveup"}]
      BY <1>0, <1>4 DEF CancelRun, SRTypeOK
    <3>4. UNCHANGED <<cur, started, run, held>>
      BY <1>4 DEF CancelRun
    <3> QED  BY <1>0, <3>2, <3>3, <3>4 DEF SRTypeOK
  <2>2. HoldsRun'
    BY <1>0, <1>4 DEF CancelRun, SRTypeOK, HoldsRun
  <2>3. NoRunForgotten'
    BY <1>0, <1>4 DEF CancelRun, SRTypeOK, NoRunForgotten
  <2>4. StopWaited'
    BY <1>0, <1>4 DEF CancelRun, SRTypeOK, StopWaited
  <2> QED  BY <2>1, <2>2, <2>3, <2>4 DEF RInv
<1>5. ASSUME NEW s \in Callers, AwaitRun(s) PROVE RInv'
  <2>1. SRTypeOK'
    BY <1>0, <1>5 DEF AwaitRun, SRTypeOK
  <2>2. HoldsRun'
    BY <1>0, <1>5 DEF AwaitRun, SRTypeOK, HoldsRun
  <2>3. NoRunForgotten'
    BY <1>0, <1>5 DEF AwaitRun, SRTypeOK, NoRunForgotten
  <2>4. StopWaited'
    BY <1>0, <1>5 DEF AwaitRun, SRTypeOK, StopWaited
  <2> QED  BY <2>1, <2>2, <2>3, <2>4 DEF RInv
<1>6. ASSUME NEW s \in Callers, GiveUp(s) PROVE RInv'
  <2>1. SRTypeOK'
    BY <1>0, <1>6 DEF GiveUp, SRTypeOK
  <2>2. HoldsRun'
    BY <1>0, <1>6 DEF GiveUp, SRTypeOK, HoldsRun
  <2>3. NoRunForgotten'
    BY <1>0, <1>6 DEF GiveUp, SRTypeOK, NoRunForgotten
  <2>4. StopWaited'
    BY <1>0, <1>6 DEF GiveUp, SRTypeOK, StopWaited
  <2> QED  BY <2>1, <2>2, <2>3, <2>4 DEF RInv
<1>7. CASE UNCHANGED srVars
  BY <1>0, <1>7 DEF srVars, RInv, SRTypeOK, HoldsRun, NoRunForgotten, StopWaited
<1> QED
  BY <1>1, <1>2, <1>3, <1>4, <1>5, <1>6, <1>7 DEF SRNext

\* Stops and starts of one runner, in any number and order, forget no run, and
\* a Stop that returns without giving up has seen its run exit
\* (pkgs/worker/lifecycle.go).
THEOREM RunsAccounted == SRSpec => [](SRTypeOK /\ NoRunForgotten /\ StopWaited)
<1>1. SRInit => RInv
  BY InitRInv
<1>2. RInv /\ [SRNext]_srVars => RInv'
  BY NextRInv
<1>3. RInv => SRTypeOK /\ NoRunForgotten /\ StopWaited
  BY DEF RInv
<1> QED
  BY <1>1, <1>2, <1>3, PTL DEF SRSpec
=============================================================================

------------------------------ MODULE Persist ------------------------------
(***************************************************************************)
(* Debounced persistence of one service (pkgs/persistence): the Manager's  *)
(* Notify, its timer callbacks, SaveAll at shutdown, ImportAll and the     *)
(* restore at startup, over the FileStore's sequence of temporary file,    *)
(* fsync, rename and directory fsync.  The entry's mutex covers only the   *)
(* generation check; snapshots and writes run outside it.                  *)
(*                                                                         *)
(* A service's state is a version number, a snapshot the version it was    *)
(* taken at.  The services' entries share nothing but the loop of SaveAll, *)
(* so one entry is modelled.                                               *)
(***************************************************************************)
EXTENDS Integers, FiniteSets

CONSTANTS MaxVersions,  \* bound: changes of the service's state
          MaxGen,       \* bound: timers of one process that fire
          MaxOwed,      \* bound: requests between their handler and Notify
          MaxBoots      \* bound: crashes and restarts

ASSUME BoundsAssumption ==
  MaxVersions \in Nat /\ MaxGen \in Nat /\ MaxOwed \in Nat /\ MaxBoots \in Nat

VARIABLES
  mem,      \* version of the backend's state
  last,     \* versions handed out so far
  owed,     \* requests whose handler returned and that did not notify yet
  gen,      \* entry.generation
  timer,    \* the generation the armed timer captured; 0: no timer pending
  pc,       \* where each save is
  data,     \* the version each save took its snapshot at
  flushed,  \* saves whose temporary file has been fsynced
  tmps,     \* saves whose temporary file exists
  file,     \* content of snapshot.json; 0: none
  may,      \* contents a power loss may leave in snapshot.json
  dir,      \* the service's directory: "none", "made" or "durable"
  closing,  \* shutdown has begun
  boots,    \* restarts so far
  told,     \* history: version covered by the last Notify or SaveAll
  acked,    \* history: newest version whose save returned nil
  failed,   \* history: a save of this process failed or had no data
  overlapped  \* history: a snapshot was taken while a save was writing

disk == <<file, may, tmps, flushed, dir>>
history == <<told, acked, failed, overlapped>>
vars == <<mem, last, owed, gen, timer, pc, data, disk, closing, boots, history>>

\* A save is named by the generation of its timer callback, SaveAll's by 0.
All == 0
Saves == All .. MaxGen

Torn == -1  \* a file whose content did not reach the disk

Writing(s) == pc[s] \in {"create", "write", "sync", "rename"}
Saving(s) == pc[s] \in {"snapshot", "create", "write", "sync", "rename", "dirsync"}

Init ==
  /\ mem = 0 /\ last = 0 /\ owed = 0 /\ gen = 0 /\ timer = 0
  /\ pc = [s \in Saves |-> "idle"]
  /\ data = [s \in Saves |-> 0]
  /\ flushed = {} /\ tmps = {} /\ file = 0 /\ may = {0} /\ dir = "none"
  /\ closing = FALSE /\ boots = 0
  /\ told = 0 /\ acked = 0 /\ failed = FALSE /\ overlapped = FALSE
-----------------------------------------------------------------------------
(* Requests and the debounce timer.                                        *)

\* persistenceMiddleware: the handler has run; only its method tells it from
\* a request that changes nothing.
Request(changes) ==
  /\ ~closing /\ (changes => last < MaxVersions) /\ owed < MaxOwed
  /\ mem' = IF changes THEN last + 1 ELSE mem
  /\ last' = IF changes THEN last + 1 ELSE last
  /\ owed' = owed + 1
  /\ UNCHANGED <<gen, timer, pc, data, disk, closing, boots, history>>

\* ImportAll replaces the state and notifies nobody.
ImportAll ==
  /\ ~closing /\ last < MaxVersions
  /\ mem' = last + 1 /\ last' = last + 1
  /\ UNCHANGED <<owed, gen, timer, pc, data, disk, closing, boots, history>>

\* Mutant of Notify: a pending timer is reset and keeps the generation its
\* closure captured.
NotifyReuse ==
  /\ owed > 0 /\ gen < MaxGen
  /\ owed' = owed - 1
  /\ gen' = gen + 1
  /\ timer' = IF timer # 0 THEN timer ELSE gen + 1
  /\ told' = mem
  /\ UNCHANGED <<mem, last, pc, data, disk, closing, boots, acked, failed, overlapped>>

\* Notify stops the timer and starts another one.  The generation of a timer
\* that was stopped in time is never looked at, and its number is used again.
Notify ==
  /\ owed > 0 /\ (timer # 0 \/ gen < MaxGen)
  /\ owed' = owed - 1
  /\ gen' = IF timer # 0 THEN gen ELSE gen + 1
  /\ timer' = gen'
  /\ told' = mem
  /\ UNCHANGED <<mem, last, pc, data, disk, closing, boots, acked, failed, overlapped>>

\* The timer has run for debounceDuration since the last Notify, and runs its
\* callback on a goroutine of its own; from here on timer.Stop has no effect.
Fire ==
  /\ timer # 0
  /\ pc' = [pc EXCEPT ![timer] = "fired"]
  /\ timer' = 0
  /\ UNCHANGED <<mem, last, owed, gen, data, disk, closing, boots, history>>

\* saveIfCurrent under the entry's mutex.
SaveIfCurrent(g) ==
  /\ pc[g] = "fired"
  /\ pc' = [pc EXCEPT ![g] = IF gen = g THEN "snapshot" ELSE "over"]
  /\ UNCHANGED <<mem, last, owed, gen, timer, data, disk, closing, boots, history>>

\* SaveAll stops the timer, which a callback that already runs ignores, and
\* saves on its own.
SaveAll ==
  /\ ~closing
  /\ closing' = TRUE
  /\ timer' = 0
  /\ pc' = [pc EXCEPT ![All] = "snapshot"]
  /\ told' = mem
  /\ UNCHANGED <<mem, last, owed, gen, data, disk, boots, acked, failed, overlapped>>
-----------------------------------------------------------------------------
(* save and FileStore.Save.                                                *)

Snapshot(s) ==
  /\ pc[s] = "snapshot"
  /\ data' = [data EXCEPT ![s] = mem]
  /\ pc' = [pc EXCEPT ![s] = "create"]
  /\ overlapped' = (overlapped \/ \E t \in Saves : Writing(t))
  /\ UNCHANGED <<mem, last, owed, gen, timer, disk, closing, boots, told, acked, failed>>

\* MkdirAll makes the service's directory for its first snapshot.
CreateTemp(s) ==
  /\ pc[s] = "create"
  /\ pc' = [pc EXCEPT ![s] = "write"]
  /\ tmps' = tmps \cup {s}
  /\ dir' = IF dir = "none" THEN "made" ELSE dir
  /\ UNCHANGED <<mem, last, owed, gen, timer, data, file, may, flushed, closing, boots, history>>

WriteTemp(s) ==
  /\ pc[s] = "write"
  /\ pc' = [pc EXCEPT ![s] = "sync"]
  /\ UNCHANGED <<mem, last, owed, gen, timer, data, disk, closing, boots, history>>

\* Mutant of FileStore.Save: the temporary file is not fsynced.
SyncTempNever(s) ==
  /\ pc[s] = "sync"
  /\ pc' = [pc EXCEPT ![s] = "rename"]
  /\ UNCHANGED <<mem, last, owed, gen, timer, data, disk, closing, boots, history>>

SyncTemp(s) ==
  /\ pc[s] = "sync"
  /\ pc' = [pc EXCEPT ![s] = "rename"]
  /\ flushed' = flushed \cup {s}
  /\ UNCHANGED <<mem, last, owed, gen, timer, data, file, may, tmps, dir, closing, boots, history>>

\* The rename is atomic for readers, but until the directory is synced a
\* power loss may undo it; a file that was not fsynced may come back torn.
Rename(s) ==
  /\ pc[s] = "rename"
  /\ pc' = [pc EXCEPT ![s] = "dirsync"]
  /\ file' = data[s]
  /\ may' = may \cup {data[s]} \cup (IF s \in flushed THEN {} ELSE {Torn})
  /\ tmps' = tmps \ {s}
  /\ UNCHANGED <<mem, last, owed, gen, timer, data, flushed, dir, closing, boots, history>>

Newer(v, w) == IF v >= w THEN v ELSE w

\* Mutant of FileStore.Save: success is reported without syncing the directory.
SyncDirNever(s) ==
  /\ pc[s] = "dirsync"
  /\ pc' = [pc EXCEPT ![s] = "over"]
  /\ acked' = Newer(acked, data[s])
  /\ UNCHANGED <<mem, last, owed, gen, timer, data, disk, closing, boots, told, failed, overlapped>>

SyncDir(s) ==
  /\ pc[s] = "dirsync"
  /\ pc' = [pc EXCEPT ![s] = "over"]
  /\ may' = {file}
  /\ acked' = Newer(acked, data[s])
  /\ UNCHANGED <<mem, last, owed, gen, timer, data, file, tmps, flushed, dir, closing, boots,
                 told, failed, overlapped>>

\* The error paths: an empty snapshot and every step of FileStore.Save may
\* end the save; the temporary file is removed, the error only logged.
Fail(s) ==
  /\ Saving(s)
  /\ pc' = [pc EXCEPT ![s] = "over"]
  /\ tmps' = tmps \ {s}
  /\ failed' = TRUE
  /\ UNCHANGED <<mem, last, owed, gen, timer, data, file, may, flushed, dir, closing, boots,
                 told, acked, overlapped>>

\* The entry of the new directory reaches the disk: nothing in Save sees to it,
\* only the directory itself is fsynced.
DirReachesDisk ==
  /\ dir = "made" /\ dir' = "durable"
  /\ UNCHANGED <<mem, last, owed, gen, timer, pc, data, file, may, tmps, flushed, closing,
                 boots, history>>

\* What a power loss may leave; a directory that is not durable goes as a whole.
Left == may \cup (IF dir = "made" THEN {0} ELSE {})
-----------------------------------------------------------------------------
\* The process ends, after SaveAll or in a crash or power loss, and a new one
\* starts: RestoreAll loads the snapshot that is left; a load or restore that
\* fails is logged and the service starts empty.
Restart(left, restored) ==
  /\ boots < MaxBoots
  /\ file' = left /\ may' = {left} /\ tmps' = {} /\ flushed' = {}
  /\ dir' = IF dir # "made" THEN dir ELSE IF left = 0 THEN "none" ELSE "durable"
  /\ mem' = IF restored /\ left # Torn THEN left ELSE 0
  /\ told' = mem' /\ acked' = mem'
  /\ failed' = FALSE /\ overlapped' = FALSE
  /\ owed' = 0 /\ gen' = 0 /\ timer' = 0 /\ closing' = FALSE
  /\ pc' = [s \in Saves |-> "idle"]
  /\ data' = [s \in Saves |-> 0]
  /\ boots' = boots + 1
  /\ UNCHANGED last

SaveStep(s) ==
  \/ Snapshot(s) \/ CreateTemp(s) \/ WriteTemp(s) \/ SyncTemp(s)
  \/ Rename(s) \/ SyncDir(s)

Next ==
  \/ \E changes \in BOOLEAN : Request(changes)
  \/ ImportAll
  \/ Notify
  \/ Fire
  \/ SaveAll
  \/ \E g \in Saves : SaveIfCurrent(g)
  \/ \E s \in Saves : SaveStep(s) \/ Fail(s)
  \/ \E left \in Left, restored \in BOOLEAN : Restart(left, restored)
  \/ DirReachesDisk

\* Requests end and goroutines that can run do run.  A timer fires unless it is
\* stopped by Notify time and again: requests that keep coming within 500 ms of
\* each other put the save off for ever.
Fairness ==
  /\ WF_vars(Notify)
  /\ WF_vars(Fire) \/ []<><<Notify>>_vars
  /\ \A s \in Saves : WF_vars(SaveIfCurrent(s)) /\ WF_vars(SaveStep(s) \/ Fail(s))

Spec == Init /\ [][Next]_vars /\ Fairness
-----------------------------------------------------------------------------
Steps == {"idle", "fired", "snapshot", "create", "write", "sync", "rename",
          "dirsync", "over"}

\* The shape of the state; a timer never captures a generation to come.
TypeOK ==
  /\ mem \in Nat /\ last \in Nat /\ owed \in Nat /\ boots \in Nat
  /\ gen \in Saves /\ timer \in Saves /\ timer <= gen
  /\ pc \in [Saves -> Steps] /\ data \in [Saves -> Nat]
  /\ flushed \subseteq Saves /\ tmps \subseteq Saves
  /\ file \in Nat \cup {Torn} /\ may \subseteq Nat \cup {Torn} /\ file \in may
  /\ dir \in {"none", "made", "durable"}
  /\ told \in Nat /\ acked \in Nat
  /\ closing \in BOOLEAN /\ failed \in BOOLEAN /\ overlapped \in BOOLEAN

\* Whenever the power fails, the snapshot file holds a whole snapshot or is
\* absent ("a power loss between Close and Rename cannot leave a zero-length
\* or truncated file", FileStore.Save).
WholeFile == Torn \notin may

\* A temporary file exists only while the save that made it runs: no error
\* path leaves one behind.
NoTempLeft == \A s \in tmps : pc[s] \in {"write", "sync", "rename"}

\* Unless saves overlapped, what a power loss leaves is at least as new as
\* every save that returned without an error, once the service's directory, which
\* its first save made, is on the disk.
DurableOnceSaved == ~overlapped /\ dir # "made" => \A v \in Left : v >= acked

Quiet == timer = 0 /\ \A s \in Saves : pc[s] \in {"idle", "over"}

\* The debounce loses no notification: when no timer is pending and no save
\* runs, the file covers the state of the last Notify, unless a save failed
\* or saves overlapped.
SettledFile == Quiet /\ ~failed /\ ~overlapped => file >= told

\* Once notifications cease, the file comes to hold all that was notified, and
\* keeps it, but for saves that fail or overlap or a process that dies first.
\* While they keep coming nothing is promised.
EverySaved ==
  []<><<Notify>>_vars \/ <>[](file >= told \/ failed \/ overlapped \/ boots > 0)

=============================================================================

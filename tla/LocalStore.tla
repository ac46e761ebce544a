------------------------------ MODULE LocalStore ------------------------------
(***************************************************************************)
(* One client's local storage and the three actors that use it:            *)
(*                                                                         *)
(*   listener  receives a transfer, verifies it, then installs it or, when *)
(*             the application is locked, stages it as a pending update    *)
(*             (client/src/main_client.py, update_manager.py);             *)
(*   worker    the retry thread, which every RETRY_INTERVAL removes orphan *)
(*             files and applies pending updates (retry_worker.py);        *)
(*   user      locks and unlocks applications from the console.            *)
(*                                                                         *)
(* Each method of LocalState takes one lock, so the steps of a method are  *)
(* not interleaved with another method; they are separate actions here     *)
(* only where the process can die, or the disk fail, between them.  Two    *)
(* calls of the same thread ARE interleaved with the other threads.        *)
(*                                                                         *)
(* Contents: the content of a file is identified by the version whose      *)
(* transfer carried it, so installed[a] is the version of the binary that  *)
(* really is in downloads/, whatever client_state.json says.  Temporary    *)
(* files are left out: os.replace is the step that makes a write visible.  *)
(***************************************************************************)
EXTENDS Naturals

CONSTANTS Apps,          \* application names
          MaxVersion,    \* newest version the server publishes
          MaxOutages,    \* bound on abrupt deaths of the client process
          MaxFaults,     \* bound on failed or corrupting disk operations
          Garbled        \* content that is not what its header announces

ASSUME AppsAssumption == Apps # {}
ASSUME BoundsAssumption == MaxVersion \in Nat /\ MaxOutages \in Nat /\ MaxFaults \in Nat
ASSUME GarbledAssumption == Garbled \notin Nat

VARIABLES
  installed,   \* downloads/<app>: version of the content, Absent if no file
  recorded,    \* client_state.json: version recorded for the app
  pnew,        \* pending_updates/<app>.new: version of the content
  pmeta,       \* pending_updates/<app>.meta: version written in it
  locked,      \* downloads/<app>.lock exists
  mem,         \* LocalState.state["apps"]: the in-memory copy of recorded
  lpc, msg,    \* listener thread: control point, transfer in hand
  stop,        \* both stop events (they are set together)
  wpc, todo, wapp, wver,  \* worker: control point, names left, app, version read
  latest,      \* newest version the server has sent (history)
  outages, faults         \* how many of each have happened

files == <<installed, recorded, pnew, pmeta, locked>>
listener == <<lpc, msg, stop>>
worker == <<wpc, todo, wapp, wver>>
bounds == <<outages, faults>>
vars == <<files, mem, listener, worker, latest, bounds>>

Absent == 0
Versions == 1..MaxVersion
AnyApp == CHOOSE a \in Apps : TRUE
NothingStored == [a \in Apps |-> Absent]
NoTransfer == [app |-> AnyApp, version |-> Absent, data |-> Absent]
Transfers == [app : Apps, version : Versions, data : Versions \cup {Absent, Garbled}]

\* Mutant of LockFree: the methods of LocalState do not take the lock.
NoLock == TRUE

\* Control points at which a thread is inside a lock-protected method.
ListenerHolds == lpc \in {"placed", "staged"}
WorkerHolds == wpc \in {"move", "moved", "saved"}
LockFree == ~ListenerHolds /\ ~WorkerHolds

Running == lpc # "down"

Init ==
  /\ installed = NothingStored /\ recorded = NothingStored
  /\ pnew = NothingStored /\ pmeta = NothingStored
  /\ locked = [a \in Apps |-> FALSE]
  /\ mem = NothingStored
  /\ lpc = "idle" /\ msg = NoTransfer /\ stop = FALSE
  /\ wpc = "off" /\ todo = {} /\ wapp = AnyApp /\ wver = Absent
  /\ latest = NothingStored
  /\ outages = 0 /\ faults = 0

-----------------------------------------------------------------------------
(* The listener thread.                                                     *)

\* A FILE_TRANSFER or PUSH_UPDATE arrives.  Transfers of an application arrive in
\* order, which UpdateSystem shows of a server whose saves have not failed
\* (TransfersInOrder).
Receive(t) ==
  /\ lpc = "idle"
  /\ t.version >= latest[t.app]
  /\ msg' = t
  /\ latest' = [latest EXCEPT ![t.app] = t.version]
  /\ lpc' = "verify"
  /\ UNCHANGED <<files, mem, stop, worker, bounds>>

\* Mutant of Intact: the payload is not hashed.
NotHashed(t) == TRUE

\* compute_hash(file_data) = header["hash"], and there is a payload.
Intact(t) == t.data = t.version

\* process_received_file up to the hash comparison.
Verify ==
  /\ lpc = "verify"
  /\ lpc' = IF Intact(msg) THEN "checkLock" ELSE "idle"
  /\ UNCHANGED <<files, mem, msg, stop, worker, latest, bounds>>

\* is_app_locked: the answer is used after the lock has been released.
CheckAppLock ==
  /\ lpc = "checkLock" /\ LockFree
  /\ lpc' = IF locked[msg.app] THEN "stage" ELSE "install"
  /\ UNCHANGED <<files, mem, msg, stop, worker, latest, bounds>>

\* Mutant of InstallFile: the record is saved before the binary is replaced.
InstallFileRecordsFirst ==
  /\ lpc = "install" /\ LockFree
  /\ mem' = [mem EXCEPT ![msg.app] = msg.version]
  /\ recorded' = mem'
  /\ lpc' = "placed"
  /\ UNCHANGED <<installed, pnew, pmeta, locked, msg, stop, worker, latest, bounds>>

\* Mutant of InstallFile: the binary is left in its temporary file.
InstallFileForgotten ==
  /\ lpc = "install" /\ LockFree
  /\ lpc' = "placed"
  /\ UNCHANGED <<files, mem, msg, stop, worker, latest, bounds>>

\* write_installed_file: os.replace of the binary, lock taken.
InstallFile ==
  /\ lpc = "install" /\ LockFree
  /\ installed' = [installed EXCEPT ![msg.app] = msg.data]
  /\ lpc' = "placed"
  /\ UNCHANGED <<recorded, pnew, pmeta, locked, mem, msg, stop, worker, latest, bounds>>

\* write_installed_file: the in-memory record and the whole state saved.
InstallRecord ==
  /\ lpc = "placed"
  /\ mem' = [mem EXCEPT ![msg.app] = msg.version]
  /\ recorded' = mem'
  /\ lpc' = "ack"
  /\ UNCHANGED <<installed, pnew, pmeta, locked, msg, stop, worker, latest, bounds>>

\* Mutant of StageNew: a .new file that is already there is kept.
StageNewOnce ==
  /\ lpc = "stage" /\ LockFree
  /\ pnew' = [pnew EXCEPT ![msg.app] = IF @ = Absent THEN msg.data ELSE @]
  /\ lpc' = "staged"
  /\ UNCHANGED <<installed, recorded, pmeta, locked, mem, msg, stop, worker, latest, bounds>>

\* write_pending_update: os.replace of the .new file, lock taken.
StageNew ==
  /\ lpc = "stage" /\ LockFree
  /\ pnew' = [pnew EXCEPT ![msg.app] = msg.data]
  /\ lpc' = "staged"
  /\ UNCHANGED <<installed, recorded, pmeta, locked, mem, msg, stop, worker, latest, bounds>>

\* write_pending_update: os.replace of the .meta file.
StageMeta ==
  /\ lpc = "staged"
  /\ pmeta' = [pmeta EXCEPT ![msg.app] = msg.version]
  /\ lpc' = "ack"
  /\ UNCHANGED <<installed, recorded, pnew, locked, mem, msg, stop, worker, latest, bounds>>

\* An OSError at any write of the two methods: the transfer is refused, what
\* was done so far stays.  A failed save has already changed the memory.
StoreFails ==
  /\ faults < MaxFaults
  /\ \/ lpc \in {"install", "stage"} /\ LockFree /\ UNCHANGED mem
     \/ lpc = "placed" /\ mem' = [mem EXCEPT ![msg.app] = msg.version]
     \/ lpc = "staged" /\ UNCHANGED mem
  /\ faults' = faults + 1
  /\ lpc' = "idle"
  /\ UNCHANGED <<files, msg, stop, worker, latest, outages>>

\* The ACK is sent; the listener waits for the next frame.
SendAck ==
  /\ lpc = "ack"
  /\ lpc' = "idle"
  /\ UNCHANGED <<files, mem, msg, stop, worker, latest, bounds>>

\* The connection ends while reading or while sending the ACK: the listener
\* leaves its loop and sets both stop events.
LoseConnection ==
  /\ lpc \in {"idle", "ack"}
  /\ lpc' = "stopped" /\ stop' = TRUE
  /\ UNCHANGED <<files, mem, msg, worker, latest, bounds>>

-----------------------------------------------------------------------------
(* The retry worker.  It looks at its stop event only between two passes.   *)

\* connect() starts the worker once HELLO has been answered.
StartWorker ==
  /\ wpc = "off" /\ Running
  /\ wpc' = "wait"
  /\ UNCHANGED <<files, mem, listener, todo, wapp, wver, latest, bounds>>

StopWorker ==
  /\ wpc = "wait" /\ stop
  /\ wpc' = "stopped"
  /\ UNCHANGED <<files, mem, listener, todo, wapp, wver, latest, bounds>>

\* A pass begins by listing the .meta files.  Names are sorted in the code; the
\* order is left open here.
ListMetas ==
  /\ wpc = "wait" /\ ~stop /\ LockFree
  /\ todo' = {a \in Apps : pmeta[a] # Absent}
  /\ wpc' = "metas"
  /\ UNCHANGED <<files, mem, listener, wapp, wver, latest, bounds>>

\* First pass: a .meta without .new is to be deleted ...
CheckMeta(a) ==
  /\ wpc = "metas" /\ a \in todo /\ LockFree
  /\ todo' = todo \ {a}
  /\ wapp' = a
  /\ wpc' = IF pnew[a] = Absent THEN "dropMeta" ELSE "metas"
  /\ UNCHANGED <<files, mem, listener, wver, latest, bounds>>

\* ... in a second call, without looking again.
DropMeta ==
  /\ wpc = "dropMeta" /\ LockFree
  /\ pmeta' = [pmeta EXCEPT ![wapp] = Absent]
  /\ wpc' = "metas"
  /\ UNCHANGED <<installed, recorded, pnew, locked, mem, listener, todo, wapp, wver, latest, bounds>>

\* Second pass: list the .new files.
ListNews ==
  /\ wpc = "metas" /\ todo = {} /\ LockFree
  /\ todo' = {a \in Apps : pnew[a] # Absent}
  /\ wpc' = "news"
  /\ UNCHANGED <<files, mem, listener, wapp, wver, latest, bounds>>

\* Mutant of CheckNew: a .new without .meta is left for a later pass.
CheckNewIgnoresOrphan(a) ==
  /\ wpc = "news" /\ a \in todo /\ LockFree
  /\ todo' = todo \ {a}
  /\ wapp' = a
  /\ wpc' = IF pmeta[a] = Absent THEN "news" ELSE "skipLocked"
  /\ UNCHANGED <<files, mem, listener, wver, latest, bounds>>

CheckNew(a) ==
  /\ wpc = "news" /\ a \in todo /\ LockFree
  /\ todo' = todo \ {a}
  /\ wapp' = a
  /\ wpc' = IF pmeta[a] = Absent THEN "dropNew" ELSE "skipLocked"
  /\ UNCHANGED <<files, mem, listener, wver, latest, bounds>>

DropNew ==
  /\ wpc = "dropNew" /\ LockFree
  /\ pnew' = [pnew EXCEPT ![wapp] = Absent]
  /\ wpc' = "news"
  /\ UNCHANGED <<installed, recorded, pmeta, locked, mem, listener, todo, wapp, wver, latest, bounds>>

SkipLocked ==
  /\ wpc = "skipLocked" /\ LockFree
  /\ wpc' = IF locked[wapp] THEN "news" ELSE "readMeta"
  /\ UNCHANGED <<files, mem, listener, todo, wapp, wver, latest, bounds>>

\* The metadata is read in a call of its own; unusable metadata leads to the
\* deletion of both files, in two further calls.
ReadMeta ==
  /\ wpc = "readMeta" /\ LockFree
  /\ IF pmeta[wapp] \in Versions
       THEN wver' = pmeta[wapp] /\ wpc' = "apply"
       ELSE wpc' = "discardNew" /\ UNCHANGED wver
  /\ UNCHANGED <<files, mem, listener, todo, wapp, latest, bounds>>

DiscardNew ==
  /\ wpc = "discardNew" /\ LockFree
  /\ pnew' = [pnew EXCEPT ![wapp] = Absent]
  /\ wpc' = "discardMeta"
  /\ UNCHANGED <<installed, recorded, pmeta, locked, mem, listener, todo, wapp, wver, latest, bounds>>

DiscardMeta ==
  /\ wpc = "discardMeta" /\ LockFree
  /\ pmeta' = [pmeta EXCEPT ![wapp] = Absent]
  /\ wpc' = "news"
  /\ UNCHANGED <<installed, recorded, pnew, locked, mem, listener, todo, wapp, wver, latest, bounds>>

\* Mutant of ApplyCheck: the application's lock is not looked at again.
ApplyCheckFilesOnly ==
  /\ wpc = "apply" /\ LockFree
  /\ wpc' = IF pnew[wapp] # Absent /\ pmeta[wapp] # Absent THEN "move" ELSE "news"
  /\ UNCHANGED <<files, mem, listener, todo, wapp, wver, latest, bounds>>

\* apply_pending_update takes the lock and looks again at both files and at
\* the application's lock ...
ApplyCheck ==
  /\ wpc = "apply" /\ LockFree
  /\ wpc' = IF pnew[wapp] # Absent /\ pmeta[wapp] # Absent /\ ~locked[wapp]
              THEN "move" ELSE "news"
  /\ UNCHANGED <<files, mem, listener, todo, wapp, wver, latest, bounds>>

\* ... replaces the binary ...
ApplyMove ==
  /\ wpc = "move"
  /\ installed' = [installed EXCEPT ![wapp] = pnew[wapp]]
  /\ pnew' = [pnew EXCEPT ![wapp] = Absent]
  /\ wpc' = "moved"
  /\ UNCHANGED <<recorded, pmeta, locked, mem, listener, todo, wapp, wver, latest, bounds>>

\* Mutant of ApplyRecord: the state is not saved.
ApplyRecordUnsaved ==
  /\ wpc = "moved"
  /\ mem' = [mem EXCEPT ![wapp] = wver]
  /\ wpc' = "saved"
  /\ UNCHANGED <<files, listener, todo, wapp, wver, latest, bounds>>

\* ... records the version that was read in the EARLIER call ...
ApplyRecord ==
  /\ wpc = "moved"
  /\ mem' = [mem EXCEPT ![wapp] = wver]
  /\ recorded' = mem'
  /\ wpc' = "saved"
  /\ UNCHANGED <<installed, pnew, pmeta, locked, listener, todo, wapp, wver, latest, bounds>>

\* Mutant of ApplyUnlink: the metadata is left behind.
ApplyKeepsMeta ==
  /\ wpc = "saved"
  /\ wpc' = "news"
  /\ UNCHANGED <<files, mem, listener, todo, wapp, wver, latest, bounds>>

\* ... and removes the metadata.
ApplyUnlink ==
  /\ wpc = "saved"
  /\ pmeta' = [pmeta EXCEPT ![wapp] = Absent]
  /\ wpc' = "news"
  /\ UNCHANGED <<installed, recorded, pnew, locked, mem, listener, todo, wapp, wver, latest, bounds>>

\* Mutant of FinishPass: the files are listed once, not once per pass.
NeverListsAgain ==
  /\ wpc = "news" /\ todo = {}
  /\ wpc' = "news"
  /\ UNCHANGED <<files, mem, listener, todo, wapp, wver, latest, bounds>>

\* All .new files have been looked at: wait for RETRY_INTERVAL.
FinishPass ==
  /\ wpc = "news" /\ todo = {}
  /\ wpc' = "wait"
  /\ UNCHANGED <<files, mem, listener, todo, wapp, wver, latest, bounds>>

\* An OSError of a disk operation of the worker is caught nowhere: the thread
\* ends.  A failed save has already changed the memory.
WorkerFails ==
  /\ faults < MaxFaults
  /\ \/ wpc \in {"dropMeta", "dropNew", "readMeta", "discardNew", "discardMeta"}
        /\ LockFree /\ UNCHANGED mem
     \/ wpc \in {"move", "saved"} /\ UNCHANGED mem
     \/ wpc = "moved" /\ mem' = [mem EXCEPT ![wapp] = wver]
  /\ faults' = faults + 1
  /\ wpc' = "dead"
  /\ UNCHANGED <<files, listener, todo, wapp, wver, latest, outages>>

-----------------------------------------------------------------------------
(* The user, the process and the disk.                                      *)

\* Console commands are read once connect() has returned.  The code reads none
\* while main still checks for updates or waits for a download either; here the
\* user may lock and unlock then too.
Console == wpc \notin {"off", "down"}

LockApp(a) ==
  /\ Console /\ LockFree /\ ~locked[a]
  /\ locked' = [locked EXCEPT ![a] = TRUE]
  /\ UNCHANGED <<installed, recorded, pnew, pmeta, mem, listener, worker, latest, bounds>>

UnlockApp(a) ==
  /\ Console /\ LockFree /\ locked[a]
  /\ locked' = [locked EXCEPT ![a] = FALSE]
  /\ UNCHANGED <<installed, recorded, pnew, pmeta, mem, listener, worker, latest, bounds>>

Down ==
  /\ lpc' = "down" /\ msg' = NoTransfer /\ stop' = FALSE
  /\ wpc' = "down" /\ todo' = {} /\ wapp' = AnyApp /\ wver' = Absent
  /\ mem' = NothingStored
  /\ UNCHANGED <<files, latest>>

\* disconnect() sets the stop events while both threads may be at work ...
Disconnect ==
  /\ Running /\ ~stop
  /\ stop' = TRUE
  /\ UNCHANGED <<files, mem, lpc, msg, worker, latest, bounds>>

\* ... joins them, and the process ends.
Exit ==
  /\ lpc = "stopped" /\ wpc \in {"off", "stopped", "dead"}
  /\ Down /\ UNCHANGED bounds

\* The process dies at any point.  disconnect() waits only one second for the
\* worker, a daemon thread, so leaving the console can kill it the same way.
Crash ==
  /\ Running /\ outages < MaxOutages
  /\ Down /\ outages' = outages + 1 /\ UNCHANGED faults

\* A new process reads client_state.json and connects.  A file it cannot read
\* is replaced by a record of nothing, which is what DamageRecord leaves.
Restart ==
  /\ lpc = "down"
  /\ mem' = recorded
  /\ lpc' = "idle" /\ wpc' = "off"
  /\ UNCHANGED <<files, msg, stop, todo, wapp, wver, latest, bounds>>

\* client_state.json is damaged from outside: it is then read as an empty record,
\* or written anew by the running process before it is read.
DamageRecord ==
  /\ faults < MaxFaults /\ recorded # NothingStored
  /\ recorded' = NothingStored
  /\ faults' = faults + 1
  /\ UNCHANGED <<installed, pnew, pmeta, locked, mem, listener, worker, latest, outages>>

\* A .meta file is damaged from outside.
DamageMeta(a) ==
  /\ faults < MaxFaults /\ pmeta[a] \in Versions
  /\ pmeta' = [pmeta EXCEPT ![a] = Garbled]
  /\ faults' = faults + 1
  /\ UNCHANGED <<installed, recorded, pnew, locked, mem, listener, worker, latest, outages>>

-----------------------------------------------------------------------------
Listener ==
  \/ Verify \/ CheckAppLock \/ InstallFile \/ InstallRecord
  \/ StageNew \/ StageMeta \/ SendAck

Worker ==
  \/ StopWorker \/ ListMetas \/ DropMeta \/ ListNews \/ DropNew
  \/ \E a \in Apps : CheckMeta(a) \/ CheckNew(a)
  \/ SkipLocked \/ ReadMeta \/ DiscardNew \/ DiscardMeta
  \/ ApplyCheck \/ ApplyMove \/ ApplyRecord \/ ApplyUnlink \/ FinishPass

Environment ==
  \/ \E t \in Transfers : Receive(t)
  \/ StoreFails \/ LoseConnection \/ StartWorker \/ WorkerFails
  \/ \E a \in Apps : LockApp(a) \/ UnlockApp(a) \/ DamageMeta(a)
  \/ Disconnect \/ Exit \/ Crash \/ Restart \/ DamageRecord

Next == Listener \/ Worker \/ Environment

Spec == Init /\ [][Next]_vars

\* Both threads are scheduled, and neither is for ever refused the lock of
\* LocalState: every holder releases it after a bounded number of disk writes
\* and takes it again only for its next call.  Nothing is assumed of the user,
\* of the network, of the disk or of the process's life.
Fairness == SF_vars(Listener) /\ SF_vars(Worker)

FairSpec == Spec /\ Fairness

-----------------------------------------------------------------------------
(* Properties.                                                              *)

TypeOK ==
  /\ installed \in [Apps -> Versions \cup {Absent}]
  /\ recorded \in [Apps -> Versions \cup {Absent}]
  /\ pnew \in [Apps -> Versions \cup {Absent}]
  /\ pmeta \in [Apps -> Versions \cup {Absent, Garbled}]
  /\ locked \in [Apps -> BOOLEAN]
  /\ mem \in [Apps -> Versions \cup {Absent}]
  /\ lpc \in {"idle", "verify", "checkLock", "install", "placed", "stage", "staged",
              "ack", "stopped", "down"}
  /\ msg \in Transfers \cup {NoTransfer} /\ stop \in BOOLEAN
  /\ wpc \in {"off", "wait", "metas", "dropMeta", "news", "dropNew", "skipLocked",
              "readMeta", "discardNew", "discardMeta", "apply", "move", "moved",
              "saved", "dead", "stopped", "down"}
  /\ todo \subseteq Apps /\ wapp \in Apps /\ wver \in Versions \cup {Absent}
  /\ latest \in [Apps -> Versions \cup {Absent}]
  /\ outages \in 0..MaxOutages /\ faults \in 0..MaxFaults

\* client_state.json names only applications whose binary is in downloads/,
\* whenever the process dies and whichever write fails (local_state.py writes
\* the binary before the record, in both methods that install).
RecordedIsInstalled ==
  \A a \in Apps : recorded[a] # Absent => installed[a] # Absent

\* The metadata of a pending update never announces a newer version than the
\* binary beside it holds, even after a death between the two replacements of
\* write_pending_update: an update applied from such a pair is recorded as too
\* old, and fetched again, never as too new, and missed.
MetaNotAhead ==
  \A a \in Apps : pnew[a] # Absent /\ pmeta[a] \in Versions => pmeta[a] <= pnew[a]

\* While no process has died and no disk operation has failed, the record is
\* never ahead of the installed binary when no method is in progress, although
\* the worker records a version it read two calls earlier.
RecordNotAhead ==
  outages = 0 /\ faults = 0 /\ LockFree =>
    \A a \in Apps : recorded[a] <= installed[a]

\* While no process has died and no disk operation has failed, a .new file has
\* its .meta file and the reverse, with the same version: the orphans the
\* worker deletes are left by crashes, never by the other threads.
PendingPaired ==
  outages = 0 /\ faults = 0 /\ LockFree => pnew = pmeta

\* While no process has died and no disk operation has failed, a pending
\* update disappears only by being installed or replaced by one as new: the
\* worker's look-then-delete never removes an update the listener has just
\* staged.
PendingLeavesByInstall ==
  [][outages' = 0 /\ faults' = 0 =>
       \A a \in Apps : pnew[a] # pnew'[a] =>
         installed'[a] = pnew[a] \/ pnew'[a] >= pnew[a]]_vars

\* Only the listener's installation, whose look at the lock is a call of its
\* own, may replace the binary of a locked application; the worker never does:
\* a lock taken after SkipLocked looked is seen by apply_pending_update.
RetryRespectsLock ==
  [][\A a \in Apps : installed'[a] # installed[a] /\ lpc' # "placed" => ~locked[a]]_vars

\* What get_local_apps_payload reports to the server is what a restarted
\* client would report, as long as no disk operation has failed.
ReportedIsDurable ==
  faults = 0 /\ Running /\ LockFree => mem = recorded

WorkerRuns == wpc \notin {"off", "dead", "stopped", "down"} /\ ~stop

\* While the worker runs and the listener stages nothing more for an
\* application, its orphan files, left by a death in write_pending_update or
\* apply_pending_update, are removed.
OrphansCleared ==
  \A a \in Apps :
    <>[](WorkerRuns /\ ~(lpc \in {"stage", "staged"} /\ msg.app = a))
      => <>[]((pnew[a] = Absent) <=> (pmeta[a] = Absent))

\* While the worker runs and the user leaves an application unlocked, its
\* pending update does not wait for ever.
PendingApplied ==
  \A a \in Apps :
    <>[](WorkerRuns /\ ~locked[a]) => []<>(pnew[a] = Absent /\ pmeta[a] = Absent)

-----------------------------------------------------------------------------
(* The abstract specification.                                              *)

Slots == INSTANCE UpdateSlots WITH
  announced <- latest, current <- installed, staged <- pnew,
  disturbed <- (outages > 0 \/ faults > 0)

\* The storage is one installed and one staged version per application: the
\* files, threads and calls of the client do nothing an atomic store would not
\* do, whatever dies or fails, and give up a staged update only after that.
SlotsSpec == Slots!Spec

-----------------------------------------------------------------------------
(* Statements of the repository that the code does not keep.                *)

\* README.md:439: "If an update arrives while the application is locked, the
\* installed file is not overwritten."  process_received_file asks is_app_locked
\* and installs in two calls.
LockedNotOverwritten ==
  [][\A a \in Apps : installed'[a] # installed[a] => ~locked[a]]_vars

\* test_client_retry.py:347 wants v3 installed, not v2, once v3 has arrived
\* after a pending v2.  write_installed_file leaves the older pending update in
\* place, and the worker applies it over the newer binary.
NoDowngrade ==
  [][\A a \in Apps : installed'[a] >= installed[a]]_vars
=============================================================================

--------------------------- MODULE LocalStoreProofs ---------------------------
(***************************************************************************)
(* Theorems about LocalStore, for every set of applications, every number  *)
(* of versions and every number of outages and disk faults.                *)
(***************************************************************************)
EXTENDS LocalStore, TLAPS

-----------------------------------------------------------------------------
(* Type correctness.                                                        *)

\* The constants and the initial values have their types.
LEMMA Types ==
  /\ AnyApp \in Apps
  /\ Absent \notin Versions /\ Versions \subseteq Nat /\ Absent \in Nat
  /\ Garbled \notin Nat
  /\ \A t \in Transfers :
       /\ t.app \in Apps /\ t.version \in Versions
       /\ Intact(t) => t.data \in Versions
  /\ NothingStored \in [Apps -> Versions \cup {Absent}]
  /\ NothingStored \in [Apps -> Versions \cup {Absent, Garbled}]
BY AppsAssumption, BoundsAssumption, GarbledAssumption
   DEF AnyApp, Absent, Versions, Transfers, Intact, NothingStored

\* A transfer that is being stored has passed the hash comparison.
Storing == lpc \in {"checkLock", "install", "placed", "stage", "staged", "ack"}
Verified ==
  /\ lpc = "verify" => msg \in Transfers
  /\ Storing => msg \in Transfers /\ Intact(msg)

\* The two threads end together when the process does.
DownTogether == lpc = "down" => wpc = "down"

TypeInv == TypeOK /\ Verified /\ DownTogether

\* Typing, with the facts about control it depends on.
LEMMA TypeInvariant == Spec => []TypeInv
<1>1. Init => TypeInv
  <2> SUFFICES ASSUME Init PROVE TypeInv
    OBVIOUS
  <2>1. [a \in Apps |-> FALSE] \in [Apps -> BOOLEAN]
    OBVIOUS
  <2>2. /\ installed \in [Apps -> Versions \cup {Absent}]
        /\ pmeta \in [Apps -> Versions \cup {Absent, Garbled}]
        /\ locked \in [Apps -> BOOLEAN]
    BY <2>1, Types DEF Init
  <2>3. outages \in 0..MaxOutages /\ faults \in 0..MaxFaults
    BY BoundsAssumption DEF Init
  <2>4. TypeOK
    BY <2>2, <2>3, Types DEF Init, TypeOK
  <2>5. QED
    BY <2>4 DEF Init, TypeInv, Verified, DownTogether, Storing
<1>2. TypeInv /\ [Next]_vars => TypeInv'
  <2> SUFFICES ASSUME TypeInv, [Next]_vars PROVE TypeInv'
    OBVIOUS
  <2> USE Types DEF TypeInv, TypeOK, Verified, DownTogether, Storing, vars, files, listener, worker, bounds
  <2>1. ASSUME NEW t \in Transfers, Receive(t) PROVE TypeInv'
    BY <2>1 DEF Receive
  <2>2. CASE Verify
    BY <2>2 DEF Verify
  <2>3. CASE CheckAppLock
    BY <2>3 DEF CheckAppLock
  <2>4. CASE InstallFile
    BY <2>4 DEF InstallFile
  <2>5. CASE InstallRecord
    BY <2>5 DEF InstallRecord
  <2>6. CASE StageNew
    BY <2>6 DEF StageNew
  <2>7. CASE StageMeta
    BY <2>7 DEF StageMeta
  <2>8. CASE StoreFails
    BY <2>8, BoundsAssumption DEF StoreFails
  <2>9. CASE SendAck
    BY <2>9 DEF SendAck
  <2>10. CASE LoseConnection
    BY <2>10 DEF LoseConnection
  <2>11. CASE StartWorker
    BY <2>11 DEF StartWorker
  <2>12. CASE StopWorker
    BY <2>12 DEF StopWorker
  <2>13. CASE ListMetas
    BY <2>13 DEF ListMetas
  <2>14. ASSUME NEW a \in Apps, CheckMeta(a) PROVE TypeInv'
    BY <2>14 DEF CheckMeta
  <2>15. CASE DropMeta
    BY <2>15 DEF DropMeta
  <2>16. CASE ListNews
    BY <2>16 DEF ListNews
  <2>17. ASSUME NEW a \in Apps, CheckNew(a) PROVE TypeInv'
    BY <2>17 DEF CheckNew
  <2>18. CASE DropNew
    BY <2>18 DEF DropNew
  <2>19. CASE SkipLocked
    BY <2>19 DEF SkipLocked
  <2>20. CASE ReadMeta
    BY <2>20 DEF ReadMeta
  <2>21. CASE DiscardNew
    BY <2>21 DEF DiscardNew
  <2>22. CASE DiscardMeta
    BY <2>22 DEF DiscardMeta
  <2>23. CASE ApplyCheck
    BY <2>23 DEF ApplyCheck
  <2>24. CASE ApplyMove
    BY <2>24 DEF ApplyMove
  <2>25. CASE ApplyRecord
    BY <2>25 DEF ApplyRecord
  <2>26. CASE ApplyUnlink
    BY <2>26 DEF ApplyUnlink
  <2>27. CASE FinishPass
    BY <2>27 DEF FinishPass
  <2>28. CASE WorkerFails
    BY <2>28, BoundsAssumption DEF WorkerFails
  <2>29. ASSUME NEW a \in Apps, LockApp(a) PROVE TypeInv'
    BY <2>29 DEF LockApp
  <2>30. ASSUME NEW a \in Apps, UnlockApp(a) PROVE TypeInv'
    BY <2>30 DEF UnlockApp
  <2>31. ASSUME NEW a \in Apps, DamageMeta(a) PROVE TypeInv'
    BY <2>31, BoundsAssumption DEF DamageMeta
  <2>32. CASE Disconnect
    BY <2>32 DEF Disconnect
  <2>33. CASE Exit
    BY <2>33 DEF Exit, Down
  <2>34. CASE Crash
    <3>1. outages' \in 0..MaxOutages /\ faults' \in 0..MaxFaults
      BY <2>34, BoundsAssumption DEF Crash
    <3>2. QED
      BY <2>34, <3>1 DEF Crash, Down
  <2>35. CASE Restart
    BY <2>35 DEF Restart
  <2>36. CASE DamageRecord
    <3>1. faults' \in 0..MaxFaults
      BY <2>36, BoundsAssumption DEF DamageRecord
    <3>2. QED
      BY <2>36, <3>1, Types DEF DamageRecord
  <2>37. CASE UNCHANGED vars
    BY <2>37
  <2>38. QED
    BY <2>1, <2>2, <2>3, <2>4, <2>5, <2>6, <2>7, <2>8, <2>9, <2>10, <2>11, <2>12,
       <2>13, <2>14, <2>15, <2>16, <2>17, <2>18, <2>19, <2>20, <2>21, <2>22, <2>23,
       <2>24, <2>25, <2>26, <2>27, <2>28, <2>29, <2>30, <2>31, <2>32, <2>33, <2>34,
       <2>35, <2>36, <2>37
       DEF Next, Listener, Worker, Environment
<1>3. QED
  BY <1>1, <1>2, PTL DEF Spec

\* Every variable keeps its type; in particular only transfers whose content
\* matches their hash reach the disk.
THEOREM TypeCorrect == Spec => []TypeOK
<1>1. TypeInv => TypeOK
  BY DEF TypeInv
<1>2. QED
  BY <1>1, TypeInvariant, PTL

-----------------------------------------------------------------------------
(* The inductive invariant behind the properties that survive crashes.      *)

\* Nothing stored, staged or read is newer than what the server has sent, and
\* the transfer in hand is the newest of its application.
BoundedByLatest ==
  /\ \A a \in Apps :
       /\ pnew[a] <= latest[a] /\ recorded[a] <= latest[a] /\ mem[a] <= latest[a]
       /\ pmeta[a] \in Versions => pmeta[a] <= latest[a]
  /\ lpc = "verify" \/ Storing => msg.version = latest[msg.app]
  /\ wpc \in {"apply", "move", "moved"} => wver \in Versions /\ wver <= latest[wapp]

\* One thread at a time is inside a method of LocalState, and what it did
\* before its next write is still there.
Critical ==
  /\ ~(ListenerHolds /\ WorkerHolds)
  /\ lpc = "placed" => installed[msg.app] = msg.version
  /\ lpc = "staged" => pnew[msg.app] = msg.version
  /\ wpc = "move" => pnew[wapp] # Absent /\ ~locked[wapp]
  /\ wpc \in {"moved", "saved"} => pnew[wapp] = Absent
  /\ wpc = "moved" => installed[wapp] # Absent /\ wver <= installed[wapp]
  /\ wpc \in {"apply", "move"} /\ pnew[wapp] # Absent => wver <= pnew[wapp]

\* The record and its copy in memory name only what is installed.
Present ==
  \A a \in Apps : recorded[a] # Absent \/ mem[a] # Absent => installed[a] # Absent

CrashInv ==
  /\ BoundedByLatest /\ Critical /\ Present /\ MetaNotAhead
  /\ faults = 0 /\ Running => mem = recorded


\* The invariant holds whatever dies or fails.
LEMMA CrashSafe == Spec => []CrashInv
<1>1. Init => CrashInv
  BY Types DEF Init, CrashInv, BoundedByLatest, Critical, Present, MetaNotAhead,
       Storing, ListenerHolds, WorkerHolds, NothingStored, Absent
<1>2. TypeInv /\ TypeInv' /\ CrashInv /\ [Next]_vars => CrashInv'
  <2> SUFFICES ASSUME TypeInv, TypeInv', CrashInv, [Next]_vars PROVE CrashInv'
    OBVIOUS
  <2>0. \A b \in Apps : /\ pnew[b] \in Nat /\ latest[b] \in Nat
                        /\ recorded[b] \in Nat /\ mem[b] \in Nat
    <3>1. \A v \in Versions \cup {Absent} : v \in Nat
      BY Types
    <3>2. QED
      BY <3>1 DEF TypeInv, TypeOK
  <2> USE Types DEF TypeInv, TypeOK, Verified, DownTogether, Storing, CrashInv, BoundedByLatest,
        Critical, Present, MetaNotAhead, LockFree, ListenerHolds, WorkerHolds,
        Running, vars, files, listener, worker, bounds, Absent
  <2>1. ASSUME NEW t \in Transfers, Receive(t) PROVE CrashInv'
    <3>1. BoundedByLatest'
      <4>1. ASSUME NEW b \in Apps
            PROVE  /\ pnew'[b] <= latest'[b]
                   /\ recorded'[b] <= latest'[b]
                   /\ mem'[b] <= latest'[b]
                   /\ pmeta'[b] \in Versions => pmeta'[b] <= latest'[b]
        <5>1. t.app \in Apps /\ t.version \in Nat /\ latest[t.app] <= t.version
          BY <2>1 DEF Receive
        <5>2. latest'[b] = IF b = t.app THEN t.version ELSE latest[b]
          BY <2>1 DEF Receive
        <5>3. latest[b] <= latest'[b] /\ latest'[b] \in Nat
          BY <2>0, <5>1, <5>2
        <5>4. \A n \in Nat : n <= latest[b] => n <= latest'[b]
          BY <2>0, <5>3
        <5>5. QED
          BY <2>0, <2>1, <5>4 DEF Receive
      <4>2. (Storing \/ lpc = "verify" => msg.version = latest[msg.app])'
        BY <2>1 DEF Receive
      <4>3. (wpc \in {"apply", "move", "moved"} => wver \in Versions /\ wver <= latest[wapp])'
        <5>1. latest'[wapp] = IF wapp = t.app THEN t.version ELSE latest[wapp]
          BY <2>1 DEF Receive
        <5>2. /\ t.version \in Nat /\ latest[t.app] <= t.version
              /\ wapp \in Apps /\ latest[wapp] \in Nat
              /\ wpc' = wpc /\ wver' = wver /\ wapp' = wapp
          BY <2>0, <2>1 DEF Receive
        <5>3. latest[wapp] <= latest'[wapp] /\ latest'[wapp] \in Nat
          BY <5>1, <5>2
        <5>4. QED
          BY <5>2, <5>3
      <4>4. QED
        BY <4>1, <4>2, <4>3
    <3>2. Critical'
      BY <2>1 DEF Receive
    <3>3. Present'
      BY <2>1 DEF Receive
    <3>4. MetaNotAhead'
      BY <2>1 DEF Receive
    <3>5. (faults = 0 /\ Running => mem = recorded)'
      BY <2>1 DEF Receive
    <3>6. QED
      BY <3>1, <3>2, <3>3, <3>4, <3>5
  <2>2. CASE Verify
    BY <2>2 DEF Verify
  <2>3. CASE CheckAppLock
    BY <2>3 DEF CheckAppLock
  <2>4. CASE InstallFile
    BY <2>4 DEF InstallFile, Intact
  <2>5. CASE InstallRecord
    <3>1. BoundedByLatest'
      <4>1. ASSUME NEW b \in Apps
            PROVE  /\ pnew'[b] <= latest'[b]
                   /\ recorded'[b] <= latest'[b]
                   /\ mem'[b] <= latest'[b]
                   /\ pmeta'[b] \in Versions => pmeta'[b] <= latest'[b]
        BY <2>0, <2>5 DEF InstallRecord
      <4>2. QED
        BY <2>5, <4>1 DEF InstallRecord
    <3>2. Critical'
      BY <2>5 DEF InstallRecord
    <3>3. Present'
      BY <2>5 DEF InstallRecord
    <3>4. MetaNotAhead'
      BY <2>5 DEF InstallRecord
    <3>5. (faults = 0 /\ Running => mem = recorded)'
      BY <2>5 DEF InstallRecord
    <3>6. QED
      BY <3>1, <3>2, <3>3, <3>4, <3>5
  <2>6. CASE StageNew
    <3>1. BoundedByLatest'
      <4>1. ASSUME NEW b \in Apps
            PROVE  /\ pnew'[b] <= latest'[b]
                   /\ recorded'[b] <= latest'[b]
                   /\ mem'[b] <= latest'[b]
                   /\ pmeta'[b] \in Versions => pmeta'[b] <= latest'[b]
        BY <2>0, <2>6 DEF StageNew, Intact
      <4>2. QED
        BY <2>6, <4>1 DEF StageNew, Intact
    <3>2. Critical'
      BY <2>6 DEF StageNew, Intact
    <3>3. Present'
      BY <2>6 DEF StageNew, Intact
    <3>4. MetaNotAhead'
      BY <2>6 DEF StageNew, Intact
    <3>5. (faults = 0 /\ Running => mem = recorded)'
      BY <2>6 DEF StageNew, Intact
    <3>6. QED
      BY <3>1, <3>2, <3>3, <3>4, <3>5
  <2>7. CASE StageMeta
    BY <2>7 DEF StageMeta
  <2>8. CASE StoreFails
    <3>1. BoundedByLatest'
      <4>1. ASSUME NEW b \in Apps
            PROVE  /\ pnew'[b] <= latest'[b]
                   /\ recorded'[b] <= latest'[b]
                   /\ mem'[b] <= latest'[b]
                   /\ pmeta'[b] \in Versions => pmeta'[b] <= latest'[b]
        BY <2>0, <2>8 DEF StoreFails
      <4>2. QED
        BY <2>8, <4>1 DEF StoreFails
    <3>2. Critical'
      BY <2>8 DEF StoreFails
    <3>3. Present'
      BY <2>8 DEF StoreFails
    <3>4. MetaNotAhead'
      BY <2>8 DEF StoreFails
    <3>5. (faults = 0 /\ Running => mem = recorded)'
      BY <2>8 DEF StoreFails
    <3>6. QED
      BY <3>1, <3>2, <3>3, <3>4, <3>5
  <2>9. CASE SendAck
    BY <2>9 DEF SendAck
  <2>10. CASE LoseConnection
    BY <2>10 DEF LoseConnection
  <2>11. CASE StartWorker
    BY <2>11 DEF StartWorker
  <2>12. CASE StopWorker
    BY <2>12 DEF StopWorker
  <2>13. CASE ListMetas
    BY <2>13 DEF ListMetas
  <2>14. ASSUME NEW a \in Apps, CheckMeta(a) PROVE CrashInv'
    BY <2>14 DEF CheckMeta
  <2>15. CASE DropMeta
    BY <2>15 DEF DropMeta
  <2>16. CASE ListNews
    BY <2>16 DEF ListNews
  <2>17. ASSUME NEW a \in Apps, CheckNew(a) PROVE CrashInv'
    BY <2>17 DEF CheckNew
  <2>18. CASE DropNew
    <3>1. BoundedByLatest'
      <4>1. ASSUME NEW b \in Apps
            PROVE  /\ pnew'[b] <= latest'[b]
                   /\ recorded'[b] <= latest'[b]
                   /\ mem'[b] <= latest'[b]
                   /\ pmeta'[b] \in Versions => pmeta'[b] <= latest'[b]
        BY <2>0, <2>18 DEF DropNew
      <4>2. QED
        BY <2>18, <4>1 DEF DropNew
    <3>2. Critical'
      BY <2>18 DEF DropNew
    <3>3. Present'
      BY <2>18 DEF DropNew
    <3>4. MetaNotAhead'
      BY <2>18 DEF DropNew
    <3>5. (faults = 0 /\ Running => mem = recorded)'
      BY <2>18 DEF DropNew
    <3>6. QED
      BY <3>1, <3>2, <3>3, <3>4, <3>5
  <2>19. CASE SkipLocked
    BY <2>19 DEF SkipLocked
  <2>20. CASE ReadMeta
    BY <2>20 DEF ReadMeta
  <2>21. CASE DiscardNew
    <3>1. BoundedByLatest'
      <4>1. ASSUME NEW b \in Apps
            PROVE  /\ pnew'[b] <= latest'[b]
                   /\ recorded'[b] <= latest'[b]
                   /\ mem'[b] <= latest'[b]
                   /\ pmeta'[b] \in Versions => pmeta'[b] <= latest'[b]
        BY <2>0, <2>21 DEF DiscardNew
      <4>2. QED
        BY <2>21, <4>1 DEF DiscardNew
    <3>2. Critical'
      BY <2>21 DEF DiscardNew
    <3>3. Present'
      BY <2>21 DEF DiscardNew
    <3>4. MetaNotAhead'
      BY <2>21 DEF DiscardNew
    <3>5. (faults = 0 /\ Running => mem = recorded)'
      BY <2>21 DEF DiscardNew
    <3>6. QED
      BY <3>1, <3>2, <3>3, <3>4, <3>5
  <2>22. CASE DiscardMeta
    BY <2>22 DEF DiscardMeta
  <2>23. CASE ApplyCheck
    BY <2>23 DEF ApplyCheck
  <2>24. CASE ApplyMove
    <3>1. BoundedByLatest'
      <4>1. ASSUME NEW b \in Apps
            PROVE  /\ pnew'[b] <= latest'[b]
                   /\ recorded'[b] <= latest'[b]
                   /\ mem'[b] <= latest'[b]
                   /\ pmeta'[b] \in Versions => pmeta'[b] <= latest'[b]
        BY <2>0, <2>24 DEF ApplyMove
      <4>2. QED
        BY <2>24, <4>1 DEF ApplyMove
    <3>2. Critical'
      BY <2>24 DEF ApplyMove
    <3>3. Present'
      BY <2>24 DEF ApplyMove
    <3>4. MetaNotAhead'
      BY <2>24 DEF ApplyMove
    <3>5. (faults = 0 /\ Running => mem = recorded)'
      BY <2>24 DEF ApplyMove
    <3>6. QED
      BY <3>1, <3>2, <3>3, <3>4, <3>5
  <2>25. CASE ApplyRecord
    BY <2>25 DEF ApplyRecord
  <2>26. CASE ApplyUnlink
    BY <2>26 DEF ApplyUnlink
  <2>27. CASE FinishPass
    BY <2>27 DEF FinishPass
  <2>28. CASE WorkerFails
    BY <2>28 DEF WorkerFails
  <2>29. ASSUME NEW a \in Apps, LockApp(a) PROVE CrashInv'
    BY <2>29 DEF LockApp
  <2>30. ASSUME NEW a \in Apps, UnlockApp(a) PROVE CrashInv'
    BY <2>30 DEF UnlockApp
  <2>31. ASSUME NEW a \in Apps, DamageMeta(a) PROVE CrashInv'
    <3>1. BoundedByLatest'
      <4>1. ASSUME NEW b \in Apps
            PROVE  /\ pnew'[b] <= latest'[b]
                   /\ recorded'[b] <= latest'[b]
                   /\ mem'[b] <= latest'[b]
                   /\ pmeta'[b] \in Versions => pmeta'[b] <= latest'[b]
        BY <2>0, <2>31 DEF DamageMeta
      <4>2. QED
        BY <2>31, <4>1 DEF DamageMeta
    <3>2. Critical'
      BY <2>31 DEF DamageMeta
    <3>3. Present'
      BY <2>31 DEF DamageMeta
    <3>4. MetaNotAhead'
      BY <2>31 DEF DamageMeta
    <3>5. (faults = 0 /\ Running => mem = recorded)'
      BY <2>31 DEF DamageMeta
    <3>6. QED
      BY <3>1, <3>2, <3>3, <3>4, <3>5
  <2>32. CASE Disconnect
    BY <2>32 DEF Disconnect
  <2>33. CASE Exit
    <3>1. BoundedByLatest'
      BY <2>0, <2>33 DEF Exit, Down, NothingStored
    <3>2. Critical' /\ Present' /\ MetaNotAhead'
      BY <2>33 DEF Exit, Down, NothingStored
    <3>3. (faults = 0 /\ Running => mem = recorded)'
      BY <2>33 DEF Exit, Down, NothingStored
    <3>4. QED
      BY <3>1, <3>2, <3>3
  <2>34. CASE Crash
    <3>1. BoundedByLatest'
      BY <2>0, <2>34 DEF Crash, Down, NothingStored
    <3>2. Critical' /\ Present' /\ MetaNotAhead'
      BY <2>34 DEF Crash, Down, NothingStored
    <3>3. (faults = 0 /\ Running => mem = recorded)'
      BY <2>34 DEF Crash, Down, NothingStored
    <3>4. QED
      BY <3>1, <3>2, <3>3
  <2>35. CASE Restart
    BY <2>35 DEF Restart
  <2>36. CASE DamageRecord
    <3>1. BoundedByLatest'
      BY <2>0, <2>36 DEF DamageRecord, NothingStored
    <3>2. Critical' /\ Present' /\ MetaNotAhead'
      BY <2>36 DEF DamageRecord, NothingStored
    <3>3. (faults = 0 /\ Running => mem = recorded)'
      BY <2>36 DEF DamageRecord
    <3>4. QED
      BY <3>1, <3>2, <3>3
  <2>37. CASE UNCHANGED vars
    BY <2>37
  <2>38. QED
    BY <2>1, <2>2, <2>3, <2>4, <2>5, <2>6, <2>7, <2>8, <2>9, <2>10, <2>11, <2>12,
       <2>13, <2>14, <2>15, <2>16, <2>17, <2>18, <2>19, <2>20, <2>21, <2>22, <2>23,
       <2>24, <2>25, <2>26, <2>27, <2>28, <2>29, <2>30, <2>31, <2>32, <2>33, <2>34,
       <2>35, <2>36, <2>37
       DEF Next, Listener, Worker, Environment
<1>3. QED
  BY <1>1, <1>2, TypeInvariant, PTL DEF Spec

\* client_state.json never names an application without a binary.
THEOREM RecordSurvivesCrashes == Spec => []RecordedIsInstalled
<1>1. CrashInv => RecordedIsInstalled
  BY DEF CrashInv, Present, RecordedIsInstalled
<1>2. QED
  BY <1>1, CrashSafe, PTL

\* Metadata of a pending update is never ahead of the binary beside it.
THEOREM MetadataSurvivesCrashes == Spec => []MetaNotAhead
<1>1. CrashInv => MetaNotAhead
  BY DEF CrashInv
<1>2. QED
  BY <1>1, CrashSafe, PTL

\* What the client reports is what it has saved, unless a disk operation failed.
THEOREM ReportsAreDurable == Spec => []ReportedIsDurable
<1>1. CrashInv => ReportedIsDurable
  BY DEF CrashInv, ReportedIsDurable
<1>2. QED
  BY <1>1, CrashSafe, PTL

\* The worker never replaces the binary of a locked application.
THEOREM WorkerRespectsLocks == Spec => RetryRespectsLock
<1> DEFINE Respects ==
      \A a \in Apps : installed'[a] # installed[a] /\ lpc' # "placed" => ~locked[a]
<1>1. TypeInv /\ CrashInv /\ [Next]_vars => [Respects]_vars
  <2> SUFFICES ASSUME TypeInv, CrashInv, [Next]_vars, NEW a \in Apps,
                      installed'[a] # installed[a], lpc' # "placed"
               PROVE  ~locked[a]
    OBVIOUS
  <2>1. CASE ApplyMove
    <3>1. a = wapp
      BY <2>1 DEF ApplyMove, TypeInv, TypeOK
    <3>2. QED
      BY <2>1, <3>1 DEF ApplyMove, CrashInv, Critical
  <2>2. CASE InstallFile
    BY <2>2 DEF InstallFile
  <2>3. CASE ~ApplyMove /\ ~InstallFile
    <3>1. installed' = installed
      BY <2>3 DEF Next, Listener, Worker, Environment, vars, files, Receive, Verify,
           CheckAppLock, InstallRecord, StageNew, StageMeta, StoreFails, SendAck,
           LoseConnection, StartWorker, StopWorker, ListMetas, CheckMeta, DropMeta,
           ListNews, CheckNew, DropNew, SkipLocked, ReadMeta, DiscardNew, DiscardMeta,
           ApplyCheck, ApplyRecord, ApplyUnlink, FinishPass, WorkerFails, LockApp,
           UnlockApp, DamageMeta, Disconnect, Exit, Crash, Down, Restart, DamageRecord
    <3>2. QED
      BY <3>1
  <2>4. QED
    BY <2>1, <2>2, <2>3
<1>2. QED
  BY <1>1, TypeInvariant, CrashSafe, PTL DEF Spec, RetryRespectsLock

-----------------------------------------------------------------------------
(* What holds besides while no process has died and no disk has failed.     *)

Quiet == outages = 0 /\ faults = 0

\* The record is behind the binary, except while an older update is applied.
RecordBehind ==
  \A a \in Apps : recorded[a] <= installed[a] \/ (wpc = "moved" /\ wapp = a)

\* A pending pair is complete, except inside the method that makes or ends it.
Paired ==
  \A a \in Apps :
    \/ pnew[a] = pmeta[a]
    \/ lpc = "staged" /\ a = msg.app
    \/ wpc \in {"moved", "saved"} /\ a = wapp

\* So the worker finds no orphan: what it listed is still there when it looks.
ListedIsThere ==
  /\ wpc \notin {"dropMeta", "dropNew", "discardNew", "discardMeta"}
  /\ wpc = "metas" => \A a \in todo : pmeta[a] # Absent
  /\ wpc \in {"news", "skipLocked", "readMeta", "apply", "move", "moved", "saved"}
       => \A a \in todo : pnew[a] # Absent
  /\ wpc \in {"skipLocked", "readMeta", "apply", "move", "moved", "saved"} => wapp \notin todo
  /\ wpc \in {"skipLocked", "readMeta"} => pnew[wapp] # Absent

QuietInv == Quiet => RecordBehind /\ Paired /\ ListedIsThere

\* The invariant of undisturbed behaviours; it rests on CrashSafe.
LEMMA QuietSafe == Spec => []QuietInv
<1> DEFINE QuietGoal == RecordBehind /\ Paired /\ ListedIsThere
<1>1. Init => QuietInv
  BY Types DEF Init, QuietInv, Quiet, RecordBehind, Paired, ListedIsThere,
       NothingStored, Absent
<1>2. TypeInv /\ [Next]_vars /\ Quiet' => Quiet
  <2> SUFFICES ASSUME TypeInv, [Next]_vars, Quiet' PROVE Quiet
    OBVIOUS
  <2>1. /\ outages' = outages \/ outages' = outages + 1
        /\ faults' = faults \/ faults' = faults + 1
    BY DEF Next, Listener, Worker, Environment, vars, bounds, Receive, Verify,
         CheckAppLock, InstallFile, InstallRecord, StageNew, StageMeta, StoreFails,
         SendAck, LoseConnection, StartWorker, StopWorker, ListMetas, CheckMeta,
         DropMeta, ListNews, CheckNew, DropNew, SkipLocked, ReadMeta, DiscardNew,
         DiscardMeta, ApplyCheck, ApplyMove, ApplyRecord, ApplyUnlink, FinishPass,
         WorkerFails, LockApp, UnlockApp, DamageMeta, Disconnect, Exit, Crash, Down,
         Restart, DamageRecord
  <2>2. outages \in Nat /\ faults \in Nat
    BY BoundsAssumption DEF TypeInv, TypeOK
  <2>3. QED
    BY <2>1, <2>2 DEF Quiet
<1>3. TypeInv /\ TypeInv' /\ CrashInv /\ QuietInv /\ [Next]_vars => QuietInv'
  <2> SUFFICES ASSUME TypeInv, TypeInv', CrashInv, Quiet, Quiet', QuietGoal, [Next]_vars
               PROVE  QuietGoal'
    BY <1>2 DEF QuietInv
  <2>0. \A b \in Apps : /\ pnew[b] \in Nat /\ latest[b] \in Nat
                        /\ recorded[b] \in Nat /\ installed[b] \in Nat
    <3>1. \A v \in Versions \cup {Absent} : v \in Nat
      BY Types
    <3>2. QED
      BY <3>1 DEF TypeInv, TypeOK
  <2> USE Types DEF TypeInv, TypeOK, Verified, DownTogether, Storing, CrashInv, BoundedByLatest,
        Critical, LockFree, ListenerHolds, WorkerHolds, Running, Quiet, RecordBehind,
        Paired, ListedIsThere, vars, files, listener, worker, bounds, Absent
  <2>1. ASSUME NEW t \in Transfers, Receive(t) PROVE QuietGoal'
    BY <2>1 DEF Receive
  <2>2. CASE Verify
    BY <2>2 DEF Verify
  <2>3. CASE CheckAppLock
    BY <2>3 DEF CheckAppLock
  <2>4. CASE InstallFile
    BY <2>4 DEF InstallFile, Intact
  <2>5. CASE InstallRecord
    <3>1. RecordBehind'
      BY <2>0, <2>5 DEF InstallRecord
    <3>2. Paired'
      BY <2>5 DEF InstallRecord
    <3>3. ListedIsThere'
      BY <2>5 DEF InstallRecord
    <3>4. QED
      BY <3>1, <3>2, <3>3
  <2>6. CASE StageNew
    BY <2>6 DEF StageNew, Intact
  <2>7. CASE StageMeta
    BY <2>7 DEF StageMeta
  <2>8. CASE StoreFails
    BY <2>8 DEF StoreFails
  <2>9. CASE SendAck
    BY <2>9 DEF SendAck
  <2>10. CASE LoseConnection
    BY <2>10 DEF LoseConnection
  <2>11. CASE StartWorker
    BY <2>11 DEF StartWorker
  <2>12. CASE StopWorker
    BY <2>12 DEF StopWorker
  <2>13. CASE ListMetas
    BY <2>13 DEF ListMetas
  <2>14. ASSUME NEW a \in Apps, CheckMeta(a) PROVE QuietGoal'
    BY <2>14 DEF CheckMeta
  <2>15. CASE DropMeta
    BY <2>15 DEF DropMeta
  <2>16. CASE ListNews
    BY <2>16 DEF ListNews
  <2>17. ASSUME NEW a \in Apps, CheckNew(a) PROVE QuietGoal'
    BY <2>17 DEF CheckNew
  <2>18. CASE DropNew
    BY <2>18 DEF DropNew
  <2>19. CASE SkipLocked
    BY <2>19 DEF SkipLocked
  <2>20. CASE ReadMeta
    BY <2>20 DEF ReadMeta
  <2>21. CASE DiscardNew
    BY <2>21 DEF DiscardNew
  <2>22. CASE DiscardMeta
    BY <2>22 DEF DiscardMeta
  <2>23. CASE ApplyCheck
    BY <2>23 DEF ApplyCheck
  <2>24. CASE ApplyMove
    BY <2>24 DEF ApplyMove
  <2>25. CASE ApplyRecord
    <3>1. RecordBehind'
      BY <2>0, <2>25 DEF ApplyRecord
    <3>2. Paired'
      BY <2>25 DEF ApplyRecord
    <3>3. ListedIsThere'
      BY <2>25 DEF ApplyRecord
    <3>4. QED
      BY <3>1, <3>2, <3>3
  <2>26. CASE ApplyUnlink
    BY <2>26 DEF ApplyUnlink
  <2>27. CASE FinishPass
    BY <2>27 DEF FinishPass
  <2>28. CASE WorkerFails
    BY <2>28 DEF WorkerFails
  <2>29. ASSUME NEW a \in Apps, LockApp(a) PROVE QuietGoal'
    BY <2>29 DEF LockApp
  <2>30. ASSUME NEW a \in Apps, UnlockApp(a) PROVE QuietGoal'
    BY <2>30 DEF UnlockApp
  <2>31. ASSUME NEW a \in Apps, DamageMeta(a) PROVE QuietGoal'
    BY <2>31 DEF DamageMeta
  <2>32. CASE Disconnect
    BY <2>32 DEF Disconnect
  <2>33. CASE Exit
    BY <2>33 DEF Exit, Down
  <2>34. CASE Crash
    BY <2>34 DEF Crash, Down
  <2>35. CASE Restart
    <3>1. RecordBehind'
      BY <2>0, <2>35 DEF Restart
    <3>2. Paired'
      BY <2>35 DEF Restart
    <3>3. ListedIsThere'
      BY <2>35 DEF Restart
    <3>4. QED
      BY <3>1, <3>2, <3>3
  <2>36. CASE DamageRecord
    BY <2>36 DEF DamageRecord
  <2>37. CASE UNCHANGED vars
    BY <2>37
  <2>38. QED
    BY <2>1, <2>2, <2>3, <2>4, <2>5, <2>6, <2>7, <2>8, <2>9, <2>10, <2>11, <2>12,
       <2>13, <2>14, <2>15, <2>16, <2>17, <2>18, <2>19, <2>20, <2>21, <2>22, <2>23,
       <2>24, <2>25, <2>26, <2>27, <2>28, <2>29, <2>30, <2>31, <2>32, <2>33, <2>34,
       <2>35, <2>36, <2>37
       DEF Next, Listener, Worker, Environment
<1>4. QED
  BY <1>1, <1>3, TypeInvariant, CrashSafe, PTL DEF Spec

\* The record is never ahead of the binary while nothing has gone wrong.
THEOREM RecordStaysBehind == Spec => []RecordNotAhead
<1>1. QuietInv => RecordNotAhead
  BY DEF QuietInv, Quiet, RecordBehind, RecordNotAhead, LockFree, WorkerHolds
<1>2. QED
  BY <1>1, QuietSafe, PTL

\* Pending updates are complete pairs while nothing has gone wrong.
THEOREM PendingStaysPaired == Spec => []PendingPaired
<1>1. TypeInv /\ QuietInv => PendingPaired
  <2> SUFFICES ASSUME TypeInv, QuietInv, Quiet, LockFree PROVE pnew = pmeta
    BY DEF PendingPaired, Quiet
  <2>1. \A a \in Apps : pnew[a] = pmeta[a]
    BY DEF QuietInv, Paired, LockFree, ListenerHolds, WorkerHolds
  <2>2. QED
    BY <2>1 DEF TypeInv, TypeOK
<1>2. QED
  BY <1>1, TypeInvariant, QuietSafe, PTL

\* A staged update is never deleted while nothing has gone wrong: the worker's
\* orphan removal, which looks and deletes in two calls, finds no orphan.
THEOREM StagedUpdateIsKept == Spec => PendingLeavesByInstall
<1> DEFINE Kept ==
      outages' = 0 /\ faults' = 0 =>
        \A a \in Apps : pnew[a] # pnew'[a] =>
          installed'[a] = pnew[a] \/ pnew'[a] >= pnew[a]
<1>1. TypeInv /\ CrashInv /\ QuietInv /\ QuietInv' /\ [Next]_vars => [Kept]_vars
  <2> SUFFICES ASSUME TypeInv, CrashInv, QuietInv, [Next]_vars, Quiet', NEW a \in Apps,
                      pnew[a] # pnew'[a]
               PROVE  installed'[a] = pnew[a] \/ pnew'[a] >= pnew[a]
    BY DEF Quiet
  <2>1. CASE StageNew
    <3>1. a = msg.app /\ pnew'[a] = msg.data /\ msg.data = latest[a]
      BY <2>1 DEF StageNew, TypeInv, TypeOK, Verified, Storing, Intact, CrashInv,
           BoundedByLatest
    <3>2. pnew[a] <= latest[a] /\ pnew[a] \in Nat /\ latest[a] \in Nat
      BY Types DEF CrashInv, BoundedByLatest, TypeInv, TypeOK
    <3>3. QED
      BY <3>1, <3>2
  <2>2. CASE ApplyMove
    BY <2>2 DEF ApplyMove, TypeInv, TypeOK
  <2>3. CASE DropNew \/ DiscardNew
    <3>1. Quiet
      BY <2>3 DEF DropNew, DiscardNew, Quiet, bounds
    <3>2. QED
      BY <2>3, <3>1 DEF DropNew, DiscardNew, QuietInv, ListedIsThere
  <2>4. CASE ~StageNew /\ ~ApplyMove /\ ~(DropNew \/ DiscardNew)
    <3>1. pnew' = pnew
      BY <2>4 DEF Next, Listener, Worker, Environment, vars, files, Receive, Verify,
           CheckAppLock, InstallFile, InstallRecord, StageMeta, StoreFails, SendAck,
           LoseConnection, StartWorker, StopWorker, ListMetas, CheckMeta, DropMeta,
           ListNews, CheckNew, SkipLocked, ReadMeta, DiscardMeta, ApplyCheck,
           ApplyRecord, ApplyUnlink, FinishPass, WorkerFails, LockApp, UnlockApp,
           DamageMeta, Disconnect, Exit, Crash, Down, Restart, DamageRecord
    <3>2. QED
      BY <3>1
  <2>5. QED
    BY <2>1, <2>2, <2>3, <2>4
<1>2. QED
  BY <1>1, TypeInvariant, CrashSafe, QuietSafe, PTL DEF Spec, PendingLeavesByInstall

-----------------------------------------------------------------------------
(* The storage implements UpdateSlots.                                      *)

\* Every step of the client's threads, of the user, of the network and of the
\* disk is one step of an atomic store of installed and staged versions, or
\* none: a staged update is installed whole, by the thread that found the
\* application unlocked, and is given up only once something has gone wrong.
THEOREM StoreImplementsSlots == Spec => SlotsSpec
<1>1. Init => Slots!Init
  BY DEF Init, Slots!Init, NothingStored
<1>2. TypeInv /\ TypeInv' /\ CrashInv /\ QuietInv /\ [Next]_vars => [Slots!Next]_(Slots!slots)
  <2> SUFFICES ASSUME TypeInv, TypeInv', CrashInv, QuietInv, [Next]_vars
               PROVE  Slots!Next \/ UNCHANGED Slots!slots
    OBVIOUS
  <2> USE DEF vars, files, listener, worker, bounds
  <2>0. /\ outages \in Nat /\ faults \in Nat
        /\ outages > 0 \/ faults > 0 <=> ~Quiet
    BY BoundsAssumption DEF TypeInv, TypeOK, Quiet
  <2>1. ASSUME NEW t \in Transfers, Receive(t) PROVE Slots!Next \/ UNCHANGED Slots!slots
    <3>1. /\ t.app \in Apps /\ t.version \in Versions
          /\ latest[t.app] \in Nat /\ t.version \in Nat /\ t.version >= latest[t.app]
      BY <2>1, Types DEF Receive, TypeInv, TypeOK
    <3>2. CASE t.version = latest[t.app]
      <4>1. latest' = latest
        BY <2>1, <3>2 DEF Receive, TypeInv, TypeOK
      <4>2. QED
        BY <2>1, <4>1 DEF Receive, Slots!slots
    <3>3. CASE t.version > latest[t.app]
      <4>1. Slots!Announce(t.app)
        BY <2>1, <3>1, <3>3 DEF Receive, Slots!Announce
      <4>2. QED
        BY <3>1, <4>1 DEF Slots!Next
    <3>4. QED
      BY <3>1, <3>2, <3>3
  <2>2. CASE InstallFile
    <3>1. msg.app \in Apps /\ msg.data = latest[msg.app] /\ latest[msg.app] # Absent
      BY <2>2, Types DEF InstallFile, TypeInv, Verified, Storing, Intact, CrashInv, BoundedByLatest
    <3>2. Slots!Install(msg.app)
      BY <2>2, <3>1 DEF InstallFile, Slots!Install
    <3>3. QED
      BY <3>1, <3>2 DEF Slots!Next
  <2>3. CASE StageNew
    <3>1. msg.app \in Apps /\ msg.data = latest[msg.app] /\ latest[msg.app] # Absent
      BY <2>3, Types DEF StageNew, TypeInv, Verified, Storing, Intact, CrashInv, BoundedByLatest
    <3>2. Slots!Stage(msg.app)
      BY <2>3, <3>1 DEF StageNew, Slots!Stage
    <3>3. QED
      BY <3>1, <3>2 DEF Slots!Next
  <2>4. CASE ApplyMove
    <3>1. wapp \in Apps /\ pnew[wapp] # Absent /\ ~locked[wapp]
      BY <2>4 DEF ApplyMove, TypeInv, TypeOK, CrashInv, Critical
    <3>2. Slots!Apply(wapp)
      BY <2>4, <3>1 DEF ApplyMove, Slots!Apply
    <3>3. QED
      BY <3>1, <3>2 DEF Slots!Next
  <2>5. CASE DropNew \/ DiscardNew
    <3>1. wapp \in Apps /\ ~Quiet
      BY <2>5 DEF DropNew, DiscardNew, TypeInv, TypeOK, QuietInv, ListedIsThere
    <3>2. Slots!Discard(wapp)
      BY <2>0, <2>5, <3>1 DEF DropNew, DiscardNew, Slots!Discard
    <3>3. QED
      BY <3>1, <3>2 DEF Slots!Next
  <2>6. ASSUME NEW a \in Apps, LockApp(a) \/ UnlockApp(a)
        PROVE  Slots!Next \/ UNCHANGED Slots!slots
    <3>1. Slots!Lock(a)
      BY <2>6 DEF LockApp, UnlockApp, Slots!Lock, TypeInv, TypeOK
    <3>2. QED
      BY <3>1 DEF Slots!Next
  <2>7. ASSUME \/ StoreFails \/ WorkerFails \/ Crash \/ DamageRecord
               \/ \E a \in Apps : DamageMeta(a)
        PROVE  Slots!Next \/ UNCHANGED Slots!slots
    <3>1. outages' > 0 \/ faults' > 0
      BY <2>0, <2>7 DEF StoreFails, WorkerFails, Crash, DamageRecord, DamageMeta
    <3>2. UNCHANGED <<latest, installed, pnew, locked>>
      BY <2>7 DEF StoreFails, WorkerFails, Crash, Down, DamageRecord,
           DamageMeta
    <3>3. Slots!Disturb
      BY <3>1, <3>2 DEF Slots!Disturb
    <3>4. QED
      BY <3>3 DEF Slots!Next
  <2>8. ASSUME \/ Verify \/ CheckAppLock \/ InstallRecord \/ StageMeta \/ SendAck
               \/ LoseConnection \/ StartWorker \/ StopWorker \/ ListMetas \/ DropMeta
               \/ ListNews \/ (\E a \in Apps : CheckMeta(a) \/ CheckNew(a))
               \/ SkipLocked \/ ReadMeta \/ DiscardMeta \/ ApplyCheck \/ ApplyRecord
               \/ ApplyUnlink \/ FinishPass \/ Disconnect \/ Exit \/ Restart
               \/ UNCHANGED vars
        PROVE  UNCHANGED Slots!slots
    <3>1. UNCHANGED <<latest, installed, pnew, locked, bounds>>
      BY <2>8 DEF Verify, CheckAppLock, InstallRecord, StageMeta, SendAck, LoseConnection,
           StartWorker, StopWorker, ListMetas, DropMeta, ListNews, CheckMeta, CheckNew,
           SkipLocked, ReadMeta, DiscardMeta, ApplyCheck, ApplyRecord, ApplyUnlink,
           FinishPass, Disconnect, Exit, Down, Restart
    <3>2. QED
      BY <3>1 DEF Slots!slots
  <2>9. QED
    BY <2>1, <2>2, <2>3, <2>4, <2>5, <2>6, <2>7, <2>8
       DEF Next, Listener, Worker, Environment
<1>3. QED
  BY <1>1, <1>2, TypeInvariant, CrashSafe, QuietSafe, PTL DEF Spec, SlotsSpec, Slots!Spec
=============================================================================

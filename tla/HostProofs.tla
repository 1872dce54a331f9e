------------------------------- MODULE HostProofs -------------------------------
(***************************************************************************)
(* What holds of a run directory whoever touches it, for any number of     *)
(* versions, amendments, bars, kills and losses of power.                  *)
(***************************************************************************)
EXTENDS Host, TLAPS

Snapshot == [receipts : Int, applied : Int, held : BOOLEAN, pending : BOOLEAN]
Chain    == Seq([code : Codes, id : Nat])
Workers  == [at : {"off", "starting", "read", "on", "failed"}, code : Codes, read : Chain]
Jobs     == [kind : {"none", "backup", "amend"}, code : Codes, timed : BOOLEAN,
             at : {"done", "begun", "half", "copied", "writing", "archived", "journalled"}]

\* Where maintenance is: behind its fence, with the worker stopped, with the
\* ledgers it found flat, with their copy
Fenced   == {"fenced", "stopped", "verified", "copying", "copied", "proved", "sent"}
Stopped  == Fenced \ {"fenced"}
Verified == Stopped \ {"stopped"}
Copied   == {"copied", "proved", "sent"}
Places   == Fenced \cup {"idle", "checked", "marked", "cleared"}

Types ==
    /\ current \in Codes /\ stop \in BOOLEAN /\ owed \in BOOLEAN
    /\ marker \in {"absent", "unsynced", "present", "unlinked"}
    /\ maint \in Places
    /\ worker \in Workers /\ job \in Jobs
    /\ ledger \in Snapshot /\ copy \in [BOOLEAN -> Snapshot]
    /\ manifest \in Chain /\ synced \in Chain /\ journal \in Chain
    /\ JobAt("journalled") => journal # <<>>

\* The worker and a job exclude each other, and the journal is a job's to write.
Locked ==
    /\ worker.at = "on" => job = Idle /\ worker.code = CodeOf(journal)
    /\ worker.at = "read" => worker.code = CodeOf(worker.read)

\* Behind the fence nothing starts, whoever is owed a settlement.
Guarded ==
    /\ owed \/ maint \in Fenced => marker = "present"
    /\ maint \in Stopped => worker.at = "off"
    /\ maint = "sent" => ~owed

\* A copy is of the ledgers as they are, as far as it has come.
Copying ==
    /\ job.timed => maint = "copying"
    /\ JobAt("half") => copy[job.timed].receipts = ledger.receipts
    /\ JobAt("copied") => copy[job.timed] = ledger
    /\ maint \in Verified => ~ledger.held /\ ~ledger.pending
    /\ maint \in Copied => copy[TRUE] = ledger

\* The report of a worker that has stopped tells its position as it still is.
Reported ==
    /\ worker.at = "on" => ~status.stopped
    /\ status.stopped => status.flat = ~ledger.held

\* The inductive invariant.
HInv == Types /\ Locked /\ Guarded /\ Copying /\ Reported

\* Amending extends a lineage, and its last amendment is one of it.
LEMMA Chains ==
  /\ <<>> \in Chain
  /\ \A c \in Chain, a \in [code : Codes, id : Nat] : Append(c, a) \in Chain /\ Append(c, a) # <<>>
  /\ \A c \in Chain : Len(c) \in Nat
  /\ \A c \in Chain : c # <<>> => c[Len(c)] \in [code : Codes, id : Nat]
<1> DEFINE A == [code : Codes, id : Nat]
<1>1. <<>> \in Seq(A)
  OBVIOUS
<1>2. ASSUME NEW c \in Seq(A), NEW a \in A PROVE Append(c, a) \in Seq(A) /\ Append(c, a) # <<>>
  <2> HIDE DEF A
  <2>1. Append(c, a) \in Seq(A) /\ Len(Append(c, a)) = Len(c) + 1 /\ Len(c) \in Nat
    OBVIOUS
  <2>2. Len(<<>>) = 0
    OBVIOUS
  <2>3. Len(c) + 1 # 0
    BY <2>1
  <2> QED
    BY <2>1, <2>2, <2>3, Zenon
<1>3. ASSUME NEW c \in Seq(A), c # <<>> PROVE c[Len(c)] \in A
  <2> HIDE DEF A
  <2>1. Len(c) \in 1..Len(c)
    BY <1>3
  <2> QED
    BY <2>1
<1>4. \A c \in Seq(A) : Len(c) \in Nat
  OBVIOUS
<1> QED
  BY <1>1, <1>2, <1>3, <1>4, Zenon DEF Chain

LEMMA Initially == Init => HInv
<1> SUFFICES ASSUME Init PROVE HInv
  OBVIOUS
<1> USE DEF Init, Idle, Off, None
<1>1. worker \in Workers /\ manifest \in Chain /\ synced \in Chain /\ journal \in Chain
  BY Chains, HostAssumption DEF Workers
<1>2. job \in Jobs /\ ledger \in Snapshot
  BY HostAssumption DEF Jobs, Snapshot
<1>3. copy \in [BOOLEAN -> Snapshot]
  BY DEF Snapshot
<1>4. Types
  BY <1>1, <1>2, <1>3, HostAssumption DEF Types, Places, Fenced, JobAt
<1>5. Locked /\ Guarded
  BY DEF Locked, Guarded, Fenced, Stopped
<1>6. Copying
  BY DEF Copying, JobAt, Verified, Stopped, Fenced, Copied
<1>7. Reported
  BY DEF Reported
<1> QED
  BY <1>4, <1>5, <1>6, <1>7 DEF HInv

-----------------------------------------------------------------------------
\* Types are kept.
LEMMA TypeStep == HInv /\ [Next]_vars => Types'
<1> SUFFICES ASSUME HInv, [Next]_vars PROVE Types'
  OBVIOUS
<1> USE DEF HInv, Types, Places, Fenced, JobAt
<1>1. CASE Start
  <2>1. worker' \in Workers
    BY <1>1, HostAssumption, Chains DEF Start, Starting, disk, Workers
  <2> QED
    BY <1>1, <2>1 DEF Start, Starting, disk
<1>2. CASE Restart
  <2>1. worker' \in Workers
    BY <1>2, HostAssumption, Chains DEF Restart, Starting, Off, disk, Workers
  <2> QED
    BY <1>2, <2>1 DEF Restart, Starting, Off, disk
<1>3. CASE ReadRegistration
  <2>1. worker' \in Workers
    BY <1>3, HostAssumption, Chains DEF ReadRegistration, Off, disk, Workers
  <2> QED
    BY <1>3, <2>1 DEF ReadRegistration, Off, disk
<1>4. CASE Own
  <2>1. worker' \in Workers
    BY <1>4, HostAssumption, Chains DEF Own, Off, LockFree, Workers
  <2> QED
    BY <1>4, <2>1 DEF Own, Off, LockFree
<1>5. CASE Receive
  <2>1. ledger' \in Snapshot
    BY <1>5 DEF Receive, disk, Snapshot
  <2> QED
    BY <1>5, <2>1 DEF Receive, disk
<1>6. CASE Apply
  <2>1. ledger' \in Snapshot
    BY <1>6 DEF Apply, disk, Snapshot
  <2> QED
    BY <1>6, <2>1 DEF Apply, disk
<1>7. CASE Report
  BY <1>7 DEF Report, disk
<1>8. CASE Leave
  <2>1. worker' \in Workers
    BY <1>8, HostAssumption, Chains DEF Leave, Off, disk, Workers
  <2> QED
    BY <1>8, <2>1 DEF Leave, Off, disk
<1>9. CASE WorkerFails
  <2>1. worker' \in Workers
    BY <1>9, HostAssumption, Chains DEF WorkerFails, Off, disk, Workers
  <2> QED
    BY <1>9, <2>1 DEF WorkerFails, Off, disk
<1>10. CASE CopyReceipts
  <2>1. job' \in Jobs
    BY <1>10 DEF CopyReceipts, JobStep, KeepRest, disk, None, Jobs
  <2>2. [receipts |-> ledger.receipts, applied |-> -1, held |-> FALSE, pending |-> FALSE] \in Snapshot
    BY DEF Snapshot
  <2>3. copy' \in [BOOLEAN -> Snapshot]
    BY <1>10, <2>2 DEF CopyReceipts, JobStep, KeepRest, disk, None
  <2> QED
    BY <1>10, <2>1, <2>3 DEF CopyReceipts, JobStep, KeepRest, disk, None
<1>11. CASE CopyLedgers
  <2>1. job' \in Jobs
    BY <1>11 DEF CopyLedgers, JobStep, KeepRest, disk, Jobs
  <2>2. job.timed \in BOOLEAN
    BY DEF Jobs
  <2>3. [receipts |-> copy[job.timed].receipts, applied |-> ledger.applied,
         held |-> ledger.held, pending |-> ledger.pending] \in Snapshot
    BY <2>2 DEF Snapshot
  <2>4. copy' \in [BOOLEAN -> Snapshot]
    BY <1>11, <2>3 DEF CopyLedgers, JobStep, KeepRest, disk
  <2> QED
    BY <1>11, <2>1, <2>4 DEF CopyLedgers, JobStep, KeepRest, disk
<1>12. CASE EndBackup
  <2>1. job' \in Jobs
    BY <1>12, HostAssumption DEF EndBackup, disk, Idle, Jobs
  <2> QED
    BY <1>12, <2>1 DEF EndBackup, disk, Idle
<1>13. CASE Archive
  <2>1. job' \in Jobs /\ job'.at # "journalled"
    BY <1>13 DEF Archive, JobStep, KeepRest, Jobs
  <2> QED
    BY <1>13, <2>1 DEF Archive, JobStep, KeepRest
<1>14. CASE ArchiveWritten
  <2>1. job' \in Jobs
    BY <1>14 DEF ArchiveWritten, JobStep, KeepRest, Jobs
  <2> QED
    BY <1>14, <2>1 DEF ArchiveWritten, JobStep, KeepRest
<1>15. CASE JournalAmendment
  <2>1. job' \in Jobs
    BY <1>15 DEF JournalAmendment, JobStep, KeepRest, Amendment, Jobs
  <2>2. Amendment \in [code : Codes, id : Nat]
    BY Chains DEF Amendment, Jobs
  <2>3. journal' \in Chain /\ journal' # <<>>
    BY <1>15, <2>2, Chains DEF JournalAmendment
  <2> QED
    BY <1>15, <2>1, <2>3 DEF JournalAmendment, KeepRest
<1>16. CASE ReplaceManifest
  <2>1. job' \in Jobs
    BY <1>16, HostAssumption DEF ReplaceManifest, KeepRest, Idle, Jobs
  <2>2. journal[Len(journal)] \in [code : Codes, id : Nat]
    BY <1>16, Chains DEF ReplaceManifest
  <2>3. manifest' \in Chain
    BY <1>16, <2>2, Chains DEF ReplaceManifest
  <2> QED
    BY <1>16, <2>1, <2>3 DEF ReplaceManifest, KeepRest, Idle
<1>17. CASE JobFails
  <2>1. job' \in Jobs
    BY <1>17, HostAssumption DEF JobFails, disk, Idle, Jobs
  <2> QED
    BY <1>17, <2>1 DEF JobFails, disk, Idle
<1>18. CASE Check
  BY <1>18 DEF Check, KeepService, disk
<1>19. CASE Mark
  BY <1>19 DEF Mark, KeepService, disk
<1>20. CASE SyncMarker
  BY <1>20 DEF SyncMarker, KeepService, disk
<1>21. CASE StopUnit
  <2>1. worker' \in Workers
    BY <1>21, HostAssumption, Chains DEF StopUnit, KeepService, disk, Off, Workers
  <2> QED
    BY <1>21, <2>1 DEF StopUnit, KeepService, disk, Off
<1>22. CASE Recheck
  BY <1>22 DEF Recheck, Fails, KeepService, disk
<1>23. CASE BeginCopy
  <2>1. job' \in Jobs
    BY <1>23 DEF BeginCopy, Begin, LockFree, None, disk, Jobs
  <2>2. [receipts |-> -1, applied |-> -1, held |-> FALSE, pending |-> FALSE] \in Snapshot
    BY DEF Snapshot
  <2>3. copy' \in [BOOLEAN -> Snapshot]
    BY <1>23, <2>2 DEF BeginCopy, Begin, LockFree, None, disk
  <2> QED
    BY <1>23, <2>1, <2>3 DEF BeginCopy, Begin, LockFree, None, disk
<1>24. CASE VerifyCopy
  BY <1>24 DEF VerifyCopy, KeepService, disk
<1>25. CASE Send
  BY <1>25 DEF Send, KeepService, disk
<1>26. CASE Clear
  BY <1>26 DEF Clear, Fails, KeepService, disk
<1>27. CASE Resume
  <2>1. worker' \in Workers
    BY <1>27, HostAssumption, Chains DEF Resume, KeepService, disk, Starting, Workers
  <2> QED
    BY <1>27, <2>1 DEF Resume, KeepService, disk, Starting
<1>28. CASE StepFails
  <2>1. job' \in Jobs
    BY <1>28, HostAssumption DEF StepFails, disk, Idle, Jobs
  <2> QED
    BY <1>28, <2>1 DEF StepFails, disk, Idle
<1>29. CASE KillMaintenance
  <2>1. job' \in Jobs
    BY <1>29, HostAssumption DEF KillMaintenance, disk, Idle, Jobs
  <2> QED
    BY <1>29, <2>1 DEF KillMaintenance, disk, Idle
<1>30. CASE WriteStop
  BY <1>30 DEF WriteStop, KeepProcesses, disk
<1>31. CASE RemoveStop
  BY <1>31 DEF RemoveStop, KeepProcesses, disk
<1>32. CASE Settle
  BY <1>32 DEF Settle, KeepProcesses, disk
<1>33. CASE PowerLoss
  <2>1. worker' \in Workers /\ job' \in Jobs
    BY <1>33, HostAssumption, Chains DEF PowerLoss, Idle, Starting, Off, Workers, Jobs
  <2> QED
    BY <1>33, <2>1 DEF PowerLoss, Idle, Starting, Off
<1>34. ASSUME NEW c \in Codes, Install(c) PROVE Types'
  BY <1>34 DEF Install, KeepProcesses, disk
<1>35. ASSUME NEW kind \in {"backup", "amend"}, Begin(kind, FALSE), maint' = maint PROVE Types'
  <2>1. job' \in Jobs
    BY <1>35 DEF Begin, LockFree, disk, None, Jobs
  <2>2. [receipts |-> -1, applied |-> -1, held |-> FALSE, pending |-> FALSE] \in Snapshot
    BY DEF Snapshot
  <2>3. copy' \in [BOOLEAN -> Snapshot]
    BY <1>35, <2>2 DEF Begin, LockFree, disk, None
  <2> QED
    BY <1>35, <2>1, <2>3 DEF Begin, LockFree, disk, None
<1>36. CASE UNCHANGED vars
  BY <1>36 DEF vars, disk
<1> QED
  BY <1>1, <1>2, <1>3, <1>4, <1>5, <1>6, <1>7, <1>8, <1>9, <1>10, <1>11, <1>12, <1>13, <1>14, <1>15, <1>16, <1>17, <1>18,
     <1>19, <1>20, <1>21, <1>22, <1>23, <1>24, <1>25, <1>26, <1>27, <1>28, <1>29, <1>30, <1>31, <1>32, <1>33, <1>34, <1>35, <1>36
     DEF Next, Service, Job, Commands, Maintenance, Operator

\* The worker comes up without a job only, and a job begins without it.
LEMMA LockedStep == HInv /\ [Next]_vars => Locked'
<1> SUFFICES ASSUME HInv, [Next]_vars PROVE Locked'
  OBVIOUS
<1> USE DEF HInv, Types, Workers, Locked, LineageVerifies, LockFree
<1>a. JobAt("begun") \/ JobAt("half") \/ JobAt("copied") \/ JobAt("writing") \/ JobAt("archived")
      \/ JobAt("journalled") => worker.at # "on"
  BY DEF JobAt, Idle, Locked
<1>1. CASE Start
  BY <1>a, <1>1 DEF Start, Starting, disk
<1>2. CASE Restart
  BY <1>a, <1>2 DEF Restart, Starting, Off, disk
<1>3. CASE ReadRegistration
  BY <1>a, <1>3 DEF ReadRegistration, Off, disk
<1>4. CASE Own
  BY <1>a, <1>4 DEF Own, Off, LockFree
<1>5. CASE Receive
  BY <1>a, <1>5 DEF Receive, disk
<1>6. CASE Apply
  BY <1>a, <1>6 DEF Apply, disk
<1>7. CASE Report
  BY <1>a, <1>7 DEF Report, disk
<1>8. CASE Leave
  BY <1>a, <1>8 DEF Leave, Off, disk
<1>9. CASE WorkerFails
  BY <1>a, <1>9 DEF WorkerFails, Off, disk
<1>10. CASE CopyReceipts
  BY <1>a, <1>10 DEF CopyReceipts, JobStep, KeepRest, disk, None
<1>11. CASE CopyLedgers
  BY <1>a, <1>11 DEF CopyLedgers, JobStep, KeepRest, disk
<1>12. CASE EndBackup
  BY <1>a, <1>12 DEF EndBackup, disk, Idle
<1>13. CASE Archive
  BY <1>a, <1>13 DEF Archive, JobStep, KeepRest
<1>14. CASE ArchiveWritten
  BY <1>a, <1>14 DEF ArchiveWritten, JobStep, KeepRest
<1>15. CASE JournalAmendment
  BY <1>a, <1>15 DEF JournalAmendment, JobStep, KeepRest, Amendment
<1>16. CASE ReplaceManifest
  BY <1>a, <1>16 DEF ReplaceManifest, KeepRest, Idle
<1>17. CASE JobFails
  BY <1>a, <1>17 DEF JobFails, disk, Idle
<1>18. CASE Check
  BY <1>a, <1>18 DEF Check, KeepService, disk
<1>19. CASE Mark
  BY <1>a, <1>19 DEF Mark, KeepService, disk
<1>20. CASE SyncMarker
  BY <1>a, <1>20 DEF SyncMarker, KeepService, disk
<1>21. CASE StopUnit
  BY <1>a, <1>21 DEF StopUnit, KeepService, disk, Off
<1>22. CASE Recheck
  BY <1>a, <1>22 DEF Recheck, Fails, KeepService, disk
<1>23. CASE BeginCopy
  BY <1>a, <1>23 DEF BeginCopy, Begin, LockFree, None, disk
<1>24. CASE VerifyCopy
  BY <1>a, <1>24 DEF VerifyCopy, KeepService, disk
<1>25. CASE Send
  BY <1>a, <1>25 DEF Send, KeepService, disk
<1>26. CASE Clear
  BY <1>a, <1>26 DEF Clear, Fails, KeepService, disk
<1>27. CASE Resume
  BY <1>a, <1>27 DEF Resume, KeepService, disk, Starting
<1>28. CASE StepFails
  BY <1>a, <1>28 DEF StepFails, disk, Idle
<1>29. CASE KillMaintenance
  BY <1>a, <1>29 DEF KillMaintenance, disk, Idle
<1>30. CASE WriteStop
  BY <1>a, <1>30 DEF WriteStop, KeepProcesses, disk
<1>31. CASE RemoveStop
  BY <1>a, <1>31 DEF RemoveStop, KeepProcesses, disk
<1>32. CASE Settle
  BY <1>a, <1>32 DEF Settle, KeepProcesses, disk
<1>33. CASE PowerLoss
  BY <1>a, <1>33 DEF PowerLoss, Idle, Starting, Off
<1>34. ASSUME NEW c \in Codes, Install(c) PROVE Locked'
  BY <1>a, <1>34 DEF Install, KeepProcesses, disk
<1>35. ASSUME NEW kind \in {"backup", "amend"}, Begin(kind, FALSE), maint' = maint PROVE Locked'
  BY <1>a, <1>35 DEF Begin, LockFree, disk, None
<1>36. CASE UNCHANGED vars
  BY <1>a, <1>36 DEF vars, disk
<1> QED
  BY <1>1, <1>2, <1>3, <1>4, <1>5, <1>6, <1>7, <1>8, <1>9, <1>10, <1>11, <1>12, <1>13, <1>14, <1>15, <1>16, <1>17, <1>18,
     <1>19, <1>20, <1>21, <1>22, <1>23, <1>24, <1>25, <1>26, <1>27, <1>28, <1>29, <1>30, <1>31, <1>32, <1>33, <1>34, <1>35, <1>36
     DEF Next, Service, Job, Commands, Maintenance, Operator

\* The fence is only removed by its maintenance, when the backup is off the host.
LEMMA GuardedStep == HInv /\ [Next]_vars => Guarded'
<1> SUFFICES ASSUME HInv, [Next]_vars PROVE Guarded'
  OBVIOUS
<1> USE DEF HInv, Types, Workers, Jobs, Guarded, Places, Fenced, Stopped, Startable
<1>1. CASE Start
  BY <1>1 DEF Start, Starting, disk
<1>2. CASE Restart
  BY <1>2 DEF Restart, Starting, Off, disk
<1>3. CASE ReadRegistration
  BY <1>3 DEF ReadRegistration, Off, disk
<1>4. CASE Own
  BY <1>4 DEF Own, Off, LockFree
<1>5. CASE Receive
  BY <1>5 DEF Receive, disk
<1>6. CASE Apply
  BY <1>6 DEF Apply, disk
<1>7. CASE Report
  BY <1>7 DEF Report, disk
<1>8. CASE Leave
  BY <1>8 DEF Leave, Off, disk
<1>9. CASE WorkerFails
  BY <1>9 DEF WorkerFails, Off, disk
<1>10. CASE CopyReceipts
  BY <1>10 DEF CopyReceipts, JobStep, KeepRest, disk, None
<1>11. CASE CopyLedgers
  BY <1>11 DEF CopyLedgers, JobStep, KeepRest, disk
<1>12. CASE EndBackup
  BY <1>12 DEF EndBackup, disk, Idle, Copying, JobAt
<1>13. CASE Archive
  BY <1>13 DEF Archive, JobStep, KeepRest
<1>14. CASE ArchiveWritten
  BY <1>14 DEF ArchiveWritten, JobStep, KeepRest
<1>15. CASE JournalAmendment
  BY <1>15 DEF JournalAmendment, JobStep, KeepRest, Amendment
<1>16. CASE ReplaceManifest
  BY <1>16 DEF ReplaceManifest, KeepRest, Idle
<1>17. CASE JobFails
  BY <1>17 DEF JobFails, disk, Idle
<1>18. CASE Check
  BY <1>18 DEF Check, KeepService, disk
<1>19. CASE Mark
  BY <1>19 DEF Mark, KeepService, disk
<1>20. CASE SyncMarker
  BY <1>20 DEF SyncMarker, KeepService, disk
<1>21. CASE StopUnit
  BY <1>21 DEF StopUnit, KeepService, disk, Off
<1>22. CASE Recheck
  BY <1>22 DEF Recheck, Fails, KeepService, disk
<1>23. CASE BeginCopy
  BY <1>23 DEF BeginCopy, Begin, LockFree, None, disk
<1>24. CASE VerifyCopy
  BY <1>24 DEF VerifyCopy, KeepService, disk
<1>25. CASE Send
  BY <1>25 DEF Send, KeepService, disk
<1>26. CASE Clear
  BY <1>26 DEF Clear, Fails, KeepService, disk
<1>27. CASE Resume
  BY <1>27 DEF Resume, KeepService, disk, Starting
<1>28. CASE StepFails
  BY <1>28 DEF StepFails, disk, Idle
<1>29. CASE KillMaintenance
  BY <1>29 DEF KillMaintenance, disk, Idle
<1>30. CASE WriteStop
  BY <1>30 DEF WriteStop, KeepProcesses, disk
<1>31. CASE RemoveStop
  BY <1>31 DEF RemoveStop, KeepProcesses, disk
<1>32. CASE Settle
  BY <1>32 DEF Settle, KeepProcesses, disk
<1>33. CASE PowerLoss
  BY <1>33 DEF PowerLoss, Idle, Starting, Off
<1>34. ASSUME NEW c \in Codes, Install(c) PROVE Guarded'
  BY <1>34 DEF Install, KeepProcesses, disk
<1>35. ASSUME NEW kind \in {"backup", "amend"}, Begin(kind, FALSE), maint' = maint PROVE Guarded'
  BY <1>35 DEF Begin, LockFree, disk, None
<1>36. CASE UNCHANGED vars
  BY <1>36 DEF vars, disk
<1> QED
  BY <1>1, <1>2, <1>3, <1>4, <1>5, <1>6, <1>7, <1>8, <1>9, <1>10, <1>11, <1>12, <1>13, <1>14, <1>15, <1>16, <1>17, <1>18,
     <1>19, <1>20, <1>21, <1>22, <1>23, <1>24, <1>25, <1>26, <1>27, <1>28, <1>29, <1>30, <1>31, <1>32, <1>33, <1>34, <1>35, <1>36
     DEF Next, Service, Job, Commands, Maintenance, Operator

\* The ledgers change under a running worker only, and stopping it reports them.
LEMMA ReportedStep == HInv /\ [Next]_vars => Reported'
<1> SUFFICES ASSUME HInv, [Next]_vars PROVE Reported'
  OBVIOUS
<1> USE DEF HInv, Types, Workers, Jobs, Snapshot, Guarded, Places, Fenced, Stopped, Reported
<1>1. CASE Start
  BY <1>1 DEF Start, Starting, disk
<1>2. CASE Restart
  BY <1>2 DEF Restart, Starting, Off, disk
<1>3. CASE ReadRegistration
  BY <1>3 DEF ReadRegistration, Off, disk
<1>4. CASE Own
  BY <1>4 DEF Own, Off, LockFree
<1>5. CASE Receive
  BY <1>5 DEF Receive, disk
<1>6. CASE Apply
  BY <1>6 DEF Apply, disk
<1>7. CASE Report
  BY <1>7 DEF Report, disk
<1>8. CASE Leave
  BY <1>8 DEF Leave, Off, disk
<1>9. CASE WorkerFails
  BY <1>9 DEF WorkerFails, Off, disk
<1>10. CASE CopyReceipts
  BY <1>10 DEF CopyReceipts, JobStep, KeepRest, disk, None
<1>11. CASE CopyLedgers
  BY <1>11 DEF CopyLedgers, JobStep, KeepRest, disk
<1>12. CASE EndBackup
  BY <1>12 DEF EndBackup, disk, Idle, Copying, JobAt
<1>13. CASE Archive
  BY <1>13 DEF Archive, JobStep, KeepRest
<1>14. CASE ArchiveWritten
  BY <1>14 DEF ArchiveWritten, JobStep, KeepRest
<1>15. CASE JournalAmendment
  BY <1>15 DEF JournalAmendment, JobStep, KeepRest, Amendment
<1>16. CASE ReplaceManifest
  BY <1>16 DEF ReplaceManifest, KeepRest, Idle
<1>17. CASE JobFails
  BY <1>17 DEF JobFails, disk, Idle
<1>18. CASE Check
  BY <1>18 DEF Check, KeepService, disk
<1>19. CASE Mark
  BY <1>19 DEF Mark, KeepService, disk
<1>20. CASE SyncMarker
  BY <1>20 DEF SyncMarker, KeepService, disk
<1>21. CASE StopUnit
  <2>1. ledger' = ledger /\ worker'.at = "off"
    BY <1>21 DEF StopUnit, KeepService, Off
  <2>2. status' = [stopped |-> TRUE, flat |-> ~ledger.held] \/ status' = status
    BY <1>21 DEF StopUnit
  <2> QED
    BY <2>1, <2>2
<1>22. CASE Recheck
  BY <1>22 DEF Recheck, Fails, KeepService, disk
<1>23. CASE BeginCopy
  BY <1>23 DEF BeginCopy, Begin, LockFree, None, disk
<1>24. CASE VerifyCopy
  BY <1>24 DEF VerifyCopy, KeepService, disk
<1>25. CASE Send
  BY <1>25 DEF Send, KeepService, disk
<1>26. CASE Clear
  BY <1>26 DEF Clear, Fails, KeepService, disk
<1>27. CASE Resume
  BY <1>27 DEF Resume, KeepService, disk, Starting
<1>28. CASE StepFails
  BY <1>28 DEF StepFails, disk, Idle
<1>29. CASE KillMaintenance
  BY <1>29 DEF KillMaintenance, disk, Idle
<1>30. CASE WriteStop
  BY <1>30 DEF WriteStop, KeepProcesses, disk
<1>31. CASE RemoveStop
  BY <1>31 DEF RemoveStop, KeepProcesses, disk
<1>32. CASE Settle
  BY <1>32 DEF Settle, KeepProcesses, disk
<1>33. CASE PowerLoss
  BY <1>33 DEF PowerLoss, Idle, Starting, Off
<1>34. ASSUME NEW c \in Codes, Install(c) PROVE Reported'
  BY <1>34 DEF Install, KeepProcesses, disk
<1>35. ASSUME NEW kind \in {"backup", "amend"}, Begin(kind, FALSE), maint' = maint PROVE Reported'
  BY <1>35 DEF Begin, LockFree, disk, None
<1>36. CASE UNCHANGED vars
  BY <1>36 DEF vars, disk
<1> QED
  BY <1>1, <1>2, <1>3, <1>4, <1>5, <1>6, <1>7, <1>8, <1>9, <1>10, <1>11, <1>12, <1>13, <1>14, <1>15, <1>16, <1>17, <1>18,
     <1>19, <1>20, <1>21, <1>22, <1>23, <1>24, <1>25, <1>26, <1>27, <1>28, <1>29, <1>30, <1>31, <1>32, <1>33, <1>34, <1>35, <1>36
     DEF Next, Service, Job, Commands, Maintenance, Operator

\* Nothing writes to the ledgers while they are copied, or until they are sent.
LEMMA CopyingStep == HInv /\ [Next]_vars => Copying'
<1> SUFFICES ASSUME HInv, [Next]_vars PROVE Copying'
  OBVIOUS
<1> USE DEF HInv, Types, Workers, Jobs, Snapshot, Locked, Guarded, Copying, Places, Fenced, Stopped, Verified, Copied, JobAt, Idle
<1>1. CASE Start
  BY <1>1 DEF Start, Starting, disk
<1>2. CASE Restart
  BY <1>2 DEF Restart, Starting, Off, disk
<1>3. CASE ReadRegistration
  BY <1>3 DEF ReadRegistration, Off, disk
<1>4. CASE Own
  BY <1>4 DEF Own, Off, LockFree
<1>5. CASE Receive
  <2>1. job.kind = "none" /\ ~job.timed /\ maint \notin Stopped
    BY <1>5 DEF Receive, disk
  <2> QED
    BY <1>5, <2>1 DEF Receive, disk
<1>6. CASE Apply
  <2>1. job.kind = "none" /\ ~job.timed /\ maint \notin Stopped
    BY <1>6 DEF Apply, disk
  <2> QED
    BY <1>6, <2>1 DEF Apply, disk
<1>7. CASE Report
  BY <1>7 DEF Report, disk
<1>8. CASE Leave
  BY <1>8 DEF Leave, Off, disk
<1>9. CASE WorkerFails
  BY <1>9 DEF WorkerFails, Off, disk
<1>10. CASE CopyReceipts
  BY <1>10 DEF CopyReceipts, JobStep, KeepRest, disk, None
<1>11. CASE CopyLedgers
  BY <1>11 DEF CopyLedgers, JobStep, KeepRest, disk
<1>12. CASE EndBackup
  BY <1>12 DEF EndBackup, disk, Idle
<1>13. CASE Archive
  BY <1>13 DEF Archive, JobStep, KeepRest
<1>14. CASE ArchiveWritten
  BY <1>14 DEF ArchiveWritten, JobStep, KeepRest
<1>15. CASE JournalAmendment
  BY <1>15 DEF JournalAmendment, JobStep, KeepRest, Amendment
<1>16. CASE ReplaceManifest
  BY <1>16 DEF ReplaceManifest, KeepRest, Idle
<1>17. CASE JobFails
  BY <1>17 DEF JobFails, disk, Idle
<1>18. CASE Check
  BY <1>18 DEF Check, KeepService, disk
<1>19. CASE Mark
  BY <1>19 DEF Mark, KeepService, disk
<1>20. CASE SyncMarker
  BY <1>20 DEF SyncMarker, KeepService, disk
<1>21. CASE StopUnit
  BY <1>21 DEF StopUnit, KeepService, disk, Off
<1>22. CASE Recheck
  <2>1. CASE status.stopped /\ status.flat /\ ~ledger.pending /\ ~stop
    <3>1. ~ledger.held
      BY <2>1, Zenon DEF Reported
    <3> QED
      BY <1>22, <2>1, <3>1 DEF Recheck, Fails, KeepService, disk
  <2>2. CASE ~(status.stopped /\ status.flat /\ ~ledger.pending /\ ~stop)
    BY <1>22, <2>2 DEF Recheck, Fails, KeepService, disk
  <2> QED
    BY <2>1, <2>2
<1>23. CASE BeginCopy
  BY <1>23 DEF BeginCopy, Begin, LockFree, None, disk
<1>24. CASE VerifyCopy
  BY <1>24 DEF VerifyCopy, KeepService, disk
<1>25. CASE Send
  BY <1>25 DEF Send, KeepService, disk
<1>26. CASE Clear
  BY <1>26 DEF Clear, Fails, KeepService, disk
<1>27. CASE Resume
  BY <1>27 DEF Resume, KeepService, disk, Starting
<1>28. CASE StepFails
  BY <1>28 DEF StepFails, disk, Idle
<1>29. CASE KillMaintenance
  BY <1>29 DEF KillMaintenance, disk, Idle
<1>30. CASE WriteStop
  BY <1>30 DEF WriteStop, KeepProcesses, disk
<1>31. CASE RemoveStop
  BY <1>31 DEF RemoveStop, KeepProcesses, disk
<1>32. CASE Settle
  BY <1>32 DEF Settle, KeepProcesses, disk
<1>33. CASE PowerLoss
  BY <1>33 DEF PowerLoss, Idle, Starting, Off
<1>34. ASSUME NEW c \in Codes, Install(c) PROVE Copying'
  BY <1>34 DEF Install, KeepProcesses, disk
<1>35. ASSUME NEW kind \in {"backup", "amend"}, Begin(kind, FALSE), maint' = maint PROVE Copying'
  BY <1>35 DEF Begin, LockFree, disk, None
<1>36. CASE UNCHANGED vars
  BY <1>36 DEF vars, disk
<1> QED
  BY <1>1, <1>2, <1>3, <1>4, <1>5, <1>6, <1>7, <1>8, <1>9, <1>10, <1>11, <1>12, <1>13, <1>14, <1>15, <1>16, <1>17, <1>18,
     <1>19, <1>20, <1>21, <1>22, <1>23, <1>24, <1>25, <1>26, <1>27, <1>28, <1>29, <1>30, <1>31, <1>32, <1>33, <1>34, <1>35, <1>36
     DEF Next, Service, Job, Commands, Maintenance, Operator

-----------------------------------------------------------------------------
\* The invariant holds throughout.
THEOREM Invariance == Spec => []HInv
<1>1. HInv /\ [Next]_vars => HInv'
  BY TypeStep, LockedStep, GuardedStep, CopyingStep, ReportedStep DEF HInv
<1> QED
  BY Initially, <1>1, PTL DEF Spec

\* Every variable has its type, for any versions and bounds (Host.TypeOK).
THEOREM Typing == Spec => []TypeOK
<1>1. HInv => TypeOK
  BY DEF HInv, Types, TypeOK, Workers, Jobs, Chain
<1> QED
  BY Invariance, <1>1, PTL

\* A bar is only ever recorded by the code the journal's last amendment names.
THEOREM AmendedCodeWrites == Spec => OnlyAmendedCodeWrites
<1>1. HInv /\ [Next]_vars => (ledger' # ledger => worker.code = CodeOf(journal))
  <2> SUFFICES ASSUME HInv, [Next]_vars, ledger' # ledger PROVE worker.code = CodeOf(journal)
    OBVIOUS
  <2>1. Receive \/ Apply
    BY DEF Next, Service, Job, Commands, Maintenance, Operator, vars, Start, Restart,
       ReadRegistration, Own, Report, Leave, WorkerFails, CopyReceipts, CopyLedgers, EndBackup,
       Archive, ArchiveWritten, JournalAmendment, ReplaceManifest, JobFails, KeepRest, Check,
       Mark, SyncMarker, StopUnit, Recheck, Fails, BeginCopy, Begin, StepFails, VerifyCopy, Send,
       Clear, Resume, KeepService, WriteStop, RemoveStop, Install, Settle, KeepProcesses,
       KillMaintenance, PowerLoss
  <2> QED
    BY <2>1 DEF Receive, Apply, HInv, Locked
<1> QED
  BY Invariance, <1>1, PTL DEF Spec, OnlyAmendedCodeWrites

\* The worker starts neither against STOP nor while a maintenance is unsettled.
THEOREM AllowedStarts == Spec => StartsOnlyWhenAllowed
<1>1. HInv /\ [Next]_vars => (worker'.at = "starting" /\ worker.at # "starting" => ~stop /\ ~owed)
  <2> SUFFICES ASSUME HInv, [Next]_vars, worker'.at = "starting", worker.at # "starting"
               PROVE  ~stop /\ ~owed
    OBVIOUS
  <2> USE DEF Off, HInv, Types, Workers
  <2>a. ASSUME Service PROVE Start \/ Restart
    <3>1. ~ReadRegistration /\ ~Own
      BY DEF ReadRegistration, Own
    <3>2. ~Leave /\ ~WorkerFails
      BY DEF Leave, WorkerFails
    <3>3. ~Receive /\ ~Apply /\ ~Report
      BY DEF Receive, Apply, Report
    <3> QED
      BY <2>a, <3>1, <3>2, <3>3, Zenon DEF Service
  <2>b. ASSUME Job PROVE FALSE
    BY <2>b DEF Job, CopyReceipts, CopyLedgers, EndBackup, Archive, ArchiveWritten,
       JournalAmendment, ReplaceManifest, JobFails, KeepRest
  <2>c. ASSUME Maintenance PROVE Resume
    <3>1. ~StopUnit
      BY DEF StopUnit
    <3>2. ~Recheck /\ ~Clear
      BY DEF Recheck, Clear, Fails
    <3>3. ~Check /\ ~Mark /\ ~SyncMarker /\ ~VerifyCopy /\ ~Send
      BY DEF Check, Mark, SyncMarker, VerifyCopy, Send
    <3>4. ~BeginCopy /\ ~StepFails /\ ~KillMaintenance
      BY DEF BeginCopy, Begin, StepFails, KillMaintenance
    <3> QED
      BY <2>c, <3>1, <3>2, <3>3, <3>4, Zenon DEF Maintenance
  <2>d. ASSUME Commands \/ Operator PROVE FALSE
    BY <2>d DEF Commands, Begin, Operator, WriteStop, RemoveStop, Install, Settle, KeepProcesses
  <2>1. Start \/ Restart \/ Resume \/ PowerLoss
    BY <2>a, <2>b, <2>c, <2>d DEF Next, vars
  <2>2. CASE Start \/ Restart \/ Resume
    BY <2>2 DEF Start, Restart, Resume, Startable, Off, HInv, Guarded
  <2>3. CASE PowerLoss
    BY <2>3 DEF PowerLoss, Off, HInv, Guarded
  <2> QED
    BY <2>1, <2>2, <2>3
<1> QED
  BY Invariance, <1>1, PTL DEF Spec, StartsOnlyWhenAllowed

\* A complete copy is the ledgers at one moment.
THEOREM Coherence == Spec => []CoherentCopy
<1>1. HInv => CoherentCopy
  BY DEF HInv, Copying, CoherentCopy
<1> QED
  BY Invariance, <1>1, PTL

\* What maintenance sends off the host is the flat ledger it stopped.
THEOREM Rest == Spec => []RestingCopy
<1>1. HInv => RestingCopy
  BY DEF HInv, Copying, RestingCopy, Copied, Verified, Stopped, Fenced
<1> QED
  BY Invariance, <1>1, PTL
================================================================================

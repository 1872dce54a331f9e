---------------------------------- MODULE Host ----------------------------------
(***************************************************************************)
(* One run directory on the cloud host and everyone who touches it: the    *)
(* paper worker under systemd, the operator's stop, backup and amendment   *)
(* commands (scripts/continuous_paper.py), and the timed maintenance that  *)
(* stops the worker, copies its ledgers off the host and starts it again   *)
(* (deploy/gcp).  Kills and power losses come between any two durable      *)
(* writes.  The registration is the sequence of its amendments: the frozen *)
(* protocol and the original manifest never change.                        *)
(***************************************************************************)
EXTENDS Integers, Sequences

CONSTANTS Codes,                          \* versions of the code; 0 is the registered one
          MaxJournal, MaxWrites, MaxFaults  \* bounds of the checked instances

ASSUME HostAssumption == /\ 0 \in Codes /\ Codes \subseteq Nat
                         /\ {MaxJournal, MaxWrites, MaxFaults} \subseteq Nat

VARIABLES
    current,   \* the release /opt/tajari/current points to
    manifest,  \* registration.json: its amendments
    synced,    \* what a power loss leaves of it
    archives,  \* archived registrations: "torn" or "whole"
    journal,   \* the amendments in receipts.sqlite
    stop,      \* the operator's STOP file
    marker,    \* the maintenance fence: absent, unsynced, present, unlinked
    worker,    \* the service: where it is, its code and the registration it read
    ledger,    \* receipts and what the scenarios applied; a position held, an order
               \* or intent pending
    status,    \* status.json
    job,       \* the process that copies ledgers, under the worker's lock
    copy,      \* the files copied so far, by a command or by maintenance
    maint,     \* the maintenance process
    owed,      \* maintenance stopped the worker, and nobody has settled it since
    faults

vars == <<current, manifest, synced, archives, journal, stop, marker, worker,
          ledger, status, job, copy, maint, owed, faults>>
disk == <<manifest, synced, archives, journal>>

None == [receipts |-> -1, applied |-> -1, held |-> FALSE, pending |-> FALSE]
Idle == [kind |-> "none", at |-> "done", code |-> 0, timed |-> FALSE]
Off  == [at |-> "off", code |-> 0, read |-> <<>>]

CodeOf(chain) == IF chain = <<>> THEN 0 ELSE chain[Len(chain)].code
Archived(chain) == chain \in DOMAIN archives

Init ==
    /\ current = 0
    /\ manifest = <<>> /\ synced = <<>> /\ journal = <<>>
    /\ archives = <<>>
    /\ stop = TRUE /\ marker = "absent"
    /\ worker = Off
    /\ ledger = [receipts |-> 0, applied |-> 0, held |-> FALSE, pending |-> FALSE]
    /\ status = [stopped |-> TRUE, flat |-> TRUE]
    /\ job = Idle /\ copy = [timed \in BOOLEAN |-> None]
    /\ maint = "idle" /\ owed = FALSE
    /\ faults = 0

LockFree  == worker.at # "on" /\ job = Idle
MayFail   == faults < MaxFaults
Startable == ~stop /\ marker \in {"absent", "unlinked"}
Starting  == [at |-> "starting", code |-> current, read |-> <<>>]

-----------------------------------------------------------------------------
(* The service. *)

\* systemctl start, or Restart=on-failure after the worker failed
Start ==
    /\ worker.at = "off" /\ Startable
    /\ worker' = Starting
    /\ UNCHANGED <<current, disk, stop, marker, ledger, status, job, copy, maint, owed, faults>>

Restart ==
    /\ worker.at = "failed"
    /\ worker' = IF Startable THEN Starting ELSE Off
    /\ UNCHANGED <<current, disk, stop, marker, ledger, status, job, copy, maint, owed, faults>>

\* ContinuousPaper.__init__ reads the registration before it takes the lock.
ReadRegistration ==
    /\ worker.at = "starting"
    /\ worker' = IF worker.code = CodeOf(manifest)
                 THEN [worker EXCEPT !.at = "read", !.read = manifest]
                 ELSE [Off EXCEPT !.at = "failed"]
    /\ UNCHANGED <<current, disk, stop, marker, ledger, status, job, copy, maint, owed, faults>>

\* Mutant: the amendments in the journal are not compared.
ArchivesVerify(chain) ==
    \A i \in DOMAIN chain : Archived(SubSeq(chain, 1, i - 1))
                            /\ archives[SubSeq(chain, 1, i - 1)] = "whole"

\* verify_registration_lineage
LineageVerifies(chain) ==
    /\ chain = journal
    /\ \A i \in DOMAIN chain : Archived(SubSeq(chain, 1, i - 1))
                               /\ archives[SubSeq(chain, 1, i - 1)] = "whole"

Own ==
    /\ worker.at = "read"
    /\ worker' = IF LockFree /\ LineageVerifies(worker.read)
                 THEN [worker EXCEPT !.at = "on"] ELSE [Off EXCEPT !.at = "failed"]
    /\ status' = IF worker'.at = "on" THEN [stopped |-> FALSE, flat |-> ~ledger.held]
                                      ELSE status
    /\ synced' = IF worker'.at = "on" THEN manifest ELSE synced   \* process_started
    /\ UNCHANGED <<current, manifest, archives, journal, stop, marker, ledger, job, copy,
                   maint, owed, faults>>

\* A bar: its receipt, then the scenarios' ledgers, then the next report
Receive ==
    /\ worker.at = "on" /\ ~stop
    /\ ledger.applied = ledger.receipts /\ ledger.receipts < MaxWrites
    /\ ledger' = [ledger EXCEPT !.receipts = @ + 1]
    /\ UNCHANGED <<current, disk, stop, marker, worker, status, job, copy, maint, owed, faults>>

Apply ==
    /\ worker.at = "on" /\ ledger.applied < ledger.receipts
    /\ \E held, pending \in BOOLEAN :
          ledger' = [ledger EXCEPT !.applied = ledger.receipts,
                                   !.held = held, !.pending = pending]
    /\ UNCHANGED <<current, disk, stop, marker, worker, status, job, copy, maint, owed, faults>>

Report ==
    /\ worker.at = "on" /\ ledger.applied = ledger.receipts
    /\ status' = [stopped |-> FALSE, flat |-> ~ledger.held]
    /\ status' # status
    /\ UNCHANGED <<current, disk, stop, marker, worker, ledger, job, copy, maint, owed, faults>>

\* The loop sees STOP, and the finally block reports.
Leave ==
    /\ worker.at = "on" /\ stop /\ ledger.applied = ledger.receipts
    /\ worker' = Off
    /\ status' = [stopped |-> TRUE, flat |-> ~ledger.held]
    /\ UNCHANGED <<current, disk, stop, marker, ledger, job, copy, maint, owed, faults>>

WorkerFails ==
    /\ MayFail /\ faults' = faults + 1
    /\ worker.at \in {"starting", "read", "on"}
    /\ worker' = [Off EXCEPT !.at = "failed"]
    /\ UNCHANGED <<current, disk, stop, marker, ledger, status, job, copy, maint, owed>>

-----------------------------------------------------------------------------
(* backup() and amend_registration(): a copy under the worker's lock. *)

\* Mutant: the lock is not taken.
BeginUnlocked(kind, timed) ==
    /\ job = Idle
    /\ kind = "amend" => stop /\ current # CodeOf(manifest) /\ Len(journal) < MaxJournal
    /\ job' = [kind |-> kind, at |-> "begun", code |-> current, timed |-> timed]
    /\ copy' = [copy EXCEPT ![timed] = None]
    /\ UNCHANGED <<current, disk, stop, marker, worker, ledger, status, owed, faults>>

Begin(kind, timed) ==
    /\ LockFree
    /\ kind = "amend" => stop /\ current # CodeOf(manifest) /\ Len(journal) < MaxJournal
    /\ job' = [kind |-> kind, at |-> "begun", code |-> current, timed |-> timed]
    /\ copy' = [copy EXCEPT ![timed] = None]
    /\ UNCHANGED <<current, disk, stop, marker, worker, ledger, status, owed, faults>>

JobAt(p) == job.kind # "none" /\ job.at = p
JobStep(p) == job' = [job EXCEPT !.at = p]
KeepRest == UNCHANGED <<current, stop, marker, worker, ledger, status, maint, owed, faults>>

CopyReceipts ==
    /\ JobAt("begun") /\ JobStep("half")
    /\ copy' = [copy EXCEPT ![job.timed] = [None EXCEPT !.receipts = ledger.receipts]]
    /\ UNCHANGED disk /\ KeepRest

CopyLedgers ==
    /\ JobAt("half") /\ JobStep("copied")
    /\ copy' = [copy EXCEPT ![job.timed] = [receipts |-> @.receipts, applied |-> ledger.applied,
                                            held |-> ledger.held,
                                            pending |-> ledger.pending]]
    /\ UNCHANGED disk /\ KeepRest

EndBackup ==
    /\ JobAt("copied") /\ job.kind = "backup"
    /\ job' = Idle
    /\ maint' = IF job.timed THEN "copied" ELSE maint
    /\ UNCHANGED <<current, disk, copy, stop, marker, worker, ledger, status, owed, faults>>

With(chain, state) == [c \in DOMAIN archives \cup {chain} |->
                         IF c = chain THEN state ELSE archives[c]]

\* The archive is written only when there is no file of its name.
Archive ==
    /\ JobAt("copied") /\ job.kind = "amend"
    /\ IF Archived(manifest) THEN JobStep("archived") /\ UNCHANGED archives
       ELSE JobStep("writing") /\ archives' = With(manifest, "torn")
    /\ UNCHANGED <<manifest, synced, journal, copy>> /\ KeepRest

ArchiveWritten ==
    /\ JobAt("writing") /\ JobStep("archived")
    /\ archives' = With(manifest, "whole")
    /\ synced' = manifest
    /\ UNCHANGED <<manifest, journal, copy>> /\ KeepRest

Amendment == [code |-> job.code, id |-> Len(journal) + 1]
JournalAmendment ==
    /\ JobAt("archived") /\ JobStep("journalled")
    /\ journal' = Append(journal, Amendment)
    /\ synced' = manifest
    /\ UNCHANGED <<manifest, archives, copy>> /\ KeepRest

ReplaceManifest ==
    /\ JobAt("journalled")
    /\ manifest' = Append(manifest, journal[Len(journal)])
    /\ job' = Idle
    /\ UNCHANGED <<synced, archives, journal, copy>> /\ KeepRest

\* The command is killed or fails; its lock goes with it.
JobFails ==
    /\ job.kind # "none" /\ ~job.timed
    /\ MayFail /\ faults' = faults + 1
    /\ job' = Idle
    /\ UNCHANGED <<current, disk, stop, marker, worker, ledger, status, copy, maint, owed>>

-----------------------------------------------------------------------------
(* maintenance-backup.py *)

KeepService == UNCHANGED <<current, disk, stop, ledger, job, copy>>

\* The unit is active; flat by status.json, which may be as old as the last
\* report, and nothing pending in the ledgers themselves.
Check ==
    /\ maint = "idle" /\ ~stop /\ worker.at \in {"starting", "read", "on"}
    /\ status.flat /\ ~ledger.pending
    /\ maint' = "checked"
    /\ UNCHANGED <<marker, worker, status, owed, faults>> /\ KeepService

\* The fence is created exclusively, then synced with its directory.
Mark ==
    /\ maint = "checked"
    /\ IF marker \in {"absent", "unlinked"}
       THEN marker' = "unsynced" /\ maint' = "marked"
       ELSE maint' = "idle" /\ UNCHANGED marker
    /\ UNCHANGED <<worker, status, owed, faults>> /\ KeepService

SyncMarker ==
    /\ maint = "marked" /\ maint' = "fenced"
    /\ marker' = "present"
    /\ UNCHANGED <<worker, status, owed, faults>> /\ KeepService

\* Mutant: the worker is stopped before the fence is synced.
StopUnfenced ==
    /\ maint = "marked" /\ maint' = "stopped"
    /\ owed' = TRUE
    /\ worker' = Off
    /\ status' = IF worker.at = "on" THEN [stopped |-> TRUE, flat |-> ~ledger.held] ELSE status
    /\ UNCHANGED <<marker, faults>> /\ KeepService

\* systemctl stop: SIGTERM, or SIGKILL after 45 s without a last report
StopUnit ==
    /\ maint = "fenced" /\ maint' = "stopped"
    /\ owed' = TRUE
    /\ worker' = Off
    /\ \/ /\ worker.at = "on" /\ ledger.applied = ledger.receipts
          /\ status' = [stopped |-> TRUE, flat |-> ~ledger.held]
          /\ UNCHANGED faults
       \/ /\ worker.at # "on" /\ UNCHANGED <<status, faults>>
       \/ /\ worker.at = "on" /\ MayFail /\ faults' = faults + 1
          /\ UNCHANGED status
    /\ UNCHANGED marker /\ KeepService

\* The except branch: the fence stays, or is created again.
Fails ==
    /\ maint' = "idle"
    /\ marker' = "present"
    /\ UNCHANGED <<worker, status, owed, faults>> /\ KeepService

\* Mutant: what the stopped worker left is not looked at again.
NoRecheck ==
    /\ maint = "stopped" /\ maint' = "verified"
    /\ UNCHANGED <<marker, worker, status, owed, faults>> /\ KeepService

Recheck ==
    /\ maint = "stopped"
    /\ IF status.stopped /\ status.flat /\ ~ledger.pending /\ ~stop
       THEN /\ maint' = "verified"
            /\ UNCHANGED <<marker, worker, status, owed, faults>> /\ KeepService
       ELSE Fails

BeginCopy == maint = "verified" /\ maint' = "copying" /\ Begin("backup", TRUE)

\* Another command holds the lock, or a step fails.
StepFails ==
    /\ maint \in {"verified", "copying", "copied", "proved", "sent", "cleared"}
    /\ \/ maint = "verified" /\ ~LockFree /\ UNCHANGED faults
       \/ MayFail /\ faults' = faults + 1
    /\ maint' = "idle" /\ marker' = "present"
    /\ job' = IF job.timed THEN Idle ELSE job
    /\ UNCHANGED <<current, disk, stop, worker, ledger, status, copy, owed>>

VerifyCopy ==
    /\ maint = "copied" /\ maint' = "proved"
    /\ UNCHANGED <<marker, worker, status, owed, faults>> /\ KeepService

\* The archive is uploaded and the upload checked; then the report is replaced.
Send ==
    /\ maint = "proved" /\ maint' = "sent"
    /\ owed' = FALSE
    /\ UNCHANGED <<marker, worker, status, faults>> /\ KeepService

Clear ==
    /\ maint = "sent"
    /\ IF stop THEN Fails
       ELSE /\ maint' = "cleared" /\ marker' = "unlinked"
            /\ UNCHANGED <<worker, status, owed, faults>> /\ KeepService

\* systemctl start succeeds without starting a unit whose conditions fail.
Resume ==
    /\ maint = "cleared" /\ maint' = "idle"
    /\ worker' = IF worker.at = "off" /\ Startable THEN Starting ELSE worker
    /\ UNCHANGED <<marker, status, owed, faults>> /\ KeepService

-----------------------------------------------------------------------------
(* The operator, the kills and the power. *)

KeepProcesses == UNCHANGED <<disk, worker, ledger, status, job, copy, maint, faults>>

WriteStop  == ~stop /\ stop' = TRUE /\ UNCHANGED <<current, marker, owed>> /\ KeepProcesses
RemoveStop == stop /\ stop' = FALSE /\ UNCHANGED <<current, marker, owed>> /\ KeepProcesses
Install(c) == current # c /\ current' = c /\ UNCHANGED <<stop, marker, owed>> /\ KeepProcesses

\* An engineer clears the fence after explaining the failure.
Settle ==
    /\ maint = "idle" /\ marker = "present"
    /\ marker' = "absent" /\ owed' = FALSE
    /\ UNCHANGED <<current, stop>> /\ KeepProcesses

KillMaintenance ==
    /\ maint # "idle" /\ MayFail /\ faults' = faults + 1
    /\ maint' = "idle"
    /\ job' = IF job.timed THEN Idle ELSE job
    /\ UNCHANGED <<current, disk, stop, marker, worker, ledger, status, copy, owed>>

\* Directory entries that were not synced may or may not survive; the service is
\* enabled and systemd starts it if its conditions hold.
PowerLoss ==
    /\ MayFail /\ faults' = faults + 1
    /\ marker' \in IF marker \in {"unsynced", "unlinked"} THEN {"absent", "present"} ELSE {marker}
    /\ \E m \in {manifest, synced} : manifest' = m /\ synced' = m
    /\ job' = Idle /\ maint' = "idle"
    /\ worker' = IF ~stop /\ marker' = "absent" THEN Starting ELSE Off
    /\ UNCHANGED <<current, archives, journal, stop, ledger, status, copy, owed>>

Service == Start \/ Restart \/ ReadRegistration \/ Own \/ Receive \/ Apply
           \/ Report \/ Leave \/ WorkerFails
Job == \/ CopyReceipts \/ CopyLedgers \/ EndBackup \/ Archive \/ ArchiveWritten
       \/ JournalAmendment \/ ReplaceManifest \/ JobFails
Commands == \E kind \in {"backup", "amend"} : Begin(kind, FALSE) /\ UNCHANGED maint
Maintenance == \/ Check \/ Mark \/ SyncMarker \/ StopUnit \/ Recheck \/ BeginCopy
               \/ VerifyCopy \/ Send \/ Clear \/ Resume \/ StepFails \/ KillMaintenance
Operator == WriteStop \/ RemoveStop \/ Settle \/ \E c \in Codes : Install(c)

Next == Service \/ Job \/ Commands \/ Maintenance \/ Operator \/ PowerLoss

Spec == Init /\ [][Next]_vars

-----------------------------------------------------------------------------
TypeOK ==
    /\ current \in Codes
    /\ {manifest, synced, journal} \subseteq Seq([code : Codes, id : Nat])
    /\ stop \in BOOLEAN /\ owed \in BOOLEAN
    /\ marker \in {"absent", "unsynced", "present", "unlinked"}
    /\ worker \in [at : {"off", "starting", "read", "on", "failed"}, code : Codes,
                   read : Seq([code : Codes, id : Nat])]
    /\ job \in [kind : {"none", "backup", "amend"}, code : Codes, timed : BOOLEAN,
                at : {"done", "begun", "half", "copied", "writing", "archived", "journalled"}]

(* Whatever was amended, interrupted, reinstalled or restored by a power   *)
(* loss, a bar is only ever recorded by the code that the last amendment   *)
(* in the ledger's own journal names (verify_registration_lineage: "neither *)
(* old nor new code may resume").                                          *)
OnlyAmendedCodeWrites ==
    [][ledger' # ledger => worker.code = CodeOf(journal)]_vars

(* A copy that is complete is the ledgers at one moment, whoever asked for *)
(* it ("a coherent multi-ledger backup").                                  *)
CoherentCopy ==
    JobAt("copied") => copy[job.timed] = ledger

(* What maintenance sends off the host is the flat ledger it stopped, and  *)
(* still the latest when the fence goes (maintenance-backup.py main).      *)
RestingCopy == maint \in {"copied", "proved", "sent"} =>
    copy[TRUE] = ledger /\ ~ledger.held /\ ~ledger.pending

(* The worker starts neither against an operator's STOP nor after a        *)
(* maintenance that was cut short, by a kill or a loss of power, until its *)
(* backup is off the host or an engineer has settled it ("systemd must     *)
(* still refuse restart").                                                 *)
StartsOnlyWhenAllowed ==
    [][worker'.at = "starting" /\ worker.at # "starting" => ~stop /\ ~owed]_vars
===============================================================================

--------------------------------- MODULE Update ---------------------------------
(****************************************************************************)
(* Updating the program and rolling an update back (src/release/update.js,  *)
(* the update routes of src/web/server.js, bin/update.js, bin/rollback.js,  *)
(* the start of bin/service.js).                                            *)
(*                                                                          *)
(* Two processes can update: the service, for the web page, and bin/update. *)
(* The installer outlives whoever launched it.  What they share is files:   *)
(* current.json, the version directories, the installers, the database,     *)
(* rollback.json, the health marker and the rollback status.                *)
(*                                                                          *)
(* A version number also stands for the schema of its database.  Locks and  *)
(* leases of a rollback are those of RollbackLock, file operations of a     *)
(* restore those of Restore: here each is one step.                         *)
(****************************************************************************)
EXTENDS Naturals, FiniteSets

CONSTANTS
    Versions,    \* of the program, 1..n; the lowest is installed first
    Digests,     \* two manifests of one version differ in the digest
    MaxPublishes, MaxUpdates, MaxRollbacks, MaxFaults,  \* bounds
    MaxOperations   \* updates and rollbacks together

ASSUME UpdateAssumption ==
    /\ Versions \subseteq Nat \ {0} /\ {1, 2} \subseteq Versions
    /\ Digests \subseteq Nat \ {0} /\ 1 \in Digests
    /\ MaxPublishes \in Nat /\ MaxUpdates \in Nat /\ MaxRollbacks \in Nat /\ MaxFaults \in Nat
    /\ MaxOperations \in Nat

VARIABLES
    published, \* manifest on the stable channel
    running,   \* version of the running service, or 0
    current,   \* version in current.json, or 0 when the file is missing
    installed, \* version directories
    schema,    \* of the database
    latest,    \* updateLatestResult: the manifest, when it was newer
    deferred,  \* updateDeferred
    record,    \* rollback.json
    health,    \* the marker of the post-update check
    sidecar,   \* the rollback status
    upd,       \* what each updater is doing
    files,     \* downloaded installer of each version
    installer, \* installer launched by each updater that is still running
    restart,   \* the installer has asked the launcher for a restart
    runner,    \* the rollback runner
    publishes, updates, rollbacks, faults,
    \* history, read by the properties only
    seen,      \* manifests published so far
    confirmed, \* manifests the user has confirmed
    mixed,     \* updaters, installers and rollbacks have overlapped, or versions
    failure    \* of the last rollback: shown, or lost in a status write broken off

programVars == <<running, current, installed, schema>>
settingVars == <<latest, deferred>>
markVars    == <<record, health, sidecar>>
workVars    == <<upd, files, installer, restart, runner>>
boundVars   == <<publishes, updates, rollbacks, faults>>
seenVars    == <<seen, confirmed, mixed, failure>>
vars == <<published, programVars, settingVars, markVars, workVars, boundVars, seenVars>>

-----------------------------------------------------------------------------
Updaters == {"web", "cli"}
Releases == [version : Versions, digest : Digests]
None     == [version |-> 0, digest |-> 0]
First    == [version |-> 2, digest |-> 1]

NoUpdate == [phase |-> "idle", by |-> 0, release |-> None]
NoRecord == [previous |-> 0, target |-> 0, backup |-> 0]
NoHealth == [target |-> 0, status |-> "none"]
NoRunner == [step |-> "none", record |-> NoRecord]

\* Phases without an await between them: nothing else happens in that process.
Synchronous == {"recording", "marking", "launching"}
Phases == {"idle", "checking", "downloading", "installing", "verifying"} \cup Synchronous

\* Steps of a rollback: those of the service that accepts it, then those of its runner.
Accepting    == {"settling", "settled", "accepting"}
ServiceSteps == Accepting \cup {"accepted"}
RunnerSteps  == {"spawned", "announcing", "restoring", "restored", "unpointed", "switched",
                 "cleared", "started", "finishing"}
RollbackSteps == {"none", "failing"} \cup ServiceSteps \cup RunnerSteps

\* writeRollbackStatus removes the old status before it renames the new one: here it is gone.
Writing == {"settling", "accepting", "announcing", "finishing", "failing"}

\* The service is at none of its steps that no other can divide.
Responsive == upd.web.phase \notin Synchronous /\ runner.step \notin Accepting
Serving == running # 0 /\ Responsive
RollbackActive == sidecar \in {"accepted", "running"}

\* updateAvailable of a result, as seen by the version that looks at it (pendingUpdate).
Available(release, version) == IF release.version > version THEN release ELSE None

Init ==
    /\ published = First
    /\ running = 1 /\ current = 1 /\ installed = {1} /\ schema = 1
    /\ latest = None /\ deferred = None
    /\ record = NoRecord /\ health = NoHealth /\ sidecar = "none"
    /\ upd = [u \in Updaters |-> NoUpdate]
    /\ files = [v \in Versions |-> None]
    /\ installer = [u \in Updaters |-> None]
    /\ restart = FALSE /\ runner = NoRunner
    /\ publishes = 0 /\ updates = 0 /\ rollbacks = 0 /\ faults = 0
    /\ seen = {First} /\ confirmed = {} /\ mixed = FALSE /\ failure = "none"

Phase(u, from, to) ==
    /\ upd[u].phase = from
    /\ upd' = [upd EXCEPT ![u].phase = to]

\* An update that was going on in the service is forgotten with the process.
WebForgotten == [upd EXCEPT !["web"] = NoUpdate]

Busy == \/ \E u \in Updaters : upd[u].phase # "idle" \/ installer[u] # None
        \/ restart \/ runner.step # "none"

MoreToDo == updates + rollbacks < MaxOperations

-----------------------------------------------------------------------------
(* The channel, and what the user sees and decides *)

\* A newer version, or the same one with other notes or another file.
Publish ==
    /\ publishes < MaxPublishes
    /\ \E r \in Releases :
        /\ r # published /\ r.version >= published.version
        /\ published' = r /\ seen' = seen \cup {r}
    /\ publishes' = publishes + 1
    /\ UNCHANGED <<programVars, settingVars, markVars, workVars, updates, rollbacks, faults, confirmed,
                   mixed, failure>>

\* The scheduled check, or the button; a check that fails keeps the last result.
Check ==
    /\ Serving
    /\ latest' = Available(published, running)
    /\ UNCHANGED <<published, programVars, deferred, markVars, workVars, boundVars, seenVars>>

\* The manifest is asked for again; the choice must be about that one.
Defer(choice) ==
    /\ Serving
    /\ latest' = Available(published, running)
    /\ deferred' = IF latest' # None /\ choice = published THEN choice ELSE deferred
    /\ UNCHANGED <<published, programVars, markVars, workVars, boundVars, seenVars>>

Resume ==
    /\ Serving
    /\ deferred' = None
    /\ UNCHANGED <<published, programVars, latest, markVars, workVars, boundVars, seenVars>>

\* The user confirms a manifest on a page, perhaps an old one, or on a command line.
Begin(u, choice, version) ==
    /\ upd[u].phase = "idle" /\ updates < MaxUpdates /\ MoreToDo
    /\ upd' = [upd EXCEPT ![u] = [phase |-> "checking", by |-> version, release |-> choice]]
    /\ updates' = updates + 1
    /\ confirmed' = confirmed \cup {choice}
    /\ mixed' = (mixed \/ Busy \/ (running # 0 /\ version # running))
    /\ UNCHANGED <<published, running, current, installed, settingVars, markVars, files, installer,
                   restart, runner, publishes, rollbacks, faults, seen, failure>>

\* POST /api/update/apply; while one is active it only answers with that one.
Apply(choice) ==
    /\ Serving
    /\ Begin("web", choice, running)
    /\ UNCHANGED schema

\* bin/update.js opens the database, so it migrates it.
RunCli(choice) ==
    /\ current # 0 /\ current \in installed /\ schema <= current
    /\ Begin("cli", choice, current)
    /\ schema' = current

-----------------------------------------------------------------------------
(* An update *)

\* Mutated form of Confirmed: any confirmation will do.
ConfirmedAnything(choice, manifest) == TRUE

\* validateUpdateConfirmation
Confirmed(choice, manifest) == choice = manifest

\* The channel is asked again, and must still offer what was confirmed.
CheckConfirmation(u) ==
    LET ok == published.version > upd[u].by /\ Confirmed(upd[u].release, published) IN
    /\ upd[u].phase = "checking"
    /\ upd' = [upd EXCEPT ![u] = IF ok THEN [@ EXCEPT !.phase = "downloading", !.release = published]
                                       ELSE NoUpdate]
    /\ latest' = IF u = "web" THEN Available(published, upd[u].by) ELSE latest
    /\ UNCHANGED <<published, programVars, deferred, markVars, files, installer, restart, runner,
                   boundVars, seenVars>>

\* downloadInstaller writes what it has verified.
Download(u) ==
    /\ Phase(u, "downloading", "recording")
    /\ files' = [files EXCEPT ![upd[u].release.version] = upd[u].release]
    /\ UNCHANGED <<published, programVars, settingVars, markVars, installer, restart, runner, boundVars, seenVars>>

\* The channel, the download or the backup fails.
GiveUp(u) ==
    /\ upd[u].phase \in {"checking", "downloading", "recording"}
    /\ upd' = [upd EXCEPT ![u] = NoUpdate]
    /\ UNCHANGED <<published, programVars, settingVars, markVars, files, installer, restart, runner,
                   boundVars, seenVars>>

NewRecord(u) == [previous |-> upd[u].by, target |-> upd[u].release.version, backup |-> schema]

\* Mutated form of WriteRecord: the old failure is forgotten here.
WriteRecordAndClear(u) ==
    /\ Phase(u, "recording", "marking")
    /\ record' = NewRecord(u)
    /\ sidecar' = "none"
    /\ UNCHANGED <<published, programVars, settingVars, health, files, installer, restart, runner,
                   boundVars, seenVars>>

\* The backup, and the record that names it.
WriteRecord(u) ==
    /\ Phase(u, "recording", "marking")
    /\ record' = NewRecord(u)
    /\ UNCHANGED <<published, programVars, settingVars, health, sidecar, files, installer, restart,
                   runner, boundVars, seenVars>>

WriteMarker(u) ==
    /\ Phase(u, "marking", "launching")
    /\ health' = [target |-> upd[u].release.version, status |-> "pending"]
    /\ UNCHANGED <<published, programVars, settingVars, record, sidecar, files, installer, restart,
                   runner, boundVars, seenVars>>

\* The old rollback status and the deferral go; the file of that version is started.  A failed
\* rollback is answered when the record and the marker are those of this update.
Launch(u) ==
    /\ Phase(u, "launching", "installing")
    /\ sidecar' = "none"
    /\ deferred' = None
    /\ installer' = [installer EXCEPT ![u] = files[upd[u].release.version]]
    /\ failure' = IF record.target = upd[u].release.version /\ health.target = record.target
                  THEN "none" ELSE failure
    /\ UNCHANGED <<published, programVars, latest, record, health, files, restart, runner, boundVars,
                   seen, confirmed, mixed>>

\* The installer ends: the service then waits to be replaced, bin/update.js just ends.
Installed(u) ==
    [upd EXCEPT ![u] = IF @.phase # "installing" THEN @
                       ELSE IF u = "web" THEN [@ EXCEPT !.phase = "verifying"] ELSE NoUpdate]

FinishInstall(u) ==
    /\ installer[u] # None
    /\ installed' = installed \cup {installer[u].version}
    /\ current' = installer[u].version
    /\ restart' = TRUE
    /\ installer' = [installer EXCEPT ![u] = None]
    /\ upd' = Installed(u)
    /\ UNCHANGED <<published, running, schema, settingVars, markVars, files, runner, boundVars, seenVars>>

\* It cannot be started, it ends with another exit code, or the machine goes down.
FailInstall(u) ==
    /\ installer[u] # None
    /\ installer' = [installer EXCEPT ![u] = None]
    /\ upd' = [upd EXCEPT ![u] = IF @.phase = "installing" THEN NoUpdate ELSE @]
    /\ UNCHANGED <<published, programVars, settingVars, markVars, files, restart, runner, boundVars, seenVars>>

\* confirmUpdateHandover: this process is still there at the deadline, which is a failure.
VerifyTimeout ==
    /\ upd.web.phase = "verifying"
    /\ upd' = WebForgotten
    /\ UNCHANGED <<published, programVars, settingVars, markVars, files, installer, restart, runner,
                   boundVars, seenVars>>

-----------------------------------------------------------------------------
(* The service *)

\* Mutated form of Judged: a version that does not pass is judged at a later start.
JudgedWhenHealthy(version, integrity) ==
    IF health.status = "pending" /\ health.target = version /\ integrity
    THEN [health EXCEPT !.status = "healthy"] ELSE health

\* finalizePostUpdateHealth: a verdict is final.
Judged(version, integrity) ==
    IF health.status # "pending" THEN health
    ELSE [health EXCEPT !.status = IF health.target = version /\ integrity THEN "healthy" ELSE "failed"]

\* Opens and migrates the database, then looks at the marker.
Start(version) ==
    /\ running = 0 /\ version \in installed /\ schema <= version
    /\ running' = version
    /\ schema' = version
    /\ \E integrity \in BOOLEAN : health' = Judged(version, integrity)

\* The launcher and the service's own control: not during a rollback.
StartService ==
    /\ ~RollbackActive
    /\ Start(current)
    /\ UNCHANGED <<published, current, installed, settingVars, record, sidecar, workVars, boundVars, seenVars>>

\* A start is killed before it has looked at the marker.
BreakStart ==
    /\ ~RollbackActive /\ faults < MaxFaults
    /\ running = 0 /\ current \in installed /\ schema <= current
    /\ schema' = current
    /\ faults' = faults + 1
    /\ UNCHANGED <<published, running, current, installed, settingVars, markVars, workVars,
                   publishes, updates, rollbacks, seenVars>>

\* The user stops it, or logs off; when it has accepted a rollback it is stopping already.
StopService ==
    /\ Serving /\ runner.step # "accepted"
    /\ running' = 0
    /\ upd' = WebForgotten
    /\ UNCHANGED <<published, current, installed, schema, settingVars, markVars, files, installer,
                   restart, runner, boundVars, seenVars>>

\* The launcher's restart, which a rollback forbids; the start that follows is StartService.
Restart ==
    /\ restart /\ restart' = FALSE
    /\ Responsive
    /\ IF RollbackActive THEN UNCHANGED <<running, upd>>
                         ELSE running' = 0 /\ upd' = WebForgotten
    /\ UNCHANGED <<published, current, installed, schema, settingVars, markVars, files, installer, runner,
                   boundVars, seenVars>>

\* What a rollback that ends here does to the failure on show.
Torn == IF runner.step \in Writing /\ failure = "shown" THEN "lost" ELSE failure

\* An updater is killed, with the service when it is the web page's.
KillUpdater(u) ==
    /\ faults < MaxFaults /\ upd[u].phase # "idle"
    /\ faults' = faults + 1
    /\ upd' = [upd EXCEPT ![u] = NoUpdate]
    /\ running' = IF u = "web" THEN 0 ELSE running
    /\ IF u = "web" /\ runner.step \in ServiceSteps
       THEN runner' = NoRunner /\ failure' = Torn ELSE UNCHANGED <<runner, failure>>
    /\ UNCHANGED <<published, current, installed, schema, settingVars, markVars, files, installer,
                   restart, publishes, updates, rollbacks, seen, confirmed, mixed>>

-----------------------------------------------------------------------------
(* A rollback *)

\* The two halves of writeRollbackStatus: the old status goes, the new one is renamed in.
RemoveStatus(step) ==
    /\ sidecar' = "none"
    /\ runner' = [runner EXCEPT !.step = step]
    /\ UNCHANGED failure

WriteStatus(status, new) ==
    /\ sidecar' = status
    /\ failure' = IF status = "failed" THEN "shown" ELSE "none"
    /\ runner' = new

AtStep(step) == [NoRunner EXCEPT !.step = step]

\* POST /api/update/rollback.  A lease that ran out is first settled as a failure.
AcceptRollback ==
    /\ Serving /\ ~RollbackActive /\ runner.step = "none"
    /\ rollbacks < MaxRollbacks /\ MoreToDo /\ rollbacks' = rollbacks + 1
    /\ RemoveStatus(IF sidecar = "expired" THEN "settling" ELSE "accepting")
    /\ mixed' = (mixed \/ Busy)
    /\ UNCHANGED <<published, programVars, settingVars, record, health, upd, files, installer,
                   restart, publishes, updates, faults, seen, confirmed>>

\* The writes of the handler that follow.
GoOnAccepting ==
    /\ \/ runner.step = "settling"  /\ WriteStatus("failed", AtStep("settled"))
       \/ runner.step = "settled"   /\ RemoveStatus("accepting")
       \/ runner.step = "accepting" /\ WriteStatus("accepted", AtStep("accepted"))
    /\ UNCHANGED <<published, programVars, settingVars, record, health, upd, files, installer,
                   restart, boundVars, seen, confirmed, mixed>>

\* One of them fails: the service goes on, and what it had removed stays away.
FailAcceptance ==
    /\ runner.step \in Accepting /\ faults < MaxFaults /\ faults' = faults + 1
    /\ runner' = NoRunner
    /\ failure' = Torn
    /\ UNCHANGED <<published, programVars, settingVars, markVars, upd, files, installer, restart,
                   publishes, updates, rollbacks, seen, confirmed, mixed>>

\* The service has stopped, after its tick, and spawns the runner, or cannot.
HandOff ==
    /\ runner.step = "accepted" /\ Responsive
    /\ running' = 0 /\ upd' = WebForgotten
    /\ \/ runner' = AtStep("spawned") /\ UNCHANGED <<sidecar, failure>>
       \/ RemoveStatus("failing")
    /\ UNCHANGED <<published, current, installed, schema, settingVars, record, health, files, installer,
                   restart, boundVars, seen, confirmed, mixed>>

\* bin/rollback.js by hand; it needs no service.
RunRollback ==
    /\ runner.step = "none"
    /\ rollbacks < MaxRollbacks /\ MoreToDo /\ rollbacks' = rollbacks + 1
    /\ runner' = AtStep("spawned")
    /\ mixed' = (mixed \/ Busy)
    /\ UNCHANGED <<published, programVars, settingVars, markVars, upd, files, installer, restart,
                   publishes, updates, faults, seen, confirmed, failure>>

\* The runner says that it runs: the old status goes ...
BeginRollback ==
    /\ runner.step = "spawned"
    /\ RemoveStatus("announcing")
    /\ UNCHANGED <<published, programVars, settingVars, record, health, upd, files, installer, restart,
                   boundVars, seen, confirmed, mixed>>

\* ... the new one comes, and rollbackUpdate reads the record.
ReadRecord ==
    /\ runner.step = "announcing"
    /\ WriteStatus("running", [step |-> "restoring", record |-> record])
    /\ UNCHANGED <<published, programVars, settingVars, record, health, upd, files, installer, restart,
                   boundVars, seen, confirmed, mixed>>

MayRestore == running = 0 /\ runner.record.previous \in installed

\* Mutated form of RestoreData: a restore that fails does not end the rollback.
RestoreDataOrGoOn ==
    /\ runner.step = "restoring" /\ runner.record.previous \in installed
    /\ runner' = [runner EXCEPT !.step = "restored"]
    /\ schema' \in {schema, runner.record.backup}
    /\ UNCHANGED <<published, running, current, installed, settingVars, markVars, upd, files, installer,
                   restart, boundVars, seenVars>>

RestoreData ==
    /\ runner.step = "restoring" /\ MayRestore
    /\ runner' = [runner EXCEPT !.step = "restored"]
    /\ schema' = runner.record.backup
    /\ UNCHANGED <<published, running, current, installed, settingVars, markVars, upd, files, installer,
                   restart, boundVars, seenVars>>

\* current.json is removed ...
RemovePointer ==
    /\ runner.step = "restored"
    /\ runner' = [runner EXCEPT !.step = "unpointed"]
    /\ current' = 0
    /\ UNCHANGED <<published, running, installed, schema, settingVars, markVars, upd, files, installer,
                   restart, boundVars, seenVars>>

\* ... and the new one renamed in.
SwitchProgram ==
    /\ runner.step = "unpointed"
    /\ runner' = [runner EXCEPT !.step = "switched"]
    /\ current' = runner.record.previous
    /\ UNCHANGED <<published, running, installed, schema, settingVars, markVars, upd, files, installer,
                   restart, boundVars, seenVars>>

RemoveMarker ==
    /\ runner.step = "switched"
    /\ runner' = [runner EXCEPT !.step = "cleared"]
    /\ health' = NoHealth
    /\ UNCHANGED <<published, programVars, settingVars, record, sidecar, upd, files, installer, restart,
                   boundVars, seenVars>>

\* The runner may start a service while its rollback is active.
StartPrevious ==
    /\ runner.step = "cleared"
    /\ Start(runner.record.previous)
    /\ runner' = [runner EXCEPT !.step = "started"]
    /\ UNCHANGED <<published, current, installed, settingVars, record, sidecar, upd, files, installer,
                   restart, boundVars, seenVars>>

\* The last status of a runner, or of a service that could not spawn one, in its two halves.
FinishRollback ==
    /\ \/ runner.step = "started"   /\ RemoveStatus("finishing")
       \/ runner.step = "finishing" /\ WriteStatus("succeeded", NoRunner)
       \/ runner.step = "failing"   /\ WriteStatus("failed", NoRunner)
    /\ UNCHANGED <<published, programVars, settingVars, record, health, upd, files, installer, restart,
                   boundVars, seen, confirmed, mixed>>

\* A file operation or the start fails; there is no record, program or backup; a service runs.
FailRollback ==
    /\ runner.step \in RunnerSteps
    /\ \/ runner.step = "restoring" /\ UNCHANGED faults
       \/ faults < MaxFaults /\ faults' = faults + 1
    /\ RemoveStatus("failing")
    /\ UNCHANGED <<published, programVars, settingVars, record, health, upd, files, installer, restart,
                   publishes, updates, rollbacks, seen, confirmed, mixed>>

\* Whoever is at it dies, or cannot write its last status.
KillRunner ==
    /\ runner.step # "none" /\ faults < MaxFaults
    /\ faults' = faults + 1
    /\ runner' = NoRunner
    /\ failure' = Torn
    /\ IF runner.step \in ServiceSteps THEN running' = 0 /\ upd' = WebForgotten
                                       ELSE UNCHANGED <<running, upd>>
    /\ UNCHANGED <<published, current, installed, schema, settingVars, markVars, files, installer,
                   restart, publishes, updates, rollbacks, seen, confirmed, mixed>>

\* Nobody finishes it: the lease runs out.
ExpireLease ==
    /\ RollbackActive /\ runner.step = "none"
    /\ sidecar' = "expired"
    /\ UNCHANGED <<published, programVars, settingVars, record, health, workVars, boundVars, seenVars>>

-----------------------------------------------------------------------------
OwnStep(u) ==
    \/ CheckConfirmation(u) \/ Download(u) \/ GiveUp(u)
    \/ WriteRecord(u) \/ WriteMarker(u) \/ Launch(u)

UpdateStep(u) ==
    \/ (u = "web" => runner.step \notin Accepting) /\ OwnStep(u)
    \/ FinishInstall(u) \/ FailInstall(u) \/ KillUpdater(u)

Rollback ==
    \/ AcceptRollback \/ GoOnAccepting \/ FailAcceptance \/ HandOff \/ RunRollback
    \/ BeginRollback \/ ReadRecord \/ RestoreData \/ RemovePointer \/ SwitchProgram \/ RemoveMarker
    \/ StartPrevious \/ FinishRollback \/ FailRollback \/ KillRunner \/ ExpireLease

Next ==
    \/ Publish \/ Check \/ Resume
    \/ \E choice \in seen : Defer(choice) \/ Apply(choice) \/ RunCli(choice)
    \/ \E u \in Updaters : UpdateStep(u)
    \/ VerifyTimeout \/ StartService \/ BreakStart \/ StopService \/ Restart
    \/ Rollback

Spec == Init /\ [][Next]_vars

-----------------------------------------------------------------------------
(* Properties *)

Records == [previous : Versions \cup {0}, target : Versions \cup {0}, backup : Versions \cup {0}]

TypeOK ==
    /\ published \in Releases /\ latest \in Releases \cup {None} /\ deferred \in Releases \cup {None}
    /\ running \in Versions \cup {0} /\ current \in Versions \cup {0}
    /\ installed \subseteq Versions /\ schema \in Versions \cup {0}
    /\ record \in Records
    /\ health \in [target : Versions \cup {0}, status : {"none", "pending", "healthy", "failed"}]
    /\ sidecar \in {"none", "accepted", "running", "succeeded", "failed", "expired"}
    /\ upd \in [Updaters -> [phase : Phases, by : Versions \cup {0}, release : Releases \cup {None}]]
    /\ upd.cli.phase # "verifying"
    /\ files \in [Versions -> Releases \cup {None}]
    /\ installer \in [Updaters -> Releases \cup {None}]
    /\ restart \in BOOLEAN
    /\ runner \in [step : RollbackSteps, record : Records]
    /\ publishes \in 0..MaxPublishes /\ updates \in 0..MaxUpdates
    /\ rollbacks \in 0..MaxRollbacks /\ faults \in 0..MaxFaults
    /\ seen \subseteq Releases /\ confirmed \subseteq seen /\ mixed \in BOOLEAN
    /\ failure \in {"none", "shown", "lost"}

\* docs/PRD.md:149: only what the user has confirmed is ever installed, also when the channel
\* changes under a page, and when both updaters write the installer of one version.
ConfirmedOnly == \A u \in Updaters : installer[u] # None => installer[u] \in confirmed

\* A rollback leaves a program and a database that fit: the record names a program that is
\* there and a backup it can open, and what a broken-off rollback leaves can be rolled back
\* again.  Unless updates overlapped, or an update and a rollback.
RollbackFits ==
    ~mixed =>
        /\ record # NoRecord => record.backup <= record.previous /\ record.previous \in installed
        /\ runner.step \in {"switched", "cleared"} => schema <= current /\ current \in installed

\* A version that an update put in place never serves without a verdict on it, whatever was
\* killed on the way: neither a failure of the new version nor the offer to undo it is lost.
\* Unless updates overlapped, or an update and a rollback.
NewVersionJudged ==
    running # 0 /\ running = record.target /\ ~mixed =>
        health.target = running /\ health.status \in {"healthy", "failed"}

\* docs/RUNBOOK.md:267: a failed rollback stays on show until the next update has its record
\* and its marker, or a later rollback has a status of its own to show.  Two gaps only: while
\* such a status is being written, which for good loses the failure when the writer is killed
\* or fails between the removal of the old file and the rename of the new one; and updates
\* that overlapped, or an update and a rollback.
FailureKept ==
    failure = "shown" /\ ~mixed => sidecar = "failed" \/ runner.step \in Writing
=============================================================================

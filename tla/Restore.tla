-------------------------------- MODULE Restore --------------------------------
(****************************************************************************)
(* The database file and what replaces it: backups and their pruning, the   *)
(* restore of a backup from the command line or by a rollback, and the      *)
(* import of a transfer bundle when the service starts.                     *)
(* (src/maintenance/backup.js, src/maintenance/transfer.js, bin/restore.js, *)
(* bin/backup.js, bin/import.js, src/app.js, and the backup of              *)
(* src/release/update.js.)                                                  *)
(*                                                                          *)
(* The content of a database is the set of transactions it holds.  A commit *)
(* goes to the write-ahead log and reaches the main file by a checkpoint.   *)
(* The service and one tool at a time run; either may be killed between any *)
(* two file operations.                                                     *)
(****************************************************************************)
EXTENDS Naturals, FiniteSets

CONSTANTS
    None,             \* no file
    Torn,             \* content of a file that fails the integrity check
    RetentionCount,   \* backups to keep (config.backup.retentionCount)
    DefaultCount,     \* what createBackup keeps when it is not told
    MaxCommits, MaxBackups, MaxTools, MaxFaults   \* bounds

ASSUME RestoreAssumption ==
    /\ None # Torn /\ \A d \in SUBSET (0..MaxCommits) : d # None /\ d # Torn
    /\ RetentionCount \in Nat \ {0} /\ DefaultCount \in Nat \ {0}
    /\ MaxCommits \in Nat \ {0}
    /\ MaxBackups \in Nat /\ MaxTools \in Nat /\ MaxFaults \in Nat

VARIABLES
    main,      \* content of the main file, or None
    wal,       \* transactions that are in the write-ahead log only
    commits,   \* transactions committed so far are 1..commits
    made,      \* backups made so far are 1..made, in the order of their mtime
    backups,   \* those still in the backup directory
    content,   \* content of each backup, or Torn
    aged,      \* backups older than the retention days
    record,    \* backup named in rollback.json, or 0
    naming,    \* backup that prepareUpdate has made and is about to name there
    displaced, \* contents of the databases moved aside
    pending,   \* a transfer bundle waits to be imported
    sources,   \* the user's sources.json
    at,        \* where the service and the tool stand
    source,    \* what either is restoring
    tools, faults,
    \* history, read by the properties only
    dropped,   \* transactions lost with a log, or with a database made during a restore
    halfway,   \* a restore was given up, or a service started under one, with no database there
    unwritten  \* the start went on without an import that had removed the sources

diskVars   == <<main, wal, displaced>>
names      == <<record, naming>>
backupVars == <<made, backups, content, aged, names>>
gapVars    == <<dropped, halfway, unwritten>>
vars == <<diskVars, commits, backupVars, pending, sources, at, source, tools, faults, gapVars>>

-----------------------------------------------------------------------------
Actors   == {"service", "tool"}
Imported == 0                      \* the one transaction of an imported database
Data     == SUBSET (0..MaxCommits)

Idle == [service |-> "down", tool |-> "none"]

\* Steps of restoreBackup that leave something behind, and those of an import after it.
Restoring == {"copied", "displaced", "cleared"}
Importing == Restoring \cup {"installed", "unsourced", "sourced"}
ServiceSteps == Importing \cup {"down", "boot", "backedUp", "opening", "up", "prepared"}

\* A process has the database open; Windows then lets nobody rename the file.
Open == at.service \in {"up", "prepared"}

Init ==
    /\ main = {1} /\ wal = {} /\ commits = 1
    /\ made = 0 /\ backups = {} /\ content = [b \in 1..MaxBackups |-> None]
    /\ aged = {} /\ record = 0 /\ naming = 0
    /\ displaced = {}
    /\ pending = FALSE /\ sources = "own"
    /\ at = Idle /\ source = [a \in Actors |-> None]
    /\ tools = 0 /\ faults = 0
    /\ dropped = {} /\ halfway = FALSE /\ unwritten = FALSE

Goto(a, from, to) == at[a] = from /\ at' = [at EXCEPT ![a] = to]

-----------------------------------------------------------------------------
(* Backups *)

Newer(b, s) == {c \in s : c > b}

\* Mutated form of Pruned: an off-by-one in the count.
PrunedTooMany(s, count) == {b \in s : b \notin aged /\ Cardinality(Newer(b, s)) + 1 < count}

\* pruneBackups: the newest by mtime are kept, whatever made them.
Pruned(s, count) == {b \in s : b \notin aged /\ Cardinality(Newer(b, s)) < count}

\* createBackup: the snapshot holds the write-ahead log too; then old ones are pruned.
\* The last connection to close empties the log.
CreateBackup(count) ==
    /\ made < MaxBackups
    /\ made' = made + 1
    /\ content' = [content EXCEPT ![made + 1] = main \cup wal]
    /\ backups' = Pruned(backups \cup {made + 1}, count)
    /\ UNCHANGED aged
    /\ IF Open THEN UNCHANGED <<main, wal>> ELSE main' = main \cup wal /\ wal' = {}

\* A kill during VACUUM INTO leaves a file that is not a database, or an empty one.
BreakBackup ==
    /\ made < MaxBackups
    /\ made' = made + 1
    /\ backups' = backups \cup {made + 1}
    /\ \E c \in {Torn, {}} : content' = [content EXCEPT ![made + 1] = c]
    /\ UNCHANGED <<aged, names>>

\* Thirty days go by: this backup and the older ones are too old.
GrowOld ==
    /\ \E b \in backups \ aged : aged' = aged \cup {c \in backups : c <= b}
    /\ UNCHANGED <<diskVars, commits, made, backups, content, names, pending, sources, at, source,
                   tools, faults, gapVars>>

-----------------------------------------------------------------------------
(* restoreBackup, from the copy on: by the service for an import, by a tool for a backup*)

\* Mutated form of Displace: the displaced database has a fixed name.
DisplaceOver(a) ==
    /\ Goto(a, "copied", "displaced")
    /\ a = "tool" => ~Open
    /\ displaced' = IF main = None THEN displaced ELSE {main}
    /\ main' = None
    /\ UNCHANGED <<wal, commits, backupVars, pending, sources, source, tools, faults, gapVars>>

\* The database there is gets a name of its own.
Displace(a) ==
    /\ Goto(a, "copied", "displaced")
    /\ a = "tool" => ~Open
    /\ displaced' = IF main = None THEN displaced ELSE displaced \cup {main}
    /\ main' = None
    /\ UNCHANGED <<wal, commits, backupVars, pending, sources, source, tools, faults, gapVars>>

\* The -wal and -shm files do not move along.
DropWal(a) ==
    /\ Goto(a, "displaced", "cleared")
    /\ a = "tool" => ~Open
    /\ wal' = {}
    /\ dropped' = dropped \cup wal
    /\ UNCHANGED <<main, displaced, commits, backupVars, pending, sources, source, tools, faults, halfway, unwritten>>

\* A database that a service has made in the meantime is overwritten.
Install(a) ==
    /\ a = "tool" => ~Open
    /\ Goto(a, "cleared", IF a = "tool" THEN "none" ELSE "installed")
    /\ main' = source[a]
    /\ source' = [source EXCEPT ![a] = None]
    /\ dropped' = IF main = None THEN dropped ELSE dropped \cup main
    /\ UNCHANGED <<wal, displaced, commits, backupVars, pending, sources, tools, faults, halfway, unwritten>>

\* A service or a tool gives up its restore: the database may be missing.
Abandon == halfway' = (halfway \/ main = None)

-----------------------------------------------------------------------------
(* The service *)

\* ensureUserLayout: missing sources are replaced by the template.
StartService ==
    /\ Goto("service", "down", "boot")
    /\ sources' = IF sources = "missing" THEN "template" ELSE sources
    \* A tool is between its look at the pid file and its end.
    /\ halfway' = (halfway \/ at.tool \in Restoring)
    /\ UNCHANGED <<diskVars, commits, backupVars, pending, source, tools, faults, dropped, unwritten>>

\* createAutomaticBackupIfDue
AutoBackup ==
    /\ Goto("service", "boot", "backedUp")
    /\ main # None
    /\ CreateBackup(RetentionCount)
    /\ UNCHANGED <<displaced, commits, names, pending, sources, source, tools, faults, gapVars>>

SkipBackup ==
    /\ Goto("service", "boot", "backedUp")
    /\ UNCHANGED <<diskVars, commits, backupVars, pending, sources, source, tools, faults, gapVars>>

\* applyPendingTransfer up to the copy; the pid file names the service itself.
BeginImport ==
    /\ pending
    /\ Goto("service", "backedUp", "copied")
    /\ source' = [source EXCEPT !["service"] = {Imported}]
    /\ UNCHANGED <<diskVars, commits, backupVars, pending, sources, tools, faults, gapVars>>

NoImport ==
    /\ ~pending
    /\ Goto("service", "backedUp", "opening")
    /\ UNCHANGED <<diskVars, commits, backupVars, pending, sources, source, tools, faults, gapVars>>

\* Mutated form of RemoveSources: the bundle is removed as soon as the database is in.
RemoveSourcesAndBundle ==
    /\ Goto("service", "installed", "unsourced")
    /\ sources' = "missing"
    /\ pending' = FALSE
    /\ UNCHANGED <<diskVars, commits, backupVars, source, tools, faults, gapVars>>

\* atomicWrite removes the file before it renames the new one.
RemoveSources ==
    /\ Goto("service", "installed", "unsourced")
    /\ sources' = "missing"
    /\ UNCHANGED <<diskVars, commits, backupVars, pending, source, tools, faults, gapVars>>

WriteSources ==
    /\ Goto("service", "unsourced", "sourced")
    /\ sources' = "imported"
    /\ UNCHANGED <<diskVars, commits, backupVars, pending, source, tools, faults, gapVars>>

EndImport ==
    /\ Goto("service", "sourced", "opening")
    /\ pending' = FALSE
    /\ UNCHANGED <<diskVars, commits, backupVars, sources, source, tools, faults, gapVars>>

\* This try of the import, or one that was killed, has removed the user's sources.
Lost == sources \in {"missing", "template"}

\* A file operation of an import throws: the bundle is moved aside, the start goes on.
FailImport ==
    /\ at.service \in Importing /\ faults < MaxFaults
    /\ at' = [at EXCEPT !.service = "opening"]
    /\ source' = [source EXCEPT !["service"] = None]
    /\ pending' = FALSE
    /\ Abandon
    /\ unwritten' = (unwritten \/ Lost)
    /\ faults' = faults + 1
    /\ UNCHANGED <<diskVars, commits, backupVars, sources, tools, dropped>>

\* Reading the bundle or making the work directory throws, outside the try: the start
\* goes on, and the bundle stays for the next one.
UnreadImport ==
    /\ pending /\ faults < MaxFaults
    /\ Goto("service", "backedUp", "opening")
    /\ Abandon
    /\ unwritten' = (unwritten \/ Lost)
    /\ faults' = faults + 1
    /\ UNCHANGED <<diskVars, commits, backupVars, pending, sources, source, tools, dropped>>

\* openDatabase creates a missing database, and SQLite drops a log without one.
OpenDatabase ==
    /\ Goto("service", "opening", "up")
    /\ main' = IF main = None THEN {} ELSE main
    /\ wal' = IF main = None THEN {} ELSE wal
    /\ dropped' = IF main = None THEN dropped \cup wal ELSE dropped
    /\ UNCHANGED <<displaced, commits, backupVars, pending, sources, source, tools, faults, halfway, unwritten>>

Commit ==
    /\ at.service = "up" /\ commits < MaxCommits
    /\ commits' = commits + 1
    /\ wal' = wal \cup {commits + 1}
    /\ UNCHANGED <<main, displaced, backupVars, pending, sources, at, source, tools, faults, gapVars>>

Checkpoint ==
    /\ Open /\ wal # {}
    /\ main' = main \cup wal
    /\ wal' = {}
    /\ UNCHANGED <<displaced, commits, backupVars, pending, sources, at, source, tools, faults, gapVars>>

\* prepareUpdate: the backup is made, with the default retention ...
BackupForUpdate ==
    /\ Goto("service", "up", "prepared")
    /\ CreateBackup(DefaultCount)
    /\ naming' = made + 1
    /\ UNCHANGED <<displaced, commits, record, pending, sources, source, tools, faults, gapVars>>

\* ... and then named in rollback.json.
WriteRecord ==
    /\ Goto("service", "prepared", "up")
    /\ record' = naming /\ naming' = 0
    /\ UNCHANGED <<diskVars, commits, made, backups, content, aged, pending, sources, source, tools, faults,
                   gapVars>>

\* finishShutdown: closing the database empties the log.
StopService ==
    /\ Goto("service", "up", "down")
    /\ main' = main \cup wal
    /\ wal' = {}
    /\ UNCHANGED <<displaced, commits, backupVars, pending, sources, source, tools, faults, gapVars>>

\* stageTransferImport, by the web UI or bin/import.js, though not during an import.
StageImport ==
    /\ ~pending /\ at.service \in {"down", "boot", "up"} /\ tools < MaxTools
    /\ pending' = TRUE
    /\ tools' = tools + 1
    /\ UNCHANGED <<diskVars, commits, backupVars, sources, at, source, faults, gapVars>>

\* A kill of the service, also in the middle of an import or of an automatic backup.
KillService ==
    /\ at.service # "down" /\ faults < MaxFaults
    /\ faults' = faults + 1
    /\ at' = [at EXCEPT !.service = "down"]
    /\ source' = [source EXCEPT !["service"] = None]
    /\ \/ UNCHANGED backupVars
       \/ at.service \in {"boot", "up"} /\ main # None /\ BreakBackup
    /\ UNCHANGED <<diskVars, commits, pending, sources, tools, gapVars>>

-----------------------------------------------------------------------------
(* The tools: bin/backup.js, bin/restore.js and the restore of rollbackUpdate*)

ManualBackup ==
    /\ at.tool = "none" /\ tools < MaxTools
    /\ main # None
    /\ CreateBackup(RetentionCount)
    /\ tools' = tools + 1
    /\ UNCHANGED <<displaced, commits, names, pending, sources, at, source, faults, gapVars>>

\* Mutated form of MayRestore: the pid file is not looked at.
MayRestoreAnyTime(b) == content[b] # Torn

\* verifyDatabase, and the look at the pid file.
MayRestore(b) == content[b] # Torn /\ at.service = "down"

\* A backup of the user's choice, the newest by default, or the one a rollback wants.
BeginRestore ==
    /\ Goto("tool", "none", "copied")
    /\ tools < MaxTools
    /\ \E b \in backups : MayRestore(b) /\ source' = [source EXCEPT !["tool"] = content[b]]
    /\ tools' = tools + 1
    /\ UNCHANGED <<diskVars, commits, backupVars, pending, sources, faults, gapVars>>

\* Killed, or a file operation throws; also when a service has opened the database.
EndTool ==
    /\ at.tool \in Restoring
    /\ at' = [at EXCEPT !.tool = "none"]
    /\ source' = [source EXCEPT !["tool"] = None]
    /\ Abandon
    /\ \/ Open /\ UNCHANGED faults
       \/ faults < MaxFaults /\ faults' = faults + 1
    /\ UNCHANGED <<diskVars, commits, backupVars, pending, sources, tools, dropped, unwritten>>

-----------------------------------------------------------------------------
Boot ==
    \/ AutoBackup \/ SkipBackup \/ BeginImport \/ NoImport
    \/ RemoveSources \/ WriteSources \/ EndImport \/ OpenDatabase

Work == Commit \/ Checkpoint \/ BackupForUpdate \/ WriteRecord \/ StopService

Next ==
    \/ StartService \/ Boot \/ Work
    \/ \E a \in Actors : Displace(a) \/ DropWal(a) \/ Install(a)
    \/ StageImport \/ ManualBackup \/ BeginRestore
    \/ GrowOld \/ FailImport \/ UnreadImport \/ KillService \/ EndTool

Spec == Init /\ [][Next]_vars

-----------------------------------------------------------------------------
(* Properties *)

TypeOK ==
    /\ main \in Data \cup {None} /\ wal \in Data
    /\ commits \in 1..MaxCommits
    /\ made \in 0..MaxBackups
    /\ backups \subseteq 1..made /\ aged \subseteq 1..made
    /\ content \in [1..MaxBackups -> Data \cup {None, Torn}]
    /\ record \in 0..made /\ naming \in 0..made
    /\ displaced \subseteq Data
    /\ pending \in BOOLEAN
    /\ sources \in {"own", "missing", "template", "imported"}
    /\ at \in [service : ServiceSteps, tool : Restoring \cup {"none"}]
    /\ source \in [Actors -> Data \cup {None}]
    /\ tools \in 0..MaxTools /\ faults \in 0..MaxFaults
    /\ dropped \in Data /\ halfway \in BOOLEAN /\ unwritten \in BOOLEAN

InDatabase == (IF main = None THEN {} ELSE main) \cup wal
Displaced  == UNION displaced

\* docs/RUNBOOK.md:164, docs/PRD.md:133: the database there was is kept by a restore.
\* No committed transaction is lost by restores, imports and kills in any order.
PreRestoreKept ==
    \A c \in 1..commits : c \in InDatabase \cup Displaced

\* The same, but for the log that a killed service left behind, and for a service that came
\* and went while a tool was restoring.  The log of a database that was closed is empty, so
\* nothing else is ever lost.
OnlyLogLost ==
    \A c \in (1..commits) \ dropped : c \in InDatabase \cup Displaced

\* A service never works on a database made up from nothing (a new file where the old one
\* was moved away), unless a restore broke off between the two renames or a service was
\* started under it, or a start went on without the import it should have finished.  A
\* kill during an import does no harm in itself: the next start imports again.
ServesGenuineData ==
    Open /\ ~halfway =>
        \/ 1 \in main \/ Imported \in main
        \/ \E b \in 1..made : content[b] = {}      \* the empty file of a broken backup was chosen

\* A kill in the middle of an import never costs the user's sources (src/app.js:88-95 would
\* put the template in their place); only a start that then fails to write or to read a
\* file of the import does.
SourcesSurvive == Open /\ Lost => unwritten

Smaller(m, n) == IF m < n THEN m ELSE n

\* A backup is removed only when it is too old or as many newer ones were made as are kept.
Kept(b, count) == b \in backups \/ b \in aged \/ Cardinality(Newer(b, 1..made)) >= count

\* The backup that rollback.json names is complete, and no pruning after whichever kind of
\* backup removes it early.
RollbackBackupKept ==
    record # 0 => content[record] # Torn /\ Kept(record, Smaller(RetentionCount, DefaultCount))
=============================================================================

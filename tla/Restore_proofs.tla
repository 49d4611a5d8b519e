----------------------------- MODULE Restore_proofs -----------------------------
(***************************************************************************)
(* Proofs about Restore, for any retention, any number of transactions,     *)
(* backups, tools and faults.                                               *)
(***************************************************************************)
EXTENDS Restore, FiniteSetTheorems, TLAPS

\* A process that works on the database has one.
OpenInv == Open => main # None

-----------------------------------------------------------------------------
LEMMA Values ==
    /\ None \notin Data /\ Torn \notin Data /\ None # Torn
    /\ {} \in Data /\ {Imported} \in Data /\ {1} \in Data
    /\ MaxCommits \in Nat /\ MaxBackups \in Nat /\ MaxTools \in Nat /\ MaxFaults \in Nat
    /\ \A d, e \in Data : d \cup e \in Data
  BY RestoreAssumption DEF Data, Imported

LEMMA InitTypeOK == Init => TypeOK
  <1> SUFFICES ASSUME Init PROVE TypeOK
    OBVIOUS
  <1>1. commits \in 1..MaxCommits /\ tools \in 0..MaxTools /\ faults \in 0..MaxFaults
    BY RestoreAssumption DEF Init
  <1>2. made \in 0..MaxBackups /\ record \in 0..made /\ naming \in 0..made
    BY Values DEF Init
  <1>3. at \in [service : ServiceSteps, tool : Restoring \cup {"none"}]
    BY DEF Init, Idle, ServiceSteps, Importing, Restoring
  <1>4. QED
    BY <1>1, <1>2, <1>3, Values DEF Init, TypeOK, Data

\* A move of the service or of the tool keeps the type of at.
LEMMA GotoType ==
    ASSUME TypeOK, NEW a \in Actors, NEW from, NEW to, Goto(a, from, to),
           a = "service" => to \in ServiceSteps,
           a = "tool" => to \in Restoring \cup {"none"}
    PROVE  at' \in [service : ServiceSteps, tool : Restoring \cup {"none"}]
  BY DEF Goto, TypeOK, Actors

\* The type of what the backups of the program consist of.
BackupType ==
    /\ made' \in 0..MaxBackups
    /\ backups' \subseteq 1..made' /\ aged' \subseteq 1..made'
    /\ content' \in [1..MaxBackups -> Data \cup {None, Torn}]

\* A backup holds what the database holds, and nothing of the database is lost by it.
LEMMA CreateBackupEffect ==
    ASSUME TypeOK, OpenInv, NEW count, main # None, CreateBackup(count)
    PROVE  /\ BackupType
           /\ made' = made + 1 /\ made + 1 \in 1..MaxBackups
           /\ content' = [content EXCEPT ![made + 1] = main \cup wal] /\ main \cup wal \in Data
           /\ main' \in Data /\ wal' \in Data
           /\ InDatabase' = InDatabase
  <1>1. main \in Data /\ wal \in Data /\ main \cup wal \in Data
    BY Values DEF TypeOK
  <1>2. made' = made + 1 /\ made + 1 \in 1..MaxBackups /\ made' \in 0..MaxBackups
    BY Values DEF CreateBackup, TypeOK
  <1>3. content' = [content EXCEPT ![made + 1] = main \cup wal]
        /\ content' \in [1..MaxBackups -> Data \cup {None, Torn}]
    <2>1. content' = [content EXCEPT ![made + 1] = main \cup wal]
      BY DEF CreateBackup
    <2>2. content \in [1..MaxBackups -> Data \cup {None, Torn}]
      BY DEF TypeOK
    <2>3. QED
      BY <2>1, <2>2, <1>1
  <1>4. backups' \subseteq 1..made' /\ aged' \subseteq 1..made'
    <2>1. made \in Nat /\ backups \subseteq 1..made /\ aged \subseteq 1..made
      BY Values DEF TypeOK
    <2>2. backups' \subseteq backups \cup {made + 1} /\ aged' = aged
      BY DEF CreateBackup, Pruned
    <2>3. QED
      BY <2>1, <2>2, <1>2
  <1>5. /\ main' = main \/ main' = main \cup wal
        /\ wal' = wal \/ wal' = {}
        /\ wal' = {} => main' = main \cup wal \/ wal = {}
        /\ main' = main \/ wal' = {}
    BY DEF CreateBackup
  <1>6. main' \in Data /\ wal' \in Data /\ main' # None
    BY <1>1, <1>5, Values
  <1>7. InDatabase' = InDatabase
    BY <1>1, <1>5, <1>6, Values DEF InDatabase, CreateBackup
  <1>8. QED
    BY <1>1, <1>2, <1>3, <1>4, <1>6, <1>7 DEF BackupType

LEMMA BreakBackupEffect ==
    ASSUME TypeOK, BreakBackup
    PROVE  /\ BackupType /\ made' = made + 1 /\ made + 1 \in 1..MaxBackups
           /\ \E c \in {Torn, {}} : content' = [content EXCEPT ![made + 1] = c]
  <1>1. made' = made + 1 /\ made + 1 \in 1..MaxBackups /\ made' \in 0..MaxBackups
    BY Values DEF BreakBackup, TypeOK
  <1>2. PICK c \in {Torn, {}} : content' = [content EXCEPT ![made + 1] = c]
    BY DEF BreakBackup
  <1>3. content' \in [1..MaxBackups -> Data \cup {None, Torn}]
    <2>1. content \in [1..MaxBackups -> Data \cup {None, Torn}]
      BY DEF TypeOK
    <2>2. c \in Data \cup {None, Torn}
      BY Values
    <2>3. QED
      BY <1>2, <2>1, <2>2
  <1>4. backups' \subseteq 1..made' /\ aged' \subseteq 1..made'
    <2>1. made \in Nat /\ backups \subseteq 1..made /\ aged \subseteq 1..made
      BY Values DEF TypeOK
    <2>2. backups' \subseteq backups \cup {made + 1} /\ aged' = aged
      BY DEF BreakBackup
    <2>3. QED
      BY <2>1, <2>2, <1>1
  <1>5. QED
    BY <1>1, <1>2, <1>3, <1>4 DEF BackupType

-----------------------------------------------------------------------------
LEMMA TypeNext == TypeOK /\ OpenInv /\ [Next]_vars => TypeOK' /\ OpenInv'
  <1> SUFFICES ASSUME TypeOK, OpenInv, [Next]_vars PROVE TypeOK' /\ OpenInv'
    OBVIOUS
  <1> USE DEF gapVars, diskVars
  <1> DEFINE Places == [service : ServiceSteps, tool : Restoring \cup {"none"}]
  <1>0. {"service", "tool"} = Actors /\ {"displaced", "cleared", "installed", "unsourced", "sourced", "copied",
         "down", "boot", "backedUp", "opening", "up", "prepared"} = ServiceSteps
    BY DEF Actors, ServiceSteps, Importing, Restoring
  <1>1. ASSUME NEW a \in Actors, Displace(a) PROVE TypeOK' /\ OpenInv'
    <2>1. at' \in Places
      BY <1>0, <1>1, GotoType DEF Displace, Restoring
    <2>2. displaced' \subseteq Data /\ main' = None
      BY <1>1, Values DEF Displace, TypeOK
    <2>3. ~Open'
      BY <1>1 DEF Displace, Goto, Open, TypeOK, Actors
    <2>4. QED
      BY <1>1, <2>1, <2>2, <2>3 DEF Displace, TypeOK, OpenInv, backupVars, names
  <1>2. ASSUME NEW a \in Actors, DropWal(a) PROVE TypeOK' /\ OpenInv'
    <2>1. at' \in Places
      BY <1>0, <1>2, GotoType DEF DropWal, Restoring
    <2>2. dropped' \in Data /\ wal' \in Data
      BY <1>2, Values DEF DropWal, TypeOK
    <2>3. ~Open'
      BY <1>2 DEF DropWal, Goto, Open, TypeOK, Actors
    <2>4. QED
      BY <1>2, <2>1, <2>2, <2>3 DEF DropWal, TypeOK, OpenInv, backupVars, names
  <1>3. ASSUME NEW a \in Actors, Install(a) PROVE TypeOK' /\ OpenInv'
    <2>1. at' \in Places
      BY <1>0, <1>3, GotoType DEF Install, Restoring
    <2>2. main' \in Data \cup {None} /\ source' \in [Actors -> Data \cup {None}]
      BY <1>3 DEF Install, TypeOK
    <2>3. dropped' \in Data
      BY <1>3, Values DEF Install, TypeOK
    <2>4. ~Open'
      BY <1>3 DEF Install, Goto, Open, TypeOK, Actors
    <2>5. QED
      BY <1>3, <2>1, <2>2, <2>3, <2>4 DEF Install, TypeOK, OpenInv, backupVars, names
  <1>4. CASE StartService
    <2>1. at' \in Places /\ ~Open'
      BY <1>0, <1>4, GotoType DEF StartService, Open, Goto, TypeOK
    <2>2. QED
      BY <1>4, <2>1 DEF StartService, TypeOK, OpenInv, backupVars, names
  <1>5. CASE AutoBackup
    <2>1. at' \in Places /\ ~Open'
      BY <1>0, <1>5, GotoType DEF AutoBackup, Open, Goto, TypeOK
    <2>2. BackupType /\ made' = made + 1 /\ main' \in Data /\ wal' \in Data
      BY <1>5, CreateBackupEffect DEF AutoBackup
    <2>3. record' \in 0..made' /\ naming' \in 0..made'
      BY <1>5, <2>2, Values DEF AutoBackup, TypeOK, names
    <2>4. QED
      BY <1>5, <2>1, <2>2, <2>3 DEF AutoBackup, BackupType, TypeOK, OpenInv
  <1>6. CASE SkipBackup \/ BeginImport \/ NoImport
    <2>1. at' \in Places /\ ~Open'
      BY <1>0, <1>6, GotoType DEF SkipBackup, BeginImport, NoImport, Open, Goto, TypeOK
    <2>2. source' \in [Actors -> Data \cup {None}]
      BY <1>6, Values DEF SkipBackup, BeginImport, NoImport, TypeOK
    <2>3. QED
      BY <1>6, <2>1, <2>2 DEF SkipBackup, BeginImport, NoImport, TypeOK, OpenInv, backupVars, names
  <1>7. CASE RemoveSources \/ WriteSources \/ EndImport
    <2>1. at' \in Places /\ ~Open'
      BY <1>0, <1>7, GotoType DEF RemoveSources, WriteSources, EndImport, Open, Goto, TypeOK
    <2>2. QED
      BY <1>7, <2>1 DEF RemoveSources, WriteSources, EndImport, TypeOK, OpenInv, backupVars, names
  <1>8. CASE OpenDatabase
    <2>1. at' \in Places
      BY <1>0, <1>8, GotoType DEF OpenDatabase
    <2>2. main' \in Data /\ wal' \in Data /\ dropped' \in Data
      BY <1>8, Values DEF OpenDatabase, TypeOK
    <2>3. QED
      BY <1>8, <2>1, <2>2, Values DEF OpenDatabase, TypeOK, OpenInv, backupVars, names
  <1>9. CASE Commit
    <2>1. commits' \in 1..MaxCommits /\ wal' \in Data
      BY <1>9, Values DEF Commit, TypeOK, Data
    <2>2. QED
      BY <1>9, <2>1 DEF Commit, TypeOK, OpenInv, Open, backupVars, names
  <1>10. CASE Checkpoint
    <2>1. main' \in Data /\ wal' \in Data
      BY <1>10, Values DEF Checkpoint, TypeOK, OpenInv
    <2>2. QED
      BY <1>10, <2>1, Values DEF Checkpoint, TypeOK, OpenInv, Open, backupVars, names
  <1>11. CASE BackupForUpdate
    <2>1. at' \in Places
      BY <1>0, <1>11, GotoType DEF BackupForUpdate
    <2>2. main # None
      BY <1>11 DEF BackupForUpdate, Goto, OpenInv, Open
    <2>3. /\ BackupType /\ made' = made + 1 /\ made + 1 \in 1..MaxBackups
          /\ main' \in Data /\ wal' \in Data
      BY <1>11, <2>2, CreateBackupEffect DEF BackupForUpdate
    <2>4. record' \in 0..made' /\ naming' \in 0..made'
      BY <1>11, <2>3, Values DEF BackupForUpdate, TypeOK
    <2>5. QED
      BY <1>11, <2>1, <2>3, <2>4, Values DEF BackupForUpdate, BackupType, TypeOK, OpenInv
  <1>12. CASE WriteRecord
    <2>1. at' \in Places /\ at.service = "prepared"
      BY <1>0, <1>12, GotoType DEF WriteRecord, Goto
    <2>2. record' \in 0..made /\ naming' \in 0..made
      BY <1>12, Values DEF WriteRecord, TypeOK
    <2>3. QED
      BY <1>12, <2>1, <2>2 DEF WriteRecord, TypeOK, OpenInv, Open
  <1>13. CASE StopService
    <2>1. at' \in Places /\ ~Open' /\ Open
      BY <1>0, <1>13, GotoType DEF StopService, Open, Goto, TypeOK
    <2>2. main' \in Data /\ wal' \in Data
      BY <1>13, <2>1, Values DEF StopService, TypeOK, OpenInv
    <2>3. QED
      BY <1>13, <2>1, <2>2 DEF StopService, TypeOK, OpenInv, backupVars, names
  <1>14. CASE StageImport
    <2>1. tools' \in 0..MaxTools
      BY <1>14, Values DEF StageImport, TypeOK
    <2>2. QED
      BY <1>14, <2>1 DEF StageImport, TypeOK, OpenInv, Open, backupVars, names
  <1>15. CASE ManualBackup
    <2>1. BackupType /\ made' = made + 1 /\ main' \in Data /\ wal' \in Data
      BY <1>15, CreateBackupEffect DEF ManualBackup
    <2>2. record' \in 0..made' /\ naming' \in 0..made' /\ tools' \in 0..MaxTools
      BY <1>15, <2>1, Values DEF ManualBackup, TypeOK, names
    <2>3. QED
      BY <1>15, <2>1, <2>2, Values DEF ManualBackup, BackupType, TypeOK, OpenInv
  <1>16. CASE BeginRestore
    <2>1. at' \in Places /\ at'.service = at.service
      BY <1>0, <1>16, GotoType DEF BeginRestore, Restoring, Goto, TypeOK
    <2>2. tools' \in 0..MaxTools
      BY <1>16, Values DEF BeginRestore, TypeOK
    <2>3. source' \in [Actors -> Data \cup {None}]
      <3>1. PICK b \in backups : content[b] # Torn /\ source' = [source EXCEPT !["tool"] = content[b]]
        BY <1>16 DEF BeginRestore, MayRestore
      <3>2. b \in 1..MaxBackups
        BY Values DEF TypeOK
      <3>3. content[b] \in Data \cup {None}
        BY <3>1, <3>2 DEF TypeOK
      <3>4. QED
        BY <3>1, <3>3 DEF TypeOK
    <2>4. QED
      BY <1>16, <2>1, <2>2, <2>3 DEF BeginRestore, TypeOK, OpenInv, Open, backupVars, names
  <1>17. CASE GrowOld
    BY <1>17 DEF GrowOld, TypeOK, OpenInv, Open, names
  <1>18. CASE FailImport
    <2>1. at' \in Places /\ ~Open'
      BY <1>0, <1>18 DEF FailImport, TypeOK, Open
    <2>2. faults' \in 0..MaxFaults
      BY <1>18, Values DEF FailImport, TypeOK
    <2>3. source' \in [Actors -> Data \cup {None}] /\ halfway' \in BOOLEAN /\ unwritten' \in BOOLEAN
      BY <1>18 DEF FailImport, Abandon, Lost, TypeOK
    <2>4. QED
      BY <1>18, <2>1, <2>2, <2>3 DEF FailImport, TypeOK, OpenInv, backupVars, names
  <1>30. CASE UnreadImport
    <2>1. at' \in Places /\ ~Open'
      BY <1>0, <1>30, GotoType DEF UnreadImport, Open, Goto, TypeOK
    <2>2. faults' \in 0..MaxFaults
      BY <1>30, Values DEF UnreadImport, TypeOK
    <2>3. halfway' \in BOOLEAN /\ unwritten' \in BOOLEAN
      BY <1>30 DEF UnreadImport, Abandon, Lost, TypeOK
    <2>4. QED
      BY <1>30, <2>1, <2>2, <2>3 DEF UnreadImport, TypeOK, OpenInv, backupVars, names
  <1>19. CASE KillService
    <2>1. at' \in Places /\ ~Open'
      BY <1>0, <1>19 DEF KillService, TypeOK, Open
    <2>2. faults' \in 0..MaxFaults
      BY <1>19, Values DEF KillService, TypeOK
    <2>3. source' \in [Actors -> Data \cup {None}]
      BY <1>19 DEF KillService, TypeOK
    <2>4. CASE UNCHANGED backupVars
      BY <1>19, <2>1, <2>2, <2>3, <2>4 DEF KillService, TypeOK, OpenInv, backupVars, names
    <2>5. CASE BreakBackup
      <3>1. BackupType /\ made' = made + 1
        BY <2>5, BreakBackupEffect
      <3>2. record' \in 0..made' /\ naming' \in 0..made'
        BY <2>5, <3>1, Values DEF BreakBackup, TypeOK, names
      <3>3. QED
        BY <1>19, <2>1, <2>2, <2>3, <3>1, <3>2 DEF KillService, BackupType, TypeOK, OpenInv
    <2>6. QED
      BY <1>19, <2>4, <2>5 DEF KillService
  <1>20. CASE EndTool
    <2>1. at' \in Places /\ at'.service = at.service
      BY <1>20 DEF EndTool, TypeOK
    <2>2. faults' \in 0..MaxFaults
      BY <1>20, Values DEF EndTool, TypeOK
    <2>3. source' \in [Actors -> Data \cup {None}] /\ halfway' \in BOOLEAN
      BY <1>20 DEF EndTool, Abandon, TypeOK
    <2>4. QED
      BY <1>20, <2>1, <2>2, <2>3 DEF EndTool, TypeOK, OpenInv, Open, backupVars, names
  <1>21. CASE UNCHANGED vars
    BY <1>21 DEF vars, TypeOK, OpenInv, Open, backupVars, names
  <1>22. QED
    BY <1>1, <1>2, <1>3, <1>4, <1>5, <1>6, <1>7, <1>8, <1>9, <1>10, <1>11, <1>12, <1>13, <1>14, <1>15,
       <1>16, <1>17, <1>18, <1>19, <1>20, <1>21, <1>30
    DEF Next, Boot, Work

\* Every file, log and backup keeps its type, and a database that is open is there.
THEOREM TypeCorrect == Spec => [](TypeOK /\ OpenInv)
  <1>1. Init => TypeOK /\ OpenInv
    BY InitTypeOK, Values DEF Init, OpenInv
  <1>2. TypeOK /\ OpenInv /\ [Next]_vars => TypeOK' /\ OpenInv'
    BY TypeNext
  <1>3. QED
    BY <1>1, <1>2, PTL DEF Spec

-----------------------------------------------------------------------------
(* What is lost.  A step keeps in the database or among the displaced ones *)
(* what was there, or it goes to dropped.                                   *)

Somewhere == InDatabase \cup Displaced

LEMMA NothingElseLost ==
    ASSUME TypeOK, OpenInv, [Next]_vars
    PROVE  /\ dropped \subseteq dropped'
           /\ Somewhere \subseteq Somewhere' \cup dropped'
           /\ commits' # commits => commits' = commits + 1 /\ commits + 1 \in Somewhere'
  <1> USE DEF diskVars, gapVars
  <1>1. CASE UNCHANGED <<diskVars, dropped, commits>>
    BY <1>1 DEF Somewhere, InDatabase, Displaced
  <1>2. CASE UNCHANGED <<displaced, dropped, commits>> /\ InDatabase' = InDatabase
    BY <1>2 DEF Somewhere, Displaced
  <1>3. ASSUME NEW a \in Actors, Displace(a)
        PROVE  /\ dropped' = dropped /\ commits' = commits
               /\ Somewhere \subseteq Somewhere'
    <2>1. main = None => Somewhere' = Somewhere
      BY <1>3 DEF Displace, Somewhere, InDatabase, Displaced
    <2>2. main # None => Displaced' = Displaced \cup main /\ wal' = wal
      BY <1>3 DEF Displace, Displaced
    <2>3. QED
      BY <1>3, <2>1, <2>2 DEF Displace, Somewhere, InDatabase
  <1>4. ASSUME NEW a \in Actors, DropWal(a) \/ Install(a)
        PROVE  /\ dropped \subseteq dropped' /\ commits' = commits
               /\ Somewhere \subseteq Somewhere' \cup dropped'
    BY <1>4 DEF DropWal, Install, Somewhere, InDatabase, Displaced
  <1>5. CASE AutoBackup \/ ManualBackup \/ BackupForUpdate
    <2>1. main # None
      BY <1>5 DEF AutoBackup, ManualBackup, BackupForUpdate, Goto, OpenInv, Open
    <2>2. \E count : CreateBackup(count)
      BY <1>5 DEF AutoBackup, ManualBackup, BackupForUpdate
    <2>3. InDatabase' = InDatabase
      BY <2>1, <2>2, CreateBackupEffect
    <2>4. QED
      BY <1>2, <1>5, <2>3 DEF AutoBackup, ManualBackup, BackupForUpdate
  <1>6. CASE OpenDatabase
    BY <1>6, Values DEF OpenDatabase, Somewhere, InDatabase, Displaced
  <1>7. CASE Commit
    BY <1>7 DEF Commit, Somewhere, InDatabase, Displaced
  <1>8. CASE Checkpoint \/ StopService
    <2>1. main # None /\ main \in Data /\ main \cup wal # None
      BY <1>8, Values DEF Checkpoint, StopService, Goto, OpenInv, Open, TypeOK
    <2>2. InDatabase' = InDatabase
      BY <1>8, <2>1 DEF Checkpoint, StopService, InDatabase
    <2>3. QED
      BY <1>2, <1>8, <2>2 DEF Checkpoint, StopService
  <1>9. CASE StartService \/ SkipBackup \/ BeginImport \/ NoImport \/ RemoveSources \/ WriteSources
             \/ EndImport \/ WriteRecord
    BY <1>1, <1>9
    DEF StartService, SkipBackup, BeginImport, NoImport, RemoveSources, WriteSources, EndImport, WriteRecord
  <1>10. CASE \/ StageImport \/ BeginRestore \/ GrowOld
              \/ FailImport \/ UnreadImport \/ KillService \/ EndTool
    BY <1>1, <1>10 DEF StageImport, BeginRestore, GrowOld, FailImport, UnreadImport, KillService, EndTool
  <1>11. CASE UNCHANGED vars
    BY <1>1, <1>11 DEF vars
  <1>12. QED
    BY <1>3, <1>4, <1>5, <1>6, <1>7, <1>8, <1>9, <1>10, <1>11 DEF Next, Boot, Work

\* No order of backups, restores, imports, failures and kills loses a transaction, but for
\* the log that a killed service left behind and a database made under a restore.
THEOREM LosesOnlyTheLog == Spec => []OnlyLogLost
  <1>1. Init => OnlyLogLost
    BY Values DEF Init, OnlyLogLost, InDatabase
  <1>2. TypeOK /\ OpenInv /\ OnlyLogLost /\ [Next]_vars => OnlyLogLost'
    <2> SUFFICES ASSUME TypeOK, OpenInv, OnlyLogLost, [Next]_vars,
                        NEW c \in (1..commits') \ dropped'
                 PROVE  c \in Somewhere'
      BY DEF OnlyLogLost, Somewhere
    <2>1. commits \in Nat
      BY Values DEF TypeOK
    <2>2. CASE c \in 1..commits
      <3>1. c \in Somewhere
        BY <2>2, NothingElseLost DEF OnlyLogLost, Somewhere
      <3>2. QED
        BY <3>1, NothingElseLost
    <2>3. CASE c \notin 1..commits
      <3>1. commits' # commits
        BY <2>3
      <3>2. commits' = commits + 1 /\ commits + 1 \in Somewhere'
        BY <3>1, NothingElseLost
      <3>3. c = commits + 1
        BY <2>1, <2>3, <3>2
      <3>4. QED
        BY <3>2, <3>3
    <2>4. QED
      BY <2>2, <2>3
  <1>3. QED
    BY <1>1, <1>2, TypeCorrect, PTL DEF Spec

-----------------------------------------------------------------------------
(* The sources of the user.  While they are lost the bundle that has them  *)
(* still waits, and the service that would work without them is not open.   *)

ImportInv ==
    /\ at.service \in Importing => pending
    /\ Lost /\ ~unwritten => pending /\ at.service \notin {"sourced", "opening", "up", "prepared"}

LEMMA ImportNext == TypeOK /\ ImportInv /\ [Next]_vars => ImportInv'
  <1> SUFFICES ASSUME TypeOK, ImportInv, [Next]_vars PROVE ImportInv'
    OBVIOUS
  <1> USE DEF gapVars, Importing, Restoring
  <1>0. at \in [service : ServiceSteps, tool : Restoring \cup {"none"}]
    BY DEF TypeOK
  <1>1. CASE UNCHANGED <<pending, sources, unwritten>> /\ at'.service = at.service
    BY <1>1 DEF ImportInv, Lost
  <1>2. ASSUME NEW a \in Actors, Displace(a) \/ DropWal(a) \/ Install(a) PROVE ImportInv'
    <2>1. UNCHANGED <<pending, sources, unwritten>>
      BY <1>2 DEF Displace, DropWal, Install
    <2>2. CASE a = "tool"
      BY <1>0, <1>1, <1>2, <2>1, <2>2 DEF Displace, DropWal, Install, Goto
    <2>3. CASE a = "service"
      BY <1>0, <1>2, <2>1, <2>3 DEF Displace, DropWal, Install, Goto, ImportInv, Lost
    <2>4. QED
      BY <2>2, <2>3 DEF Actors
  <1>3. CASE StartService
    BY <1>0, <1>3 DEF StartService, Goto, ImportInv, Lost
  <1>4. CASE AutoBackup \/ SkipBackup
    BY <1>0, <1>4 DEF AutoBackup, SkipBackup, Goto, ImportInv, Lost
  <1>5. CASE BeginImport \/ NoImport
    BY <1>0, <1>5 DEF BeginImport, NoImport, Goto, ImportInv, Lost
  <1>6. CASE RemoveSources \/ WriteSources
    BY <1>0, <1>6 DEF RemoveSources, WriteSources, Goto, ImportInv, Lost
  <1>7. CASE EndImport
    BY <1>0, <1>7 DEF EndImport, Goto, ImportInv, Lost
  <1>8. CASE OpenDatabase \/ BackupForUpdate \/ WriteRecord \/ StopService
    BY <1>0, <1>8 DEF OpenDatabase, BackupForUpdate, WriteRecord, StopService, Goto, ImportInv, Lost
  <1>9. CASE Commit \/ Checkpoint \/ ManualBackup \/ GrowOld
    BY <1>1, <1>9 DEF Commit, Checkpoint, ManualBackup, GrowOld
  <1>10. CASE BeginRestore \/ EndTool
    BY <1>0, <1>1, <1>10 DEF BeginRestore, EndTool, Goto
  <1>11. CASE StageImport
    BY <1>11 DEF StageImport, ImportInv, Lost
  <1>12. CASE FailImport
    BY <1>0, <1>12 DEF FailImport, ImportInv, Lost, TypeOK
  <1>16. CASE UnreadImport
    BY <1>0, <1>16 DEF UnreadImport, Goto, ImportInv, Lost, TypeOK
  <1>13. CASE KillService
    BY <1>0, <1>13 DEF KillService, ImportInv, Lost
  <1>14. CASE UNCHANGED vars
    BY <1>1, <1>14 DEF vars
  <1>15. QED
    BY <1>2, <1>3, <1>4, <1>5, <1>6, <1>7, <1>8, <1>9, <1>10, <1>11, <1>12, <1>13, <1>14, <1>16
    DEF Next, Boot, Work

\* A kill never costs the user's sources, at whatever step of the import and however often:
\* only an import that is given up does.
THEOREM SourcesSurviveKills == Spec => []SourcesSurvive
  <1>1. Init => ImportInv
    BY DEF Init, Idle, ImportInv, Importing, Restoring, Lost
  <1>2. TypeOK /\ ImportInv /\ [Next]_vars => ImportInv'
    BY ImportNext
  <1>3. TypeOK /\ ImportInv => SourcesSurvive
    BY DEF TypeOK, ImportInv, SourcesSurvive, Open
  <1>4. QED
    BY <1>1, <1>2, <1>3, TypeCorrect, PTL DEF Spec

-----------------------------------------------------------------------------
(* The backup a rollback needs.  A backup that is pruned early would have   *)
(* fewer newer ones than every caller of createBackup keeps.                *)

Low == Smaller(RetentionCount, DefaultCount)

BackupInv ==
    /\ \A b \in 1..made : Kept(b, Low)
    /\ at.service = "prepared" => naming \in 1..made /\ content[naming] # Torn
    /\ record # 0 => content[record] # Torn

LEMMA Counts ==
    /\ Low \in Nat /\ Low >= 1
    /\ RetentionCount \in Nat /\ DefaultCount \in Nat
    /\ Low <= RetentionCount /\ Low <= DefaultCount
  BY RestoreAssumption DEF Low, Smaller

\* Newer backups become more as backups are made, and fewer as some are removed.
LEMMA NewerGrows ==
    ASSUME NEW b \in Nat, NEW m \in Nat, NEW s \in SUBSET (1..m)
    PROVE  /\ Cardinality(Newer(b, s)) \in Nat /\ Cardinality(Newer(b, 1..m)) \in Nat
           /\ Cardinality(Newer(b, s)) <= Cardinality(Newer(b, 1..m))
  <1>1. IsFiniteSet(1..m)
    BY FS_Interval
  <1>2. IsFiniteSet(Newer(b, 1..m))
    BY <1>1, FS_Subset DEF Newer
  <1>3. Newer(b, s) \subseteq Newer(b, 1..m)
    BY DEF Newer
  <1>4. IsFiniteSet(Newer(b, s)) /\ Cardinality(Newer(b, s)) <= Cardinality(Newer(b, 1..m))
    BY <1>2, <1>3, FS_Subset
  <1>5. QED
    BY <1>2, <1>4, FS_CardinalityType

\* A backup made and the pruning after it keep what has to be kept.
LEMMA CreateBackupKeeps ==
    ASSUME TypeOK, \A b \in 1..made : Kept(b, Low),
           NEW count \in Nat, count >= Low, CreateBackup(count)
    PROVE  \A b \in 1..made' : Kept(b, Low)'
  <1> TAKE b \in 1..made'
  <1> DEFINE s == backups \cup {made + 1}
  <1>1. made \in Nat /\ made' = made + 1 /\ made' \in Nat /\ b \in Nat
    BY Values DEF CreateBackup, TypeOK
  <1>2. backups \subseteq 1..made /\ aged \subseteq 1..made
    BY DEF TypeOK
  <1>3. s \in SUBSET (1..made') /\ (1..made) \in SUBSET (1..made')
    BY <1>1, <1>2
  <1>4. backups' = Pruned(s, count) /\ aged' = aged
    BY DEF CreateBackup
  <1>5. /\ Cardinality(Newer(b, s)) \in Nat /\ Cardinality(Newer(b, 1..made')) \in Nat
        /\ Cardinality(Newer(b, s)) <= Cardinality(Newer(b, 1..made'))
    BY <1>1, <1>3, NewerGrows
  <1>6. /\ Cardinality(Newer(b, 1..made)) \in Nat
        /\ Cardinality(Newer(b, 1..made)) <= Cardinality(Newer(b, 1..made'))
    BY <1>1, <1>3, NewerGrows
  <1>7. CASE b \in s
    <2>1. b \in backups' \/ b \in aged' \/ Cardinality(Newer(b, s)) >= count
      BY <1>4, <1>5, <1>7, Counts DEF Pruned
    <2>2. QED
      BY <2>1, <1>5, Counts DEF Kept
  <1>8. CASE b \notin s
    <2>1. b \in 1..made /\ b \notin backups
      BY <1>1, <1>8
    <2>2. b \in aged \/ Cardinality(Newer(b, 1..made)) >= Low
      BY <2>1 DEF Kept
    <2>3. QED
      BY <2>2, <1>4, <1>5, <1>6, Counts DEF Kept
  <1>9. QED
    BY <1>7, <1>8

LEMMA BreakBackupKeeps ==
    ASSUME TypeOK, \A b \in 1..made : Kept(b, Low), BreakBackup
    PROVE  \A b \in 1..made' : Kept(b, Low)'
  <1> TAKE b \in 1..made'
  <1>1. made \in Nat /\ made' = made + 1 /\ made' \in Nat /\ b \in Nat
    BY Values DEF BreakBackup, TypeOK
  <1>2. backups' = backups \cup {made + 1} /\ aged' = aged
    BY DEF BreakBackup
  <1>3. (1..made) \in SUBSET (1..made')
    BY <1>1
  <1>4. /\ Cardinality(Newer(b, 1..made)) \in Nat /\ Cardinality(Newer(b, 1..made')) \in Nat
        /\ Cardinality(Newer(b, 1..made)) <= Cardinality(Newer(b, 1..made'))
    BY <1>1, <1>3, NewerGrows
  <1>5. CASE b = made + 1
    BY <1>2, <1>5 DEF Kept
  <1>6. CASE b # made + 1
    <2>1. Kept(b, Low)
      BY <1>1, <1>6
    <2>2. QED
      BY <2>1, <1>2, <1>4, Counts DEF Kept
  <1>7. QED
    BY <1>5, <1>6

LEMMA BackupNext == TypeOK /\ OpenInv /\ BackupInv /\ [Next]_vars => BackupInv'
  <1> SUFFICES ASSUME TypeOK, OpenInv, BackupInv, [Next]_vars PROVE BackupInv'
    OBVIOUS
  <1>0. at \in [service : ServiceSteps, tool : Restoring \cup {"none"}] /\ record \in 0..made /\ made \in Nat
    BY Values DEF TypeOK
  <1>1. ASSUME UNCHANGED backupVars, at'.service = at.service \/ at'.service # "prepared" PROVE BackupInv'
    BY <1>1 DEF BackupInv, Kept, backupVars, names
  <1>2. CASE AutoBackup \/ ManualBackup \/ BackupForUpdate
    <2>1. main # None
      BY <1>2 DEF AutoBackup, ManualBackup, BackupForUpdate, Goto, OpenInv, Open
    <2>2. PICK count \in {RetentionCount, DefaultCount} : CreateBackup(count)
      BY <1>2 DEF AutoBackup, ManualBackup, BackupForUpdate
    <2>3. /\ made' = made + 1 /\ made + 1 \in 1..MaxBackups /\ main \cup wal \in Data
          /\ content' = [content EXCEPT ![made + 1] = main \cup wal]
      BY <2>1, <2>2, CreateBackupEffect
    <2>4. \A b \in 1..made' : Kept(b, Low)'
      BY <2>2, Counts, CreateBackupKeeps DEF BackupInv
    <2>5. content \in [1..MaxBackups -> Data \cup {None, Torn}]
      BY DEF TypeOK
    <2>6. content'[made + 1] # Torn /\ \A b \in 1..made : content'[b] = content[b]
      BY <2>3, <2>5, <1>0, Values
    <2>7. record' = record
      BY <1>2 DEF AutoBackup, ManualBackup, BackupForUpdate, names
    <2>8. record' # 0 => content'[record'] # Torn
      <3>1. record # 0 => record \in 1..made
        BY <1>0
      <3>2. QED
        BY <3>1, <2>6, <2>7 DEF BackupInv
    <2>9. at'.service = "prepared" => naming' \in 1..made' /\ content'[naming'] # Torn
      <3>1. CASE BackupForUpdate
        BY <3>1, <1>0, <2>3, <2>6 DEF BackupForUpdate
      <3>2. CASE AutoBackup \/ ManualBackup
        <4>1. at'.service = "prepared" => at.service = "prepared" /\ naming' = naming
          BY <1>0, <3>2 DEF AutoBackup, ManualBackup, Goto, names
        <4>2. naming \in 1..made => naming \in 1..made'
          BY <1>0, <2>3
        <4>3. QED
          BY <4>1, <4>2, <2>6 DEF BackupInv
      <3>3. QED
        BY <1>2, <3>1, <3>2
    <2>10. QED
      BY <2>4, <2>8, <2>9 DEF BackupInv
  <1>3. CASE WriteRecord
    <2>1. at.service = "prepared" /\ at'.service = "up"
      BY <1>0, <1>3 DEF WriteRecord, Goto
    <2>2. QED
      BY <1>3, <2>1 DEF WriteRecord, BackupInv, Kept
  <1>4. CASE GrowOld
    <2>1. aged \subseteq aged' /\ UNCHANGED <<made, backups, content, names, at>>
      BY <1>4 DEF GrowOld
    <2>2. QED
      BY <2>1 DEF BackupInv, Kept, names
  <1>5. CASE KillService
    <2>1. at'.service = "down"
      BY <1>0, <1>5 DEF KillService
    <2>2. CASE UNCHANGED backupVars
      BY <1>1, <2>1, <2>2
    <2>3. CASE BreakBackup
      <3>1. PICK c \in {Torn, {}} : content' = [content EXCEPT ![made + 1] = c]
        BY <2>3, BreakBackupEffect
      <3>2. record # 0 => record \in 1..made /\ record # made + 1
        BY <1>0
      <3>3. content \in [1..MaxBackups -> Data \cup {None, Torn}] /\ 1..made \subseteq 1..MaxBackups
        BY Values DEF TypeOK
      <3>4. record # 0 => content'[record] = content[record]
        BY <3>1, <3>2, <3>3
      <3>5. record' = record
        BY <2>3 DEF BreakBackup, names
      <3>6. \A b \in 1..made' : Kept(b, Low)'
        BY <2>3, BreakBackupKeeps DEF BackupInv
      <3>7. QED
        BY <2>1, <3>4, <3>5, <3>6 DEF BackupInv
    <2>4. QED
      BY <1>5, <2>2, <2>3 DEF KillService
  <1>6. ASSUME NEW a \in Actors, Displace(a) \/ DropWal(a) \/ Install(a) PROVE BackupInv'
    BY <1>0, <1>1, <1>6 DEF Displace, DropWal, Install, Goto, Actors
  <1>7. CASE StartService \/ SkipBackup \/ BeginImport \/ NoImport \/ RemoveSources \/ WriteSources
             \/ EndImport \/ OpenDatabase \/ StopService
    BY <1>0, <1>1, <1>7
    DEF StartService, SkipBackup, BeginImport, NoImport, RemoveSources, WriteSources, EndImport,
        OpenDatabase, StopService, Goto
  <1>8. CASE \/ Commit \/ Checkpoint \/ StageImport \/ BeginRestore
             \/ EndTool \/ FailImport \/ UnreadImport
    BY <1>0, <1>1, <1>8
    DEF Commit, Checkpoint, StageImport, BeginRestore, EndTool, FailImport, UnreadImport, Goto
  <1>9. CASE UNCHANGED vars
    BY <1>1, <1>9 DEF vars
  <1>10. QED
    BY <1>2, <1>3, <1>4, <1>5, <1>6, <1>7, <1>8, <1>9 DEF Next, Boot, Work

\* The backup that rollback.json names is complete and is there until it is too old or as
\* many newer backups were made as the more forgetful caller keeps.
THEOREM RecordedBackupIsKept == Spec => []RollbackBackupKept
  <1>1. Init => BackupInv
    BY DEF Init, Idle, BackupInv
  <1>2. TypeOK /\ OpenInv /\ BackupInv /\ [Next]_vars => BackupInv'
    BY BackupNext
  <1>3. TypeOK /\ BackupInv => RollbackBackupKept
    <2>1. TypeOK /\ record # 0 => record \in 1..made
      BY Values DEF TypeOK
    <2>2. QED
      BY <2>1 DEF BackupInv, RollbackBackupKept, Low
  <1>4. QED
    BY <1>1, <1>2, <1>3, TypeCorrect, PTL DEF Spec

-----------------------------------------------------------------------------
(* Where a database comes from.  As long as no restore was given up with no *)
(* database there, and no kill left an empty backup, every database, backup *)
(* and source of a restore descends from the first one or from a bundle;    *)
(* a missing database is about to be put back by a tool that has the files  *)
(* to itself, or by the import that the waiting bundle causes.              *)

Genuine(d) == 1 \in d \/ Imported \in d

Intact == ~halfway /\ \A b \in 1..made : content[b] # {}

BeforeInstall == {"down", "boot", "backedUp", "copied", "displaced", "cleared"}

OriginInv ==
    /\ main # None => Genuine(main)
    /\ \A b \in 1..made : content[b] # None /\ (content[b] # Torn => Genuine(content[b]))
    /\ \A a \in Actors : at[a] \in Restoring => source[a] # None /\ Genuine(source[a])
    /\ at.tool \in Restoring => at.service = "down"
    /\ at.service \in Importing => pending
    /\ main = None => \/ pending /\ at.service \in BeforeInstall
                      \/ at.service = "down" /\ at.tool \in {"displaced", "cleared"}

LEMMA OriginNext == TypeOK /\ OpenInv /\ (Intact => OriginInv) /\ [Next]_vars => (Intact => OriginInv)'
  <1> SUFFICES ASSUME TypeOK, OpenInv, Intact => OriginInv, [Next]_vars, Intact'
               PROVE  OriginInv'
    OBVIOUS
  <1> USE DEF diskVars, gapVars, Restoring, Importing, BeforeInstall
  <1>0. at \in [service : ServiceSteps, tool : Restoring \cup {"none"}] /\ made \in Nat
        /\ source \in [Actors -> Data \cup {None}] /\ Actors = {"service", "tool"}
    BY Values DEF TypeOK, Actors
  <1> DEFINE Backed == \A b \in 1..made' : content'[b] # None /\ (content'[b] # Torn => Genuine(content'[b]))
  <1>1. ASSUME ~halfway, UNCHANGED <<made, content>> PROVE OriginInv /\ Backed
    BY <1>1 DEF Intact, OriginInv
  <1>2. ASSUME UNCHANGED <<main, backupVars, pending, at, source, halfway>> PROVE OriginInv'
    BY <1>1, <1>2 DEF Intact, OriginInv, backupVars
  <1>3. ASSUME NEW a \in Actors, Displace(a) PROVE OriginInv'
    <2>1. OriginInv /\ Backed
      BY <1>1, <1>3 DEF Displace, backupVars, Intact
    <2>2. main' = None /\ UNCHANGED <<pending, source>> /\ at[a] = "copied" /\ at' = [at EXCEPT ![a] = "displaced"]
      BY <1>3 DEF Displace, Goto
    <2>3. QED
      BY <1>0, <2>1, <2>2 DEF OriginInv
  <1>4. ASSUME NEW a \in Actors, DropWal(a) PROVE OriginInv'
    <2>1. OriginInv /\ Backed
      BY <1>1, <1>4 DEF DropWal, backupVars, Intact
    <2>2. UNCHANGED <<main, pending, source>> /\ at[a] = "displaced" /\ at' = [at EXCEPT ![a] = "cleared"]
      BY <1>4 DEF DropWal, Goto
    <2>3. QED
      BY <1>0, <2>1, <2>2 DEF OriginInv
  <1>5. ASSUME NEW a \in Actors, Install(a) PROVE OriginInv'
    <2>1. OriginInv /\ Backed
      BY <1>1, <1>5 DEF Install, backupVars, Intact
    <2>2. /\ pending' = pending /\ main' = source[a] /\ source' = [source EXCEPT ![a] = None]
          /\ at[a] = "cleared" /\ at' = [at EXCEPT ![a] = IF a = "tool" THEN "none" ELSE "installed"]
      BY <1>5 DEF Install, Goto
    <2>3. main' # None /\ Genuine(main')
      BY <2>1, <2>2 DEF OriginInv
    <2>4. QED
      BY <1>0, <2>1, <2>2, <2>3 DEF OriginInv
  <1>6. CASE StartService
    <2>1. ~halfway /\ at.tool \notin Restoring
      BY <1>6 DEF StartService, Intact
    <2>2. OriginInv /\ Backed
      BY <1>1, <1>6, <2>1 DEF StartService, backupVars
    <2>3. at' = [at EXCEPT !["service"] = "boot"] /\ at.service = "down" /\ UNCHANGED <<main, pending, source>>
      BY <1>6 DEF StartService, Goto
    <2>4. QED
      BY <1>0, <2>1, <2>2, <2>3 DEF OriginInv
  <1>7. CASE AutoBackup \/ ManualBackup \/ BackupForUpdate
    <2>1. main # None
      BY <1>7 DEF AutoBackup, ManualBackup, BackupForUpdate, Goto, OpenInv, Open
    <2>2. PICK count : CreateBackup(count)
      BY <1>7 DEF AutoBackup, ManualBackup, BackupForUpdate
    <2>3. /\ made' = made + 1 /\ made + 1 \in 1..MaxBackups /\ main \cup wal \in Data
          /\ content' = [content EXCEPT ![made + 1] = main \cup wal]
      BY <2>1, <2>2, CreateBackupEffect
    <2>4. content \in [1..MaxBackups -> Data \cup {None, Torn}] /\ made \in 0..MaxBackups
      BY DEF TypeOK
    <2>5. content'[made + 1] = main \cup wal /\ \A b \in 1..made : content'[b] = content[b]
      BY <2>3, <2>4
    <2>6. halfway' = halfway
      BY <1>7 DEF AutoBackup, ManualBackup, BackupForUpdate
    <2>7. \A b \in 1..made : b \in 1..made'
      BY <1>0, <2>3
    <2>8. OriginInv
      BY <2>5, <2>6, <2>7 DEF Intact
    <2>9. Genuine(main) /\ Genuine(main \cup wal)
      BY <2>1, <2>8 DEF OriginInv, Genuine
    <2>10. Backed
      <3>1. \A b \in 1..made' : b = made + 1 \/ b \in 1..made
        BY <1>0, <2>3
      <3>2. QED
        BY <3>1, <2>3, <2>5, <2>8, <2>9, Values DEF OriginInv
    <2>11. main' = main \/ main' = main \cup wal
      BY <2>2 DEF CreateBackup
    <2>12. main' # None /\ Genuine(main')
      BY <2>1, <2>3, <2>9, <2>11, Values
    <2>13. /\ source' = source /\ pending' = pending /\ at'.tool = at.tool
           /\ at.tool \in Restoring => at'.service = at.service
      BY <1>0, <1>7, <2>8 DEF AutoBackup, ManualBackup, BackupForUpdate, Goto, OriginInv
    <2>14. at'.service \in Importing => at.service \in Importing
      BY <1>0, <1>7 DEF AutoBackup, ManualBackup, BackupForUpdate, Goto
    <2>15. at'.service \in Restoring => at.service = at'.service
      BY <1>0, <1>7 DEF AutoBackup, ManualBackup, BackupForUpdate, Goto
    <2>16. \A a \in Actors : at'[a] \in Restoring => source'[a] # None /\ Genuine(source'[a])
      BY <1>0, <2>8, <2>13, <2>15 DEF OriginInv
    <2>17. QED
      BY <2>8, <2>10, <2>12, <2>13, <2>14, <2>16 DEF OriginInv
  <1>8. CASE SkipBackup
    <2>1. OriginInv /\ Backed
      BY <1>1, <1>8 DEF SkipBackup, backupVars, Intact
    <2>2. at' = [at EXCEPT !["service"] = "backedUp"] /\ at.service = "boot" /\ UNCHANGED <<main, pending, source>>
      BY <1>8 DEF SkipBackup, Goto
    <2>3. QED
      BY <1>0, <2>1, <2>2 DEF OriginInv
  <1>9. CASE BeginImport
    <2>1. OriginInv /\ Backed
      BY <1>1, <1>9 DEF BeginImport, backupVars, Intact
    <2>2. /\ at' = [at EXCEPT !["service"] = "copied"] /\ at.service = "backedUp" /\ pending
          /\ UNCHANGED <<main, pending>> /\ source' = [source EXCEPT !["service"] = {Imported}]
      BY <1>9 DEF BeginImport, Goto
    <2>3. Genuine({Imported}) /\ {Imported} # None
      BY Values DEF Genuine
    <2>4. QED
      BY <1>0, <2>1, <2>2, <2>3 DEF OriginInv
  <1>10. CASE NoImport
    <2>1. OriginInv /\ Backed
      BY <1>1, <1>10 DEF NoImport, backupVars, Intact
    <2>2. /\ at' = [at EXCEPT !["service"] = "opening"] /\ at.service = "backedUp" /\ ~pending
          /\ UNCHANGED <<main, pending, source>>
      BY <1>10 DEF NoImport, Goto
    <2>3. QED
      BY <1>0, <2>1, <2>2 DEF OriginInv
  <1>11. CASE RemoveSources \/ WriteSources
    <2>1. OriginInv /\ Backed
      BY <1>1, <1>11 DEF RemoveSources, WriteSources, backupVars, Intact
    <2>2. /\ at.service \in {"installed", "unsourced"} /\ UNCHANGED <<main, pending, source>>
          /\ at' = [at EXCEPT !["service"] = "unsourced"] \/ at' = [at EXCEPT !["service"] = "sourced"]
      BY <1>11 DEF RemoveSources, WriteSources, Goto
    <2>3. QED
      BY <1>0, <2>1, <2>2 DEF OriginInv
  <1>12. CASE EndImport
    <2>1. OriginInv /\ Backed
      BY <1>1, <1>12 DEF EndImport, backupVars, Intact
    <2>2. /\ at.service = "sourced" /\ UNCHANGED <<main, source>>
          /\ at' = [at EXCEPT !["service"] = "opening"]
      BY <1>12 DEF EndImport, Goto
    <2>3. QED
      BY <1>0, <2>1, <2>2 DEF OriginInv
  <1>13. CASE OpenDatabase
    <2>1. OriginInv /\ Backed
      BY <1>1, <1>13 DEF OpenDatabase, backupVars, Intact
    <2>2. main # None /\ at.service = "opening"
      BY <1>13, <2>1 DEF OpenDatabase, Goto, OriginInv
    <2>3. at' = [at EXCEPT !["service"] = "up"] /\ UNCHANGED <<main, pending, source>>
      BY <1>13, <2>2 DEF OpenDatabase, Goto
    <2>4. QED
      BY <1>0, <2>1, <2>2, <2>3 DEF OriginInv
  <1>14. CASE Checkpoint \/ StopService
    <2>1. OriginInv /\ Backed
      BY <1>1, <1>14 DEF Checkpoint, StopService, backupVars, Intact
    <2>2. main # None /\ main \in Data /\ wal \in Data /\ Open
      BY <1>14 DEF Checkpoint, StopService, Goto, OpenInv, Open, TypeOK
    <2>3. main' = main \cup wal /\ UNCHANGED <<pending, source>>
          /\ (at' = at \/ at' = [at EXCEPT !["service"] = "down"])
      BY <1>14 DEF Checkpoint, StopService, Goto
    <2>4. main' # None /\ Genuine(main')
      BY <2>1, <2>2, <2>3, Values DEF OriginInv, Genuine
    <2>5. QED
      BY <1>0, <2>1, <2>2, <2>3, <2>4 DEF OriginInv, Open
  <1>15. CASE WriteRecord
    <2>1. OriginInv /\ Backed
      BY <1>1, <1>15 DEF WriteRecord, Intact
    <2>2. at' = [at EXCEPT !["service"] = "up"] /\ at.service = "prepared" /\ UNCHANGED <<main, pending, source>>
      BY <1>15 DEF WriteRecord, Goto
    <2>3. QED
      BY <1>0, <2>1, <2>2 DEF OriginInv
  <1>16. CASE StageImport
    <2>1. OriginInv /\ Backed
      BY <1>1, <1>16 DEF StageImport, backupVars, Intact
    <2>2. pending' = TRUE /\ UNCHANGED <<main, at, source>>
      BY <1>16 DEF StageImport
    <2>3. QED
      BY <2>1, <2>2 DEF OriginInv
  <1>17. CASE BeginRestore
    <2>1. OriginInv /\ Backed
      BY <1>1, <1>17 DEF BeginRestore, backupVars, Intact
    <2>2. PICK b \in backups : MayRestore(b) /\ source' = [source EXCEPT !["tool"] = content[b]]
      BY <1>17 DEF BeginRestore
    <2>3. b \in 1..made
      BY DEF TypeOK
    <2>4. content[b] # None /\ Genuine(content[b]) /\ at.service = "down"
      BY <2>1, <2>2, <2>3 DEF OriginInv, MayRestore
    <2>5. at' = [at EXCEPT !["tool"] = "copied"] /\ at.tool = "none" /\ UNCHANGED <<main, pending>>
      BY <1>17 DEF BeginRestore, Goto
    <2>6. QED
      BY <1>0, <2>1, <2>2, <2>4, <2>5 DEF OriginInv
  <1>18. CASE FailImport
    <2>1. ~halfway /\ main # None
      BY <1>18 DEF FailImport, Abandon, Intact
    <2>2. OriginInv /\ Backed
      BY <1>1, <1>18, <2>1 DEF FailImport, backupVars
    <2>3. /\ at' = [at EXCEPT !["service"] = "opening"] /\ at.service \in Importing /\ UNCHANGED main
          /\ source' = [source EXCEPT !["service"] = None]
      BY <1>18 DEF FailImport
    <2>4. QED
      BY <1>0, <2>1, <2>2, <2>3 DEF OriginInv
  <1>30. CASE UnreadImport
    <2>1. ~halfway /\ main # None
      BY <1>30 DEF UnreadImport, Abandon, Intact
    <2>2. OriginInv /\ Backed
      BY <1>1, <1>30, <2>1 DEF UnreadImport, backupVars
    <2>3. /\ at' = [at EXCEPT !["service"] = "opening"] /\ at.service = "backedUp"
          /\ UNCHANGED <<main, pending, source>>
      BY <1>30 DEF UnreadImport, Goto
    <2>4. QED
      BY <1>0, <2>1, <2>2, <2>3 DEF OriginInv
  <1>19. CASE EndTool
    <2>1. ~halfway /\ main # None
      BY <1>19 DEF EndTool, Abandon, Intact
    <2>2. OriginInv /\ Backed
      BY <1>1, <1>19, <2>1 DEF EndTool, backupVars
    <2>3. /\ at' = [at EXCEPT !["tool"] = "none"] /\ UNCHANGED <<main, pending>>
          /\ source' = [source EXCEPT !["tool"] = None]
      BY <1>19 DEF EndTool
    <2>4. QED
      BY <1>0, <2>1, <2>2, <2>3 DEF OriginInv
  <1>20. CASE KillService
    <2>1. /\ at.service # "down" /\ at' = [at EXCEPT !["service"] = "down"]
          /\ source' = [source EXCEPT !["service"] = None] /\ UNCHANGED <<main, pending, halfway>>
      BY <1>20 DEF KillService
    <2>2. OriginInv /\ Backed
      <3>1. CASE UNCHANGED backupVars
        BY <1>1, <2>1, <3>1 DEF backupVars, Intact
      <3>2. CASE BreakBackup
        <4>1. PICK c \in {Torn, {}} : content' = [content EXCEPT ![made + 1] = c]
          BY <3>2, BreakBackupEffect
        <4>2. made' = made + 1 /\ made + 1 \in 1..MaxBackups
          BY <3>2, BreakBackupEffect
        <4>3. content \in [1..MaxBackups -> Data \cup {None, Torn}] /\ made \in 0..MaxBackups
          BY DEF TypeOK
        <4>4. content'[made + 1] = c /\ \A b \in 1..made : content'[b] = content[b]
          BY <4>1, <4>2, <4>3
        <4>5. \A b \in 1..made' : b = made + 1 \/ b \in 1..made
          BY <1>0, <4>2
        <4>6. (made + 1) \in 1..made' /\ \A b \in 1..made : b \in 1..made'
          BY <1>0, <4>2
        <4>7. OriginInv
          BY <2>1, <4>4, <4>6 DEF Intact
        <4>8. c = Torn
          BY <4>4, <4>6 DEF Intact
        <4>9. QED
          BY <4>4, <4>5, <4>7, <4>8, Values DEF OriginInv
      <3>3. QED
        BY <1>20, <3>1, <3>2 DEF KillService
    <2>3. QED
      BY <1>0, <2>1, <2>2 DEF OriginInv
  <1>21. CASE Commit \/ GrowOld
    BY <1>1, <1>21 DEF Commit, GrowOld, Intact, OriginInv, backupVars
  <1>22. CASE UNCHANGED vars
    BY <1>2, <1>22 DEF vars
  <1>23. QED
    BY <1>3, <1>4, <1>5, <1>6, <1>7, <1>8, <1>9, <1>10, <1>11, <1>12, <1>13, <1>14, <1>15, <1>16, <1>17,
       <1>18, <1>19, <1>20, <1>21, <1>22, <1>30
    DEF Next, Boot, Work

\* A service never works on a database made up from nothing, whatever is killed, restored or
\* imported before, unless a restore was given up, or overtaken by a start, in its gap.
THEOREM GenuineDataIsServed == Spec => []ServesGenuineData
  <1>1. Init => (Intact => OriginInv)
    BY Values DEF Init, Idle, OriginInv, Genuine, Actors, Restoring, Importing
  <1>2. TypeOK /\ OpenInv /\ (Intact => OriginInv) /\ [Next]_vars => (Intact => OriginInv)'
    BY OriginNext
  <1>3. OpenInv /\ (Intact => OriginInv) => ServesGenuineData
    BY DEF OpenInv, Intact, OriginInv, ServesGenuineData, Genuine
  <1>4. QED
    BY <1>1, <1>2, <1>3, TypeCorrect, PTL DEF Spec
=============================================================================

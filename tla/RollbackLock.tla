------------------------------ MODULE RollbackLock ------------------------------
(***************************************************************************)
(* The directory rollback.lock of src/release/update.js, which keeps two    *)
(* rollbacks of the database apart.  bin/rollback.js may be started by the  *)
(* user (Clis); the web service (Service) takes the lock, stops, and hands  *)
(* it with its token to a rollback process it spawns (Child).  Every file   *)
(* operation is a step of its own: the processes share only the directory.  *)
(***************************************************************************)
EXTENDS Naturals, FiniteSets

CONSTANTS
    Clis,       \* rollback processes started by hand, each runs once
    Service,    \* the service process of the web UI
    Child,      \* the rollback process the service spawns
    Nobody,     \* no process
    Attempts,   \* rounds of the loop in acquireRollbackLock
    MaxFailures \* bound: kills and failing file operations

Procs == Clis \cup {Service, Child}

ASSUME RollbackLockAssumption ==
    /\ Service # Child /\ Service \notin Clis /\ Child \notin Clis
    /\ Nobody \notin Procs
    /\ Attempts \in Nat /\ Attempts > 1
    /\ MaxFailures \in Nat

VARIABLES
    present,    \* the directory exists
    owner,      \* whom owner.json names, or Nobody while it is missing
    temps,      \* owner.<pid>.<token>.tmp files in the directory
    old,        \* the directory was last written more than the grace period ago
    stage,      \* where each process stands
    attempt,    \* its round of the loop
    seen,       \* the owner it read
    failures,
    \* history, read by the properties only
    current,    \* processes whose last look at the directory is still true of it
    overtaken,  \* a directory was removed by a process that had looked at another
    slow,       \* the grace period passed between two file operations of a process
    alone       \* processes that met no other process and no young, ownerless lock

dirVars     == <<present, owner, temps, old>>
historyVars == <<current, overtaken, slow, alone>>
lockVars    == <<dirVars, stage, attempt, seen, failures, historyVars>>

-----------------------------------------------------------------------------
Ended == {"idle", "refused", "done", "killed"}

\* process.kill(pid, 0) and the identity check of lockOwnerIsLive.
Running(p) == stage[p] \notin Ended

\* Mutated form of MayAdopt: the token is not compared.
MayAdoptAnyHandoff(p) == seen[p] = Service

\* kind 'handoff', the same correlation id and the token the child was given.
MayAdopt(p) == p = Child /\ seen[p] = Service

LockInit ==
    /\ present = FALSE /\ owner = Nobody /\ temps = {} /\ old = FALSE
    /\ stage = [p \in Procs |-> "idle"]
    /\ attempt = [p \in Procs |-> 1]
    /\ seen = [p \in Procs |-> Nobody]
    /\ failures = 0
    /\ current = {} /\ overtaken = FALSE /\ slow = FALSE
    /\ alone = {}

-----------------------------------------------------------------------------
(* acquireRollbackLock *)

\* Process p starts; from now on it and the others are not alone.
Enters(p) ==
    alone' = IF /\ \A q \in Procs \ {p} : ~Running(q)
                /\ present /\ owner = Nobody => old
             THEN {p} ELSE {}

BeginRollback(p) ==
    /\ p # Child
    /\ stage[p] = "idle"
    /\ stage' = [stage EXCEPT ![p] = "mkdir"]
    /\ Enters(p)
    /\ UNCHANGED <<dirVars, attempt, seen, failures, current, overtaken, slow>>

MakeDirectory(p) ==
    /\ stage[p] = "mkdir" /\ ~present
    /\ present' = TRUE /\ owner' = Nobody /\ temps' = {} /\ old' = FALSE
    /\ stage' = [stage EXCEPT ![p] = "publish"]
    /\ UNCHANGED <<attempt, seen, failures, historyVars>>

DirectoryExists(p) ==
    /\ stage[p] = "mkdir" /\ present
    /\ stage' = [stage EXCEPT ![p] = "read"]
    /\ UNCHANGED <<dirVars, attempt, seen, failures, historyVars>>

\* writeFileSync of the temporary file.
WriteOwner(p) ==
    /\ stage[p] = "publish" /\ present
    /\ temps' = temps \cup {p}
    /\ old' = FALSE
    /\ stage' = [stage EXCEPT ![p] = "rename"]
    /\ UNCHANGED <<present, owner, attempt, seen, failures, historyVars>>

\* renameSync over owner.json: whoever looked at the directory saw something else.
Publish(p) ==
    /\ stage[p] = "rename" /\ present /\ p \in temps
    /\ owner' = p
    /\ temps' = temps \ {p}
    /\ old' = FALSE
    /\ current' = {}
    /\ stage' = [stage EXCEPT ![p] = "held"]
    /\ UNCHANGED <<present, attempt, seen, failures, overtaken, slow, alone>>

\* The directory or the temporary file is gone: an error other than EEXIST.
PublishLost(p) ==
    /\ \/ stage[p] = "publish" /\ ~present
       \/ stage[p] = "rename" /\ ~(present /\ p \in temps)
    /\ stage' = [stage EXCEPT ![p] = "refused"]
    /\ UNCHANGED <<dirVars, attempt, seen, failures, historyVars>>

\* readRollbackLock
ReadOwner(p) ==
    /\ stage[p] = "read"
    /\ seen' = [seen EXCEPT ![p] = IF present THEN owner ELSE Nobody]
    /\ current' = IF present THEN current \cup {p} ELSE current \ {p}
    /\ stage' = [stage EXCEPT ![p] = "judge"]
    /\ UNCHANGED <<dirVars, attempt, failures, overtaken, slow, alone>>

\* Mutated form of Recoverable: an ownerless directory is taken whatever its age.
RecoverableAtOnce(p) == IF seen[p] = Nobody THEN present ELSE MayAdopt(p) \/ ~Running(seen[p])

\* Mutated form of Recoverable: a directory without owner.json is never taken.
RecoverableOwnedOnly(p) == seen[p] # Nobody /\ (MayAdopt(p) \/ ~Running(seen[p]))

\* What the code may remove: an ownerless directory that is old enough (statSync
\* looks at it again), the handoff it was given, or the lock of a dead process.
Recoverable(p) == IF seen[p] = Nobody THEN present /\ old ELSE MayAdopt(p) \/ ~Running(seen[p])

Refuse(p) ==
    /\ stage[p] = "judge" /\ ~Recoverable(p)
    /\ stage' = [stage EXCEPT ![p] = "refused"]
    /\ current' = current \ {p}
    /\ UNCHANGED <<dirVars, attempt, seen, failures, overtaken, slow, alone>>

Reclaim(p) ==
    /\ stage[p] = "judge" /\ Recoverable(p)
    /\ stage' = [stage EXCEPT ![p] = "remove"]
    /\ current' = IF seen[p] = Nobody /\ owner = Nobody THEN current \cup {p} ELSE current
    /\ UNCHANGED <<dirVars, attempt, seen, failures, overtaken, slow, alone>>

\* rmSync, recursive; a missing directory is not an error.
RemoveDirectory == present' = FALSE /\ owner' = Nobody /\ temps' = {} /\ old' = FALSE

\* Mutated form of Remove: the loop has no bound.
RemoveForEver(p) ==
    /\ stage[p] = "remove"
    /\ RemoveDirectory
    /\ overtaken' = (overtaken \/ (present /\ p \notin current))
    /\ current' = {}
    /\ attempt' = [attempt EXCEPT ![p] = @ + 1]
    /\ stage' = [stage EXCEPT ![p] = "mkdir"]
    /\ UNCHANGED <<seen, failures, slow, alone>>

Remove(p) ==
    /\ stage[p] = "remove"
    /\ RemoveDirectory
    /\ overtaken' = (overtaken \/ (present /\ p \notin current))
    /\ current' = {}
    /\ attempt' = IF attempt[p] < Attempts THEN [attempt EXCEPT ![p] = @ + 1] ELSE attempt
    /\ stage' = [stage EXCEPT ![p] = IF attempt[p] < Attempts THEN "mkdir" ELSE "refused"]
    /\ UNCHANGED <<seen, failures, slow, alone>>

-----------------------------------------------------------------------------
(* What the holders do *)

\* releaseRollbackLock, by a runner that has finished or failed, and by the
\* service when the handoff is rejected or the child cannot be spawned.
Release(p) ==
    /\ stage[p] = "held"
    /\ stage' = [stage EXCEPT ![p] = IF present /\ owner = p THEN "release" ELSE "done"]
    /\ UNCHANGED <<dirVars, attempt, seen, failures, historyVars>>

ReleaseRemove(p) ==
    /\ stage[p] = "release"
    /\ RemoveDirectory
    /\ overtaken' = (overtaken \/ (present /\ owner # p))
    /\ current' = {}
    /\ stage' = [stage EXCEPT ![p] = "done"]
    /\ UNCHANGED <<attempt, seen, failures, slow, alone>>

\* finishShutdown spawns bin/rollback.js with the token ...
HandOver ==
    /\ stage[Service] = "held" /\ stage[Child] = "idle"
    /\ stage' = [stage EXCEPT ![Service] = "leaving", ![Child] = "mkdir"]
    /\ Enters(Child)
    /\ UNCHANGED <<dirVars, attempt, seen, failures, current, overtaken, slow>>

\* ... and the service exits.
Leave ==
    /\ stage[Service] = "leaving"
    /\ stage' = [stage EXCEPT ![Service] = "done"]
    /\ UNCHANGED <<dirVars, attempt, seen, failures, historyVars>>

-----------------------------------------------------------------------------
(* Time and faults *)

GraceEnds ==
    /\ present /\ ~old
    /\ old' = TRUE
    /\ slow' = (slow \/ \E p \in Procs : stage[p] \in {"publish", "rename", "judge"})
    /\ UNCHANGED <<present, owner, temps, stage, attempt, seen, failures, current, overtaken, alone>>

KillRollback(p) ==
    /\ Running(p) /\ failures < MaxFailures
    /\ failures' = failures + 1
    /\ stage' = [stage EXCEPT ![p] = "killed"]
    /\ current' = current \ {p}
    /\ UNCHANGED <<dirVars, attempt, seen, overtaken, slow, alone>>

\* Writing the owner or removing the directory fails: acquireRollbackLock gives up.
FileError(p) ==
    /\ stage[p] \in {"publish", "rename", "remove"} /\ failures < MaxFailures
    /\ failures' = failures + 1
    /\ stage' = [stage EXCEPT ![p] = "refused"]
    /\ current' = current \ {p}
    /\ alone' = alone \ {p}
    /\ UNCHANGED <<dirVars, attempt, seen, overtaken, slow>>

Acquire(p) ==
    \/ BeginRollback(p)
    \/ MakeDirectory(p) \/ DirectoryExists(p)
    \/ WriteOwner(p) \/ Publish(p) \/ PublishLost(p)
    \/ ReadOwner(p) \/ Refuse(p) \/ Reclaim(p) \/ Remove(p)

LockNext ==
    \/ \E p \in Procs : Acquire(p) \/ Release(p) \/ ReleaseRemove(p)
    \/ HandOver \/ Leave
    \/ GraceEnds
    \/ \E p \in Procs : KillRollback(p) \/ FileError(p)

LockSpec == LockInit /\ [][LockNext]_lockVars

-----------------------------------------------------------------------------
(* Properties *)

Stages == Ended \cup {"mkdir", "publish", "rename", "read", "judge", "remove",
                      "held", "release", "leaving"}

LockTypeOK ==
    /\ present \in BOOLEAN /\ old \in BOOLEAN
    /\ owner \in Procs \cup {Nobody}
    /\ temps \subseteq Procs
    /\ ~present => owner = Nobody /\ temps = {} /\ ~old
    /\ stage \in [Procs -> Stages]
    /\ attempt \in [Procs -> 1..Attempts]
    /\ seen \in [Procs -> Procs \cup {Nobody}]
    /\ failures \in 0..MaxFailures
    /\ current \subseteq Procs /\ alone \subseteq Procs
    /\ overtaken \in BOOLEAN /\ slow \in BOOLEAN

Holders == {p \in Procs : stage[p] \in {"held", "release"}}

\* Processes that restore the database and switch the version.
Restoring == {p \in Procs \ {Service} : stage[p] = "held"}

\* Comment in src/release/update.js:384-386 and the test "rollback lock is
\* single-flight": two rollbacks never run at a time, also when no process is
\* suspended for the grace period.
SingleFlight == ~slow => Cardinality(Restoring) <= 1

\* A holder is alone and named by owner.json, through kills, adoption of a handoff,
\* orphaned directories and releases, unless a process removed a directory it had
\* not looked at or was suspended for the grace period.  These two gaps are the
\* only ones: see SingleFlight for the first.
HolderOwnsLock ==
    overtaken \/ slow \/ \A p \in Holders : present /\ owner = p

\* An attempt is only refused on account of another process: what a killed
\* process left behind never blocks the next rollback
\* (src/release/update.js:384-386).
RefusedOnlyIfContended == \A p \in alone : stage[p] # "refused"

\* Nobody takes an accepted handoff from a live service, except its child
\* (comment in src/release/update.js:412-414).
HandoffKept ==
    [][stage[Service] = "held" /\ stage'[Service] = "held" /\ owner = Service
          => owner' = Service \/ overtaken' \/ slow']_lockVars
=============================================================================

----------------------------- MODULE ServiceControl -----------------------------
(***************************************************************************)
(* Starting and stopping the service (bin/service.js) from                  *)
(* scripts/service-control.js.  Services and controllers are processes that *)
(* share three files: tracker.pid, tracker-status.json and stop.request.    *)
(* Every file operation is a step of its own, except that a service reads   *)
(* and removes its own pid in one step.                                     *)
(***************************************************************************)
EXTENDS Naturals

CONSTANTS
    Services,     \* processes running bin/service.js, each named by its pid
    Controllers,  \* command windows: each runs one command after the other
    None,         \* no process
    Packaged,     \* installed under <installRoot>\versions, or a source checkout
    MaxCommands,  \* bound: commands run in all
    MaxFaults     \* bound: kills, uncaught exceptions, failed starts, reused pids

ASSUME ServiceControlAssumption ==
    /\ None \notin Services
    /\ Packaged \in BOOLEAN
    /\ MaxCommands \in Nat /\ MaxFaults \in Nat

VARIABLES
    svc,          \* where each service stands
    stopping,     \* services whose flag stopping is set
    pidFile,      \* the process tracker.pid names
    status,       \* pid and phase in tracker-status.json
    stopFile,     \* stop.request exists
    port,         \* the service that listens
    foreign,      \* pids of dead services that another program has been given
    cmd, pc,      \* the command each controller runs, and where it stands
    target,       \* the process it is about
    commands, faults,
    \* history, read by the properties only
    before,       \* services at work when the controller's stop began
    raced,        \* a start looked at the pid file while another was under way
    clobbered,    \* a controller removed the pid or the stop file of a newer service
    strangerHit   \* a program that is no service was killed

fileVars       == <<pidFile, status, stopFile>>
serviceVars    == <<svc, stopping, port>>
controllerVars == <<cmd, pc, target, before, commands>>
gapVars        == <<raced, clobbered, strangerHit>>
vars == <<fileVars, serviceVars, controllerVars, foreign, faults, gapVars>>

-----------------------------------------------------------------------------
\* Processes that have published their pid and not yet taken it back.
Recorded == {"recorded", "cleared", "starting", "opened", "busy", "idle",
             "closing", "closed", "unasked", "failing"}

\* A service that works on the database, from createApp to db.close.
AtWork == {"opened", "busy", "idle", "closing"}
Working == {s \in Services : svc[s] \in AtWork}

Dead(p) == svc[p] \in {"unborn", "dead"}

\* process.kill(pid, 0): any process with this pid, a service or not.
Alive(p) == ~Dead(p) \/ p \in foreign

Commands == {"start", "stop", "restart", "status"}
Phases   == {"starting", "running", "stopping"}
NoStatus == [pid |-> None, phase |-> "none"]

\* A start from its look at the pid file until its child has recorded its own pid.
Starting(c) == cmd[c] = "start" /\ pc[c] \in {"judge", "unpin", "clear", "spawn"}
StartUnderWay == \/ \E c \in Controllers : Starting(c)
                 \/ \E s \in Services : svc[s] = "spawned"

Init ==
    /\ svc = [s \in Services |-> "unborn"]
    /\ stopping = {}
    /\ pidFile = None /\ status = NoStatus /\ stopFile = FALSE
    /\ port = None
    /\ foreign = {}
    /\ cmd = [c \in Controllers |-> "none"]
    /\ pc = [c \in Controllers |-> "idle"]
    /\ target = [c \in Controllers |-> None]
    /\ before = [c \in Controllers |-> {}]
    /\ commands = 0 /\ faults = 0
    /\ raced = FALSE /\ clobbered = FALSE /\ strangerHit = FALSE

-----------------------------------------------------------------------------
(* bin/service.js *)

WriteStatus(p, phase) == status' = [pid |-> p, phase |-> phase]

\* Moves service s from phase a to phase b.
Advance(s, a, b) == svc[s] = a /\ svc' = [svc EXCEPT ![s] = b]

RecordPid(s) ==
    /\ Advance(s, "spawned", "recorded")
    /\ pidFile' = s
    /\ UNCHANGED <<status, stopFile, stopping, port, controllerVars, foreign, faults, gapVars>>

\* A request meant for an earlier service.
DropRequest(s) ==
    /\ Advance(s, "recorded", "cleared")
    /\ stopFile' = FALSE
    /\ UNCHANGED <<pidFile, status, stopping, port, controllerVars, foreign, faults, gapVars>>

PublishStarting(s) ==
    /\ Advance(s, "cleared", "starting")
    /\ WriteStatus(s, "starting")
    /\ UNCHANGED <<pidFile, stopFile, stopping, port, controllerVars, foreign, faults, gapVars>>

\* Mutated form of OpenDatabase: an old request is removed after the status is published.
OpenDatabaseDropsRequest(s) ==
    /\ Advance(s, "starting", "opened")
    /\ stopFile' = FALSE
    /\ UNCHANGED <<pidFile, status, stopping, port, controllerVars, foreign, faults, gapVars>>

\* createApp, recoverInterruptedWork, syncSources: before the port is known to be free.
OpenDatabase(s) ==
    /\ Advance(s, "starting", "opened")
    /\ UNCHANGED <<fileVars, stopping, port, controllerVars, foreign, faults, gapVars>>

\* startWebServer resolves; the status, the stop poll and the first tick follow at once.
Listen(s) ==
    /\ port = None
    /\ Advance(s, "opened", "busy")
    /\ port' = s
    /\ WriteStatus(s, "running")
    /\ UNCHANGED <<pidFile, stopFile, stopping, controllerVars, foreign, faults, gapVars>>

PortTaken(s) ==
    /\ port # None
    /\ Advance(s, "opened", "failing")
    /\ UNCHANGED <<fileVars, stopping, port, controllerVars, foreign, faults, gapVars>>

StartThrows(s) ==
    /\ faults < MaxFaults
    /\ Advance(s, "starting", "failing") \/ Advance(s, "opened", "failing")
    /\ faults' = faults + 1
    /\ UNCHANGED <<fileVars, stopping, port, controllerVars, foreign, gapVars>>

ClearOwnPid(s) == pidFile' = IF pidFile = s THEN None ELSE pidFile

FailUnpin(s) ==
    /\ Advance(s, "failing", "failed")
    /\ ClearOwnPid(s)
    /\ UNCHANGED <<status, stopFile, stopping, port, controllerVars, foreign, faults, gapVars>>

FailExit(s) ==
    /\ Advance(s, "failed", "dead")
    /\ WriteStatus(None, "error")
    /\ UNCHANGED <<pidFile, stopFile, stopping, port, controllerVars, foreign, faults, gapVars>>

\* server.close() stops listening at once.
ReleasePort(s) == port' = IF port = s THEN None ELSE port

BeginTick(s) ==
    /\ s \notin stopping
    /\ Advance(s, "idle", "busy")
    /\ WriteStatus(s, "running")
    /\ UNCHANGED <<pidFile, stopFile, stopping, port, controllerVars, foreign, faults, gapVars>>

\* runOnce returns or throws; then the next tick is scheduled or the shutdown begins.
EndTick(s) ==
    /\ Advance(s, "busy", IF s \in stopping THEN "closing" ELSE "idle")
    /\ IF s \in stopping THEN ReleasePort(s) ELSE UNCHANGED port
    /\ WriteStatus(s, "running")
    /\ UNCHANGED <<pidFile, stopFile, stopping, controllerVars, foreign, faults, gapVars>>

\* Mutated form of RequestStop: the server is not closed.
RequestStopKeepsServer(s) ==
    /\ s \notin stopping
    /\ stopping' = stopping \cup {s}
    /\ WriteStatus(s, "stopping")
    /\ svc' = IF svc[s] = "busy" THEN svc ELSE [svc EXCEPT ![s] = "closing"]
    /\ UNCHANGED port

\* requestStop: a running tick is waited for.
RequestStop(s) ==
    /\ s \notin stopping
    /\ stopping' = stopping \cup {s}
    /\ WriteStatus(s, "stopping")
    /\ IF svc[s] = "busy"
       THEN UNCHANGED <<svc, port>>
       ELSE svc' = [svc EXCEPT ![s] = "closing"] /\ ReleasePort(s)

\* Mutated form of TakeStop: the request is only looked at between ticks.
TakeStopBetweenTicks(s) ==
    /\ svc[s] = "idle" /\ stopFile
    /\ RequestStop(s)
    /\ UNCHANGED <<pidFile, stopFile, controllerVars, foreign, faults, gapVars>>

\* The stop poll.
TakeStop(s) ==
    /\ svc[s] \in {"busy", "idle"} /\ stopFile
    /\ RequestStop(s)
    /\ UNCHANGED <<pidFile, stopFile, controllerVars, foreign, faults, gapVars>>

\* uncaughtException, unhandledRejection and signals, also while the port is awaited.
Alarm(s) ==
    /\ svc[s] \in {"opened", "busy", "idle"} /\ faults < MaxFaults
    /\ RequestStop(s)
    /\ faults' = faults + 1
    /\ UNCHANGED <<pidFile, stopFile, controllerVars, foreign, gapVars>>

\* finishShutdown: the connections have ended and the database is closed ...
CloseDatabase(s) ==
    /\ Advance(s, "closing", "closed")
    /\ UNCHANGED <<fileVars, stopping, port, controllerVars, foreign, faults, gapVars>>

\* ... the request is removed, then the pid, and the last status is written.
RemoveRequest(s) ==
    /\ Advance(s, "closed", "unasked")
    /\ stopFile' = FALSE
    /\ UNCHANGED <<pidFile, status, stopping, port, controllerVars, foreign, faults, gapVars>>

Unpin(s) ==
    /\ Advance(s, "unasked", "leaving")
    /\ ClearOwnPid(s)
    /\ UNCHANGED <<status, stopFile, stopping, port, controllerVars, foreign, faults, gapVars>>

Exit(s) ==
    /\ Advance(s, "leaving", "dead")
    /\ stopping' = stopping \ {s}
    /\ WriteStatus(None, "stopped")
    /\ UNCHANGED <<pidFile, stopFile, port, controllerVars, foreign, faults, gapVars>>

\* The service is gone at once: a kill, or taskkill of a controller.
Vanish(s) ==
    /\ svc' = [svc EXCEPT ![s] = "dead"]
    /\ stopping' = stopping \ {s}
    /\ ReleasePort(s)

Kill(s) ==
    /\ ~Dead(s) /\ faults < MaxFaults
    /\ Vanish(s)
    /\ faults' = faults + 1
    /\ UNCHANGED <<fileVars, controllerVars, foreign, gapVars>>

\* The system gives the pid of a dead service to another program, though not in the
\* moment between the last look of a controller at it and its taskkill.
ReusePid(s) ==
    /\ svc[s] = "dead" /\ s \notin foreign /\ faults < MaxFaults
    /\ \A c \in Controllers : ~(pc[c] = "terminate" /\ target[c] = s)
    /\ foreign' = foreign \cup {s}
    /\ faults' = faults + 1
    /\ UNCHANGED <<fileVars, serviceVars, controllerVars, gapVars>>

-----------------------------------------------------------------------------
(* src/release/service-process.js and service-lifecycle.js: who is this pid? *)

\* canAttemptGracefulStop, and the first condition of classifyServiceProcess.
Vouches(seen, p) == seen.pid = p /\ seen.phase \in Phases

\* classifyServiceProcess: without an identity (the process is gone, or Windows does
\* not tell) it is unknown; an installation root is always given, so only a process
\* of an installed version is ours.
Ownership(p, seen, identified) ==
    IF ~identified \/ ~Alive(p) \/ ~Vouches(seen, p) THEN "unknown"
    ELSE IF p \in foreign \/ ~Packaged THEN "other"
    ELSE "owned"

\* canForceTerminate
MayForce(ownership) == ownership = "owned"

\* resolveStopDecision: "graceful".
MayAsk(look, p) == MayForce(look.who) \/ (look.who # "other" /\ Vouches(look.seen, p))

\* Mutated form of MayReplace: what cannot be identified is taken for stale.
MayReplaceUnknown(ownership) == ~MayForce(ownership)

\* resolveStartDecision: "clear-stale".
MayReplace(ownership) == ownership = "other"

\* readStatus, null while a service is writing the file.
Readings == {status, NoStatus}

\* What a look at the target may find; who it is, and what the status file said.
Looks(c) == {[who |-> Ownership(target[c], seen, identified), seen |-> seen] :
                seen \in Readings, identified \in BOOLEAN}

-----------------------------------------------------------------------------
(* scripts/service-control.js *)

Goto(c, a, b) == pc[c] = a /\ pc' = [pc EXCEPT ![c] = b]

\* The command ends, and its process with it.
Finish(c) ==
    /\ pc' = [pc EXCEPT ![c] = "idle"]
    /\ cmd' = [cmd EXCEPT ![c] = "none"]
    /\ target' = [target EXCEPT ![c] = None]
    /\ before' = [before EXCEPT ![c] = {}]
    /\ UNCHANGED commands

Begin(c, k) ==
    /\ pc[c] = "idle" /\ commands < MaxCommands
    /\ k = "start" => \E s \in Services : svc[s] = "unborn"
    /\ cmd' = [cmd EXCEPT ![c] = k]
    /\ pc' = [pc EXCEPT ![c] = "read"]
    /\ commands' = commands + 1
    /\ target' = [target EXCEPT ![c] = None]
    /\ before' = [before EXCEPT ![c] = IF k \in {"stop", "restart"} THEN Working ELSE {}]
    /\ UNCHANGED <<fileVars, serviceVars, foreign, faults, gapVars>>

\* Where a command goes on when there is no service to look at.
WithoutService(c) == IF cmd[c] = "start" THEN "clear" ELSE "stopped"

ReadPid(c) ==
    /\ Goto(c, "read", IF pidFile = None THEN WithoutService(c) ELSE "judge")
    /\ target' = [target EXCEPT ![c] = pidFile]
    /\ raced' = (raced \/ (cmd[c] = "start" /\ StartUnderWay))
    /\ UNCHANGED <<fileVars, serviceVars, cmd, before, commands, foreign, faults, clobbered, strangerHit>>

\* Every command clears the pid of a dead process, a start also that of a stranger.
FindStale(c) ==
    /\ Goto(c, "judge", "unpin")
    /\ \/ ~Alive(target[c])
       \/ cmd[c] = "start" /\ \E look \in Looks(c) : MayReplace(look.who)
    /\ UNCHANGED <<fileVars, serviceVars, cmd, target, before, commands, foreign, faults, gapVars>>

\* already-running, refused, and the end of a status command.
LeaveAlone(c) ==
    /\ pc[c] = "judge"
    /\ Alive(target[c])
    /\ \/ cmd[c] = "start" /\ \E look \in Looks(c) : ~MayReplace(look.who)
       \/ cmd[c] \in {"stop", "restart"} /\ \E look \in Looks(c) : ~MayAsk(look, target[c])
       \/ cmd[c] = "status"
    /\ Finish(c)
    /\ UNCHANGED <<fileVars, serviceVars, foreign, faults, gapVars>>

AcceptStop(c) ==
    /\ Goto(c, "judge", "ask")
    /\ cmd[c] \in {"stop", "restart"} /\ Alive(target[c])
    /\ \E look \in Looks(c) : MayAsk(look, target[c])
    /\ UNCHANGED <<fileVars, serviceVars, cmd, target, before, commands, foreign, faults, gapVars>>

\* The file belongs to a service the controller has not looked at.
Clobbers(c) == pidFile \notin {None, target[c]}

ClearPid(c) ==
    /\ Goto(c, "unpin", WithoutService(c))
    /\ pidFile' = None
    /\ clobbered' = (clobbered \/ Clobbers(c))
    /\ UNCHANGED <<status, stopFile, serviceVars, cmd, target, before, commands, foreign, faults, raced, strangerHit>>

\* runStartSequence
ClearStopRequest(c) ==
    /\ Goto(c, "clear", "spawn")
    /\ stopFile' = FALSE
    /\ UNCHANGED <<pidFile, status, serviceVars, cmd, target, before, commands, foreign, faults, gapVars>>

\* Pids are but names: which one the system hands out makes no difference.
NewPid == CHOOSE s \in Services : svc[s] = "unborn"

SpawnService(c) ==
    /\ Goto(c, "spawn", "wait")
    /\ \E s \in Services : svc[s] = "unborn"
    /\ Advance(NewPid, "unborn", "spawned")
    /\ UNCHANGED <<fileVars, stopping, port, cmd, target, before, commands, foreign, faults, gapVars>>

\* The process cannot be created; also what a start meets when Services is used up.
SpawnFails(c) ==
    /\ pc[c] = "spawn"
    /\ Finish(c)
    /\ UNCHANGED <<fileVars, serviceVars, foreign, faults, gapVars>>

\* The child runs, has exited, or the time is up: what is printed differs.
EndStart(c) ==
    /\ pc[c] = "wait"
    /\ Finish(c)
    /\ UNCHANGED <<fileVars, serviceVars, foreign, faults, gapVars>>

\* runStopSequence
WriteStopRequest(c) ==
    /\ Goto(c, "ask", "await")
    /\ stopFile' = TRUE
    /\ UNCHANGED <<pidFile, status, serviceVars, cmd, target, before, commands, foreign, faults, gapVars>>

\* Mutated form of StoppedGracefully: the stop is reported when it has been asked for.
StoppedWhenAsked(c) ==
    /\ Goto(c, "await", "stopped")
    /\ UNCHANGED <<fileVars, serviceVars, cmd, target, before, commands, foreign, faults, gapVars>>

StoppedGracefully(c) ==
    /\ Goto(c, "await", "stopped")
    /\ ~Alive(target[c])
    /\ UNCHANGED <<fileVars, serviceVars, cmd, target, before, commands, foreign, faults, gapVars>>

\* STOP_TIMEOUT_MS is over: the process is looked at again.
WaitTooLong(c) ==
    /\ Goto(c, "await", "recheck")
    /\ UNCHANGED <<fileVars, serviceVars, cmd, target, before, commands, foreign, faults, gapVars>>

RefuseForce(c) ==
    /\ pc[c] = "recheck"
    /\ \E look \in Looks(c) : ~MayForce(look.who)
    /\ Finish(c)
    /\ UNCHANGED <<fileVars, serviceVars, foreign, faults, gapVars>>

\* Mutated form of DecideForce: there is no second look.
DecideForceAtOnce(c) ==
    /\ Goto(c, "recheck", "terminate")
    /\ UNCHANGED <<fileVars, serviceVars, cmd, target, before, commands, foreign, faults, gapVars>>

DecideForce(c) ==
    /\ Goto(c, "recheck", "terminate")
    /\ \E look \in Looks(c) : MayForce(look.who)
    /\ UNCHANGED <<fileVars, serviceVars, cmd, target, before, commands, foreign, faults, gapVars>>

\* taskkill hits whatever has the pid, and fails when nothing has it.
ForceTerminate(c) ==
    /\ Goto(c, "terminate", IF Alive(target[c]) THEN "forget" ELSE "failed")
    /\ strangerHit' = (strangerHit \/ target[c] \in foreign)
    /\ foreign' = foreign \ {target[c]}
    /\ IF Dead(target[c]) THEN UNCHANGED serviceVars ELSE Vanish(target[c])
    /\ UNCHANGED <<fileVars, cmd, target, before, commands, faults, raced, clobbered>>

ForgetPid(c) ==
    /\ Goto(c, "forget", "tidy")
    /\ pidFile' = None
    /\ clobbered' = (clobbered \/ Clobbers(c))
    /\ UNCHANGED <<status, stopFile, serviceVars, cmd, target, before, commands, foreign, faults, raced, strangerHit>>

Tidy(c) ==
    /\ Goto(c, "tidy", "stopped")
    /\ stopFile' = FALSE
    /\ clobbered' = (clobbered \/ Clobbers(c))
    /\ UNCHANGED <<pidFile, status, serviceVars, cmd, target, before, commands, foreign, faults, raced, strangerHit>>

\* A stop or a status command is done, or taskkill has failed.
EndCommand(c) ==
    /\ pc[c] = "failed" \/ (pc[c] = "stopped" /\ cmd[c] # "restart")
    /\ Finish(c)
    /\ UNCHANGED <<fileVars, serviceVars, foreign, faults, gapVars>>

\* A restart goes on with a start after a stop that succeeded.
StartAgain(c) ==
    /\ cmd[c] = "restart"
    /\ Goto(c, "stopped", "read")
    /\ cmd' = [cmd EXCEPT ![c] = "start"]
    /\ before' = [before EXCEPT ![c] = {}]
    /\ UNCHANGED <<fileVars, serviceVars, target, commands, foreign, faults, gapVars>>

-----------------------------------------------------------------------------
Boot(s) ==
    \/ RecordPid(s) \/ DropRequest(s) \/ PublishStarting(s)
    \/ OpenDatabase(s) \/ Listen(s) \/ PortTaken(s)
    \/ FailUnpin(s) \/ FailExit(s)

Shutdown(s) == CloseDatabase(s) \/ RemoveRequest(s) \/ Unpin(s) \/ Exit(s)

Control(c) ==
    \/ \E k \in Commands : Begin(c, k)
    \/ ReadPid(c) \/ FindStale(c) \/ LeaveAlone(c) \/ ClearPid(c)
    \/ ClearStopRequest(c) \/ SpawnService(c) \/ SpawnFails(c) \/ EndStart(c)
    \/ AcceptStop(c) \/ WriteStopRequest(c) \/ StoppedGracefully(c) \/ WaitTooLong(c)
    \/ RefuseForce(c) \/ DecideForce(c) \/ ForceTerminate(c) \/ ForgetPid(c) \/ Tidy(c)
    \/ EndCommand(c) \/ StartAgain(c)

Next ==
    \/ \E s \in Services : Boot(s) \/ BeginTick(s) \/ EndTick(s) \/ TakeStop(s) \/ Shutdown(s)
    \/ \E s \in Services : StartThrows(s) \/ Alarm(s) \/ Kill(s) \/ ReusePid(s)
    \/ \E c \in Controllers : Control(c)

\* A service makes progress: its start is synchronous or ends with the port, a tick
\* ends because every fetch and send has a timeout, the stop poll is an interval timer,
\* and closing ends with the last connection.  Nothing is assumed of controllers.
Fairness == \A s \in Services :
    WF_vars(Boot(s)) /\ WF_vars(EndTick(s)) /\ WF_vars(TakeStop(s)) /\ WF_vars(Shutdown(s))

Spec == Init /\ [][Next]_vars /\ Fairness

-----------------------------------------------------------------------------
(* Properties *)

TypeOK ==
    /\ svc \in [Services -> Recorded \cup {"unborn", "spawned", "leaving", "failed", "dead"}]
    /\ stopping \subseteq Services /\ foreign \subseteq Services
    /\ pidFile \in Services \cup {None} /\ port \in Services \cup {None}
    /\ \A s \in Services : port = s <=> svc[s] \in {"busy", "idle"}
    /\ status \in [pid : Services \cup {None}, phase : Phases \cup {"none", "stopped", "error"}]
    /\ stopFile \in BOOLEAN
    /\ cmd \in [Controllers -> Commands \cup {"none"}]
    /\ pc \in [Controllers -> {"idle", "read", "judge", "unpin", "clear", "spawn", "wait", "ask",
                               "await", "recheck", "terminate", "forget", "tidy", "stopped", "failed"}]
    /\ target \in [Controllers -> Services \cup {None}]
    /\ before \in [Controllers -> SUBSET Services]
    /\ commands \in 0..MaxCommands /\ faults \in 0..MaxFaults
    /\ raced \in BOOLEAN /\ clobbered \in BOOLEAN /\ strangerHit \in BOOLEAN

\* docs/RUNBOOK.md:65: what is started is not started a second time.  At most one
\* service works on the database, unless two starts race or a controller removes the
\* files of a service it has not looked at.
AtMostOneService ==
    raced \/ clobbered \/ \A s, t \in Working : s = t

\* The service at work is the one tracker.pid names, so that a stop or a restart finds
\* it: through crashes, failed starts, reused pids and the shutdown of its predecessor.
WorkingServiceRecorded ==
    raced \/ clobbered \/ \A s \in Working : pidFile = s

\* A stop that reports success has ended every service that was at work when it began
\* (scripts/service-control.js, outcomes not-running, graceful, forced): a restart never
\* starts beside its predecessor.
StopMeansStopped ==
    raced \/ clobbered \/
        \A c \in Controllers : pc[c] = "stopped" => before[c] \cap Working = {}

\* Neither a starting service (bin/service.js:159) nor another command removes the
\* request of a stop that waits for a service still serving and not yet stopping.
RequestNotLost ==
    raced \/ clobbered \/
        \A c \in Controllers, s \in Services :
            pc[c] = "await" /\ target[c] = s /\ svc[s] \in AtWork /\ s \notin stopping => stopFile

\* src/release/service-lifecycle.js:44-47: a program that was given the pid of a
\* service that ended is never killed, whenever during a stop that happens.
StrangersUnharmed == ~strangerHit

\* An accepted stop ends the service, also when its controller gives up or is refused.
AcceptedStopEnds ==
    \A s \in Services :
        (\E c \in Controllers : pc[c] = "await" /\ target[c] = s) ~> (Dead(s) \/ raced \/ clobbered)
=============================================================================

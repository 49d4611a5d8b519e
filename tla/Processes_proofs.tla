---------------------------- MODULE Processes_proofs ----------------------------
(***************************************************************************)
(* Proofs about the two protocols by which the processes of an installation *)
(* keep out of each other's way through files alone: ServiceControl (the    *)
(* pid, status and stop files) and RollbackLock (the lock directory).       *)
(*                                                                          *)
(* ServiceControl, for an installed program, any number of services,        *)
(* controllers, commands and faults: IInv says who may be named by the pid  *)
(* file: while neither gap has opened, the one service that has recorded    *)
(* itself, and none when a start is about to launch one.                    *)
(*                                                                          *)
(* RollbackLock, for any number of rollback processes, rounds of the loop   *)
(* and faults: LockInv is what keeps holders apart until one of the two     *)
(* gaps opens: a process that may remove the directory has looked at the    *)
(* present one, and found it without a live owner or its own.               *)
(***************************************************************************)
EXTENDS ServiceControl, RollbackLock, FiniteSetTheorems, TLAPS

-----------------------------------------------------------------------------
(* ServiceControl *)

Looking == {"judge", "unpin", "ask", "await", "recheck", "terminate", "forget", "tidy"}

\* Services that have published nothing, and those that will not work (again).
Unheard == {"unborn", "spawned"}
Unsaid  == {"unborn", "spawned", "recorded", "cleared"}
Past    == {"closed", "unasked", "leaving", "failing", "failed", "dead"}

\* What holds across the gaps, too.
BasicInv ==
    /\ \A s \in foreign : svc[s] = "dead"
    /\ pidFile # None => svc[pidFile] \notin Unheard
    /\ status.pid # None => svc[status.pid] \notin Unsaid
    /\ \A c \in Controllers : pc[c] \in Looking =>
          target[c] \in Services /\ svc[target[c]] \notin Unheard
    /\ \A c \in Controllers : pc[c] \in {"unpin", "forget", "tidy"} => svc[target[c]] = "dead"
    /\ \A c \in Controllers : pc[c] \in {"ask", "await"} => svc[target[c]] \notin Unsaid
    /\ \A c \in Controllers : pc[c] \in {"clear", "spawn"} => cmd[c] = "start"
    /\ \A c \in Controllers : pc[c] = "terminate" => target[c] \notin foreign
    /\ \A c \in Controllers : \A s \in before[c] : svc[s] \in AtWork \cup Past

NoneRecorded == \A s \in Services : svc[s] \notin Recorded

\* The pid file against the services, and starts one at a time.
PidInv ==
    /\ \A s \in Services : svc[s] \in Recorded => pidFile = s
    /\ \A s \in Services : svc[s] = "spawned" =>
          /\ NoneRecorded
          /\ \A t \in Services : svc[t] = "spawned" => t = s
          /\ \A c \in Controllers : ~Starting(c)
    /\ \A c, d \in Controllers : Starting(c) /\ Starting(d) => c = d
    /\ \A c \in Controllers : Starting(c) /\ pc[c] \in {"clear", "spawn"} => NoneRecorded
    /\ \A c \in Controllers : Starting(c) =>
          \A s \in Services : svc[s] \in Recorded => s = target[c]

\* What a stop has seen to.
StopInv ==
    \A c \in Controllers :
        /\ pc[c] \in Looking => \A s \in before[c] : svc[s] \in AtWork => s = target[c]
        /\ pc[c] = "stopped" => \A s \in before[c] : svc[s] \notin AtWork

RequestInv ==
    \A c \in Controllers :
        pc[c] = "await" /\ svc[target[c]] \in AtWork \cup {"starting"} /\ target[c] \notin stopping
            => stopFile

IInv ==
    /\ TypeOK
    /\ BasicInv
    /\ ~raced /\ ~clobbered => PidInv /\ StopInv /\ RequestInv
    /\ ~strangerHit

-----------------------------------------------------------------------------
LEMMA InitIInv == Init => IInv
  <1> SUFFICES ASSUME Init PROVE IInv
    OBVIOUS
  <1>1. commands \in 0..MaxCommands /\ faults \in 0..MaxFaults
    BY ServiceControlAssumption DEF Init
  <1>2. TypeOK
    BY <1>1, ServiceControlAssumption DEF Init, TypeOK, NoStatus
  <1>3. BasicInv
    BY ServiceControlAssumption DEF Init, BasicInv, NoStatus, Looking
  <1>4. PidInv /\ StopInv /\ RequestInv
    BY DEF Init, PidInv, StopInv, RequestInv, Recorded, NoneRecorded, Starting, Looking
  <1>5. QED
    BY <1>2, <1>3, <1>4 DEF Init, IInv

\* Steps of a service that change no controller.
ServiceStep(s) ==
    Boot(s) \/ BeginTick(s) \/ EndTick(s) \/ TakeStop(s) \/ Shutdown(s)
        \/ StartThrows(s) \/ Alarm(s) \/ Kill(s)

LEMMA TypeService ==
    ASSUME TypeOK, NEW s \in Services, ServiceStep(s)
    PROVE  TypeOK'
  <1> USE ServiceControlAssumption DEF TypeOK, Recorded, Phases, WriteStatus, Advance, ClearOwnPid,
          ReleasePort, fileVars, serviceVars, controllerVars, gapVars
  <1>1. CASE Boot(s)
    <2>1. CASE RecordPid(s)
      BY <2>1 DEF RecordPid
    <2>2. CASE DropRequest(s)
      <3>1. /\ svc' \in [Services -> Recorded \cup {"unborn", "spawned", "leaving", "failed", "dead"}]
            /\ \A r \in Services : port' = r <=> svc'[r] \in {"busy", "idle"}
        BY <2>2 DEF DropRequest
      <3>2. stopFile' \in BOOLEAN /\ UNCHANGED <<pidFile, status, stopping, port, controllerVars, foreign,
                                                faults, gapVars>>
        BY <2>2 DEF DropRequest
      <3>3. QED
        BY <3>1, <3>2
    <2>3. CASE PublishStarting(s)
      BY <2>3 DEF PublishStarting
    <2>4. CASE OpenDatabase(s) \/ PortTaken(s)
      BY <2>4 DEF OpenDatabase, PortTaken
    <2>5. CASE Listen(s)
      BY <2>5 DEF Listen
    <2>6. CASE FailUnpin(s) \/ FailExit(s)
      BY <2>6 DEF FailUnpin, FailExit
    <2>7. QED
      BY <1>1, <2>1, <2>2, <2>3, <2>4, <2>5, <2>6 DEF Boot
  <1>2. CASE BeginTick(s) \/ EndTick(s)
    BY <1>2 DEF BeginTick, EndTick
  <1>3. CASE TakeStop(s)
    BY <1>3 DEF TakeStop, RequestStop
  <1>4. CASE Alarm(s)
    BY <1>4 DEF Alarm, RequestStop
  <1>5. CASE Shutdown(s)
    <2>1. CASE CloseDatabase(s)
      BY <2>1 DEF CloseDatabase
    <2>2. CASE RemoveRequest(s)
      BY <2>2 DEF RemoveRequest
    <2>3. CASE Unpin(s)
      BY <2>3 DEF Unpin
    <2>4. CASE Exit(s)
      BY <2>4 DEF Exit
    <2>5. QED
      BY <1>5, <2>1, <2>2, <2>3, <2>4 DEF Shutdown
  <1>6. CASE StartThrows(s)
    BY <1>6 DEF StartThrows
  <1>7. CASE Kill(s)
    BY <1>7 DEF Kill, Vanish
  <1>8. QED
    BY <1>1, <1>2, <1>3, <1>4, <1>5, <1>6, <1>7 DEF ServiceStep

LEMMA NewPidFresh ==
    ASSUME \E s \in Services : svc[s] = "unborn"
    PROVE  NewPid \in Services /\ svc[NewPid] = "unborn"
  BY DEF NewPid

LEMMA TypeControl ==
    ASSUME TypeOK, NEW c \in Controllers, Control(c)
    PROVE  TypeOK'
  <1> USE ServiceControlAssumption DEF TypeOK, Goto, Finish, fileVars, serviceVars, gapVars
  <1>1. ASSUME NEW k \in Commands, Begin(c, k) PROVE TypeOK'
    <2>1. Working \in SUBSET Services
      BY DEF Working
    <2>2. QED
      BY <1>1, <2>1 DEF Begin
  <1>2. CASE ReadPid(c)
    BY <1>2 DEF ReadPid, WithoutService
  <1>3. CASE FindStale(c) \/ AcceptStop(c)
    BY <1>3 DEF FindStale, AcceptStop
  <1>4. CASE LeaveAlone(c)
    BY <1>4 DEF LeaveAlone
  <1>5. CASE ClearPid(c) \/ ForgetPid(c) \/ Tidy(c)
    <2>1. CASE ClearPid(c)
      BY <2>1 DEF ClearPid, WithoutService
    <2>2. CASE ForgetPid(c)
      BY <2>2 DEF ForgetPid, WithoutService
    <2>3. CASE Tidy(c)
      BY <2>3 DEF Tidy, WithoutService
    <2>4. QED
      BY <1>5, <2>1, <2>2, <2>3
  <1>6. CASE ClearStopRequest(c) \/ WriteStopRequest(c) \/ StoppedGracefully(c) \/ WaitTooLong(c)
    <2>1. CASE ClearStopRequest(c)
      BY <2>1 DEF ClearStopRequest
    <2>2. CASE WriteStopRequest(c)
      BY <2>2 DEF WriteStopRequest
    <2>3. CASE StoppedGracefully(c) \/ WaitTooLong(c)
      BY <2>3 DEF StoppedGracefully, WaitTooLong
    <2>4. QED
      BY <1>6, <2>1, <2>2, <2>3
  <1>7. CASE SpawnService(c)
    BY <1>7, NewPidFresh DEF SpawnService, Advance
  <1>8. CASE SpawnFails(c) \/ EndStart(c) \/ EndCommand(c)
    BY <1>8 DEF SpawnFails, EndStart, EndCommand
  <1>9. CASE RefuseForce(c)
    BY <1>9 DEF RefuseForce
  <1>10. CASE DecideForce(c)
    BY <1>10 DEF DecideForce
  <1>11. CASE ForceTerminate(c)
    BY <1>11 DEF ForceTerminate, Vanish, ReleasePort, Recorded
  <1>12. CASE StartAgain(c)
    BY <1>12 DEF StartAgain, Commands
  <1>13. QED
    BY <1>1, <1>2, <1>3, <1>4, <1>5, <1>6, <1>7, <1>8, <1>9, <1>10, <1>11, <1>12 DEF Control

LEMMA TypeNext == TypeOK /\ [Next]_vars => TypeOK'
  <1> SUFFICES ASSUME TypeOK, [Next]_vars PROVE TypeOK'
    OBVIOUS
  <1>1. ASSUME NEW s \in Services, ReusePid(s) PROVE TypeOK'
    BY <1>1, ServiceControlAssumption DEF TypeOK, ReusePid, fileVars, serviceVars, controllerVars, gapVars
  <1>2. CASE UNCHANGED vars
    BY <1>2 DEF TypeOK, vars, fileVars, serviceVars, controllerVars, gapVars
  <1>3. QED
    BY <1>1, <1>2, TypeService, TypeControl DEF Next, ServiceStep

-----------------------------------------------------------------------------
\* What a step of service s may do to the others, to the files and to itself.
Effect(s) ==
    /\ UNCHANGED <<cmd, pc, target, before, foreign, raced, clobbered, strangerHit>>
    /\ \A t \in Services \ {s} : svc'[t] = svc[t]
    /\ svc[s] \notin {"unborn", "dead"} /\ svc'[s] \notin Unheard
    /\ svc[s] \notin Unsaid => svc'[s] \notin Unsaid
    /\ svc[s] \in AtWork \cup Past => svc'[s] \in AtWork \cup Past
    /\ svc'[s] \in AtWork => svc[s] \in AtWork \cup {"starting"}
    /\ svc'[s] = "starting" => svc[s] = "cleared"
    /\ svc'[s] \in Recorded => svc[s] \in Recorded \/ (svc[s] = "spawned" /\ pidFile' = s)
    /\ \/ pidFile' = pidFile
       \/ pidFile' = s /\ svc[s] = "spawned"
       \/ pidFile = s /\ pidFile' = None /\ svc'[s] \notin Recorded
    /\ status' = status \/ status'.pid = None \/ (status'.pid = s /\ svc'[s] \notin Unsaid)
    /\ stopFile' = stopFile \/ svc[s] \in {"recorded", "closed"}
    /\ \A t \in stopping : t \in stopping' \/ (t = s /\ svc'[s] = "dead")

LEMMA ServiceEffect ==
    ASSUME TypeOK, NEW s \in Services, ServiceStep(s)
    PROVE  Effect(s)
  <1> USE DEF TypeOK, Effect, Recorded, AtWork, Past, Unsaid, Unheard, WriteStatus, Advance,
          ClearOwnPid, fileVars, serviceVars, controllerVars, gapVars
  <1>1. CASE RecordPid(s) \/ DropRequest(s)
    BY <1>1 DEF RecordPid, DropRequest
  <1>2. CASE PublishStarting(s) \/ OpenDatabase(s)
    BY <1>2 DEF PublishStarting, OpenDatabase
  <1>3. CASE Listen(s) \/ PortTaken(s)
    BY <1>3 DEF Listen, PortTaken
  <1>4. CASE FailUnpin(s) \/ FailExit(s)
    BY <1>4 DEF FailUnpin, FailExit
  <1>5. CASE BeginTick(s)
    BY <1>5 DEF BeginTick
  <1>6. CASE EndTick(s)
    BY <1>6 DEF EndTick
  <1>7. CASE TakeStop(s)
    BY <1>7 DEF TakeStop, RequestStop
  <1>8. CASE Alarm(s)
    BY <1>8 DEF Alarm, RequestStop
  <1>9. CASE CloseDatabase(s) \/ RemoveRequest(s)
    BY <1>9 DEF CloseDatabase, RemoveRequest
  <1>10. CASE Unpin(s) \/ Exit(s)
    BY <1>10 DEF Unpin, Exit
  <1>11. CASE StartThrows(s)
    BY <1>11 DEF StartThrows
  <1>12. CASE Kill(s)
    BY <1>12 DEF Kill, Vanish, Dead
  <1>13. QED
    BY <1>1, <1>2, <1>3, <1>4, <1>5, <1>6, <1>7, <1>8, <1>9, <1>10, <1>11, <1>12
       DEF ServiceStep, Boot, Shutdown

\* What each look of an installed controller proves.
LEMMA LookMeans ==
    ASSUME Packaged, TypeOK, BasicInv, NEW c \in Controllers, target[c] \in Services,
           NEW look \in Looks(c)
    PROVE  /\ MayReplace(look.who) => target[c] \in foreign
           /\ MayForce(look.who) => target[c] \notin foreign
           /\ MayAsk(look, target[c]) => svc[target[c]] \notin Unsaid
  <1>1. PICK reading \in Readings, identified \in BOOLEAN :
            look = [who |-> Ownership(target[c], reading, identified), seen |-> reading]
    BY DEF Looks
  <1>2. Vouches(reading, target[c]) => svc[target[c]] \notin Unsaid
    <2>1. target[c] # None
      BY ServiceControlAssumption
    <2>2. CASE reading = status
      BY <2>1, <2>2 DEF Vouches, BasicInv
    <2>3. CASE reading = NoStatus
      BY <2>1, <2>3 DEF Vouches, NoStatus
    <2>4. QED
      BY <2>2, <2>3 DEF Readings
  <1>3. QED
    BY <1>1, <1>2 DEF MayReplace, MayForce, MayAsk, Ownership

LEMMA BasicService ==
    ASSUME TypeOK, BasicInv, NEW s \in Services, ServiceStep(s)
    PROVE  BasicInv'
  <1>1. Effect(s)
    BY ServiceEffect
  <1>2. TypeOK'
    BY TypeService
  <1>3. QED
    BY <1>1, <1>2, ServiceControlAssumption DEF BasicInv, Effect, TypeOK, Looking, Unheard, Unsaid, AtWork, Past

LEMMA BasicControl ==
    ASSUME Packaged, TypeOK, BasicInv, NEW c \in Controllers, Control(c)
    PROVE  BasicInv'
  <1> USE ServiceControlAssumption DEF TypeOK, BasicInv, Looking, Goto, Finish, fileVars, serviceVars, gapVars
  <1>1. ASSUME NEW k \in Commands, Begin(c, k) PROVE BasicInv'
    BY <1>1 DEF Begin, Working, AtWork
  <1>2. CASE ReadPid(c)
    BY <1>2 DEF ReadPid, WithoutService, Unheard, Unsaid
  <1>3. CASE FindStale(c)
    <2>1. svc[target[c]] = "dead"
      BY <1>3, LookMeans DEF FindStale, Alive, Dead, Unheard
    <2>2. QED
      BY <1>3, <2>1 DEF FindStale
  <1>4. CASE LeaveAlone(c)
    BY <1>4 DEF LeaveAlone
  <1>5. CASE AcceptStop(c)
    <2>1. svc[target[c]] \notin Unsaid
      BY <1>5, LookMeans DEF AcceptStop
    <2>2. QED
      BY <1>5, <2>1 DEF AcceptStop
  <1>6. CASE ClearPid(c) \/ ForgetPid(c) \/ Tidy(c)
    BY <1>6 DEF ClearPid, ForgetPid, Tidy, WithoutService
  <1>7. CASE ClearStopRequest(c) \/ WriteStopRequest(c) \/ StoppedGracefully(c) \/ WaitTooLong(c)
    BY <1>7 DEF ClearStopRequest, WriteStopRequest, StoppedGracefully, WaitTooLong
  <1>8. CASE SpawnService(c)
    BY <1>8, NewPidFresh DEF SpawnService, Advance, Unheard, Unsaid, AtWork, Past
  <1>9. CASE SpawnFails(c) \/ EndStart(c) \/ EndCommand(c)
    BY <1>9 DEF SpawnFails, EndStart, EndCommand
  <1>10. CASE RefuseForce(c)
    BY <1>10 DEF RefuseForce
  <1>11. CASE DecideForce(c)
    <2>1. target[c] \notin foreign
      BY <1>11, LookMeans DEF DecideForce
    <2>2. QED
      BY <1>11, <2>1 DEF DecideForce
  <1>12. CASE ForceTerminate(c)
    BY <1>12 DEF ForceTerminate, Vanish, Alive, Dead, Unheard, Unsaid, AtWork, Past
  <1>13. CASE StartAgain(c)
    BY <1>13 DEF StartAgain
  <1>14. QED
    BY <1>1, <1>2, <1>3, <1>4, <1>5, <1>6, <1>7, <1>8, <1>9, <1>10, <1>11, <1>12, <1>13 DEF Control

LEMMA BasicNext == Packaged /\ TypeOK /\ BasicInv /\ [Next]_vars => BasicInv'
  <1> SUFFICES ASSUME Packaged, TypeOK, BasicInv, [Next]_vars PROVE BasicInv'
    OBVIOUS
  <1>1. ASSUME NEW s \in Services, ReusePid(s) PROVE BasicInv'
    BY <1>1 DEF TypeOK, BasicInv, ReusePid, fileVars, serviceVars, controllerVars
  <1>2. CASE UNCHANGED vars
    BY <1>2 DEF BasicInv, vars, fileVars, serviceVars, controllerVars
  <1>3. QED
    BY <1>1, <1>2, BasicService, BasicControl DEF Next, ServiceStep

-----------------------------------------------------------------------------
\* Before a start launches a service, nothing that is recorded is in its way.
LEMMA PidService ==
    ASSUME TypeOK, BasicInv, PidInv, NEW s \in Services, ServiceStep(s)
    PROVE  PidInv'
  <1>1. Effect(s)
    BY ServiceEffect
  <1>2. UNCHANGED <<cmd, pc, target>> /\ \A t \in Services \ {s} : svc'[t] = svc[t]
    BY <1>1 DEF Effect
  <1>3. \A t \in Services : svc'[t] = "spawned" => svc[t] = "spawned" /\ t # s
    BY <1>1, <1>2 DEF Effect, Unheard
  <1>4. \A t \in Services : svc'[t] \in Recorded => pidFile' = t
    <2>1. CASE svc[s] = "spawned"
      BY <1>1, <1>2, <2>1 DEF PidInv, Effect, NoneRecorded, Recorded
    <2>2. CASE svc[s] # "spawned"
      BY <1>1, <1>2, <2>2 DEF PidInv, Effect
    <2>3. QED
      BY <2>1, <2>2
  <1>5. \A t \in Services : svc'[t] \in Recorded =>
           svc[t] \in Recorded \/ (t = s /\ svc[s] = "spawned")
    BY <1>1, <1>2 DEF Effect
  <1>6. \A c \in Controllers : Starting(c)' <=> Starting(c)
    BY <1>2 DEF Starting
  <1>7. \A t \in Services : svc'[t] = "spawned" => NoneRecorded'
    BY <1>3, <1>5 DEF PidInv, NoneRecorded
  <1>8. \A c \in Controllers : Starting(c) /\ pc[c] \in {"clear", "spawn"} => NoneRecorded'
    BY <1>5 DEF PidInv, NoneRecorded
  <1>9. \A c \in Controllers : Starting(c) =>
           \A t \in Services : svc'[t] \in Recorded => t = target[c]
    BY <1>5 DEF PidInv
  <1>10. QED
    BY <1>2, <1>3, <1>4, <1>6, <1>7, <1>8, <1>9 DEF PidInv

LEMMA PidControl ==
    ASSUME Packaged, TypeOK, BasicInv, PidInv, NEW c \in Controllers, Control(c), ~raced', ~clobbered'
    PROVE  PidInv'
  <1> USE ServiceControlAssumption DEF TypeOK, PidInv, Starting, NoneRecorded, Goto, Finish, fileVars,
          serviceVars, gapVars
  <1>1. ASSUME NEW k \in Commands, Begin(c, k) PROVE PidInv'
    BY <1>1 DEF Begin
  <1>2. CASE ReadPid(c)
    <2>1. CASE cmd[c] = "start"
      <3>1. (\A d \in Controllers : ~Starting(d)) /\ \A s \in Services : svc[s] # "spawned"
        BY <1>2, <2>1 DEF ReadPid, StartUnderWay
      <3>2. pidFile = None => NoneRecorded
        BY DEF Recorded
      <3>3. \A d \in Controllers : Starting(d)' => d = c
        BY <1>2, <3>1 DEF ReadPid
      <3>4. target'[c] = pidFile /\ (pc'[c] = "clear" => pidFile = None) /\ pc'[c] # "spawn"
        BY <1>2 DEF ReadPid, WithoutService
      <3>5. UNCHANGED <<svc, pidFile>>
        BY <1>2 DEF ReadPid
      <3>6. QED
        BY <3>1, <3>2, <3>3, <3>4, <3>5
    <2>2. CASE cmd[c] # "start"
      <3>1. \A d \in Controllers : Starting(d)' <=> Starting(d)
        BY <1>2, <2>2 DEF ReadPid
      <3>2. QED
        BY <1>2, <2>2, <3>1 DEF ReadPid
    <2>3. QED
      BY <2>1, <2>2
  <1>3. CASE FindStale(c)
    BY <1>3 DEF FindStale
  <1>4. CASE LeaveAlone(c)
    BY <1>4 DEF LeaveAlone
  <1>5. CASE AcceptStop(c)
    BY <1>5 DEF AcceptStop
  <1>6. CASE ClearPid(c) \/ ForgetPid(c)
    <2>1. svc[target[c]] = "dead" /\ target[c] \in Services /\ pidFile \in {None, target[c]}
      BY <1>6 DEF ClearPid, ForgetPid, Clobbers, BasicInv, Looking
    <2>2. NoneRecorded
      BY <2>1 DEF Recorded
    <2>3. CASE ClearPid(c)
      BY <2>2, <2>3 DEF ClearPid, WithoutService
    <2>4. CASE ForgetPid(c)
      BY <2>2, <2>4 DEF ForgetPid
    <2>5. QED
      BY <1>6, <2>3, <2>4
  <1>7. CASE ClearStopRequest(c) \/ WriteStopRequest(c) \/ StoppedGracefully(c) \/ WaitTooLong(c) \/ Tidy(c)
    BY <1>7 DEF ClearStopRequest, WriteStopRequest, StoppedGracefully, WaitTooLong, Tidy
  <1>8. CASE SpawnService(c)
    <2>1. cmd[c] = "start"
      BY <1>8 DEF SpawnService, BasicInv
    <2>2. /\ NewPid \in Services /\ svc[NewPid] = "unborn"
          /\ svc' = [svc EXCEPT ![NewPid] = "spawned"] /\ pc' = [pc EXCEPT ![c] = "wait"]
          /\ UNCHANGED <<cmd, target, pidFile>>
      BY <1>8, NewPidFresh DEF SpawnService, Advance
    <2>3. Starting(c) /\ NoneRecorded /\ \A s \in Services : svc[s] # "spawned"
      BY <1>8, <2>1 DEF SpawnService
    <2>4. \A d \in Controllers : ~Starting(d)'
      BY <2>1, <2>2, <2>3
    <2>5. NoneRecorded' /\ \A s \in Services : svc'[s] = "spawned" => s = NewPid
      BY <2>2, <2>3 DEF Recorded
    <2>6. QED
      BY <2>2, <2>4, <2>5
  <1>9. CASE SpawnFails(c) \/ EndStart(c) \/ EndCommand(c)
    BY <1>9 DEF SpawnFails, EndStart, EndCommand
  <1>10. CASE RefuseForce(c) \/ DecideForce(c)
    BY <1>10 DEF RefuseForce, DecideForce
  <1>11. CASE ForceTerminate(c)
    BY <1>11 DEF ForceTerminate, Vanish, Recorded
  <1>12. CASE StartAgain(c)
    BY <1>12 DEF StartAgain
  <1>13. QED
    BY <1>1, <1>2, <1>3, <1>4, <1>5, <1>6, <1>7, <1>8, <1>9, <1>10, <1>11, <1>12 DEF Control

LEMMA StopService ==
    ASSUME TypeOK, BasicInv, StopInv, NEW s \in Services, ServiceStep(s)
    PROVE  StopInv'
  <1>1. Effect(s)
    BY ServiceEffect
  <1>2. \A c \in Controllers : \A t \in before[c] : svc'[t] \in AtWork => svc[t] \in AtWork
    BY <1>1 DEF Effect, TypeOK, BasicInv, Past, AtWork
  <1>3. QED
    BY <1>1, <1>2 DEF StopInv, Effect

LEMMA StopControl ==
    ASSUME TypeOK, BasicInv, PidInv, StopInv, NEW c \in Controllers, Control(c)
    PROVE  StopInv'
  <1> USE ServiceControlAssumption DEF TypeOK, StopInv, Looking, Goto, Finish, fileVars,
          serviceVars, gapVars
  <1>1. ASSUME NEW k \in Commands, Begin(c, k) PROVE StopInv'
    BY <1>1 DEF Begin
  <1>2. CASE ReadPid(c)
    <2>1. \A s \in before[c] : svc[s] \in AtWork => s = pidFile
      BY DEF PidInv, AtWork, Recorded
    <2>2. QED
      BY <1>2, <2>1 DEF ReadPid, WithoutService
  <1>3. CASE FindStale(c) \/ AcceptStop(c)
    BY <1>3 DEF FindStale, AcceptStop
  <1>4. CASE LeaveAlone(c)
    BY <1>4 DEF LeaveAlone
  <1>5. CASE ClearPid(c) \/ ForgetPid(c) \/ Tidy(c)
    BY <1>5 DEF ClearPid, ForgetPid, Tidy, WithoutService, BasicInv, AtWork
  <1>6. CASE StoppedGracefully(c)
    BY <1>6 DEF StoppedGracefully, Alive, Dead, AtWork
  <1>7. CASE ClearStopRequest(c) \/ WriteStopRequest(c) \/ WaitTooLong(c)
    BY <1>7 DEF ClearStopRequest, WriteStopRequest, WaitTooLong
  <1>8. CASE SpawnService(c)
    BY <1>8, NewPidFresh DEF SpawnService, Advance, AtWork
  <1>9. CASE SpawnFails(c) \/ EndStart(c) \/ EndCommand(c)
    BY <1>9 DEF SpawnFails, EndStart, EndCommand
  <1>10. CASE RefuseForce(c) \/ DecideForce(c)
    BY <1>10 DEF RefuseForce, DecideForce
  <1>11. CASE ForceTerminate(c)
    BY <1>11 DEF ForceTerminate, Vanish, AtWork
  <1>12. CASE StartAgain(c)
    BY <1>12 DEF StartAgain
  <1>13. QED
    BY <1>1, <1>2, <1>3, <1>4, <1>5, <1>6, <1>7, <1>8, <1>9, <1>10, <1>11, <1>12 DEF Control

LEMMA RequestService ==
    ASSUME TypeOK, BasicInv, PidInv, RequestInv, NEW s \in Services, ServiceStep(s)
    PROVE  RequestInv'
  <1>1. Effect(s)
    BY ServiceEffect
  <1>2. SUFFICES ASSUME NEW c \in Controllers, NEW t \in Services, pc[c] = "await", t = target[c],
                        svc'[t] \in AtWork \cup {"starting"}, t \notin stopping'
                 PROVE  stopFile'
    BY <1>1, TypeService DEF RequestInv, BasicInv, Effect, Looking
  <1>3. svc[t] \in AtWork \cup {"starting"}
    BY <1>1, <1>2 DEF BasicInv, Effect, AtWork, Past, Unsaid
  <1>4. t \notin stopping /\ stopFile
    BY <1>1, <1>2, <1>3 DEF Effect, RequestInv, AtWork
  <1>5. svc[s] \notin {"recorded", "closed"}
    BY <1>3 DEF PidInv, Recorded, AtWork
  <1>6. QED
    BY <1>1, <1>4, <1>5 DEF Effect

LEMMA RequestControl ==
    ASSUME TypeOK, BasicInv, PidInv, RequestInv, NEW c \in Controllers, Control(c), ~clobbered'
    PROVE  RequestInv'
  <1> USE ServiceControlAssumption DEF TypeOK, RequestInv, Looking, Goto, Finish, fileVars,
          serviceVars, gapVars
  <1>1. ASSUME NEW k \in Commands, Begin(c, k) PROVE RequestInv'
    BY <1>1 DEF Begin
  <1>2. CASE ReadPid(c)
    BY <1>2 DEF ReadPid, WithoutService
  <1>3. CASE FindStale(c) \/ AcceptStop(c)
    BY <1>3 DEF FindStale, AcceptStop
  <1>4. CASE LeaveAlone(c)
    BY <1>4 DEF LeaveAlone
  <1>5. CASE ClearPid(c) \/ ForgetPid(c)
    BY <1>5 DEF ClearPid, ForgetPid, WithoutService
  <1>6. CASE ClearStopRequest(c)
    <2>1. NoneRecorded
      BY <1>6 DEF ClearStopRequest, BasicInv, PidInv, Starting
    <2>2. QED
      BY <1>6, <2>1 DEF ClearStopRequest, BasicInv, NoneRecorded, Recorded, AtWork
  <1>7. CASE Tidy(c)
    <2>1. svc[target[c]] = "dead" /\ pidFile \in {None, target[c]}
      BY <1>7 DEF Tidy, Clobbers, BasicInv
    <2>2. NoneRecorded
      BY <1>7, <2>1 DEF Tidy, PidInv, BasicInv, NoneRecorded, Recorded
    <2>3. QED
      BY <1>7, <2>2 DEF Tidy, BasicInv, NoneRecorded, Recorded, AtWork
  <1>8. CASE WriteStopRequest(c)
    BY <1>8 DEF WriteStopRequest
  <1>9. CASE StoppedGracefully(c) \/ WaitTooLong(c)
    BY <1>9 DEF StoppedGracefully, WaitTooLong
  <1>10. CASE SpawnService(c)
    BY <1>10, NewPidFresh DEF SpawnService, Advance, AtWork
  <1>11. CASE SpawnFails(c) \/ EndStart(c) \/ EndCommand(c)
    BY <1>11 DEF SpawnFails, EndStart, EndCommand
  <1>12. CASE RefuseForce(c) \/ DecideForce(c)
    BY <1>12 DEF RefuseForce, DecideForce
  <1>13. CASE ForceTerminate(c)
    <2>1. /\ \A s \in Services : svc'[s] = svc[s] \/ svc'[s] = "dead"
          /\ \A s \in Services : s \in stopping => s \in stopping' \/ svc'[s] = "dead"
          /\ UNCHANGED <<target, stopFile>>
          /\ \A d \in Controllers : pc'[d] = "await" => pc[d] = "await"
      BY <1>13 DEF ForceTerminate, Vanish
    <2>2. QED
      BY <2>1 DEF BasicInv, AtWork
  <1>14. CASE StartAgain(c)
    BY <1>14 DEF StartAgain
  <1>15. QED
    BY <1>1, <1>2, <1>3, <1>4, <1>5, <1>6, <1>7, <1>8, <1>9, <1>10, <1>11, <1>12, <1>13, <1>14
       DEF Control

\* A gap that has opened stays open.
LEMMA GapsStay == TypeOK /\ [Next]_vars /\ ~raced' /\ ~clobbered' => ~raced /\ ~clobbered
  <1> SUFFICES ASSUME TypeOK, [Next]_vars, ~raced', ~clobbered' PROVE ~raced /\ ~clobbered
    OBVIOUS
  <1>1. ASSUME NEW s \in Services, ServiceStep(s) PROVE ~raced /\ ~clobbered
    BY <1>1, ServiceEffect DEF Effect
  <1>2. ASSUME NEW c \in Controllers, Control(c) PROVE ~raced /\ ~clobbered
    <2>1. CASE ReadPid(c) \/ ClearPid(c) \/ ForgetPid(c) \/ Tidy(c) \/ ForceTerminate(c)
      BY <2>1 DEF TypeOK, ReadPid, ClearPid, ForgetPid, Tidy, ForceTerminate
    <2>2. CASE ~(ReadPid(c) \/ ClearPid(c) \/ ForgetPid(c) \/ Tidy(c) \/ ForceTerminate(c))
      <3>1. UNCHANGED gapVars
        BY <1>2, <2>2 DEF Control, Begin, FindStale, LeaveAlone, ClearStopRequest, SpawnService,
           SpawnFails, EndStart, AcceptStop, WriteStopRequest, StoppedGracefully, WaitTooLong,
           RefuseForce, DecideForce, EndCommand, StartAgain
      <3>2. QED
        BY <3>1 DEF gapVars
    <2>3. QED
      BY <2>1, <2>2
  <1>3. ASSUME NEW s \in Services, ReusePid(s) PROVE ~raced /\ ~clobbered
    BY <1>3 DEF ReusePid, gapVars
  <1>4. CASE UNCHANGED vars
    BY <1>4 DEF vars, gapVars
  <1>5. QED
    BY <1>1, <1>2, <1>3, <1>4 DEF Next, ServiceStep

LEMMA StrangerNext == TypeOK /\ BasicInv /\ ~strangerHit /\ [Next]_vars => ~strangerHit'
  <1> SUFFICES ASSUME TypeOK, BasicInv, ~strangerHit, [Next]_vars PROVE ~strangerHit'
    OBVIOUS
  <1>1. ASSUME NEW s \in Services, ServiceStep(s) PROVE ~strangerHit'
    BY <1>1, ServiceEffect DEF Effect
  <1>2. ASSUME NEW c \in Controllers, Control(c), ~ForceTerminate(c) PROVE ~strangerHit'
    BY <1>2 DEF Control, Begin, ReadPid, FindStale, LeaveAlone, ClearPid, ClearStopRequest,
       SpawnService, SpawnFails, EndStart, AcceptStop, WriteStopRequest, StoppedGracefully,
       WaitTooLong, RefuseForce, DecideForce, ForgetPid, Tidy, EndCommand, StartAgain, gapVars
  <1>3. ASSUME NEW c \in Controllers, ForceTerminate(c) PROVE ~strangerHit'
    BY <1>3 DEF ForceTerminate, Goto, BasicInv
  <1>4. ASSUME NEW s \in Services, ReusePid(s) PROVE ~strangerHit'
    BY <1>4 DEF ReusePid, gapVars
  <1>5. CASE UNCHANGED vars
    BY <1>5 DEF vars, gapVars
  <1>6. QED
    BY <1>1, <1>2, <1>3, <1>4, <1>5 DEF Next, ServiceStep

LEMMA GaplessNext ==
    ASSUME Packaged, TypeOK, BasicInv, PidInv, StopInv, RequestInv, [Next]_vars, ~raced', ~clobbered'
    PROVE  PidInv' /\ StopInv' /\ RequestInv'
  <1>1. ASSUME NEW s \in Services, ServiceStep(s) PROVE PidInv' /\ StopInv' /\ RequestInv'
    BY <1>1, PidService, StopService, RequestService
  <1>2. ASSUME NEW c \in Controllers, Control(c) PROVE PidInv' /\ StopInv' /\ RequestInv'
    BY <1>2, PidControl, StopControl, RequestControl
  <1>3. ASSUME NEW s \in Services, ReusePid(s) PROVE PidInv' /\ StopInv' /\ RequestInv'
    BY <1>3 DEF ReusePid, fileVars, serviceVars, controllerVars, PidInv, StopInv, RequestInv,
       NoneRecorded, Starting
  <1>4. CASE UNCHANGED vars
    BY <1>4 DEF vars, fileVars, serviceVars, controllerVars, PidInv, StopInv, RequestInv,
       NoneRecorded, Starting
  <1>5. QED
    BY <1>1, <1>2, <1>3, <1>4 DEF Next, ServiceStep

LEMMA InductiveInvariant ==
    ASSUME Packaged
    PROVE  Spec => []IInv
  <1>1. IInv /\ [Next]_vars => IInv'
    BY TypeNext, BasicNext, GapsStay, GaplessNext, StrangerNext DEF IInv
  <1>2. QED
    BY InitIInv, <1>1, PTL DEF Spec

-----------------------------------------------------------------------------
(* Theorems about ServiceControl *)

\* Every state of the service and its controllers is of its type, installed or not.
THEOREM TypeCorrect == Spec => []TypeOK
  <1>1. Init => TypeOK
    BY InitIInv DEF IInv
  <1>2. QED
    BY <1>1, TypeNext, PTL DEF Spec

\* An installed service that works on the database is named by tracker.pid, and hence
\* works alone, until two starts race or a newer service's files are removed.
THEOREM WorkingIsRecorded ==
    ASSUME Packaged
    PROVE  Spec => []WorkingServiceRecorded /\ []AtMostOneService
  <1>1. IInv => WorkingServiceRecorded /\ AtMostOneService
    BY DEF IInv, PidInv, WorkingServiceRecorded, AtMostOneService, Working, AtWork, Recorded
  <1>2. QED
    BY InductiveInvariant, <1>1, PTL

\* A stop of an installed service that reports success has ended the service it found.
THEOREM StopIsStopped ==
    ASSUME Packaged
    PROVE  Spec => []StopMeansStopped
  <1>1. IInv => StopMeansStopped
    BY DEF IInv, StopInv, StopMeansStopped, Working
  <1>2. QED
    BY InductiveInvariant, <1>1, PTL

\* No file operation of a start, a shutdown or another stop swallows a stop request.
THEOREM RequestsKept ==
    ASSUME Packaged
    PROVE  Spec => []RequestNotLost
  <1>1. IInv => RequestNotLost
    BY DEF IInv, RequestInv, RequestNotLost
  <1>2. QED
    BY InductiveInvariant, <1>1, PTL

\* The second look before taskkill keeps it from a program that was given the pid.
THEOREM StrangersSafe ==
    ASSUME Packaged
    PROVE  Spec => []StrangersUnharmed
  <1>1. IInv => StrangersUnharmed
    BY DEF IInv, StrangersUnharmed
  <1>2. QED
    BY InductiveInvariant, <1>1, PTL

-----------------------------------------------------------------------------
(* RollbackLock *)

Publishing == {"publish", "rename"}

\* The directory belongs to its holder, or to the only process initializing it.
HolderInv ==
    /\ \A p \in Procs : stage[p] \in {"held", "release"} => present /\ owner = p
    /\ \A p \in Procs : stage[p] \in Publishing => present /\ owner = Nobody /\ ~old
    /\ \A p, q \in Procs : stage[p] \in Publishing /\ stage[q] \in Publishing => p = q

\* What a process saw of the present directory is still so, and what it may
\* remove is ownerless and old, the handoff meant for it, or a dead process's.
LookInv ==
    \A p \in Procs : p \in current =>
        /\ stage[p] \in {"judge", "remove"}
        /\ present /\ seen[p] = owner
        /\ stage[p] = "remove" /\ owner = Nobody => old
        /\ stage[p] = "remove" /\ owner # Nobody => MayAdopt(p) \/ ~Running(owner)

\* The owner has run, the loop starts with its first round, and the service has
\* let go before its child runs.
OrderInv ==
    /\ \A p \in Procs : stage[p] = "idle" => attempt[p] = 1
    /\ owner # Nobody => stage[owner] # "idle"
    /\ stage[Child] # "idle" => stage[Service] \in {"leaving", "done", "killed"}

LockInv == overtaken \/ slow \/ (HolderInv /\ LookInv)

\* A process that has met nobody: the directory is its own, or free to take.
Undisturbed(p) ==
    /\ stage[p] \notin {"idle", "refused"}
    /\ \A q \in Procs \ {p} : stage[q] \in Ended
    /\ stage[p] \in {"mkdir", "read", "judge", "remove"} =>
          /\ owner # p
          /\ present /\ owner = Nobody => old
          /\ attempt[p] = 1 \/ ~present
    /\ stage[p] \in {"read", "judge", "remove"} => present
    /\ stage[p] = "judge" => seen[p] = owner
    /\ stage[p] \in Publishing => present
    /\ stage[p] = "rename" => p \in temps

AloneInv == \A p \in alone : Undisturbed(p)

LockIInv == LockTypeOK /\ OrderInv /\ LockInv /\ AloneInv

-----------------------------------------------------------------------------
LEMMA InitLockIInv == LockInit => LockIInv
  <1> SUFFICES ASSUME LockInit PROVE LockIInv
    OBVIOUS
  <1>1. LockTypeOK
    <2>1. attempt \in [Procs -> 1..Attempts] /\ failures \in 0..MaxFailures
      BY RollbackLockAssumption DEF LockInit
    <2>2. QED
      BY <2>1 DEF LockInit, LockTypeOK, Stages, Ended
  <1>2. OrderInv
    BY DEF LockInit, OrderInv, Procs
  <1>3. HolderInv /\ LookInv /\ AloneInv
    BY DEF LockInit, HolderInv, LookInv, AloneInv, Publishing
  <1>4. QED
    BY <1>1, <1>2, <1>3 DEF LockIInv, LockInv

LEMMA LockTypeNext == LockTypeOK /\ [LockNext]_lockVars => LockTypeOK'
  <1> SUFFICES ASSUME LockTypeOK, [LockNext]_lockVars PROVE LockTypeOK'
    OBVIOUS
  <1> USE DEF LockTypeOK, Stages, Ended
  <1>0. Nobody \notin Procs /\ Service \in Procs /\ Child \in Procs /\ Attempts \in Nat /\ MaxFailures \in Nat
    BY RollbackLockAssumption DEF Procs
  <1>1. ASSUME NEW p \in Procs, BeginRollback(p) \/ HandOver \/ Leave PROVE LockTypeOK'
    <2>1. alone' \subseteq Procs
      BY <1>0, <1>1 DEF BeginRollback, HandOver, Leave, Enters, historyVars
    <2>2. stage' \in [Procs -> Stages]
      BY <1>0, <1>1 DEF BeginRollback, HandOver, Leave
    <2>3. QED
      BY <1>0, <1>1, <2>1, <2>2 DEF BeginRollback, HandOver, Leave, dirVars, historyVars
  <1>2. ASSUME NEW p \in Procs, MakeDirectory(p) \/ DirectoryExists(p) PROVE LockTypeOK'
    BY <1>0, <1>2 DEF MakeDirectory, DirectoryExists, dirVars, historyVars
  <1>3. ASSUME NEW p \in Procs, WriteOwner(p) \/ Publish(p) \/ PublishLost(p) PROVE LockTypeOK'
    <2>1. CASE WriteOwner(p)
      BY <1>0, <2>1 DEF WriteOwner, historyVars
    <2>2. CASE Publish(p)
      BY <1>0, <2>2 DEF Publish
    <2>3. CASE PublishLost(p)
      BY <1>0, <2>3 DEF PublishLost, dirVars, historyVars
    <2>4. QED
      BY <1>3, <2>1, <2>2, <2>3
  <1>4. ASSUME NEW p \in Procs, ReadOwner(p) PROVE LockTypeOK'
    BY <1>0, <1>4 DEF ReadOwner, dirVars
  <1>5. ASSUME NEW p \in Procs, Refuse(p) \/ Reclaim(p) PROVE LockTypeOK'
    BY <1>0, <1>5 DEF Refuse, Reclaim, dirVars
  <1>6. ASSUME NEW p \in Procs, Remove(p) PROVE LockTypeOK'
    <2>1. attempt' \in [Procs -> 1..Attempts]
      BY <1>0, <1>6 DEF Remove
    <2>2. stage' \in [Procs -> Stages]
      BY <1>0, <1>6 DEF Remove
    <2>3. QED
      BY <1>0, <1>6, <2>1, <2>2 DEF Remove, RemoveDirectory
  <1>7. ASSUME NEW p \in Procs, Release(p) \/ ReleaseRemove(p) PROVE LockTypeOK'
    <2>1. CASE Release(p)
      <3>1. stage' \in [Procs -> Stages]
        BY <1>0, <2>1 DEF Release
      <3>2. QED
        BY <1>0, <2>1, <3>1 DEF Release, dirVars, historyVars
    <2>2. CASE ReleaseRemove(p)
      BY <1>0, <2>2 DEF ReleaseRemove, RemoveDirectory
    <2>3. QED
      BY <1>7, <2>1, <2>2
  <1>8. CASE GraceEnds
    BY <1>0, <1>8 DEF GraceEnds
  <1>9. ASSUME NEW p \in Procs, KillRollback(p) \/ FileError(p) PROVE LockTypeOK'
    BY <1>0, <1>9 DEF KillRollback, FileError, dirVars
  <1>10. CASE UNCHANGED lockVars
    BY <1>10 DEF lockVars, dirVars, historyVars
  <1>11. QED
    BY <1>0, <1>1, <1>2, <1>3, <1>4, <1>5, <1>6, <1>7, <1>8, <1>9, <1>10 DEF LockNext, Acquire

LEMMA OrderNext == LockIInv /\ [LockNext]_lockVars => OrderInv'
  <1> SUFFICES ASSUME LockIInv, [LockNext]_lockVars PROVE OrderInv'
    OBVIOUS
  <1>0. LockTypeOK /\ OrderInv /\ Service \in Procs /\ Child \in Procs /\ Service # Child /\ Nobody \notin Procs
    BY RollbackLockAssumption DEF LockIInv, Procs
  <1> USE DEF OrderInv, LockTypeOK
  <1>1. ASSUME NEW p \in Procs, BeginRollback(p) \/ DirectoryExists(p) \/ WriteOwner(p) \/ PublishLost(p)
        PROVE OrderInv'
    BY <1>0, <1>1 DEF BeginRollback, DirectoryExists, WriteOwner, PublishLost, dirVars
  <1>2. ASSUME NEW p \in Procs, MakeDirectory(p) \/ Remove(p) \/ ReleaseRemove(p) PROVE OrderInv'
    BY <1>0, <1>2 DEF MakeDirectory, Remove, ReleaseRemove, RemoveDirectory
  <1>3. ASSUME NEW p \in Procs, Publish(p) PROVE OrderInv'
    BY <1>0, <1>3 DEF Publish
  <1>4. ASSUME NEW p \in Procs, ReadOwner(p) \/ Refuse(p) \/ Reclaim(p) PROVE OrderInv'
    BY <1>0, <1>4 DEF ReadOwner, Refuse, Reclaim, dirVars
  <1>5. ASSUME NEW p \in Procs, Release(p) PROVE OrderInv'
    BY <1>0, <1>5 DEF Release, dirVars
  <1>6. CASE HandOver \/ Leave
    BY <1>0, <1>6 DEF HandOver, Leave, dirVars
  <1>7. ASSUME NEW p \in Procs, KillRollback(p) \/ FileError(p) PROVE OrderInv'
    BY <1>0, <1>7 DEF KillRollback, FileError, Running, Ended, dirVars
  <1>8. CASE GraceEnds \/ UNCHANGED lockVars
    BY <1>0, <1>8 DEF GraceEnds, lockVars, dirVars
  <1>9. QED
    BY <1>0, <1>1, <1>2, <1>3, <1>4, <1>5, <1>6, <1>7, <1>8 DEF LockNext, Acquire

\* Nobody who is not alive is holding, publishing or looking.
LEMMA LockInvNext == LockIInv /\ [LockNext]_lockVars => LockInv'
  <1> SUFFICES ASSUME LockIInv, [LockNext]_lockVars, ~overtaken', ~slow' PROVE HolderInv' /\ LookInv'
    BY DEF LockInv
  <1>0. /\ LockTypeOK /\ OrderInv /\ Nobody \notin Procs
        /\ Service \in Procs /\ Child \in Procs /\ Service # Child
    BY RollbackLockAssumption DEF LockIInv, Procs
  <1>1. ~overtaken /\ ~slow
    <2>1. CASE \E p \in Procs : Remove(p) \/ ReleaseRemove(p)
      BY <1>0, <2>1 DEF Remove, ReleaseRemove, LockTypeOK
    <2>2. CASE GraceEnds
      BY <2>2 DEF GraceEnds
    <2>3. CASE ~GraceEnds /\ ~ \E p \in Procs : Remove(p) \/ ReleaseRemove(p)
      <3>1. UNCHANGED <<overtaken, slow>>
        BY <2>3 DEF LockNext, Acquire, BeginRollback, MakeDirectory, DirectoryExists, WriteOwner, Publish,
           PublishLost, ReadOwner, Refuse, Reclaim, Release, HandOver, Leave, KillRollback, FileError, lockVars,
           historyVars
      <3>2. QED
        BY <3>1
    <2>4. QED
      BY <2>1, <2>2, <2>3
  <1>2. HolderInv /\ LookInv
    BY <1>1 DEF LockIInv, LockInv
  <1> USE DEF HolderInv, LookInv, Publishing, MayAdopt
  <1>3. ASSUME NEW p \in Procs, BeginRollback(p) \/ DirectoryExists(p) PROVE HolderInv' /\ LookInv'
    BY <1>0, <1>2, <1>3 DEF LockTypeOK, OrderInv, BeginRollback, DirectoryExists, Running, Ended, dirVars, historyVars
  <1>4. ASSUME NEW p \in Procs, MakeDirectory(p) PROVE HolderInv' /\ LookInv'
    BY <1>0, <1>2, <1>4 DEF LockTypeOK, MakeDirectory, historyVars
  <1>5. ASSUME NEW p \in Procs, WriteOwner(p) PROVE HolderInv' /\ LookInv'
    BY <1>0, <1>2, <1>5 DEF LockTypeOK, WriteOwner, historyVars
  <1>6. ASSUME NEW p \in Procs, Publish(p) PROVE HolderInv' /\ LookInv'
    BY <1>0, <1>2, <1>6 DEF LockTypeOK, Publish
  <1>7. ASSUME NEW p \in Procs, PublishLost(p) PROVE HolderInv' /\ LookInv'
    BY <1>0, <1>2, <1>7 DEF LockTypeOK, PublishLost, Running, Ended, dirVars, historyVars
  <1>8. ASSUME NEW p \in Procs, ReadOwner(p) PROVE HolderInv' /\ LookInv'
    <2>1. HolderInv'
      BY <1>0, <1>2, <1>8 DEF LockTypeOK, ReadOwner, dirVars
    <2>2. LookInv'
      BY <1>0, <1>2, <1>8 DEF LockTypeOK, ReadOwner, Running, Ended, dirVars
    <2>3. QED
      BY <2>1, <2>2
  <1>9. ASSUME NEW p \in Procs, Refuse(p) PROVE HolderInv' /\ LookInv'
    BY <1>0, <1>2, <1>9 DEF LockTypeOK, Refuse, Running, Ended, dirVars
  <1>10. ASSUME NEW p \in Procs, Reclaim(p) PROVE HolderInv' /\ LookInv'
    <2>1. HolderInv'
      BY <1>0, <1>2, <1>10 DEF LockTypeOK, Reclaim, dirVars
    <2>2. \A q \in Procs : stage[q] \in Ended <=> stage'[q] \in Ended
      BY <1>0, <1>10 DEF LockTypeOK, Reclaim, Ended
    <2>3. LookInv'
      BY <1>0, <1>2, <1>10, <2>2 DEF LockTypeOK, Reclaim, Recoverable, Running, dirVars
    <2>4. QED
      BY <2>1, <2>3
  <1>11. ASSUME NEW p \in Procs, Remove(p) PROVE HolderInv' /\ LookInv'
    <2>1. \A q \in Procs : stage[q] \notin {"held", "release"} \cup Publishing
      <3>1. CASE ~present
        BY <1>2, <3>1
      <3>2. CASE present
        <4>1. p \in current /\ stage[p] = "remove"
          BY <1>11, <3>2 DEF Remove
        <4>2. CASE owner = Nobody
          BY <1>0, <1>2, <4>1, <4>2
        <4>3. CASE owner # Nobody /\ ~Running(owner)
          BY <1>0, <1>2, <4>3 DEF Running, Ended
        <4>4. CASE owner # Nobody /\ MayAdopt(p)
          <5>1. owner = Service /\ stage[Child] # "idle"
            BY <1>2, <4>1, <4>4
          <5>2. stage[Service] \in {"leaving", "done", "killed"}
            BY <1>0, <5>1 DEF OrderInv
          <5>3. QED
            BY <1>2, <4>4, <5>1, <5>2
        <4>5. QED
          BY <1>2, <4>1, <4>2, <4>3, <4>4
      <3>3. QED
        BY <3>1, <3>2 DEF LockTypeOK
    <2>2. \A q \in Procs : stage'[q] \notin {"held", "release"} \cup Publishing
      BY <1>0, <1>11, <2>1 DEF LockTypeOK, Remove
    <2>3. current' = {}
      BY <1>11 DEF Remove
    <2>4. QED
      BY <2>2, <2>3
  <1>12. ASSUME NEW p \in Procs, Release(p) PROVE HolderInv' /\ LookInv'
    BY <1>0, <1>2, <1>12 DEF LockTypeOK, Release, Running, Ended, dirVars, historyVars
  <1>13. ASSUME NEW p \in Procs, ReleaseRemove(p) PROVE HolderInv' /\ LookInv'
    BY <1>0, <1>2, <1>13 DEF LockTypeOK, ReleaseRemove
  <1>14. CASE HandOver
    BY <1>0, <1>2, <1>14 DEF LockTypeOK, OrderInv, HandOver, Running, Ended, dirVars
  <1>15. CASE Leave
    BY <1>0, <1>2, <1>15 DEF LockTypeOK, Leave, Running, Ended, dirVars, historyVars
  <1>16. CASE GraceEnds
    BY <1>0, <1>2, <1>16 DEF GraceEnds, Running
  <1>17. ASSUME NEW p \in Procs, KillRollback(p) \/ FileError(p) PROVE HolderInv' /\ LookInv'
    BY <1>0, <1>2, <1>17 DEF LockTypeOK, KillRollback, FileError, Running, Ended, dirVars
  <1>18. CASE UNCHANGED lockVars
    BY <1>2, <1>18 DEF lockVars, dirVars, historyVars, Running
  <1>19. QED
    BY <1>3, <1>4, <1>5, <1>6, <1>7, <1>8, <1>9, <1>10, <1>11, <1>12, <1>13, <1>14, <1>15,
       <1>16, <1>17, <1>18 DEF LockNext, Acquire

\* A process that is alone is the only one that moves.
LEMMA AloneMoves ==
    ASSUME AloneInv, NEW p \in alone, NEW q \in Procs, stage[q] \notin Ended
    PROVE  p = q
  BY DEF AloneInv, Undisturbed

LEMMA AloneNext == LockIInv /\ [LockNext]_lockVars => AloneInv'
  <1> SUFFICES ASSUME LockIInv, [LockNext]_lockVars, NEW p \in alone' PROVE Undisturbed(p)'
    BY DEF AloneInv
  <1>0. /\ LockTypeOK /\ OrderInv /\ AloneInv /\ Nobody \notin Procs /\ Attempts > 1 /\ Attempts \in Nat
        /\ Service \in Procs /\ Child \in Procs /\ Service # Child
    BY RollbackLockAssumption DEF LockIInv, Procs
  <1> USE DEF Publishing, Undisturbed
  <1>1. ASSUME NEW q \in Procs, BeginRollback(q) PROVE Undisturbed(p)'
    <2>1. p = q /\ stage[p] = "idle" /\ (\A r \in Procs \ {q} : stage[r] \in Ended)
          /\ (present /\ owner = Nobody => old)
      BY <1>1 DEF BeginRollback, Enters, Running
    <2>2. stage' = [stage EXCEPT ![p] = "mkdir"] /\ UNCHANGED <<dirVars, attempt>>
      BY <1>1, <2>1 DEF BeginRollback
    <2>3. owner # p /\ attempt[p] = 1
      BY <1>0, <2>1 DEF OrderInv
    <2>4. QED
      BY <1>0, <2>1, <2>2, <2>3 DEF LockTypeOK, dirVars
  <1>2. CASE HandOver
    BY <1>0, <1>2 DEF HandOver, Enters, Running, Ended
  <1>3. CASE Leave
    BY <1>0, <1>3, AloneMoves DEF Leave, historyVars, dirVars, LockTypeOK, AloneInv, Ended
  <1>4. CASE GraceEnds
    BY <1>0, <1>4 DEF GraceEnds, AloneInv
  <1>5. ASSUME NEW q \in Procs, MakeDirectory(q) \/ DirectoryExists(q) PROVE Undisturbed(p)'
    <2>1. p \in alone /\ p = q
      BY <1>0, <1>5, AloneMoves DEF MakeDirectory, DirectoryExists, historyVars, Ended
    <2>2. QED
      BY <1>0, <1>5, <2>1 DEF MakeDirectory, DirectoryExists, dirVars, LockTypeOK, AloneInv
  <1>6. ASSUME NEW q \in Procs, WriteOwner(q) \/ Publish(q) PROVE Undisturbed(p)'
    <2>1. p \in alone /\ p = q
      BY <1>0, <1>6, AloneMoves DEF WriteOwner, Publish, historyVars, Ended
    <2>2. QED
      BY <1>0, <1>6, <2>1 DEF WriteOwner, Publish, LockTypeOK, AloneInv
  <1>7. ASSUME NEW q \in Procs, PublishLost(q) PROVE Undisturbed(p)'
    <2>1. p \in alone /\ p = q
      BY <1>0, <1>7, AloneMoves DEF PublishLost, historyVars, Ended
    <2>2. QED
      BY <1>0, <1>7, <2>1 DEF PublishLost, AloneInv
  <1>8. ASSUME NEW q \in Procs, ReadOwner(q) PROVE Undisturbed(p)'
    <2>1. p \in alone /\ p = q
      BY <1>0, <1>8, AloneMoves DEF ReadOwner, Ended
    <2>2. QED
      BY <1>0, <1>8, <2>1 DEF ReadOwner, dirVars, LockTypeOK, AloneInv
  <1>9. ASSUME NEW q \in Procs, Refuse(q) PROVE Undisturbed(p)'
    <2>1. p \in alone /\ p = q
      BY <1>0, <1>9, AloneMoves DEF Refuse, Ended
    <2>2. Recoverable(p)
      <3>1. seen[p] = owner /\ present /\ owner # p /\ (owner = Nobody => old)
        BY <1>0, <1>9, <2>1 DEF Refuse, AloneInv
      <3>2. owner # Nobody => ~Running(owner)
        BY <1>0, <2>1, <3>1 DEF AloneInv, LockTypeOK, Running
      <3>3. QED
        BY <3>1, <3>2 DEF Recoverable
    <2>3. QED
      BY <1>9, <2>1, <2>2 DEF Refuse
  <1>10. ASSUME NEW q \in Procs, Reclaim(q) PROVE Undisturbed(p)'
    <2>1. p \in alone /\ p = q
      BY <1>0, <1>10, AloneMoves DEF Reclaim, Ended
    <2>2. QED
      BY <1>0, <1>10, <2>1 DEF Reclaim, dirVars, LockTypeOK, AloneInv
  <1>11. ASSUME NEW q \in Procs, Remove(q) PROVE Undisturbed(p)'
    <2>1. p \in alone /\ p = q
      BY <1>0, <1>11, AloneMoves DEF Remove, Ended
    <2>2. attempt[p] = 1 /\ present
      BY <1>0, <1>11, <2>1 DEF Remove, AloneInv
    <2>3. stage' = [stage EXCEPT ![p] = "mkdir"]
      BY <1>0, <1>11, <2>1, <2>2 DEF Remove
    <2>4. QED
      BY <1>0, <1>11, <2>1, <2>3 DEF Remove, RemoveDirectory, LockTypeOK, AloneInv
  <1>12. ASSUME NEW q \in Procs, Release(q) \/ ReleaseRemove(q) PROVE Undisturbed(p)'
    <2>1. p \in alone /\ p = q
      BY <1>0, <1>12, AloneMoves DEF Release, ReleaseRemove, historyVars, Ended
    <2>2. stage'[p] \in {"release", "done"} /\ \A r \in Procs \ {p} : stage'[r] = stage[r]
      BY <1>0, <1>12, <2>1 DEF Release, ReleaseRemove, LockTypeOK
    <2>3. QED
      BY <1>0, <2>1, <2>2 DEF AloneInv
  <1>13. ASSUME NEW q \in Procs, KillRollback(q) PROVE Undisturbed(p)'
    <2>1. p \in alone /\ p = q
      BY <1>0, <1>13, AloneMoves DEF KillRollback, Running
    <2>2. QED
      BY <1>0, <1>13, <2>1 DEF KillRollback, LockTypeOK, AloneInv
  <1>14. ASSUME NEW q \in Procs, FileError(q) PROVE Undisturbed(p)'
    <2>1. p \in alone /\ p # q
      BY <1>14 DEF FileError
    <2>2. QED
      BY <1>0, <1>14, <2>1, AloneMoves DEF FileError, Ended
  <1>15. CASE UNCHANGED lockVars
    BY <1>0, <1>15 DEF lockVars, dirVars, historyVars, AloneInv
  <1>16. QED
    BY <1>1, <1>2, <1>3, <1>4, <1>5, <1>6, <1>7, <1>8, <1>9, <1>10, <1>11, <1>12, <1>13, <1>14,
       <1>15 DEF LockNext, Acquire

LEMMA LockInductiveInvariant == LockSpec => []LockIInv
  <1>1. LockIInv /\ [LockNext]_lockVars => LockIInv'
    BY LockTypeNext, OrderNext, LockInvNext, AloneNext DEF LockIInv
  <1>2. QED
    BY InitLockIInv, <1>1, PTL DEF LockSpec

-----------------------------------------------------------------------------
(* Theorems about RollbackLock *)

\* Every reachable state of the lock directory and of the processes at it is well
\* typed; without the directory there is no owner, no temporary file and no age.
THEOREM LockTypeCorrect == LockSpec => []LockTypeOK
  <1>1. LockIInv => LockTypeOK
    BY DEF LockIInv
  <1>2. QED
    BY LockInductiveInvariant, <1>1, PTL

\* Whoever holds rollback.lock is the process its owner.json names, whatever is
\* killed, adopted or released, until one of the two gaps of acquireRollbackLock
\* (a removal of a directory not looked at, a suspension beyond the grace period).
THEOREM HolderIsOwner == LockSpec => []HolderOwnsLock
  <1>1. LockIInv => HolderOwnsLock
    BY DEF LockIInv, LockInv, HolderInv, HolderOwnsLock, Holders
  <1>2. QED
    BY LockInductiveInvariant, <1>1, PTL

\* Two rollbacks run at a time in no other way than the one SingleFlight fails by:
\* a process removed a directory it had not looked at.  Without that, and with no
\* process suspended for the grace period, at most one holds the lock and restores.
THEOREM SingleFlightButForRemovals == LockSpec => [](SingleFlight \/ overtaken)
  <1>1. HolderOwnsLock => SingleFlight \/ overtaken
    <2> SUFFICES ASSUME HolderOwnsLock, ~overtaken, ~slow
                 PROVE  Cardinality(Restoring) <= 1
      BY DEF SingleFlight
    <2>1. Restoring \in SUBSET {owner}
      BY DEF HolderOwnsLock, Holders, Restoring
    <2>2. IsFiniteSet({owner}) /\ Cardinality({owner}) = 1
      BY FS_Singleton
    <2>3. Cardinality(Restoring) <= Cardinality({owner})
      BY <2>1, <2>2, FS_Subset
    <2>4. QED
      BY <2>2, <2>3
  <1>2. QED
    BY HolderIsOwner, <1>1, PTL

\* acquireRollbackLock never turns a rollback away that runs alone: what a killed
\* process left in the directory is cleared within the rounds of its loop.
THEOREM LoneRollbackProceeds == LockSpec => []RefusedOnlyIfContended
  <1>1. LockIInv => RefusedOnlyIfContended
    BY DEF LockIInv, AloneInv, Undisturbed, RefusedOnlyIfContended
  <1>2. QED
    BY LockInductiveInvariant, <1>1, PTL

\* While the service that accepted a handoff lives, its lock stays its own, until
\* one of the two gaps.
THEOREM HandoffStays == LockSpec => HandoffKept
  <1>1. LockIInv' => [stage[Service] = "held" /\ stage'[Service] = "held" /\ owner = Service
                    => owner' = Service \/ overtaken' \/ slow']_lockVars
    BY DEF LockIInv, LockInv, HolderInv, Procs
  <1>2. QED
    BY LockInductiveInvariant, <1>1, PTL DEF HandoffKept
=============================================================================

------------------------------ MODULE Update_proofs ------------------------------
(***************************************************************************)
(* Proofs about Update, for any set of versions and manifests and any       *)
(* number of changes of the channel, updates, rollbacks and faults.         *)
(***************************************************************************)
EXTENDS Update, TLAPS

\* What an updater is about, and what it has downloaded, was confirmed.
ConfirmedInv ==
    /\ \A u \in Updaters : upd[u].phase # "idle" => upd[u].release \in confirmed
    /\ \A v \in Versions : files[v] # None => files[v] \in confirmed
    /\ ConfirmedOnly

IInv == TypeOK /\ ConfirmedInv

-----------------------------------------------------------------------------
Bounds ==
    /\ publishes \in 0..MaxPublishes /\ updates \in 0..MaxUpdates
    /\ rollbacks \in 0..MaxRollbacks /\ faults \in 0..MaxFaults

LEMMA Values ==
    /\ Versions \subseteq Nat /\ 0 \notin Versions /\ 1 \in Versions /\ First \in Releases
    /\ None \notin Releases /\ \A r \in Releases : r.version \in Versions
    /\ MaxPublishes \in Nat /\ MaxUpdates \in Nat /\ MaxRollbacks \in Nat /\ MaxFaults \in Nat
  BY UpdateAssumption DEF Releases, First, None

LEMMA InitIInv == Init => IInv
  <1> SUFFICES ASSUME Init PROVE IInv
    OBVIOUS
  <1>1. Bounds
    BY Values DEF Init, Bounds
  <1>2. upd \in [Updaters -> [phase : Phases, by : Versions \cup {0}, release : Releases \cup {None}]]
        /\ upd.cli.phase = "idle" /\ \A u \in Updaters : upd[u].phase = "idle"
    BY DEF Init, NoUpdate, Phases, Updaters
  <1>3. TypeOK
    BY <1>1, <1>2, Values DEF Init, TypeOK, Bounds, NoRecord, NoHealth, NoRunner, Records, RollbackSteps
  <1>4. ConfirmedInv
    BY <1>2 DEF Init, ConfirmedInv, ConfirmedOnly
  <1>5. QED
    BY <1>3, <1>4 DEF IInv

\* Bounded counters stay within their bounds.
LEMMA BoundsNext == Bounds /\ [Next]_vars => Bounds'
  <1> SUFFICES ASSUME Bounds, [Next]_vars PROVE Bounds'
    OBVIOUS
  <1> USE Values DEF Bounds, boundVars
  <1>1. CASE Publish \/ Check \/ Resume \/ VerifyTimeout \/ StartService \/ BreakStart \/ StopService \/ Restart
    BY <1>1 DEF Publish, Check, Resume, VerifyTimeout, StartService, BreakStart, StopService, Restart
  <1>2. ASSUME NEW choice, Defer(choice) \/ Apply(choice) \/ RunCli(choice) PROVE Bounds'
    BY <1>2 DEF Defer, Apply, RunCli, Begin
  <1>3. ASSUME NEW u, UpdateStep(u) PROVE Bounds'
    BY <1>3 DEF UpdateStep, OwnStep, CheckConfirmation, Download, GiveUp, WriteRecord, WriteMarker,
                Launch, FinishInstall, FailInstall, KillUpdater
  <1>4. CASE Rollback
    BY <1>4 DEF Rollback, AcceptRollback, GoOnAccepting, FailAcceptance, HandOff, RunRollback,
                BeginRollback, ReadRecord, RestoreData, RemovePointer, SwitchProgram, RemoveMarker,
                StartPrevious, FinishRollback, FailRollback, KillRunner, ExpireLease
  <1>5. CASE UNCHANGED vars
    BY <1>5 DEF vars
  <1>6. QED
    BY <1>1, <1>2, <1>3, <1>4, <1>5 DEF Next

-----------------------------------------------------------------------------
(* TypeOK without the bounds, by what the variables are about. *)

UpdType ==
    /\ upd \in [Updaters -> [phase : Phases, by : Versions \cup {0}, release : Releases \cup {None}]]
    /\ upd.cli.phase # "verifying"
    /\ files \in [Versions -> Releases \cup {None}]
    /\ installer \in [Updaters -> Releases \cup {None}]
    /\ restart \in BOOLEAN

ProgramType ==
    /\ running \in Versions \cup {0} /\ current \in Versions \cup {0}
    /\ installed \subseteq Versions /\ schema \in Versions \cup {0}

ChoiceType ==
    /\ published \in Releases /\ latest \in Releases \cup {None} /\ deferred \in Releases \cup {None}
    /\ seen \subseteq Releases /\ confirmed \subseteq seen /\ mixed \in BOOLEAN
    /\ failure \in {"none", "shown", "lost"}

MarkType ==
    /\ record \in Records
    /\ health \in [target : Versions \cup {0}, status : {"none", "pending", "healthy", "failed"}]
    /\ sidecar \in {"none", "accepted", "running", "succeeded", "failed", "expired"}
    /\ runner \in [step : RollbackSteps, record : Records]

LEMMA TypeParts == TypeOK <=> Bounds /\ UpdType /\ ProgramType /\ ChoiceType /\ MarkType
  BY DEF TypeOK, Bounds, UpdType, ProgramType, ChoiceType, MarkType

\* What an updater, its installer and its files are about once it goes on.
LEMMA StepNext ==
    ASSUME IInv, NEW u \in Updaters, UpdateStep(u)
    PROVE  UpdType' /\ ProgramType' /\ ChoiceType' /\ MarkType' /\ ConfirmedInv'
  <1> USE DEF programVars, settingVars, markVars, workVars, seenVars, Phases, Synchronous
  <1>0. UpdType /\ ProgramType /\ ChoiceType /\ MarkType /\ ConfirmedInv
    BY TypeParts DEF IInv
  <1> DEFINE Rec == [phase : Phases, by : Versions \cup {0}, release : Releases \cup {None}]
  <1>1. /\ upd \in [Updaters -> Rec] /\ upd[u] \in Rec
        /\ Updaters = {"web", "cli"} /\ upd.cli = upd["cli"]
        /\ NoUpdate \in Rec /\ NoUpdate.phase = "idle"
    BY <1>0 DEF UpdType, NoUpdate, Updaters
  <1>2. upd[u].phase # "idle" => upd[u].release \in Releases /\ upd[u].release.version \in Versions
    BY <1>0, <1>1, Values DEF ConfirmedInv, ChoiceType
  <1>3. ASSUME NEW new \in Rec, upd' = [upd EXCEPT ![u] = new], u = "cli" => new.phase # "verifying"
        PROVE  /\ upd' \in [Updaters -> Rec] /\ upd'.cli.phase # "verifying"
               /\ (new.phase # "idle" => new.release \in confirmed)
                    => \A w \in Updaters : upd'[w].phase # "idle" => upd'[w].release \in confirmed
    BY <1>0, <1>1, <1>3 DEF UpdType, ConfirmedInv
  <1>4. CASE CheckConfirmation(u)
    <2> DEFINE checked == [upd[u] EXCEPT !.phase = "downloading", !.release = published]
    <2> DEFINE new == IF published.version > upd[u].by /\ Confirmed(upd[u].release, published)
                      THEN checked ELSE NoUpdate
    <2>1. upd[u].phase = "checking" /\ upd' = [upd EXCEPT ![u] = new]
      BY <1>1, <1>4 DEF CheckConfirmation
    <2>2. checked \in Rec /\ checked.phase = "downloading" /\ checked.release = published
      BY <1>0, <1>1 DEF ChoiceType
    <2>3. new \in Rec /\ new.phase # "verifying"
      BY <1>1, <2>2
    <2>4. new.phase # "idle" => new.release \in confirmed
      BY <1>0, <1>1, <2>1, <2>2 DEF Confirmed, ConfirmedInv
    <2>5. latest' \in Releases \cup {None}
      BY <1>0, <1>4 DEF CheckConfirmation, Available, ChoiceType
    <2> HIDE DEF new, checked
    <2>6. UpdType'
      BY <1>0, <1>3, <1>4, <2>1, <2>3 DEF CheckConfirmation, UpdType
    <2>7. ConfirmedInv'
      BY <1>0, <1>3, <1>4, <2>1, <2>3, <2>4 DEF CheckConfirmation, ConfirmedInv, ConfirmedOnly
    <2>8. QED
      BY <1>0, <1>4, <2>5, <2>6, <2>7 DEF CheckConfirmation, ProgramType, ChoiceType, MarkType
  <1>5. ASSUME NEW to \in Phases \ {"idle", "verifying"}, upd[u].phase # "idle",
               upd' = [upd EXCEPT ![u].phase = to]
        PROVE  /\ upd' \in [Updaters -> Rec] /\ upd'.cli.phase # "verifying"
               /\ \A w \in Updaters : upd'[w].phase # "idle" => upd'[w].release \in confirmed
    <2>1. [upd[u] EXCEPT !.phase = to] \in Rec /\ [upd[u] EXCEPT !.phase = to].phase = to
          /\ [upd[u] EXCEPT !.phase = to].release = upd[u].release
      BY <1>1
    <2>2. upd' = [upd EXCEPT ![u] = [upd[u] EXCEPT !.phase = to]]
      BY <1>1, <1>5
    <2>3. QED
      BY <1>0, <1>3, <1>5, <2>1, <2>2 DEF ConfirmedInv
  <1>6. CASE Download(u)
    <2>1. upd[u].phase = "downloading" /\ upd' = [upd EXCEPT ![u].phase = "recording"]
      BY <1>6 DEF Download, Phase
    <2>2. files' = [files EXCEPT ![upd[u].release.version] = upd[u].release]
      BY <1>6 DEF Download
    <2>3. files' \in [Versions -> Releases \cup {None}]
      BY <1>0, <1>2, <2>1, <2>2 DEF UpdType
    <2>4. \A v \in Versions : files'[v] # None => files'[v] \in confirmed
      BY <1>0, <2>1, <2>2 DEF UpdType, ConfirmedInv
    <2>5. UpdType'
      BY <1>0, <1>5, <1>6, <2>1, <2>3 DEF Download, UpdType
    <2>6. ConfirmedInv'
      BY <1>0, <1>5, <1>6, <2>1, <2>4 DEF Download, ConfirmedInv, ConfirmedOnly
    <2>7. QED
      BY <1>0, <1>6, <2>5, <2>6 DEF Download, ProgramType, ChoiceType, MarkType
  <1>7. CASE GiveUp(u) \/ KillUpdater(u)
    <2>1. upd' = [upd EXCEPT ![u] = NoUpdate]
      BY <1>7 DEF GiveUp, KillUpdater
    <2>2. UpdType'
      BY <1>0, <1>1, <1>3, <1>7, <2>1 DEF GiveUp, KillUpdater, UpdType
    <2>3. ConfirmedInv'
      BY <1>0, <1>1, <1>3, <1>7, <2>1 DEF GiveUp, KillUpdater, ConfirmedInv, ConfirmedOnly
    <2>4. QED
      BY <1>0, <1>7, <2>2, <2>3
      DEF GiveUp, KillUpdater, ProgramType, ChoiceType, MarkType, Torn, NoRunner, NoRecord, Records, RollbackSteps
  <1>8. CASE WriteRecord(u)
    <2>1. upd[u].phase = "recording" /\ upd' = [upd EXCEPT ![u].phase = "marking"]
      BY <1>8 DEF WriteRecord, Phase
    <2>2. record' \in Records
      BY <1>0, <1>1, <1>2, <1>8, <2>1 DEF WriteRecord, NewRecord, Records, ProgramType
    <2>3. UpdType'
      BY <1>0, <1>5, <1>8, <2>1 DEF WriteRecord, UpdType
    <2>4. ConfirmedInv'
      BY <1>0, <1>5, <1>8, <2>1 DEF WriteRecord, ConfirmedInv, ConfirmedOnly
    <2>5. QED
      BY <1>0, <1>8, <2>2, <2>3, <2>4 DEF WriteRecord, ProgramType, ChoiceType, MarkType
  <1>9. CASE WriteMarker(u)
    <2>1. upd[u].phase = "marking" /\ upd' = [upd EXCEPT ![u].phase = "launching"]
      BY <1>9 DEF WriteMarker, Phase
    <2>2. health' \in [target : Versions \cup {0}, status : {"none", "pending", "healthy", "failed"}]
      BY <1>2, <1>9, <2>1 DEF WriteMarker
    <2>3. UpdType'
      BY <1>0, <1>5, <1>9, <2>1 DEF WriteMarker, UpdType
    <2>4. ConfirmedInv'
      BY <1>0, <1>5, <1>9, <2>1 DEF WriteMarker, ConfirmedInv, ConfirmedOnly
    <2>5. QED
      BY <1>0, <1>9, <2>2, <2>3, <2>4 DEF WriteMarker, ProgramType, ChoiceType, MarkType
  <1>10. CASE Launch(u)
    <2>1. upd[u].phase = "launching" /\ upd' = [upd EXCEPT ![u].phase = "installing"]
      BY <1>10 DEF Launch, Phase
    <2>2. installer' = [installer EXCEPT ![u] = files[upd[u].release.version]]
      BY <1>10 DEF Launch
    <2>3. installer' \in [Updaters -> Releases \cup {None}]
      BY <1>0, <1>2, <2>1, <2>2 DEF UpdType
    <2>4. \A w \in Updaters : installer'[w] # None => installer'[w] \in confirmed
      BY <1>0, <1>2, <2>1, <2>2 DEF UpdType, ConfirmedInv, ConfirmedOnly
    <2>5. UpdType'
      BY <1>0, <1>5, <1>10, <2>1, <2>3 DEF Launch, UpdType
    <2>6. ConfirmedInv'
      BY <1>0, <1>5, <1>10, <2>1, <2>4 DEF Launch, ConfirmedInv, ConfirmedOnly
    <2>7. QED
      BY <1>0, <1>10, <2>5, <2>6 DEF Launch, ProgramType, ChoiceType, MarkType
  <1>11. CASE FinishInstall(u) \/ FailInstall(u)
    <2>1. PICK new \in Rec :
              /\ upd' = [upd EXCEPT ![u] = new]
              /\ u = "cli" => new.phase # "verifying"
              /\ new.phase # "idle" => new.release \in confirmed
      <3>1. [upd[u] EXCEPT !.phase = "verifying"] \in Rec
            /\ [upd[u] EXCEPT !.phase = "verifying"].release = upd[u].release
        BY <1>1
      <3>2. \E new \in {upd[u], NoUpdate, [upd[u] EXCEPT !.phase = "verifying"]} :
              /\ upd' = [upd EXCEPT ![u] = new]
              /\ u = "cli" => new \in {upd[u], NoUpdate}
              /\ new \notin {upd[u], NoUpdate} => upd[u].phase = "installing"
        BY <1>1, <1>11 DEF FinishInstall, FailInstall, Installed
      <3>3. QED
        BY <1>0, <1>1, <3>1, <3>2 DEF UpdType, ConfirmedInv
    <2>2. installer' = [installer EXCEPT ![u] = None]
      BY <1>11 DEF FinishInstall, FailInstall
    <2>3. UpdType'
      BY <1>0, <1>3, <1>11, <2>1, <2>2 DEF FinishInstall, FailInstall, UpdType
    <2>4. ConfirmedInv'
      BY <1>0, <1>3, <1>11, <2>1, <2>2 DEF FinishInstall, FailInstall, UpdType, ConfirmedInv, ConfirmedOnly
    <2>5. current' \in Versions \cup {0} /\ installed' \subseteq Versions
      BY <1>0, <1>11, Values DEF FinishInstall, FailInstall, UpdType, ProgramType
    <2>6. QED
      BY <1>0, <1>11, <2>3, <2>4, <2>5 DEF FinishInstall, FailInstall, ProgramType, ChoiceType, MarkType
  <1>12. QED
    BY <1>4, <1>6, <1>7, <1>8, <1>9, <1>10, <1>11 DEF UpdateStep, OwnStep

\* The start of a version, and the stop of the service.
LEMMA StartType ==
    ASSUME ProgramType, MarkType, NEW version, Start(version)
    PROVE  /\ running' \in Versions \cup {0} /\ schema' \in Versions \cup {0}
           /\ health' \in [target : Versions \cup {0}, status : {"none", "pending", "healthy", "failed"}]
           /\ health'.target = health.target
  BY DEF ProgramType, MarkType, Start, Judged

LEMMA ForgottenNext ==
    ASSUME UpdType, ConfirmedInv, upd' = upd \/ upd' = WebForgotten, UNCHANGED <<files, installer, confirmed>>,
           restart' \in BOOLEAN
    PROVE  UpdType' /\ ConfirmedInv'
  BY DEF UpdType, ConfirmedInv, ConfirmedOnly, WebForgotten, NoUpdate, Phases, Updaters

LEMMA IInvNext == IInv /\ [Next]_vars => IInv'
  <1> SUFFICES ASSUME IInv, [Next]_vars PROVE IInv'
    OBVIOUS
  <1> USE DEF programVars, settingVars, markVars, workVars, seenVars, boundVars
  <1>0. UpdType /\ ProgramType /\ ChoiceType /\ MarkType /\ ConfirmedInv /\ Bounds'
    BY TypeParts, BoundsNext DEF IInv
  <1>1. SUFFICES UpdType' /\ ProgramType' /\ ChoiceType' /\ MarkType' /\ ConfirmedInv'
    BY <1>0, TypeParts, PTL DEF IInv
  <1>2. CASE Publish \/ Check \/ Resume
    <2>1. UpdType' /\ ConfirmedInv'
      BY <1>0, <1>2 DEF Publish, Check, Resume, UpdType, ConfirmedInv, ConfirmedOnly
    <2>2. ChoiceType'
      BY <1>0, <1>2 DEF Publish, Check, Resume, Available, ChoiceType
    <2>3. QED
      BY <1>0, <1>2, <2>1, <2>2 DEF Publish, Check, Resume, ProgramType, MarkType
  <1>3. ASSUME NEW choice \in seen, Defer(choice) PROVE UpdType' /\ ProgramType' /\ ChoiceType' /\ MarkType' /\ ConfirmedInv'
    <2>1. UpdType' /\ ConfirmedInv'
      BY <1>0, <1>3 DEF Defer, UpdType, ConfirmedInv, ConfirmedOnly
    <2>2. ChoiceType'
      BY <1>0, <1>3 DEF Defer, Available, ChoiceType
    <2>3. QED
      BY <1>0, <1>3, <2>1, <2>2 DEF Defer, ProgramType, MarkType
  <1>4. ASSUME NEW choice \in seen, Apply(choice) \/ RunCli(choice)
        PROVE UpdType' /\ ProgramType' /\ ChoiceType' /\ MarkType' /\ ConfirmedInv'
    <2>1. PICK u \in Updaters, version \in Versions \cup {0} : Begin(u, choice, version)
      BY <1>0, <1>4 DEF Apply, RunCli, Updaters, ProgramType
    <2> DEFINE new == [phase |-> "checking", by |-> version, release |-> choice]
    <2>2. new \in [phase : Phases, by : Versions \cup {0}, release : Releases \cup {None}]
          /\ new.phase = "checking" /\ new.release = choice
      BY <1>0 DEF ChoiceType, Phases
    <2>3. upd' = [upd EXCEPT ![u] = new] /\ confirmed' = confirmed \cup {choice}
          /\ UNCHANGED <<files, installer, restart, seen, published, latest, deferred>>
      BY <2>1 DEF Begin
    <2> HIDE DEF new
    <2>4. UpdType'
      BY <1>0, <2>2, <2>3 DEF UpdType, Updaters
    <2>5. ConfirmedInv'
      BY <1>0, <2>2, <2>3 DEF UpdType, ConfirmedInv, ConfirmedOnly
    <2>6. mixed' \in BOOLEAN
      BY <2>1 DEF Begin
    <2>7. ChoiceType'
      BY <1>0, <2>1, <2>3, <2>6 DEF Begin, ChoiceType
    <2>8. ProgramType' /\ MarkType'
      BY <1>0, <1>4 DEF Apply, RunCli, Begin, ProgramType, MarkType
    <2>9. QED
      BY <2>4, <2>5, <2>7, <2>8
  <1>5. ASSUME NEW u \in Updaters, UpdateStep(u)
        PROVE UpdType' /\ ProgramType' /\ ChoiceType' /\ MarkType' /\ ConfirmedInv'
    BY <1>5, StepNext
  <1>6. CASE VerifyTimeout \/ StopService \/ Restart
    <2>1. UpdType' /\ ConfirmedInv'
      BY <1>0, <1>6, ForgottenNext DEF VerifyTimeout, StopService, Restart, UpdType
    <2>2. QED
      BY <1>0, <1>6, <2>1 DEF VerifyTimeout, StopService, Restart, ProgramType, ChoiceType, MarkType
  <1>7. CASE StartService
    <2>1. Start(current)
      BY <1>7 DEF StartService
    <2>2. UpdType' /\ ConfirmedInv'
      BY <1>0, <1>7 DEF StartService, UpdType, ConfirmedInv, ConfirmedOnly
    <2>3. /\ running' \in Versions \cup {0} /\ schema' \in Versions \cup {0}
          /\ health' \in [target : Versions \cup {0}, status : {"none", "pending", "healthy", "failed"}]
      BY <1>0, <2>1, StartType
    <2>4. QED
      BY <1>0, <1>7, <2>2, <2>3 DEF StartService, ProgramType, ChoiceType, MarkType
  <1>8. CASE BreakStart
    <2>1. UpdType' /\ ConfirmedInv'
      BY <1>0, <1>8 DEF BreakStart, UpdType, ConfirmedInv, ConfirmedOnly
    <2>2. QED
      BY <1>0, <1>8, <2>1 DEF BreakStart, ProgramType, ChoiceType, MarkType
  <1>9. CASE HandOff \/ KillRunner
    <2>1. UpdType' /\ ConfirmedInv'
      BY <1>0, <1>9, ForgottenNext DEF HandOff, KillRunner, UpdType
    <2>2. MarkType' /\ ChoiceType'
      BY <1>0, <1>9
      DEF HandOff, KillRunner, RemoveStatus, AtStep, Torn, MarkType, ChoiceType, NoRunner, NoRecord,
          Records, RollbackSteps, RunnerSteps
    <2>3. QED
      BY <1>0, <1>9, <2>1, <2>2 DEF HandOff, KillRunner, ProgramType
  <1>10. CASE AcceptRollback \/ GoOnAccepting \/ FailAcceptance \/ RunRollback \/ BeginRollback \/ ReadRecord
    <2>1. UpdType' /\ ConfirmedInv'
      BY <1>0, <1>10
      DEF AcceptRollback, GoOnAccepting, FailAcceptance, RunRollback, BeginRollback, ReadRecord,
          UpdType, ConfirmedInv, ConfirmedOnly
    <2>2. /\ mixed' \in BOOLEAN
          /\ UNCHANGED <<published, programVars, latest, deferred, record, health, seen, confirmed>>
      BY <1>0, <1>10
      DEF AcceptRollback, GoOnAccepting, FailAcceptance, RunRollback, BeginRollback, ReadRecord, ChoiceType
    <2>3. runner' \in [step : RollbackSteps, record : Records]
      BY <1>0, <1>10
      DEF AcceptRollback, GoOnAccepting, FailAcceptance, RunRollback, BeginRollback, ReadRecord,
          RemoveStatus, WriteStatus, AtStep, MarkType, NoRunner, NoRecord, Records,
          RollbackSteps, RunnerSteps, ServiceSteps, Accepting
    <2>4. /\ sidecar' \in {"none", "accepted", "running", "succeeded", "failed", "expired"}
          /\ failure' \in {"none", "shown", "lost"}
      BY <1>0, <1>10
      DEF AcceptRollback, GoOnAccepting, FailAcceptance, RunRollback, BeginRollback, ReadRecord,
          RemoveStatus, WriteStatus, Torn, MarkType, ChoiceType
    <2>5. QED
      BY <1>0, <2>1, <2>2, <2>3, <2>4 DEF ProgramType, ChoiceType, MarkType
  <1>11. CASE StartPrevious
    <2>1. Start(runner.record.previous)
      BY <1>11 DEF StartPrevious
    <2>2. UpdType' /\ ConfirmedInv'
      BY <1>0, <1>11 DEF StartPrevious, UpdType, ConfirmedInv, ConfirmedOnly
    <2>3. /\ running' \in Versions \cup {0} /\ schema' \in Versions \cup {0}
          /\ health' \in [target : Versions \cup {0}, status : {"none", "pending", "healthy", "failed"}]
      BY <1>0, <2>1, StartType
    <2>4. runner' \in [step : RollbackSteps, record : Records]
      BY <1>0, <1>11 DEF StartPrevious, MarkType, RollbackSteps, RunnerSteps
    <2>5. QED
      BY <1>0, <1>11, <2>2, <2>3, <2>4 DEF StartPrevious, ProgramType, ChoiceType, MarkType
  <1>12. CASE RestoreData \/ RemovePointer \/ SwitchProgram \/ RemoveMarker \/ FinishRollback \/ FailRollback
               \/ ExpireLease
    <2>1. UpdType' /\ ConfirmedInv'
      BY <1>0, <1>12
      DEF RestoreData, RemovePointer, SwitchProgram, RemoveMarker, FinishRollback, FailRollback, ExpireLease,
          UpdType, ConfirmedInv, ConfirmedOnly
    <2>2. runner' \in [step : RollbackSteps, record : Records]
      BY <1>0, <1>12
      DEF RestoreData, RemovePointer, SwitchProgram, RemoveMarker, FinishRollback, FailRollback, ExpireLease,
          RemoveStatus, WriteStatus, MarkType, NoRunner, NoRecord, Records, RollbackSteps, RunnerSteps
    <2>3. MarkType' /\ ChoiceType'
      BY <1>0, <1>12, <2>2
      DEF RestoreData, RemovePointer, SwitchProgram, RemoveMarker, FinishRollback, FailRollback, ExpireLease,
          RemoveStatus, WriteStatus, MarkType, ChoiceType, NoHealth
    <2>4. ProgramType'
      BY <1>0, <1>12
      DEF RestoreData, RemovePointer, SwitchProgram, RemoveMarker, FinishRollback, FailRollback, ExpireLease,
          ProgramType, MarkType, Records
    <2>5. QED
      BY <2>1, <2>3, <2>4
  <1>13. CASE UNCHANGED vars
    <2>1. UpdType' /\ ConfirmedInv'
      BY <1>0, <1>13 DEF vars, UpdType, ConfirmedInv, ConfirmedOnly
    <2>2. QED
      BY <1>0, <1>13, <2>1 DEF vars, ProgramType, ChoiceType, MarkType
  <1>14. QED
    BY <1>2, <1>3, <1>4, <1>5, <1>6, <1>7, <1>8, <1>9, <1>10, <1>11, <1>12, <1>13 DEF Next, Rollback

\* Records, manifests, phases and counters keep their types.
THEOREM TypeCorrect == Spec => []TypeOK
  <1>1. Init => IInv
    BY InitIInv
  <1>2. IInv /\ [Next]_vars => IInv'
    BY IInvNext
  <1>3. IInv => TypeOK
    BY DEF IInv
  <1>4. QED
    BY <1>1, <1>2, <1>3, PTL DEF Spec

\* No installer runs that the user has not confirmed, whatever the channel publishes and
\* whichever updater downloads over the file of the other.
THEOREM OnlyConfirmedIsInstalled == Spec => []ConfirmedOnly
  <1>1. Init => IInv
    BY InitIInv
  <1>2. IInv /\ [Next]_vars => IInv'
    BY IInvNext
  <1>3. IInv => ConfirmedOnly
    BY DEF IInv, ConfirmedInv
  <1>4. QED
    BY <1>1, <1>2, <1>3, PTL DEF Spec

-----------------------------------------------------------------------------
(* What holds while updates and rollbacks do not overlap: one of them at a  *)
(* time, about the version that runs or is installed, with a record that    *)
(* can be rolled back to and a runner that follows the record.              *)

Active(u) == upd[u].phase # "idle" \/ installer[u] # None

AloneInv ==
    /\ \A u, v \in Updaters : Active(u) /\ Active(v) => u = v
    /\ runner.step # "none" => ~restart /\ \A u \in Updaters : ~Active(u)
    /\ \A u \in Updaters : installer[u] # None => upd[u].phase \in {"idle", "installing"}

WorkInv ==
    /\ \A u \in Updaters : upd[u].phase # "idle" =>
          upd[u].by # 0 /\ upd[u].by \in installed /\ schema <= upd[u].by
    /\ upd["web"].phase # "idle" => running = upd["web"].by
    /\ upd["cli"].phase # "idle" => current = upd["cli"].by
    /\ running # 0 => schema <= running /\ running \in installed

RecordInv ==
    /\ record # NoRecord => record.backup <= record.previous /\ record.previous \in installed
    /\ \A u \in Updaters : upd[u].phase \in {"marking", "launching"} =>
          record.target = upd[u].release.version
    /\ \A u \in Updaters : upd[u].phase = "launching" => health.target = upd[u].release.version

Behind == {"restored", "unpointed", "switched", "cleared"}

RunnerInv ==
    /\ runner.step \in Behind \cup {"restoring"} => sidecar = "running" /\ runner.record = record
    /\ runner.step \in Behind => record.previous \in installed /\ schema = record.backup
    /\ runner.step \in {"switched", "cleared"} => current = record.previous

SoloInv == AloneInv /\ WorkInv /\ RecordInv /\ RunnerInv

LEMMA Numbers ==
    ASSUME ProgramType, MarkType
    PROVE  /\ running \in Nat /\ current \in Nat /\ schema \in Nat
           /\ record.previous \in Nat /\ record.backup \in Nat
  <1>1. \A v \in Versions \cup {0} : v \in Nat
    BY Values
  <1>2. running \in Nat /\ current \in Nat /\ schema \in Nat
    BY <1>1 DEF ProgramType
  <1>3. record.previous \in Versions \cup {0} /\ record.backup \in Versions \cup {0}
    BY DEF MarkType, Records
  <1>4. QED
    BY <1>1, <1>2, <1>3

LEMMA SoloSteps ==
    ASSUME IInv, SoloInv, NEW u \in Updaters, UpdateStep(u)
    PROVE  SoloInv'
  <1> USE DEF programVars, settingVars, markVars, workVars, seenVars
  <1>0. UpdType /\ ProgramType /\ MarkType /\ ConfirmedInv /\ ChoiceType
    BY TypeParts DEF IInv
  <1>1. /\ upd \in [Updaters -> [phase : Phases, by : Versions \cup {0}, release : Releases \cup {None}]]
        /\ installer \in [Updaters -> Releases \cup {None}]
        /\ Updaters = {"web", "cli"} /\ upd.web = upd["web"] /\ upd.cli = upd["cli"]
        /\ NoUpdate.phase = "idle"
    BY <1>0 DEF UpdType, NoUpdate, Updaters
  <1>2. upd[u].phase # "idle" => runner.step = "none" /\ \A v \in Updaters \ {u} : ~Active(v)
    BY DEF SoloInv, AloneInv, Active
  <1>3. installer[u] # None => runner.step = "none" /\ \A v \in Updaters \ {u} : ~Active(v)
    BY DEF SoloInv, AloneInv, Active
  \* The next phase of an updater that is alone.
  <1>4. ASSUME NEW to, upd[u].phase # "idle", upd' = [upd EXCEPT ![u].phase = to]
        PROVE  /\ upd'[u].phase = to /\ upd'[u].by = upd[u].by /\ upd'[u].release = upd[u].release
               /\ \A v \in Updaters \ {u} : upd'[v] = upd[v]
    BY <1>1, <1>4
  <1>5. ASSUME upd' = [upd EXCEPT ![u] = NoUpdate]
        PROVE  upd'[u].phase = "idle" /\ \A v \in Updaters \ {u} : upd'[v] = upd[v]
    BY <1>1, <1>5
  <1>6. CASE CheckConfirmation(u)
    <2>1. /\ upd[u].phase = "checking"
          /\ upd'[u].phase \in {"idle", "downloading"}
          /\ upd'[u].phase = "downloading" => upd'[u].by = upd[u].by
          /\ \A v \in Updaters \ {u} : upd'[v] = upd[v]
      BY <1>1, <1>6 DEF CheckConfirmation
    <2>2. UNCHANGED <<programVars, markVars, installer, restart, runner>>
      BY <1>6 DEF CheckConfirmation
    <2>3. AloneInv' /\ RunnerInv'
      BY <1>2, <2>1, <2>2 DEF SoloInv, AloneInv, RunnerInv, Active
    <2>4. WorkInv' /\ RecordInv'
      BY <1>1, <1>2, <2>1, <2>2 DEF SoloInv, WorkInv, RecordInv, Active
    <2>5. QED
      BY <2>3, <2>4 DEF SoloInv
  <1>7. CASE Download(u)
    <2>1. upd[u].phase = "downloading" /\ upd' = [upd EXCEPT ![u].phase = "recording"]
          /\ UNCHANGED <<programVars, markVars, installer, restart, runner>>
      BY <1>7 DEF Download, Phase
    <2>2. AloneInv' /\ RunnerInv'
      BY <1>2, <1>4, <2>1 DEF SoloInv, AloneInv, RunnerInv, Active
    <2>3. WorkInv' /\ RecordInv'
      BY <1>1, <1>2, <1>4, <2>1 DEF SoloInv, WorkInv, RecordInv, Active
    <2>4. QED
      BY <2>2, <2>3 DEF SoloInv
  <1>8. CASE GiveUp(u) \/ KillUpdater(u)
    <2>1. /\ upd[u].phase # "idle" /\ upd' = [upd EXCEPT ![u] = NoUpdate]
          /\ UNCHANGED <<current, installed, schema, markVars, installer, restart, runner>>
          /\ running' = running \/ running' = 0
          /\ u # "web" => running' = running
      BY <1>2, <1>8 DEF GiveUp, KillUpdater, ServiceSteps, Accepting
    <2>2. AloneInv' /\ RunnerInv'
      BY <1>2, <1>5, <2>1 DEF SoloInv, AloneInv, RunnerInv, Active
    <2>3. WorkInv' /\ RecordInv'
      BY <1>1, <1>2, <1>5, <2>1 DEF SoloInv, WorkInv, RecordInv, Active
    <2>4. QED
      BY <2>2, <2>3 DEF SoloInv
  <1>9. CASE WriteRecord(u)
    <2>1. upd[u].phase = "recording" /\ upd' = [upd EXCEPT ![u].phase = "marking"]
          /\ UNCHANGED <<programVars, health, sidecar, installer, restart, runner>>
          /\ record' = [previous |-> upd[u].by, target |-> upd[u].release.version, backup |-> schema]
      BY <1>9 DEF WriteRecord, Phase, NewRecord
    <2>2. AloneInv' /\ RunnerInv'
      BY <1>2, <1>4, <2>1 DEF SoloInv, AloneInv, RunnerInv, Active, Behind
    <2>3. WorkInv'
      BY <1>1, <1>2, <1>4, <2>1 DEF SoloInv, WorkInv, Active
    <2>4. RecordInv'
      BY <1>1, <1>2, <1>4, <2>1 DEF SoloInv, WorkInv, RecordInv, Active
    <2>5. QED
      BY <2>2, <2>3, <2>4 DEF SoloInv
  <1>10. CASE WriteMarker(u)
    <2>1. upd[u].phase = "marking" /\ upd' = [upd EXCEPT ![u].phase = "launching"]
          /\ UNCHANGED <<programVars, record, sidecar, installer, restart, runner>>
          /\ health' = [target |-> upd[u].release.version, status |-> "pending"]
      BY <1>10 DEF WriteMarker, Phase
    <2>2. AloneInv' /\ RunnerInv'
      BY <1>2, <1>4, <2>1 DEF SoloInv, AloneInv, RunnerInv, Active
    <2>3. WorkInv' /\ RecordInv'
      BY <1>1, <1>2, <1>4, <2>1 DEF SoloInv, WorkInv, RecordInv, Active
    <2>4. QED
      BY <2>2, <2>3 DEF SoloInv
  <1>11. CASE Launch(u)
    <2>1. upd[u].phase = "launching" /\ upd' = [upd EXCEPT ![u].phase = "installing"]
          /\ UNCHANGED <<programVars, record, health, restart, runner>>
          /\ installer' = [installer EXCEPT ![u] = files[upd[u].release.version]]
      BY <1>11 DEF Launch, Phase
    <2>2. \A v \in Updaters \ {u} : installer'[v] = installer[v]
      BY <1>1, <2>1
    <2>3. AloneInv' /\ RunnerInv'
      <3>1. upd'[u].phase = "installing" /\ runner'.step = "none"
        BY <1>2, <1>4, <2>1
      <3>2. \A v \in Updaters \ {u} : ~Active(v)'
        BY <1>2, <1>4, <2>1, <2>2 DEF Active
      <3>3. QED
        BY <3>1, <3>2 DEF AloneInv, RunnerInv, Active, Behind
    <2>4. WorkInv' /\ RecordInv'
      BY <1>1, <1>2, <1>4, <2>1 DEF SoloInv, WorkInv, RecordInv, Active
    <2>5. QED
      BY <2>3, <2>4 DEF SoloInv
  <1>12. CASE FinishInstall(u) \/ FailInstall(u)
    <2>1. /\ installer[u] # None /\ installer' = [installer EXCEPT ![u] = None]
          /\ UNCHANGED <<running, schema, markVars, runner>>
          /\ installed \subseteq installed'
          /\ \A v \in Updaters \ {u} : upd'[v] = upd[v]
      BY <1>1, <1>12 DEF FinishInstall, FailInstall, Installed
    <2>2. runner.step = "none" /\ \A v \in Updaters \ {u} : ~Active(v)
      BY <1>3, <2>1
    <2>3. \/ upd'[u] = upd[u] /\ upd[u].phase = "idle"
          \/ upd'[u].phase = "idle"
          \/ u = "web" /\ upd'[u].phase = "verifying" /\ upd'[u].by = upd[u].by /\ upd[u].phase # "idle"
      BY <1>1, <1>12, <2>1 DEF FinishInstall, FailInstall, Installed, SoloInv, AloneInv
    <2>4. installer'[u] = None /\ \A v \in Updaters \ {u} : installer'[v] = installer[v]
      BY <1>1, <2>1
    <2>5. AloneInv' /\ RunnerInv'
      BY <2>1, <2>2, <2>3, <2>4 DEF SoloInv, AloneInv, RunnerInv, Active, Behind
    <2>6. WorkInv' /\ RecordInv'
      BY <1>1, <2>1, <2>2, <2>3 DEF SoloInv, WorkInv, RecordInv, Active
    <2>7. QED
      BY <2>5, <2>6 DEF SoloInv
  <1>13. QED
    BY <1>6, <1>7, <1>8, <1>9, <1>10, <1>11, <1>12 DEF UpdateStep, OwnStep

LEMMA SoloNext == IInv /\ (mixed \/ SoloInv) /\ [Next]_vars => (mixed \/ SoloInv)'
  <1> SUFFICES ASSUME IInv, mixed \/ SoloInv, [Next]_vars, ~mixed'
               PROVE  SoloInv'
    OBVIOUS
  <1> USE DEF programVars, settingVars, markVars, workVars, seenVars
  <1>0. UpdType /\ ProgramType /\ MarkType /\ ConfirmedInv /\ ChoiceType
    BY TypeParts DEF IInv
  <1>1. /\ upd \in [Updaters -> [phase : Phases, by : Versions \cup {0}, release : Releases \cup {None}]]
        /\ Updaters = {"web", "cli"} /\ upd.web = upd["web"] /\ upd.cli = upd["cli"]
        /\ NoUpdate.phase = "idle"
    BY <1>0 DEF UpdType, NoUpdate, Updaters
  <1>2. /\ running \in Nat /\ current \in Nat /\ schema \in Nat
        /\ record.previous \in Nat /\ record.backup \in Nat
    BY <1>0, Numbers
  <1>3. ASSUME UNCHANGED <<programVars, markVars, upd, installer, restart, runner, mixed>>
        PROVE  SoloInv'
    <2>1. SoloInv
      BY <1>3
    <2>2. AloneInv'
      BY <1>3, <2>1 DEF SoloInv, AloneInv, Active
    <2>3. WorkInv' /\ RecordInv' /\ RunnerInv'
      BY <1>3, <2>1 DEF SoloInv, WorkInv, RecordInv, RunnerInv
    <2>4. QED
      BY <2>2, <2>3 DEF SoloInv
  <1>4. CASE Publish \/ Check \/ Resume \/ \E choice \in seen : Defer(choice)
    BY <1>3, <1>4 DEF Publish, Check, Resume, Defer
  <1>5. ASSUME NEW choice \in seen, Apply(choice) \/ RunCli(choice) PROVE SoloInv'
    <2>1. PICK u \in Updaters, version \in Versions \cup {0} :
              /\ Begin(u, choice, version)
              /\ version \in Nat \ {0} /\ version \in {running, current}
              /\ u = "web" => version = running /\ schema' = schema
              /\ u = "cli" => version = current /\ current \in installed /\ schema' = current
      BY <1>0, <1>2, <1>5, Values DEF Apply, RunCli, Updaters, ProgramType, Serving
    <2>2. ~mixed /\ SoloInv
      BY <2>1 DEF Begin
    <2>3. ~Busy /\ (running # 0 => version = running)
      BY <2>1 DEF Begin
    <2>4. /\ UNCHANGED <<running, current, installed, markVars, installer, restart, runner>>
          /\ upd' = [upd EXCEPT ![u] = [phase |-> "checking", by |-> version, release |-> choice]]
      BY <2>1 DEF Begin
    <2>5. /\ upd'[u].phase = "checking" /\ upd'[u].by = version
          /\ \A v \in Updaters \ {u} : upd'[v] = upd[v]
      BY <1>1, <2>4
    <2>6. runner.step = "none" /\ \A v \in Updaters : upd[v].phase = "idle" /\ installer[v] = None
      BY <2>3 DEF Busy
    <2>7. AloneInv' /\ RunnerInv'
      BY <2>4, <2>5, <2>6 DEF AloneInv, RunnerInv, Active, Behind
    <2>8. WorkInv'
      BY <1>1, <1>2, <2>1, <2>2, <2>3, <2>4, <2>5, <2>6 DEF SoloInv, WorkInv
    <2>9. RecordInv'
      BY <2>2, <2>4, <2>5, <2>6 DEF SoloInv, RecordInv
    <2>10. QED
      BY <2>7, <2>8, <2>9 DEF SoloInv
  <1>6. ASSUME NEW u \in Updaters, UpdateStep(u) PROVE SoloInv'
    <2>1. mixed' = mixed
      BY <1>6 DEF UpdateStep, OwnStep, CheckConfirmation, Download, GiveUp, WriteRecord, WriteMarker,
                  Launch, FinishInstall, FailInstall, KillUpdater
    <2>2. QED
      BY <1>6, <2>1, SoloSteps
  <1>7. CASE VerifyTimeout \/ StopService \/ Restart
    <2>1. /\ UNCHANGED <<current, installed, schema, markVars, installer, runner, mixed>>
          /\ restart' => restart
          /\ \/ upd' = upd /\ running' = running
             \/ upd' = WebForgotten /\ running' \in {0, running}
      BY <1>0, <1>7 DEF VerifyTimeout, StopService, Restart, UpdType
    <2>2. SoloInv
      BY <2>1
    <2>3. /\ upd'["cli"] = upd["cli"]
          /\ \/ upd'["web"] = upd["web"] /\ running' = running
             \/ upd'["web"].phase = "idle" /\ running' \in {0, running}
      BY <1>1, <2>1 DEF WebForgotten
    <2>4. AloneInv' /\ RunnerInv'
      BY <1>1, <2>1, <2>2, <2>3 DEF SoloInv, AloneInv, RunnerInv, Active
    <2>5. WorkInv' /\ RecordInv'
      BY <1>1, <2>1, <2>2, <2>3 DEF SoloInv, WorkInv, RecordInv
    <2>6. QED
      BY <2>4, <2>5 DEF SoloInv
  <1>8. CASE StartService \/ BreakStart
    <2>1. /\ running = 0 /\ ~RollbackActive /\ current \in installed /\ schema <= current /\ schema' = current
          /\ running' \in {0, current} /\ health'.target = health.target
          /\ UNCHANGED <<current, installed, record, sidecar, upd, installer, restart, runner, mixed>>
      BY <1>0, <1>8, StartType DEF StartService, BreakStart, Start
    <2>2. SoloInv /\ upd["web"].phase = "idle"
      BY <1>1, <2>1 DEF SoloInv, WorkInv
    <2>3. runner.step \notin Behind
      BY <2>1, <2>2 DEF RollbackActive, SoloInv, RunnerInv
    <2>4. AloneInv' /\ RunnerInv'
      BY <2>1, <2>2, <2>3 DEF SoloInv, AloneInv, RunnerInv, Active, Behind
    <2>5. WorkInv'
      BY <1>1, <1>2, <2>1, <2>2 DEF SoloInv, WorkInv
    <2>6. RecordInv'
      BY <2>1, <2>2 DEF SoloInv, RecordInv
    <2>7. QED
      BY <2>4, <2>5, <2>6 DEF SoloInv
  <1>9. CASE AcceptRollback \/ RunRollback
    <2>1. /\ ~mixed /\ ~Busy /\ UNCHANGED <<current, installed, schema, record, health, installer, restart>>
          /\ runner.step = "none" /\ UNCHANGED <<upd, running>>
          /\ runner'.step \in {"settling", "accepting", "spawned"}
      BY <1>0, <1>9 DEF AcceptRollback, RunRollback, RemoveStatus, AtStep, NoRunner, MarkType
    <2>2. SoloInv /\ ~restart /\ \A v \in Updaters : upd[v].phase = "idle" /\ installer[v] = None
      BY <2>1 DEF Busy
    <2>3. AloneInv' /\ RunnerInv'
      BY <2>1, <2>2 DEF AloneInv, RunnerInv, Active, Behind
    <2>4. WorkInv' /\ RecordInv'
      BY <2>1, <2>2 DEF SoloInv, WorkInv, RecordInv
    <2>5. QED
      BY <2>3, <2>4 DEF SoloInv
  <1>10. ASSUME SoloInv, runner.step # "none",
                UNCHANGED <<installed, record, upd, installer, restart>>
         PROVE  /\ \A v \in Updaters : upd'[v].phase = "idle" /\ installer'[v] = None
                /\ AloneInv' /\ RecordInv'
    BY <1>10 DEF SoloInv, AloneInv, RecordInv, Active
  \* Steps that put the runner before the restore, or after its end.
  <1>11. CASE GoOnAccepting \/ FailAcceptance \/ BeginRollback \/ ReadRecord \/ FinishRollback \/ FailRollback
    <2>1. /\ runner.step # "none"
          /\ UNCHANGED <<programVars, record, upd, installer, restart, mixed>>
      BY <1>11 DEF GoOnAccepting, FailAcceptance, BeginRollback, ReadRecord, FinishRollback, FailRollback,
                   Accepting, RunnerSteps
    <2>2. /\ runner'.step \notin Behind
          /\ runner'.step = "restoring" => sidecar' = "running" /\ runner'.record = record
      BY <1>0, <1>11
      DEF GoOnAccepting, FailAcceptance, BeginRollback, ReadRecord, FinishRollback, FailRollback,
          RemoveStatus, WriteStatus, AtStep, NoRunner, Behind, MarkType
    <2>3. SoloInv
      BY <2>1
    <2>4. RunnerInv' /\ WorkInv'
      BY <2>1, <2>2, <2>3 DEF SoloInv, RunnerInv, WorkInv, Behind
    <2>5. QED
      BY <1>10, <2>1, <2>3, <2>4 DEF SoloInv
  <1>12. CASE RestoreData
    <2>1. /\ runner.step = "restoring" /\ running = 0 /\ runner.record.previous \in installed
          /\ runner'.step = "restored" /\ runner'.record = runner.record /\ schema' = runner.record.backup
          /\ UNCHANGED <<running, current, installed, record, sidecar, upd, installer, restart, mixed>>
      BY <1>0, <1>12 DEF RestoreData, MayRestore, MarkType
    <2>2. SoloInv
      BY <2>1
    <2>3. RunnerInv'
      BY <2>1, <2>2 DEF SoloInv, RunnerInv, Behind
    <2>4. WorkInv'
      BY <1>1, <1>10, <2>1, <2>2 DEF WorkInv
    <2>5. QED
      BY <1>10, <2>1, <2>2, <2>3, <2>4 DEF SoloInv
  <1>13. CASE RemovePointer
    <2>1. /\ runner.step = "restored" /\ runner'.step = "unpointed" /\ runner'.record = runner.record
          /\ UNCHANGED <<running, installed, schema, record, sidecar, upd, installer, restart, mixed>>
      BY <1>0, <1>13 DEF RemovePointer, MarkType
    <2>2. SoloInv
      BY <2>1
    <2>3. RunnerInv'
      BY <2>1, <2>2 DEF SoloInv, RunnerInv, Behind
    <2>4. WorkInv'
      BY <1>1, <1>10, <2>1, <2>2 DEF SoloInv, WorkInv
    <2>5. QED
      BY <1>10, <2>1, <2>2, <2>3, <2>4 DEF SoloInv
  <1>14. CASE SwitchProgram
    <2>1. /\ runner.step = "unpointed" /\ runner'.step = "switched" /\ runner'.record = runner.record
          /\ current' = runner.record.previous
          /\ UNCHANGED <<running, installed, schema, record, sidecar, upd, installer, restart, mixed>>
      BY <1>0, <1>14 DEF SwitchProgram, MarkType
    <2>2. SoloInv
      BY <2>1
    <2>3. RunnerInv'
      BY <2>1, <2>2 DEF SoloInv, RunnerInv, Behind
    <2>4. WorkInv'
      BY <1>1, <1>10, <2>1, <2>2 DEF SoloInv, WorkInv
    <2>5. QED
      BY <1>10, <2>1, <2>2, <2>3, <2>4 DEF SoloInv
  <1>15. CASE RemoveMarker
    <2>1. /\ runner.step = "switched" /\ runner'.step = "cleared" /\ runner'.record = runner.record
          /\ UNCHANGED <<programVars, record, sidecar, upd, installer, restart, mixed>>
      BY <1>0, <1>15 DEF RemoveMarker, MarkType
    <2>2. SoloInv
      BY <2>1
    <2>3. RunnerInv' /\ WorkInv'
      BY <2>1, <2>2 DEF SoloInv, RunnerInv, WorkInv, Behind
    <2>4. QED
      BY <1>10, <2>1, <2>2, <2>3 DEF SoloInv
  <1>16. CASE StartPrevious
    <2>1. /\ runner.step = "cleared" /\ runner'.step = "started"
          /\ runner.record.previous \in installed
          /\ running' = runner.record.previous /\ schema' = runner.record.previous
          /\ UNCHANGED <<current, installed, record, upd, installer, restart, mixed>>
      BY <1>0, <1>16 DEF StartPrevious, Start, MarkType
    <2>2. SoloInv /\ runner.record.previous \in Nat
      BY <1>0, <2>1, Values DEF MarkType, Records
    <2>3. RunnerInv'
      BY <2>1 DEF RunnerInv, Behind
    <2>4. WorkInv'
      BY <1>1, <1>10, <2>1, <2>2 DEF WorkInv
    <2>5. QED
      BY <1>10, <2>1, <2>2, <2>3, <2>4 DEF SoloInv
  \* Steps that end the service too, or leave it alone.
  <1>17. CASE HandOff \/ KillRunner
    <2>1. /\ runner.step # "none" /\ runner'.step \notin Behind \cup {"restoring"}
          /\ UNCHANGED <<current, installed, schema, record, installer, restart, mixed>>
          /\ \/ upd' = upd /\ running' = running
             \/ upd' = WebForgotten /\ running' = 0
      BY <1>0, <1>17 DEF HandOff, KillRunner, RemoveStatus, AtStep, NoRunner, Behind, MarkType
    <2>2. SoloInv
      BY <2>1
    <2>3. \A v \in Updaters : upd[v].phase = "idle" /\ installer[v] = None
      BY <2>1, <2>2 DEF SoloInv, AloneInv, Active
    <2>4. \A v \in Updaters : upd'[v].phase = "idle"
      BY <1>1, <2>1, <2>3 DEF WebForgotten
    <2>5. AloneInv' /\ RunnerInv'
      BY <2>1, <2>2, <2>3, <2>4 DEF SoloInv, AloneInv, RunnerInv, Active, Behind
    <2>6. WorkInv' /\ RecordInv'
      BY <1>1, <2>1, <2>2, <2>4 DEF SoloInv, WorkInv, RecordInv
    <2>7. QED
      BY <2>5, <2>6 DEF SoloInv
  <1>18. CASE ExpireLease
    <2>1. /\ runner.step = "none"
          /\ UNCHANGED <<programVars, record, health, upd, installer, restart, runner, mixed>>
      BY <1>18 DEF ExpireLease
    <2>2. SoloInv
      BY <2>1
    <2>3. AloneInv' /\ RunnerInv'
      BY <2>1, <2>2 DEF SoloInv, AloneInv, RunnerInv, Active, Behind
    <2>4. WorkInv' /\ RecordInv'
      BY <2>1, <2>2 DEF SoloInv, WorkInv, RecordInv
    <2>5. QED
      BY <2>3, <2>4 DEF SoloInv
  <1>19. CASE UNCHANGED vars
    BY <1>3, <1>19 DEF vars
  <1>20. QED
    BY <1>4, <1>5, <1>6, <1>7, <1>8, <1>9, <1>11, <1>12, <1>13, <1>14, <1>15, <1>16, <1>17, <1>18, <1>19
    DEF Next, Rollback

LEMMA InitSolo == Init => mixed \/ SoloInv
  <1> SUFFICES ASSUME Init PROVE SoloInv
    OBVIOUS
  <1>1. runner.step = "none" /\ \A u \in Updaters : upd[u].phase = "idle" /\ installer[u] = None
    BY DEF Init, NoUpdate, NoRunner
  <1>2. AloneInv /\ RunnerInv
    BY <1>1 DEF AloneInv, RunnerInv, Active, Behind
  <1>3. running = 1 /\ schema = 1 /\ installed = {1} /\ record = NoRecord
    BY DEF Init
  <1>4. WorkInv /\ RecordInv
    BY <1>1, <1>3 DEF WorkInv, RecordInv, Updaters
  <1>5. QED
    BY <1>2, <1>4 DEF SoloInv

\* A rollback leaves a program with a database it can open, and can be rolled back again
\* after it broke off, as long as it did not overlap with an update.
THEOREM RollbackLeavesAFit == Spec => []RollbackFits
  <1>1. IInv /\ (mixed \/ SoloInv) => RollbackFits
    <2> SUFFICES ASSUME IInv, SoloInv PROVE RollbackFits
      BY DEF RollbackFits
    <2>1. /\ record.previous \in Nat /\ record.backup \in Nat /\ NoRecord.previous = 0
      BY TypeParts, Numbers DEF IInv, NoRecord
    <2>2. 0 \notin installed
      BY TypeParts, Values DEF IInv, ProgramType
    <2>3. QED
      BY <2>1, <2>2 DEF SoloInv, RecordInv, RunnerInv, RollbackFits, Behind
  <1>2. QED
    BY <1>1, InitIInv, InitSolo, IInvNext, SoloNext, PTL DEF Spec

\* A failure on show is there, or the status that replaces it is being written.
FailureInv == failure = "shown" => sidecar = "failed" \/ runner.step \in Writing

LEMMA FailureNext ==
    ASSUME IInv, mixed \/ SoloInv, mixed \/ FailureInv, [Next]_vars
    PROVE  mixed' \/ FailureInv'
  <1> SUFFICES ASSUME ~mixed', failure' = "shown"
               PROVE  sidecar' = "failed" \/ runner'.step \in Writing
    BY DEF FailureInv
  <1> USE DEF programVars, settingVars, markVars, workVars, seenVars
  <1>0. MarkType
    BY TypeParts DEF IInv
  <1>1. CASE UNCHANGED <<sidecar, runner, failure, mixed>>
    BY <1>1 DEF FailureInv
  <1>2. CASE Publish \/ Check \/ Resume \/ VerifyTimeout \/ StartService \/ BreakStart \/ StopService \/ Restart
    BY <1>1, <1>2 DEF Publish, Check, Resume, VerifyTimeout, StartService, BreakStart, StopService, Restart
  <1>3. ASSUME NEW choice \in seen, Defer(choice) \/ Apply(choice) \/ RunCli(choice)
        PROVE  sidecar' = "failed" \/ runner'.step \in Writing
    BY <1>1, <1>3 DEF Defer, Apply, RunCli, Begin, FailureInv
  <1>4. ASSUME NEW u \in Updaters, UpdateStep(u)
        PROVE  sidecar' = "failed" \/ runner'.step \in Writing
    <2>1. CASE Launch(u)
      <3>1. ~mixed /\ upd[u].phase = "launching"
        BY <2>1 DEF Launch, Phase
      <3>2. record.target = upd[u].release.version /\ health.target = upd[u].release.version
        BY <3>1 DEF SoloInv, RecordInv
      <3>3. QED
        BY <2>1, <3>2 DEF Launch
    <2>2. CASE KillUpdater(u)
      <3>1. ~mixed /\ upd[u].phase # "idle"
        BY <2>2 DEF KillUpdater
      <3>2. runner.step = "none"
        BY <3>1 DEF SoloInv, AloneInv, Active
      <3>3. QED
        BY <1>1, <2>2, <3>2 DEF KillUpdater, ServiceSteps, Accepting
    <2>3. QED
      BY <1>1, <1>4, <2>1, <2>2
      DEF UpdateStep, OwnStep, CheckConfirmation, Download, GiveUp, WriteRecord, WriteMarker,
          FinishInstall, FailInstall
  <1>5. CASE AcceptRollback \/ GoOnAccepting \/ BeginRollback \/ ReadRecord \/ FinishRollback \/ FailRollback
    BY <1>0, <1>5
    DEF AcceptRollback, GoOnAccepting, BeginRollback, ReadRecord, FinishRollback, FailRollback,
        RemoveStatus, WriteStatus, Writing, MarkType
  <1>6. CASE FailAcceptance \/ KillRunner
    BY <1>6 DEF FailAcceptance, KillRunner, Torn, FailureInv
  <1>7. CASE HandOff \/ RunRollback
    <2>1. ~mixed
      BY <1>7 DEF HandOff, RunRollback
    <2>2. failure = "shown" /\ runner.step \notin Writing
      BY <1>7 DEF HandOff, RunRollback, RemoveStatus, Writing
    <2>3. sidecar = "failed"
      BY <2>1, <2>2 DEF FailureInv
    <2>4. QED
      BY <1>0, <1>7, <2>3 DEF HandOff, RunRollback, RemoveStatus, Writing, MarkType
  <1>8. CASE RestoreData \/ RemovePointer \/ SwitchProgram \/ RemoveMarker \/ StartPrevious \/ ExpireLease
    <2>1. ~mixed /\ failure = "shown" /\ runner.step \notin Writing
      BY <1>8 DEF RestoreData, RemovePointer, SwitchProgram, RemoveMarker, StartPrevious, ExpireLease, Writing
    <2>2. sidecar = "failed"
      BY <2>1 DEF FailureInv
    <2>3. QED
      BY <1>8, <2>2 DEF RestoreData, RemovePointer, SwitchProgram, RemoveMarker, StartPrevious,
                        ExpireLease, RollbackActive
  <1>9. CASE UNCHANGED vars
    BY <1>1, <1>9 DEF vars
  <1>10. QED
    BY <1>2, <1>3, <1>4, <1>5, <1>6, <1>7, <1>8, <1>9 DEF Next, Rollback

\* A failed rollback stays on show until an update has its record and its marker in place or a
\* later rollback has written its own status, through every kill and failure but one that hits
\* such a write between its two halves.
THEOREM FailureStaysOnShow == Spec => []FailureKept
  <1>1. Init => mixed \/ FailureInv
    BY DEF Init, FailureInv
  <1>2. IInv /\ (mixed \/ SoloInv) /\ (mixed \/ FailureInv) /\ [Next]_vars => (mixed \/ FailureInv)'
    BY FailureNext
  <1>3. mixed \/ FailureInv => FailureKept
    BY DEF FailureInv, FailureKept
  <1>4. QED
    BY <1>1, <1>2, <1>3, InitIInv, InitSolo, IInvNext, SoloNext, PTL DEF Spec

-----------------------------------------------------------------------------
(* The verdict on a new version.  The marker never falls behind what is     *)
(* installed or about to be: versions on the channel only grow, and only a  *)
(* rollback removes the marker, which leaves another version in place.      *)

Late == {"downloading", "recording", "marking", "launching"}

MarkerInv ==
    /\ health.target <= published.version
    /\ \A v \in Versions : files[v] # None => files[v].version = v
    /\ \A u \in Updaters : upd[u].phase \in Late =>
          /\ upd[u].by < upd[u].release.version /\ upd[u].release.version <= published.version
          /\ health.target <= upd[u].release.version
    /\ \A u \in Updaters : upd[u].phase = "launching" => health.status # "none"
    /\ \A u \in Updaters : installer[u] # None =>
          /\ health.target = installer[u].version /\ health.status # "none"
          /\ running <= health.target /\ current <= health.target
    /\ record # NoRecord => record.previous < record.target
    /\ runner.step \in Behind => running = 0

VerdictInv ==
    /\ running # 0 /\ running # current =>
          running < current /\ current <= health.target /\ health.status # "none"
    /\ current # 0 /\ current = record.target => health.target = current /\ health.status # "none"
    /\ running # 0 /\ running = record.target =>
          health.target = running /\ health.status \in {"healthy", "failed"}

JudgeInv == MarkerInv /\ VerdictInv

LEMMA MoreNumbers ==
    ASSUME IInv
    PROVE  /\ running \in Nat /\ current \in Nat /\ health.target \in Nat /\ published.version \in Nat
           /\ record.previous \in Nat /\ record.target \in Nat
           /\ \A u \in Updaters : upd[u].by \in Nat
           /\ \A u \in Updaters : upd[u].phase # "idle" =>
                 upd[u].release.version \in Versions /\ upd[u].release.version \in Nat
                 /\ upd[u].release.version # 0
  <1>0. UpdType /\ ProgramType /\ ChoiceType /\ MarkType /\ ConfirmedInv
    BY TypeParts DEF IInv
  <1>1. /\ \A v \in Versions \cup {0} : v \in Nat
        /\ \A v \in Versions : v # 0
        /\ \A r \in Releases : r.version \in Versions
    BY Values
  <1>2. health.target \in Versions \cup {0} /\ record.target \in Versions \cup {0}
    BY <1>0 DEF MarkType, Records
  <1>3. \A u \in Updaters : upd[u].by \in Versions \cup {0}
    BY <1>0 DEF UpdType
  <1>4. \A u \in Updaters : upd[u].phase # "idle" => upd[u].release \in Releases
    BY <1>0 DEF ConfirmedInv, ChoiceType
  <1>5. published \in Releases
    BY <1>0 DEF ChoiceType
  <1>6. running \in Nat /\ current \in Nat /\ record.previous \in Nat
    BY <1>0, Numbers
  <1>7. QED
    BY <1>1, <1>2, <1>3, <1>4, <1>5, <1>6

LEMMA JudgeSteps ==
    ASSUME IInv, SoloInv, JudgeInv, NEW u \in Updaters, UpdateStep(u)
    PROVE  JudgeInv'
  <1> USE DEF programVars, settingVars, markVars, workVars, seenVars, Late
  <1>0. UpdType /\ ProgramType /\ MarkType /\ ConfirmedInv /\ ChoiceType
    BY TypeParts DEF IInv
  <1>1. /\ upd \in [Updaters -> [phase : Phases, by : Versions \cup {0}, release : Releases \cup {None}]]
        /\ files \in [Versions -> Releases \cup {None}]
        /\ installer \in [Updaters -> Releases \cup {None}]
        /\ Updaters = {"web", "cli"} /\ NoUpdate.phase = "idle"
    BY <1>0 DEF UpdType, NoUpdate, Updaters
  <1>2. /\ upd[u].phase # "idle" \/ installer[u] # None =>
              runner.step = "none" /\ \A v \in Updaters \ {u} : ~Active(v)
        /\ \A v \in Updaters : Active(v) <=> upd[v].phase # "idle" \/ installer[v] # None
    BY DEF SoloInv, AloneInv, Active
  <1>3. ASSUME NEW to, upd[u].phase # "idle", upd' = [upd EXCEPT ![u].phase = to]
        PROVE  /\ upd'[u].phase = to /\ upd'[u].by = upd[u].by /\ upd'[u].release = upd[u].release
               /\ \A v \in Updaters \ {u} : upd'[v] = upd[v]
    BY <1>1, <1>3
  <1>4. /\ running \in Nat /\ current \in Nat /\ health.target \in Nat /\ published.version \in Nat
        /\ record.previous \in Nat /\ record.target \in Nat /\ upd[u].by \in Nat
        /\ upd[u].phase # "idle" => upd[u].release.version \in Nat /\ upd[u].release.version # 0
                                    /\ upd[u].release.version \in Versions
    BY MoreNumbers
  <1>5. MarkerInv /\ VerdictInv
    BY DEF JudgeInv
  \* A version beyond what its updater knows is not the running one, nor is it, for
  \* bin/update.js, the current one.
  <1>6. ASSUME upd[u].phase \in Late
        PROVE  /\ running < upd[u].release.version /\ current <= upd[u].release.version
               /\ current = upd[u].release.version => running # 0 /\ running # current
    <2>1. /\ upd[u].by < upd[u].release.version /\ health.target <= upd[u].release.version
          /\ upd[u].release.version \in Nat /\ upd[u].release.version # 0 /\ upd[u].by # 0
      BY <1>4, <1>5, <1>6 DEF MarkerInv, SoloInv, WorkInv
    <2>2. running # 0 /\ running # current => running < current /\ current <= health.target
      BY <1>5 DEF VerdictInv
    <2>3. running = upd[u].by \/ current = upd[u].by
      BY <1>1, <1>6 DEF SoloInv, WorkInv
    <2>4. QED
      BY <1>4, <2>1, <2>2, <2>3
  <1>7. CASE CheckConfirmation(u)
    <2>1. /\ upd[u].phase = "checking"
          /\ \/ upd'[u].phase = "idle"
             \/ /\ upd'[u].phase = "downloading" /\ upd'[u].by = upd[u].by
                /\ upd'[u].release = published /\ published.version > upd[u].by
          /\ \A v \in Updaters \ {u} : upd'[v] = upd[v]
          /\ UNCHANGED <<published, programVars, markVars, files, installer, runner>>
      BY <1>1, <1>7 DEF CheckConfirmation
    <2>2. MarkerInv'
      BY <1>2, <1>4, <1>5, <2>1 DEF MarkerInv
    <2>3. VerdictInv'
      BY <1>5, <2>1 DEF VerdictInv
    <2>4. QED
      BY <2>2, <2>3 DEF JudgeInv
  <1>8. CASE Download(u)
    <2>1. upd[u].phase = "downloading" /\ upd' = [upd EXCEPT ![u].phase = "recording"]
          /\ UNCHANGED <<published, programVars, markVars, installer, runner>>
          /\ files' = [files EXCEPT ![upd[u].release.version] = upd[u].release]
      BY <1>8 DEF Download, Phase
    <2>2. \A v \in Versions : files'[v] # None => files'[v].version = v
      BY <1>1, <1>4, <1>5, <2>1 DEF MarkerInv
    <2>3. MarkerInv'
      BY <1>2, <1>3, <1>5, <2>1, <2>2 DEF MarkerInv
    <2>4. VerdictInv'
      BY <1>5, <2>1 DEF VerdictInv
    <2>5. QED
      BY <2>3, <2>4 DEF JudgeInv
  <1>9. CASE GiveUp(u) \/ KillUpdater(u)
    <2>1. /\ upd[u].phase # "idle" /\ upd' = [upd EXCEPT ![u] = NoUpdate]
          /\ UNCHANGED <<published, current, installed, schema, markVars, files, installer, runner>>
          /\ running' = running \/ running' = 0
      BY <1>2, <1>9 DEF GiveUp, KillUpdater, ServiceSteps, Accepting
    <2>2. upd'[u].phase = "idle" /\ \A v \in Updaters \ {u} : upd'[v] = upd[v]
      BY <1>1, <2>1
    <2>3. MarkerInv'
      BY <1>4, <1>5, <2>1, <2>2 DEF MarkerInv
    <2>4. VerdictInv'
      BY <1>5, <2>1 DEF VerdictInv
    <2>5. QED
      BY <2>3, <2>4 DEF JudgeInv
  <1>10. CASE WriteRecord(u)
    <2>1. upd[u].phase = "recording" /\ upd' = [upd EXCEPT ![u].phase = "marking"]
          /\ UNCHANGED <<published, programVars, health, files, installer, runner>>
          /\ record'.previous = upd[u].by /\ record'.target = upd[u].release.version
      BY <1>10 DEF WriteRecord, Phase, NewRecord
    <2>2. upd[u].by < upd[u].release.version /\ health.target <= upd[u].release.version
      BY <1>5, <2>1 DEF MarkerInv
    <2>3. MarkerInv'
      BY <1>2, <1>3, <1>5, <2>1, <2>2 DEF MarkerInv
    <2>4. VerdictInv'
      BY <1>4, <1>5, <1>6, <2>1, <2>2 DEF VerdictInv
    <2>5. QED
      BY <2>3, <2>4 DEF JudgeInv
  <1>11. CASE WriteMarker(u)
    <2>1. upd[u].phase = "marking" /\ upd' = [upd EXCEPT ![u].phase = "launching"]
          /\ UNCHANGED <<published, programVars, record, files, installer, runner>>
          /\ health' = [target |-> upd[u].release.version, status |-> "pending"]
      BY <1>11 DEF WriteMarker, Phase
    <2>2. health.target <= upd[u].release.version /\ record.target = upd[u].release.version
          /\ upd[u].release.version <= published.version
      BY <1>5, <2>1 DEF MarkerInv, SoloInv, RecordInv
    <2>3. installer[u] = None
      BY <2>1 DEF SoloInv, AloneInv
    <2>4. MarkerInv'
      BY <1>2, <1>3, <1>4, <1>5, <2>1, <2>2, <2>3 DEF MarkerInv
    <2>5. VerdictInv'
      BY <1>4, <1>5, <1>6, <2>1, <2>2 DEF VerdictInv
    <2>6. QED
      BY <2>4, <2>5 DEF JudgeInv
  <1>12. CASE Launch(u)
    <2>1. upd[u].phase = "launching" /\ upd' = [upd EXCEPT ![u].phase = "installing"]
          /\ UNCHANGED <<published, programVars, record, health, files, runner>>
          /\ installer' = [installer EXCEPT ![u] = files[upd[u].release.version]]
      BY <1>12 DEF Launch, Phase
    <2>2. /\ health.target = upd[u].release.version /\ health.status # "none"
          /\ running <= health.target /\ current <= health.target
      BY <1>4, <1>5, <1>6, <2>1 DEF MarkerInv, SoloInv, RecordInv
    <2>3. /\ installer'[u] # None => installer'[u].version = health.target
          /\ \A v \in Updaters \ {u} : installer'[v] = installer[v]
      BY <1>1, <1>4, <1>5, <2>1, <2>2 DEF MarkerInv
    <2>4. MarkerInv'
      BY <1>2, <1>3, <1>5, <2>1, <2>2, <2>3 DEF MarkerInv
    <2>5. VerdictInv'
      BY <1>5, <2>1 DEF VerdictInv
    <2>6. QED
      BY <2>4, <2>5 DEF JudgeInv
  <1>13. CASE FinishInstall(u) \/ FailInstall(u)
    <2>1. /\ installer[u] # None /\ installer' = [installer EXCEPT ![u] = None]
          /\ UNCHANGED <<published, running, schema, markVars, files, runner>>
          /\ \A v \in Updaters \ {u} : upd'[v] = upd[v]
          /\ current' = current \/ current' = installer[u].version
      BY <1>1, <1>13 DEF FinishInstall, FailInstall, Installed
    <2>2. upd'[u].phase \notin Late
      BY <1>1, <1>13, <2>1 DEF FinishInstall, FailInstall, Installed, SoloInv, AloneInv
    <2>3. installer'[u] = None /\ \A v \in Updaters \ {u} : installer'[v] = installer[v]
      BY <1>1, <2>1
    <2>4. /\ health.target = installer[u].version /\ health.status # "none"
          /\ running <= health.target /\ current <= health.target
      BY <1>5, <2>1 DEF MarkerInv
    <2>5. MarkerInv'
      BY <1>2, <1>5, <2>1, <2>2, <2>3 DEF MarkerInv
    <2>6. VerdictInv'
      BY <1>4, <1>5, <2>1, <2>4 DEF VerdictInv
    <2>7. QED
      BY <2>5, <2>6 DEF JudgeInv
  <1>14. QED
    BY <1>7, <1>8, <1>9, <1>10, <1>11, <1>12, <1>13 DEF UpdateStep, OwnStep

LEMMA JudgeNext ==
    IInv /\ (mixed \/ (SoloInv /\ JudgeInv)) /\ [Next]_vars => (mixed \/ JudgeInv)'
  <1> SUFFICES ASSUME IInv, mixed \/ (SoloInv /\ JudgeInv), [Next]_vars, ~mixed'
               PROVE  JudgeInv'
    OBVIOUS
  <1> USE DEF programVars, settingVars, markVars, workVars, seenVars, Late
  <1>0. UpdType /\ ProgramType /\ MarkType /\ ConfirmedInv /\ ChoiceType
    BY TypeParts DEF IInv
  <1>1. /\ upd \in [Updaters -> [phase : Phases, by : Versions \cup {0}, release : Releases \cup {None}]]
        /\ Updaters = {"web", "cli"} /\ upd.web = upd["web"] /\ upd.cli = upd["cli"]
        /\ NoUpdate.phase = "idle"
    BY <1>0 DEF UpdType, NoUpdate, Updaters
  <1>2. /\ running \in Nat /\ current \in Nat /\ health.target \in Nat /\ published.version \in Nat
        /\ record.previous \in Nat /\ record.target \in Nat
        /\ \A u \in Updaters : upd[u].phase # "idle" => upd[u].release.version \in Nat
    BY MoreNumbers
  \* Steps that leave the marker, the record and the files alone.
  <1>3. ASSUME mixed' = mixed \/ ~mixed, published' = published,
               UNCHANGED <<current, markVars, files, installer>>,
               \A v \in Updaters : upd'[v] = upd[v] \/ upd'[v].phase \in {"idle", "checking"},
               runner'.step \in Behind => runner.step \in Behind,
               running' \in {0, running}
        PROVE  JudgeInv'
    <2>1. MarkerInv /\ VerdictInv
      BY <1>3 DEF JudgeInv
    <2>2. MarkerInv'
      BY <1>2, <1>3, <2>1 DEF MarkerInv
    <2>3. VerdictInv'
      BY <1>3, <2>1 DEF VerdictInv
    <2>4. QED
      BY <2>2, <2>3 DEF JudgeInv
  <1>4. CASE Publish
    <2>1. /\ published'.version >= published.version /\ published'.version \in Nat
          /\ UNCHANGED <<programVars, markVars, workVars, mixed>>
      BY <1>0, <1>4, Values DEF Publish, ChoiceType
    <2>2. MarkerInv /\ VerdictInv
      BY <2>1 DEF JudgeInv
    <2>3. MarkerInv'
      BY <1>2, <2>1, <2>2 DEF MarkerInv
    <2>4. VerdictInv'
      BY <2>1, <2>2 DEF VerdictInv
    <2>5. QED
      BY <2>3, <2>4 DEF JudgeInv
  <1>5. CASE Check \/ Resume \/ \E choice \in seen : Defer(choice)
    BY <1>3, <1>5 DEF Check, Resume, Defer
  <1>6. ASSUME NEW choice \in seen, Apply(choice) \/ RunCli(choice) PROVE JudgeInv'
    <2>1. PICK u \in Updaters, version \in {running, current} : Begin(u, choice, version)
      BY <1>6 DEF Apply, RunCli, Updaters
    <2>2. \A v \in Updaters : upd'[v] = upd[v] \/ upd'[v].phase = "checking"
      BY <1>1, <2>1 DEF Begin
    <2>3. ~mixed /\ published' = published
          /\ UNCHANGED <<running, current, markVars, files, installer, runner>>
      BY <2>1 DEF Begin
    <2>4. QED
      BY <1>3, <2>2, <2>3
  <1>7. ASSUME NEW u \in Updaters, UpdateStep(u) PROVE JudgeInv'
    <2>1. mixed' = mixed
      BY <1>7 DEF UpdateStep, OwnStep, CheckConfirmation, Download, GiveUp, WriteRecord, WriteMarker,
                  Launch, FinishInstall, FailInstall, KillUpdater
    <2>2. QED
      BY <1>7, <2>1, JudgeSteps
  <1>8. CASE VerifyTimeout \/ StopService \/ Restart
    <2>1. /\ UNCHANGED <<published, current, markVars, files, installer, runner, mixed>>
          /\ upd' = upd \/ upd' = WebForgotten
          /\ running' \in {0, running}
      BY <1>8 DEF VerifyTimeout, StopService, Restart
    <2>2. \A v \in Updaters : upd'[v] = upd[v] \/ upd'[v].phase = "idle"
      BY <1>1, <2>1 DEF WebForgotten
    <2>3. QED
      BY <1>3, <2>1, <2>2
  <1>9. CASE BreakStart \/ ExpireLease
    <2>1. UNCHANGED <<published, running, current, record, health, upd, files, installer, runner, mixed>>
      BY <1>9 DEF BreakStart, ExpireLease
    <2>2. MarkerInv /\ VerdictInv
      BY <2>1 DEF JudgeInv
    <2>3. MarkerInv' /\ VerdictInv'
      BY <2>1, <2>2 DEF MarkerInv, VerdictInv
    <2>4. QED
      BY <2>3 DEF JudgeInv
  \* What a start leaves in the marker.
  <1>10. ASSUME NEW version, Start(version)
         PROVE  /\ health'.target = health.target
                /\ health.status # "none" =>
                      health'.status # "none"
                      /\ (health'.status \in {"healthy", "failed"})
    BY <1>0, <1>10 DEF Start, Judged, MarkType
  <1>11. CASE StartService
    <2>1. /\ running' = current /\ ~RollbackActive
          /\ UNCHANGED <<published, current, record, sidecar, upd, files, installer, runner, mixed>>
      BY <1>11 DEF StartService, Start
    <2>2. SoloInv /\ MarkerInv /\ VerdictInv
      BY <2>1 DEF JudgeInv
    <2>3. runner.step \notin Behind
      BY <2>1, <2>2 DEF RollbackActive, SoloInv, RunnerInv
    <2>4. Start(current)
      BY <1>11 DEF StartService
    <2>5. MarkerInv'
      BY <1>10, <2>1, <2>2, <2>3, <2>4 DEF MarkerInv
    <2>6. VerdictInv'
      BY <1>10, <2>1, <2>2, <2>4 DEF VerdictInv
    <2>7. QED
      BY <2>5, <2>6 DEF JudgeInv
  <1>12. CASE HandOff \/ KillRunner
    <2>1. /\ UNCHANGED <<published, current, record, health, files, installer, mixed>>
          /\ upd' = upd \/ upd' = WebForgotten
          /\ running' \in {0, running} /\ runner'.step \notin Behind
      BY <1>0, <1>12 DEF HandOff, KillRunner, RemoveStatus, AtStep, NoRunner, Behind, MarkType
    <2>2. \A v \in Updaters : upd'[v] = upd[v] \/ upd'[v].phase = "idle"
      BY <1>1, <2>1 DEF WebForgotten
    <2>3. MarkerInv /\ VerdictInv
      BY <2>1 DEF JudgeInv
    <2>4. MarkerInv'
      BY <1>2, <2>1, <2>2, <2>3 DEF MarkerInv
    <2>5. VerdictInv'
      BY <2>1, <2>3 DEF VerdictInv
    <2>6. QED
      BY <2>4, <2>5 DEF JudgeInv
  <1>13. CASE \/ AcceptRollback \/ GoOnAccepting \/ FailAcceptance \/ RunRollback
              \/ BeginRollback \/ ReadRecord \/ FinishRollback \/ FailRollback
    <2>1. /\ UNCHANGED <<published, running, current, record, health, upd, files, installer>>
          /\ runner'.step \notin Behind
      BY <1>0, <1>13
      DEF AcceptRollback, GoOnAccepting, FailAcceptance, RunRollback, BeginRollback, ReadRecord,
          FinishRollback, FailRollback, RemoveStatus, WriteStatus, AtStep, NoRunner, Behind, MarkType
    <2>2. ~mixed
      BY <1>13
      DEF AcceptRollback, GoOnAccepting, FailAcceptance, RunRollback, BeginRollback, ReadRecord,
          FinishRollback, FailRollback
    <2>3. MarkerInv /\ VerdictInv
      BY <2>2 DEF JudgeInv
    <2>4. MarkerInv' /\ VerdictInv'
      BY <2>1, <2>3 DEF MarkerInv, VerdictInv
    <2>5. QED
      BY <2>4 DEF JudgeInv
  <1>14. CASE RestoreData
    <2>1. /\ running = 0
          /\ UNCHANGED <<published, running, current, record, health, upd, files, installer, mixed>>
      BY <1>14 DEF RestoreData, MayRestore
    <2>2. MarkerInv /\ VerdictInv
      BY <2>1 DEF JudgeInv
    <2>3. MarkerInv' /\ VerdictInv'
      BY <2>1, <2>2 DEF MarkerInv, VerdictInv
    <2>4. QED
      BY <2>3 DEF JudgeInv
  <1>15. CASE RemovePointer
    <2>1. /\ runner.step = "restored" /\ current' = 0
          /\ UNCHANGED <<published, running, record, health, upd, files, installer, mixed>>
      BY <1>15 DEF RemovePointer
    <2>2. MarkerInv /\ VerdictInv /\ running = 0
      BY <2>1 DEF JudgeInv, MarkerInv, Behind
    <2>3. MarkerInv' /\ VerdictInv'
      BY <2>1, <2>2 DEF MarkerInv, VerdictInv
    <2>4. QED
      BY <2>3 DEF JudgeInv
  <1>16. CASE SwitchProgram \/ RemoveMarker
    <2>1. /\ runner.step \in {"unpointed", "switched"}
          /\ UNCHANGED <<published, running, record, upd, files, installer, mixed>>
          /\ \/ current' = runner.record.previous /\ UNCHANGED health
             \/ runner.step = "switched" /\ UNCHANGED current /\ health' = NoHealth
      BY <1>16 DEF SwitchProgram, RemoveMarker
    <2>2. /\ SoloInv /\ MarkerInv /\ VerdictInv /\ running = 0 /\ runner.record = record
          /\ runner.step = "switched" => current = record.previous
      BY <2>1 DEF JudgeInv, MarkerInv, SoloInv, RunnerInv, Behind
    <2>3. \A v \in Updaters : upd[v].phase = "idle" /\ installer[v] = None
      BY <2>1, <2>2 DEF SoloInv, AloneInv, Active
    <2>4. record.previous # 0 => record.previous # record.target
      BY <1>2, <2>2 DEF MarkerInv, NoRecord
    <2>5. NoHealth.target = 0
      BY DEF NoHealth
    <2>6. MarkerInv'
      BY <1>2, <2>1, <2>2, <2>3, <2>5 DEF MarkerInv
    <2>7. VerdictInv'
      BY <2>1, <2>2, <2>4 DEF VerdictInv
    <2>8. QED
      BY <2>6, <2>7 DEF JudgeInv
  <1>17. CASE StartPrevious
    <2>1. /\ runner.step = "cleared" /\ running' = runner.record.previous /\ runner'.step = "started"
          /\ UNCHANGED <<published, current, record, upd, files, installer, mixed>>
          /\ Start(runner.record.previous)
      BY <1>0, <1>17 DEF StartPrevious, Start, MarkType
    <2>2. SoloInv /\ MarkerInv /\ VerdictInv /\ runner.record = record /\ current = record.previous
      BY <2>1 DEF JudgeInv, SoloInv, RunnerInv, Behind
    <2>3. record.previous # 0 => record.previous # record.target
      BY <1>2, <2>2 DEF MarkerInv, NoRecord
    <2>4. \A v \in Updaters : upd[v].phase = "idle" /\ installer[v] = None
      BY <2>1, <2>2 DEF SoloInv, AloneInv, Active
    <2>5. MarkerInv'
      BY <1>10, <2>1, <2>2, <2>4 DEF MarkerInv, Behind
    <2>6. VerdictInv'
      BY <1>10, <2>1, <2>2, <2>3 DEF VerdictInv
    <2>7. QED
      BY <2>5, <2>6 DEF JudgeInv
  <1>18. CASE UNCHANGED vars
    <2>1. UNCHANGED <<published, running, current, record, health, upd, files, installer, runner, mixed>>
      BY <1>18 DEF vars
    <2>2. MarkerInv /\ VerdictInv
      BY <2>1 DEF JudgeInv
    <2>3. MarkerInv' /\ VerdictInv'
      BY <2>1, <2>2 DEF MarkerInv, VerdictInv
    <2>4. QED
      BY <2>3 DEF JudgeInv
  <1>19. QED
    BY <1>4, <1>5, <1>6, <1>7, <1>8, <1>9, <1>11, <1>12, <1>13, <1>14, <1>15, <1>16, <1>17, <1>18
    DEF Next, Rollback

LEMMA InitJudge == Init => mixed \/ JudgeInv
  <1> SUFFICES ASSUME Init PROVE JudgeInv
    OBVIOUS
  <1>1. runner.step = "none" /\ \A u \in Updaters : upd[u].phase = "idle" /\ installer[u] = None
    BY DEF Init, NoUpdate, NoRunner
  <1>2. running = 1 /\ current = 1 /\ record = NoRecord /\ NoRecord.target = 0
        /\ health.target = 0 /\ published.version = 2
    BY DEF Init, NoHealth, First, NoRecord
  <1>3. \A v \in Versions : files[v] = None
    BY DEF Init
  <1>4. MarkerInv
    BY <1>1, <1>2, <1>3 DEF MarkerInv, Late, Behind
  <1>5. VerdictInv
    BY <1>2 DEF VerdictInv
  <1>6. QED
    BY <1>4, <1>5 DEF JudgeInv

\* A version that an update has put in place never serves without a verdict on it, whichever
\* of the record, the marker, the installer and the start a kill separates.
THEOREM NewVersionIsJudged == Spec => []NewVersionJudged
  <1>1. JudgeInv => NewVersionJudged
    BY DEF JudgeInv, VerdictInv, NewVersionJudged
  <1>2. mixed => NewVersionJudged
    BY DEF NewVersionJudged
  <1>3. QED
    BY <1>1, <1>2, InitIInv, InitSolo, InitJudge, IInvNext, SoloNext, JudgeNext, PTL DEF Spec
=============================================================================

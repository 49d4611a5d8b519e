----------------------------- MODULE Sources_proofs -----------------------------
(***************************************************************************)
(* Proofs about Sources, for any sites, pages, sources and configuration    *)
(* file, any number of due sites to a tick and any number of steps of the   *)
(* user and deaths of the service.                                          *)
(***************************************************************************)
EXTENDS Sources, TLAPS

\* A live run has a row that says running, and a service that is down has no runs.
RunsInv ==
    /\ \A s \in Sites : Live(s) => s \in rows
    /\ ~up => \A s \in Sites : ~Live(s)

\* A source without a row is not on.
SourcesInv ==
    /\ ScheduledWhenEnabled
    /\ \A k \in Keys \ exists : ~enabled[k]

\* A recipe found wanting is on the list of a tick only if that came later.
ListInv == \A s \in dueList : recipe[s] = "needs_review" => s \in late

IInv == TypeOK /\ RunsInv /\ SourcesInv /\ ListInv

-----------------------------------------------------------------------------
LEMMA InitTypeOK == Init => TypeOK
  <1> SUFFICES ASSUME Init PROVE TypeOK
    OBVIOUS
  <1>1. seeds \in [Pages -> [on : BOOLEAN, use : {"none", "monitor", "discovery"}, key : Keys \cup {None}]]
    <2>1. ASSUME NEW p \in Pages, EntryKeys(p) # {}
          PROVE  (CHOOSE k \in EntryKeys(p) : TRUE) \in Keys
      BY <2>1 DEF EntryKeys, Init
    <2>2. QED
      BY <2>1 DEF Init, NoSeed
  <1>2. exists \subseteq Keys /\ settings \subseteq Sites /\ acts \in 0..MaxActs /\ faults \in Nat
    BY MaxActsAssumption, KeysAssumption DEF Init
  <1>3. QED
    BY <1>1, <1>2 DEF Init, TypeOK, RecipeStatus, FrontierStatus, CandidateStatus

\* What a choice of sources or of an entry page consists of.
LEMMA Choices ==
    ASSUME TypeOK, NEW s \in Sites
    PROVE  /\ SourceChoice(s) \subseteq Keys
           /\ SeedChoice(s) \subseteq PagesOf(s)
           /\ PagesOf(s) \subseteq Pages
  BY DEF TypeOK, SourceChoice, OnSources, SourcesOf, NewKeys, SeedChoice, EnabledSeeds, PagesOf

\* What a sync writes, as far as it comes.
SyncExtent ==
    [rowsOf : SUBSET Defined, settingsOf : SUBSET Defined, pagesOf : SUBSET Defined, off : SUBSET Pruned]

SyncOf(x) == x.settingsOf \subseteq x.rowsOf /\ x.pagesOf \subseteq x.rowsOf
             /\ SyncWrites(x.rowsOf, x.settingsOf, x.pagesOf, x.off)

\* A sync that comes to its end and one that breaks off write some extent of it.
LEMMA SyncExtents == SyncSources \/ SyncBreaksOff => \E x \in SyncExtent : SyncOf(x)
  <1>1. ASSUME NEW r \in SUBSET Defined, NEW m \in SUBSET r, NEW d \in SUBSET r, NEW off \in SUBSET Pruned,
               SyncWrites(r, m, d, off)
        PROVE  \E x \in SyncExtent : SyncOf(x)
    <2>1. [rowsOf |-> r, settingsOf |-> m, pagesOf |-> d, off |-> off] \in SyncExtent
      BY DEF SyncExtent
    <2>2. SyncOf([rowsOf |-> r, settingsOf |-> m, pagesOf |-> d, off |-> off])
      BY <1>1 DEF SyncOf
    <2>3. QED
      BY <2>1, <2>2
  <1>2. CASE SyncSources
    BY <1>1, <1>2 DEF SyncSources
  <1>3. ASSUME NEW k \in Defined, NEW done \in SUBSET (Defined \ {k}),
               \/ SyncWrites(done, done, done, {})
               \/ SyncWrites(done \cup {k}, done, done, {})
               \/ SyncWrites(done \cup {k}, done \cup {k}, done, {})
        PROVE  \E x \in SyncExtent : SyncOf(x)
    <2>1. done \in SUBSET Defined /\ done \cup {k} \in SUBSET Defined
      OBVIOUS
    <2>2. CASE SyncWrites(done, done, done, {})
      BY <1>1, <2>1, <2>2
    <2>3. CASE SyncWrites(done \cup {k}, done, done, {})
      BY <1>1, <2>1, <2>3
    <2>4. CASE SyncWrites(done \cup {k}, done \cup {k}, done, {})
      BY <1>1, <2>1, <2>4
    <2>5. QED
      BY <1>3, <2>2, <2>3, <2>4
  <1>4. ASSUME NEW k \in Pruned, NEW off \in SUBSET (Pruned \ {k}), SyncWrites(Defined, Defined, Defined, off)
        PROVE  \E x \in SyncExtent : SyncOf(x)
    BY <1>1, <1>4
  <1>5. QED
    BY <1>2, <1>3, <1>4 DEF SyncBreaksOff

SyncTyped ==
    /\ exists' \subseteq Keys /\ reenabled' \subseteq Keys /\ torn' \subseteq Keys
    /\ enabled' \in [Keys -> BOOLEAN] /\ scheduled' \in [Keys -> BOOLEAN]
    /\ seeds' \in [Pages -> [on : BOOLEAN, use : {"none", "monitor", "discovery"}, key : Keys \cup {None}]]

LEMMA SyncType == TypeOK /\ (SyncSources \/ SyncBreaksOff) => SyncTyped
  <1> SUFFICES ASSUME TypeOK, NEW x \in SyncExtent, SyncOf(x)
               PROVE  SyncTyped
    BY SyncExtents
  <1>1. Defined \subseteq Keys /\ x.rowsOf \subseteq Defined /\ x.settingsOf \subseteq Defined
        /\ x.pagesOf \subseteq Defined
    BY KeysAssumption DEF Defined, SyncExtent
  <1>2. ASSUME NEW flag \in [Keys -> BOOLEAN], NEW keys \in SUBSET Defined
        PROVE  Upserted(flag, keys) \in [Keys -> BOOLEAN]
    BY KeysAssumption DEF Upserted, Defined, TypeOK
  <1>3. enabled' \in [Keys -> BOOLEAN] /\ scheduled' \in [Keys -> BOOLEAN]
    BY <1>1, <1>2 DEF SyncOf, SyncWrites, TypeOK
  <1>4. seeds' \in [Pages -> [on : BOOLEAN, use : {"none", "monitor", "discovery"}, key : Keys \cup {None}]]
    <2>1. ASSUME NEW p \in Pages, \E k \in x.pagesOf : p \in ConfigPages[k]
          PROVE  (CHOOSE k \in x.pagesOf : p \in ConfigPages[k]) \in Keys
      BY <2>1, <1>1
    <2>2. QED
      BY <2>1 DEF SyncOf, SyncWrites, TypeOK
  <1>5. exists' \subseteq Keys /\ reenabled' \subseteq Keys /\ torn' \subseteq Keys
    BY <1>1 DEF SyncOf, SyncWrites, TypeOK
  <1>6. QED
    BY <1>3, <1>4, <1>5 DEF SyncTyped

\* The type of what a start of a run writes.
StartedType ==
    /\ settings' \subseteq Sites /\ due' \subseteq settings'
    /\ frontier' \in [Pages -> FrontierStatus]
    /\ rows' \subseteq Sites
    /\ runner' \in [Sites -> {"none", "tick", "user"}]
    /\ stage' \in [Sites -> {"none", "robots", "pages"}]

LEMMA StartRunType ==
    ASSUME TypeOK, NEW s \in Sites, NEW who \in {"tick", "user"}, StartRun(s, who)
    PROVE  StartedType
  BY Choices DEF StartedType, StartRun, EnsureSettings, TypeOK, FrontierStatus

LEMMA StartFailsType ==
    ASSUME TypeOK, NEW s \in Sites, StartFails(s)
    PROVE  settings' \subseteq Sites /\ due' \subseteq settings' /\ rows' \subseteq Sites /\ faults' \in Nat
  BY DEF StartFails, EnsureSettings, TypeOK

LEMMA EnqueueType ==
    ASSUME frontier \in [Pages -> FrontierStatus], NEW pages
    PROVE  Enqueue(pages) \in [Pages -> FrontierStatus]
  BY DEF Enqueue, FrontierStatus

LEMMA ForgetType ==
    ASSUME TypeOK, NEW sites \in SUBSET Sites, Forget(sites)
    PROVE  /\ runner' \in [Sites -> {"none", "tick", "user"}]
           /\ stage' \in [Sites -> {"none", "robots", "pages"}]
           /\ disallowed' \in [Sites -> SUBSET Pages]
           /\ frontier' \in [Pages -> FrontierStatus]
           /\ found' \subseteq Sites
  BY DEF Forget, TypeOK, FrontierStatus

LEMMA Ended ==
    ASSUME NEW s \in Sites, EndRun(s) \/ AbortRun(s)
    PROVE  \E good \in BOOLEAN : FinishRun(s, good)
  <1>1. (s \in found) \in BOOLEAN
    OBVIOUS
  <1>2. EndRun(s) => \E good \in BOOLEAN : FinishRun(s, good)
    BY <1>1, Zenon DEF EndRun
  <1>3. QED
    BY <1>2 DEF AbortRun

\* What the user's pages write of a source and a seed.
LEMMA ConfirmTyped ==
    ASSUME TypeOK, NEW p \in Pages, NEW k \in Keys,
           \/ ConfirmForDiscovery(p, k) \/ ConfirmForMonitoring(p, k)
           \/ (TurnOnRow(k) \/ KeepSource(k) \/ TurnOn(k)) /\ UNCHANGED seeds
    PROVE  SyncTyped
  <1>1. /\ exists' \subseteq Keys /\ reenabled' \subseteq Keys /\ torn' \subseteq Keys
        /\ enabled' \in [Keys -> BOOLEAN] /\ scheduled' \in [Keys -> BOOLEAN]
    BY DEF ConfirmForDiscovery, ConfirmForMonitoring, TurnOnRow, KeepSource, TurnOn, historyVars, TypeOK
  <1>2. seeds' \in [Pages -> [on : BOOLEAN, use : {"none", "monitor", "discovery"}, key : Keys \cup {None}]]
    <2>1. ASSUME NEW use \in {"monitor", "discovery"}
          PROVE  SeedAdded(p, k, use) \in [on : BOOLEAN, use : {"none", "monitor", "discovery"},
                                           key : Keys \cup {None}]
      BY DEF SeedAdded
    <2>2. \/ seeds' = [seeds EXCEPT ![p] = SeedAdded(p, k, "discovery")]
          \/ seeds' = [seeds EXCEPT ![p] = SeedAdded(p, k, "monitor")]
          \/ seeds' = seeds
      BY DEF ConfirmForDiscovery, ConfirmForMonitoring
    <2>3. QED
      BY <2>1, <2>2 DEF TypeOK
  <1>3. QED
    BY <1>1, <1>2 DEF SyncTyped

\* A step that breaks off writes what the whole step may write.
LEMMA FaultType ==
    ASSUME TypeOK,
           \/ TickBreaksOff \/ StartBreaksOff \/ DiscoveryBreaksOff
           \/ \E p \in Pages : ConfirmBreaksOff(p) \/ ApprovalBreaksOff(p)
           \/ \E s \in Sites : ExploreSite(s) /\ StartFails(s)
    PROVE  TypeOK'
  <1> USE DEF planVars, runVars, webVars, tickVars, fileVars, sourceVars, historyVars
  <1>1. CASE TickBreaksOff
    <2>1. SyncTyped
      BY <1>1, SyncType DEF TickBreaksOff
    <2>2. QED
      BY <1>1, <2>1, MaxActsAssumption DEF TickBreaksOff, Fault, SyncTyped, TypeOK
  <1>2. CASE StartBreaksOff
    <2>1. SyncTyped
      BY <1>2, SyncType DEF StartBreaksOff
    <2>2. QED
      BY <1>2, <2>1, MaxActsAssumption DEF StartBreaksOff, RecoverRuns, Fault, SyncTyped, TypeOK
  <1>3. ASSUME NEW s \in Sites, RunBreaksOff(s), DiscoveryBreaksOff PROVE TypeOK'
    <2>1. Forget({s})
      BY <1>3 DEF RunBreaksOff
    <2>2. /\ runner' \in [Sites -> {"none", "tick", "user"}]
          /\ stage' \in [Sites -> {"none", "robots", "pages"}]
          /\ disallowed' \in [Sites -> SUBSET Pages]
          /\ frontier' \in [Pages -> FrontierStatus]
          /\ found' \subseteq Sites
      BY <2>1, ForgetType
    <2>3. recipe' \in [Sites -> RecipeStatus] /\ late' \subseteq Sites /\ rows' \subseteq Sites
      BY <1>3 DEF RunBreaksOff, Judge, TypeOK, RecipeStatus
    <2>4. settings' \subseteq Sites /\ due' \subseteq settings' /\ faults' \in Nat /\ acts' \in 0..MaxActs
      BY <1>3, MaxActsAssumption DEF RunBreaksOff, DiscoveryBreaksOff, TypeOK
    <2>5. QED
      BY <1>3, <2>2, <2>3, <2>4 DEF RunBreaksOff, DiscoveryBreaksOff, TypeOK
  <1>4. ASSUME NEW s \in Sites, DueStartFails(s), DiscoveryBreaksOff PROVE TypeOK'
    <2>1. settings' \subseteq Sites /\ due' \subseteq settings' /\ rows' \subseteq Sites /\ faults' \in Nat
      BY <1>4, StartFailsType DEF DueStartFails
    <2>2. dueList' \subseteq Sites /\ acts' \in 0..MaxActs
      BY <1>4, MaxActsAssumption DEF DueStartFails, DiscoveryBreaksOff, TypeOK
    <2>3. QED
      BY <1>4, <2>1, <2>2 DEF DueStartFails, StartFails, DiscoveryBreaksOff, TypeOK
  <1>5. ASSUME NEW p \in Pages, ConfirmBreaksOff(p) PROVE TypeOK'
    <2>1. PICK k \in Keys :
              \/ ConfirmForDiscovery(p, k) \/ ConfirmForMonitoring(p, k)
              \/ (TurnOnRow(k) \/ KeepSource(k) \/ TurnOn(k)) /\ UNCHANGED seeds
      BY <1>5, SiteOfAssumption, Choices DEF ConfirmBreaksOff
    <2>2. SyncTyped
      BY <2>1, ConfirmTyped
    <2>3. QED
      BY <1>5, <2>2, MaxActsAssumption DEF ConfirmBreaksOff, UserFails, Fault, SyncTyped, TypeOK
  <1>6. ASSUME NEW p \in Pages, ApprovalBreaksOff(p) PROVE TypeOK'
    <2>1. PICK k \in Keys : \/ TurnOnRow(k) /\ UNCHANGED seeds
                            \/ \E chosen : GivenSource(chosen, k)
      BY <1>6, SiteOfAssumption, Choices DEF ApprovalBreaksOff
    <2>2. SyncTyped
      <3>1. CASE TurnOnRow(k) /\ UNCHANGED seeds
        BY <1>6, <3>1, ConfirmTyped
      <3>2. ASSUME NEW chosen, GivenSource(chosen, k) PROVE SyncTyped
        BY <3>2 DEF GivenSource, SyncTyped, TypeOK
      <3>3. QED
        BY <2>1, <3>1, <3>2
    <2>3. QED
      BY <1>6, <2>2, MaxActsAssumption DEF ApprovalBreaksOff, UserFails, Fault, SyncTyped, TypeOK
  <1>7. ASSUME NEW s \in Sites, ExploreSite(s), StartFails(s) PROVE TypeOK'
    <2>1. settings' \subseteq Sites /\ due' \subseteq settings' /\ rows' \subseteq Sites /\ faults' \in Nat
      BY <1>7, StartFailsType
    <2>2. QED
      BY <1>7, <2>1, MaxActsAssumption DEF ExploreSite, ExploreNow, StartFails, UserActs, TypeOK
  <1>8. QED
    BY <1>1, <1>2, <1>3, <1>4, <1>5, <1>6, <1>7 DEF DiscoveryBreaksOff, DiscoveryFault

LEMMA TypeNext == TypeOK /\ [Next]_vars => TypeOK'
  <1> SUFFICES ASSUME TypeOK, [Next]_vars PROVE TypeOK'
    OBVIOUS
  <1>1. CASE StartTick
    <2>1. dueList' \subseteq Sites /\ late' \subseteq Sites /\ ticking' \in BOOLEAN
      BY <1>1 DEF StartTick, ListDue, DueSites, TypeOK, tickVars
    <2>2. SyncTyped
      BY <1>1, SyncType DEF StartTick
    <2>3. QED
      BY <1>1, <2>1, <2>2 DEF StartTick, SyncTyped, TypeOK, planVars, runVars, webVars, fileVars
  <1>2. CASE DiscoveryStep
    <2> USE DEF sourceVars, fileVars, historyVars, planVars, runVars, webVars, tickVars
    <2>1. ASSUME NEW s \in Sites, ReadRobotsAndSitemap(s) PROVE TypeOK'
      <3>1. disallowed' \in [Sites -> SUBSET Pages]
        BY <2>1 DEF ReadRobotsAndSitemap, ReadRobots, PagesOf, TypeOK
      <3>2. frontier' \in [Pages -> FrontierStatus]
        BY <2>1, EnqueueType DEF ReadRobotsAndSitemap, TypeOK
      <3>3. stage' \in [Sites -> {"none", "robots", "pages"}]
        BY <2>1 DEF ReadRobotsAndSitemap, TypeOK
      <3>4. QED
        BY <1>2, <2>1, <3>1, <3>2, <3>3 DEF DiscoveryStep, ReadRobotsAndSitemap, TypeOK
    <2>2. ASSUME NEW s \in Sites, EndRun(s) \/ AbortRun(s) PROVE TypeOK'
      <3>1. PICK good \in BOOLEAN : FinishRun(s, good)
        BY <2>2, Ended
      <3>2. Forget({s})
        BY <3>1 DEF FinishRun
      <3>3. recipe' \in [Sites -> RecipeStatus] /\ late' \subseteq Sites
        BY <3>1 DEF FinishRun, Judge, TypeOK, RecipeStatus
      <3>4. due' \subseteq settings' /\ settings' \subseteq Sites /\ rows' \subseteq Sites
        BY <3>1 DEF FinishRun, TypeOK
      <3>5. QED
        BY <1>2, <3>1, <3>2, <3>3, <3>4, ForgetType DEF DiscoveryStep, FinishRun, TypeOK
    <2>3. ASSUME NEW p \in Pages, SkipPage(p) PROVE TypeOK'
      BY <1>2, <2>3 DEF DiscoveryStep, SkipPage, TypeOK, FrontierStatus
    <2>4. ASSUME NEW p \in Pages, VisitPage(p) PROVE TypeOK'
      <3>1. SiteOf[p] \in Sites /\ PagesOf(SiteOf[p]) \subseteq Pages
        BY SiteOfAssumption DEF PagesOf
      <3>2. found' \subseteq Sites /\ candidate' \in [Pages -> CandidateStatus]
        BY <2>4, <3>1 DEF VisitPage, SaveCandidate, TypeOK, CandidateStatus
      <3>3. frontier' \in [Pages -> FrontierStatus]
        BY <2>4, EnqueueType DEF VisitPage, TypeOK, FrontierStatus
      <3>4. QED
        BY <1>2, <2>4, <3>2, <3>3 DEF DiscoveryStep, VisitPage, TypeOK
    <2>5. CASE EndTick
      BY <1>2, <2>5 DEF DiscoveryStep, EndTick, TypeOK
    <2>6. ASSUME NEW s \in Sites, RunNextDue(s) PROVE TypeOK'
      <3>1. StartRun(s, "tick")
        BY <2>6 DEF RunNextDue
      <3>2. StartedType
        BY <3>1, StartRunType DEF StartedType
      <3>3. UNCHANGED <<network, seeds, recipe, disallowed, found, candidate, faults>>
        BY <3>1 DEF StartRun
      <3>4. QED
        BY <1>2, <2>6, <3>2, <3>3 DEF DiscoveryStep, RunNextDue, StartedType, TypeOK, sourceVars, fileVars
    <2>7. ASSUME NEW s \in Sites, PassOver(s) PROVE TypeOK'
      BY <1>2, <2>7 DEF DiscoveryStep, PassOver, TypeOK
    <2>8. QED
      BY <1>2, <2>1, <2>2, <2>3, <2>4, <2>5, <2>6, <2>7 DEF DiscoveryStep, RunStep, Scheduler
  <1>3. CASE DiscoveryComesDue
    BY <1>3 DEF DiscoveryComesDue, TimePasses, TypeOK, sourceVars, fileVars, historyVars,
       runVars, webVars, tickVars
  <1>4. CASE SwitchNetwork
    BY <1>4, MaxActsAssumption
    DEF SwitchNetwork, UserActs, TypeOK, sourceVars, fileVars, historyVars, planVars, runVars, webVars, tickVars
  <1>5. CASE EditFile
    <2>1. acts' \in 0..MaxActs
      BY <1>5, MaxActsAssumption DEF EditFile, TypeOK
    <2>2. broken' \in BOOLEAN /\ file' \in [ConfigKeys -> {"absent", "on", "off"}]
      BY <1>5 DEF EditFile, TypeOK
    <2>3. QED
      BY <1>5, <2>1, <2>2
      DEF EditFile, TypeOK, discoveryVars, sourceVars, historyVars, planVars, runVars, webVars, tickVars
  <1>6. CASE Die
    <2>1. Forget(Sites)
      BY <1>6 DEF Die, LoseRuns
    <2>2. /\ runner' \in [Sites -> {"none", "tick", "user"}]
          /\ stage' \in [Sites -> {"none", "robots", "pages"}]
          /\ disallowed' \in [Sites -> SUBSET Pages]
          /\ frontier' \in [Pages -> FrontierStatus]
          /\ found' \subseteq Sites
      BY <2>1, ForgetType
    <2>3. acts' \in 0..MaxActs /\ faults' \in Nat
      BY <1>6, MaxActsAssumption DEF Die, LoseRuns, TypeOK
    <2>4. QED
      BY <1>6, <2>2, <2>3 DEF Die, LoseRuns, TypeOK, sourceVars, fileVars, historyVars, planVars
  <1>7. CASE Start
    BY <1>7, SyncType DEF Start, SyncTyped, RecoverRuns, TypeOK, fileVars, planVars, webVars, tickVars
  <1>8. ASSUME NEW k \in Keys, CheckNow(k) PROVE TypeOK'
    BY <1>8, MaxActsAssumption
    DEF CheckNow, UserActs, TypeOK, discoveryVars, fileVars, planVars, runVars, webVars, tickVars
  <1>9. ASSUME NEW k \in Keys, NEW on \in BOOLEAN, SetSourceEnabled(k, on) PROVE TypeOK'
    <2>1. seeds' \in [Pages -> [on : BOOLEAN, use : {"none", "monitor", "discovery"}, key : Keys \cup {None}]]
      BY <1>9 DEF SetSourceEnabled, TypeOK
    <2>2. QED
      BY <1>9, <2>1, MaxActsAssumption
      DEF SetSourceEnabled, UserActs, TypeOK, fileVars, planVars, runVars, webVars, tickVars
  <1>10. ASSUME NEW s \in Sites, ExploreSite(s), StartRun(s, "user") PROVE TypeOK'
    <2>1. StartRun(s, "user")
      BY <1>10
    <2>2. StartedType
      BY <2>1, StartRunType DEF StartedType
    <2>3. UNCHANGED <<network, seeds, recipe, disallowed, found, candidate, faults>>
      BY <2>1 DEF StartRun
    <2>4. QED
      BY <1>10, <2>2, <2>3, MaxActsAssumption
      DEF ExploreSite, ExploreNow, UserActs, StartedType, TypeOK, sourceVars, fileVars, historyVars, tickVars
  <1>11. ASSUME NEW s \in Sites, ConfigureSite(s) PROVE TypeOK'
    BY <1>11, MaxActsAssumption
    DEF ConfigureSite, Configure, EnsureSettings, UserActs, TypeOK, RecipeStatus,
        sourceVars, fileVars, historyVars, runVars, webVars, tickVars
  <1>12. ASSUME NEW chosen, NEW k \in Keys, GivenSource(chosen, k)
         PROVE  SyncTyped
    BY <1>12 DEF GivenSource, SyncTyped, TypeOK
  <1>13. ASSUME NEW s \in Sites, ApproveCandidates(s) PROVE TypeOK'
    <2>1. PICK chosen \in SUBSET Pages, k \in Keys :
              /\ GivenSource(chosen, k)
              /\ candidate' = [p \in Pages |-> IF p \in chosen THEN "approved" ELSE candidate[p]]
      <3>1. SourceChoice(s) \subseteq Keys /\ Undecided(s) \subseteq Pages
        BY Choices DEF Undecided, PagesOf
      <3>2. QED
        BY <1>13, <3>1 DEF ApproveCandidates
    <2>2. candidate' \in [Pages -> CandidateStatus]
      BY <2>1 DEF TypeOK, CandidateStatus
    <2>3. QED
      BY <1>13, <2>1, <2>2, <1>12, MaxActsAssumption
      DEF ApproveCandidates, UserActs, SyncTyped, TypeOK, fileVars, planVars, runVars, webVars, tickVars
  <1>14. ASSUME NEW p \in Pages, ConfirmSource(p) PROVE TypeOK'
    <2>1. SiteOf[p] \in Sites
      BY SiteOfAssumption
    <2>2. PICK k \in Keys : ConfirmForDiscovery(p, k) \/ ConfirmForMonitoring(p, k)
      BY <1>14, <2>1, Choices DEF ConfirmSource
    <2>3. SyncTyped
      BY <2>2, ConfirmTyped
    <2>5. settings' \subseteq Sites /\ due' \subseteq settings'
      BY <1>14, <2>1 DEF ConfirmSource, EnsureSettings, TypeOK
    <2>6. QED
      BY <1>14, <2>3, <2>5, MaxActsAssumption
      DEF ConfirmSource, UserActs, SyncTyped, TypeOK, fileVars, runVars, webVars, tickVars
  <1>15. ASSUME NEW p \in Pages, RefusedApproval(p) PROVE TypeOK'
    <2>1. PICK k \in Keys : GivenSource({p}, k)
      BY <1>15, SiteOfAssumption, Choices DEF RefusedApproval
    <2>2. QED
      BY <1>15, <2>1, <1>12, MaxActsAssumption
      DEF RefusedApproval, UserActs, SyncTyped, TypeOK, fileVars, planVars, runVars, webVars, tickVars
  <1>16. ASSUME NEW p \in Pages, NEW status \in {"excluded", "deferred", "pending"}, Review(p, status)
         PROVE  TypeOK'
    BY <1>16, MaxActsAssumption
    DEF Review, UserActs, TypeOK, CandidateStatus, sourceVars, fileVars, historyVars, planVars, runVars, webVars, tickVars
  <1>17. CASE UNCHANGED vars
    BY <1>17 DEF vars, discoveryVars, TypeOK, sourceVars, fileVars, historyVars, planVars, runVars, webVars, tickVars
  <1>18. ASSUME NEW s \in Sites, ExploreSite(s) PROVE TypeOK'
    <2>1. StartRun(s, "user") \/ StartFails(s)
      BY <1>18 DEF ExploreSite, ExploreNow
    <2>2. QED
      BY <1>10, <1>18, <2>1, FaultType
  <1>19. CASE \/ TickBreaksOff \/ StartBreaksOff \/ DiscoveryBreaksOff
              \/ \E p \in Pages : ConfirmBreaksOff(p) \/ ApprovalBreaksOff(p)
    BY <1>19, FaultType
  <1>20. QED
    BY <1>1, <1>2, <1>3, <1>4, <1>5, <1>6, <1>7, <1>8, <1>9, <1>11, <1>13, <1>14, <1>15, <1>16, <1>17,
       <1>18, <1>19
    DEF Next

\* Every variable keeps its type: rows, runs, seeds, sources and candidates.
THEOREM TypeCorrect == Spec => []TypeOK
  <1>1. Init => TypeOK
    BY InitTypeOK
  <1>2. TypeOK /\ [Next]_vars => TypeOK'
    BY TypeNext
  <1>3. QED
    BY <1>1, <1>2, PTL DEF Spec

-----------------------------------------------------------------------------
(* Runs and their rows.  Only the start, the end and the loss of a run, the *)
(* start of the service and a write that throws touch either.               *)

\* The steps of the running service that touch no run and no row, and are no fault.
QuietStep ==
    \/ \E s \in Sites : ReadRobotsAndSitemap(s) \/ PassOver(s)
    \/ \E p \in Pages : SkipPage(p) \/ VisitPage(p)
    \/ EndTick

\* The steps that may touch a run or a row, or count as a fault.
RunAction ==
    \/ \E s \in Sites : StartRun(s, "tick") \/ StartRun(s, "user")
    \/ \E s \in Sites : EndRun(s) \/ AbortRun(s)
    \/ \E s \in Sites : StartFails(s) \/ RunBreaksOff(s)
    \/ UNCHANGED <<rows, runner>> /\ Fault /\ Sites # {}

\* Every step is one of these.
LEMMA StepsOfRuns ==
    ASSUME [Next]_vars
    PROVE  \/ UNCHANGED <<up, rows, runner, faults>>
           \/ up /\ up' = up /\ RunAction
           \/ Die
           \/ Start
           \/ StartBreaksOff
  <1> DEFINE Goal == \/ UNCHANGED <<up, rows, runner, faults>>
                     \/ up /\ up' = up /\ RunAction
                     \/ Die
                     \/ Start
                     \/ StartBreaksOff
  <1> SUFFICES Goal
    OBVIOUS
  <1> HIDE DEF Goal
  <1>1. CASE DiscoveryStep
    <2>1. up /\ up' = up
      BY <1>1 DEF DiscoveryStep
    <2>2. CASE QuietStep
      BY <2>1, <2>2 DEF Goal, QuietStep, ReadRobotsAndSitemap, PassOver, SkipPage, VisitPage, EndTick, runVars
    <2>3. CASE \E s \in Sites : EndRun(s) \/ AbortRun(s) \/ RunNextDue(s)
      BY <2>1, <2>3 DEF Goal, RunAction, RunNextDue
    <2>4. QED
      BY <1>1, <2>2, <2>3 DEF DiscoveryStep, RunStep, Scheduler, QuietStep
  <1>2. CASE DiscoveryBreaksOff
    BY <1>2 DEF Goal, DiscoveryBreaksOff, DiscoveryFault, DueStartFails, RunAction
  <1>3. ASSUME NEW s \in Sites, ExploreSite(s) PROVE Goal
    BY <1>3 DEF Goal, ExploreSite, ExploreNow, UserActs, RunAction
  <1>4. ASSUME NEW p \in Pages, ConfirmBreaksOff(p) \/ ApprovalBreaksOff(p) PROVE Goal
    <2>1. SiteOf[p] \in Sites
      BY SiteOfAssumption
    <2>2. QED
      BY <1>4, <2>1 DEF Goal, ConfirmBreaksOff, ApprovalBreaksOff, UserFails, RunAction, runVars
  <1>5. CASE TickBreaksOff
    <2>1. PICK k \in ConfigKeys : TRUE
      BY <1>5 DEF TickBreaksOff, SyncBreaksOff, Defined, Pruned
    <2>2. KeySite[k] \in Sites
      BY KeysAssumption
    <2>3. QED
      BY <1>5, <2>2 DEF Goal, TickBreaksOff, RunAction, runVars
  <1>6. CASE StartTick \/ DiscoveryComesDue \/ SwitchNetwork \/ EditFile
    BY <1>6
    DEF Goal, StartTick, DiscoveryComesDue, TimePasses, SwitchNetwork, EditFile, UserActs, runVars, discoveryVars
  <1>7. ASSUME NEW k \in Keys, CheckNow(k) \/ \E on \in BOOLEAN : SetSourceEnabled(k, on) PROVE Goal
    BY <1>7 DEF Goal, CheckNow, SetSourceEnabled, UserActs, runVars, discoveryVars
  <1>8. ASSUME NEW s \in Sites, ConfigureSite(s) \/ ApproveCandidates(s) PROVE Goal
    BY <1>8 DEF Goal, ConfigureSite, Configure, ApproveCandidates, UserActs, runVars
  <1>9. ASSUME NEW p \in Pages, ConfirmSource(p) \/ RefusedApproval(p) PROVE Goal
    BY <1>9 DEF Goal, ConfirmSource, RefusedApproval, UserActs, runVars
  <1>10. ASSUME NEW p \in Pages, NEW status, Review(p, status) PROVE Goal
    BY <1>10 DEF Goal, Review, UserActs, runVars
  <1>11. CASE UNCHANGED vars
    BY <1>11 DEF Goal, vars, discoveryVars, runVars
  <1>12. CASE Die \/ Start \/ StartBreaksOff
    BY <1>12 DEF Goal
  <1>13. QED
    BY <1>1, <1>2, <1>3, <1>4, <1>5, <1>6, <1>7, <1>8, <1>9, <1>10, <1>11, <1>12 DEF Next

LEMMA RunsNext == TypeOK /\ RunsInv /\ [Next]_vars => RunsInv'
  <1> SUFFICES ASSUME TypeOK, RunsInv, [Next]_vars PROVE RunsInv'
    OBVIOUS
  <1> USE DEF RunsInv, Live
  <1>1. CASE UNCHANGED <<up, rows, runner, faults>>
    BY <1>1
  <1>2. CASE up /\ up' = up /\ RunAction
    <2>1. ASSUME NEW s \in Sites, NEW who \in {"tick", "user"}, StartRun(s, who) PROVE RunsInv'
      <3>1. rows' = rows \cup {s} /\ runner' = [runner EXCEPT ![s] = who]
        BY <2>1 DEF StartRun
      <3>2. QED
        BY <1>2, <3>1 DEF TypeOK
    <2>2. ASSUME NEW s \in Sites, EndRun(s) \/ AbortRun(s) PROVE RunsInv'
      <3>1. rows' = rows \ {s} /\ runner' = [t \in Sites |-> IF t \in {s} THEN "none" ELSE runner[t]]
        BY <2>2 DEF EndRun, AbortRun, FinishRun, Forget
      <3>2. QED
        BY <1>2, <3>1
    <2>3. ASSUME NEW s \in Sites, StartFails(s) PROVE RunsInv'
      BY <1>2, <2>3 DEF StartFails
    <2>4. ASSUME NEW s \in Sites, RunBreaksOff(s) PROVE RunsInv'
      <3>1. rows' \in {rows, rows \ {s}}
        BY <2>4 DEF RunBreaksOff
      <3>2. runner' = [t \in Sites |-> IF t \in {s} THEN "none" ELSE runner[t]]
        BY <2>4 DEF RunBreaksOff, Forget
      <3>3. QED
        BY <1>2, <3>1, <3>2
    <2>5. QED
      BY <1>1, <1>2, <2>1, <2>2, <2>3, <2>4 DEF RunAction
  <1>3. CASE Die
    <2>1. up' = FALSE /\ runner' = [t \in Sites |-> IF t \in Sites THEN "none" ELSE runner[t]]
      BY <1>3 DEF Die, LoseRuns, Forget
    <2>2. QED
      BY <2>1
  <1>4. CASE Start \/ StartBreaksOff
    BY <1>4 DEF Start, StartBreaksOff
  <1>5. QED
    BY <1>1, <1>2, <1>3, <1>4, StepsOfRuns

LEMMA RowsAreOwned == Spec => [](TypeOK /\ RunsInv)
  <1>1. Init => RunsInv
    BY DEF Init, RunsInv, Live
  <1>2. TypeOK /\ RunsInv /\ [Next]_vars => RunsInv'
    BY RunsNext
  <1>3. QED
    BY <1>1, <1>2, TypeCorrect, PTL DEF Spec

-----------------------------------------------------------------------------
(* Discovery implements RecoverableRuns. *)

LEMMA RowCounts ==
    /\ \A s \in Sites : s \in rows <=> RunningRow[s] = 1
    /\ \A s \in Sites : s \notin rows <=> RunningRow[s] = 0
  BY DEF RunningRow

\* What a step does to the rows and the runs, in the terms of RecoverableRuns.
LEMMA RowChanges ==
    ASSUME NEW s \in Sites
    PROVE  /\ rows' = rows => RunningRow' = RunningRow
           /\ runner' = runner => LiveSites' = LiveSites
           /\ s \notin rows /\ rows' = rows \cup {s} => RunningRow' = [RunningRow EXCEPT ![s] = @ + 1]
           /\ s \in rows /\ rows' = rows \ {s} => RunningRow' = [RunningRow EXCEPT ![s] = @ - 1]
           /\ Forget({s}) => LiveSites' = LiveSites \ {s}
  <1>1. rows' = rows => RunningRow' = RunningRow
    BY DEF RunningRow
  <1>2. runner' = runner => LiveSites' = LiveSites
    BY DEF LiveSites, Live
  <1>3. s \notin rows /\ rows' = rows \cup {s} => RunningRow' = [RunningRow EXCEPT ![s] = @ + 1]
    <2>1. s \notin rows => RunningRow[s] + 1 = 1
      BY DEF RunningRow
    <2>2. rows' = rows \cup {s} => RunningRow' = [RunningRow EXCEPT ![s] = 1]
      BY DEF RunningRow
    <2>3. QED
      BY <2>1, <2>2
  <1>4. s \in rows /\ rows' = rows \ {s} => RunningRow' = [RunningRow EXCEPT ![s] = @ - 1]
    <2>1. s \in rows => RunningRow[s] - 1 = 0
      BY DEF RunningRow
    <2>2. rows' = rows \ {s} => RunningRow' = [RunningRow EXCEPT ![s] = 0]
      BY DEF RunningRow
    <2>3. QED
      BY <2>1, <2>2
  <1>5. Forget({s}) => LiveSites' = LiveSites \ {s}
    BY DEF Forget, LiveSites, Live
  <1>6. QED
    BY <1>1, <1>2, <1>3, <1>4, <1>5

LEMMA RunActionRefines ==
    ASSUME TypeOK, RunsInv, up, up' = up, RunAction
    PROVE  Runs!Next
  <1> USE DEF RunsInv
  <1>1. ASSUME NEW s \in Sites, NEW who \in {"tick", "user"}, StartRun(s, who) PROVE Runs!Next
    <2>1. s \notin rows /\ rows' = rows \cup {s} /\ runner' = [runner EXCEPT ![s] = who] /\ faults' = faults
      BY <1>1 DEF StartRun, Startable
    <2>2. s \notin LiveSites /\ LiveSites' = LiveSites \cup {s}
      BY <2>1 DEF LiveSites, Live, TypeOK
    <2>3. RunningRow[s] = 0 /\ RunningRow' = [RunningRow EXCEPT ![s] = @ + 1]
      BY <2>1, RowCounts, RowChanges
    <2>4. Runs!Begin(s)
      BY <2>1, <2>2, <2>3 DEF Runs!Begin
    <2>5. QED
      BY <2>4 DEF Runs!Next
  <1>2. ASSUME NEW s \in Sites, EndRun(s) \/ AbortRun(s) PROVE Runs!Next
    <2>1. Live(s) /\ rows' = rows \ {s} /\ Forget({s}) /\ faults' = faults
      BY <1>2 DEF EndRun, AbortRun, FinishRun
    <2>2. s \in rows /\ s \in LiveSites
      BY <2>1 DEF LiveSites
    <2>3. LiveSites' = LiveSites \ {s} /\ RunningRow' = [RunningRow EXCEPT ![s] = @ - 1]
      BY <2>1, <2>2, RowChanges
    <2>4. Runs!End(s)
      BY <2>1, <2>2, <2>3 DEF Runs!End
    <2>5. QED
      BY <2>4 DEF Runs!Next
  <1>3. ASSUME NEW s \in Sites, StartFails(s) PROVE Runs!Next
    <2>1. s \notin rows /\ rows' \in {rows, rows \cup {s}} /\ runner' = runner /\ faults' = faults + 1
      BY <1>3 DEF StartFails, Startable
    <2>2. s \notin LiveSites /\ LiveSites' = LiveSites /\ RunningRow[s] = 0
      BY <2>1, RowCounts, RowChanges DEF LiveSites
    <2>3. RunningRow' = RunningRow \/ RunningRow' = [RunningRow EXCEPT ![s] = @ + 1]
      BY <2>1, RowChanges
    <2>4. Runs!WriteFails(s)
      BY <2>1, <2>2, <2>3 DEF Runs!WriteFails
    <2>5. QED
      BY <2>4 DEF Runs!Next
  <1>4. ASSUME NEW s \in Sites, RunBreaksOff(s) PROVE Runs!Next
    <2>1. Live(s) /\ rows' \in {rows, rows \ {s}} /\ Forget({s}) /\ faults' = faults + 1
      BY <1>4 DEF RunBreaksOff
    <2>2. s \in rows /\ s \in LiveSites
      BY <2>1 DEF LiveSites
    <2>3. LiveSites' = LiveSites \ {s}
      BY <2>1, RowChanges
    <2>4. RunningRow' = RunningRow \/ RunningRow' = [RunningRow EXCEPT ![s] = @ - 1]
      BY <2>1, <2>2, RowChanges
    <2>5. Runs!WriteFails(s)
      BY <2>1, <2>2, <2>3, <2>4 DEF Runs!WriteFails
    <2>6. QED
      BY <2>5 DEF Runs!Next
  <1>5. ASSUME UNCHANGED <<rows, runner>>, Fault, Sites # {} PROVE Runs!Next
    <2>1. PICK s \in Sites : TRUE
      BY <1>5
    <2>2. LiveSites' = LiveSites /\ RunningRow' = RunningRow /\ faults' = faults + 1
      BY <1>5, RowChanges DEF Fault
    <2>3. Runs!WriteFails(s)
      BY <2>2 DEF Runs!WriteFails
    <2>4. QED
      BY <2>3 DEF Runs!Next
  <1>6. QED
    BY <1>1, <1>2, <1>3, <1>4, <1>5 DEF RunAction

LEMMA RunStepRefines ==
    ASSUME TypeOK, RunsInv, [Next]_vars
    PROVE  [Runs!Next]_(Runs!vars)
  <1>1. CASE UNCHANGED <<up, rows, runner, faults>>
    <2>1. UNCHANGED <<LiveSites, RunningRow>>
      BY <1>1 DEF LiveSites, RunningRow, Live
    <2>2. QED
      BY <1>1, <2>1 DEF Runs!vars
  <1>2. CASE up /\ up' = up /\ RunAction
    BY <1>2, RunActionRefines
  <1>3. CASE Die
    <2>1. up /\ up' = FALSE /\ rows' = rows /\ faults' = faults + 1 /\ Forget(Sites)
      BY <1>3 DEF Die, LoseRuns
    <2>2. LiveSites' = {} /\ RunningRow' = RunningRow
      BY <2>1 DEF LiveSites, Live, Forget, RunningRow
    <2>3. Runs!Die
      BY <2>1, <2>2 DEF Runs!Die
    <2>4. QED
      BY <2>3 DEF Runs!Next
  <1>4. CASE Start \/ StartBreaksOff
    <2>1. /\ ~up /\ rows' = {} /\ runner' = runner
          /\ \/ up' = TRUE /\ faults' = faults
             \/ up' = FALSE /\ faults' = faults + 1
      BY <1>4 DEF Start, StartBreaksOff, RecoverRuns, Fault, TypeOK
    <2>2. LiveSites' = LiveSites /\ RunningRow' = [s \in Sites |-> 0]
      BY <2>1 DEF LiveSites, Live, RunningRow
    <2>3. Runs!Recover
      BY <2>1, <2>2 DEF Runs!Recover
    <2>4. QED
      BY <2>3 DEF Runs!Next
  <1>5. QED
    BY <1>1, <1>2, <1>3, <1>4, StepsOfRuns

\* Whatever starts and ends runs, the scheduler, the user, deaths, starts of the service and
\* writes that throw take rows and runs through the life cycle of RecoverableRuns and no
\* other: no site is explored twice at once, and a row outlives its run only by a fault,
\* until the next start.
THEOREM DiscoveryRunsAreRecovered == Spec => RunsAreRecovered
  <1>1. Init => Runs!Init
    <2>1. Init => LiveSites = {} /\ RunningRow = [s \in Sites |-> 0]
      BY DEF Init, LiveSites, Live, RunningRow
    <2>2. QED
      BY <2>1 DEF Init, Runs!Init
  <1>2. TypeOK /\ RunsInv /\ [Next]_vars => [Runs!Next]_(Runs!vars)
    BY RunStepRefines
  <1>3. QED
    BY RowsAreOwned, <1>1, <1>2, PTL DEF Spec, RunsAreRecovered, Runs!Spec

-----------------------------------------------------------------------------
(* Sources and their schedule. *)

LEMMA GivenSourceKeeps ==
    ASSUME TypeOK, SourcesInv, NEW chosen, NEW k \in Keys, GivenSource(chosen, k)
    PROVE  SourcesInv'
  <1>1. \A l \in Keys \ {k} : enabled'[l] = enabled[l] /\ scheduled'[l] = scheduled[l]
    BY DEF TypeOK, GivenSource
  <1>2. k \notin exists => scheduled'[k]
    BY DEF TypeOK, GivenSource
  <1>3. k \in exists => (scheduled[k] => scheduled'[k]) /\ (enabled[k] \/ k \in reenabled')
    BY DEF TypeOK, GivenSource
  <1>4. exists' = exists \cup {k} /\ reenabled \subseteq reenabled' /\ torn' = torn
    BY DEF GivenSource
  <1>5. QED
    BY <1>1, <1>2, <1>3, <1>4 DEF TypeOK, SourcesInv, ScheduledWhenEnabled

LEMMA SyncKeeps == TypeOK /\ SourcesInv /\ (SyncSources \/ SyncBreaksOff) => SourcesInv'
  <1> SUFFICES ASSUME TypeOK, SourcesInv, NEW x \in SyncExtent, SyncOf(x) PROVE SourcesInv'
    BY SyncExtents
  <1>1. x.rowsOf \subseteq Keys /\ x.settingsOf \subseteq x.rowsOf
    BY KeysAssumption DEF Defined, SyncExtent, SyncOf
  <1>2. ASSUME NEW k \in Keys
        PROVE  /\ k \in x.settingsOf => (enabled'[k] => scheduled'[k])
               /\ k \notin x.settingsOf => scheduled'[k] = scheduled[k]
               /\ k \notin x.rowsOf => (enabled'[k] => enabled[k])
    BY <1>1, <1>2 DEF SyncOf, SyncWrites, Upserted, TypeOK
  <1>3. /\ exists' = exists \cup x.rowsOf
        /\ reenabled' = reenabled \ x.settingsOf
        /\ torn' = (torn \ x.settingsOf) \cup (x.rowsOf \ x.settingsOf)
    BY DEF SyncOf, SyncWrites
  <1>4. ScheduledWhenEnabled'
    <2>1. SUFFICES ASSUME NEW k \in exists', k \notin reenabled', k \notin torn', enabled'[k]
                   PROVE  scheduled'[k]
      BY DEF ScheduledWhenEnabled
    <2>2. k \in Keys
      BY <1>1, <1>3 DEF TypeOK
    <2>3. CASE k \in x.settingsOf
      BY <1>2, <2>1, <2>2, <2>3
    <2>4. CASE k \notin x.settingsOf
      <3>1. k \notin x.rowsOf /\ k \in exists /\ k \notin reenabled /\ k \notin torn
        BY <1>3, <2>1, <2>4
      <3>2. enabled[k] /\ scheduled'[k] = scheduled[k]
        BY <1>2, <2>1, <2>2, <2>4, <3>1
      <3>3. QED
        BY <3>1, <3>2 DEF SourcesInv, ScheduledWhenEnabled
    <2>5. QED
      BY <2>3, <2>4
  <1>5. \A k \in Keys \ exists' : ~enabled'[k]
    BY <1>2, <1>3 DEF SourcesInv
  <1>6. QED
    BY <1>4, <1>5 DEF SourcesInv

\* A source is turned on in its row and its settings, or marked as torn.
LEMMA TurnOnKeeps ==
    ASSUME TypeOK, SourcesInv, NEW k \in Keys, TurnOn(k) \/ TurnOnRow(k) \/ KeepSource(k)
    PROVE  SourcesInv'
  <1>1. CASE KeepSource(k)
    BY <1>1 DEF KeepSource, historyVars, TypeOK, SourcesInv, ScheduledWhenEnabled
  <1>2. CASE TurnOnRow(k)
    <2>1. ASSUME NEW l \in Keys, l # k
          PROVE  enabled'[l] = enabled[l] /\ scheduled'[l] = scheduled[l]
      BY <1>2, <2>1 DEF TurnOnRow, TypeOK
    <2>2. QED
      BY <1>2, <2>1 DEF TurnOnRow, TypeOK, SourcesInv, ScheduledWhenEnabled
  <1>3. CASE TurnOn(k)
    <2>1. ASSUME NEW l \in Keys, l # k
          PROVE  enabled'[l] = enabled[l] /\ scheduled'[l] = scheduled[l]
      BY <1>3, <2>1 DEF TurnOn, TypeOK
    <2>2. CASE enabled[k]
      <3>1. scheduled'[k] = scheduled[k] /\ reenabled' = reenabled /\ torn' = torn /\ k \in exists
        BY <1>3, <2>2 DEF TurnOn, TypeOK, SourcesInv
      <3>2. QED
        BY <1>3, <2>1, <2>2, <3>1 DEF TurnOn, TypeOK, SourcesInv, ScheduledWhenEnabled
    <2>3. CASE ~enabled[k]
      <3>1. scheduled'[k] /\ reenabled' = reenabled \ {k} /\ torn' = torn \ {k}
        BY <1>3, <2>3 DEF TurnOn, TypeOK
      <3>2. QED
        BY <1>3, <2>1, <3>1 DEF TurnOn, TypeOK, SourcesInv, ScheduledWhenEnabled
    <2>4. QED
      BY <2>2, <2>3
  <1>4. QED
    BY <1>1, <1>2, <1>3

LEMMA SourcesNext == TypeOK /\ SourcesInv /\ [Next]_vars => SourcesInv'
  <1> SUFFICES ASSUME TypeOK, SourcesInv, [Next]_vars PROVE SourcesInv'
    OBVIOUS
  <1> USE DEF historyVars, sourceVars
  <1>1. CASE UNCHANGED <<exists, enabled, scheduled, reenabled, torn>>
    BY <1>1 DEF SourcesInv, ScheduledWhenEnabled
  <1>2. CASE StartTick \/ Start \/ TickBreaksOff \/ StartBreaksOff
    BY <1>2, SyncKeeps DEF StartTick, Start, TickBreaksOff, StartBreaksOff
  <1>3. CASE \/ DiscoveryStep \/ DiscoveryBreaksOff \/ DiscoveryComesDue
             \/ SwitchNetwork \/ EditFile \/ Die
    BY <1>1, <1>3 DEF DiscoveryStep, DiscoveryBreaksOff, DiscoveryComesDue, SwitchNetwork, EditFile, Die
  <1>4. ASSUME NEW k \in Keys, CheckNow(k) PROVE SourcesInv'
    BY <1>4 DEF CheckNow, TypeOK, SourcesInv, ScheduledWhenEnabled
  <1>5. ASSUME NEW k \in Keys, NEW on \in BOOLEAN, SetSourceEnabled(k, on) PROVE SourcesInv'
    BY <1>5 DEF SetSourceEnabled, TypeOK, SourcesInv, ScheduledWhenEnabled
  <1>6. ASSUME NEW s \in Sites, ExploreSite(s) \/ ConfigureSite(s) PROVE SourcesInv'
    BY <1>1, <1>6 DEF ExploreSite, ConfigureSite, sourceVars
  <1>7. ASSUME NEW s \in Sites, ApproveCandidates(s) PROVE SourcesInv'
    BY <1>7, Choices, GivenSourceKeeps DEF ApproveCandidates
  <1>8. ASSUME NEW p \in Pages, RefusedApproval(p) PROVE SourcesInv'
    BY <1>8, SiteOfAssumption, Choices, GivenSourceKeeps DEF RefusedApproval
  <1>9. ASSUME NEW p \in Pages, ConfirmSource(p) \/ ConfirmBreaksOff(p) PROVE SourcesInv'
    <2>1. PICK k \in Keys : TurnOn(k) \/ TurnOnRow(k) \/ KeepSource(k)
      BY <1>9, SiteOfAssumption, Choices
      DEF ConfirmSource, ConfirmBreaksOff, ConfirmForDiscovery, ConfirmForMonitoring
    <2>2. QED
      BY <2>1, TurnOnKeeps
  <1>13. ASSUME NEW p \in Pages, ApprovalBreaksOff(p) PROVE SourcesInv'
    <2>1. PICK k \in Keys : TurnOnRow(k) \/ \E chosen : GivenSource(chosen, k)
      BY <1>13, SiteOfAssumption, Choices DEF ApprovalBreaksOff
    <2>2. QED
      BY <2>1, TurnOnKeeps, GivenSourceKeeps
  <1>10. ASSUME NEW p \in Pages, NEW status, Review(p, status) PROVE SourcesInv'
    BY <1>1, <1>10 DEF Review, sourceVars
  <1>11. CASE UNCHANGED vars
    BY <1>1, <1>11 DEF vars, sourceVars
  <1>12. QED
    BY <1>2, <1>3, <1>4, <1>5, <1>6, <1>7, <1>8, <1>9, <1>10, <1>11, <1>13 DEF Next

\* A source that is on is scheduled, however the file, the page, the Review Queue and the
\* monitor take turns, unless an approval found it off or a handler broke off between
\* its two flags.
THEOREM EnabledIsScheduled == Spec => []ScheduledWhenEnabled
  <1>1. Init => SourcesInv
    BY DEF Init, SourcesInv, ScheduledWhenEnabled
  <1>2. TypeOK /\ SourcesInv /\ [Next]_vars => SourcesInv'
    BY SourcesNext
  <1>3. SourcesInv => ScheduledWhenEnabled
    BY DEF SourcesInv
  <1>4. QED
    BY <1>1, <1>2, <1>3, TypeCorrect, PTL DEF Spec

-----------------------------------------------------------------------------
(* Approved pages, their seeds and their sources. *)

\* A seed names a source of its page's site that has a row, and the seed of an
\* approved page is one to be monitored.
SeedInv ==
    \A p \in Pages :
        /\ seeds[p].key # None => seeds[p].key \in SourcesOf(SiteOf[p])
        /\ candidate[p] = "approved" => seeds[p].use = "monitor" /\ seeds[p].key # None

\* A source once made keeps its row, so a seed that did not change keeps its source.
LEMMA SeedsStay ==
    ASSUME SeedInv, exists \subseteq exists', UNCHANGED <<seeds, candidate>>
    PROVE  SeedInv'
  BY DEF SeedInv, SourcesOf

LEMMA ChoiceIsOfSite ==
    ASSUME TypeOK, NEW s \in Sites, NEW k \in SourceChoice(s)
    PROVE  k \in Keys /\ KeySite[k] = s
  BY DEF SourceChoice, OnSources, SourcesOf, NewKeys, TypeOK

LEMMA InitSeeds == Init => SeedInv
  <1> SUFFICES ASSUME Init, NEW p \in Pages
               PROVE  /\ seeds[p].key # None => seeds[p].key \in SourcesOf(SiteOf[p])
                      /\ candidate[p] # "approved"
    BY DEF SeedInv
  <1>1. candidate[p] # "approved"
    BY DEF Init
  <1>2. CASE EntryKeys(p) = {}
    BY <1>1, <1>2 DEF Init, NoSeed
  <1>3. CASE EntryKeys(p) # {}
    <2>1. PICK k : k = CHOOSE l \in EntryKeys(p) : TRUE
      OBVIOUS
    <2>2. k \in EntryKeys(p)
      BY <1>3, <2>1
    <2>3. seeds[p].key = k
      BY <1>3, <2>1 DEF Init
    <2>4. QED
      BY <1>1, <2>2, <2>3 DEF EntryKeys, SourcesOf
  <1>4. QED
    BY <1>2, <1>3

\* The sync gives a page of the file a monitored seed of a source of its site.
LEMMA SyncSeeds ==
    ASSUME TypeOK, SeedInv, SyncSources \/ SyncBreaksOff, UNCHANGED candidate
    PROVE  SeedInv'
  <1>0. PICK x \in SyncExtent : SyncOf(x)
    BY SyncExtents
  <1> SUFFICES ASSUME NEW p \in Pages
               PROVE  /\ seeds'[p].key # None => seeds'[p].key \in SourcesOf(SiteOf[p])'
                      /\ candidate'[p] = "approved" => seeds'[p].use = "monitor" /\ seeds'[p].key # None
    BY DEF SeedInv
  <1>1. /\ x.pagesOf \subseteq ConfigKeys /\ x.pagesOf \subseteq x.rowsOf
        /\ exists' = exists \cup x.rowsOf
    BY <1>0 DEF SyncOf, SyncWrites, SyncExtent, Defined
  <1>2. CASE \E k \in x.pagesOf : p \in ConfigPages[k]
    <2>1. PICK k : k = CHOOSE l \in x.pagesOf : p \in ConfigPages[l]
      OBVIOUS
    <2>2. k \in x.pagesOf /\ p \in ConfigPages[k]
      BY <1>2, <2>1
    <2>3. seeds'[p] = [on |-> TRUE, use |-> "monitor", key |-> k]
      BY <1>0, <1>2, <2>1 DEF SyncOf, SyncWrites
    <2>4. KeySite[k] = SiteOf[p] /\ k # None
      BY <1>1, <2>2, KeysAssumption
    <2>5. QED
      BY <1>1, <2>2, <2>3, <2>4 DEF SourcesOf
  <1>3. CASE ~ \E k \in x.pagesOf : p \in ConfigPages[k]
    <2>1. seeds'[p] = seeds[p]
      BY <1>0, <1>3 DEF SyncOf, SyncWrites
    <2>2. QED
      BY <1>1, <2>1 DEF SeedInv, SourcesOf
  <1>4. QED
    BY <1>2, <1>3

\* An approval gives the pages chosen on a site a monitored seed of a source of it.
LEMMA GivenSeeds ==
    ASSUME TypeOK, SeedInv, NEW s \in Sites, NEW chosen \in SUBSET PagesOf(s),
           NEW k \in SourceChoice(s), GivenSource(chosen, k),
           \A p \in Pages : candidate'[p] = "approved" => p \in chosen \/ candidate[p] = "approved"
    PROVE  SeedInv'
  <1> SUFFICES ASSUME NEW p \in Pages
               PROVE  /\ seeds'[p].key # None => seeds'[p].key \in SourcesOf(SiteOf[p])'
                      /\ candidate'[p] = "approved" => seeds'[p].use = "monitor" /\ seeds'[p].key # None
    BY DEF SeedInv
  <1>1. k \in Keys /\ KeySite[k] = s /\ k # None
    BY ChoiceIsOfSite, KeysAssumption
  <1>2. CASE p \in chosen
    <2>1. seeds'[p] = [on |-> TRUE, use |-> "monitor", key |-> k] /\ k \in exists'
      BY <1>2 DEF GivenSource
    <2>2. SiteOf[p] = s
      BY <1>2 DEF PagesOf
    <2>3. QED
      BY <1>1, <2>1, <2>2 DEF SourcesOf
  <1>3. CASE p \notin chosen
    <2>1. seeds'[p] = seeds[p] /\ exists \subseteq exists'
      BY <1>3 DEF GivenSource
    <2>2. QED
      BY <1>3, <2>1 DEF SeedInv, SourcesOf
  <1>4. QED
    BY <1>2, <1>3

LEMMA SeedNext == TypeOK /\ SeedInv /\ [Next]_vars => SeedInv'
  <1> SUFFICES ASSUME TypeOK, SeedInv, [Next]_vars PROVE SeedInv'
    OBVIOUS
  <1> USE DEF historyVars, sourceVars
  <1>1. CASE StartTick \/ Start \/ TickBreaksOff \/ StartBreaksOff
    BY <1>1, SyncSeeds DEF StartTick, Start, TickBreaksOff, StartBreaksOff
  <1>2. CASE DiscoveryStep
    <2>1. exists' = exists /\ seeds' = seeds
      BY <1>2 DEF DiscoveryStep, RunStep, Scheduler, RunNextDue, StartRun, ReadRobotsAndSitemap,
         SkipPage, VisitPage, EndRun, AbortRun, FinishRun, PassOver, EndTick, sourceVars
    <2>2. \A p \in Pages : candidate'[p] = "approved" => candidate[p] = "approved"
      <3>1. CASE UNCHANGED candidate
        BY <3>1
      <3>2. ASSUME NEW p \in Pages, VisitPage(p)
            PROVE  \A q \in Pages : candidate'[q] = "approved" => candidate[q] = "approved"
        <4>1. CASE UNCHANGED candidate
          BY <4>1
        <4>2. ASSUME NEW at \in PagesOf(SiteOf[p]), SaveCandidate(at)
              PROVE  \A q \in Pages : candidate'[q] = "approved" => candidate[q] = "approved"
          BY <4>2 DEF SaveCandidate, TypeOK
        <4>3. QED
          BY <3>2, <4>1, <4>2 DEF VisitPage
      <3>3. QED
        BY <1>2, <3>1, <3>2 DEF DiscoveryStep, RunStep, Scheduler, RunNextDue, StartRun,
           ReadRobotsAndSitemap, SkipPage, EndRun, AbortRun, FinishRun, PassOver, EndTick
    <2>3. QED
      BY <2>1, <2>2 DEF SeedInv, SourcesOf
  <1>3. CASE DiscoveryBreaksOff \/ DiscoveryComesDue \/ SwitchNetwork \/ EditFile \/ Die
    BY <1>3, SeedsStay DEF DiscoveryBreaksOff, DiscoveryFault, RunBreaksOff, DueStartFails, StartFails,
       DiscoveryComesDue, TimePasses, SwitchNetwork, EditFile, Die, LoseRuns, discoveryVars
  <1>4. ASSUME NEW k \in Keys, CheckNow(k) PROVE SeedInv'
    BY <1>4, SeedsStay DEF CheckNow, discoveryVars
  <1>5. ASSUME NEW k \in Keys, NEW on \in BOOLEAN, SetSourceEnabled(k, on) PROVE SeedInv'
    <2>1. \A p \in Pages : seeds'[p].key = seeds[p].key /\ seeds'[p].use = seeds[p].use
      BY <1>5 DEF SetSourceEnabled, TypeOK
    <2>2. exists' = exists /\ candidate' = candidate
      BY <1>5 DEF SetSourceEnabled
    <2>3. QED
      BY <2>1, <2>2 DEF SeedInv, SourcesOf
  <1>6. ASSUME NEW s \in Sites, ExploreSite(s) \/ ConfigureSite(s) PROVE SeedInv'
    BY <1>6, SeedsStay DEF ExploreSite, ExploreNow, StartRun, StartFails, ConfigureSite, Configure
  <1>7. ASSUME NEW s \in Sites, ApproveCandidates(s) PROVE SeedInv'
    <2>1. PICK chosen \in SUBSET Undecided(s), k \in SourceChoice(s) :
              /\ GivenSource(chosen, k)
              /\ candidate' = [p \in Pages |-> IF p \in chosen THEN "approved" ELSE candidate[p]]
      BY <1>7 DEF ApproveCandidates
    <2>2. chosen \in SUBSET PagesOf(s)
      BY DEF Undecided
    <2>3. QED
      BY <2>1, <2>2, GivenSeeds
  <1>8. ASSUME NEW p \in Pages, RefusedApproval(p) PROVE SeedInv'
    <2>1. PICK k \in SourceChoice(SiteOf[p]) : GivenSource({p}, k)
      BY <1>8 DEF RefusedApproval
    <2>2. {p} \in SUBSET PagesOf(SiteOf[p]) /\ SiteOf[p] \in Sites /\ candidate' = candidate
      BY <1>8, SiteOfAssumption DEF RefusedApproval, PagesOf
    <2>3. QED
      BY <2>1, <2>2, GivenSeeds
  <1>9. ASSUME NEW p \in Pages, ConfirmSource(p) \/ ConfirmBreaksOff(p) PROVE SeedInv'
    <2>1. PICK k \in SourceChoice(SiteOf[p]) :
              \/ ConfirmForDiscovery(p, k) \/ ConfirmForMonitoring(p, k)
              \/ (TurnOnRow(k) \/ KeepSource(k) \/ TurnOn(k)) /\ UNCHANGED seeds
      BY <1>9 DEF ConfirmSource, ConfirmBreaksOff
    <2>2. k \in Keys /\ KeySite[k] = SiteOf[p] /\ k # None
      BY <2>1, ChoiceIsOfSite, SiteOfAssumption, KeysAssumption
    <2>3. exists' = exists \cup {k} /\ candidate' = candidate
      BY <1>9, <2>1 DEF ConfirmSource, ConfirmBreaksOff, ConfirmForDiscovery, ConfirmForMonitoring,
         TurnOnRow, KeepSource, TurnOn
    <2>4. CASE UNCHANGED seeds
      BY <2>3, <2>4, SeedsStay
    <2>5. CASE ConfirmForDiscovery(p, k) \/ ConfirmForMonitoring(p, k)
      <3>1. /\ \A q \in Pages \ {p} : seeds'[q] = seeds[q]
            /\ seeds'[p].key = k /\ (seeds[p].use = "monitor" => seeds'[p].use = "monitor")
        BY <2>5 DEF ConfirmForDiscovery, ConfirmForMonitoring, SeedAdded, TypeOK
      <3>2. QED
        BY <2>2, <2>3, <3>1 DEF SeedInv, SourcesOf
    <2>6. QED
      BY <2>1, <2>4, <2>5
  <1>13. ASSUME NEW p \in Pages, ApprovalBreaksOff(p) PROVE SeedInv'
    <2>1. SiteOf[p] \in Sites /\ candidate' = candidate
      BY <1>13, SiteOfAssumption DEF ApprovalBreaksOff
    <2>2. CASE exists \subseteq exists' /\ UNCHANGED seeds
      BY <2>1, <2>2, SeedsStay
    <2>3. ASSUME NEW k \in SourceChoice(SiteOf[p]), NEW chosen \in {{}, {p}}, GivenSource(chosen, k)
          PROVE  SeedInv'
      <3>1. chosen \in SUBSET PagesOf(SiteOf[p])
        BY DEF PagesOf
      <3>2. QED
        BY <2>1, <2>3, <3>1, GivenSeeds
    <2>4. QED
      BY <1>13, <2>2, <2>3 DEF ApprovalBreaksOff, TurnOnRow
  <1>10. ASSUME NEW p \in Pages, NEW status \in {"excluded", "deferred", "pending"}, Review(p, status)
         PROVE  SeedInv'
    <2>1. exists' = exists /\ seeds' = seeds
          /\ \A q \in Pages : candidate'[q] = "approved" => candidate[q] = "approved"
      BY <1>10 DEF Review, sourceVars, TypeOK
    <2>2. QED
      BY <2>1 DEF SeedInv, SourcesOf
  <1>11. CASE UNCHANGED vars
    BY <1>11, SeedsStay DEF vars, discoveryVars
  <1>12. QED
    BY <1>1, <1>2, <1>3, <1>4, <1>5, <1>6, <1>7, <1>8, <1>9, <1>10, <1>11, <1>13 DEF Next

\* An approved page has a seed to be monitored, under a source of its own site, and
\* is in the monitor's schedule whenever that source is on, unless the approval
\* itself found the source off and turned it on (the defect ApprovedIsScheduled shows)
\* or a handler broke off between the two flags of the source.
ApprovedIsMonitored ==
    \A p \in Pages : candidate[p] = "approved" =>
        /\ seeds[p].use = "monitor" /\ seeds[p].key \in SourcesOf(SiteOf[p])
        /\ enabled[seeds[p].key] => scheduled[seeds[p].key] \/ seeds[p].key \in reenabled \cup torn

\* Neither the sync nor any handler that comes to its end takes an approved page from the
\* monitor: the ways to it are the approval of a page whose source was off and a write
\* that throws, or a kill, between the two flags of its source.
THEOREM ApprovedPagesAreMonitored == Spec => []ApprovedIsMonitored
  <1>1. Init => SeedInv
    BY InitSeeds
  <1>2. TypeOK /\ SeedInv /\ [Next]_vars => SeedInv'
    BY SeedNext
  <1>3. TypeOK /\ SeedInv /\ ScheduledWhenEnabled => ApprovedIsMonitored
    BY DEF SeedInv, ScheduledWhenEnabled, ApprovedIsMonitored, SourcesOf
  <1>4. QED
    BY <1>1, <1>2, <1>3, TypeCorrect, EnabledIsScheduled, PTL DEF Spec

-----------------------------------------------------------------------------
(* The list of a tick. *)

LEMMA ListNext == TypeOK /\ ListInv /\ [Next]_vars => ListInv'
  <1> SUFFICES ASSUME TypeOK, ListInv, [Next]_vars PROVE ListInv'
    OBVIOUS
  <1> USE DEF ListInv
  <1>1. CASE UNCHANGED <<dueList, recipe, late>>
    BY <1>1
  <1>2. CASE dueList' = {}
    BY <1>2
  <1>3. CASE StartTick
    BY <1>1, <1>3 DEF StartTick, ListDue, DueSites, tickVars, planVars
  <1>4. ASSUME NEW s \in Sites, NEW good \in BOOLEAN, FinishRun(s, good) PROVE ListInv'
    BY <1>4 DEF FinishRun, Judge, TypeOK
  <1>16. CASE DiscoveryBreaksOff
    <2>1. ASSUME NEW s \in Sites, RunBreaksOff(s) PROVE ListInv'
      BY <2>1 DEF RunBreaksOff, Judge, TypeOK
    <2>2. ASSUME NEW s \in Sites, DueStartFails(s) PROVE ListInv'
      BY <2>2 DEF DueStartFails, StartFails
    <2>3. QED
      BY <1>16, <2>1, <2>2 DEF DiscoveryBreaksOff, DiscoveryFault
  <1>5. CASE DiscoveryStep
    <2>1. ASSUME NEW s \in Sites, EndRun(s) \/ AbortRun(s) PROVE ListInv'
      BY <1>4, <2>1, Ended
    <2>2. ASSUME NEW s \in Sites, RunNextDue(s) PROVE ListInv'
      BY <2>2 DEF RunNextDue, StartRun
    <2>3. ASSUME NEW s \in Sites, PassOver(s) PROVE ListInv'
      BY <2>3 DEF PassOver, planVars
    <2>4. CASE EndTick
      BY <1>2, <2>4 DEF EndTick
    <2>5. CASE \/ \E s \in Sites : ReadRobotsAndSitemap(s)
               \/ \E p \in Pages : SkipPage(p) \/ VisitPage(p)
      BY <1>1, <2>5 DEF ReadRobotsAndSitemap, SkipPage, VisitPage, planVars, tickVars
    <2>6. QED
      BY <1>5, <2>1, <2>2, <2>3, <2>4, <2>5 DEF DiscoveryStep, RunStep, Scheduler
  <1>6. CASE Die
    BY <1>2, <1>6 DEF Die, LoseRuns
  <1>7. CASE Start \/ StartBreaksOff \/ TickBreaksOff \/ DiscoveryComesDue \/ SwitchNetwork \/ EditFile
    BY <1>1, <1>7
    DEF Start, StartBreaksOff, TickBreaksOff, DiscoveryComesDue, TimePasses, SwitchNetwork, EditFile, planVars, tickVars, discoveryVars
  <1>8. ASSUME NEW s \in Sites, ExploreSite(s) PROVE ListInv'
    BY <1>1, <1>8 DEF ExploreSite, ExploreNow, StartRun, StartFails, tickVars
  <1>9. ASSUME NEW s \in Sites, ConfigureSite(s) PROVE ListInv'
    BY <1>9 DEF ConfigureSite, Configure, TypeOK, tickVars
  <1>10. ASSUME NEW k \in Keys, CheckNow(k) \/ \E on \in BOOLEAN : SetSourceEnabled(k, on) PROVE ListInv'
    BY <1>1, <1>10 DEF CheckNow, SetSourceEnabled, planVars, tickVars, discoveryVars
  <1>11. ASSUME NEW s \in Sites, ApproveCandidates(s) PROVE ListInv'
    BY <1>1, <1>11 DEF ApproveCandidates, planVars, tickVars
  <1>12. ASSUME NEW p \in Pages,
                ConfirmSource(p) \/ ConfirmBreaksOff(p) \/ RefusedApproval(p) \/ ApprovalBreaksOff(p)
         PROVE  ListInv'
    BY <1>1, <1>12 DEF ConfirmSource, ConfirmBreaksOff, RefusedApproval, ApprovalBreaksOff, planVars, tickVars
  <1>13. ASSUME NEW p \in Pages, NEW status, Review(p, status) PROVE ListInv'
    BY <1>1, <1>13 DEF Review, planVars, tickVars
  <1>14. CASE UNCHANGED vars
    BY <1>1, <1>14 DEF vars, discoveryVars, planVars, tickVars
  <1>15. QED
    BY <1>3, <1>5, <1>6, <1>7, <1>8, <1>9, <1>10, <1>11, <1>12, <1>13, <1>14, <1>16 DEF Next

\* Only a run of the tick makes its site run by the tick, and its site is on the list.
LEMMA TickRuns ==
    ASSUME TypeOK, [Next]_vars, NEW s \in Sites, runner[s] # "tick", runner'[s] = "tick"
    PROVE  s \in dueList
  <1>1. CASE DiscoveryStep
    <2>1. ASSUME NEW t \in Sites, RunNextDue(t) PROVE s \in dueList
      BY <2>1 DEF RunNextDue, StartRun, TypeOK
    <2>2. ASSUME NEW t \in Sites, EndRun(t) \/ AbortRun(t) PROVE FALSE
      <3>1. runner' = [r \in Sites |-> IF r \in {t} THEN "none" ELSE runner[r]]
        BY <2>2 DEF EndRun, AbortRun, FinishRun, Forget
      <3>2. QED
        BY <3>1
    <2>3. CASE \/ \E t \in Sites : ReadRobotsAndSitemap(t) \/ PassOver(t)
               \/ \E p \in Pages : SkipPage(p) \/ VisitPage(p)
               \/ EndTick
      BY <2>3 DEF ReadRobotsAndSitemap, PassOver, SkipPage, VisitPage, EndTick, runVars
    <2>4. QED
      BY <1>1, <2>1, <2>2, <2>3 DEF DiscoveryStep, RunStep, Scheduler
  <1>2. ASSUME NEW t \in Sites, ExploreSite(t) PROVE FALSE
    <2>1. runner' = [runner EXCEPT ![t] = "user"] \/ runner' = runner
      BY <1>2 DEF ExploreSite, ExploreNow, StartRun, StartFails
    <2>2. QED
      BY <2>1 DEF TypeOK
  <1>11. CASE DiscoveryBreaksOff
    <2>1. ASSUME NEW t \in Sites, RunBreaksOff(t) PROVE FALSE
      <3>1. runner' = [r \in Sites |-> IF r \in {t} THEN "none" ELSE runner[r]]
        BY <2>1 DEF RunBreaksOff, Forget
      <3>2. QED
        BY <3>1
    <2>2. ASSUME NEW t \in Sites, DueStartFails(t) PROVE FALSE
      BY <2>2 DEF DueStartFails, StartFails
    <2>3. QED
      BY <1>11, <2>1, <2>2 DEF DiscoveryBreaksOff, DiscoveryFault
  <1>3. CASE Die
    BY <1>3 DEF Die, LoseRuns, Forget
  <1>4. CASE \/ StartTick \/ Start \/ TickBreaksOff \/ StartBreaksOff
             \/ DiscoveryComesDue \/ SwitchNetwork \/ EditFile
    BY <1>4
    DEF StartTick, Start, TickBreaksOff, StartBreaksOff, DiscoveryComesDue, TimePasses, SwitchNetwork, EditFile, runVars, discoveryVars
  <1>5. ASSUME NEW k \in Keys, CheckNow(k) \/ \E on \in BOOLEAN : SetSourceEnabled(k, on) PROVE FALSE
    BY <1>5 DEF CheckNow, SetSourceEnabled, runVars, discoveryVars
  <1>6. ASSUME NEW t \in Sites, ConfigureSite(t) \/ ApproveCandidates(t) PROVE FALSE
    BY <1>6 DEF ConfigureSite, Configure, ApproveCandidates, runVars
  <1>7. ASSUME NEW p \in Pages,
               ConfirmSource(p) \/ ConfirmBreaksOff(p) \/ RefusedApproval(p) \/ ApprovalBreaksOff(p)
        PROVE  FALSE
    BY <1>7 DEF ConfirmSource, ConfirmBreaksOff, RefusedApproval, ApprovalBreaksOff, runVars
  <1>8. ASSUME NEW p \in Pages, NEW status, Review(p, status) PROVE FALSE
    BY <1>8 DEF Review, runVars
  <1>9. CASE UNCHANGED vars
    BY <1>9 DEF vars, discoveryVars, runVars
  <1>10. QED
    BY <1>1, <1>2, <1>3, <1>4, <1>5, <1>6, <1>7, <1>8, <1>9, <1>11 DEF Next

\* The scheduler leaves a failed recipe alone, but for a list it has read before.
THEOREM FailedRecipesRest == Spec => FailedRecipeRests
  <1>1. Init => ListInv
    BY DEF Init, ListInv
  <1>2. TypeOK /\ ListInv /\ [Next]_vars => ListInv'
    BY ListNext
  <1>3. TypeOK /\ ListInv /\ [Next]_vars
        => [\A s \in Sites :
              runner[s] # "tick" /\ runner'[s] = "tick" /\ recipe[s] = "needs_review"
              => s \in late]_vars
    BY TickRuns DEF ListInv
  <1>4. QED
    BY <1>1, <1>2, <1>3, TypeCorrect, PTL DEF Spec, FailedRecipeRests
=============================================================================

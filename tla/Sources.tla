------------------------------- MODULE Sources -------------------------------
(****************************************************************************)
(* Source management, the configuration sync and the Review Queue           *)
(* (src/core/source-manager.js, src/core/review-queue.js, the sources part  *)
(* of src/app.js and src/core/store.js), composed with Discovery.           *)
(*                                                                          *)
(* A source is monitored when sources.enabled and                           *)
(* source_monitor_settings.enabled both hold; config/sources.json, the      *)
(* sources page, the Review Queue and the monitor all write one or both.    *)
(*                                                                          *)
(* Abstractions.  Every handler here runs without an await, so each is one  *)
(* step, or breaks off between two of its writes when one of them throws; a *)
(* kill between them is such a step and a death.  Which of several equally  *)
(* good sources of a site is taken (the lowest id) is left open.  The       *)
(* crawls of a tick are in OfferMonitor: they take a source that is on in   *)
(* both tables and write the first one into the second, which can only set  *)
(* the second right.  sites.status, which only the page shows, and the      *)
(* manual cooldown are left out.                                            *)
(****************************************************************************)
EXTENDS Discovery

CONSTANTS
    Keys,           \* source keys
    ConfigKeys,     \* those config/sources.json may define
    KeySite,        \* the site of a source
    ConfigPages,    \* the pages the file gives a source
    MaxActs         \* bound: steps of the user, edits of the file, faults

ASSUME KeysAssumption ==
    /\ ConfigKeys \subseteq Keys /\ None \notin Keys
    /\ KeySite \in [Keys -> Sites]
    /\ ConfigPages \in [ConfigKeys -> SUBSET Pages]
    /\ \A k \in ConfigKeys : \A p \in ConfigPages[k] : SiteOf[p] = KeySite[k]
ASSUME MaxActsAssumption == MaxActs \in Nat

VARIABLES
    up,             \* the service runs
    exists,         \* sources with a row
    enabled,        \* sources.enabled
    scheduled,      \* source_monitor_settings.enabled
    file,           \* what config/sources.json says of a key
    broken,         \* the file does not parse or does not validate
    reenabled,      \* history: enabled by an approval that found them off
    torn,           \* history: turned on or off with the second flag not written
    acts            \* counts the steps that MaxActs bounds

sourceVars == <<exists, enabled, scheduled>>
fileVars == <<file, broken>>
historyVars == <<reenabled, torn>>
vars == <<discoveryVars, up, sourceVars, fileVars, historyVars, acts>>

TypeOK ==
    /\ network \in BOOLEAN /\ up \in BOOLEAN /\ broken \in BOOLEAN
    /\ seeds \in [Pages -> [on : BOOLEAN, use : {"none", "monitor", "discovery"},
                            key : Keys \cup {None}]]
    /\ settings \subseteq Sites /\ due \subseteq settings
    /\ recipe \in [Sites -> RecipeStatus]
    /\ rows \subseteq Sites /\ found \subseteq Sites
    /\ runner \in [Sites -> {"none", "tick", "user"}]
    /\ stage \in [Sites -> {"none", "robots", "pages"}]
    /\ disallowed \in [Sites -> SUBSET Pages]
    /\ frontier \in [Pages -> FrontierStatus]
    /\ candidate \in [Pages -> CandidateStatus]
    /\ dueList \subseteq Sites /\ late \subseteq Sites /\ ticking \in BOOLEAN
    /\ exists \subseteq Keys /\ reenabled \subseteq Keys /\ torn \subseteq Keys
    /\ enabled \in [Keys -> BOOLEAN] /\ scheduled \in [Keys -> BOOLEAN]
    /\ file \in [ConfigKeys -> {"absent", "on", "off"}]
    /\ acts \in 0..MaxActs /\ faults \in Nat

\* A fresh installation, or one whose user has confirmed the pages of the UI's sites for
\* discovery, so that their sources are off.
EntryKeys(p) == {k \in exists : KeySite[k] = SiteOf[p]}

Init ==
    /\ network = TRUE
    /\ exists \in {{}, Keys \ ConfigKeys}
    /\ settings = {KeySite[k] : k \in exists}
    /\ seeds = [p \in Pages |->
          IF EntryKeys(p) = {} THEN NoSeed
          ELSE [on |-> TRUE, use |-> "discovery", key |-> CHOOSE k \in EntryKeys(p) : TRUE]]
    /\ due = settings
    /\ recipe = [s \in Sites |-> "none"]
    /\ rows = {} /\ found = {}
    /\ runner = [s \in Sites |-> "none"] /\ stage = [s \in Sites |-> "none"]
    /\ disallowed = [s \in Sites |-> {}]
    /\ frontier = [p \in Pages |-> "none"]
    /\ candidate = [p \in Pages |-> "none"]
    /\ dueList = {} /\ ticking = FALSE /\ late = {}
    /\ up = FALSE
    /\ enabled = [k \in Keys |-> FALSE] /\ scheduled = [k \in Keys |-> FALSE]
    /\ file = [k \in ConfigKeys |-> "on"] /\ broken = FALSE
    /\ reenabled = {} /\ torn = {}
    /\ acts = 0 /\ faults = 0

(****************************************************************************)
(* syncSources: a valid file writes its sources over the database, adds its *)
(* pages as seeds and turns off the sources it no longer has; an invalid    *)
(* one changes nothing.                                                     *)
(****************************************************************************)
Defined == {k \in ConfigKeys : ~broken /\ file[k] # "absent"}
Pruned == {k \in ConfigKeys : ~broken /\ file[k] = "absent"}

\* upsertSource writes the same flag to the row of a source and to its settings.
Upserted(flag, keys) == [k \in Keys |-> IF k \in keys THEN file[k] = "on" ELSE flag[k]]

\* The sources whose row, whose settings and whose pages were written, and those that
\* were turned off.
SyncWrites(rowsOf, settingsOf, pagesOf, off) ==
    /\ exists' = exists \cup rowsOf
    /\ enabled' = [k \in Keys |-> Upserted(enabled, rowsOf)[k] /\ k \notin off]
    /\ scheduled' = Upserted(scheduled, settingsOf)
    /\ seeds' = [p \in Pages |->
          IF \E k \in pagesOf : p \in ConfigPages[k]
          THEN [on |-> TRUE, use |-> "monitor",
                key |-> CHOOSE k \in pagesOf : p \in ConfigPages[k]]
          ELSE seeds[p]]
    /\ reenabled' = reenabled \ settingsOf
    /\ torn' = (torn \ settingsOf) \cup (rowsOf \ settingsOf)

SyncSources == SyncWrites(Defined, Defined, Defined, Pruned)

\* A write of the sync throws: the sources after it in the file, whose order is left
\* open, are not written and none is turned off; or some are not turned off.
SyncBreaksOff ==
    \/ \E k \in Defined : \E done \in SUBSET (Defined \ {k}) :
          \/ SyncWrites(done, done, done, {})
          \/ SyncWrites(done \cup {k}, done, done, {})
          \/ SyncWrites(done \cup {k}, done \cup {k}, done, {})
    \/ \E k \in Pruned : \E off \in SUBSET (Pruned \ {k}) :
          SyncWrites(Defined, Defined, Defined, off)

(****************************************************************************)
(* A tick (runOnce): the sync, the crawls of the due sources, which are in  *)
(* OfferMonitor, and the discovery scheduler if the network is on.          *)
(****************************************************************************)
StartTick ==
    /\ up /\ ~ticking
    /\ SyncSources
    /\ \/ network /\ ListDue
       \/ ~network /\ UNCHANGED tickVars
    /\ UNCHANGED <<network, planVars, runVars, webVars, candidate, faults, up, fileVars, acts>>

Fault ==
    /\ acts < MaxActs /\ acts' = acts + 1
    /\ faults' = faults + 1

\* The sync of a tick throws, and the tick ends.
TickBreaksOff ==
    /\ up /\ ~ticking /\ Fault
    /\ SyncBreaksOff
    /\ UNCHANGED <<network, planVars, runVars, webVars, candidate, tickVars, up, fileVars>>

DiscoveryStep ==
    /\ up
    /\ RunStep \/ Scheduler
    /\ UNCHANGED <<up, sourceVars, fileVars, historyVars, acts>>

DiscoveryBreaksOff ==
    /\ up /\ acts < MaxActs /\ acts' = acts + 1
    /\ DiscoveryFault
    /\ UNCHANGED <<up, sourceVars, fileVars, historyVars>>

DiscoveryComesDue ==
    /\ \E s \in Sites : TimePasses(s)
    /\ UNCHANGED <<up, sourceVars, fileVars, historyVars, acts>>

(****************************************************************************)
(* The source a site's new page belongs to: an enabled one, else any one,   *)
(* else a new one managed by the UI.                                        *)
(****************************************************************************)
SourcesOf(s) == {k \in exists : KeySite[k] = s}
OnSources(s) == {k \in SourcesOf(s) : enabled[k]}
NewKeys(s) == {k \in Keys \ ConfigKeys : KeySite[k] = s} \ exists
SourceChoice(s) ==
    IF OnSources(s) # {} THEN OnSources(s)
    ELSE IF SourcesOf(s) # {} THEN SourcesOf(s) ELSE NewKeys(s)

\* addSeedUrl: a page that is known is turned on again, and stays monitored.
SeedAdded(p, k, use) ==
    [on |-> TRUE, key |-> k,
     use |-> IF seeds[p].use = "monitor" THEN "monitor" ELSE use]

UserActs ==
    /\ up /\ acts < MaxActs
    /\ acts' = acts + 1
    /\ UNCHANGED <<up, fileVars>>

\* A handler of the user's breaks off.
UserFails ==
    /\ up /\ Fault
    /\ UNCHANGED <<up, fileVars>>

(****************************************************************************)
(* The sources page.                                                        *)
(****************************************************************************)
\* confirmSource with discoveryOnly: the page is only an entry for discovery.
KeepSource(k) ==
    /\ exists' = exists \cup {k}
    /\ UNCHANGED <<enabled, scheduled, historyVars>>

ConfirmForDiscovery(p, k) ==
    /\ KeepSource(k)
    /\ seeds' = [seeds EXCEPT ![p] = SeedAdded(p, k, "discovery")]

\* confirmSource of a product page: its source, if it is new or off, is turned on in its
\* row and then in its settings.
TurnOnRow(k) ==
    /\ ~enabled[k]
    /\ exists' = exists \cup {k}
    /\ enabled' = [enabled EXCEPT ![k] = TRUE]
    /\ torn' = torn \cup {k}
    /\ UNCHANGED <<scheduled, reenabled>>

\* Mutated form of TurnOn: the settings row keeps its value.
TurnOnWithoutSettings(k) ==
    /\ exists' = exists \cup {k}
    /\ enabled' = [enabled EXCEPT ![k] = TRUE]
    /\ reenabled' = IF enabled[k] THEN reenabled ELSE reenabled \ {k}
    /\ torn' = IF enabled[k] THEN torn ELSE torn \ {k}
    /\ UNCHANGED scheduled

TurnOn(k) ==
    /\ exists' = exists \cup {k}
    /\ enabled' = [enabled EXCEPT ![k] = TRUE]
    /\ scheduled' = [scheduled EXCEPT ![k] = @ \/ ~enabled[k]]
    /\ reenabled' = IF enabled[k] THEN reenabled ELSE reenabled \ {k}
    /\ torn' = IF enabled[k] THEN torn ELSE torn \ {k}

ConfirmForMonitoring(p, k) ==
    /\ TurnOn(k)
    /\ seeds' = [seeds EXCEPT ![p] = SeedAdded(p, k, "monitor")]

ConfirmSource(p) ==
    /\ UserActs /\ network
    /\ \E k \in SourceChoice(SiteOf[p]) :
        ConfirmForDiscovery(p, k) \/ ConfirmForMonitoring(p, k)
    /\ EnsureSettings(SiteOf[p])
    /\ UNCHANGED <<network, recipe, runVars, webVars, candidate, tickVars, faults>>

\* confirmSource is no transaction: what it wrote before a write that throws stays.
ConfirmBreaksOff(p) ==
    /\ UserFails /\ network
    /\ \E k \in SourceChoice(SiteOf[p]) :
        \/ TurnOnRow(k) /\ UNCHANGED seeds
        \/ (KeepSource(k) \/ TurnOn(k)) /\ UNCHANGED seeds
        \/ ConfirmForDiscovery(p, k) \/ ConfirmForMonitoring(p, k)
    /\ UNCHANGED <<network, planVars, runVars, webVars, candidate, tickVars>>

SetSourceEnabled(k, on) ==
    /\ UserActs /\ k \in exists
    /\ enabled' = [enabled EXCEPT ![k] = on]
    /\ scheduled' = [scheduled EXCEPT ![k] = on]
    /\ seeds' = [p \in Pages |-> IF seeds[p].key = k THEN [seeds[p] EXCEPT !.on = on]
                                 ELSE seeds[p]]
    /\ reenabled' = reenabled \ {k} /\ torn' = torn \ {k}
    /\ UNCHANGED <<network, planVars, runVars, webVars, candidate, tickVars, faults, exists>>

\* A manual check (requestImmediateMonitor) rewrites the settings row as well.
CheckNow(k) ==
    /\ UserActs /\ network /\ k \in exists
    /\ scheduled' = [scheduled EXCEPT ![k] = enabled[k]]
    /\ reenabled' = reenabled \ {k} /\ torn' = torn \ {k}
    /\ UNCHANGED <<discoveryVars, exists, enabled>>

ExploreSite(s) ==
    /\ UserActs
    /\ ExploreNow(s)
    /\ UNCHANGED <<sourceVars, historyVars>>

ConfigureSite(s) ==
    /\ UserActs
    /\ \E k \in exists : KeySite[k] = s
    /\ Configure(s)
    /\ UNCHANGED <<sourceVars, historyVars>>

SwitchNetwork ==
    /\ UserActs
    /\ network' = ~network
    /\ UNCHANGED <<seeds, planVars, runVars, webVars, candidate, tickVars, faults,
                   sourceVars, historyVars>>

(****************************************************************************)
(* The Review Queue.  An approval gives the page a monitored source and a   *)
(* seed; only then is its listing processed, which may refuse it.           *)
(****************************************************************************)
\* ensureMonitoringSource and addMonitoringSeed for a set of candidates.
GivenSource(chosen, k) ==
    /\ exists' = exists \cup {k}
    /\ enabled' = [enabled EXCEPT ![k] = TRUE]
    /\ scheduled' = [scheduled EXCEPT ![k] = @ \/ k \notin exists]
    /\ reenabled' = IF k \in exists /\ ~enabled[k] THEN reenabled \cup {k} ELSE reenabled
    /\ UNCHANGED torn
    /\ seeds' = [p \in Pages |-> IF p \in chosen
                                 THEN [on |-> TRUE, use |-> "monitor", key |-> k]
                                 ELSE seeds[p]]

Undecided(s) == {p \in PagesOf(s) : candidate[p] \notin {"none", "approved"}}

\* One candidate or a batch: a batch is one transaction.
ApproveCandidates(s) ==
    /\ UserActs
    /\ \E chosen \in SUBSET Undecided(s), k \in SourceChoice(s) :
        /\ chosen # {}
        /\ GivenSource(chosen, k)
        /\ candidate' = [p \in Pages |-> IF p \in chosen THEN "approved" ELSE candidate[p]]
    /\ UNCHANGED <<network, planVars, runVars, webVars, tickVars, faults>>

\* The listing of a single candidate is refused: the source and seed stay.
RefusedApproval(p) ==
    /\ UserActs
    /\ p \in Undecided(SiteOf[p])
    /\ \E k \in SourceChoice(SiteOf[p]) : GivenSource({p}, k)
    /\ UNCHANGED <<network, planVars, runVars, webVars, candidate, tickVars, faults>>

\* The approval of a single candidate is no transaction either.
ApprovalBreaksOff(p) ==
    /\ UserFails
    /\ p \in Undecided(SiteOf[p])
    /\ \E k \in SourceChoice(SiteOf[p]) :
        \/ k \notin exists /\ TurnOnRow(k) /\ UNCHANGED seeds
        \/ GivenSource({}, k)
        \/ GivenSource({p}, k)
    /\ UNCHANGED <<network, planVars, runVars, webVars, candidate, tickVars>>

\* Exclude, defer and reopen take candidates of any status, approved ones too.
Review(p, status) ==
    /\ UserActs
    /\ candidate[p] # "none" /\ candidate[p] # status
    /\ candidate' = [candidate EXCEPT ![p] = status]
    /\ UNCHANGED <<network, seeds, planVars, runVars, webVars,
                   tickVars, faults, sourceVars, historyVars>>

(****************************************************************************)
(* Outside the service: the file is edited, the service dies and starts.    *)
(****************************************************************************)
EditFile ==
    /\ acts < MaxActs /\ acts' = acts + 1
    /\ \/ broken' = ~broken /\ UNCHANGED file
       \/ broken' = FALSE /\ file' \in [ConfigKeys -> {"absent", "on", "off"}]
    /\ UNCHANGED <<discoveryVars, up, sourceVars, historyVars>>

Die ==
    /\ up /\ acts < MaxActs
    /\ up' = FALSE
    /\ acts' = acts + 1
    /\ LoseRuns
    /\ UNCHANGED <<sourceVars, fileVars, historyVars>>

\* recoverInterruptedWork and the first sync, before the first tick.
Start ==
    /\ ~up
    /\ up' = TRUE
    /\ RecoverRuns
    /\ SyncSources
    /\ UNCHANGED <<network, planVars, runner, stage, webVars, candidate,
                   tickVars, faults, fileVars, acts>>

\* The sync throws, and the service exits with the rows settled.
StartBreaksOff ==
    /\ ~up /\ Fault
    /\ RecoverRuns
    /\ SyncBreaksOff
    /\ UNCHANGED <<network, planVars, runner, stage, webVars, candidate,
                   tickVars, up, fileVars>>

Next ==
    \/ StartTick \/ TickBreaksOff
    \/ DiscoveryStep \/ DiscoveryBreaksOff \/ DiscoveryComesDue
    \/ SwitchNetwork \/ EditFile \/ Die \/ Start \/ StartBreaksOff
    \/ \E k \in Keys : CheckNow(k) \/ \E on \in BOOLEAN : SetSourceEnabled(k, on)
    \/ \E s \in Sites : ExploreSite(s) \/ ConfigureSite(s) \/ ApproveCandidates(s)
    \/ \E p \in Pages :
        \/ ConfirmSource(p) \/ ConfirmBreaksOff(p)
        \/ RefusedApproval(p) \/ ApprovalBreaksOff(p)
        \/ \E status \in {"excluded", "deferred", "pending"} : Review(p, status)

Spec == Init /\ [][Next]_vars

-----------------------------------------------------------------------------
\* A site's row of discovery_runs says running while a run of it is alive, so that no site
\* is explored twice at once, whoever asks.  A row that outlives its run, and blocks the
\* site (BT-SRC-005), was left by a death or by a write that threw outside the try or in
\* its handlers, never by an end, a refusal or an exception that was handled; and the
\* next start settles what was left before anything is run.
LiveSites == {s \in Sites : Live(s)}
RunningRow == [s \in Sites |-> IF s \in rows THEN 1 ELSE 0]

Runs == INSTANCE RecoverableRuns WITH
    Places    <- Sites,
    Exclusive <- TRUE,
    alive     <- up,
    live      <- LiveSites,
    rows      <- RunningRow,
    faults    <- faults

RunsAreRecovered == Runs!Spec

\* A recipe found wanting is not tried again by the scheduler before someone
\* looks at it (PROJECT_MEMORY.md:260), whatever runs the user starts meanwhile;
\* except that a list of due sites already read is worked off.
FailedRecipeRests ==
    [][\A s \in Sites :
        runner[s] # "tick" /\ runner'[s] = "tick" /\ recipe[s] = "needs_review"
        => s \in late]_vars

\* A source that is on is also on in the table the monitor schedules from,
\* through confirmation, switching, the sync, pruning, crawls and manual checks, and
\* through every fault that falls elsewhere than between the two writes of one source.
\* Exceptions: one whose second flag was not written because the handler broke off just
\* then (confirmSource, an approval, the sync), until something writes both again, and
\* one that an approval found off and turned on: see ApprovedIsScheduled.
ScheduledWhenEnabled ==
    \A k \in exists \ (reenabled \cup torn) : enabled[k] => scheduled[k]

\* An approved candidate whose source is on is monitored (docs/PRD.md:113).
ApprovedIsScheduled ==
    \A p \in Pages :
        candidate[p] = "approved" /\ seeds[p].on /\ enabled[seeds[p].key]
        => scheduled[seeds[p].key]
=============================================================================

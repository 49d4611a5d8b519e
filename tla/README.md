# Beyblade Tracker: TLA+ verification

TLA+ specifications of the parts of Beyblade Tracker whose correctness depends on
order, interleaving and failure, with TLC configurations that check them on small
instances and TLAPS proofs for every value of the constants. Paths are relative to
the repository (`src/core/monitor.js` is the application's source, `bin/` and
`scripts/` its entry points). `PROJECT.json` lists the components, the runs, one
mutant per property, the lines each definition models, the findings, the hazards
and the theorems.

- [1. The system](#1-the-system)
- [2. What is here](#2-what-is-here)
- [3. OfferMonitor](#3-offermonitor)
- [4. NotificationQueue and AlertQueue](#4-notificationqueue-and-alertqueue)
- [5. RollbackLock](#5-rollbacklock)
- [6. ServiceControl](#6-servicecontrol)
- [7. Restore](#7-restore)
- [8. Update](#8-update)
- [9. Discovery and Sources](#9-discovery-and-sources)
- [10. ProductIdentity](#10-productidentity)
- [11. Findings](#11-findings)
- [12. Behaviour no property rules out](#12-behaviour-no-property-rules-out)
- [13. What is proved](#13-what-is-proved)
- [14. What is not modelled](#14-what-is-not-modelled)
- [15. Plan](#15-plan)
- [16. Running it](#16-running-it)

## 1. The system

A single-user price and stock tracker: Node.js, one SQLite database in WAL mode,
one Windows machine. `bin/service.js` runs a worker tick and a web server in **one
event loop**, so two pieces of code interleave only where one of them awaits. The
command line tools (`bin/rollback.js`, `bin/restore.js`, `bin/update.js`,
`bin/crawl-once.js`, `scripts/service-control.js`) are separate processes that
share files and the database with it. Every `db.run` commits on its own, except
inside the few `db.transaction` calls (merge, split, batch review, source
enabling), so a kill can fall between any two writes.

| Component | State | Operations | Meets | What makes it correct |
|---|---|---|---|---|
| Offer monitor (`app.js`, `core/monitor.js`, `core/pipeline.js`, `core/events.js`, `core/store.js`) | `offers`, `source_monitor_settings`, `monitor_requests`, `crawl_runs` | `runOfferMonitors`, `crawlSource`, `processListing`, the two finalizations, `requestImmediateMonitor`, `refreshOfferFreshness`, recovery at start | web UI (views refresh freshness, manual checks, approvals, network switch) while a fetch is awaited; kills | old stock is never shown as buyable; archival needs consecutive evidence; a flapping page changes nothing; every accepted transition is handed on for announcement; a manual check is not forgotten |
| Notification queue (`notify/queue.js`) | `events.notified`, `notifications` by channel and dedup key | `flushNotifications` | crawl (creates events), merge and split, credentials, network switch, kills, all while a send is awaited | an event is retired only when every channel of the flush confirmed it; a confirmed summary is not repeated; every event is settled in the end |
| Watchlist alerts (`core/watchlist.js`) | `watchlist_alerts`, rows of `notifications` | `createAlert`, `flushWatchlistAlerts`, `deleteWatchlist` | merge, deletion and credentials while a send is awaited | the same, although its row write may throw |
| Rollback lock (`release/update.js`, `bin/rollback.js`, `bin/service.js`) | directory `rollback.lock`, `owner.json` | `acquireRollbackLock`, `releaseRollbackLock`, `runRollbackLifecycle`, handoff in `finishShutdown` | several processes, kills, file errors | one rollback at a time; a dead owner never blocks the next one; an accepted handoff is kept |
| Service control (`bin/service.js`, `scripts/service-control.js`, `release/service-lifecycle.js`, `release/service-process.js`) | pid, stop and status files; the tick timer | start, stop, restart, wake, shutdown | two controllers, update, rollback, a crash of the service | at most one service on the database; a stop is not lost; a stale pid file does not block |
| Update (`release/update.js`, `web/server.js`, `bin/update.js`) | result, deferral, `rollback.json`, health marker, rollback status, `current.json` | check, defer, confirm, download, record, launch, verdict, rollback | two updaters, an installer that outlives both, starts and stops of the service, kills | only a confirmed installer is launched; a rollback leaves a program and a database that fit; a verdict or a failure is not lost |
| Discovery (`core/discovery.js`) | `discovery_settings`, `site_recipes`, `discovery_runs`, `crawl_frontier`, `product_candidates` | `runSiteDiscovery`, `runDueDiscoveries`, recovery, configuration | scheduler against UI at every awaited page; kills | runs end or are recovered, one per site; a recipe found wanting rests |
| Review queue (`core/review-queue.js`) | candidate status, sources, seeds | `reviewCandidate`, `reviewCandidates` | discovery, source management, config sync | an approved page is monitored |
| Identity (`core/identity-review.js`, `core/store.js`, `core/catalog.js`) | `products`, offers' product, catalog links | `findOrCreateProduct`, `linkProductToCatalog`, `backfillCatalog`, `mergeProducts`, `splitProduct` | queues, watchlists; kills and failed writes | a barcode names one product; conflicting listings are not joined; the catalog and the events follow the user's decisions |
| Sources (`core/source-manager.js`, `app.js`, `core/store.js`) | `sources`, sites, seeds, config file | `syncSources`, `pruneStaleSources`, `confirmSource`, `setSourceEnabled` | a tick re-reads the config file; approvals | a source is on in both tables or in neither |
| Backup and transfer (`maintenance/*.js`, `bin/restore.js`) | database files, backup directory, pending import | create, prune, restore, stage and apply an import | kills between file operations; update | there is always a complete database to start from; the backup an update needs is kept |
| Catalog, official, community (`core/catalog.js`, `core/official.js`, `core/community.js`) | reference tables | import, sync, prune | none while they write | idempotent imports |
| Pure functions (`core/classify.js`, `core/schedule.js`, `core/normalize.js`, `connectors/parse.js`) | none | classification, schedule arithmetic, normalisation | | agreement with a reference definition |
| I/O (`connectors/*`, `net/*`, `notify/{http,telegram,discord,console}.js`, `db/*`, `security/*`, `web/ui.js`, `i18n.js`) | none of its own | fetch, send, render | | |

The hard behaviours are: the database read before an await and used after it
(queues, crawl); writes that commit one by one under kills (crawl, finalization,
flush); several processes with nothing but files between them (lock, service,
restore); and hand-written state tables (`transitionEvent`, freshness columns).
`PROJECT.json` lists each hazard at its line with the property that would catch
it, or the reason why none does yet.

## 2. What is here

| Module | Models | Checked by | Proved in |
|---|---|---|---|
| `OfferMonitor` | one monitored source and its offers | `OfferMonitor.cfg` | `OfferMonitor_proofs` |
| `AtLeastOnceDelivery` | the promise both queues keep (abstract) | as `KeepsPromise` of both queues | refinement theorems of both |
| `RecoverableRuns` | what a `running` row is worth (abstract) | as `RunsAreRecovered` of `OfferMonitor` and `Sources` | refinement theorems of both |
| `NotificationQueue` | `flushNotifications` | `NotificationChannels.cfg` | `NotificationQueue_proofs` |
| `AlertQueue` | `flushWatchlistAlerts` | `AlertQueue.cfg` | `AlertQueue_proofs` |
| `RollbackLock` | `rollback.lock` | `RollbackLock.cfg`, `RollbackLockTwoRunners.cfg` | `Processes_proofs` |
| `ServiceControl` | starting and stopping the service through the pid, stop and status files | `ServiceControl.cfg` | `Processes_proofs` |
| `Restore` | backups, pruning, restores and imports over one database file | `Restore.cfg`, `RestoreAfterKill.cfg` | `Restore_proofs` |
| `Update` | updating the program and rolling it back | `Update.cfg` | `Update_proofs` |
| `Discovery` | discovery runs, recipes, candidates and the due list of a tick | through `Sources` | through `Sources` |
| `Sources` | sources, the config sync and the Review Queue, composed with `Discovery` | `Sources.cfg`, `SourcesApproval.cfg` | `Sources_proofs` |
| `ProductIdentity` | which product an offer belongs to, and the product's catalog entry | `ProductIdentity.cfg` | `ProductIdentity_proofs` |

`MC*.tla` instantiate a module for TLC. Definitions whose comment begins "Mutated form
of" are not part of a model: each is the definition that follows with a plausible bug,
and the property named for it in `PROJECT.json` fails when it takes that definition's
place. Every module has a type invariant `TypeOK` (`LockTypeOK` in `RollbackLock`,
whose names differ from those of `ServiceControl` so that one module can hold the
proofs about both); where it is a theorem (`TypeCorrect`, section 13) the larger runs
do not check it again. Variables under "history" are written by the model only to
state properties and guard no action.

Deadlock checking is off in every run: all models bound the numbers of events,
requests, faults or processes, and stop when these are used up and nothing is
pending.

## 3. OfferMonitor

**State.** `offer` holds the columns of an `offers` row the code compares;
`request`, `run`, `due`, `enabled`, `network` stand for `monitor_requests.status`,
the newest `crawl_runs.status`, `next_run_at <= now`, the two enabled flags of the
source and the network switch; `stray` counts older `crawl_runs` rows that still say
`running`. The worker's locals (`seen`, `terminal`, `count`, the row being
processed and the events still to be created) are variables because a kill may
fall between any two writes.

**Actions.** `BeginCrawl` is the head of the loop of `runOfferMonitors`, for a source that
is enabled and due; `FetchReturns` and `FetchFails` end the awaited fetch; `ProcessListing` writes one offer,
`EmitEvent` creates its events one by one; `EndBatch` ends the run; `FinalizeOffer`,
`ArchiveOffer`, `EndFinalize`, `CompleteMonitorRequests` are the statements of
`finalizeSuccessfulMonitor` in order. `FailRun` and `CountMiss` are the catch of the
loop, after which the failed finalization takes the steps of the successful one.
Every write may throw: `ListingThrows` inside a listing (caught and logged),
`FinalizeThrows` inside the `try` (the catch takes over), `BeginThrows` between
`startCrawlRun` and `startMonitorRequests` and `CatchThrows` in the catch block, which
nobody catches: they end the tick, and the row may go on saying `running`. `Crash` and
`Restart` are a kill and the next start. Page views, manual checks,
`SetSourceEnabled`, the network switch, approvals and the clock (`BecomeDue`)
interleave anywhere.

**Abstractions.** Clock times are what the code compares. `consecutive_missing` is
compared with zero and with the threshold only, so it saturates there. The text of
a listing is the state it is read as. The manual cooldown only makes a manual check
rarer, so checks may come at any time. Of `crawl_runs` the newest row is kept and the
number of older ones that say `running`. Whether `createEvent` makes a row of what it
is handed depends on the clock (its cooldown); the model records the hand-over.
Freshness is refreshed when a crawl begins and by page
views; a tick that finds nothing due refreshes it too, which is the page view's
action.

**Run.** `monitor` (312 thousand states): one offer, three readings, threshold 2,
two confirmations, one listing per fetch, one manual check, one fault; safety, the
action property and the liveness of a manual check. Threshold and confirmations of
2 are the least at which "in a row" means something. That a dead page is not
charged to several offers, that a scan sees one and misses another, and that one
fetch reads an offer twice is covered by the proofs, which hold for any number of
offers and listings (section 13).

**Properties.** `NeverExposesOldStock` relates what the UI shows to what the last
scan said; `ArchiveJustified` counts settled misses independently of the column;
`SettledRowsConsistent` relates three columns five statements write;
`StableTransition` relates a change of the stored state to the readings since the
last one. `TransitionHandedOn`: a noteworthy change reaches `createEvent`, as an event
that tells of the new state, before the worker turns to the next listing; only a kill
or a throw in between loses it. Which changes are noteworthy and which event tells of
them is stated apart from the table of `core/events.js`. It ends at `createEvent`: in its
cooldown the row of a second restock is suppressed on purpose (TECH_SPEC 5.1.7).

`NoStrandedRequest`: an open manual check has its source due or a finalization about to
settle it. The one exception, `cutOff`, is the request whose own finalization was killed
or threw after it had moved `next_run_at`. `RequestSettled`: it is settled in the end,
unless the network is paused, the worker dies or the source is disabled; `check-now`
accepts a disabled source, which no tick lists.

`RunsAreRecovered` says that the monitor implements `RecoverableRuns`, what
`recoverInterruptedWork` (`app.js:132`) makes of crawls and discovery runs alike: a row
that says `running` is about a run under way, at most one to a place, or was left
behind by a death of the service or by a write that threw where nothing finishes the
run; what is left behind stays until the next start, which settles all of it before
anything begins. A run that ends without a fault leaves no row, and a step without a
fault settles no row but that of its run.

**Fairness.** `WF(Worker)`: the tick timer fires again after every tick and every
fetch ends by a timeout. `WF(BecomeDue)`: time passes. Nothing is assumed of the
user, of a restart or of the network being switched on again; `RequestSettled`
excuses a paused network, a dead worker and a disabled source.

## 4. NotificationQueue and AlertQueue

**State.** `status`, `subject`, `buyable` are columns of `events`; `product`, `live` the
offers' products and the products table; `row` the `notifications` table by channel
and dedup key. A dedup key is the record of the product and the set of event ids,
which is what `${productId}:${ids}` says. `configured` is `app.notifiers` as it is now,
`using` the copy a flush was given.

**Actions.** `BeginFlush` (read, stale filter, grouping), `NextSummary`,
`SkipUnconfigured`, `SkipSent`, `StartSend` up to the await, `SendSucceeds`,
`SendFails`, `SendUnrecorded` after it, `FinishSummary`, `EndFlush`. While a send is
awaited: `CreateEvent`, `GoStale`, `MergeProducts`, `SplitProduct`, `SwitchChannel`,
`SetNetworkEnabled`, `Crash`. `Upsert` is `INSERT ... ON CONFLICT DO UPDATE`: an
existing row is updated whatever became of the product, a first insert fails on
the foreign key once the product is merged away, and the error is only logged.

`AlertQueue` differs where the code does: alerts go one by one by id, a channel
without credentials gets no row, the loop works on a snapshot of the rows
(`snapshot` keeps the product ids it read), and the row write stands outside the
try, so `RecordThrows` ends the flush and the tick. A tick asks for the network once
(`BeginTick`) and empties the event queue before this one, or breaks off in it
(`EventsThrow`). `DeleteWatchlist` removes alerts
under a running flush.

**The promise.** `AtLeastOnceDelivery` is what a reader expects of either queue: in a
round, an item is closed only when every channel of the round has confirmed it,
channels confirm only open or dropped items, and only perishable items are
dropped unsent. For the event queue the perishable items are claims that something
is buyable, dropped by the stale filter; for the alert queue every alert is, since
the user may delete its watchlist. `KeepsPromise` is the refinement, checked by TLC
and proved.

**Runs.**
- `notification_channels` (320 thousand states): two offers, two products that are
  merged and split at any point, a local channel and one whose credentials come and
  go, one fault; safety, refinement and liveness (`EventSettled`). `BoundedSpec` of the
  MC module takes one event with everything around it free to change, or two events
  that claim nothing freshness could end, under a network that stays on: the second
  joins the product of the first between two ticks, or leaves it by a split, and
  changes the dedup key of what is being retried. Two events with everything free are
  beyond a few minutes; the safety properties are proved for any number. One fault is
  enough for a kill or an unrecorded send at every point of a flush.
- `watchlist_alerts` (299 thousand): two alerts, two channels of which one is
  switchable, two products, one watchlist that may be deleted, one fault; safety,
  refinement and liveness (`AlertSettled`). Two alerts show that a throw in the
  first does not lose the second.

**Exceptions named in properties.** `NoRepeatedSummary` excepts a channel whose
credentials were changed (its row turns `skipped`) and runs with a fault.
`NoRepeatedAlert` is sharper: the only exception is a row that was not written, and
it ends as soon as the row is.

**Fairness.** `WF(Flush)`: every tick flushes and every send ends. `SF` of a
successful send per channel is an assumption about the service behind the
channel: a channel that is tried again and again succeeds in the end. The code
has no limit on retries across ticks, so without it the item stays queued for
ever; that is recorded as a hazard.

**Abstractions.** One worker flushes (TECH_SPEC section 6: a single worker). A
configured notifier that skips itself cannot occur with the four notifiers there
are, `dryRun` is never used by the application, and both are left out. The
retries inside one send (`postJsonWithRetry`) are one outcome.

## 5. RollbackLock

**State.** The directory (`present`, `owner`, `temps`, `old`) and, per process, the
point of `acquireRollbackLock` it is at, its round and the owner it read. Processes
are any number of rollbacks started by hand, the service, and the child the
service hands its lock to.

**Actions.** `BeginRollback`, then one per file operation: `MakeDirectory`, `DirectoryExists`, `WriteOwner`,
`Publish` (rename), `PublishLost`, `ReadOwner`, `Refuse`, `Reclaim`, `Remove`, `Release`,
`ReleaseRemove`, `HandOver`, `Leave`; `GraceEnds` is the clock, `KillRollback` and `FileError`
the faults.

**Properties.** `HolderOwnsLock`: a holder is named by `owner.json`, until one of two
gaps opens. The gaps are history variables: `overtaken` (some process removed a
directory it had not looked at) and `slow` (the grace period passed between two file
operations of a process). `RefusedOnlyIfContended`: a rollback that meets nobody is
never turned away by what killed processes left. `HandoffKept`: nobody takes an
accepted handoff from the live service but its child. `SingleFlight` is what the
comment and the test claim, and fails (section 11).

**Runs.** `rollback_lock` (2.6 million states with symmetry): two rollbacks by hand, the
service, its child, three rounds as in the code, two faults: enough for a kill to
leave a lock and another to hit the process recovering it. `rollback_two_runners`:
one rollback by hand against the handoff, no fault.

**Abstractions.** `rmSync` removes the tree in one step. A directory that cannot be
made for another reason than `EEXIST` refuses, as any file error does. Process
identity is exact: a reused pid is told apart (`lockOwnerIsLive` compares the start),
and the case in which Windows cannot say who owns the pid, where the code keeps the
lock, is the case of a live owner. The status sidecar and
`canStartServiceDuringRollback`, which makes a start wait while another process holds
the lock, are in `Update`. Every process runs once and one handoff is made per
behaviour.

## 6. ServiceControl

**State.** `pidFile`, `status` and `stopFile` are the three files; `svc` is the point of
`bin/service.js` each service is at, from `spawned` over `recorded` (its pid is in
the file), `cleared`, `starting`, `opened` (the database is open), `busy` and `idle`
(serving, within and between ticks), `closing`, `closed`, `unasked`, `leaving` to
`dead`, or over `failing` and `failed`; `stopping` is its flag of that name, `port` the
service that listens, `foreign` the pids of dead services that another program has
been given. Each controller has a command, a point in it and the pid it is about.

**Actions.** One per file operation. Of the service: `RecordPid`, `DropRequest`,
`PublishStarting`, `OpenDatabase`, `Listen` or `PortTaken` with `FailUnpin` and
`FailExit`; `BeginTick`, `EndTick`, `TakeStop` (the stop poll), `CloseDatabase`,
`RemoveRequest`, `Unpin`, `Exit`. Of a controller: `ReadPid`, `FindStale`, `LeaveAlone`,
`AcceptStop` for the decisions, `ClearPid`, `ClearStopRequest`, `SpawnService` for a
start, `WriteStopRequest`, `StoppedGracefully`, `WaitTooLong`, `RefuseForce`,
`DecideForce`, `ForceTerminate`, `ForgetPid`, `Tidy` for a stop, and `StartAgain` for the
second half of a restart. `StartThrows`, `Alarm` (uncaught exceptions and signals),
`Kill` and `ReusePid` are the faults. `Ownership` is `classifyServiceProcess`; `Looks`
lets every inspection fail (Windows does not answer) and every reading of the
status file find it torn.

**Properties.** `WorkingServiceRecorded`: the service at work on the database is the
one `tracker.pid` names, so there is at most one and a stop finds it.
`StopMeansStopped`: a stop that reports success has ended every service that was at
work when it began. `RequestNotLost`: no other process removes the request a stop
waits on. `StrangersUnharmed`: a program that inherited a pid is not killed.
`AcceptedStopEnds`: an accepted stop ends the service. All but `StrangersUnharmed`
hold until one of two gaps opens, both named as history variables: `raced` (a start
read the pid file while another start was under way, before its child had recorded
its pid) and `clobbered` (a controller removed the pid or the stop file when it
named a service the controller had not looked at). Neither file is locked, so the
code does not rule them out; `PROJECT.json` lists them as hazards.

**Runs.**
- `service_control` (721 thousand states): two services, two controllers, three
  commands, one fault. One command gets a service running and two overlap; a
  restart is one command that stops the first service and starts the second. One
  fault is enough for a crash, a failed start or a reused pid to meet them.

**Fairness.** Weak fairness of the start, the end of a tick, the stop poll and the
shutdown of each service: all are timers or awaits that end by a timeout or, for
`server.close()`, with the last connection. Nothing is assumed of controllers, which
a user may interrupt at any point.

**Abstractions.** `clearOwnPid` reads and removes in one step. `createApp`,
`recoverInterruptedWork` and `syncSources` are one step. Timeouts of controllers may
fire at any time. What a start prints about its child (`confirmStartOutcome`) and its
waiting for a rollback change none of the modelled state and are left out. A new
service gets a pid no service had before, and a pid is not reused between the last
look at it and `taskkill`, a window the code cannot close.

## 7. Restore

**State.** `main` and `wal` are the database file and the transactions that are only
in its log; a database is the set of transactions it holds, 1 being the one that
was there from the start and 0 the content of an imported bundle. `backups`,
`content`, `aged` are the backup directory, `record` the backup `rollback.json`
names, `displaced` the databases moved aside, `pending` a staged bundle, `sources`
the user's `sources.json`. `at` says where the service and the tool (one command line
process at a time: backup, restore or the restore of a rollback) stand.

**Actions.** `Displace`, `DropWal`, `Install` are the renames and removals of
`restoreBackup`, which the service runs for an import and a tool for a backup;
`RemoveSources` and `WriteSources` are the two halves of `atomicWrite`. `StartService`,
`AutoBackup`, `BeginImport`, `OpenDatabase` are the start of the service in the order
of `createApp`. `CreateBackup` is `VACUUM INTO` with the pruning that follows;
`BackupForUpdate` and `WriteRecord` are the two steps of `prepareUpdate`. `FailImport`,
`UnreadImport` (the bundle cannot be read, outside the `try`, and stays), `KillService`, `EndTool`, `BreakBackup` are the faults; `GrowOld` is the clock.

**Properties.** `OnlyLogLost`: every committed transaction is in the database or in a
database moved aside, except what was in a log a restore removed or in a database
made while a restore was half way (`dropped`). `ServesGenuineData`: no service works
on a database made from nothing, except after a restore or an import that broke off
and was not taken up again (`halfway`).
`SourcesSurvive`: a kill in the middle of an import does not cost the sources.
`RollbackBackupKept`: pruning keeps the backup `rollback.json` names for as many
backups as the smaller of the two retention counts. `PreRestoreKept` is what the
RUNBOOK says and fails (section 11).

Three variables name exceptions: `dropped`, the transactions in a removed log or in
a database made from nothing; `halfway`, a restore that was given up, or that a
service started under, with no database there; `unwritten`, a start that went on
without an import that had removed the sources. `naming` is the backup `prepareUpdate` has made
and not yet written to `rollback.json`.

**Runs.** `restore` (4.0 million states): two transactions, three backups, both
retention counts 2, two tools, one fault, so that a kill can fall at every file
operation and a backup can be pruned by either kind of retention. A kill in an
import followed by a start that cannot read the bundle takes two faults and is left to
the proofs.
`restore_after_kill`: a violation.

**Abstractions.** A checkpoint moves the whole log. A tool looks at the pid file once,
as the code does, so a service may start under it. On Windows an open database
cannot be renamed: a tool that meets one fails. Backups get distinct times. Copying to the
temporary name before the renames leaves nothing and is part of `BeginRestore`.

## 8. Update

**State.** A version number stands for a program and for the schema its database
has. `current`, `installed`, `schema`, `record`, `health`, `sidecar`, `files` are what is on disk;
`latest` and `deferred` are settings; `upd` is what each of the two updaters (the web
page, through the service, and `bin/update.js`) is doing, `installer` what each has
launched, which goes on when its launcher ends; `runner` is the rollback under way, in
the service that accepts it or in the runner, and the record it has read. History:
`mixed` (updates, or an update and a rollback, overlapped) and `failure`, whether a
failed rollback is still owed a display or was lost with a status write.

**Actions.** `Publish` is the channel. `Check`, `Defer`, `Resume`, `Apply`, `RunCli` are what
the user and the scheduler do; `CheckConfirmation`, `Download`, `WriteRecord`,
`WriteMarker`, `Launch` the awaited steps of an update, `FinishInstall` and `FailInstall`
the installer, `VerifyTimeout` the handover. `StartService` migrates the database and
gives the verdict (`Judged`). A rollback is accepted in the service (`AcceptRollback`,
`GoOnAccepting`, then `HandOff` when it stops, which a tick may delay) or run by hand
(`RunRollback`, which needs no `current.json`), and done by the runner: `BeginRollback`,
`ReadRecord`, `RestoreData`, `RemovePointer`, `SwitchProgram`, `RemoveMarker`,
`StartPrevious`, `FinishRollback`. `GiveUp`, `FailAcceptance`, `FailRollback`, `KillUpdater`,
`KillRunner`, `BreakStart`, `ExpireLease` are the failures. `writeRollbackStatus` and the
write of `current.json` remove the old file before they rename the new one, and are two
steps each: while `runner.step` is in `Writing` there is no status.

**Properties.** `ConfirmedOnly`: an installer that runs is one the user confirmed, also
when the channel changes under the page. `RollbackFits`: a rollback never leaves a
program with a database it cannot open. `NewVersionJudged`: a version that an update
put in place never serves without a verdict. `FailureKept`: a failed rollback stays on
show until the next update has its record and its marker, or a later rollback shows a
status of its own; the status being written is the gap, and a kill in it loses the
failure for good although no update is ready, contrary to RUNBOOK:267 (section 12). The
last three hold until updates, or an update and a rollback, overlap (`mixed`), which the
code does not rule out: section 12.

**Run.** `update` (2.5 million states): three versions with two manifests each, one
publication, two updates and two rollbacks, three of them at most in one behaviour,
one fault. Two rollbacks are what it takes for the second to write over the failure of
the first.

**Abstractions.** Signature, digest and size of an installer are one outcome of the
download. The lock and the lease of a rollback are `RollbackLock`, its file
operations on the database `Restore`: here each is one step.

## 9. Discovery and Sources

`Sources` extends `Discovery`; the two are one specification.

**State.** `settings`, `due`, `recipe`, `rows`, `candidate` are the tables of migration 004
as far as the code compares them; `runner`, `stage`, `disallowed`, `frontier`, `found` are a
run's locals and its frontier; `dueList` is what is left of the list
`runDueDiscoveries` read. `exists`, `enabled`, `scheduled` are `sources`, `sources.enabled`
and `source_monitor_settings.enabled`; `seeds` is `seed_urls` by page; `file` and `broken`
are `config/sources.json`.

**Actions.** A run awaits one page at a time: `StartRun` (as `RunNextDue` of the tick or
`ExploreSite` of the user), `ReadRobotsAndSitemap`, `SkipPage`, `VisitPage`, `EndRun` or
`AbortRun`. `StartTick` is the head of `runOnce` with `syncSources`, `ListDue`, `PassOver`,
`EndTick` the scheduler part. `ConfirmSource`, `SetSourceEnabled`, `CheckNow`,
`ConfigureSite`, `SwitchNetwork`, `ApproveCandidates`, `RefusedApproval`, `Review` are the
endpoints; none awaits, so each is one step that may fall between any two steps of a
run. `EditFile`, `Die` and `Start` (recovery and first sync) come from outside.

Writes commit one by one, and every handler may break off between two. `StartFails`
opens the row of a run and throws before the `try`; `RunBreaksOff` throws in the catch or
the finally, with the row settled or not; `ConfirmBreaksOff`, `ApprovalBreaksOff` and
`SyncBreaksOff` (in a tick or at a start) end a handler after any number of its writes.

**Properties.** `RunsAreRecovered`: discovery implements `RecoverableRuns` (section 3)
with the sites as places, where a row that says `running` keeps a new run out. No site
is explored twice at once, no refusal and no failure the handlers answer blocks a
site, and what a death or a throw outside them leaves is settled by the next start.
`FailedRecipeRests`: the scheduler does not start a site whose recipe
needs review, unless the list was read before the recipe was judged (`late`).
`ScheduledWhenEnabled`: a source that is on is on in both tables, whichever of the
seven handlers wrote it last, unless an approval turned it on (`reenabled`) or the
handler broke off between the writes of the two flags and nothing has written both
since (`torn`). `ApprovedIsScheduled` has neither exception and fails (section 11).

**Runs.** `sources` (542 thousand states): a site with two pages and a source of the
file, a site with one page and a source of the page, both due at once, and two steps
from outside or faults. Two sites are the least with which a run started by the user meets the
list of the tick. It starts from a fresh installation or from one whose sites were
confirmed for discovery. `sources_approval`: a violation.

**Abstractions.** What a site answers is any subset of its pages: robots rules, links
and whether a page is a product. Scores, depths and the order of what was found only
cut that subset; budgets may run out at any point. `upsertOfficialCatalogItem`, which
discovery calls for the site of an official store, writes tables nothing here reads.
The crawls of the tick are `OfferMonitor`.

## 10. ProductIdentity

**State.** `row` holds the columns of a product that identify it (barcode, SKU, model,
variant, brand), `column` and `link` the two places that name its catalog entry,
`product` the product of each page's offer, `events` the product each event names. Ids
come from AUTOINCREMENT and are not reused. History: how an offer came to its
product (`placed`), from which listing (`evidence`), and the products whose link and
column a broken-off listing set apart (`torn`).

**Actions.** `ProcessListing` is the identity part of `processListing`: `Match` (barcode,
then SKU, then model, each only if it leaves one candidate that does not conflict),
the filling in of missing columns or the insert, the catalog link and column, the
offer, its events. `ListingBreaksOff` ends it after the product, the link or the
column: a kill, or a failed write, which `crawlSource` logs and goes on. The crawl
does not await in the middle of a listing, so nothing else falls there. `Restart` is
`backfillCatalog`, in one step: a start that is killed in it serves nobody, and the next
one finds the rows it left half linked, by their empty column, and links them again; `SplitProduct` and `MergeProducts` are the user's transactions.

**Properties.** `BarcodesDistinct`: a barcode names one product, although the schema
does not demand it. `AutomaticJoinsAgree`: offers the crawl put together were made
from listings that do not conflict, unless by barcode. `CatalogAgrees`: the two
places that name a product's catalog entry agree through links, repairs, merges and
splits in any order. `EventsFollowOffers`: events and offers name the same product.

**Run.** `product_identity` (206 thousand states with symmetry): three pages, so that a
page can join what the user has split or merged; three listings, two of which match
by barcode and have two models, two of which share a model and conflict in the SKU;
three products ever made; one listing broken off. No listing of the instance has a
variant or a brand, which the rules compare as they do SKU and model.

**Abstractions.** `row` holds normalised values; the brand is compared without regard to
case. What decides whether an event is made is `OfferMonitor`; watchlist matches,
alerts and notifications that a merge moves are in the queues. Evidence, aliases and
verification status of catalog entries are left out.

## 11. Findings

Each is a run that TLC must find violated; `PROJECT.json` quotes the text.

- `SingleFlight` (`rollback_two_runners`, `release/update.js:418`): the owner is read
  in one call and the directory removed in a later one. The child of a handoff and
  a rollback by hand both judge the exited service's lock stale; the second removes
  the first's live lock, and both restore the database.
- `PreRestoreKept` (`restore_after_kill`, `maintenance/backup.js:118`): after a kill of
  the service its last transactions are in the log only. A restore moves the main
  file aside and deletes the log, so they are in neither database, although the
  RUNBOOK says the existing one is kept.
- `ApprovedIsScheduled` (`sources_approval`, `core/review-queue.js:36`): a page is
  confirmed for discovery only, explored, and its candidate approved. The approval
  sets `sources.enabled`, but the source's settings row was made with `enabled = 0`, and
  `listDueMonitorSources` needs both, so the page is not crawled until a manual check.

## 12. Behaviour no property rules out

Met while modelling; the models contain it, and the properties either name it as an
exception or say nothing of it.

- A kill or a throw between an offer write and its events loses the announcement. A
  product that goes out of stock and comes back within the cooldown is announced once
  (`core/store.js:328`), as the documents want. A merge during a send repeats one alert.
- A throw outside the `try` of a crawl or in its catch leaves the `crawl_runs` row
  `running` beside an idle worker until the next start (`app.js:168`, `app.js:217`). The same
  in a discovery run refuses every run of the site (BT-SRC-005) until the service is
  started again (`core/discovery.js:377`, `core/discovery.js:490`).
- A manual check of a disabled source is accepted and waits until someone enables it
  (`web/server.js:905`). One whose finalization breaks off after `next_run_at` was moved
  waits for that date.
- The two flags of a source commit one by one: a confirmation, an approval or a sync that
  breaks off in between leaves the source on and not scheduled, or off in one table only,
  and no later start repairs a source of a page (`core/source-manager.js:215`,
  `core/store.js:17`); a manual check or a switch of it does. A sync repairs those of the
  file.
- `writeRollbackStatus` removes the old status before it renames the new one
  (`release/update.js:454`). Killed in between, during a later rollback or its acceptance,
  it loses the failure of the earlier one, which RUNBOOK:267 says stays until an update
  is ready.
- A manual check queued during a crawl is completed by that crawl without a fetch of
  its own (`core/monitor.js:190`). An event that joins a product changes the dedup key,
  so a channel that succeeded is sent the first event again (`notify/queue.js:91`). A
  tick that has begun to flush goes on when the network is switched off (`app.js:275`).
- In a Windows source checkout a live service counts as another program, so a second
  start clears its pid file (`release/service-process.js:88`).
- A restore that breaks off between its renames leaves no database, and the next
  service makes an empty one. A failed import whose database was already moved away
  does the same, and so does a start that cannot read the bundle a killed one left. An
  interrupted `VACUUM INTO` leaves the newest backup torn or empty.
- An update started while the installer of another still runs, an old version
  started before its successor is in place, and a rollback accepted in that time
  (`mixed`): the verdict is then given on the wrong version and the record names the
  wrong one (`release/update.js:173`). A kill between the removal and the rename of
  `current.json` leaves no program to start (`release/update.js:709`).
- A source of the file that the user disables is enabled by the next tick
  (`app.js:114`); one that left the file and is then approved is disabled again.
- A refused approval leaves the source on and its seed in place
  (`core/review-queue.js:113`); an approved candidate that is later excluded stays
  monitored.
- A product made by a split has no SKU and no barcode until a page of it is crawled
  again, so a listing of its model with a conflicting SKU joins it
  (`core/identity-review.js:32`), and so does one with the barcode of the old product if
  that has none. A match by SKU or model does not compare barcodes, and one by SKU
  does not compare variants (`core/store.js:169`). When offers of two models are in one
  product, each crawl sets its catalog entry to that of the page it reads
  (`core/catalog.js:159`). A kill before the offer is written leaves a product without
  offers, and the page's next crawl announces no discovery (`core/pipeline.js:113`).
- A due list already read is worked off although the network was switched off or a
  recipe was found wanting since (`core/discovery.js:510`). Sites without an enabled
  seed stay due for ever and fill the list of three (`core/discovery.js:513`), and make
  the service tick at its shortest interval (`core/monitor.js:206`). A run that ends
  overwrites the recipe the user saved during it.

## 13. What is proved

All theorems hold for every value of the constants that satisfies the module's
assumptions (`OfferMonitorAssumption`, `NotificationAssumption`, `AlertAssumption`,
`RollbackLockAssumption`, `ServiceControlAssumption`, `RestoreAssumption`,
`UpdateAssumption`, `IdentityAssumption`, and for `Sources` those of `Discovery` with
`KeysAssumption` and `MaxActsAssumption`). They say little more than that the bounds are
natural numbers, that ids and markers differ, and that a listing has the fields of a
row. Each theorem is `Spec => []Inv`, an action property or a refinement, and rests on
an inductive invariant: `Init` implies it, one lemma per conjunct shows with a step per
action that it is kept, and the property follows.

- **OfferMonitor_proofs**: `TypeCorrect`, `OldStockNeverExposed`, `ArchivalJustified`,
  `SettledRowsAgree`, `TransitionsAreStable`, `TransitionsAreHandedOn`,
  `RequestsAreNotStranded`, `CrawlRunsAreRecovered`. The safety invariants are not
  inductive: within a finalization some offers are settled and some are not. `IInv`
  ties each row to the scan history (a settled fresh row was seen last, an archived
  row carries the settled misses) and the worker's position (`left`, `seen`,
  `terminal`) to the offers still unsettled. `ReadingInv` says that the candidate of a
  row is its last reading and was read in a row at least as often as the row counts,
  which makes a change after enough confirmations stable; `HandOnInv` that a
  change not handed on yet belongs to the listing at hand, and that the state events
  still to be created all tell of it. `NoStrandedRequest` is inductive itself. The
  refinement rests on `CrawlInv`: a crawl before its finalization has its row, and from
  the finalization on no newest row says `running`. Live runs are read off the worker's
  position and left-over rows off `run` and `stray`, and each step, also one that throws
  outside the `try` or in the catch, maps to a step of `RecoverableRuns` or a stutter.
- **NotificationQueue_proofs**: `TypeCorrect`, `ConfirmedSummariesStayQuiet`,
  `ImplementsAtLeastOnce`, `EventsAreDelivered`. `TodoInv` says that the summaries of
  a flush are pending and disjoint, `LoopInv` that the channels behind the loop index
  confirmed the summary unless it is blocked, `RecordInv` that a confirmed summary is
  on record, or excused, or about a product that is gone and behind the loop.
  `Accounted`, stated of the abstract queue alone and kept by each of its steps, is
  read back through the refinement mapping: an event marked notified reached every
  local channel or was a stale claim.
- **AlertQueue_proofs**: `TypeCorrect`, `ConfirmedAlertsStayQuiet`,
  `ImplementsAtLeastOnce`, `AlertsAreDelivered` (by `Accounted` as well). What a flush
  still has to send is pending or was withdrawn (`TodoInv`), and a row says sent
  exactly when the channel confirmed and the row is not lost (`RecordInv`).
- **Processes_proofs** holds the proofs about both specifications of processes that
  meet in files. Of `RollbackLock`: `LockTypeCorrect`, `HolderIsOwner`,
  `SingleFlightButForRemovals`, `LoneRollbackProceeds`, `HandoffStays`. `HolderInv`
  and `LookInv` (what a process saw of the present directory is still true, and it may
  remove only what nobody alive owns) hold until `overtaken` or `slow`.
  `SingleFlightButForRemovals` delimits the finding: `SingleFlight` fails only after a
  removal of a directory that was not looked at. `LoneRollbackProceeds` needs
  `Attempts > 1`: the first round may only clear a dead owner's directory.

  Of `ServiceControl`: `TypeCorrect`, and for an installed service (`Packaged`)
  `WorkingIsRecorded`, `StopIsStopped`, `RequestsKept`, `StrangersSafe`. `BasicInv`
  ties each controller's point to its command and target: one about to remove a pid
  has seen its process dead. `PidInv`, `StopInv` and `RequestInv` hold until a gap
  opens: the pid file names the one process that is past `RecordPid` and not past
  `Unpin`, only one start is under way, the services of `before` that still work are
  the target of the stop, and the request a stop waits on is there. Without `Packaged`
  the first fails (section 12).
- **Restore_proofs**: `TypeCorrect`, `LosesOnlyTheLog`, `SourcesSurviveKills`,
  `RecordedBackupIsKept`, `GenuineDataIsServed`. `OpenInv`: a process that works on
  the database has one. That nothing else is lost is shown step by step (a step keeps
  a transaction somewhere or adds it to `dropped`). `ImportInv`: while the sources are
  gone and no start has gone on without them, the bundle that has them waits. `BackupInv`: a pruned backup was followed by
  as many as the smaller count. `OriginInv` holds while no restore broke off and no
  backup is empty: whatever a restore is about to install descends from the first
  database or a bundle, and a missing database is about to be put back. The proof
  brought out that a backup made but not yet named needs `naming`: with two faults the
  record could otherwise name a backup that is already pruned.
- **Update_proofs**: `TypeCorrect`, `OnlyConfirmedIsInstalled`, `RollbackLeavesAFit`,
  `NewVersionIsJudged`, `FailureStaysOnShow`. `ConfirmedInv` carries the confirmed
  manifest from the page to the installer. While nothing overlaps (`~mixed`),
  `SoloInv` says that one updater, installer or rollback is under way and what the
  record, the program and the schema are at each of its steps; `JudgeInv` ties the
  health marker to the installer still to come and to the version that has yet to be
  judged. `FailureInv`: a failure owed a display is on show or its successor is being
  written; what broke that off has marked it lost.
- **Sources_proofs**: `TypeCorrect`, `DiscoveryRunsAreRecovered`,
  `EnabledIsScheduled`, `ApprovedPagesAreMonitored`, `FailedRecipesRest`. `RunsInv`: a
  live run has its row, and a stopped service has no runs; a row without a run is what
  a fault left, so the steps of `RecoverableRuns` are told by runs and rows together.
  `SourcesInv`: a source without a row is not on. `SeedInv`: a seed names
  a source of its page's site that has a row, and the seed of an approved page stays
  one to be monitored; with `ScheduledWhenEnabled` it shows that what
  `ApprovedIsScheduled` finds comes about by the approval of a page whose source is off,
  or by a handler that broke off between the two flags, and in no other way.
  `ListInv`: a site on the list whose recipe was found wanting was put there before.
- **ProductIdentity_proofs**: `TypeCorrect`, `BarcodesStayDistinct`,
  `JoinsStayCompatible`, `CatalogStaysInStep`, `EventsStayWithOffers`, `OneOwner`,
  `IdentityIsKept`, `UserHasTheLastWord`. `AutomaticJoinsAgree` compares two listings,
  but the code compares a listing with a row. `EvidenceInv` bridges them: what a
  listing joined by the crawl said of SKU, model, brand and (where no SKU told it
  apart) variant is what the row says now, so two of them agree through the row. It is
  kept because columns are filled in and never overwritten, which is the action
  property `IdentityIsKept`. `GoneInv`: an id that is not a product has no catalog
  entry, so a new row starts clean. `BarcodesDistinct`, `CatalogAgrees` and
  `EventsFollowOffers` are inductive together with these and the types. `OneOwner` and
  `UserHasTheLastWord` are checked by no run: queries of `findOrCreateProduct` that
  return any of several rows return the only one, and pages that have a product come
  together by a merge and apart by a split only.

Only model-checked: the liveness properties (`RequestSettled`, `EventSettled`,
`AlertSettled`, `AcceptedStopEnds`), since fairness is outside the prover, and the three
violations of section 11. Every other property of the runs is a theorem.

## 14. What is not modelled

Text parsing and matching (connectors, normalisation, classification, watchlist
matching), HTTP, page rendering, translations, operation statistics, logging and
diagnostics are data and I/O: the models let them return any outcome. Official and
community bookkeeping and the tables of catalog evidence are synchronous and
single-writer. SQLite is taken as a store that commits every statement
atomically; a busy timeout is a write that fails. `bin/worker.js` and `bin/crawl-once.js`
running beside the service would recover and repeat its live runs; the documents say
to run one of them only, and the models do. The composition of monitor and queues (a
restock suppressed as stale and never announced) is a listed hazard without a property.

## 15. Plan

Done: `OfferMonitor`, `AtLeastOnceDelivery`, `RecoverableRuns`, `NotificationQueue`,
`AlertQueue`, `RollbackLock`, `ServiceControl`, `Restore`, `Update`, `Discovery`,
`Sources` and `ProductIdentity`, each checked and with its safety properties proved.

What would add most next:

1. A refinement for discovery: the due list as an abstract scheduler with fairness,
   which needs the order of `next_run_at` in the model.
2. Composition of `OfferMonitor` with the queues for suppressed announcements.
3. The schedule arithmetic (interval, jitter, backoff) as functions against a
   reference.

Runs are few and each asks one question. Each is sized to finish in about two minutes, with
the smallest sets at which its hazards can occur (two controllers, three versions, two
sites, one kill).

## 16. Running it

    tlc -workers 2 -config Sources.cfg MCSources.tla
    tlapm Sources_proofs.tla

The longest runs take two to three minutes, the longest proof about two.

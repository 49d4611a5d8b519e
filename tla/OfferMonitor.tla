----------------------------- MODULE OfferMonitor -----------------------------
(***************************************************************************)
(* The offer lifecycle of one monitored source: the monitor worker crawls   *)
(* the source (src/app.js runOfferMonitors, src/core/pipeline.js), applies  *)
(* each listing to the offers table, finalizes the scan                     *)
(* (src/core/monitor.js), and may be killed between any two of its writes,  *)
(* each of which SQLite commits on its own.  The web UI runs beside it:     *)
(* page views expire freshness, a user asks for an immediate check, pauses  *)
(* the network or approves a candidate of this source.                      *)
(*                                                                          *)
(* Clock times are abstracted to what the code compares: `due` is           *)
(* next_run_at <= now; which fresh_until, which manual cooldown and which   *)
(* event cooldown have passed is chosen where the code compares them.       *)
(***************************************************************************)
EXTENDS Naturals, FiniteSets

CONSTANTS
    Offers,              \* the offers (listing URLs) the source may ever have
    Requests,            \* ids of monitor_requests rows: bounds those open at a time
    States,              \* the availability states a listing can be read as
    ArchiveAfter,        \* settings.archive_after_misses
    Confirmations,       \* settings.stability_confirmations
    PreorderIsPurchasable, \* config.preorderIsPurchasable
    MaxListings,         \* bound: usable listings one fetch returns
    MaxFaults            \* bound: kills of the worker and writes that throw

AvailabilityStates ==
    {"discovered", "coming_soon", "preorder", "in_stock", "out_of_stock", "unknown"}

NoState == "none"

ASSUME OfferMonitorAssumption ==
    /\ States \subseteq AvailabilityStates
    /\ ArchiveAfter \in Nat \ {0}
    /\ Confirmations \in Nat \ {0}
    /\ PreorderIsPurchasable \in BOOLEAN
    /\ MaxListings \in Nat
    /\ MaxFaults \in Nat
    /\ IsFiniteSet(Offers)

VARIABLES
    \* database
    offer,        \* offers rows, by URL
    request,      \* monitor_requests.status, by id
    run,          \* status of the newest crawl_runs row
    stray,        \* older crawl_runs rows that still say running
    enabled,      \* sources.enabled and source_monitor_settings.enabled
    due,          \* source_monitor_settings.next_run_at <= now
    network,      \* network_control.enabled
    \* worker process
    pc,           \* where the worker's current tick stands
    count,        \* usable listings processed in this crawl
    valid,        \* stats.itemsSeen > 0
    seen,         \* stats.seenOfferIds
    terminal,     \* stats.terminalOfferIds
    cur,          \* offers row being processed, or {}
    announce,     \* event descriptors not yet passed to createEvent
    left,         \* offers the finalization has still to write
    gone,         \* the crawl failed with an HTTP 404/410-like error
    faults,       \* kills and thrown writes so far
    \* history, read by the properties only
    lastScan,     \* what the last successful scan said of the offer
    missRun,      \* settled misses since the last settled sighting
    streak,       \* latest observed state and its run length
    unsettled,    \* offers written or scanned since their last finalization
    unhanded,     \* noteworthy changes not yet handed on: <<offer, new state>>
    cutOff        \* requests open when a break-off left their source not due

dbVars      == <<offer, request, run, stray, enabled, due, network>>
crawlVars   == <<count, valid, seen, terminal, cur, announce, left, gone>>
historyVars == <<lastScan, missRun, streak, unsettled, unhanded, cutOff>>
vars        == <<dbVars, pc, crawlVars, faults, historyVars>>

-----------------------------------------------------------------------------
(* Rows *)

Freshness == {"unknown", "fresh", "stale", "archived"}
\* A settled request is completed or failed, as its crawl was; its id may stand
\* for the next one.
RequestStatus == {"settled", "queued", "running"}
Scan == {"never", "seen", "terminal", "missing"}

OfferRow ==
    [known      : BOOLEAN,                       \* the row exists
     avail      : States \cup {NoState},         \* availability
     purch      : BOOLEAN,                       \* purchasable
     fresh      : Freshness,                     \* freshness_status
     misses     : 0..ArchiveAfter,               \* consecutive_missing, saturated
     archivedAt : BOOLEAN,                       \* archived_at IS NOT NULL
     cand       : States \cup {NoState},         \* availability_candidate
     candCount  : 0..Confirmations]              \* availability_candidate_count

NoRow ==
    [known |-> FALSE, avail |-> NoState, purch |-> FALSE, fresh |-> "unknown",
     misses |-> 0, archivedAt |-> FALSE, cand |-> NoState, candCount |-> 0]

Known == {o \in Offers : offer[o].known}

\* The code compares consecutive_missing with 0 and with the archive threshold
\* only, so counting stops at the threshold.
Bump(n) == IF n < ArchiveAfter THEN n + 1 ELSE ArchiveAfter

-----------------------------------------------------------------------------
(* Pure parts of the pipeline *)

IsPurchasable(s) == s = "in_stock" \/ (s = "preorder" /\ PreorderIsPurchasable)

\* Mutated form of StableAvailability: the count survives a change of candidate.
StableAvailabilityAnyCandidate(row, observed, needed) ==
    LET n == row.candCount + 1
    IN  IF ~row.known \/ row.avail = observed \/ n >= needed
        THEN [avail |-> observed, cand |-> NoState, candCount |-> 0]
        ELSE [avail |-> row.avail, cand |-> observed, candCount |-> n]

\* A state different from the stored one is accepted once it has been read
\* `needed` times in a row; until then it is only the candidate.
StableAvailability(row, observed, needed) ==
    LET n == IF row.cand = observed THEN row.candCount + 1 ELSE 1
    IN  IF ~row.known \/ row.avail = observed \/ n >= needed
        THEN [avail |-> observed, cand |-> NoState, candCount |-> 0]
        ELSE [avail |-> row.avail, cand |-> observed, candCount |-> n]

\* insertOffer / updateOffer: freshness, misses and archival are not touched.
ProcessedRow(row, observed, needed) ==
    LET stable == StableAvailability(row, observed, needed)
    IN  [row EXCEPT !.known     = TRUE,
                    !.avail     = stable.avail,
                    !.purch     = IsPurchasable(stable.avail),
                    !.cand      = stable.cand,
                    !.candCount = stable.candCount]

FirstSightEvent(s) ==
    CASE s = "in_stock"    -> {"became_available"}
      [] s = "preorder"    -> {"preorder_open"}
      [] s = "coming_soon" -> {"coming_soon"}
      [] OTHER             -> {}

\* Mutated form of TransitionEvent: a restock out of 'unknown' has no event.
TransitionEventKnownOnly(from, to) ==
    CASE to = "in_stock" /\ from \in {"out_of_stock", "discovered"} -> {"back_in_stock"}
      [] to = "in_stock" /\ from \in {"coming_soon", "preorder"}    -> {"became_available"}
      [] to = "preorder" /\ from # to                               -> {"preorder_open"}
      [] to = "coming_soon" /\ from # to                            -> {"coming_soon"}
      [] to = "out_of_stock" /\ from \in {"in_stock", "preorder"}   -> {"out_of_stock"}
      [] OTHER                                                      -> {}

TransitionEvent(from, to) ==
    CASE to = "in_stock" /\ from \in {"out_of_stock", "unknown", "discovered"} -> {"back_in_stock"}
      [] to = "in_stock" /\ from \in {"coming_soon", "preorder"}               -> {"became_available"}
      [] to = "preorder" /\ from # to                                          -> {"preorder_open"}
      [] to = "coming_soon" /\ from # to                                       -> {"coming_soon"}
      [] to = "out_of_stock" /\ from \in {"in_stock", "preorder"}              -> {"out_of_stock"}
      [] OTHER                                                                 -> {}

StateEvent ==
    {"became_available", "back_in_stock", "preorder_open", "coming_soon", "out_of_stock"}

EventType == StateEvent \cup {"product_discovered", "price_change"}

\* The descriptors for a listing that turned `row` into state `new`.
ComputeOfferEvents(row, new, productCreated, priceChanged) ==
    IF ~row.known
    THEN IF productCreated THEN {"product_discovered"} ELSE FirstSightEvent(new)
    ELSE TransitionEvent(row.avail, new)
         \cup (IF priceChanged /\ new \in {"in_stock", "preorder"} THEN {"price_change"} ELSE {})

-----------------------------------------------------------------------------
(* Pure parts of the monitor *)

\* archiveIfNeeded, for a row whose misses reached the threshold.
Archived(row) == [row EXCEPT !.fresh = "archived", !.purch = FALSE, !.archivedAt = TRUE]

MustArchive(row) == row.misses >= ArchiveAfter

\* Mutated forms of FinalizedRow: a listing that ended counts as a sighting; a
\* sighting leaves the misses; a sighting leaves the archive time.
FinalizedRowIgnoresEnd(row, wasSeen, wasTerminal) ==
    IF wasSeen
    THEN [row EXCEPT !.fresh = "fresh", !.misses = 0, !.archivedAt = FALSE]
    ELSE [row EXCEPT !.fresh = "stale", !.misses = Bump(@), !.purch = FALSE]

FinalizedRowKeepsMisses(row, wasSeen, wasTerminal) ==
    IF wasSeen /\ ~wasTerminal
    THEN [row EXCEPT !.fresh = "fresh", !.archivedAt = FALSE]
    ELSE [row EXCEPT !.fresh = "stale", !.misses = Bump(@), !.purch = FALSE]

FinalizedRowKeepsArchive(row, wasSeen, wasTerminal) ==
    IF wasSeen /\ ~wasTerminal
    THEN [row EXCEPT !.fresh = "fresh", !.misses = 0]
    ELSE [row EXCEPT !.fresh = "stale", !.misses = Bump(@), !.purch = FALSE]

\* The first UPDATE of finalizeSuccessfulMonitor for one offer.
FinalizedRow(row, wasSeen, wasTerminal) ==
    IF wasSeen /\ ~wasTerminal
    THEN [row EXCEPT !.fresh = "fresh", !.misses = 0, !.archivedAt = FALSE]
    ELSE [row EXCEPT !.fresh = "stale", !.misses = Bump(@), !.purch = FALSE]

\* refreshOfferFreshness: the table once fresh_until of `lapsed` has passed.
Refreshed(table, lapsed) ==
    [o \in Offers |-> IF o \in lapsed /\ table[o].fresh = "fresh" /\ ~table[o].archivedAt
                      THEN [table[o] EXCEPT !.fresh = "stale", !.purch = FALSE]
                      ELSE table[o]]

-----------------------------------------------------------------------------
(* History *)

Observe(o, s) ==
    streak' = [streak EXCEPT ![o] =
                  [state |-> s,
                   n     |-> IF @.state # s THEN 1
                             ELSE IF @.n < Confirmations THEN @.n + 1 ELSE @.n]]

\* A change a subscriber wants to hear of, stated without the code's event table.
Noteworthy(from, to) ==
    /\ from # to
    /\ \/ to \in {"in_stock", "preorder", "coming_soon"}
       \/ to = "out_of_stock" /\ from \in {"in_stock", "preorder"}

\* The event that tells a subscriber of state s, stated without the table.
Tells(t, s) ==
    \/ s = "in_stock" /\ t \in {"became_available", "back_in_stock"}
    \/ s = "preorder" /\ t = "preorder_open"
    \/ s \in {"coming_soon", "out_of_stock"} /\ t = s

-----------------------------------------------------------------------------
(* Worker *)

Init ==
    /\ offer = [o \in Offers |-> NoRow]
    /\ request = [r \in Requests |-> "settled"]
    /\ run = "none"
    /\ stray = 0
    /\ enabled = TRUE
    /\ due = TRUE
    /\ network = TRUE
    /\ pc = "idle"
    /\ count = 0 /\ valid = FALSE /\ seen = {} /\ terminal = {}
    /\ cur = {} /\ announce = {} /\ left = {} /\ gone = FALSE
    /\ faults = 0
    /\ lastScan = [o \in Offers |-> "never"]
    /\ missRun = [o \in Offers |-> 0]
    /\ streak = [o \in Offers |-> [state |-> NoState, n |-> 0]]
    /\ unsettled = {}
    /\ unhanded = {}
    /\ cutOff = {}

\* The statistics of the crawl are local to the try block.
ForgetStats == count' = 0 /\ valid' = FALSE /\ seen' = {} /\ terminal' = {}

ForgetCrawl ==
    /\ ForgetStats
    /\ cur' = {} /\ announce' = {} /\ left' = {} /\ gone' = FALSE

\* The worker stops in the middle of the tick, killed or by a throw nobody in it
\* catches: its locals go, what it was about to hand on is lost, and a request
\* whose next_run_at has been moved already is cut off.
BreakOff ==
    /\ faults < MaxFaults
    /\ faults' = faults + 1
    /\ ForgetCrawl
    /\ unhanded' = {}
    /\ cutOff' = IF due THEN cutOff ELSE {r \in Requests : request[r] \in {"queued", "running"}}
    /\ UNCHANGED <<lastScan, missRun, streak, unsettled>>

\* What a tick that lists the source (listDueMonitorSources) writes first: the
\* freshness is refreshed and a crawl_runs row opened, one more if the last one
\* still says running.
OpenRun ==
    /\ pc = "idle" /\ network /\ enabled /\ due
    /\ \E lapsed \in SUBSET Offers : offer' = Refreshed(offer, lapsed)
    /\ run' = "running"
    /\ stray' = IF run = "running" THEN stray + 1 ELSE stray

\* startMonitorRequests follows, then the fetch is awaited.
BeginCrawl ==
    /\ OpenRun
    /\ request' = [r \in Requests |-> IF request[r] = "queued" THEN "running" ELSE request[r]]
    /\ pc' = "fetching"
    /\ UNCHANGED <<enabled, due, network, crawlVars, faults, historyVars>>

\* startMonitorRequests threw, outside the try block: the tick ends, the row
\* stays as it was opened.
BeginThrows ==
    /\ OpenRun
    /\ BreakOff
    /\ UNCHANGED <<request, enabled, due, network, pc>>

FetchReturns ==
    /\ pc = "fetching"
    /\ pc' = "processing"
    /\ UNCHANGED <<dbVars, crawlVars, faults, historyVars>>

FetchFails ==
    /\ pc = "fetching"
    /\ pc' = "failing"
    /\ gone' \in BOOLEAN
    /\ UNCHANGED <<dbVars, count, valid, seen, terminal, cur, announce, left, faults,
                   historyVars>>

\* processListing up to and including the offers write and its observation.
\* A listing that is rejected before that writes no offer and counts nowhere.
ProcessListing(o, s, isTerminal, productCreated, priceChanged) ==
    /\ pc = "processing"
    /\ count < MaxListings
    /\ LET row    == offer[o]
           new    == ProcessedRow(row, s, Confirmations)
           events == ComputeOfferEvents(row, new.avail, productCreated, priceChanged)
       IN  /\ offer' = [offer EXCEPT ![o] = new]
           /\ announce' = events
           /\ pc' = IF events = {} THEN "processing" ELSE "announcing"
           /\ cur' = IF events = {} THEN {} ELSE {o}
           /\ seen' = IF events = {} THEN seen \cup {o} ELSE seen
           /\ valid' = (valid \/ events = {})
           /\ unhanded' = IF row.known /\ Noteworthy(row.avail, new.avail)
                             THEN unhanded \cup {<<o, new.avail>>} ELSE unhanded
    /\ terminal' = IF isTerminal THEN terminal \cup {o} ELSE terminal
    /\ count' = count + 1
    /\ Observe(o, s)
    /\ unsettled' = unsettled \cup {o}
    /\ UNCHANGED <<request, run, stray, enabled, due, network, left, gone, faults,
                   lastScan, missRun, cutOff>>

\* createEvent takes one descriptor: it inserts a row, or none when it finds an
\* event of the same offer and type inside the cooldown.  No step of the monitor
\* reads that table, so the two outcomes are one here.
EmitEvent(t) ==
    /\ pc = "announcing"
    /\ t \in announce
    /\ announce' = announce \ {t}
    /\ IF announce' = {}
       THEN /\ pc' = "processing" /\ cur' = {} /\ valid' = TRUE
            /\ seen' = seen \cup cur
       ELSE UNCHANGED <<pc, cur, valid, seen>>
    /\ unhanded' = IF t \in StateEvent THEN unhanded \ (cur \X States) ELSE unhanded
    /\ UNCHANGED <<dbVars, count, terminal, left, gone, faults, lastScan, missRun, streak,
                   unsettled, cutOff>>

\* A write of processListing threw: the item is dropped, the crawl goes on.
ListingThrows ==
    /\ pc = "announcing"
    /\ faults < MaxFaults
    /\ faults' = faults + 1
    /\ pc' = "processing" /\ cur' = {} /\ announce' = {}
    /\ unhanded' = {}
    /\ UNCHANGED <<dbVars, count, valid, seen, terminal, left, gone,
                   lastScan, missRun, streak, unsettled, cutOff>>

\* recordListingExclusion: the listing counts as seen, no offer does.
ExcludeListing ==
    /\ pc = "processing"
    /\ ~valid
    /\ valid' = TRUE
    /\ UNCHANGED <<dbVars, pc, count, seen, terminal, cur, announce, left, gone, faults,
                   historyVars>>

\* All listings are processed.  A crawl without a valid one is a failure.
EndBatch ==
    /\ pc = "processing"
    /\ IF valid
       THEN /\ pc' = "finalizing"
            /\ run' = "success"
            /\ count' = 0 /\ valid' = FALSE /\ UNCHANGED <<seen, terminal>>
            /\ left' = Known
            /\ lastScan' = [o \in Offers |->
                              IF o \notin Known THEN lastScan[o]
                              ELSE IF o \notin seen THEN "missing"
                              ELSE IF o \in terminal THEN "terminal" ELSE "seen"]
            /\ unsettled' = unsettled \cup Known
       ELSE /\ pc' = "failing"
            /\ ForgetStats
            /\ UNCHANGED <<run, left, lastScan, unsettled>>
    /\ UNCHANGED <<offer, request, stray, enabled, due, network,
                   cur, announce, gone, faults, missRun, streak, unhanded, cutOff>>

\* finalizeSuccessfulMonitor, one offer: the row is written and, when the
\* misses reach the threshold, written again by archiveIfNeeded.
FinalizeOffer(o) ==
    /\ pc = "finalizing"
    /\ o \in left
    /\ LET row == FinalizedRow(offer[o], o \in seen, o \in terminal)
       IN  /\ offer' = [offer EXCEPT ![o] = row]
           /\ IF MustArchive(row)
              THEN /\ pc' = "archiving" /\ cur' = {o}
                   /\ UNCHANGED <<left, unsettled>>
              ELSE /\ left' = left \ {o}
                   /\ unsettled' = unsettled \ {o}
                   /\ UNCHANGED <<pc, cur>>
    /\ missRun' = [missRun EXCEPT ![o] = IF lastScan[o] = "seen" THEN 0 ELSE Bump(@)]
    /\ UNCHANGED <<request, run, stray, enabled, due, network, count, valid, seen, terminal,
                   announce, gone, faults, lastScan, streak, unhanded, cutOff>>

\* archiveIfNeeded of either finalization; only a scan that succeeded settles
\* the offer.
ArchiveOffer ==
    /\ pc = "archiving"
    /\ offer' = [o \in Offers |-> IF o \in cur THEN Archived(offer[o]) ELSE offer[o]]
    /\ left' = left \ cur
    /\ unsettled' = IF run = "success" THEN unsettled \ cur ELSE unsettled
    /\ cur' = {}
    /\ pc' = "finalizing"
    /\ UNCHANGED <<request, run, stray, enabled, due, network, count, valid, seen, terminal,
                   announce, gone, faults, lastScan, missRun, streak, unhanded, cutOff>>

\* The schedule is moved.  The closing refresh compares with the tick's start,
\* when everything that had lapsed was refreshed.
EndFinalize ==
    /\ pc = "finalizing"
    /\ left = {}
    /\ due' = FALSE
    /\ pc' = "settling"
    /\ UNCHANGED <<offer, request, run, stray, enabled, network, crawlVars, faults, historyVars>>

\* Mutated form of CompleteMonitorRequests: a failed crawl settles nothing.
CompleteMonitorRequestsOnSuccess ==
    /\ pc = "settling"
    /\ request' = [r \in Requests |->
                     IF request[r] \in {"queued", "running"} /\ run = "success"
                     THEN "settled" ELSE request[r]]
    /\ pc' = "idle"
    /\ ForgetCrawl
    /\ cutOff' = {}
    /\ UNCHANGED <<offer, run, stray, enabled, due, network, faults,
                   lastScan, missRun, streak, unsettled, unhanded>>

\* completeMonitorRequests, the last write of either finalization: it settles
\* every open request of the source, the queued ones too.
CompleteMonitorRequests ==
    /\ pc = "settling"
    /\ request' = [r \in Requests |-> "settled"]
    /\ pc' = "idle"
    /\ ForgetCrawl
    /\ cutOff' = {}
    /\ UNCHANGED <<offer, run, stray, enabled, due, network, faults,
                   lastScan, missRun, streak, unsettled, unhanded>>

\* Something in the try block threw after the fetch, or a write of the successful
\* finalization did: the catch block takes the crawl over.
FinalizeThrows ==
    /\ pc \in {"processing", "finalizing", "archiving", "settling"} /\ run # "failed"
    /\ faults < MaxFaults
    /\ faults' = faults + 1
    /\ pc' = "failing" /\ cur' = {} /\ left' = {}
    /\ ForgetStats
    /\ UNCHANGED <<dbVars, announce, gone, historyVars>>

\* The catch block, finishCrawlRun: the run is failed, whatever it said.
FailRun ==
    /\ pc = "failing"
    /\ run' = "failed"
    /\ pc' = "counting"
    /\ UNCHANGED <<offer, request, stray, enabled, due, network, crawlVars, faults, historyVars>>

\* finalizeFailedMonitor counts a miss only when the source's single offer
\* answered 404/410.
CountMiss ==
    /\ pc = "counting"
    /\ LET counted == IF gone /\ Cardinality(Known) = 1 THEN Known ELSE {}
           missed  == [o \in Offers |-> IF o \in counted THEN [offer[o] EXCEPT !.misses = Bump(@)]
                                        ELSE offer[o]]
           over    == {o \in counted : MustArchive(missed[o])}
       IN  /\ offer' = missed
           /\ missRun' = [o \in Offers |-> IF o \in counted THEN Bump(missRun[o]) ELSE missRun[o]]
           /\ cur' = over
           /\ pc' = IF over = {} THEN "finalizing" ELSE "archiving"
    /\ UNCHANGED <<request, run, stray, enabled, due, network, count, valid, seen, terminal,
                   announce, left, gone, faults, lastScan, streak, unsettled, unhanded, cutOff>>

\* A write of the catch block threw: the tick ends where it stands.
CatchThrows ==
    /\ \/ pc \in {"failing", "counting"}
       \/ pc \in {"finalizing", "archiving", "settling"} /\ run = "failed"
    /\ pc' = "idle"
    /\ BreakOff
    /\ UNCHANGED dbVars

\* The process is killed: its locals are gone, every committed write stays.
Crash ==
    /\ pc # "down"
    /\ pc' = "down"
    /\ BreakOff
    /\ UNCHANGED dbVars

\* Mutated form of Restart: nothing is recovered.
RestartKeepsRuns ==
    /\ pc = "down"
    /\ pc' = "idle"
    /\ UNCHANGED <<dbVars, crawlVars, faults, historyVars>>

\* recoverInterruptedCrawlRuns at the next start.
Restart ==
    /\ pc = "down"
    /\ pc' = "idle"
    /\ run' = IF run = "running" THEN "failed" ELSE run
    /\ stray' = 0
    /\ UNCHANGED <<offer, request, enabled, due, network, crawlVars, faults, historyVars>>

-----------------------------------------------------------------------------
(* Clock and web UI *)

\* The source is due from now on, which ends what cut its requests off.
FallDue ==
    /\ due' = TRUE
    /\ cutOff' = {}
    /\ UNCHANGED <<lastScan, missRun, streak, unsettled, unhanded>>

BecomeDue ==
    /\ ~due
    /\ FallDue
    /\ UNCHANGED <<offer, request, run, stray, enabled, network, pc, crawlVars, faults>>

\* A page that lists offers, or a tick with nothing due, refreshes freshness.
RefreshOfferFreshness ==
    /\ \E lapsed \in SUBSET Offers : offer' = Refreshed(offer, lapsed)
    /\ UNCHANGED <<request, run, stray, enabled, due, network, pc, crawlVars, faults, historyVars>>

\* Mutated form of RequestImmediateMonitor: next_run_at is left alone.
RequestWithoutSchedule(r) ==
    /\ network
    /\ request[r] = "settled"
    /\ request' = [request EXCEPT ![r] = "queued"]
    /\ UNCHANGED <<offer, run, stray, enabled, due, network, pc, crawlVars, faults, historyVars>>

\* POST /api/sources/:id/check-now, once the manual cooldown has passed.  The
\* source may be disabled: the request is accepted all the same.
RequestImmediateMonitor(r) ==
    /\ network
    /\ request[r] = "settled"
    /\ request' = [request EXCEPT ![r] = "queued"]
    /\ FallDue
    /\ UNCHANGED <<offer, run, stray, enabled, network, pc, crawlVars, faults>>

\* setSourceEnabled writes both flags in one transaction and makes a source it
\* enables due; how the two flags come to differ is in Sources.
SetSourceEnabled(on) ==
    /\ enabled' = on
    /\ IF on THEN FallDue ELSE UNCHANGED <<due, historyVars>>
    /\ UNCHANGED <<offer, request, run, stray, network, pc, crawlVars, faults>>

SetNetworkEnabled(on) ==
    /\ network # on
    /\ network' = on
    /\ UNCHANGED <<offer, request, run, stray, enabled, due, pc, crawlVars, faults, historyVars>>

\* A reviewed candidate is processed at once with one confirmation and outside
\* any crawl, so no finalization follows.  Its events go to createEvent in the
\* same handler.
ApproveCandidate(o, s) ==
    /\ offer' = [offer EXCEPT ![o] = ProcessedRow(@, s, 1)]
    /\ Observe(o, s)
    /\ unsettled' = unsettled \cup {o}
    /\ UNCHANGED <<request, run, stray, enabled, due, network, pc, crawlVars, faults,
                   lastScan, missRun, unhanded, cutOff>>

-----------------------------------------------------------------------------
Worker ==
    \/ BeginCrawl
    \/ FetchReturns
    \/ FetchFails
    \/ \E o \in Offers, s \in States, isTerminal, productCreated, priceChanged \in BOOLEAN :
          ProcessListing(o, s, isTerminal, productCreated, priceChanged)
    \/ \E t \in EventType : EmitEvent(t)
    \/ ExcludeListing
    \/ EndBatch
    \/ \E o \in Offers : FinalizeOffer(o)
    \/ ArchiveOffer
    \/ EndFinalize
    \/ CompleteMonitorRequests
    \/ FailRun
    \/ CountMiss

Faults == BeginThrows \/ ListingThrows \/ FinalizeThrows \/ CatchThrows \/ Crash \/ Restart

Web ==
    \/ RefreshOfferFreshness
    \/ \E r \in Requests : RequestImmediateMonitor(r)
    \/ \E on \in BOOLEAN : SetSourceEnabled(on) \/ SetNetworkEnabled(on)
    \/ \E o \in Offers, s \in States : ApproveCandidate(o, s)

Next == Worker \/ Faults \/ BecomeDue \/ Web

\* The tick timer keeps firing and every awaited fetch ends (net/http.js and the
\* browser connector time out), so the worker keeps stepping while it is up, and
\* the clock reaches next_run_at.  Nothing is assumed of users or of a restart.
Fairness == WF_vars(Worker) /\ WF_vars(BecomeDue)

Spec == Init /\ [][Next]_vars /\ Fairness

-----------------------------------------------------------------------------
(* Properties *)

Phases == {"down", "idle", "fetching", "processing", "announcing", "finalizing",
           "archiving", "failing", "counting", "settling"}

TypeOK ==
    /\ offer \in [Offers -> OfferRow]
    /\ request \in [Requests -> RequestStatus]
    /\ run \in {"none", "running", "success", "failed"}
    /\ stray \in Nat
    /\ enabled \in BOOLEAN /\ due \in BOOLEAN /\ network \in BOOLEAN
    /\ pc \in Phases
    /\ count \in 0..MaxListings
    /\ valid \in BOOLEAN
    /\ seen \in SUBSET Offers /\ terminal \in SUBSET Offers
    /\ cur \in SUBSET Offers
    /\ announce \in SUBSET EventType
    /\ left \in SUBSET Offers
    /\ gone \in BOOLEAN
    /\ faults \in 0..MaxFaults
    /\ lastScan \in [Offers -> Scan]
    /\ missRun \in [Offers -> 0..ArchiveAfter]
    /\ streak \in [Offers -> [state : States \cup {NoState}, n : 0..Confirmations]]
    /\ unsettled \in SUBSET Offers
    /\ unhanded \in SUBSET (Offers \X States)
    /\ cutOff \in SUBSET Requests

\* What the overview counts and the offer pages badge as buyable.
Exposed(o) == offer[o].purch /\ offer[o].fresh = "fresh" /\ ~offer[o].archivedAt

\* Never old stock (docs/TECH_SPEC.md, section 9; finalizeSuccessfulMonitor): an
\* offer shown as buyable is one the last successful scan of the shop found,
\* not ended, and its stored state is a buyable one.  Offers a crawl is still
\* working on, or was killed over, are excluded.
NeverExposesOldStock ==
    \A o \in Offers \ unsettled :
        Exposed(o) => lastScan[o] = "seen" /\ IsPurchasable(offer[o].avail)

\* Archival needs evidence (archiveIfNeeded): an archived offer was missed, ended
\* or answered 404/410 in at least ArchiveAfter settled scans in a row, whatever
\* kills, failed writes and user approvals happened in between.
ArchiveJustified ==
    \A o \in Offers : offer[o].fresh = "archived" => missRun[o] >= ArchiveAfter

\* The three freshness columns agree once a scan of the offer is settled:
\* purchasable only if fresh, archived_at set exactly if archived.
SettledRowsConsistent ==
    \A o \in Offers \ unsettled :
        /\ offer[o].purch => offer[o].fresh = "fresh"
        /\ offer[o].archivedAt <=> offer[o].fresh = "archived"

\* Flapping is filtered (stableAvailability): the stored state of an existing
\* offer only changes to a state read Confirmations times in a row, unless the
\* step is a user's approval of the listing.
StableTransition ==
    [][\A o \in Offers :
          offer[o].known /\ offer'[o].avail # offer[o].avail =>
              \/ UNCHANGED <<pc, crawlVars>>
              \/ streak'[o] = [state |-> offer'[o].avail, n |-> Confirmations]]_vars

\* A noteworthy change a crawl accepts is handed to createEvent, as an event that
\* tells of the new state, before the worker goes on to the next listing
\* (processListing, computeOfferEvents).  Only a kill between the offers write
\* and createEvent, or a write that throws there, loses it.  createEvent has the
\* last word: a second restock inside its cooldown gets no event of its own
\* (store.js:328-335, the suppression of docs/TECH_SPEC.md, 5.1.7).
TransitionHandedOn ==
    [][\A o \in Offers, s \in States :
          /\ <<o, s>> \in unhanded' => pc' = "announcing" /\ o \in cur'
          /\ <<o, s>> \in unhanded \ unhanded' =>
                \/ faults' # faults
                \/ \E t \in announce \ announce' : Tells(t, s)]_vars

\* The crawl at work until its row is settled, and the rows that say running.
LiveRuns ==
    IF pc \in {"fetching", "processing", "announcing"} \/ (pc = "failing" /\ run = "running")
    THEN {"source"} ELSE {}

RunningRows == [p \in {"source"} |-> IF run = "running" THEN stray + 1 ELSE stray]

\* While the service is up a crawl_runs row says running only about the crawl at
\* work, or about one that ended in a throw outside the try block or in the catch
\* block; the next start settles those and what a kill left before any crawl
\* begins (recoverInterruptedCrawlRuns).
Runs == INSTANCE RecoverableRuns WITH
    Places    <- {"source"},
    Exclusive <- FALSE,
    alive     <- pc # "down",
    live      <- LiveRuns,
    rows      <- RunningRows,
    faults    <- faults

RunsAreRecovered == Runs!Spec

Open(r) == request[r] \in {"queued", "running"}

\* A manual check that is not settled keeps its source due, or a finalization is
\* about to settle it, so the scheduler comes back to it (requestImmediateMonitor
\* against the finalizations).  The exception is a request whose finalization was
\* killed or threw after it had moved next_run_at: it waits until that date.
NoStrandedRequest ==
    \A r \in Requests : Open(r) =>
        \/ due
        \/ pc \in {"failing", "counting", "finalizing", "archiving", "settling"}
        \/ r \in cutOff

\* A manual check is eventually completed or failed, even after its finalization
\* broke off, unless the network is paused, the worker dies, or the source is
\* disabled: check-now accepts a request for a disabled source, which no tick
\* lists (server.js:905-909, listDueMonitorSources).
RequestSettled ==
    \A r \in Requests : Open(r) ~> (~Open(r) \/ ~network \/ ~enabled \/ pc = "down")

=============================================================================

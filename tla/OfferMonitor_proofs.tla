------------------------- MODULE OfferMonitor_proofs -------------------------
(***************************************************************************)
(* Proofs about OfferMonitor, for every set of offers, every threshold and  *)
(* every bound.  IInv is the inductive invariant behind them: it relates    *)
(* each row to the settled scans counted in the history, and the worker's   *)
(* progress through a finalization to the offers it has not settled yet.    *)
(***************************************************************************)
EXTENDS OfferMonitor, TLAPS

(* Rows keep their type, whatever part of the code writes them. *)

LEMMA BumpType ==
    ASSUME NEW n \in 0..ArchiveAfter
    PROVE  /\ Bump(n) \in 0..ArchiveAfter
           /\ Bump(n) > 0
           /\ n = ArchiveAfter => Bump(n) = ArchiveAfter
  BY OfferMonitorAssumption DEF Bump

LEMMA ProcessedRowType ==
    ASSUME NEW row \in OfferRow, NEW s \in States, NEW k \in 1..Confirmations
    PROVE  ProcessedRow(row, s, k) \in OfferRow
  <1>1. StableAvailability(row, s, k) \in
           [avail : States \cup {NoState}, cand : States \cup {NoState}, candCount : 0..Confirmations]
    BY OfferMonitorAssumption DEF StableAvailability, OfferRow
  <1>2. IsPurchasable(StableAvailability(row, s, k).avail) \in BOOLEAN
    BY OfferMonitorAssumption DEF IsPurchasable
  <1>3. QED
    BY <1>1, <1>2 DEF ProcessedRow, OfferRow

LEMMA FinalizedRowType ==
    ASSUME NEW row \in OfferRow, NEW wasSeen, NEW wasTerminal
    PROVE  FinalizedRow(row, wasSeen, wasTerminal) \in OfferRow
  <1>1. row.misses \in 0..ArchiveAfter
    BY DEF OfferRow
  <1>2. Bump(row.misses) \in 0..ArchiveAfter /\ 0 \in 0..ArchiveAfter
    BY <1>1, BumpType, OfferMonitorAssumption
  <1>3. QED
    BY <1>2 DEF FinalizedRow, OfferRow, Freshness

LEMMA ArchivedType ==
    ASSUME NEW row \in OfferRow
    PROVE  Archived(row) \in OfferRow
  BY DEF Archived, OfferRow, Freshness

LEMMA MissedType ==
    ASSUME NEW row \in OfferRow
    PROVE  [row EXCEPT !.misses = Bump(@)] \in OfferRow
  <1>1. Bump(row.misses) \in 0..ArchiveAfter
    BY BumpType DEF OfferRow
  <1>2. QED
    BY <1>1 DEF OfferRow

LEMMA RefreshedType ==
    ASSUME NEW table \in [Offers -> OfferRow], NEW lapsed \in SUBSET Offers
    PROVE  Refreshed(table, lapsed) \in [Offers -> OfferRow]
  <1>1. ASSUME NEW o \in Offers
        PROVE  [table[o] EXCEPT !.fresh = "stale", !.purch = FALSE] \in OfferRow
    <2>1. table[o] \in OfferRow
      OBVIOUS
    <2>2. QED
      BY <2>1 DEF OfferRow, Freshness
  <1>2. QED
    BY <1>1 DEF Refreshed

LEMMA EventsType ==
    ASSUME NEW row, NEW s, NEW pcr \in BOOLEAN, NEW prc \in BOOLEAN
    PROVE  ComputeOfferEvents(row, s, pcr, prc) \in SUBSET EventType
  <1>1. FirstSightEvent(s) \in SUBSET EventType
    BY DEF FirstSightEvent, EventType, StateEvent
  <1>2. TransitionEvent(row.avail, s) \in SUBSET EventType
    BY DEF TransitionEvent, EventType, StateEvent
  <1>3. QED
    BY <1>1, <1>2 DEF ComputeOfferEvents, EventType

LEMMA NoRowType == NoRow \in OfferRow
  BY OfferMonitorAssumption DEF NoRow, OfferRow, Freshness, NoState

-----------------------------------------------------------------------------
(* Type correctness *)

LEMMA TypeInit == Init => TypeOK
  <1> SUFFICES ASSUME Init PROVE TypeOK
    OBVIOUS
  <1>1. offer \in [Offers -> OfferRow]
    BY NoRowType DEF Init
  <1>2. streak \in [Offers -> [state : States \cup {NoState}, n : 0..Confirmations]]
    BY OfferMonitorAssumption DEF Init
  <1>3. /\ missRun \in [Offers -> 0..ArchiveAfter]
        /\ faults \in 0..MaxFaults
        /\ count \in 0..MaxListings
    BY OfferMonitorAssumption DEF Init
  <1>4. QED
    BY <1>1, <1>2, <1>3 DEF Init, TypeOK, RequestStatus, Phases, Scan

\* What the observation of a state does to the history keeps its type.
LEMMA ObserveType ==
    ASSUME TypeOK, NEW o \in Offers, NEW s \in States, Observe(o, s)
    PROVE  streak' \in [Offers -> [state : States \cup {NoState}, n : 0..Confirmations]]
  <1>1. streak[o].n \in 0..Confirmations
    BY DEF TypeOK
  <1>2. QED
    BY <1>1, OfferMonitorAssumption DEF TypeOK, Observe

\* The crawl's locals after it ended or was killed.
LEMMA ForgetType ==
    ASSUME ForgetCrawl
    PROVE  /\ count' \in 0..MaxListings
           /\ valid' \in BOOLEAN /\ gone' \in BOOLEAN
           /\ seen' \in SUBSET Offers /\ terminal' \in SUBSET Offers
           /\ cur' \in SUBSET Offers /\ left' \in SUBSET Offers
           /\ announce' \in SUBSET EventType
  <1>1. 0 \in 0..MaxListings
    BY OfferMonitorAssumption
  <1>2. QED
    BY <1>1 DEF ForgetCrawl, ForgetStats

\* What a break-off leaves in the worker and in the history.
LEMMA BreakOffType ==
    ASSUME TypeOK, BreakOff
    PROVE  /\ faults' \in 0..MaxFaults
           /\ count' \in 0..MaxListings
           /\ valid' \in BOOLEAN /\ gone' \in BOOLEAN
           /\ seen' \in SUBSET Offers /\ terminal' \in SUBSET Offers
           /\ cur' \in SUBSET Offers /\ left' \in SUBSET Offers
           /\ announce' \in SUBSET EventType
           /\ unhanded' \in SUBSET (Offers \X States) /\ cutOff' \in SUBSET Requests
           /\ UNCHANGED <<lastScan, missRun, streak, unsettled>>
  <1>1. faults' \in 0..MaxFaults
    BY OfferMonitorAssumption DEF BreakOff, TypeOK
  <1>2. cutOff' \in SUBSET Requests
    BY DEF BreakOff, TypeOK
  <1>3. QED
    BY <1>1, <1>2, ForgetType DEF BreakOff

\* The row opened and the freshness refreshed at the start of a crawl.
LEMMA OpenRunType ==
    ASSUME TypeOK, OpenRun
    PROVE  offer' \in [Offers -> OfferRow] /\ run' = "running" /\ stray' \in Nat
  BY RefreshedType DEF OpenRun, TypeOK

LEMMA TypeNext == TypeOK /\ [Next]_vars => TypeOK'
  <1> SUFFICES ASSUME TypeOK, [Next]_vars PROVE TypeOK'
    OBVIOUS
  <1> USE DEF TypeOK
  <1>1. CASE BeginCrawl
    BY <1>1, OpenRunType DEF BeginCrawl, crawlVars, historyVars, RequestStatus, Phases
  <1>2. CASE FetchReturns
    BY <1>2 DEF FetchReturns, dbVars, crawlVars, historyVars, Phases
  <1>3. CASE FetchFails
    BY <1>3 DEF FetchFails, dbVars, historyVars, Phases
  <1>4. ASSUME NEW o \in Offers, NEW s \in States, NEW isTerminal \in BOOLEAN,
               NEW productCreated \in BOOLEAN, NEW priceChanged \in BOOLEAN,
               ProcessListing(o, s, isTerminal, productCreated, priceChanged)
        PROVE  TypeOK'
    <2> DEFINE new    == ProcessedRow(offer[o], s, Confirmations)
               events == ComputeOfferEvents(offer[o], new.avail, productCreated, priceChanged)
    <2>1. new \in OfferRow
      BY ProcessedRowType, OfferMonitorAssumption
    <2>2. events \in SUBSET EventType
      BY EventsType
    <2>3. streak' \in [Offers -> [state : States \cup {NoState}, n : 0..Confirmations]]
      BY <1>4, ObserveType DEF ProcessListing
    <2>4. offer' = [offer EXCEPT ![o] = new] /\ announce' = events
      BY <1>4 DEF ProcessListing
    <2>5. offer' \in [Offers -> OfferRow] /\ announce' \in SUBSET EventType
      BY <2>1, <2>2, <2>4
    <2>6. count' \in 0..MaxListings
      BY <1>4, OfferMonitorAssumption DEF ProcessListing
    <2>7. pc' \in Phases /\ cur' \in SUBSET Offers /\ seen' \in SUBSET Offers
          /\ terminal' \in SUBSET Offers /\ valid' \in BOOLEAN
      BY <1>4 DEF ProcessListing, Phases
    <2>8. unhanded' \in SUBSET (Offers \X States) /\ unsettled' \in SUBSET Offers
      <3>1. unsettled' \in SUBSET Offers
        BY <1>4 DEF ProcessListing
      <3>2. new.avail \in States \cup {NoState}
        BY <2>1 DEF OfferRow
      <3>3. Noteworthy(offer[o].avail, new.avail) => new.avail # NoState
        BY DEF Noteworthy, NoState
      <3>4. unhanded' = IF offer[o].known /\ Noteworthy(offer[o].avail, new.avail)
                        THEN unhanded \cup {<<o, new.avail>>} ELSE unhanded
        BY <1>4 DEF ProcessListing
      <3>5. QED
        BY <3>1, <3>2, <3>3, <3>4
    <2>9. QED
      BY <1>4, <2>3, <2>5, <2>6, <2>7, <2>8 DEF ProcessListing
  <1>5. ASSUME NEW t \in EventType, EmitEvent(t)
        PROVE  TypeOK'
    BY <1>5 DEF EmitEvent, dbVars, Phases
  <1>6. CASE ExcludeListing
    BY <1>6 DEF ExcludeListing, dbVars, historyVars
  <1>7. CASE EndBatch
    <2>1. 0 \in 0..MaxListings
      BY OfferMonitorAssumption
    <2>2. QED
      BY <1>7, <2>1 DEF EndBatch, ForgetStats, Known, Phases, Scan
  <1>8. ASSUME NEW o \in Offers, FinalizeOffer(o)
        PROVE  TypeOK'
    <2>1. FinalizedRow(offer[o], o \in seen, o \in terminal) \in OfferRow
      BY FinalizedRowType
    <2>2. offer' \in [Offers -> OfferRow]
      BY <1>8, <2>1 DEF FinalizeOffer
    <2>3. Bump(missRun[o]) \in 0..ArchiveAfter /\ 0 \in 0..ArchiveAfter
      BY BumpType, OfferMonitorAssumption
    <2>4. missRun' \in [Offers -> 0..ArchiveAfter]
      BY <1>8, <2>3 DEF FinalizeOffer
    <2>5. QED
      BY <1>8, <2>2, <2>4 DEF FinalizeOffer, Phases
  <1>9. CASE ArchiveOffer
    BY <1>9, ArchivedType DEF ArchiveOffer, Phases
  <1>10. CASE EndFinalize
    BY <1>10 DEF EndFinalize, crawlVars, historyVars, Phases
  <1>11. CASE CompleteMonitorRequests
    BY <1>11, ForgetType DEF CompleteMonitorRequests, RequestStatus, Phases
  <1>12. CASE FailRun
    BY <1>12 DEF FailRun, crawlVars, historyVars, Phases
  <1>13. CASE CountMiss
    <2>1. \A o \in Offers : [offer[o] EXCEPT !.misses = Bump(@)] \in OfferRow
      BY MissedType
    <2>2. offer' \in [Offers -> OfferRow]
      BY <1>13, <2>1 DEF CountMiss
    <2>3. \A o \in Offers : Bump(missRun[o]) \in 0..ArchiveAfter
      BY BumpType
    <2>4. missRun' \in [Offers -> 0..ArchiveAfter]
      BY <1>13, <2>3 DEF CountMiss
    <2>5. cur' \in SUBSET Offers /\ pc' \in Phases
      BY <1>13 DEF CountMiss, Known, Phases
    <2>6. QED
      BY <1>13, <2>2, <2>4, <2>5 DEF CountMiss
  <1>14. CASE BeginThrows
    BY <1>14, OpenRunType, BreakOffType DEF BeginThrows
  <1>15. CASE ListingThrows
    BY <1>15, OfferMonitorAssumption DEF ListingThrows, dbVars, Phases
  <1>16. CASE FinalizeThrows
    <2>1. 0 \in 0..MaxListings /\ faults' \in 0..MaxFaults
      BY <1>16, OfferMonitorAssumption DEF FinalizeThrows
    <2>2. QED
      BY <1>16, <2>1 DEF FinalizeThrows, ForgetStats, dbVars, historyVars, Phases
  <1>17. CASE CatchThrows
    BY <1>17, BreakOffType DEF CatchThrows, dbVars, Phases
  <1>18. CASE Crash
    BY <1>18, BreakOffType DEF Crash, dbVars, Phases
  <1>19. CASE Restart
    BY <1>19 DEF Restart, crawlVars, historyVars, Phases
  <1>20. CASE BecomeDue
    BY <1>20 DEF BecomeDue, FallDue, crawlVars
  <1>21. CASE RefreshOfferFreshness
    BY <1>21, RefreshedType DEF RefreshOfferFreshness, crawlVars, historyVars
  <1>22. ASSUME NEW r \in Requests, RequestImmediateMonitor(r)
         PROVE  TypeOK'
    BY <1>22 DEF RequestImmediateMonitor, FallDue, crawlVars, RequestStatus
  <1>23. ASSUME NEW on \in BOOLEAN, SetSourceEnabled(on)
         PROVE  TypeOK'
    BY <1>23 DEF SetSourceEnabled, FallDue, crawlVars, historyVars
  <1>24. ASSUME NEW on \in BOOLEAN, SetNetworkEnabled(on)
         PROVE  TypeOK'
    BY <1>24 DEF SetNetworkEnabled, crawlVars, historyVars
  <1>25. ASSUME NEW o \in Offers, NEW s \in States, ApproveCandidate(o, s)
         PROVE  TypeOK'
    <2>1. ProcessedRow(offer[o], s, 1) \in OfferRow
      BY ProcessedRowType, OfferMonitorAssumption
    <2>2. offer' \in [Offers -> OfferRow]
      BY <1>25, <2>1 DEF ApproveCandidate
    <2>3. streak' \in [Offers -> [state : States \cup {NoState}, n : 0..Confirmations]]
      BY <1>25, ObserveType DEF ApproveCandidate
    <2>4. QED
      BY <1>25, <2>2, <2>3 DEF ApproveCandidate, crawlVars
  <1>26. CASE UNCHANGED vars
    BY <1>26 DEF vars, dbVars, crawlVars, historyVars
  <1>27. QED
    BY <1>1, <1>2, <1>3, <1>4, <1>5, <1>6, <1>7, <1>8, <1>9, <1>10, <1>11, <1>12, <1>13,
       <1>14, <1>15, <1>16, <1>17, <1>18, <1>19, <1>20, <1>21, <1>22, <1>23, <1>24, <1>25,
       <1>26 DEF Next, Worker, Faults, Web

\* Every reachable state is well typed, so counters stay within their bounds.
THEOREM TypeCorrect == Spec => []TypeOK
  <1>1. QED
    BY TypeInit, TypeNext, PTL DEF Spec

-----------------------------------------------------------------------------
(* The inductive invariant *)

\* An archived row carries its archive time and the full count of misses, and
\* that count is the number of settled misses since the last settled sighting.
ArchivalInv(o) ==
    /\ offer[o].fresh = "archived" => offer[o].archivedAt
    /\ offer[o].archivedAt => offer[o].misses = ArchiveAfter
    /\ offer[o].misses = missRun[o]

\* A settled row is fresh only if the last scan saw the offer, buyable only if
\* fresh, and carries an archive time only if archived.
SettledInv(o) ==
    o \notin unsettled =>
        /\ offer[o].fresh = "fresh" => lastScan[o] = "seen"
        /\ offer[o].purch => offer[o].fresh = "fresh"
        /\ offer[o].archivedAt => offer[o].fresh = "archived"

StoredInv(o) == offer[o].purch => IsPurchasable(offer[o].avail)

\* During a finalization: what is left to write is unsettled and the scan's
\* verdict on it is the one the worker holds in its locals.
ScanInv(o) ==
    o \in left =>
        /\ pc \in {"finalizing", "archiving"}
        /\ o \in unsettled
        /\ lastScan[o] = "seen" <=> (o \in seen /\ o \notin terminal)

\* The row about to be archived has its misses counted.
ArchivingInv(o) ==
    pc = "archiving" /\ o \in cur => offer[o].misses = ArchiveAfter

IInv ==
    /\ TypeOK
    /\ \A o \in Offers : /\ ArchivalInv(o)
                         /\ SettledInv(o)
                         /\ StoredInv(o)
                         /\ ScanInv(o)
                         /\ ArchivingInv(o)

LEMMA ProcessedRowKeeps ==
    ASSUME NEW row \in OfferRow, NEW s \in States, NEW k \in 1..Confirmations
    PROVE  LET new == ProcessedRow(row, s, k)
           IN  /\ new.fresh = row.fresh
               /\ new.misses = row.misses
               /\ new.archivedAt = row.archivedAt
               /\ new.purch = IsPurchasable(new.avail)
  <1>1. IsPurchasable(StableAvailability(row, s, k).avail) \in BOOLEAN
    BY OfferMonitorAssumption DEF IsPurchasable
  <1>2. QED
    BY <1>1 DEF ProcessedRow, OfferRow

\* Refreshing a table leaves a row alone or only ends its freshness.
LEMMA RefreshedRow ==
    ASSUME NEW table \in [Offers -> OfferRow], NEW lapsed \in SUBSET Offers, NEW o \in Offers
    PROVE  \/ Refreshed(table, lapsed)[o] = table[o]
           \/ /\ Refreshed(table, lapsed)[o].fresh = "stale"
              /\ Refreshed(table, lapsed)[o].purch = FALSE
              /\ Refreshed(table, lapsed)[o].avail = table[o].avail
              /\ Refreshed(table, lapsed)[o].misses = table[o].misses
              /\ Refreshed(table, lapsed)[o].archivedAt = table[o].archivedAt
              /\ table[o].archivedAt = FALSE
  <1>1. table[o] \in OfferRow
    OBVIOUS
  <1>2. QED
    BY <1>1 DEF Refreshed, OfferRow

LEMMA InvInit == Init => IInv
  <1> SUFFICES ASSUME Init, NEW o \in Offers
               PROVE  /\ ArchivalInv(o) /\ SettledInv(o) /\ StoredInv(o)
                      /\ ScanInv(o) /\ ArchivingInv(o)
    BY TypeInit DEF IInv
  <1>1. QED
    BY DEF Init, NoRow, ArchivalInv, SettledInv, StoredInv, ScanInv, ArchivingInv

\* A step that writes no row and no history keeps the row invariants; what the
\* worker's progress says of the offer is for the caller to show.
LEMMA RowsUnchanged ==
    ASSUME IInv, NEW o \in Offers,
           offer'[o] = offer[o], missRun' = missRun, lastScan'[o] = lastScan[o],
           unsettled \subseteq unsettled'
    PROVE  ArchivalInv(o)' /\ SettledInv(o)' /\ StoredInv(o)'
  BY DEF IInv, ArchivalInv, SettledInv, StoredInv

\* Refreshing keeps the row invariants.
LEMMA RefreshKeeps ==
    ASSUME IInv, NEW o \in Offers, NEW lapsed \in SUBSET Offers,
           offer' = Refreshed(offer, lapsed), UNCHANGED <<missRun, lastScan, unsettled>>
    PROVE  ArchivalInv(o)' /\ SettledInv(o)' /\ StoredInv(o)' /\ offer'[o].misses = offer[o].misses
  <1>1. offer \in [Offers -> OfferRow] /\ offer[o] \in OfferRow
    BY DEF IInv, TypeOK
  <1>2. UNCHANGED <<missRun, lastScan, unsettled>>
    OBVIOUS
  <1>3. ArchivalInv(o) /\ SettledInv(o) /\ StoredInv(o)
    BY DEF IInv
  <1>4. CASE offer'[o] = offer[o]
    BY <1>2, <1>3, <1>4 DEF ArchivalInv, SettledInv, StoredInv
  <1>5. CASE /\ offer'[o].fresh = "stale"
             /\ offer'[o].purch = FALSE
             /\ offer'[o].misses = offer[o].misses
             /\ offer'[o].archivedAt = FALSE
    <2>1. ArchivalInv(o)'
      BY <1>2, <1>3, <1>5 DEF ArchivalInv
    <2>2. SettledInv(o)' /\ StoredInv(o)'
      BY <1>5 DEF SettledInv, StoredInv
    <2>3. QED
      BY <1>2, <1>3, <1>5, <2>1, <2>2
  <1>6. \/ offer'[o] = offer[o]
        \/ /\ offer'[o].fresh = "stale" /\ offer'[o].purch = FALSE
           /\ offer'[o].misses = offer[o].misses /\ offer'[o].archivedAt = FALSE
    <2>1. offer'[o] = Refreshed(offer, lapsed)[o]
      OBVIOUS
    <2>2. \/ Refreshed(offer, lapsed)[o] = offer[o]
          \/ /\ Refreshed(offer, lapsed)[o].fresh = "stale" /\ Refreshed(offer, lapsed)[o].purch = FALSE
             /\ Refreshed(offer, lapsed)[o].misses = offer[o].misses
             /\ Refreshed(offer, lapsed)[o].archivedAt = offer[o].archivedAt /\ offer[o].archivedAt = FALSE
      BY <1>1, RefreshedRow, Zenon
    <2>3. QED
      BY <2>1, <2>2, Zenon
  <1>7. QED
    BY <1>4, <1>5, <1>6

\* Processing a listing, in a crawl or by approval, keeps the row invariants.
LEMMA ProcessKeeps ==
    ASSUME IInv, NEW p \in Offers, NEW s \in States, NEW k \in 1..Confirmations,
           offer' = [offer EXCEPT ![p] = ProcessedRow(offer[p], s, k)],
           unsettled' = unsettled \cup {p}, missRun' = missRun, lastScan' = lastScan,
           NEW o \in Offers
    PROVE  ArchivalInv(o)' /\ SettledInv(o)' /\ StoredInv(o)' /\ offer'[o].misses = offer[o].misses
  <1>1. offer \in [Offers -> OfferRow] /\ offer[p] \in OfferRow
    BY DEF IInv, TypeOK
  <1>2. CASE o = p
    BY <1>1, <1>2, ProcessedRowKeeps DEF IInv, ArchivalInv, SettledInv, StoredInv
  <1>3. CASE o # p
    BY <1>1, <1>3 DEF IInv, ArchivalInv, SettledInv, StoredInv
  <1>4. QED
    BY <1>2, <1>3

LEMMA InvNext == IInv /\ [Next]_vars => IInv'
  <1> SUFFICES ASSUME IInv, [Next]_vars, NEW o \in Offers
               PROVE  /\ ArchivalInv(o)' /\ SettledInv(o)' /\ StoredInv(o)'
                      /\ ScanInv(o)' /\ ArchivingInv(o)'
    BY TypeNext DEF IInv
  <1> USE DEF ScanInv, ArchivingInv
  <1>0. TypeOK /\ ScanInv(o) /\ ArchivingInv(o) /\ offer[o] \in OfferRow
    BY DEF IInv, TypeOK
  <1>1. CASE BeginCrawl
    BY <1>0, <1>1, RefreshKeeps DEF BeginCrawl, OpenRun, crawlVars, historyVars
  <1>2. CASE FetchReturns
    BY <1>0, <1>2, RowsUnchanged DEF FetchReturns, dbVars, crawlVars, historyVars
  <1>3. CASE FetchFails
    BY <1>0, <1>3, RowsUnchanged DEF FetchFails, dbVars, historyVars
  <1>4. ASSUME NEW p \in Offers, NEW s \in States, NEW isTerminal \in BOOLEAN,
               NEW productCreated \in BOOLEAN, NEW priceChanged \in BOOLEAN,
               ProcessListing(p, s, isTerminal, productCreated, priceChanged)
        PROVE  /\ ArchivalInv(o)' /\ SettledInv(o)' /\ StoredInv(o)'
               /\ ScanInv(o)' /\ ArchivingInv(o)'
    <2>1. /\ offer' = [offer EXCEPT ![p] = ProcessedRow(offer[p], s, Confirmations)]
          /\ unsettled' = unsettled \cup {p}
          /\ missRun' = missRun /\ lastScan' = lastScan
      BY <1>4 DEF ProcessListing
    <2>2. Confirmations \in 1..Confirmations
      BY OfferMonitorAssumption
    <2>3. ArchivalInv(o)' /\ SettledInv(o)' /\ StoredInv(o)'
      BY <2>1, <2>2, ProcessKeeps
    <2>4. o \notin left'
      BY <1>0, <1>4 DEF ProcessListing
    <2>5. pc' # "archiving"
      BY <1>4 DEF ProcessListing
    <2>6. QED
      BY <2>3, <2>4, <2>5
  <1>5. ASSUME NEW t \in EventType, EmitEvent(t)
        PROVE  /\ ArchivalInv(o)' /\ SettledInv(o)' /\ StoredInv(o)'
               /\ ScanInv(o)' /\ ArchivingInv(o)'
    BY <1>0, <1>5, RowsUnchanged DEF EmitEvent, dbVars
  <1>6. CASE ExcludeListing
    BY <1>0, <1>6, RowsUnchanged DEF ExcludeListing, dbVars, historyVars
  <1>7. CASE EndBatch
    <2>1. CASE valid
      <3>1. /\ o \in left' <=> o \in Known
            /\ o \in Known => o \in unsettled'
            /\ o \in Known => (lastScan'[o] = "seen" <=> (o \in seen /\ o \notin terminal))
            /\ o \notin Known => lastScan'[o] = lastScan[o]
            /\ unsettled \subseteq unsettled'
            /\ pc' = "finalizing"
            /\ UNCHANGED <<offer, missRun, seen, terminal>>
        BY <1>7, <2>1 DEF EndBatch
      <3>2. ArchivalInv(o)' /\ SettledInv(o)' /\ StoredInv(o)'
        BY <3>1 DEF IInv, ArchivalInv, SettledInv, StoredInv
      <3>3. QED
        BY <3>1, <3>2
    <2>2. CASE ~valid
      BY <1>0, <1>7, <2>2, RowsUnchanged DEF EndBatch
    <2>3. QED
      BY <2>1, <2>2 
  <1>8. ASSUME NEW p \in Offers, FinalizeOffer(p)
        PROVE  /\ ArchivalInv(o)' /\ SettledInv(o)' /\ StoredInv(o)'
               /\ ScanInv(o)' /\ ArchivingInv(o)'
    <2> DEFINE row == FinalizedRow(offer[p], p \in seen, p \in terminal)
    <2>1. /\ offer' = [offer EXCEPT ![p] = row]
          /\ UNCHANGED <<lastScan, seen, terminal>>
          /\ p \in left
          /\ missRun' = [missRun EXCEPT ![p] = IF lastScan[p] = "seen" THEN 0 ELSE Bump(missRun[p])]
      BY <1>8 DEF FinalizeOffer
    <2>2. IF MustArchive(row)
          THEN pc' = "archiving" /\ cur' = {p} /\ UNCHANGED <<left, unsettled>>
          ELSE left' = left \ {p} /\ unsettled' = unsettled \ {p} /\ pc' = "finalizing"
      BY <1>8 DEF FinalizeOffer
    <2>3. CASE o # p
      <3>1. offer'[o] = offer[o] /\ missRun'[o] = missRun[o]
            /\ (o \in unsettled' <=> o \in unsettled)
            /\ (o \in left' <=> o \in left)
        BY <2>1, <2>2, <2>3, <1>0 DEF TypeOK
      <3>2. ArchivalInv(o)' /\ SettledInv(o)' /\ StoredInv(o)'
        BY <3>1, <2>1 DEF IInv, ArchivalInv, SettledInv, StoredInv
      <3>3. QED
        BY <3>1, <3>2, <2>1, <2>2, <2>3, <1>0
    <2>4. CASE o = p
      <3>1. lastScan[o] = "seen" <=> (o \in seen /\ o \notin terminal)
        BY <1>0, <2>1, <2>4
      <3>2. offer'[o] = row /\ missRun'[o] = IF lastScan[o] = "seen" THEN 0 ELSE Bump(missRun[o])
        BY <2>1, <2>4, <1>0 DEF TypeOK
      <3>3. offer[o].misses = missRun[o] /\ offer[o].misses \in 0..ArchiveAfter
        BY <1>0 DEF IInv, ArchivalInv, OfferRow
      <3>4. CASE lastScan[o] = "seen"
        <4>1. /\ row.fresh = "fresh" /\ row.misses = 0 /\ row.archivedAt = FALSE
              /\ row.purch = offer[o].purch /\ row.avail = offer[o].avail
          BY <1>0, <2>4, <3>1, <3>4 DEF FinalizedRow, OfferRow
        <4>2. ~MustArchive(row)
          BY <4>1, OfferMonitorAssumption DEF MustArchive
        <4>3. QED
          BY <4>1, <4>2, <3>2, <3>4, <2>1, <2>2, <2>4
             DEF IInv, ArchivalInv, SettledInv, StoredInv
      <3>5. CASE lastScan[o] # "seen"
        <4>1. /\ row.fresh = "stale" /\ row.misses = Bump(offer[o].misses)
              /\ row.archivedAt = offer[o].archivedAt /\ row.purch = FALSE
          BY <1>0, <2>4, <3>1, <3>5 DEF FinalizedRow, OfferRow
        <4>2. row.archivedAt => row.misses = ArchiveAfter
          BY <4>1, <3>3, BumpType DEF IInv, ArchivalInv
        <4>3. ArchivalInv(o)' /\ StoredInv(o)'
          BY <4>1, <4>2, <3>2, <3>3, <3>5 DEF ArchivalInv, StoredInv
        <4>4. CASE MustArchive(row)
          <5>1. row.misses = ArchiveAfter
            BY <4>1, <4>4, <3>3, BumpType, OfferMonitorAssumption DEF MustArchive
          <5>2. o \in unsettled'
            BY <1>0, <2>1, <2>2, <2>4, <4>4
          <5>3. QED
            BY <1>0, <5>1, <5>2, <4>3, <4>4, <3>2, <2>1, <2>2, <2>4 DEF SettledInv
        <4>5. CASE ~MustArchive(row)
          <5>1. row.misses # ArchiveAfter
            BY <4>5, OfferMonitorAssumption DEF MustArchive
          <5>2. ~row.archivedAt
            BY <4>2, <5>1, Zenon
          <5>3. QED
            BY <5>2, <4>1, <4>3, <4>5, <3>2, <2>1, <2>2, <2>4 DEF SettledInv
        <4>6. QED
          BY <4>4, <4>5
      <3>6. QED
        BY <3>4, <3>5
    <2>5. QED
      BY <2>3, <2>4
  <1>9. CASE ArchiveOffer
    <2>1. CASE o \in cur
      <3>1. offer'[o] = Archived(offer[o]) /\ o \notin left' /\ pc' = "finalizing"
            /\ UNCHANGED <<missRun, lastScan>>
        BY <1>9, <2>1 DEF ArchiveOffer
      <3>2. /\ Archived(offer[o]).fresh = "archived" /\ Archived(offer[o]).archivedAt = TRUE
            /\ Archived(offer[o]).purch = FALSE /\ Archived(offer[o]).misses = offer[o].misses
        BY <1>0 DEF Archived, OfferRow
      <3>3. offer[o].misses = ArchiveAfter
        BY <1>0, <1>9, <2>1 DEF ArchiveOffer
      <3>4. QED
        BY <3>1, <3>2, <3>3 DEF IInv, ArchivalInv, SettledInv, StoredInv
    <2>2. CASE o \notin cur
      <3>1. /\ offer'[o] = offer[o] /\ (o \in left' <=> o \in left) /\ pc' = "finalizing"
            /\ (o \in unsettled' <=> o \in unsettled)
            /\ UNCHANGED <<missRun, lastScan, seen, terminal>>
        BY <1>9, <2>2 DEF ArchiveOffer
      <3>2. QED
        BY <1>0, <3>1 DEF IInv, ArchivalInv, SettledInv, StoredInv
    <2>3. QED
      BY <2>1, <2>2
  <1>10. CASE EndFinalize
    <2>1. o \notin left' /\ pc' # "archiving"
      BY <1>10 DEF EndFinalize, crawlVars
    <2>2. QED
      BY <1>10, <2>1, RowsUnchanged DEF EndFinalize, historyVars
  <1>11. CASE CompleteMonitorRequests
    BY <1>11, RowsUnchanged DEF CompleteMonitorRequests, ForgetCrawl
  <1>12. CASE FailRun
    BY <1>0, <1>12, RowsUnchanged DEF FailRun, crawlVars, historyVars
  <1>13. CASE CountMiss
    <2> DEFINE missed == [offer[o] EXCEPT !.misses = Bump(@)]
    <2>1. \/ /\ offer'[o] = offer[o] /\ missRun'[o] = missRun[o] /\ o \notin cur'
          \/ /\ missRun'[o] = Bump(missRun[o])
             /\ offer'[o] = missed /\ (o \in cur' => MustArchive(missed))
      BY <1>13 DEF CountMiss
    <2>2. UNCHANGED <<lastScan, unsettled, left>> /\ o \notin left'
      BY <1>0, <1>13 DEF CountMiss
    <2>3. /\ missed \in OfferRow
          /\ missed.fresh = offer[o].fresh /\ missed.archivedAt = offer[o].archivedAt
          /\ missed.purch = offer[o].purch /\ missed.avail = offer[o].avail
          /\ missed.misses = Bump(offer[o].misses)
      BY <1>0, MissedType DEF OfferRow
    <2>4. /\ offer[o].misses = missRun[o] /\ offer[o].misses \in 0..ArchiveAfter
          /\ Bump(offer[o].misses) \in 0..ArchiveAfter
          /\ offer[o].archivedAt => Bump(offer[o].misses) = ArchiveAfter
      BY <1>0, BumpType DEF IInv, ArchivalInv, OfferRow
    <2>5. MustArchive(missed) => missed.misses = ArchiveAfter
      BY <2>3, <2>4, OfferMonitorAssumption DEF MustArchive
    <2>6. ArchivalInv(o) /\ SettledInv(o) /\ StoredInv(o)
      BY DEF IInv
    <2>7. CASE offer'[o] = offer[o] /\ missRun'[o] = missRun[o] /\ o \notin cur'
      BY <2>2, <2>6, <2>7 DEF ArchivalInv, SettledInv, StoredInv
    <2>8. CASE /\ missRun'[o] = Bump(missRun[o])
               /\ offer'[o] = missed /\ (o \in cur' => MustArchive(missed))
      <3>1. ArchivalInv(o)'
        BY <2>3, <2>4, <2>6, <2>8 DEF ArchivalInv
      <3>2. SettledInv(o)' /\ StoredInv(o)'
        BY <2>2, <2>3, <2>6, <2>8 DEF SettledInv, StoredInv
      <3>3. ArchivingInv(o)'
        BY <2>5, <2>8
      <3>4. QED
        BY <2>2, <3>1, <3>2, <3>3
    <2>9. QED
      BY <2>1, <2>7, <2>8
  <1>14. CASE BeginThrows
    BY <1>14, RefreshKeeps DEF BeginThrows, OpenRun, BreakOff, ForgetCrawl
  <1>15. CASE ListingThrows
    BY <1>0, <1>15, RowsUnchanged DEF ListingThrows, dbVars
  <1>16. CASE FinalizeThrows
    BY <1>16, RowsUnchanged DEF FinalizeThrows, dbVars, historyVars
  <1>17. CASE CatchThrows
    BY <1>17, RowsUnchanged DEF CatchThrows, BreakOff, ForgetCrawl, dbVars
  <1>18. CASE Crash
    BY <1>18, RowsUnchanged DEF Crash, BreakOff, ForgetCrawl, dbVars
  <1>19. CASE Restart
    BY <1>0, <1>19, RowsUnchanged DEF Restart, crawlVars, historyVars
  <1>20. CASE BecomeDue
    BY <1>0, <1>20, RowsUnchanged DEF BecomeDue, FallDue, crawlVars
  <1>21. CASE RefreshOfferFreshness
    BY <1>0, <1>21, RefreshKeeps DEF RefreshOfferFreshness, crawlVars, historyVars
  <1>22. ASSUME NEW r \in Requests, RequestImmediateMonitor(r)
         PROVE  /\ ArchivalInv(o)' /\ SettledInv(o)' /\ StoredInv(o)'
                /\ ScanInv(o)' /\ ArchivingInv(o)'
    BY <1>0, <1>22, RowsUnchanged DEF RequestImmediateMonitor, FallDue, crawlVars
  <1>23. ASSUME NEW on \in BOOLEAN, SetSourceEnabled(on) \/ SetNetworkEnabled(on)
         PROVE  /\ ArchivalInv(o)' /\ SettledInv(o)' /\ StoredInv(o)'
                /\ ScanInv(o)' /\ ArchivingInv(o)'
    BY <1>0, <1>23, RowsUnchanged
    DEF SetSourceEnabled, SetNetworkEnabled, FallDue, crawlVars, historyVars
  <1>24. ASSUME NEW p \in Offers, NEW s \in States, ApproveCandidate(p, s)
         PROVE  /\ ArchivalInv(o)' /\ SettledInv(o)' /\ StoredInv(o)'
                /\ ScanInv(o)' /\ ArchivingInv(o)'
    <2>1. 1 \in 1..Confirmations
      BY OfferMonitorAssumption
    <2>2. /\ offer' = [offer EXCEPT ![p] = ProcessedRow(offer[p], s, 1)]
          /\ unsettled' = unsettled \cup {p}
          /\ UNCHANGED <<missRun, lastScan, pc, left, seen, terminal, cur>>
      BY <1>24 DEF ApproveCandidate, crawlVars
    <2>3. ArchivalInv(o)' /\ SettledInv(o)' /\ StoredInv(o)' /\ offer'[o].misses = offer[o].misses
      BY <2>1, <2>2, ProcessKeeps
    <2>4. QED
      BY <1>0, <2>2, <2>3
  <1>25. CASE UNCHANGED vars
    BY <1>0, <1>25, RowsUnchanged DEF vars, dbVars, crawlVars, historyVars
  <1>26. QED
    BY <1>1, <1>2, <1>3, <1>4, <1>5, <1>6, <1>7, <1>8, <1>9, <1>10, <1>11, <1>12, <1>13,
       <1>14, <1>15, <1>16, <1>17, <1>18, <1>19, <1>20, <1>21, <1>22, <1>23, <1>24, <1>25
       DEF Next, Worker, Faults, Web

LEMMA InvariantHolds == Spec => []IInv
  <1>1. QED
    BY InvInit, InvNext, PTL DEF Spec

\* Whatever the shop, the user and the faults do, an offer shown as buyable is
\* one the last successful scan found on sale.
THEOREM OldStockNeverExposed == Spec => []NeverExposesOldStock
  <1>1. IInv => NeverExposesOldStock
    BY DEF IInv, NeverExposesOldStock, Exposed, SettledInv, StoredInv
  <1>2. QED
    BY <1>1, InvariantHolds, PTL

\* No offer is archived on fewer settled misses in a row than the threshold.
THEOREM ArchivalJustified == Spec => []ArchiveJustified
  <1>1. IInv => ArchiveJustified
    BY OfferMonitorAssumption DEF IInv, ArchiveJustified, ArchivalInv
  <1>2. QED
    BY <1>1, InvariantHolds, PTL

\* The freshness columns of a settled row agree with one another.
THEOREM SettledRowsAgree == Spec => []SettledRowsConsistent
  <1>1. IInv => SettledRowsConsistent
    BY DEF IInv, SettledRowsConsistent, SettledInv, ArchivalInv
  <1>2. QED
    BY <1>1, InvariantHolds, PTL
-----------------------------------------------------------------------------
(* What has been read of an offer: the stored state, its candidate and the  *)
(* streak of equal readings move together, and only where a listing is      *)
(* processed.                                                               *)

ReadingKept(o) ==
    /\ offer'[o].known = offer[o].known /\ offer'[o].avail = offer[o].avail
    /\ offer'[o].cand = offer[o].cand /\ offer'[o].candCount = offer[o].candCount
    /\ streak'[o] = streak[o]

Read(o, s, k) ==
    /\ offer'[o] = ProcessedRow(offer[o], s, k)
    /\ streak'[o] = [state |-> s,
                     n |-> IF streak[o].state # s THEN 1
                           ELSE IF streak[o].n < Confirmations THEN streak[o].n + 1 ELSE streak[o].n]

LEMMA ObservedStreak ==
    ASSUME TypeOK, NEW p \in Offers, NEW s \in States, Observe(p, s)
    PROVE  /\ streak'[p] = [state |-> s,
                            n |-> IF streak[p].state # s THEN 1
                                  ELSE IF streak[p].n < Confirmations
                                       THEN streak[p].n + 1 ELSE streak[p].n]
           /\ \A o \in Offers \ {p} : streak'[o] = streak[o]
  BY DEF TypeOK, Observe

LEMMA ReadingSteps ==
    ASSUME TypeOK, [Next]_vars, NEW o \in Offers
    PROVE  \/ ReadingKept(o)
           \/ \E s \in States : Read(o, s, Confirmations)
           \/ (\E s \in States : Read(o, s, 1)) /\ UNCHANGED <<pc, crawlVars>>
  <1>0. offer \in [Offers -> OfferRow] /\ offer[o] \in OfferRow
    BY DEF TypeOK
  <1>1. ASSUME offer' = offer, streak' = streak PROVE ReadingKept(o)
    BY <1>1 DEF ReadingKept
  <1>2. ASSUME NEW lapsed \in SUBSET Offers, offer' = Refreshed(offer, lapsed), streak' = streak
        PROVE  ReadingKept(o)
    <2>1. offer'[o] = offer[o] \/ offer'[o] = [offer[o] EXCEPT !.fresh = "stale", !.purch = FALSE]
      BY <1>2 DEF Refreshed
    <2>2. QED
      BY <1>0, <1>2, <2>1 DEF ReadingKept, OfferRow
  <1>3. ASSUME NEW p \in Offers, NEW s \in States, NEW isTerminal \in BOOLEAN,
               NEW productCreated \in BOOLEAN, NEW priceChanged \in BOOLEAN,
               ProcessListing(p, s, isTerminal, productCreated, priceChanged)
        PROVE  ReadingKept(o) \/ Read(o, s, Confirmations)
    <2>1. offer' = [offer EXCEPT ![p] = ProcessedRow(offer[p], s, Confirmations)] /\ Observe(p, s)
      BY <1>3 DEF ProcessListing
    <2>2. CASE o = p
      BY <1>0, <2>1, <2>2, ObservedStreak DEF Read
    <2>3. CASE o # p
      <3>1. streak'[o] = streak[o] /\ offer'[o] = offer[o]
        BY <1>0, <2>1, <2>3, ObservedStreak
      <3>2. QED
        BY <3>1 DEF ReadingKept
    <2>4. QED
      BY <2>2, <2>3
  <1>4. ASSUME NEW p \in Offers, NEW s \in States, ApproveCandidate(p, s)
        PROVE  /\ ReadingKept(o) \/ Read(o, s, 1)
               /\ UNCHANGED <<pc, crawlVars>>
    <2>1. offer' = [offer EXCEPT ![p] = ProcessedRow(offer[p], s, 1)] /\ Observe(p, s)
      BY <1>4 DEF ApproveCandidate
    <2>2. UNCHANGED <<pc, crawlVars>>
      BY <1>4 DEF ApproveCandidate
    <2>3. ReadingKept(o) \/ Read(o, s, 1)
      <3>1. CASE o = p
        BY <1>0, <2>1, <3>1, ObservedStreak DEF Read
      <3>2. CASE o # p
        <4>1. streak'[o] = streak[o] /\ offer'[o] = offer[o]
          BY <1>0, <2>1, <3>2, ObservedStreak
        <4>2. QED
          BY <4>1 DEF ReadingKept
      <3>3. QED
        BY <3>1, <3>2
    <2>4. QED
      BY <2>2, <2>3, Zenon
  <1>5. ASSUME NEW p \in Offers, FinalizeOffer(p) PROVE ReadingKept(o)
    <2>1. offer' = [offer EXCEPT ![p] = FinalizedRow(offer[p], p \in seen, p \in terminal)]
          /\ streak' = streak
      BY <1>5 DEF FinalizeOffer
    <2>2. offer'[o] = offer[o] \/ offer'[o] = FinalizedRow(offer[o], o \in seen, o \in terminal)
      BY <1>0, <2>1
    <2>3. QED
      BY <1>0, <2>1, <2>2 DEF FinalizedRow, ReadingKept, OfferRow
  <1>6. CASE ArchiveOffer
    <2>1. (offer'[o] = offer[o] \/ offer'[o] = Archived(offer[o])) /\ streak' = streak
      BY <1>6 DEF ArchiveOffer
    <2>2. QED
      BY <1>0, <2>1 DEF Archived, ReadingKept, OfferRow
  <1>7. CASE CountMiss
    <2> DEFINE missed == [offer[o] EXCEPT !.misses = Bump(@)]
    <2>1. (offer'[o] = offer[o] \/ offer'[o] = missed) /\ streak' = streak
      BY <1>7 DEF CountMiss
    <2>2. /\ missed.known = offer[o].known /\ missed.avail = offer[o].avail
          /\ missed.cand = offer[o].cand /\ missed.candCount = offer[o].candCount
      BY <1>0 DEF OfferRow
    <2>3. QED
      BY <2>1, <2>2 DEF ReadingKept
  <1>8. CASE BeginCrawl \/ BeginThrows \/ RefreshOfferFreshness
    BY <1>2, <1>8 DEF BeginCrawl, BeginThrows, OpenRun, BreakOff, RefreshOfferFreshness, historyVars
  <1>9. CASE \/ FetchReturns \/ FetchFails \/ ExcludeListing \/ EndBatch \/ EndFinalize
             \/ CompleteMonitorRequests \/ FailRun \/ (\E t \in EventType : EmitEvent(t))
    BY <1>1, <1>9 DEF FetchReturns, FetchFails, ExcludeListing, EndBatch, EndFinalize, FailRun,
                      CompleteMonitorRequests, EmitEvent, dbVars, historyVars
  <1>10. CASE ListingThrows \/ FinalizeThrows \/ CatchThrows \/ Crash \/ Restart \/ BecomeDue
    BY <1>1, <1>10 DEF ListingThrows, FinalizeThrows, CatchThrows, Crash, BreakOff, Restart,
                       BecomeDue, FallDue, dbVars, historyVars
  <1>11. CASE \/ \E r \in Requests : RequestImmediateMonitor(r)
              \/ \E on \in BOOLEAN : SetSourceEnabled(on) \/ SetNetworkEnabled(on)
    BY <1>1, <1>11 DEF RequestImmediateMonitor, SetSourceEnabled, SetNetworkEnabled, FallDue, historyVars
  <1>12. CASE UNCHANGED vars
    BY <1>1, <1>12 DEF vars, dbVars, historyVars
  <1>13. QED
    BY <1>3, <1>4, <1>5, <1>6, <1>7, <1>8, <1>9, <1>10, <1>11, <1>12
    DEF Next, Worker, Faults, Web

\* A known offer has a state; its candidate is what was read last, at least as often in a
\* row as it is counted.
ReadingInv(o) ==
    /\ offer[o].known => offer[o].avail \in States
    /\ offer[o].cand # NoState =>
          streak[o].state = offer[o].cand /\ streak[o].n >= offer[o].candCount

LEMMA ReadInv ==
    ASSUME TypeOK, NEW o \in Offers, ReadingInv(o), NEW s \in States, NEW k \in {1, Confirmations},
           Read(o, s, k)
    PROVE  /\ ReadingInv(o)'
           /\ k = Confirmations /\ offer[o].known /\ offer'[o].avail # offer[o].avail =>
                 streak'[o] = [state |-> offer'[o].avail, n |-> Confirmations]
  <1> DEFINE n == IF offer[o].cand = s THEN offer[o].candCount + 1 ELSE 1
             more == IF streak[o].state # s THEN 1
                     ELSE IF streak[o].n < Confirmations THEN streak[o].n + 1 ELSE streak[o].n
  <1>1. /\ offer[o] \in OfferRow /\ offer[o].candCount \in 0..Confirmations
        /\ streak[o].n \in 0..Confirmations /\ Confirmations \in Nat \ {0} /\ k \in Nat /\ k >= 1
        /\ s # NoState /\ k <= Confirmations
    BY OfferMonitorAssumption DEF TypeOK, OfferRow, AvailabilityStates, NoState
  <1>2. streak'[o].state = s /\ streak'[o].n = more /\ streak'[o] = [state |-> s, n |-> more]
    BY DEF Read
  <1>3. \/ /\ offer'[o].known = TRUE /\ offer'[o].avail = s
           /\ offer'[o].cand = NoState /\ offer'[o].candCount = 0
           /\ ~offer[o].known \/ offer[o].avail = s \/ n >= k
        \/ /\ offer'[o].known = TRUE /\ offer'[o].avail = offer[o].avail /\ offer[o].known
           /\ offer'[o].cand = s /\ offer'[o].candCount = n /\ ~(n >= k)
    BY <1>1 DEF Read, ProcessedRow, StableAvailability, OfferRow
  <1>4. offer[o].cand = s => streak[o].state = s /\ streak[o].n >= offer[o].candCount
    BY <1>1 DEF ReadingInv
  <1>5. n <= Confirmations => more >= n
    BY <1>1, <1>4
  <1>6. n >= Confirmations => more = Confirmations
    BY <1>1, <1>4
  <1>7. ReadingInv(o)'
    BY <1>1, <1>2, <1>3, <1>5 DEF ReadingInv
  <1>8. QED
    BY <1>1, <1>2, <1>3, <1>6, <1>7

LEMMA ReadingInit == Init => \A o \in Offers : ReadingInv(o)
  BY DEF Init, NoRow, ReadingInv

LEMMA ReadingNext ==
    TypeOK /\ (\A o \in Offers : ReadingInv(o)) /\ [Next]_vars => (\A o \in Offers : ReadingInv(o))'
  <1> SUFFICES ASSUME TypeOK, \A o \in Offers : ReadingInv(o), [Next]_vars, NEW o \in Offers
               PROVE  ReadingInv(o)'
    OBVIOUS
  <1>1. CASE ReadingKept(o)
    BY <1>1 DEF ReadingKept, ReadingInv
  <1>2. CASE \E s \in States : Read(o, s, Confirmations) \/ Read(o, s, 1)
    BY <1>2, ReadInv
  <1>3. QED
    BY <1>1, <1>2, ReadingSteps

\* The stored state changes only to what was read Confirmations times in a row, for every
\* number of confirmations and whatever is killed, finalized or archived in between.
THEOREM TransitionsAreStable == Spec => StableTransition
  <1>1. /\ TypeOK /\ (\A o \in Offers : ReadingInv(o)) /\ [Next]_vars
        => [\A o \in Offers :
              offer[o].known /\ offer'[o].avail # offer[o].avail =>
                 \/ UNCHANGED <<pc, crawlVars>>
                 \/ streak'[o] = [state |-> offer'[o].avail, n |-> Confirmations]]_vars
    <2> SUFFICES ASSUME TypeOK, \A o \in Offers : ReadingInv(o), [Next]_vars, NEW o \in Offers,
                        offer[o].known, offer'[o].avail # offer[o].avail
                 PROVE  \/ UNCHANGED <<pc, crawlVars>>
                        \/ streak'[o] = [state |-> offer'[o].avail, n |-> Confirmations]
      OBVIOUS
    <2>1. CASE ReadingKept(o)
      BY <2>1 DEF ReadingKept
    <2>2. ASSUME NEW s \in States, Read(o, s, Confirmations)
          PROVE  streak'[o] = [state |-> offer'[o].avail, n |-> Confirmations]
      BY <2>2, ReadInv
    <2>3. QED
      BY <2>1, <2>2, ReadingSteps
  <1>2. QED
    BY <1>1, TypeInit, TypeNext, ReadingInit, ReadingNext, PTL DEF Spec, StableTransition

-----------------------------------------------------------------------------
(* Announcements and manual checks *)

\* A change not handed on yet belongs to the listing at hand, and the state
\* events still to be created about it all tell of it.
HandOnInv ==
    /\ pc # "announcing" => unhanded = {}
    /\ \A o \in Offers, s \in States : <<o, s>> \in unhanded =>
          /\ o \in cur
          /\ announce \cap StateEvent # {}
          /\ \A t \in announce \cap StateEvent : Tells(t, s)

LEMMA NoteworthyIsTold ==
    ASSUME NEW from \in States, NEW to \in States, Noteworthy(from, to)
    PROVE  \E t \in StateEvent : TransitionEvent(from, to) = {t} /\ Tells(t, to)
  <1>1. from \in AvailabilityStates /\ to \in AvailabilityStates
    BY OfferMonitorAssumption
  <1>2. QED
    BY <1>1 DEF Noteworthy, TransitionEvent, AvailabilityStates, Tells, StateEvent

LEMMA HandOnNext ==
    TypeOK /\ (\A o \in Offers : ReadingInv(o)) /\ HandOnInv /\ [Next]_vars => HandOnInv'
  <1> SUFFICES ASSUME TypeOK, \A o \in Offers : ReadingInv(o), HandOnInv, [Next]_vars
               PROVE  HandOnInv'
    OBVIOUS
  <1>1. ASSUME unhanded' = unhanded, pc # "announcing", pc' # "announcing"
        PROVE  HandOnInv'
    BY <1>1 DEF HandOnInv
  <1>2. ASSUME UNCHANGED <<unhanded, pc, cur, announce>>
        PROVE  HandOnInv'
    BY <1>2 DEF HandOnInv
  <1>3. ASSUME unhanded' = {}
        PROVE  HandOnInv'
    BY <1>3 DEF HandOnInv
  <1>4. ASSUME NEW o \in Offers, NEW s \in States, NEW isTerminal \in BOOLEAN,
               NEW productCreated \in BOOLEAN, NEW priceChanged \in BOOLEAN,
               ProcessListing(o, s, isTerminal, productCreated, priceChanged)
        PROVE  HandOnInv'
    <2> DEFINE new    == ProcessedRow(offer[o], s, Confirmations)
               events == ComputeOfferEvents(offer[o], new.avail, productCreated, priceChanged)
    <2>1. /\ pc = "processing" /\ announce' = events
          /\ pc' = IF events = {} THEN "processing" ELSE "announcing"
          /\ cur' = IF events = {} THEN {} ELSE {o}
          /\ unhanded' = IF offer[o].known /\ Noteworthy(offer[o].avail, new.avail)
                         THEN unhanded \cup {<<o, new.avail>>} ELSE unhanded
      BY <1>4 DEF ProcessListing
    <2>2. unhanded = {}
      BY <2>1 DEF HandOnInv
    <2>3. CASE ~(offer[o].known /\ Noteworthy(offer[o].avail, new.avail))
      BY <1>3, <2>1, <2>2, <2>3
    <2>4. CASE offer[o].known /\ Noteworthy(offer[o].avail, new.avail)
      <3>1. offer[o].avail \in States
        BY <2>4 DEF ReadingInv
      <3>2. new.avail \in States
        <4>1. offer[o] \in OfferRow
          BY DEF TypeOK
        <4>2. QED
          BY <3>1, <4>1 DEF ProcessedRow, StableAvailability, OfferRow
      <3>3. PICK t \in StateEvent : TransitionEvent(offer[o].avail, new.avail) = {t} /\ Tells(t, new.avail)
        BY <2>4, <3>1, <3>2, NoteworthyIsTold
      <3>4. events = {t} \cup (IF priceChanged /\ new.avail \in {"in_stock", "preorder"}
                               THEN {"price_change"} ELSE {})
        BY <2>4, <3>3 DEF ComputeOfferEvents
      <3>5. events # {} /\ events \cap StateEvent = {t}
        BY <3>3, <3>4 DEF StateEvent
      <3>6. unhanded' = {<<o, new.avail>>} /\ cur' = {o} /\ pc' = "announcing" /\ announce' = events
        BY <2>1, <2>2, <2>4, <3>5
      <3>7. QED
        BY <3>3, <3>5, <3>6 DEF HandOnInv
    <2>5. QED
      BY <2>3, <2>4
  <1>5. ASSUME NEW t \in EventType, EmitEvent(t) PROVE HandOnInv'
    <2>1. /\ pc = "announcing" /\ t \in announce /\ announce' = announce \ {t}
          /\ announce' # {} => pc' = pc /\ cur' = cur
          /\ unhanded' = IF t \in StateEvent THEN unhanded \ (cur \X States) ELSE unhanded
      BY <1>5 DEF EmitEvent
    <2>2. CASE t \in StateEvent
      <3>1. unhanded' = {}
        BY <2>1, <2>2 DEF HandOnInv, TypeOK
      <3>2. QED
        BY <1>3, <3>1
    <2>3. CASE t \notin StateEvent
      <3>1. unhanded' = unhanded /\ announce' \cap StateEvent = announce \cap StateEvent
        BY <2>1, <2>3
      <3>2. CASE unhanded = {}
        BY <1>3, <3>1, <3>2
      <3>3. CASE unhanded # {}
        <4>1. PICK o \in Offers, s \in States : <<o, s>> \in unhanded
          BY <3>3 DEF TypeOK
        <4>2. announce \cap StateEvent # {}
          BY <4>1 DEF HandOnInv
        <4>3. announce' # {} /\ pc' = "announcing" /\ cur' = cur
          BY <2>1, <3>1, <4>2
        <4>4. QED
          BY <3>1, <4>3 DEF HandOnInv
      <3>4. QED
        BY <3>2, <3>3
    <2>4. QED
      BY <2>2, <2>3
  <1>6. CASE \/ BeginCrawl \/ FetchReturns \/ FetchFails \/ ExcludeListing \/ EndBatch
             \/ (\E o \in Offers : FinalizeOffer(o)) \/ ArchiveOffer \/ EndFinalize
             \/ CompleteMonitorRequests \/ FailRun \/ CountMiss
    BY <1>1, <1>6 DEF BeginCrawl, OpenRun, FetchReturns, FetchFails, ExcludeListing, EndBatch,
                      FinalizeOffer, ArchiveOffer, EndFinalize, CompleteMonitorRequests, FailRun,
                      CountMiss, historyVars
  <1>7. CASE BeginThrows \/ ListingThrows \/ CatchThrows \/ Crash
    BY <1>3, <1>7 DEF BeginThrows, ListingThrows, CatchThrows, Crash, BreakOff
  <1>8. CASE FinalizeThrows \/ Restart
    BY <1>1, <1>8 DEF FinalizeThrows, Restart, historyVars
  <1>9. CASE BecomeDue \/ Web
    BY <1>2, <1>9 DEF BecomeDue, FallDue, Web, RefreshOfferFreshness, RequestImmediateMonitor,
                      SetSourceEnabled, SetNetworkEnabled, ApproveCandidate, crawlVars, historyVars
  <1>10. CASE UNCHANGED vars
    BY <1>2, <1>10 DEF vars, crawlVars, historyVars
  <1>11. QED
    BY <1>4, <1>5, <1>6, <1>7, <1>8, <1>9, <1>10 DEF Next, Worker, Faults

\* A change leaves the history only with an event that tells of it, or with a fault.
LEMMA HandedOn ==
    ASSUME TypeOK, HandOnInv, [Next]_vars, NEW o \in Offers, NEW s \in States,
           <<o, s>> \in unhanded \ unhanded'
    PROVE  faults' # faults \/ \E t \in announce \ announce' : Tells(t, s)
  <1>0. faults \in Nat
    BY OfferMonitorAssumption DEF TypeOK
  <1>1. ASSUME NEW t \in EventType, EmitEvent(t)
        PROVE  \E u \in announce \ announce' : Tells(u, s)
    <2>1. t \in StateEvent /\ t \in announce /\ announce' = announce \ {t}
      BY <1>1 DEF EmitEvent
    <2>2. Tells(t, s)
      BY <2>1 DEF HandOnInv
    <2>3. QED
      BY <2>1, <2>2
  <1>2. CASE BeginThrows \/ ListingThrows \/ CatchThrows \/ Crash \/ FinalizeThrows
    BY <1>0, <1>2 DEF BeginThrows, ListingThrows, CatchThrows, Crash, FinalizeThrows, BreakOff
  <1>3. ASSUME NEW p \in Offers, NEW v \in States, NEW isTerminal \in BOOLEAN,
               NEW productCreated \in BOOLEAN, NEW priceChanged \in BOOLEAN,
               ProcessListing(p, v, isTerminal, productCreated, priceChanged)
        PROVE  FALSE
    BY <1>3 DEF ProcessListing
  <1>4. ASSUME unhanded' = unhanded PROVE FALSE
    BY <1>4
  <1>5. CASE \/ BeginCrawl \/ FetchReturns \/ FetchFails \/ ExcludeListing \/ EndBatch
             \/ (\E p \in Offers : FinalizeOffer(p)) \/ ArchiveOffer \/ EndFinalize
             \/ CompleteMonitorRequests \/ FailRun \/ CountMiss \/ Restart
    BY <1>4, <1>5 DEF BeginCrawl, FetchReturns, FetchFails, ExcludeListing, EndBatch,
                      FinalizeOffer, ArchiveOffer, EndFinalize, CompleteMonitorRequests, FailRun,
                      CountMiss, Restart, historyVars
  <1>6. CASE BecomeDue \/ Web
    BY <1>4, <1>6 DEF BecomeDue, FallDue, Web, RefreshOfferFreshness, RequestImmediateMonitor,
                      SetSourceEnabled, SetNetworkEnabled, ApproveCandidate, historyVars
  <1>7. CASE UNCHANGED vars
    BY <1>4, <1>7 DEF vars, historyVars
  <1>8. QED
    BY <1>1, <1>2, <1>3, <1>5, <1>6, <1>7 DEF Next, Worker, Faults

\* Every noteworthy change a crawl accepts reaches createEvent, as an event that tells of the
\* new state, before the next listing; a kill or a failed write in between is the only way out.
THEOREM TransitionsAreHandedOn == Spec => TransitionHandedOn
  <1>1. Init => HandOnInv
    BY DEF Init, HandOnInv
  <1>2. /\ TypeOK /\ HandOnInv /\ HandOnInv' /\ [Next]_vars
        => [\A o \in Offers, s \in States :
              /\ <<o, s>> \in unhanded' => pc' = "announcing" /\ o \in cur'
              /\ <<o, s>> \in unhanded \ unhanded' =>
                    \/ faults' # faults
                    \/ \E t \in announce \ announce' : Tells(t, s)]_vars
    <2> SUFFICES ASSUME TypeOK, HandOnInv, HandOnInv', [Next]_vars, NEW o \in Offers, NEW s \in States
                 PROVE  /\ <<o, s>> \in unhanded' => pc' = "announcing" /\ o \in cur'
                        /\ <<o, s>> \in unhanded \ unhanded' =>
                              \/ faults' # faults
                              \/ \E t \in announce \ announce' : Tells(t, s)
      OBVIOUS
    <2>1. <<o, s>> \in unhanded' => pc' = "announcing" /\ o \in cur'
      BY DEF HandOnInv
    <2>2. QED
      BY <2>1, HandedOn
  <1>3. QED
    BY <1>1, <1>2, TypeInit, TypeNext, ReadingInit, ReadingNext, HandOnNext, PTL
    DEF Spec, TransitionHandedOn

LEMMA RequestNext == TypeOK /\ NoStrandedRequest /\ [Next]_vars => NoStrandedRequest'
  <1> DEFINE Ending == {"failing", "counting", "finalizing", "archiving", "settling"}
  <1> SUFFICES ASSUME TypeOK, NoStrandedRequest, [Next]_vars, NEW r \in Requests, Open(r)'
               PROVE  due' \/ pc' \in Ending \/ r \in cutOff'
    BY DEF NoStrandedRequest
  \* Steps that open no request and leave the schedule and the finalization alone.
  <1>1. ASSUME Open(r), due' = due, cutOff' = cutOff, pc' = pc \/ pc \notin Ending \/ pc' \in Ending
        PROVE  due' \/ pc' \in Ending \/ r \in cutOff'
    BY <1>1 DEF NoStrandedRequest
  <1>2. CASE BeginCrawl
    BY <1>1, <1>2 DEF BeginCrawl, OpenRun, historyVars, Open
  <1>3. CASE \/ FetchReturns \/ FetchFails \/ ExcludeListing \/ EndBatch \/ FailRun \/ CountMiss
             \/ (\E t \in EventType : EmitEvent(t))
             \/ (\E o \in Offers : FinalizeOffer(o)) \/ ArchiveOffer
    BY <1>1, <1>3 DEF FetchReturns, FetchFails, ExcludeListing, EndBatch, EmitEvent, FinalizeOffer,
                      ArchiveOffer, FailRun, CountMiss, dbVars, historyVars, Open
  <1>4. ASSUME NEW o \in Offers, NEW s \in States, NEW isTerminal \in BOOLEAN,
               NEW productCreated \in BOOLEAN, NEW priceChanged \in BOOLEAN,
               ProcessListing(o, s, isTerminal, productCreated, priceChanged)
        PROVE  due' \/ pc' \in Ending \/ r \in cutOff'
    BY <1>1, <1>4 DEF ProcessListing, Open
  <1>5. CASE EndFinalize
    BY <1>5 DEF EndFinalize
  <1>6. CASE CompleteMonitorRequests
    BY <1>6 DEF CompleteMonitorRequests, Open
  <1>7. CASE BeginThrows \/ CatchThrows \/ Crash
    <2>1. UNCHANGED <<request, due>> /\ BreakOff
      BY <1>7 DEF BeginThrows, CatchThrows, Crash, dbVars
    <2>2. QED
      BY <2>1 DEF BreakOff, Open
  <1>8. CASE ListingThrows \/ FinalizeThrows
    BY <1>1, <1>8 DEF ListingThrows, FinalizeThrows, dbVars, historyVars, Open
  <1>9. CASE Restart
    BY <1>1, <1>9 DEF Restart, historyVars, Open
  <1>10. CASE BecomeDue \/ (\E q \in Requests : RequestImmediateMonitor(q))
    BY <1>10 DEF BecomeDue, FallDue, RequestImmediateMonitor
  <1>11. ASSUME NEW on \in BOOLEAN, SetSourceEnabled(on)
         PROVE  due' \/ pc' \in Ending \/ r \in cutOff'
    BY <1>1, <1>11 DEF SetSourceEnabled, FallDue, historyVars, Open
  <1>12. CASE \/ RefreshOfferFreshness \/ (\E on \in BOOLEAN : SetNetworkEnabled(on))
              \/ (\E o \in Offers, s \in States : ApproveCandidate(o, s))
    BY <1>1, <1>12 DEF RefreshOfferFreshness, SetNetworkEnabled, ApproveCandidate, historyVars, Open
  <1>13. CASE UNCHANGED vars
    BY <1>1, <1>13 DEF vars, dbVars, historyVars, Open
  <1>14. QED
    BY <1>2, <1>3, <1>4, <1>5, <1>6, <1>7, <1>8, <1>9, <1>10, <1>11, <1>12, <1>13
    DEF Next, Worker, Faults, Web

\* The scheduler comes back to every source with an open manual check, unless a break-off
\* cut that very request off.
THEOREM RequestsAreNotStranded == Spec => []NoStrandedRequest
  <1>1. Init => NoStrandedRequest
    BY DEF Init, NoStrandedRequest
  <1>2. QED
    BY <1>1, TypeInit, TypeNext, RequestNext, PTL DEF Spec

-----------------------------------------------------------------------------
(* The monitor implements RecoverableRuns. *)

\* The row of a crawl says running until the finalization starts; after a break-off it may
\* still say so with no crawl at work.
CrawlInv ==
    /\ pc \in {"fetching", "processing", "announcing"} => run = "running"
    /\ run = "running" => pc \notin {"counting", "finalizing", "archiving", "settling"}

LEMMA CrawlNext == CrawlInv /\ [Next]_vars => CrawlInv'
  <1> SUFFICES ASSUME CrawlInv, [Next]_vars PROVE CrawlInv'
    OBVIOUS
  <1> USE DEF CrawlInv
  <1>1. CASE UNCHANGED <<run, pc>>
    BY <1>1
  <1>2. CASE BeginCrawl \/ FetchReturns \/ FetchFails \/ ExcludeListing \/ EndBatch
    BY <1>2 DEF BeginCrawl, OpenRun, FetchReturns, FetchFails, ExcludeListing, EndBatch, dbVars
  <1>3. ASSUME NEW o \in Offers, NEW s \in States, NEW isTerminal \in BOOLEAN,
               NEW productCreated \in BOOLEAN, NEW priceChanged \in BOOLEAN,
               ProcessListing(o, s, isTerminal, productCreated, priceChanged)
        PROVE  CrawlInv'
    <2>1. pc = "processing" /\ run' = run /\ pc' \in {"processing", "announcing"}
      BY <1>3 DEF ProcessListing
    <2>2. QED
      BY <2>1
  <1>4. ASSUME NEW t \in EventType, EmitEvent(t) PROVE CrawlInv'
    <2>1. pc = "announcing" /\ run' = run /\ pc' \in {"processing", "announcing"}
      BY <1>4 DEF EmitEvent, dbVars
    <2>2. QED
      BY <2>1
  <1>5. ASSUME NEW o \in Offers, FinalizeOffer(o) PROVE CrawlInv'
    BY <1>5 DEF FinalizeOffer
  <1>6. CASE ArchiveOffer \/ EndFinalize \/ CompleteMonitorRequests \/ FailRun \/ CountMiss
    BY <1>6 DEF ArchiveOffer, EndFinalize, CompleteMonitorRequests, FailRun, CountMiss
  <1>7. CASE Faults
    BY <1>7 DEF Faults, BeginThrows, OpenRun, ListingThrows, FinalizeThrows, CatchThrows, Crash,
                Restart, dbVars
  <1>8. CASE BecomeDue \/ Web
    BY <1>1, <1>8 DEF BecomeDue, Web, RefreshOfferFreshness, RequestImmediateMonitor,
                      SetSourceEnabled, SetNetworkEnabled, ApproveCandidate
  <1>9. CASE UNCHANGED vars
    BY <1>1, <1>9 DEF vars, dbVars
  <1>10. QED
    BY <1>2, <1>3, <1>4, <1>5, <1>6, <1>7, <1>8, <1>9 DEF Next, Worker

LEMMA RunStepRefines ==
    ASSUME TypeOK, CrawlInv, [Next]_vars
    PROVE  [Runs!Next]_(Runs!vars)
  <1>0. CrawlInv' /\ stray \in Nat /\ faults \in Nat
    BY CrawlNext, OfferMonitorAssumption DEF TypeOK
  <1>00. LiveRuns = {"source"} \/ LiveRuns = {}
    BY DEF LiveRuns
  \* The steps by what they do to the rows, to the crawl and to the service.
  <1>1. ASSUME UNCHANGED <<LiveRuns, RunningRows, faults>>, pc' = "down" <=> pc = "down"
        PROVE  UNCHANGED Runs!vars
    BY <1>1 DEF Runs!vars
  <1>2. ASSUME pc # "down", pc' # "down", faults' = faults + 1, RunningRows' = RunningRows,
               LiveRuns' = LiveRuns \/ LiveRuns' = {}
        PROVE  Runs!Next
    <2>1. LiveRuns' \in {LiveRuns, LiveRuns \ {"source"}}
      BY <1>2, <1>00
    <2>2. Runs!WriteFails("source")
      BY <1>2, <2>1 DEF Runs!WriteFails
    <2>3. QED
      BY <2>2 DEF Runs!Next
  <1>3. ASSUME pc # "down", pc' # "down", faults' = faults, LiveRuns = {"source"}, LiveRuns' = {},
               stray' = stray, run = "running", run' # "running"
        PROVE  Runs!Next
    <2>1. RunningRows' = [RunningRows EXCEPT !["source"] = @ - 1]
      <3>1. RunningRows["source"] = stray + 1 /\ RunningRows'["source"] = stray
        BY <1>3 DEF RunningRows
      <3>2. RunningRows = [p \in {"source"} |-> stray + 1] /\ RunningRows' = [p \in {"source"} |-> stray]
        BY <1>3 DEF RunningRows
      <3>3. stray = (stray + 1) - 1
        BY <1>0
      <3>4. QED
        BY <3>1, <3>2, <3>3
    <2>2. Runs!End("source")
      BY <1>3, <2>1 DEF Runs!End
    <2>3. QED
      BY <2>2 DEF Runs!Next
  <1>4. ASSUME OpenRun
        PROVE  /\ pc = "idle" /\ LiveRuns = {}
               /\ RunningRows' = [RunningRows EXCEPT !["source"] = @ + 1]
    <2>1. /\ pc = "idle" /\ run' = "running"
          /\ stray' = IF run = "running" THEN stray + 1 ELSE stray
      BY <1>4 DEF OpenRun
    <2>2. RunningRows = [p \in {"source"} |-> stray'] /\ RunningRows' = [p \in {"source"} |-> stray' + 1]
      BY <2>1 DEF RunningRows
    <2>3. QED
      BY <2>1, <2>2 DEF LiveRuns
  <1>5. CASE BeginCrawl
    <2>1. pc' = "fetching" /\ faults' = faults /\ OpenRun
      BY <1>5 DEF BeginCrawl
    <2>2. LiveRuns' = {"source"}
      BY <2>1 DEF LiveRuns
    <2>3. Runs!Begin("source")
      BY <1>4, <2>1, <2>2 DEF Runs!Begin
    <2>4. QED
      BY <2>3 DEF Runs!Next
  <1>6. CASE BeginThrows
    <2>1. pc' = pc /\ faults' = faults + 1 /\ OpenRun
      BY <1>6 DEF BeginThrows, BreakOff
    <2>2. LiveRuns' = {}
      BY <1>4, <2>1 DEF LiveRuns
    <2>3. Runs!WriteFails("source")
      BY <1>4, <2>1, <2>2 DEF Runs!WriteFails
    <2>4. QED
      BY <2>3 DEF Runs!Next
  <1>7. CASE EndBatch
    <2>1. pc = "processing" /\ run = "running" /\ LiveRuns = {"source"}
      BY <1>7 DEF EndBatch, CrawlInv, LiveRuns
    <2>2. CASE valid
      <3>1. pc' = "finalizing" /\ run' = "success" /\ UNCHANGED <<stray, faults>>
        BY <1>7, <2>2 DEF EndBatch
      <3>2. LiveRuns' = {}
        BY <3>1 DEF LiveRuns
      <3>3. QED
        BY <1>3, <2>1, <3>1, <3>2
    <2>3. CASE ~valid
      <3>1. pc' = "failing" /\ UNCHANGED <<run, stray, faults>>
        BY <1>7, <2>3 DEF EndBatch
      <3>2. UNCHANGED <<LiveRuns, RunningRows>>
        BY <2>1, <3>1 DEF LiveRuns, RunningRows
      <3>3. QED
        BY <1>1, <2>1, <3>1, <3>2
    <2>4. QED
      BY <2>2, <2>3
  <1>8. CASE FailRun
    <2>1. pc = "failing" /\ pc' = "counting" /\ run' = "failed" /\ UNCHANGED <<stray, faults>>
      BY <1>8 DEF FailRun
    <2>2. LiveRuns' = {}
      BY <2>1 DEF LiveRuns
    <2>3. CASE run = "running"
      <3>1. LiveRuns = {"source"}
        BY <2>1, <2>3 DEF LiveRuns
      <3>2. QED
        BY <1>3, <2>1, <2>2, <2>3, <3>1
    <2>4. CASE run # "running"
      <3>1. UNCHANGED <<LiveRuns, RunningRows>>
        BY <2>1, <2>2, <2>4 DEF LiveRuns, RunningRows
      <3>2. QED
        BY <1>1, <2>1, <3>1
    <2>5. QED
      BY <2>3, <2>4
  \* The crawl stays at work, or stays settled.
  <1>9. ASSUME UNCHANGED <<run, stray>>, run = "running",
               pc \in {"fetching", "processing", "announcing"},
               pc' \in {"fetching", "processing", "announcing", "failing"}
        PROVE  UNCHANGED <<LiveRuns, RunningRows>>
    BY <1>9 DEF LiveRuns, RunningRows
  <1>10. ASSUME UNCHANGED <<run, stray>>, run # "running",
                pc \in {"finalizing", "archiving", "settling", "counting"},
                pc' \in {"finalizing", "archiving", "settling", "counting", "failing", "idle"}
         PROVE  UNCHANGED <<LiveRuns, RunningRows>>
    BY <1>10 DEF LiveRuns, RunningRows
  <1>11. CASE \/ FetchReturns \/ FetchFails \/ ExcludeListing
    <2>1. /\ UNCHANGED <<run, stray, faults>> /\ pc \in {"fetching", "processing"}
          /\ pc' \in {"processing", "failing"}
      BY <1>11 DEF FetchReturns, FetchFails, ExcludeListing, dbVars
    <2>2. QED
      BY <1>1, <1>9, <2>1 DEF CrawlInv
  <1>12. ASSUME NEW o \in Offers, NEW s \in States, NEW isTerminal \in BOOLEAN,
                NEW productCreated \in BOOLEAN, NEW priceChanged \in BOOLEAN,
                ProcessListing(o, s, isTerminal, productCreated, priceChanged)
         PROVE  UNCHANGED Runs!vars
    <2>1. /\ UNCHANGED <<run, stray, faults>> /\ pc = "processing"
          /\ pc' \in {"processing", "announcing"}
      BY <1>12 DEF ProcessListing
    <2>2. QED
      BY <1>1, <1>9, <2>1 DEF CrawlInv
  <1>13. ASSUME NEW t \in EventType, EmitEvent(t) PROVE UNCHANGED Runs!vars
    <2>1. /\ UNCHANGED <<run, stray, faults>> /\ pc = "announcing"
          /\ pc' \in {"processing", "announcing"}
      BY <1>13 DEF EmitEvent, dbVars
    <2>2. QED
      BY <1>1, <1>9, <2>1 DEF CrawlInv
  <1>14. CASE \/ CountMiss \/ (\E o \in Offers : FinalizeOffer(o)) \/ ArchiveOffer
              \/ EndFinalize \/ CompleteMonitorRequests
    <2>1. /\ UNCHANGED <<run, stray, faults>>
          /\ pc \in {"finalizing", "archiving", "settling", "counting"}
          /\ pc' \in {"finalizing", "archiving", "settling", "idle"}
      BY <1>14 DEF CountMiss, FinalizeOffer, ArchiveOffer, EndFinalize, CompleteMonitorRequests
    <2>2. QED
      BY <1>1, <1>10, <2>1 DEF CrawlInv
  <1>15. CASE ListingThrows
    <2>1. /\ UNCHANGED <<run, stray>> /\ faults' = faults + 1
          /\ pc = "announcing" /\ pc' = "processing"
      BY <1>15 DEF ListingThrows, dbVars
    <2>2. QED
      BY <1>2, <1>9, <2>1 DEF CrawlInv
  <1>16. CASE FinalizeThrows
    <2>1. /\ UNCHANGED <<run, stray>> /\ faults' = faults + 1 /\ pc' = "failing"
          /\ pc \in {"processing", "finalizing", "archiving", "settling"}
      BY <1>16 DEF FinalizeThrows, dbVars
    <2>2. UNCHANGED <<LiveRuns, RunningRows>>
      BY <1>9, <1>10, <2>1 DEF CrawlInv
    <2>3. QED
      BY <1>2, <2>1, <2>2
  <1>17. CASE CatchThrows
    <2>1. /\ UNCHANGED <<run, stray>> /\ faults' = faults + 1 /\ pc # "down" /\ pc' = "idle"
      BY <1>17 DEF CatchThrows, BreakOff, dbVars
    <2>2. RunningRows' = RunningRows /\ LiveRuns' = {}
      BY <2>1 DEF LiveRuns, RunningRows
    <2>3. QED
      BY <1>2, <2>1, <2>2
  <1>18. CASE Crash
    <2>1. pc # "down" /\ pc' = "down" /\ UNCHANGED <<run, stray>> /\ faults' = faults + 1
      BY <1>18 DEF Crash, BreakOff, dbVars
    <2>2. RunningRows' = RunningRows /\ LiveRuns' = {}
      BY <2>1 DEF LiveRuns, RunningRows
    <2>3. Runs!Die
      BY <2>1, <2>2 DEF Runs!Die
    <2>4. QED
      BY <2>3 DEF Runs!Next
  <1>19. CASE Restart
    <2>1. pc = "down" /\ pc' = "idle" /\ run' # "running" /\ stray' = 0 /\ faults' = faults
      BY <1>19 DEF Restart
    <2>2. RunningRows' = [p \in {"source"} |-> 0] /\ LiveRuns' = {} /\ LiveRuns = {}
      BY <2>1 DEF LiveRuns, RunningRows
    <2>3. Runs!Recover
      BY <2>1, <2>2 DEF Runs!Recover
    <2>4. QED
      BY <2>3 DEF Runs!Next
  <1>20. ASSUME UNCHANGED <<run, stray, faults, pc>> PROVE UNCHANGED Runs!vars
    BY <1>1, <1>20 DEF LiveRuns, RunningRows
  <1>21. CASE BecomeDue \/ Web
    BY <1>20, <1>21 DEF BecomeDue, Web, RefreshOfferFreshness, RequestImmediateMonitor,
       SetSourceEnabled, SetNetworkEnabled, ApproveCandidate
  <1>22. CASE UNCHANGED vars
    BY <1>20, <1>22 DEF vars, dbVars
  <1>23. QED
    BY <1>5, <1>6, <1>7, <1>8, <1>11, <1>12, <1>13, <1>14, <1>15, <1>16, <1>17, <1>18, <1>19,
       <1>21, <1>22 DEF Next, Worker, Faults

\* The crawl rows of a source go through the life cycle of RecoverableRuns: a row says running
\* without a crawl only after a kill or a throw no handler settles, and until the next start.
THEOREM CrawlRunsAreRecovered == Spec => RunsAreRecovered
  <1>1. Init => CrawlInv
    BY DEF Init, CrawlInv
  <1>2. Init => Runs!Init
    BY DEF Init, Runs!Init, LiveRuns, RunningRows
  <1>3. TypeOK /\ CrawlInv /\ [Next]_vars => [Runs!Next]_(Runs!vars)
    BY RunStepRefines
  <1>4. QED
    BY <1>1, <1>2, <1>3, TypeInit, TypeNext, CrawlNext, PTL DEF Spec, RunsAreRecovered, Runs!Spec
=============================================================================

--------------------------- MODULE NotificationQueue ---------------------------
(***************************************************************************)
(* The event queue of src/notify/queue.js: flushNotifications groups the    *)
(* pending events by product and sends one summary per product to every     *)
(* channel in turn, awaiting each send.  While a send is awaited the web    *)
(* UI creates events, merges and splits products, changes the credentials   *)
(* and pauses the network, and the process may be killed.                   *)
(*                                                                          *)
(* A dedup key is the product id and the sorted event ids of the summary,   *)
(* modelled as the record of both.                                          *)
(***************************************************************************)
EXTENDS Naturals, FiniteSets

CONSTANTS
    MaxEvents,     \* bound: ids of the events table
    Offers,        \* the offers events are about
    Products,      \* the product ids ever used
    NumChannels,   \* channels, numbered in the order of buildNotifiers
    Local,         \* channels that need no credentials and cannot fail (console)
    Switchable,    \* channels whose credentials the user may set and clear
    MaxFaults      \* bound: kills of the process and writes that fail

Events == 1..MaxEvents
Channels == 1..NumChannels

ASSUME NotificationAssumption ==
    /\ MaxEvents \in Nat
    /\ Offers # {} /\ Products # {}
    /\ NumChannels \in Nat
    /\ Local \subseteq Channels
    /\ Switchable \subseteq Channels \ Local
    /\ MaxFaults \in Nat

VARIABLES
    \* database
    status,        \* events.notified, or "none" while the id is unused
    subject,       \* events.offer_id
    buyable,       \* events whose to_state is in_stock or preorder
    product,       \* offers.product_id, followed by events.product_id
    live,          \* ids in the products table
    used,          \* product ids handed out so far (AUTOINCREMENT)
    stale,         \* offers that are archived or not fresh any more
    row,           \* notifications.status by channel and dedup key
    network,       \* network_control.enabled
    \* process
    configured,    \* channels with credentials, per app.notifiers
    pc,            \* where the worker stands in flushNotifications
    using,         \* configured channels among the notifiers of this flush
    todo,          \* summaries of this flush not yet completed
    group,         \* the summary being sent
    at,            \* index of the channel it is at
    blocked,       \* blockCompletion
    faults,
    \* history, read by the properties only
    confirmed,     \* events each channel reported as sent
    summaries,     \* <<channel, dedup key>> reported as sent
    switched,      \* channels whose credentials were ever changed
    suppressed     \* events dropped because their offer went stale

dbVars      == <<status, subject, buyable, product, live, used, stale, row, network>>
flushVars   == <<using, todo, group, at, blocked>>
historyVars == <<confirmed, summaries, switched, suppressed>>
vars        == <<dbVars, configured, pc, flushVars, faults, historyVars>>

-----------------------------------------------------------------------------
DedupKey == [product : Products, ids : SUBSET Events]

Pending == {e \in Events : status[e] = "pending"}

\* The stale filter: claims of availability about offers not fresh any more.
Stale == {e \in Pending : buyable[e] /\ subject[e] \in stale}

\* byProduct: one summary per product with a pending event.
Summaries(E) ==
    {[product |-> p, ids |-> {e \in E : product[subject[e]] = p}] :
        p \in {product[subject[e]] : e \in E}}

\* Map keeps insertion order and events come ordered by id.
Before(g, h) == \E e \in g.ids : \A d \in h.ids : e <= d

NoGroup == [product |-> CHOOSE p \in Products : TRUE, ids |-> {}]

-----------------------------------------------------------------------------
Init ==
    /\ status = [e \in Events |-> "none"]
    /\ subject = [e \in Events |-> CHOOSE o \in Offers : TRUE]  \* unset
    /\ buyable = [e \in Events |-> FALSE]
    /\ product \in [Offers -> Products]
    /\ live = {product[o] : o \in Offers}
    /\ used = live
    /\ stale = {}
    /\ row = [c \in Channels |-> [k \in DedupKey |-> "none"]]
    /\ network = TRUE
    /\ configured = Channels
    /\ pc = "idle"
    /\ using = {} /\ todo = {} /\ group = NoGroup /\ at = 1 /\ blocked = FALSE
    /\ faults = 0
    /\ confirmed = [c \in Channels |-> {}]
    /\ summaries = {}
    /\ switched = {}
    /\ suppressed = {}

-----------------------------------------------------------------------------
(* flushNotifications *)

\* The tick found the network on: stale claims are marked notified, the rest
\* grouped, and app.notifiers is passed on as it is now.
BeginFlush ==
    /\ pc = "idle" /\ network
    /\ Pending # {}
    /\ status' = [e \in Events |-> IF e \in Stale THEN "notified" ELSE status[e]]
    /\ suppressed' = suppressed \cup Stale
    /\ todo' = Summaries(Pending \ Stale)
    /\ using' = configured
    /\ pc' = "flushing"
    /\ UNCHANGED <<subject, buyable, product, live, used, stale, row, network, configured,
                   group, at, blocked, faults, confirmed, summaries, switched>>

NextSummary(g) ==
    /\ pc = "flushing"
    /\ g \in todo
    /\ \A h \in todo : Before(g, h)
    /\ group' = g
    /\ at' = 1
    /\ blocked' = FALSE
    /\ pc' = "group"
    /\ UNCHANGED <<dbVars, configured, using, todo, faults, historyVars>>

\* upsertNotification.  An existing row is updated.  A new one refers to the
\* product: the insert fails, unnoticed, once that product is merged away.
Upsert(c, s) ==
    row' = IF row[c][group] # "none" \/ group.product \in live
           THEN [row EXCEPT ![c][group] = s] ELSE row

\* Mutated form of SkipUnconfigured: an unconfigured channel blocks completion.
SkipUnconfiguredBlocks ==
    /\ pc = "group" /\ at \in Channels \ using
    /\ Upsert(at, "skipped")
    /\ blocked' = TRUE
    /\ at' = at + 1
    /\ UNCHANGED <<status, subject, buyable, product, live, used, stale, network, configured, pc,
                   using, todo, group, faults, historyVars>>

SkipUnconfigured ==
    /\ pc = "group" /\ at \in Channels \ using
    /\ Upsert(at, "skipped")
    /\ at' = at + 1
    /\ UNCHANGED <<status, subject, buyable, product, live, used, stale, network, configured, pc,
                   using, todo, group, blocked, faults, historyVars>>

SkipSent ==
    /\ pc = "group" /\ at \in using
    /\ row[at][group] = "sent"
    /\ at' = at + 1
    /\ UNCHANGED <<dbVars, configured, pc, using, todo, group, blocked, faults, historyVars>>

\* Mutated form of StartSend: the existing row is not looked at.
StartSendAlways ==
    /\ pc = "group" /\ at \in using
    /\ pc' = "sending"
    /\ UNCHANGED <<dbVars, configured, flushVars, faults, historyVars>>

StartSend ==
    /\ pc = "group" /\ at \in using
    /\ row[at][group] # "sent"
    /\ pc' = "sending"
    /\ UNCHANGED <<dbVars, configured, flushVars, faults, historyVars>>

SendSucceeds ==
    /\ pc = "sending"
    /\ Upsert(at, "sent")
    /\ confirmed' = [confirmed EXCEPT ![at] = @ \cup group.ids]
    /\ summaries' = summaries \cup {<<at, group>>}
    /\ at' = at + 1
    /\ pc' = "group"
    /\ UNCHANGED <<status, subject, buyable, product, live, used, stale, network, configured,
                   using, todo, group, blocked, faults, switched, suppressed>>

\* The retries of postJsonWithRetry are used up, or the answer is permanent.
SendFails ==
    /\ pc = "sending"
    /\ at \notin Local
    /\ Upsert(at, "failed")
    /\ blocked' = TRUE
    /\ at' = at + 1
    /\ pc' = "group"
    /\ UNCHANGED <<status, subject, buyable, product, live, used, stale, network, configured,
                   using, todo, group, faults, historyVars>>

\* The summary was sent but its row could not be written; the error is logged.
SendUnrecorded ==
    /\ pc = "sending"
    /\ faults < MaxFaults
    /\ faults' = faults + 1
    /\ confirmed' = [confirmed EXCEPT ![at] = @ \cup group.ids]
    /\ summaries' = summaries \cup {<<at, group>>}
    /\ at' = at + 1
    /\ pc' = "group"
    /\ UNCHANGED <<dbVars, configured, using, todo, group, blocked, switched, suppressed>>

\* Mutated form of FinishSummary: a failed channel does not keep the events.
FinishSummaryRegardless ==
    /\ pc = "group" /\ at \notin Channels
    /\ status' = [e \in Events |-> IF e \in group.ids THEN "notified" ELSE status[e]]
    /\ todo' = todo \ {group}
    /\ pc' = "flushing"
    /\ UNCHANGED <<subject, buyable, product, live, used, stale, row, network, configured,
                   using, group, at, blocked, faults, historyVars>>

FinishSummary ==
    /\ pc = "group" /\ at \notin Channels
    /\ status' = IF blocked THEN status
                 ELSE [e \in Events |-> IF e \in group.ids THEN "notified" ELSE status[e]]
    /\ todo' = todo \ {group}
    /\ pc' = "flushing"
    /\ UNCHANGED <<subject, buyable, product, live, used, stale, row, network, configured,
                   using, group, at, blocked, faults, historyVars>>

ForgetFlush ==
    /\ using' = {} /\ todo' = {} /\ group' = NoGroup /\ at' = 1 /\ blocked' = FALSE

EndFlush ==
    /\ pc = "flushing" /\ todo = {}
    /\ pc' = "idle"
    /\ ForgetFlush
    /\ UNCHANGED <<dbVars, configured, faults, historyVars>>

\* The process is killed.  A message in flight may have been delivered; nothing
\* was reported or recorded.
Crash ==
    /\ pc # "down"
    /\ faults < MaxFaults
    /\ faults' = faults + 1
    /\ pc' = "down"
    /\ ForgetFlush
    /\ UNCHANGED <<dbVars, configured, historyVars>>

Restart ==
    /\ pc = "down"
    /\ pc' = "idle"
    /\ UNCHANGED <<dbVars, configured, flushVars, faults, historyVars>>

-----------------------------------------------------------------------------
(* The rest of the process *)

\* createEvent, by the crawl before a flush or by an approval during one.
CreateEvent(e, o, claims) ==
    /\ pc # "down"
    /\ status[e] = "none"
    /\ \A d \in Events : d < e => status[d] # "none"
    /\ status' = [status EXCEPT ![e] = "pending"]
    /\ subject' = [subject EXCEPT ![e] = o]
    /\ buyable' = [buyable EXCEPT ![e] = claims]
    /\ UNCHANGED <<product, live, used, stale, row, network, configured, pc, flushVars, faults, historyVars>>

\* Freshness lapses at any time; only the crawl, which ends before the flush of
\* the same tick begins, restores it.
GoStale(o) ==
    /\ pc # "down" /\ o \notin stale
    /\ stale' = stale \cup {o}
    /\ UNCHANGED <<status, subject, buyable, product, live, used, row, network, configured, pc,
                   flushVars, faults, historyVars>>

SeenAgain(o) ==
    /\ pc = "idle" /\ o \in stale
    /\ stale' = stale \ {o}
    /\ UNCHANGED <<status, subject, buyable, product, live, used, row, network, configured, pc,
                   flushVars, faults, historyVars>>

\* mergeProducts, one transaction: offers and events move, the source is deleted.
MergeProducts(p, q) ==
    /\ pc # "down"
    /\ p \in live /\ q \in live /\ p # q
    /\ product' = [o \in Offers |-> IF product[o] = p THEN q ELSE product[o]]
    /\ live' = live \ {p}
    /\ UNCHANGED <<status, subject, buyable, used, stale, row, network, configured, pc,
                   flushVars, faults, historyVars>>

\* splitProduct, one transaction: some but not all offers move to a new product.
SplitProduct(p, S, q) ==
    /\ pc # "down"
    /\ p \in live /\ q \notin used
    /\ S # {} /\ \A o \in S : product[o] = p
    /\ \E o \in Offers \ S : product[o] = p
    /\ product' = [o \in Offers |-> IF o \in S THEN q ELSE product[o]]
    /\ live' = live \cup {q}
    /\ used' = used \cup {q}
    /\ UNCHANGED <<status, subject, buyable, stale, row, network, configured, pc,
                   flushVars, faults, historyVars>>

\* refreshNotificationConfiguration replaces app.notifiers; a flush keeps its own.
SwitchChannel(c) ==
    /\ pc # "down"
    /\ configured' = IF c \in configured THEN configured \ {c} ELSE configured \cup {c}
    /\ switched' = switched \cup {c}
    /\ UNCHANGED <<dbVars, pc, flushVars, faults, confirmed, summaries, suppressed>>

SetNetworkEnabled(on) ==
    /\ pc # "down"
    /\ network # on
    /\ network' = on
    /\ UNCHANGED <<status, subject, buyable, product, live, used, stale, row, configured, pc,
                   flushVars, faults, historyVars>>

-----------------------------------------------------------------------------
Flush ==
    \/ BeginFlush
    \/ \E g \in todo : NextSummary(g)
    \/ SkipUnconfigured
    \/ SkipSent
    \/ StartSend
    \/ SendSucceeds
    \/ SendFails
    \/ FinishSummary
    \/ EndFlush

Faults == SendUnrecorded \/ Crash \/ Restart

Others ==
    \/ \E e \in Events, o \in Offers, claims \in BOOLEAN : CreateEvent(e, o, claims)
    \/ \E o \in Offers : GoStale(o) \/ SeenAgain(o)
    \/ \E p, q \in Products : MergeProducts(p, q)
    \/ \E p, q \in Products, S \in SUBSET Offers : SplitProduct(p, S, q)
    \/ \E c \in Switchable : SwitchChannel(c)
    \/ \E on \in BOOLEAN : SetNetworkEnabled(on)

Next == Flush \/ Faults \/ Others

\* Every tick flushes and every send ends (timeout, bounded retries).  A channel
\* that is tried again and again succeeds in the end: an assumption about the
\* service behind it, without which its summaries stay queued for ever.
Fairness ==
    /\ WF_vars(Flush)
    /\ \A c \in Channels : SF_vars(SendSucceeds /\ at = c)

Spec == Init /\ [][Next]_vars /\ Fairness

-----------------------------------------------------------------------------
(* Properties *)

Phases == {"idle", "flushing", "group", "sending", "down"}

TypeOK ==
    /\ status \in [Events -> {"none", "pending", "notified"}]
    /\ subject \in [Events -> Offers]
    /\ buyable \in [Events -> BOOLEAN]
    /\ product \in [Offers -> Products]
    /\ live \subseteq used /\ used \subseteq Products
    /\ stale \subseteq Offers
    /\ row \in [Channels -> [DedupKey -> {"none", "skipped", "failed", "sent"}]]
    /\ network \in BOOLEAN
    /\ configured \subseteq Channels /\ using \subseteq Channels
    /\ pc \in Phases
    /\ todo \subseteq DedupKey
    /\ group \in DedupKey
    /\ at \in 1..(NumChannels + 1)
    /\ blocked \in BOOLEAN
    /\ faults \in 0..MaxFaults
    /\ confirmed \in [Channels -> SUBSET Events]
    /\ summaries \subseteq Channels \X DedupKey
    /\ switched \subseteq Channels
    /\ suppressed \subseteq Events

\* What the queue promises, for any interleaving with merges, splits, switched
\* channels and kills (comment in src/notify/queue.js:94-99): an event is only
\* marked notified when every channel of the flush confirmed it, or as a stale claim.
Promise == INSTANCE AtLeastOnceDelivery WITH
    Items      <- Events,
    Mandatory  <- Local,
    state      <- [e \in Events |-> CASE status[e] = "none"     -> "unborn"
                                     [] status[e] = "pending"  -> "open"
                                     [] status[e] = "notified" -> "closed"],
    perishable <- {e \in Events : buyable[e]},
    inUse      <- using,
    dropped    <- suppressed

KeepsPromise == Promise!Spec

\* A summary a channel confirmed is not sent to it again, however often the other
\* channels fail (dedup key), unless its credentials were changed meanwhile (the
\* row then turns 'skipped') or a kill or a failed write lost the record.
NoRepeatedSummary ==
    [][pc = "group" /\ pc' = "sending" /\ <<at, group>> \in summaries
          => at \in switched \/ faults > 0]_vars

\* Every event is announced or retired in the end: failures of a channel, a new event joining
\* the product before the next tick, which gives the summary another key, merges and splits
\* only delay it, unless the network stays off or the process down.
EventSettled ==
    \A e \in Events :
        status[e] = "pending" ~> (status[e] = "notified" \/ ~network \/ pc = "down")
=============================================================================

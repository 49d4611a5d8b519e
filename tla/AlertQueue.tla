------------------------------- MODULE AlertQueue -------------------------------
(***************************************************************************)
(* flushWatchlistAlerts of src/core/watchlist.js: after the event queue, a  *)
(* tick sends the alerts of the watchlists one by one, in the order of their *)
(* ids, to every channel in turn.  It works on the rows it read at the start *)
(* while the web UI creates alerts, deletes watchlists, merges products and  *)
(* changes credentials, and the process may be killed.                       *)
(*                                                                          *)
(* Unlike the event queue it writes no row for a channel without credentials *)
(* and lets a row that cannot be written throw: the throw ends the flush.    *)
(***************************************************************************)
EXTENDS Naturals

CONSTANTS
    MaxAlerts,     \* bound: ids of the watchlist_alerts table
    Products,      \* the products at the start; merges remove them
    NoProduct,     \* the product of an alert about an announcement
    Watchlists,
    NumChannels,   \* channels, numbered in the order of buildNotifiers
    Local,         \* channels that need no credentials and cannot fail (console)
    Switchable,    \* channels whose credentials the user may set and clear
    MaxFaults      \* bound: kills of the process and writes that fail

Alerts == 1..MaxAlerts
Channels == 1..NumChannels

ASSUME AlertAssumption ==
    /\ MaxAlerts \in Nat \ {0} /\ NumChannels \in Nat /\ MaxFaults \in Nat
    /\ NoProduct \notin Products
    /\ Watchlists # {}
    /\ Local \subseteq Channels
    /\ Switchable \subseteq Channels \ Local

VARIABLES
    \* database
    status,        \* watchlist_alerts.notified; "none" before and "deleted" after
    owner,         \* watchlist_alerts.watchlist_id
    about,         \* watchlist_alerts.product_id
    lists,         \* the watchlists table
    live,          \* the products table
    row,           \* notifications.status by channel and alert
    network,       \* network_control.enabled
    \* process
    configured,    \* channels with credentials, per app.notifiers
    pc,            \* where the worker stands in its tick
    using,         \* configured channels among the notifiers of the last flush
    todo,          \* alerts of this flush not yet completed
    snapshot,      \* the product ids this flush read
    alert,         \* the alert being sent
    at,            \* index of the channel it is at
    blocked,
    faults,
    \* history, read by the properties only
    confirmed,     \* alerts each channel reported as sent
    lost,          \* <<channel, alert>> reported as sent, the row not written
    withdrawn      \* alerts deleted while pending

dbVars      == <<status, owner, about, lists, live, row, network>>
flushVars   == <<using, todo, snapshot, alert, at, blocked>>
historyVars == <<confirmed, lost, withdrawn>>
vars        == <<dbVars, configured, pc, flushVars, faults, historyVars>>

Pending == {a \in Alerts : status[a] = "pending"}

Init ==
    /\ status = [a \in Alerts |-> "none"]
    /\ owner = [a \in Alerts |-> CHOOSE w \in Watchlists : TRUE]  \* unset
    /\ about = [a \in Alerts |-> NoProduct]
    /\ lists = Watchlists
    /\ live = Products
    /\ row = [c \in Channels |-> [a \in Alerts |-> "none"]]
    /\ network = TRUE
    /\ configured = Channels
    /\ pc = "idle"
    /\ using = {} /\ todo = {} /\ snapshot = about /\ alert = 1 /\ at = 1 /\ blocked = FALSE
    /\ faults = 0
    /\ confirmed = [c \in Channels |-> {}]
    /\ lost = {}
    /\ withdrawn = {}

-----------------------------------------------------------------------------
(* flushWatchlistAlerts *)

\* The tick found the network on; it empties the event queue first.
BeginTick ==
    /\ pc = "idle" /\ network
    /\ pc' = "events"
    /\ UNCHANGED <<dbVars, configured, flushVars, faults, historyVars>>

\* A write of the event queue that throws ends the tick before the alerts.
EventsThrow ==
    /\ pc = "events"
    /\ faults < MaxFaults
    /\ faults' = faults + 1
    /\ pc' = "idle"
    /\ UNCHANGED <<dbVars, configured, flushVars, historyVars>>

\* The network is not asked again, nor is it during the flush.
BeginFlush ==
    /\ pc = "events"
    /\ todo' = Pending
    /\ snapshot' = about
    /\ using' = configured
    /\ pc' = "flushing"
    /\ UNCHANGED <<dbVars, configured, alert, at, blocked, faults, historyVars>>

NextAlert ==
    /\ pc = "flushing" /\ todo # {}
    /\ alert' \in todo /\ \A a \in todo : alert' <= a
    /\ at' = 1
    /\ blocked' = FALSE
    /\ pc' = "alert"
    /\ UNCHANGED <<dbVars, configured, using, todo, snapshot, faults, historyVars>>

\* Mutated form of SkipChannel: a channel without credentials keeps the alert.
SkipChannelBlocks ==
    /\ pc = "alert" /\ at \in Channels
    /\ at \notin using \/ row[at][alert] = "sent"
    /\ at' = at + 1
    /\ blocked' = (blocked \/ at \notin using)
    /\ UNCHANGED <<dbVars, configured, pc, using, todo, snapshot, alert, faults, historyVars>>

\* The channel has no credentials, or sent the alert in an earlier flush.
SkipChannel ==
    /\ pc = "alert" /\ at \in Channels
    /\ at \notin using \/ row[at][alert] = "sent"
    /\ at' = at + 1
    /\ UNCHANGED <<dbVars, configured, pc, using, todo, snapshot, alert, blocked, faults, historyVars>>

\* Mutated form of StartSend: the existing row is not looked at.
StartSendAlways ==
    /\ pc = "alert" /\ at \in using
    /\ pc' = "sending"
    /\ UNCHANGED <<dbVars, configured, flushVars, faults, historyVars>>

StartSend ==
    /\ pc = "alert" /\ at \in using
    /\ row[at][alert] # "sent"
    /\ pc' = "sending"
    /\ UNCHANGED <<dbVars, configured, flushVars, faults, historyVars>>

Answers == IF at \in Local THEN {"sent"} ELSE {"sent", "failed"}

\* An existing row is updated; a new one refers to the product the flush read,
\* and the foreign key refuses it once that product is merged away.
Recordable == row[at][alert] # "none" \/ snapshot[alert] \in live \cup {NoProduct}

Reported(s) ==
    confirmed' = IF s = "sent" THEN [confirmed EXCEPT ![at] = @ \cup {alert}] ELSE confirmed

SendRecorded(s) ==
    /\ pc = "sending" /\ s \in Answers
    /\ Recordable
    /\ row' = [row EXCEPT ![at][alert] = s]
    /\ blocked' = (blocked \/ s = "failed")
    /\ at' = at + 1
    /\ pc' = "alert"
    /\ Reported(s)
    /\ lost' = IF s = "sent" THEN lost \ {<<at, alert>>} ELSE lost
    /\ UNCHANGED <<status, owner, about, lists, live, network, configured, using, todo, snapshot,
                   alert, faults, withdrawn>>

Unread == [a \in Alerts |-> NoProduct]

ForgetFlush ==
    /\ todo' = {} /\ snapshot' = Unread /\ alert' = 1 /\ at' = 1 /\ blocked' = FALSE
    /\ UNCHANGED using

\* The row cannot be written: the error leaves the flush and ends the tick.
RecordThrows(s) ==
    /\ pc = "sending" /\ s \in Answers
    /\ \/ ~Recordable /\ faults' = faults
       \/ faults < MaxFaults /\ faults' = faults + 1
    /\ pc' = "idle"
    /\ ForgetFlush
    /\ Reported(s)
    /\ lost' = IF s = "sent" THEN lost \cup {<<at, alert>>} ELSE lost
    /\ UNCHANGED <<dbVars, configured, withdrawn>>

\* Mutated form of FinishAlert: a failed channel does not keep the alert.
FinishAlertRegardless ==
    /\ pc = "alert" /\ at \notin Channels
    /\ status' = IF status[alert] = "pending" THEN [status EXCEPT ![alert] = "notified"] ELSE status
    /\ todo' = todo \ {alert}
    /\ pc' = "flushing"
    /\ UNCHANGED <<owner, about, lists, live, row, network, configured, using, snapshot, alert, at,
                   blocked, faults, historyVars>>

\* An alert deleted meanwhile has no row left to update.
FinishAlert ==
    /\ pc = "alert" /\ at \notin Channels
    /\ status' = IF ~blocked /\ status[alert] = "pending"
                 THEN [status EXCEPT ![alert] = "notified"] ELSE status
    /\ todo' = todo \ {alert}
    /\ pc' = "flushing"
    /\ UNCHANGED <<owner, about, lists, live, row, network, configured, using, snapshot, alert, at,
                   blocked, faults, historyVars>>

EndFlush ==
    /\ pc = "flushing" /\ todo = {}
    /\ pc' = "idle"
    /\ ForgetFlush
    /\ UNCHANGED <<dbVars, configured, faults, historyVars>>

\* The process is killed.  A message in flight may have been delivered; nothing
\* was reported or recorded.
Crash ==
    /\ pc # "down"
    /\ faults < MaxFaults
    /\ faults' = faults + 1
    /\ pc' = "down"
    /\ ForgetFlush
    /\ UNCHANGED <<dbVars, configured, historyVars>>

Restart ==
    /\ pc = "down"
    /\ pc' = "idle"
    /\ UNCHANGED <<dbVars, configured, flushVars, faults, historyVars>>

-----------------------------------------------------------------------------
(* The rest of the process *)

\* createAlert, for a match with a product or with an announcement.
CreateAlert(a, w, p) ==
    /\ pc # "down"
    /\ status[a] = "none" /\ \A b \in Alerts : b < a => status[b] # "none"
    /\ w \in lists
    /\ p \in live \cup {NoProduct}
    /\ status' = [status EXCEPT ![a] = "pending"]
    /\ owner' = [owner EXCEPT ![a] = w]
    /\ about' = [about EXCEPT ![a] = p]
    /\ UNCHANGED <<lists, live, row, network, configured, pc, flushVars, faults, historyVars>>

\* deleteWatchlist: the alerts go with it (ON DELETE CASCADE).
DeleteWatchlist(w) ==
    /\ pc # "down"
    /\ w \in lists
    /\ lists' = lists \ {w}
    /\ status' = [a \in Alerts |-> IF owner[a] = w /\ status[a] # "none" THEN "deleted" ELSE status[a]]
    /\ withdrawn' = withdrawn \cup {a \in Pending : owner[a] = w}
    /\ UNCHANGED <<owner, about, live, row, network, configured, pc, flushVars, faults, confirmed, lost>>

\* mergeProducts moves the alerts that still exist and deletes the source product.
MergeProducts(p, q) ==
    /\ pc # "down"
    /\ p \in live /\ q \in live /\ p # q
    /\ about' = [a \in Alerts |-> IF about[a] = p THEN q ELSE about[a]]
    /\ live' = live \ {p}
    /\ UNCHANGED <<status, owner, lists, row, network, configured, pc, flushVars, faults, historyVars>>

\* refreshNotificationConfiguration replaces app.notifiers; a flush keeps its own.
SwitchChannel(c) ==
    /\ pc # "down"
    /\ configured' = IF c \in configured THEN configured \ {c} ELSE configured \cup {c}
    /\ UNCHANGED <<dbVars, pc, flushVars, faults, historyVars>>

SetNetworkEnabled(on) ==
    /\ pc # "down"
    /\ network # on
    /\ network' = on
    /\ UNCHANGED <<status, owner, about, lists, live, row, configured, pc, flushVars, faults, historyVars>>

-----------------------------------------------------------------------------
Flush ==
    \/ BeginTick
    \/ EventsThrow
    \/ BeginFlush
    \/ NextAlert
    \/ SkipChannel
    \/ StartSend
    \/ \E s \in {"sent", "failed"} : SendRecorded(s) \/ RecordThrows(s)
    \/ FinishAlert
    \/ EndFlush

Others ==
    \/ \E a \in Alerts, w \in Watchlists, p \in Products \cup {NoProduct} : CreateAlert(a, w, p)
    \/ \E w \in Watchlists : DeleteWatchlist(w)
    \/ \E p, q \in Products : MergeProducts(p, q)
    \/ \E c \in Switchable : SwitchChannel(c)
    \/ \E on \in BOOLEAN : SetNetworkEnabled(on)

Next == Flush \/ Crash \/ Restart \/ Others

\* Every tick flushes and every send ends (timeout, bounded retries).  A channel
\* that is tried again and again succeeds in the end: an assumption about the
\* service behind it.
Fairness ==
    /\ WF_vars(Flush)
    /\ \A c \in Channels : SF_vars(at = c /\ SendRecorded("sent"))

Spec == Init /\ [][Next]_vars /\ Fairness

-----------------------------------------------------------------------------
(* Properties *)

\* Every variable has its type.
TypeOK ==
    /\ status \in [Alerts -> {"none", "pending", "notified", "deleted"}]
    /\ owner \in [Alerts -> Watchlists]
    /\ about \in [Alerts -> Products \cup {NoProduct}]
    /\ lists \subseteq Watchlists
    /\ live \subseteq Products
    /\ row \in [Channels -> [Alerts -> {"none", "failed", "sent"}]]
    /\ network \in BOOLEAN
    /\ configured \subseteq Channels /\ using \subseteq Channels
    /\ pc \in {"idle", "events", "flushing", "alert", "sending", "down"}
    /\ todo \subseteq Alerts
    /\ snapshot \in [Alerts -> Products \cup {NoProduct}]
    /\ alert \in Alerts
    /\ at \in 1..(NumChannels + 1)
    /\ blocked \in BOOLEAN
    /\ faults \in 0..MaxFaults
    /\ confirmed \in [Channels -> SUBSET Alerts]
    /\ lost \subseteq Channels \X Alerts
    /\ withdrawn \subseteq Alerts

\* The alert queue keeps the promise of the event queue (flushWatchlistAlerts,
\* line 336): an alert is only marked notified when every channel of its flush
\* confirmed it, although a throw may end any flush halfway; only the deletion of
\* its watchlist drops one.
Promise == INSTANCE AtLeastOnceDelivery WITH
    Items      <- Alerts,
    Mandatory  <- Local,
    state      <- [a \in Alerts |-> CASE status[a] = "none"    -> "unborn"
                                     [] status[a] = "pending" -> "open"
                                     [] OTHER                 -> "closed"],
    perishable <- {a \in Alerts : status[a] # "none"},
    inUse      <- using,
    dropped    <- withdrawn

KeepsPromise == Promise!Spec

\* An alert a channel confirmed is sent to it again only while the row that says
\* so is missing because writing it threw (a merge or a failed write), whatever
\* happens to the other channels and to the credentials in between.
NoRepeatedAlert ==
    [][pc = "alert" /\ pc' = "sending" /\ alert \in confirmed[at] => <<at, alert>> \in lost]_vars

\* Every alert is sent in the end or goes with its watchlist: a throw ends the
\* flush for the alerts behind it too, but only delays them.
AlertSettled ==
    \A a \in Alerts :
        status[a] = "pending" ~> (status[a] # "pending" \/ ~network \/ pc = "down")
=============================================================================

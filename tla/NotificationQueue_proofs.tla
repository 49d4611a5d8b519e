----------------------- MODULE NotificationQueue_proofs -----------------------
(***************************************************************************)
(* Proofs about NotificationQueue, for any number of events, channels and   *)
(* products and any bounds: type correctness, that the queue implements     *)
(* AtLeastOnceDelivery, and that no recorded summary is repeated.           *)
(***************************************************************************)
EXTENDS NotificationQueue, TLAPS

(* The inductive invariant, in the order in which a flush builds it up. *)

\* An offer belongs to a product that exists, and local channels stay in use.
StoreInv ==
    /\ \A o \in Offers : product[o] \in live
    /\ Local \subseteq configured
    /\ Channels \ configured \subseteq switched

\* A row that says sent tells the truth.
SentInv ==
    \A c \in Channels, k \in DedupKey : row[c][k] = "sent" => k.ids \subseteq confirmed[c]

InFlush == pc \in {"flushing", "group", "sending"}
AtGroup == pc \in {"group", "sending"}

\* The summaries left to do are pending and share no event.
TodoInv ==
    /\ \A g \in todo : g.ids \subseteq Pending
    /\ \A g, h \in todo : g # h => g.ids \cap h.ids = {}
    /\ \A g \in todo : g.product \in used

\* Channels the loop has passed without a failure have confirmed the summary.
LoopInv ==
    /\ InFlush => Local \subseteq using /\ Channels \ using \subseteq switched
    /\ AtGroup => group \in todo
    /\ pc = "sending" => at \in using /\ row[at][group] # "sent"
    /\ AtGroup /\ ~blocked => \A c \in using : c < at => group.ids \subseteq confirmed[c]

\* A confirmed summary is on record; else its channel was switched, something
\* failed, or its product is gone and it is behind the loop.
RecordInv ==
    \A c \in Channels, k \in DedupKey : <<c, k>> \in summaries =>
        /\ k.product \in used
        /\ \/ row[c][k] = "sent"
           \/ c \in switched
           \/ faults > 0
           \/ k.product \notin live /\ (k \in todo => AtGroup /\ k = group /\ c < at)

\* An id not handed out yet makes no claim.
UnbornInv == \A e \in Events : status[e] = "none" => ~buyable[e]

IInv == TypeOK /\ StoreInv /\ SentInv /\ TodoInv /\ LoopInv /\ RecordInv /\ UnbornInv

-----------------------------------------------------------------------------
(* Operators *)

RowStatus == {"none", "skipped", "failed", "sent"}

\* The row of a summary can be written.
Recordable(c, k) == row[c][k] # "none" \/ k.product \in live

\* What upsertNotification leaves in the table.
LEMMA UpsertEffect ==
    ASSUME TypeOK, NEW c \in Channels, NEW s \in RowStatus, Upsert(c, s)
    PROVE  /\ row' \in [Channels -> [DedupKey -> RowStatus]]
           /\ \A d \in Channels, k \in DedupKey :
                 row'[d][k] = IF d = c /\ k = group /\ Recordable(d, k)
                              THEN s ELSE row[d][k]
  <1>1. row \in [Channels -> [DedupKey -> RowStatus]] /\ group \in DedupKey
    BY DEF TypeOK, RowStatus
  <1>2. CASE Recordable(c, group)
    BY <1>1, <1>2 DEF Upsert, Recordable
  <1>3. CASE ~Recordable(c, group)
    BY <1>1, <1>3 DEF Upsert, Recordable
  <1>4. QED
    BY <1>2, <1>3

\* A summary holds pending events of one product, and no event is in two.
LEMMA SummariesGroup ==
    ASSUME TypeOK, StoreInv, NEW E \in SUBSET Events
    PROVE  /\ Summaries(E) \subseteq DedupKey
           /\ \A g \in Summaries(E) : g.ids \subseteq E /\ g.product \in live
           /\ \A g, h \in Summaries(E) : g # h => g.ids \cap h.ids = {}
  <1>1. ASSUME NEW g \in Summaries(E)
        PROVE  /\ g.product \in live /\ g.product \in Products
               /\ g = [product |-> g.product, ids |-> {e \in E : product[subject[e]] = g.product}]
    <2>1. PICK e \in E : g = [product |-> product[subject[e]],
                              ids |-> {d \in E : product[subject[d]] = product[subject[e]]}]
      BY DEF Summaries
    <2>2. subject[e] \in Offers
      BY DEF TypeOK
    <2>3. product[subject[e]] \in live /\ product[subject[e]] \in Products
      BY <2>2 DEF TypeOK, StoreInv
    <2>4. QED
      BY <2>1, <2>3
  <1>2. ASSUME NEW g \in Summaries(E)
        PROVE  /\ g.ids = {e \in E : product[subject[e]] = g.product}
               /\ g \in DedupKey
    BY <1>1 DEF DedupKey
  <1>3. ASSUME NEW g \in Summaries(E), NEW h \in Summaries(E), g # h
        PROVE  g.product # h.product
    BY <1>1, <1>3
  <1>4. QED
    BY <1>1, <1>2, <1>3

LEMMA NoGroupType == NoGroup \in DedupKey
  BY NotificationAssumption DEF NoGroup, DedupKey

LEMMA InitIInv == Init => IInv
  <1> SUFFICES ASSUME Init PROVE IInv
    OBVIOUS
  <1>1. TypeOK
    <2>1. group \in DedupKey
      BY NoGroupType DEF Init
    <2>2. at \in 1..(NumChannels + 1) /\ faults \in 0..MaxFaults
      BY NotificationAssumption DEF Init
    <2>3. row \in [Channels -> [DedupKey -> {"none", "skipped", "failed", "sent"}]]
      BY DEF Init
    <2>4. subject \in [Events -> Offers]
      BY NotificationAssumption DEF Init
    <2>5. live \subseteq used /\ used \subseteq Products /\ product \in [Offers -> Products]
      BY DEF Init
    <2>6. QED
      BY <2>1, <2>2, <2>3, <2>4, <2>5 DEF Init, TypeOK, Phases
  <1>2. StoreInv
    BY NotificationAssumption DEF Init, StoreInv
  <1>3. SentInv
    BY DEF Init, SentInv
  <1>4. TodoInv
    BY DEF Init, TodoInv
  <1>5. LoopInv
    BY DEF Init, LoopInv, InFlush, AtGroup
  <1>6. RecordInv
    BY DEF Init, RecordInv
  <1>7. UnbornInv
    BY DEF Init, UnbornInv
  <1>8. QED
    BY <1>1, <1>2, <1>3, <1>4, <1>5, <1>6, <1>7 DEF IInv

-----------------------------------------------------------------------------
(* Every step preserves the invariant *)

LEMMA TypeNext == IInv /\ [Next]_vars => TypeOK'
  <1> SUFFICES ASSUME IInv, [Next]_vars PROVE TypeOK'
    OBVIOUS
  <1> USE DEF TypeOK, Phases
  <1>0. TypeOK /\ StoreInv /\ LoopInv /\ NumChannels \in Nat /\ MaxFaults \in Nat
    BY NotificationAssumption DEF IInv
  <1>1. at \in Channels => at + 1 \in 1..(NumChannels + 1)
    BY <1>0 DEF Channels
  <1>2. pc = "sending" => at \in using /\ at \in Channels
    BY <1>0 DEF LoopInv
  <1>3. 1 \in 1..(NumChannels + 1) /\ NoGroup \in DedupKey
    BY <1>0, NoGroupType
  <1>4. faults < MaxFaults => faults + 1 \in 0..MaxFaults
    BY <1>0
  <1>5. \A c \in Channels, s \in RowStatus : Upsert(c, s) =>
           row' \in [Channels -> [DedupKey -> {"none", "skipped", "failed", "sent"}]]
    BY <1>0, UpsertEffect DEF RowStatus
  <1>6. group.ids \in SUBSET Events
    BY <1>0 DEF DedupKey
  <1>7. CASE BeginFlush
    <2>1. Pending \ Stale \in SUBSET Events
      BY DEF Pending
    <2>2. todo' \subseteq DedupKey
      BY <1>0, <1>7, <2>1, SummariesGroup DEF BeginFlush
    <2>3. suppressed' \subseteq Events
      BY <1>0, <1>7 DEF BeginFlush, Stale, Pending
    <2>4. status' \in [Events -> {"none", "pending", "notified"}]
      BY <1>0, <1>7 DEF BeginFlush
    <2>5. QED
      BY <1>0, <1>7, <2>2, <2>3, <2>4 DEF BeginFlush
  <1>8. ASSUME NEW g \in todo, NextSummary(g) PROVE TypeOK'
    BY <1>0, <1>3, <1>8 DEF NextSummary, dbVars, historyVars
  <1>9. CASE SkipUnconfigured
    <2>1. row' \in [Channels -> [DedupKey -> {"none", "skipped", "failed", "sent"}]]
      BY <1>5, <1>9 DEF SkipUnconfigured, RowStatus
    <2>2. QED
      BY <1>0, <1>1, <1>9, <2>1 DEF SkipUnconfigured, historyVars
  <1>10. CASE SkipSent
    BY <1>0, <1>1, <1>10 DEF SkipSent, dbVars, historyVars
  <1>11. CASE StartSend
    BY <1>0, <1>11 DEF StartSend, dbVars, flushVars, historyVars
  <1>12. CASE SendSucceeds
    <2>1. row' \in [Channels -> [DedupKey -> {"none", "skipped", "failed", "sent"}]]
      BY <1>2, <1>5, <1>12 DEF SendSucceeds, RowStatus
    <2>2. confirmed' \in [Channels -> SUBSET Events]
      BY <1>0, <1>6, <1>12 DEF SendSucceeds
    <2>3. summaries' \subseteq Channels \X DedupKey
      BY <1>0, <1>2, <1>12 DEF SendSucceeds
    <2>4. QED
      BY <1>0, <1>1, <1>2, <1>12, <2>1, <2>2, <2>3 DEF SendSucceeds
  <1>13. CASE SendFails
    <2>1. row' \in [Channels -> [DedupKey -> {"none", "skipped", "failed", "sent"}]]
      BY <1>2, <1>5, <1>13 DEF SendFails, RowStatus
    <2>2. QED
      BY <1>0, <1>1, <1>2, <1>13, <2>1 DEF SendFails, historyVars
  <1>14. CASE FinishSummary
    <2>1. status' \in [Events -> {"none", "pending", "notified"}]
      BY <1>0, <1>14 DEF FinishSummary
    <2>2. QED
      BY <1>0, <1>14, <2>1 DEF FinishSummary, historyVars
  <1>15. CASE EndFlush
    BY <1>0, <1>3, <1>15 DEF EndFlush, ForgetFlush, dbVars, historyVars
  <1>16. CASE SendUnrecorded
    <2>1. confirmed' \in [Channels -> SUBSET Events]
      BY <1>0, <1>6, <1>16 DEF SendUnrecorded
    <2>2. summaries' \subseteq Channels \X DedupKey
      BY <1>0, <1>2, <1>16 DEF SendUnrecorded
    <2>3. QED
      BY <1>0, <1>1, <1>2, <1>4, <1>16, <2>1, <2>2 DEF SendUnrecorded, dbVars
  <1>17. CASE Crash
    BY <1>0, <1>3, <1>4, <1>17 DEF Crash, ForgetFlush, dbVars, historyVars
  <1>18. CASE Restart
    BY <1>0, <1>18 DEF Restart, dbVars, flushVars, historyVars
  <1>19. ASSUME NEW e \in Events, NEW o \in Offers, NEW claims \in BOOLEAN, CreateEvent(e, o, claims)
         PROVE  TypeOK'
    BY <1>0, <1>19 DEF CreateEvent, flushVars, historyVars
  <1>20. ASSUME NEW o \in Offers, GoStale(o) \/ SeenAgain(o) PROVE TypeOK'
    BY <1>0, <1>20 DEF GoStale, SeenAgain, flushVars, historyVars
  <1>21. ASSUME NEW p \in Products, NEW q \in Products, MergeProducts(p, q) PROVE TypeOK'
    BY <1>0, <1>21 DEF MergeProducts, flushVars, historyVars
  <1>22. ASSUME NEW p \in Products, NEW q \in Products, NEW S \in SUBSET Offers, SplitProduct(p, S, q)
         PROVE  TypeOK'
    BY <1>0, <1>22 DEF SplitProduct, flushVars, historyVars
  <1>23. ASSUME NEW c \in Switchable, SwitchChannel(c) PROVE TypeOK'
    <2>1. c \in Channels
      BY NotificationAssumption
    <2>2. QED
      BY <1>0, <1>23, <2>1 DEF SwitchChannel, dbVars, flushVars
  <1>24. ASSUME NEW on \in BOOLEAN, SetNetworkEnabled(on) PROVE TypeOK'
    BY <1>0, <1>24 DEF SetNetworkEnabled, flushVars, historyVars
  <1>25. CASE UNCHANGED vars
    BY <1>0, <1>25 DEF vars, dbVars, flushVars, historyVars
  <1>26. QED
    BY <1>7, <1>8, <1>9, <1>10, <1>11, <1>12, <1>13, <1>14, <1>15, <1>16, <1>17, <1>18,
       <1>19, <1>20, <1>21, <1>22, <1>23, <1>24, <1>25 DEF Next, Flush, Faults, Others

LEMMA StoreNext == IInv /\ [Next]_vars => StoreInv'
  <1> SUFFICES ASSUME IInv, [Next]_vars PROVE StoreInv'
    OBVIOUS
  <1>0. TypeOK /\ StoreInv
    BY DEF IInv
  <1>1. ASSUME NEW p \in Products, NEW q \in Products, MergeProducts(p, q) PROVE StoreInv'
    BY <1>0, <1>1 DEF MergeProducts, StoreInv, TypeOK, historyVars
  <1>2. ASSUME NEW p \in Products, NEW q \in Products, NEW S \in SUBSET Offers, SplitProduct(p, S, q)
        PROVE  StoreInv'
    BY <1>0, <1>2 DEF SplitProduct, StoreInv, TypeOK, historyVars
  <1>3. ASSUME NEW c \in Switchable, SwitchChannel(c) PROVE StoreInv'
    BY <1>0, <1>3, NotificationAssumption DEF SwitchChannel, StoreInv, TypeOK, dbVars
  <1>4. CASE /\ ~ \E p, q \in Products : MergeProducts(p, q)
             /\ ~ \E p, q \in Products, S \in SUBSET Offers : SplitProduct(p, S, q)
             /\ ~ \E c \in Switchable : SwitchChannel(c)
    <2>1. UNCHANGED <<product, live, configured, switched>>
      BY <1>4 DEF Next, Flush, Faults, Others, BeginFlush, NextSummary, SkipUnconfigured, SkipSent,
         StartSend, SendSucceeds, SendFails, FinishSummary, EndFlush, SendUnrecorded, Crash, Restart,
         CreateEvent, GoStale, SeenAgain, SetNetworkEnabled, vars, dbVars, flushVars, historyVars
    <2>2. QED
      BY <1>0, <2>1 DEF StoreInv
  <1>5. QED
    BY <1>1, <1>2, <1>3, <1>4

LEMMA SentNext == IInv /\ [Next]_vars => SentInv'
  <1> SUFFICES ASSUME IInv, [Next]_vars PROVE SentInv'
    OBVIOUS
  <1>0. TypeOK /\ SentInv /\ LoopInv
    BY DEF IInv
  <1>1. CASE SkipUnconfigured
    <2>1. \A c \in Channels, k \in DedupKey : row'[c][k] = "sent" => row[c][k] = "sent"
      BY <1>0, <1>1, UpsertEffect DEF SkipUnconfigured, RowStatus
    <2>2. QED
      BY <1>0, <1>1, <2>1 DEF SkipUnconfigured, SentInv, historyVars
  <1>at. pc = "sending" => at \in Channels
    BY <1>0 DEF LoopInv, TypeOK
  <1>2. CASE SendFails
    <2>1. \A c \in Channels, k \in DedupKey : row'[c][k] = "sent" => row[c][k] = "sent"
      BY <1>0, <1>at, <1>2, UpsertEffect DEF SendFails, RowStatus
    <2>2. QED
      BY <1>0, <1>2, <2>1 DEF SendFails, SentInv, historyVars
  <1>3. CASE SendSucceeds
    <2>1. \A c \in Channels, k \in DedupKey :
             row'[c][k] = "sent" => row[c][k] = "sent" \/ (c = at /\ k = group)
      <3>1. Upsert(at, "sent") /\ at \in Channels
        BY <1>at, <1>3 DEF SendSucceeds
      <3>2. \A c \in Channels, k \in DedupKey :
               row'[c][k] = IF c = at /\ k = group /\ Recordable(c, k) THEN "sent" ELSE row[c][k]
        BY <1>0, <3>1, UpsertEffect DEF RowStatus
      <3>3. QED
        BY <3>2
    <2>2. \A c \in Channels : confirmed[c] \subseteq confirmed'[c]
      BY <1>0, <1>3 DEF SendSucceeds, TypeOK
    <2>3. at \in Channels /\ group.ids \subseteq confirmed'[at]
      BY <1>0, <1>at, <1>3 DEF SendSucceeds, TypeOK
    <2>4. QED
      BY <1>0, <2>1, <2>2, <2>3 DEF SentInv
  <1>4. CASE SendUnrecorded
    <2>1. \A c \in Channels : confirmed[c] \subseteq confirmed'[c]
      BY <1>0, <1>4 DEF SendUnrecorded, TypeOK
    <2>2. QED
      BY <1>0, <1>4, <2>1 DEF SendUnrecorded, SentInv, dbVars
  <1>5. CASE ~SkipUnconfigured /\ ~SendFails /\ ~SendSucceeds /\ ~SendUnrecorded
    <2>1. UNCHANGED <<row, confirmed>>
      BY <1>5 DEF Next, Flush, Faults, Others, BeginFlush, NextSummary, SkipSent, StartSend,
         FinishSummary, EndFlush, Crash, Restart, CreateEvent, GoStale, SeenAgain, MergeProducts,
         SplitProduct, SwitchChannel, SetNetworkEnabled, vars, dbVars, flushVars, historyVars
    <2>2. QED
      BY <1>0, <2>1 DEF SentInv
  <1>6. QED
    BY <1>1, <1>2, <1>3, <1>4, <1>5

LEMMA TodoNext == IInv /\ [Next]_vars => TodoInv'
  <1> SUFFICES ASSUME IInv, [Next]_vars PROVE TodoInv'
    OBVIOUS
  <1>0. TypeOK /\ StoreInv /\ TodoInv /\ LoopInv
    BY DEF IInv
  <1>1. CASE BeginFlush
    <2>1. Pending \ Stale \in SUBSET Events
      BY DEF Pending
    <2>2. /\ \A g \in todo' : g.ids \subseteq Pending \ Stale /\ g.product \in live
          /\ \A g, h \in todo' : g # h => g.ids \cap h.ids = {}
      BY <1>0, <1>1, <2>1, SummariesGroup DEF BeginFlush
    <2>3. Pending \ Stale \subseteq Pending'
      BY <1>0, <1>1 DEF BeginFlush, Pending, TypeOK
    <2>4. live \subseteq used /\ used' = used
      BY <1>0, <1>1 DEF BeginFlush, TypeOK
    <2>5. QED
      BY <2>2, <2>3, <2>4 DEF TodoInv
  <1>2. CASE FinishSummary
    <2>1. group \in todo
      BY <1>0, <1>2 DEF FinishSummary, LoopInv, AtGroup
    <2>2. todo' = todo \ {group} /\ used' = used
      BY <1>2 DEF FinishSummary
    <2>3. \A g \in todo' : g.ids \cap group.ids = {}
      BY <1>0, <2>1, <2>2 DEF TodoInv
    <2>4. \A g \in todo' : g.ids \subseteq Pending /\ g.ids \in SUBSET Events
      BY <1>0, <2>2 DEF TodoInv, Pending
    <2>5. \A e \in Pending : e \notin group.ids => e \in Pending'
      BY <1>0, <1>2 DEF FinishSummary, Pending, TypeOK
    <2>6. \A g \in todo' : g.ids \subseteq Pending'
      BY <2>3, <2>4, <2>5
    <2>7. QED
      BY <1>0, <2>2, <2>6 DEF TodoInv
  <1>3. CASE EndFlush \/ Crash
    BY <1>3 DEF EndFlush, Crash, ForgetFlush, TodoInv
  <1>4. ASSUME NEW e \in Events, NEW o \in Offers, NEW claims \in BOOLEAN, CreateEvent(e, o, claims)
        PROVE  TodoInv'
    <2>1. Pending \subseteq Pending' /\ UNCHANGED <<todo, used>>
      BY <1>0, <1>4 DEF CreateEvent, Pending, TypeOK, flushVars
    <2>2. QED
      BY <1>0, <2>1 DEF TodoInv
  <1>5. ASSUME NEW p \in Products, NEW q \in Products, NEW S \in SUBSET Offers, SplitProduct(p, S, q)
        PROVE  TodoInv'
    BY <1>0, <1>5 DEF SplitProduct, TodoInv, Pending, flushVars
  <1>6. CASE /\ ~BeginFlush /\ ~FinishSummary /\ ~EndFlush /\ ~Crash
             /\ ~ \E e \in Events, o \in Offers, claims \in BOOLEAN : CreateEvent(e, o, claims)
             /\ ~ \E p, q \in Products, S \in SUBSET Offers : SplitProduct(p, S, q)
    <2>1. UNCHANGED <<status, todo, used>>
      BY <1>6 DEF Next, Flush, Faults, Others, NextSummary, SkipUnconfigured, SkipSent, StartSend,
         SendSucceeds, SendFails, SendUnrecorded, Restart, GoStale, SeenAgain, MergeProducts,
         SwitchChannel, SetNetworkEnabled, vars, dbVars, flushVars, historyVars
    <2>2. QED
      BY <1>0, <2>1 DEF TodoInv, Pending
  <1>7. QED
    BY <1>1, <1>2, <1>3, <1>4, <1>5, <1>6

LEMMA LoopNext == IInv /\ [Next]_vars => LoopInv'
  <1> SUFFICES ASSUME IInv, [Next]_vars PROVE LoopInv'
    OBVIOUS
  <1> USE DEF LoopInv, InFlush, AtGroup
  <1>0. TypeOK /\ StoreInv /\ LoopInv /\ NumChannels \in Nat
    BY NotificationAssumption DEF IInv
  <1>1. CASE BeginFlush
    BY <1>0, <1>1 DEF BeginFlush, StoreInv
  <1>2. ASSUME NEW g \in todo, NextSummary(g) PROVE LoopInv'
    <2>1. \A c \in Channels : ~(c < at')
      BY <1>0, <1>2 DEF NextSummary, Channels
    <2>2. QED
      BY <1>0, <1>2, <2>1 DEF NextSummary, TypeOK, historyVars
  <1>3. \A c \in Channels : c < at + 1 => c < at \/ c = at
    BY <1>0 DEF Channels, TypeOK
  <1>4. pc = "sending" => at \in Channels /\ group.ids \in SUBSET Events
    BY <1>0 DEF TypeOK, DedupKey
  <1>5. CASE SkipUnconfigured
    BY <1>0, <1>3, <1>5 DEF SkipUnconfigured, TypeOK, historyVars
  <1>6. CASE SkipSent
    <2>1. SentInv /\ group \in DedupKey /\ at \in Channels
      BY <1>0, <1>6 DEF IInv, TypeOK, SkipSent
    <2>2. group.ids \subseteq confirmed[at]
      BY <1>6, <2>1 DEF SkipSent, SentInv
    <2>3. QED
      BY <1>0, <1>3, <1>6, <2>2 DEF SkipSent, TypeOK, historyVars
  <1>7. CASE StartSend
    BY <1>0, <1>7 DEF StartSend, dbVars, flushVars, historyVars
  <1>8. CASE SendSucceeds
    <2>1. \A c \in Channels : confirmed[c] \subseteq confirmed'[c]
      BY <1>0, <1>8 DEF SendSucceeds, TypeOK
    <2>2. group.ids \subseteq confirmed'[at]
      BY <1>0, <1>4, <1>8 DEF SendSucceeds, TypeOK
    <2>3. QED
      BY <1>0, <1>3, <1>8, <2>1, <2>2 DEF SendSucceeds, TypeOK
  <1>9. CASE SendFails
    BY <1>0, <1>9 DEF SendFails, historyVars
  <1>10. CASE SendUnrecorded
    <2>1. \A c \in Channels : confirmed[c] \subseteq confirmed'[c]
      BY <1>0, <1>10 DEF SendUnrecorded, TypeOK
    <2>2. group.ids \subseteq confirmed'[at]
      BY <1>0, <1>4, <1>10 DEF SendUnrecorded, TypeOK
    <2>3. QED
      BY <1>0, <1>3, <1>10, <2>1, <2>2 DEF SendUnrecorded, TypeOK
  <1>11. CASE FinishSummary
    BY <1>0, <1>11 DEF FinishSummary, historyVars
  <1>12. CASE EndFlush \/ Crash \/ Restart
    BY <1>12 DEF EndFlush, Crash, Restart
  <1>13. ASSUME NEW c \in Switchable, SwitchChannel(c) PROVE LoopInv'
    BY <1>0, <1>13 DEF SwitchChannel, dbVars, flushVars
  <1>14. CASE \/ UNCHANGED vars
              \/ \E e \in Events, o \in Offers, claims \in BOOLEAN : CreateEvent(e, o, claims)
              \/ \E o \in Offers : GoStale(o) \/ SeenAgain(o)
              \/ \E p, q \in Products : MergeProducts(p, q)
              \/ \E p, q \in Products, S \in SUBSET Offers : SplitProduct(p, S, q)
              \/ \E on \in BOOLEAN : SetNetworkEnabled(on)
    <2>1. UNCHANGED <<pc, flushVars, row, confirmed, switched>>
      BY <1>14 DEF CreateEvent, GoStale, SeenAgain, MergeProducts, SplitProduct, SetNetworkEnabled,
         vars, dbVars, historyVars
    <2>2. QED
      BY <1>0, <2>1 DEF flushVars
  <1>15. QED
    BY <1>1, <1>2, <1>5, <1>6, <1>7, <1>8, <1>9, <1>10, <1>11, <1>12, <1>13, <1>14
       DEF Next, Flush, Faults, Others

LEMMA RecordNext == IInv /\ [Next]_vars => RecordInv'
  <1> SUFFICES ASSUME IInv, [Next]_vars PROVE RecordInv'
    OBVIOUS
  <1>0. TypeOK /\ StoreInv /\ TodoInv /\ LoopInv /\ RecordInv /\ NumChannels \in Nat /\ MaxFaults \in Nat
    BY NotificationAssumption DEF IInv
  <1> DEFINE Excused(c, k) == \/ row[c][k] = "sent"
                              \/ c \in switched
                              \/ faults > 0
                              \/ k.product \notin live /\ (k \in todo => AtGroup /\ k = group /\ c < at)
  <1>1. \A c \in Channels, k \in DedupKey :
           <<c, k>> \in summaries => k.product \in used /\ Excused(c, k)
    BY <1>0 DEF RecordInv
  <1>2. SUFFICES ASSUME NEW c \in Channels, NEW k \in DedupKey, <<c, k>> \in summaries'
                 PROVE  (k.product \in used)' /\ Excused(c, k)'
    BY DEF RecordInv
  <1> HIDE DEF Excused
  <1>3. pc = "sending" => at \in Channels /\ group.product \in used
    BY <1>0 DEF TypeOK, LoopInv, AtGroup, TodoInv
  <1>4. CASE BeginFlush
    <2>1. <<c, k>> \in summaries /\ UNCHANGED <<live, used, row, switched, faults>>
      BY <1>2, <1>4 DEF BeginFlush
    <2>2. Pending \ Stale \in SUBSET Events
      BY DEF Pending
    <2>3. k \in todo' => k.product \in live
      BY <1>0, <1>4, <2>2, SummariesGroup DEF BeginFlush
    <2>4. QED
      BY <1>1, <2>1, <2>3 DEF Excused
  <1>5. ASSUME NEW g \in todo, NextSummary(g) PROVE (k.product \in used)' /\ Excused(c, k)'
    BY <1>1, <1>2, <1>5 DEF NextSummary, Excused, AtGroup, dbVars, historyVars
  <1>6. CASE SkipUnconfigured
    <2>1. at \in switched /\ at \in Channels /\ <<c, k>> \in summaries
          /\ UNCHANGED <<live, used, switched, faults, todo, group, pc>> /\ at' = at + 1
          /\ Upsert(at, "skipped")
      BY <1>0, <1>2, <1>6 DEF SkipUnconfigured, LoopInv, InFlush, historyVars
    <2>2. c \in switched \/ row'[c][k] = row[c][k]
      BY <1>0, <2>1, UpsertEffect DEF RowStatus
    <2>3. c < at => c < at'
      BY <2>1 DEF Channels
    <2>4. QED
      BY <1>1, <2>1, <2>2, <2>3 DEF Excused, AtGroup
  <1>7. CASE SkipSent
    <2>1. <<c, k>> \in summaries /\ at' = at + 1
          /\ UNCHANGED <<live, used, row, switched, faults, todo, group, pc>>
      BY <1>2, <1>7 DEF SkipSent, dbVars, historyVars
    <2>2. c < at => c < at'
      BY <1>0, <2>1 DEF Channels, TypeOK
    <2>3. QED
      BY <1>1, <2>1, <2>2 DEF Excused, AtGroup
  <1>8. CASE StartSend
    BY <1>1, <1>2, <1>8 DEF StartSend, Excused, AtGroup, dbVars, flushVars, historyVars
  <1>9. CASE SendSucceeds
    <2>1. /\ Upsert(at, "sent") /\ at \in Channels /\ at' = at + 1 /\ pc = "sending" /\ pc' = "group"
          /\ UNCHANGED <<live, used, switched, faults, todo, group>>
          /\ summaries' = summaries \cup {<<at, group>>}
      BY <1>3, <1>9 DEF SendSucceeds
    <2>2. row'[c][k] = IF c = at /\ k = group /\ Recordable(c, k) THEN "sent" ELSE row[c][k]
      BY <1>0, <2>1, UpsertEffect DEF RowStatus
    <2>3. c <= at => c < at'
      BY <2>1 DEF Channels
    <2>4. CASE c = at /\ k = group
      <3>1. c < at'
        BY <2>1, <2>4 DEF Channels
      <3>2. QED
        BY <1>3, <2>1, <2>2, <2>4, <3>1 DEF Recordable, Excused, AtGroup
    <2>5. CASE <<c, k>> \in summaries
      <3>1. c < at => c < at'
        BY <2>1 DEF Channels
      <3>2. QED
        BY <1>1, <2>1, <2>2, <2>5, <3>1 DEF Excused, AtGroup
    <2>6. QED
      BY <1>2, <2>1, <2>4, <2>5
  <1>10. CASE SendFails
    <2>1. /\ Upsert(at, "failed") /\ at \in Channels /\ at' = at + 1 /\ pc = "sending" /\ pc' = "group"
          /\ UNCHANGED <<live, used, switched, faults, todo, group>>
          /\ <<c, k>> \in summaries
      BY <1>2, <1>3, <1>10 DEF SendFails, historyVars
    <2>2. row'[c][k] = IF c = at /\ k = group /\ Recordable(c, k) THEN "failed" ELSE row[c][k]
      BY <1>0, <2>1, UpsertEffect DEF RowStatus
    <2>3. c < at => c < at'
      BY <2>1 DEF Channels
    <2>4. group \in todo /\ row[at][group] # "sent" /\ ~(at < at)
      BY <1>0, <2>1 DEF LoopInv, AtGroup, Channels
    <2>5. QED
      BY <1>1, <2>1, <2>2, <2>3, <2>4 DEF Excused, AtGroup
  <1>11. CASE SendUnrecorded
    <2>1. faults' > 0 /\ used' = used /\ summaries' = summaries \cup {<<at, group>>} /\ pc = "sending"
      BY <1>0, <1>11 DEF SendUnrecorded, TypeOK, dbVars
    <2>2. QED
      BY <1>1, <1>2, <1>3, <2>1 DEF Excused
  <1>12. CASE FinishSummary
    <2>1. <<c, k>> \in summaries /\ todo' = todo \ {group}
          /\ UNCHANGED <<live, used, row, switched, faults>>
      BY <1>2, <1>12 DEF FinishSummary, historyVars
    <2>2. QED
      BY <1>1, <2>1 DEF Excused
  <1>13. CASE EndFlush
    <2>1. <<c, k>> \in summaries /\ todo' = {} /\ UNCHANGED <<live, used, row, switched, faults>>
      BY <1>2, <1>13 DEF EndFlush, ForgetFlush, dbVars, historyVars
    <2>2. QED
      BY <1>1, <2>1 DEF Excused
  <1>14. CASE Crash
    <2>1. <<c, k>> \in summaries /\ used' = used /\ faults' > 0
      BY <1>0, <1>2, <1>14 DEF Crash, TypeOK, dbVars, historyVars
    <2>2. QED
      BY <1>1, <2>1 DEF Excused
  <1>15. CASE Restart
    BY <1>1, <1>2, <1>15 DEF Restart, Excused, AtGroup, dbVars, flushVars, historyVars
  <1>16. ASSUME NEW p \in Products, NEW q \in Products, MergeProducts(p, q)
         PROVE  (k.product \in used)' /\ Excused(c, k)'
    <2>1. /\ <<c, k>> \in summaries /\ live' = live \ {p}
          /\ UNCHANGED <<used, row, switched, faults, todo, group, at, pc>>
      BY <1>2, <1>16 DEF MergeProducts, flushVars, historyVars
    <2>2. QED
      BY <1>1, <2>1 DEF Excused, AtGroup
  <1>17. ASSUME NEW p \in Products, NEW q \in Products, NEW S \in SUBSET Offers, SplitProduct(p, S, q)
         PROVE  (k.product \in used)' /\ Excused(c, k)'
    <2>1. /\ <<c, k>> \in summaries /\ live' = live \cup {q} /\ used' = used \cup {q} /\ q \notin used
          /\ UNCHANGED <<row, switched, faults, todo, group, at, pc>>
      BY <1>2, <1>17 DEF SplitProduct, flushVars, historyVars
    <2>2. QED
      BY <1>1, <2>1 DEF Excused, AtGroup
  <1>18. ASSUME NEW d \in Switchable, SwitchChannel(d) PROVE (k.product \in used)' /\ Excused(c, k)'
    BY <1>1, <1>2, <1>18 DEF SwitchChannel, Excused, AtGroup, dbVars, flushVars
  <1>19. CASE \/ UNCHANGED vars
              \/ \E e \in Events, o \in Offers, claims \in BOOLEAN : CreateEvent(e, o, claims)
              \/ \E o \in Offers : GoStale(o) \/ SeenAgain(o)
              \/ \E on \in BOOLEAN : SetNetworkEnabled(on)
    <2>1. UNCHANGED <<live, used, row, switched, faults, pc, flushVars, summaries>>
      BY <1>19 DEF CreateEvent, GoStale, SeenAgain, SetNetworkEnabled, vars, dbVars, historyVars
    <2>2. QED
      BY <1>1, <1>2, <2>1 DEF Excused, AtGroup, flushVars
  <1>20. QED
    BY <1>4, <1>5, <1>6, <1>7, <1>8, <1>9, <1>10, <1>11, <1>12, <1>13, <1>14, <1>15, <1>16, <1>17,
       <1>18, <1>19 DEF Next, Flush, Faults, Others

LEMMA UnbornNext == IInv /\ [Next]_vars => UnbornInv'
  <1> SUFFICES ASSUME IInv, [Next]_vars PROVE UnbornInv'
    OBVIOUS
  <1>0. TypeOK /\ TodoInv /\ LoopInv /\ UnbornInv
    BY DEF IInv
  <1>1. CASE BeginFlush \/ FinishSummary
    BY <1>0, <1>1 DEF BeginFlush, FinishSummary, Stale, Pending, TypeOK, TodoInv, LoopInv, AtGroup, UnbornInv
  <1>2. ASSUME NEW e \in Events, NEW o \in Offers, NEW claims \in BOOLEAN, CreateEvent(e, o, claims)
        PROVE  UnbornInv'
    BY <1>0, <1>2 DEF CreateEvent, TypeOK, UnbornInv
  <1>3. CASE /\ ~BeginFlush /\ ~FinishSummary
             /\ ~ \E e \in Events, o \in Offers, claims \in BOOLEAN : CreateEvent(e, o, claims)
    <2>1. UNCHANGED <<status, buyable>>
      BY <1>3 DEF Next, Flush, Faults, Others, NextSummary, SkipUnconfigured, SkipSent, StartSend,
         SendSucceeds, SendFails, EndFlush, SendUnrecorded, Crash, Restart, GoStale, SeenAgain,
         MergeProducts, SplitProduct, SwitchChannel, SetNetworkEnabled, vars, dbVars, flushVars,
         historyVars
    <2>2. QED
      BY <1>0, <2>1 DEF UnbornInv
  <1>4. QED
    BY <1>1, <1>2, <1>3

LEMMA InductiveInvariant == Spec => []IInv
  <1>1. IInv /\ [Next]_vars => IInv'
    BY TypeNext, StoreNext, SentNext, TodoNext, LoopNext, RecordNext, UnbornNext DEF IInv
  <1>2. QED
    BY InitIInv, <1>1, PTL DEF Spec

-----------------------------------------------------------------------------
(* Theorems *)

\* Every variable keeps its type.  The loop index of flushNotifications stays
\* within the notifiers only because it is one of them whenever a send is out.
THEOREM TypeCorrect == Spec => []TypeOK
  <1>1. IInv => TypeOK
    BY DEF IInv
  <1>2. QED
    BY InductiveInvariant, <1>1, PTL

\* The dedup row of src/notify/queue.js keeps a confirmed summary from being sent
\* again, unless its channel was switched or a kill or failed write lost it.
THEOREM ConfirmedSummariesStayQuiet == Spec => NoRepeatedSummary
  <1>1. IInv /\ [Next]_vars =>
           [pc = "group" /\ pc' = "sending" /\ <<at, group>> \in summaries
              => at \in switched \/ faults > 0]_vars
    <2> SUFFICES ASSUME IInv, [Next]_vars, pc = "group", pc' = "sending", <<at, group>> \in summaries
                 PROVE  at \in switched \/ faults > 0
      OBVIOUS
    <2>1. StartSend
      BY DEF Next, Flush, Faults, Others, BeginFlush, NextSummary, SkipUnconfigured, SkipSent,
         SendSucceeds, SendFails, FinishSummary, EndFlush, SendUnrecorded, Crash, Restart, CreateEvent,
         GoStale, SeenAgain, MergeProducts, SplitProduct, SwitchChannel, SetNetworkEnabled, vars, dbVars,
         flushVars, historyVars
    <2>2. at \in Channels /\ group \in DedupKey /\ group \in todo /\ row[at][group] # "sent"
      BY <2>1 DEF IInv, TypeOK, LoopInv, AtGroup, StartSend
    <2>3. ~(at < at)
      BY <2>2 DEF Channels
    <2>4. QED
      BY <2>2, <2>3 DEF IInv, RecordInv
  <1>2. QED
    BY InductiveInvariant, <1>1, PTL DEF Spec, NoRepeatedSummary

-----------------------------------------------------------------------------
(* The queue implements AtLeastOnceDelivery *)

\* The life cycle the refinement mapping shows to the abstract queue.
LifeCycle == [e \in Events |-> CASE status[e] = "none"     -> "unborn"
                                 [] status[e] = "pending"  -> "open"
                                 [] status[e] = "notified" -> "closed"]

Perishable == {e \in Events : buyable[e]}

LEMMA LifeCycleOf ==
    ASSUME TypeOK
    PROVE  \A e \in Events : /\ status[e] = "none" <=> LifeCycle[e] = "unborn"
                             /\ status[e] = "pending" <=> LifeCycle[e] = "open"
                             /\ status[e] = "notified" <=> LifeCycle[e] = "closed"
  BY DEF TypeOK, LifeCycle

LEMMA OpenIsPending == ASSUME TypeOK PROVE Promise!Open = Pending
  <1>1. \A e \in Events : LifeCycle[e] = "open" <=> status[e] = "pending"
    BY LifeCycleOf
  <1>2. QED
    BY <1>1 DEF Promise!Open, Pending, LifeCycle

\* Marking pending events notified closes them, and them only.
LEMMA MarkNotified ==
    ASSUME TypeOK, NEW S \in SUBSET Events,
           status' = [e \in Events |-> IF e \in S THEN "notified" ELSE status[e]]
    PROVE  Promise!Close(S)
  <1>1. LifeCycle' = [e \in Events |-> IF e \in S THEN "closed" ELSE LifeCycle[e]]
    BY DEF TypeOK, LifeCycle
  <1>2. QED
    BY <1>1 DEF Promise!Close, LifeCycle

LEMMA UnchangedLifeCycle ==
    ASSUME UNCHANGED status
    PROVE  /\ UNCHANGED LifeCycle
           /\ Promise!Close({})
  <1>1. UNCHANGED LifeCycle
    BY DEF LifeCycle
  <1>2. \A e \in Events : LifeCycle[e] = IF e \in {} THEN "closed" ELSE LifeCycle[e]
    OBVIOUS
  <1>3. LifeCycle' = [e \in Events |-> IF e \in {} THEN "closed" ELSE LifeCycle[e]]
    BY <1>1, <1>2 DEF LifeCycle
  <1>4. QED
    BY <1>1, <1>3 DEF Promise!Close, LifeCycle

LEMMA InitRefines == Init => Promise!Init
  BY DEF Init, Promise!Init

LEMMA StepRefines == IInv /\ [Next]_vars => [Promise!Next]_(Promise!vars)
  <1> SUFFICES ASSUME IInv, [Next]_vars PROVE [Promise!Next]_(Promise!vars)
    OBVIOUS
  <1>0. TypeOK /\ TodoInv /\ LoopInv /\ UnbornInv /\ NumChannels \in Nat
    BY NotificationAssumption DEF IInv
  <1>1. Promise!Open = Pending
    BY <1>0, OpenIsPending
  <1>2. CASE BeginFlush
    <2>1. PICK S \in SUBSET Events : S = Stale /\ S \subseteq Promise!Open \cap Perishable
      BY <1>1 DEF Stale, Pending, Perishable
    <2>2. Promise!Close(S)
      BY <1>0, <1>2, <2>1, MarkNotified DEF BeginFlush
    <2>3. PICK C \in SUBSET Channels : C = configured
      BY <1>0 DEF TypeOK
    <2>4. Promise!Round(C, S)
      BY <1>2, <2>1, <2>2, <2>3 DEF BeginFlush, Promise!Round, Perishable
    <2>5. QED
      BY <2>4 DEF Promise!Next
  <1>3. CASE EndFlush \/ Crash
    <2>1. Promise!Close({})
      BY <1>3, UnchangedLifeCycle DEF EndFlush, Crash, dbVars
    <2>2. Promise!Round({}, {})
      BY <1>3, <2>1 DEF EndFlush, Crash, ForgetFlush, dbVars, historyVars, Promise!Round
    <2>3. QED
      BY <2>2 DEF Promise!Next
  <1>4. CASE SendSucceeds \/ SendUnrecorded
    <2>1. at \in using /\ at \in Channels /\ group \in todo
      BY <1>0, <1>4 DEF SendSucceeds, SendUnrecorded, LoopInv, AtGroup, TypeOK
    <2>2. group.ids \in SUBSET Events /\ group.ids \subseteq Promise!Open
      BY <1>0, <1>1, <2>1 DEF TodoInv, Pending
    <2>3. UNCHANGED <<LifeCycle, buyable, using, suppressed>>
      BY <1>4, UnchangedLifeCycle DEF SendSucceeds, SendUnrecorded, dbVars
    <2>4. confirmed' = [confirmed EXCEPT ![at] = @ \cup group.ids]
      BY <1>4 DEF SendSucceeds, SendUnrecorded
    <2>5. Promise!Confirm(at, group.ids)
      BY <2>1, <2>2, <2>3, <2>4 DEF Promise!Confirm, LifeCycle
    <2>6. QED
      BY <2>1, <2>2, <2>5 DEF Promise!Next
  <1>5. CASE FinishSummary /\ ~blocked
    <2>1. group \in todo /\ Local \subseteq using
          /\ \A c \in using : c < at => group.ids \subseteq confirmed[c]
      BY <1>0, <1>5 DEF FinishSummary, LoopInv, InFlush, AtGroup
    <2>2. \A c \in Channels : c < at
      BY <1>0, <1>5 DEF FinishSummary, TypeOK, Channels
    <2>3. \A c \in using : group.ids \subseteq confirmed[c]
      BY <1>0, <2>1, <2>2 DEF TypeOK
    <2>4. PICK S \in SUBSET Events : S = group.ids /\ S \subseteq Promise!Open
      BY <1>0, <1>1, <2>1 DEF TodoInv, Pending
    <2>5. Promise!Close(S)
      BY <1>0, <1>5, <2>4, MarkNotified DEF FinishSummary
    <2>6. Promise!Deliver(S)
      BY <1>5, <2>1, <2>3, <2>4, <2>5 DEF FinishSummary, historyVars, Promise!Deliver
    <2>7. QED
      BY <2>6 DEF Promise!Next
  <1>6. ASSUME NEW e \in Events, NEW o \in Offers, NEW claims \in BOOLEAN, CreateEvent(e, o, claims)
        PROVE  Promise!Next
    <2>1. LifeCycle[e] = "unborn"
      BY <1>0, <1>6, LifeCycleOf DEF CreateEvent
    <2>2. LifeCycle' = [LifeCycle EXCEPT ![e] = "open"]
      BY <1>0, <1>6 DEF CreateEvent, TypeOK, LifeCycle
    <2>3. Perishable' \in {Perishable, Perishable \cup {e}}
      <3>1. status[e] = "none" /\ ~buyable[e]
        BY <1>0, <1>6 DEF CreateEvent, UnbornInv
      <3>2. \A d \in Events : buyable'[d] = IF d = e THEN claims ELSE buyable[d]
        BY <1>0, <1>6 DEF CreateEvent, TypeOK
      <3>3. CASE claims
        BY <3>2, <3>3 DEF Perishable
      <3>4. CASE ~claims
        BY <3>1, <3>2, <3>4 DEF Perishable
      <3>5. QED
        BY <3>3, <3>4
    <2>4. UNCHANGED <<using, confirmed, suppressed>>
      BY <1>6 DEF CreateEvent, flushVars, historyVars
    <2>5. Promise!Create(e)
      BY <2>1, <2>2, <2>3, <2>4 DEF Promise!Create, LifeCycle, Perishable
    <2>6. QED
      BY <2>5 DEF Promise!Next
  <1>7. CASE /\ ~BeginFlush /\ ~EndFlush /\ ~Crash /\ ~SendSucceeds /\ ~SendUnrecorded
             /\ ~(FinishSummary /\ ~blocked)
             /\ ~ \E e \in Events, o \in Offers, claims \in BOOLEAN : CreateEvent(e, o, claims)
    <2>1. UNCHANGED <<status, buyable, using, confirmed, suppressed>>
      BY <1>7 DEF Next, Flush, Faults, Others, NextSummary, SkipUnconfigured, SkipSent, StartSend,
         SendFails, FinishSummary, Restart, GoStale, SeenAgain, MergeProducts, SplitProduct,
         SwitchChannel, SetNetworkEnabled, vars, dbVars, flushVars, historyVars
    <2>2. UNCHANGED LifeCycle
      BY <2>1, UnchangedLifeCycle
    <2>3. UNCHANGED Promise!vars
      BY <2>1, <2>2 DEF Promise!vars, LifeCycle
    <2>4. QED
      BY <2>3
  <1>8. QED
    BY <1>2, <1>3, <1>4, <1>5, <1>6, <1>7

\* flushNotifications keeps the promise of an at-least-once queue: whatever else
\* happens while it awaits a send, an event is only marked notified once every
\* channel of the flush confirmed it, or as a stale claim that is dropped.
THEOREM ImplementsAtLeastOnce == Spec => KeepsPromise
  <1>1. Init => Promise!Init
    BY InitRefines
  <1>2. IInv /\ [Next]_vars => [Promise!Next]_(Promise!vars)
    BY StepRefines
  <1>3. QED
    BY InductiveInvariant, <1>1, <1>2, PTL DEF Spec, KeepsPromise, Promise!Spec
-----------------------------------------------------------------------------
(* What the promise is worth: the guarantee of the abstract queue, read back *)
(* through the refinement mapping.                                           *)

LEMMA Accounting ==
    ASSUME TypeOK, Promise!Accounted, [Promise!Next]_(Promise!vars)
    PROVE  Promise!Accounted'
  <1> USE DEF Promise!Accounted
  <1>1. confirmed \in [Channels -> SUBSET Events] /\ Local \subseteq Channels
    BY NotificationAssumption DEF TypeOK
  <1>2. ASSUME NEW e \in Events, Promise!Create(e) PROVE Promise!Accounted'
    <2>1. LifeCycle' = [LifeCycle EXCEPT ![e] = "open"] /\ UNCHANGED <<confirmed, suppressed>>
      BY <1>2 DEF Promise!Create, LifeCycle
    <2>2. Perishable \subseteq Perishable'
      BY <1>2 DEF Promise!Create, Perishable
    <2>3. \A d \in Events : LifeCycle'[d] = "closed" => LifeCycle[d] = "closed"
      <3>1. DOMAIN LifeCycle = Events
        BY DEF LifeCycle
      <3>2. QED
        BY <2>1, <3>1
    <2>4. \A d \in Events : LifeCycle[d] = "closed" =>
              (\A c \in Local : d \in confirmed[c]) \/ d \in suppressed \cap Perishable
      BY DEF LifeCycle, Perishable
    <2>5. \A d \in Events : LifeCycle'[d] = "closed" =>
              (\A c \in Local : d \in confirmed'[c]) \/ d \in suppressed' \cap Perishable'
      BY <2>1, <2>2, <2>3, <2>4
    <2>6. QED
      BY <2>5 DEF LifeCycle, Perishable
  <1>3. ASSUME NEW C, NEW S, Promise!Round(C, S) PROVE Promise!Accounted'
    BY <1>3 DEF Promise!Round, Promise!Close
  <1>4. ASSUME NEW c \in Channels, NEW S, Promise!Confirm(c, S) PROVE Promise!Accounted'
    <2>1. \A d \in Channels : confirmed[d] \subseteq confirmed'[d]
      BY <1>1, <1>4 DEF Promise!Confirm
    <2>2. QED
      BY <1>1, <1>4, <2>1 DEF Promise!Confirm
  <1>5. ASSUME NEW S, Promise!Deliver(S) PROVE Promise!Accounted'
    BY <1>5 DEF Promise!Deliver, Promise!Close
  <1>6. CASE UNCHANGED Promise!vars
    BY <1>6 DEF Promise!vars
  <1>7. QED
    BY <1>2, <1>3, <1>4, <1>5, <1>6 DEF Promise!Next

\* An event marked notified reached every local channel, or was a claim that
\* something is buyable and was dropped as stale.
NothingLost ==
    \A e \in Events : status[e] = "notified" =>
        \/ \A c \in Local : e \in confirmed[c]
        \/ e \in suppressed /\ buyable[e]

\* No event is retired unsent by any interleaving of failed sends, unrecorded rows,
\* kills, merges and splits, except the stale claims flushNotifications drops itself.
THEOREM EventsAreDelivered == Spec => []NothingLost
  <1>1. Init => Promise!Accounted
    BY DEF Init, Promise!Accounted
  <1>2. IInv /\ Promise!Accounted /\ [Next]_vars => Promise!Accounted'
    BY StepRefines, Accounting DEF IInv
  <1>3. IInv /\ Promise!Accounted => NothingLost
    <2>1. SUFFICES ASSUME TypeOK, Promise!Accounted, NEW e \in Events, status[e] = "notified"
                   PROVE  \/ \A c \in Local : e \in confirmed[c]
                          \/ e \in suppressed /\ buyable[e]
      BY DEF NothingLost, IInv
    <2>2. LifeCycle[e] = "closed"
      BY <2>1, LifeCycleOf
    <2>3. QED
      BY <2>1, <2>2 DEF Promise!Accounted, LifeCycle
  <1>4. QED
    BY InductiveInvariant, <1>1, <1>2, <1>3, PTL DEF Spec
=============================================================================

--------------------------- MODULE AlertQueue_proofs ---------------------------
(***************************************************************************)
(* Proofs about AlertQueue, for any number of alerts, channels, products and *)
(* watchlists and any bounds: type correctness, that only a lost row makes a *)
(* channel repeat an alert, and that the queue implements                    *)
(* AtLeastOnceDelivery although a throw may end any of its flushes.          *)
(***************************************************************************)
EXTENDS AlertQueue, TLAPS

InFlush == pc \in {"flushing", "alert", "sending"}
AtAlert == pc \in {"alert", "sending"}

\* What a flush still has to send is pending, or was deleted since it was read.
TodoInv == todo \subseteq Pending \cup withdrawn

\* Channels the loop has passed without a failure have confirmed the alert.
LoopInv ==
    /\ Local \subseteq configured
    /\ InFlush => Local \subseteq using
    /\ AtAlert => alert \in todo
    /\ pc = "sending" => at \in using /\ row[at][alert] # "sent"
    /\ AtAlert /\ ~blocked => \A c \in using : c < at => alert \in confirmed[c]

\* A row says sent exactly when the channel confirmed and the row is not lost.
RecordInv ==
    \A c \in Channels, a \in Alerts :
        /\ row[c][a] = "sent" => a \in confirmed[c]
        /\ a \in confirmed[c] => row[c][a] = "sent" \/ <<c, a>> \in lost

\* A withdrawn alert has been deleted.
WithdrawnInv == \A a \in withdrawn : status[a] = "deleted"

IInv == TypeOK /\ TodoInv /\ LoopInv /\ RecordInv /\ WithdrawnInv

-----------------------------------------------------------------------------
LEMMA InitIInv == Init => IInv
  <1> SUFFICES ASSUME Init PROVE IInv
    OBVIOUS
  <1>1. NumChannels \in Nat /\ MaxFaults \in Nat /\ 1 \in Alerts /\ 1 \in 1..(NumChannels + 1)
    BY AlertAssumption DEF Alerts
  <1>2. (CHOOSE w \in Watchlists : TRUE) \in Watchlists
    BY AlertAssumption
  <1>3. TypeOK
    <2>1. PICK w \in Watchlists : owner = [a \in Alerts |-> w]
      BY <1>2 DEF Init
    <2>2. owner \in [Alerts -> Watchlists]
      BY <2>1
    <2>3. /\ status \in [Alerts -> {"none", "pending", "notified", "deleted"}]
          /\ about \in [Alerts -> Products \cup {NoProduct}]
          /\ snapshot \in [Alerts -> Products \cup {NoProduct}]
      BY DEF Init
    <2>4. /\ row \in [Channels -> [Alerts -> {"none", "failed", "sent"}]]
          /\ confirmed \in [Channels -> SUBSET Alerts]
      BY DEF Init
    <2>5. /\ lists = Watchlists /\ live = Products /\ configured = Channels
          /\ pc = "idle" /\ using = {} /\ todo = {} /\ alert = 1 /\ at = 1
          /\ faults = 0 /\ lost = {} /\ withdrawn = {}
      BY DEF Init
    <2>6. network \in BOOLEAN /\ blocked \in BOOLEAN
      BY DEF Init
    <2>7. faults \in 0..MaxFaults /\ at \in 1..(NumChannels + 1) /\ alert \in Alerts
      BY <1>1, <2>5
    <2>8. /\ lists \subseteq Watchlists /\ live \subseteq Products
          /\ configured \subseteq Channels /\ using \subseteq Channels /\ todo \subseteq Alerts
          /\ lost \subseteq Channels \X Alerts /\ withdrawn \subseteq Alerts
      BY <2>5
    <2>9. QED
      BY <2>2, <2>3, <2>4, <2>5, <2>6, <2>7, <2>8 DEF TypeOK
  <1>4. TodoInv /\ RecordInv /\ WithdrawnInv
    BY DEF Init, TodoInv, RecordInv, WithdrawnInv
  <1>5. LoopInv
    BY AlertAssumption DEF Init, LoopInv, InFlush, AtAlert
  <1>6. QED
    BY <1>3, <1>4, <1>5 DEF IInv

-----------------------------------------------------------------------------
(* Every step preserves the invariant *)

LEMMA TypeNext == IInv /\ [Next]_vars => TypeOK'
  <1> SUFFICES ASSUME IInv, [Next]_vars PROVE TypeOK'
    OBVIOUS
  <1> USE DEF TypeOK
  <1>0. TypeOK /\ LoopInv /\ NumChannels \in Nat /\ MaxFaults \in Nat
    BY AlertAssumption DEF IInv
  <1>1. at \in Channels => at + 1 \in 1..(NumChannels + 1)
    BY <1>0 DEF Channels
  <1>2. pc = "sending" => at \in using /\ at \in Channels
    BY <1>0 DEF LoopInv
  <1>3. 1 \in Alerts /\ 1 \in 1..(NumChannels + 1) /\ Unread \in [Alerts -> Products \cup {NoProduct}]
    BY <1>0, AlertAssumption DEF Alerts, Unread
  <1>4. faults < MaxFaults => faults + 1 \in 0..MaxFaults
    BY <1>0
  <1>5. CASE BeginFlush
    BY <1>0, <1>5 DEF BeginFlush, Pending, dbVars, historyVars
  <1>22. CASE BeginTick \/ EventsThrow
    BY <1>0, <1>4, <1>22 DEF BeginTick, EventsThrow, dbVars, flushVars, historyVars
  <1>6. CASE NextAlert
    BY <1>0, <1>3, <1>6 DEF NextAlert, dbVars, historyVars
  <1>7. CASE SkipChannel
    BY <1>0, <1>1, <1>7 DEF SkipChannel, dbVars, historyVars
  <1>8. CASE StartSend
    BY <1>0, <1>8 DEF StartSend, dbVars, flushVars, historyVars
  <1>9. ASSUME NEW s \in {"sent", "failed"}, SendRecorded(s) PROVE TypeOK'
    <2>1. row' \in [Channels -> [Alerts -> {"none", "failed", "sent"}]]
      BY <1>0, <1>2, <1>9 DEF SendRecorded
    <2>2. confirmed' \in [Channels -> SUBSET Alerts]
      BY <1>0, <1>2, <1>9 DEF SendRecorded, Reported
    <2>3. lost' \subseteq Channels \X Alerts
      BY <1>0, <1>9 DEF SendRecorded
    <2>4. QED
      BY <1>0, <1>1, <1>2, <1>9, <2>1, <2>2, <2>3 DEF SendRecorded
  <1>10. ASSUME NEW s \in {"sent", "failed"}, RecordThrows(s) PROVE TypeOK'
    <2>1. confirmed' \in [Channels -> SUBSET Alerts]
      BY <1>0, <1>2, <1>10 DEF RecordThrows, Reported
    <2>2. lost' \subseteq Channels \X Alerts
      BY <1>0, <1>2, <1>10 DEF RecordThrows
    <2>3. faults' \in 0..MaxFaults
      BY <1>0, <1>4, <1>10 DEF RecordThrows
    <2>4. QED
      BY <1>0, <1>3, <1>10, <2>1, <2>2, <2>3 DEF RecordThrows, ForgetFlush, dbVars
  <1>11. CASE FinishAlert
    <2>1. status' \in [Alerts -> {"none", "pending", "notified", "deleted"}]
      BY <1>0, <1>11 DEF FinishAlert
    <2>2. QED
      BY <1>0, <1>11, <2>1 DEF FinishAlert, historyVars
  <1>12. CASE EndFlush
    BY <1>0, <1>3, <1>12 DEF EndFlush, ForgetFlush, dbVars, historyVars
  <1>13. CASE Crash
    BY <1>0, <1>3, <1>4, <1>13 DEF Crash, ForgetFlush, dbVars, historyVars
  <1>14. CASE Restart
    BY <1>0, <1>14 DEF Restart, dbVars, flushVars, historyVars
  <1>15. ASSUME NEW a \in Alerts, NEW w \in Watchlists, NEW p \in Products \cup {NoProduct},
                CreateAlert(a, w, p)
         PROVE  TypeOK'
    BY <1>0, <1>15 DEF CreateAlert, flushVars, historyVars
  <1>16. ASSUME NEW w \in Watchlists, DeleteWatchlist(w) PROVE TypeOK'
    <2>1. status' \in [Alerts -> {"none", "pending", "notified", "deleted"}]
      BY <1>0, <1>16 DEF DeleteWatchlist
    <2>2. withdrawn' \subseteq Alerts
      BY <1>0, <1>16 DEF DeleteWatchlist, Pending
    <2>3. QED
      BY <1>0, <1>16, <2>1, <2>2 DEF DeleteWatchlist, flushVars
  <1>17. ASSUME NEW p \in Products, NEW q \in Products, MergeProducts(p, q) PROVE TypeOK'
    BY <1>0, <1>17 DEF MergeProducts, flushVars, historyVars
  <1>18. ASSUME NEW c \in Switchable, SwitchChannel(c) PROVE TypeOK'
    <2>1. c \in Channels
      BY AlertAssumption
    <2>2. QED
      BY <1>0, <1>18, <2>1 DEF SwitchChannel, dbVars, flushVars, historyVars
  <1>19. ASSUME NEW on \in BOOLEAN, SetNetworkEnabled(on) PROVE TypeOK'
    BY <1>0, <1>19 DEF SetNetworkEnabled, flushVars, historyVars
  <1>20. CASE UNCHANGED vars
    BY <1>0, <1>20 DEF vars, dbVars, flushVars, historyVars
  <1>21. QED
    BY <1>5, <1>6, <1>7, <1>8, <1>9, <1>10, <1>11, <1>12, <1>13, <1>14, <1>15, <1>16, <1>17, <1>18,
       <1>19, <1>20, <1>22 DEF Next, Flush, Others

LEMMA WithdrawnNext == IInv /\ [Next]_vars => WithdrawnInv'
  <1> SUFFICES ASSUME IInv, [Next]_vars PROVE WithdrawnInv'
    OBVIOUS
  <1>0. TypeOK /\ WithdrawnInv
    BY DEF IInv
  <1>1. ASSUME NEW w \in Watchlists, DeleteWatchlist(w) PROVE WithdrawnInv'
    BY <1>0, <1>1 DEF DeleteWatchlist, WithdrawnInv, Pending, TypeOK
  <1>2. ASSUME NEW a \in Alerts, NEW w \in Watchlists, NEW p \in Products \cup {NoProduct},
               CreateAlert(a, w, p)
        PROVE  WithdrawnInv'
    BY <1>0, <1>2 DEF CreateAlert, WithdrawnInv, TypeOK, historyVars
  <1>3. CASE FinishAlert
    BY <1>0, <1>3 DEF FinishAlert, WithdrawnInv, TypeOK, historyVars
  <1>4. CASE /\ ~FinishAlert
             /\ ~ \E w \in Watchlists : DeleteWatchlist(w)
             /\ ~ \E a \in Alerts, w \in Watchlists, p \in Products \cup {NoProduct} : CreateAlert(a, w, p)
    <2>1. UNCHANGED <<status, withdrawn>>
      BY <1>4 DEF Next, Flush, Others, BeginTick, EventsThrow, BeginFlush, NextAlert, SkipChannel,
         StartSend, SendRecorded, RecordThrows, EndFlush, Crash, Restart, MergeProducts, SwitchChannel, SetNetworkEnabled,
         vars, dbVars, flushVars, historyVars
    <2>2. QED
      BY <1>0, <2>1 DEF WithdrawnInv
  <1>5. QED
    BY <1>1, <1>2, <1>3, <1>4

LEMMA TodoNext == IInv /\ [Next]_vars => TodoInv'
  <1> SUFFICES ASSUME IInv, [Next]_vars PROVE TodoInv'
    OBVIOUS
  <1>0. TypeOK /\ TodoInv /\ LoopInv
    BY DEF IInv
  <1>1. CASE BeginFlush
    BY <1>1 DEF BeginFlush, TodoInv, Pending, dbVars
  <1>2. CASE FinishAlert
    <2>1. \A a \in Pending : a # alert => a \in Pending'
      BY <1>0, <1>2 DEF FinishAlert, Pending, TypeOK
    <2>2. QED
      BY <1>0, <1>2, <2>1 DEF FinishAlert, TodoInv, historyVars
  <1>3. ASSUME NEW a \in Alerts, NEW w \in Watchlists, NEW p \in Products \cup {NoProduct},
               CreateAlert(a, w, p)
        PROVE  TodoInv'
    <2>1. Pending \subseteq Pending'
      BY <1>0, <1>3 DEF CreateAlert, Pending, TypeOK
    <2>2. QED
      BY <1>0, <1>3, <2>1 DEF CreateAlert, TodoInv, flushVars, historyVars
  <1>4. ASSUME NEW w \in Watchlists, DeleteWatchlist(w) PROVE TodoInv'
    <2>1. Pending \cup withdrawn \subseteq Pending' \cup withdrawn'
      BY <1>0, <1>4 DEF DeleteWatchlist, Pending, TypeOK
    <2>2. QED
      BY <1>0, <1>4, <2>1 DEF DeleteWatchlist, TodoInv, flushVars
  <1>5. CASE /\ ~BeginFlush /\ ~FinishAlert
             /\ ~ \E w \in Watchlists : DeleteWatchlist(w)
             /\ ~ \E a \in Alerts, w \in Watchlists, p \in Products \cup {NoProduct} : CreateAlert(a, w, p)
    <2>1. UNCHANGED <<status, withdrawn>> /\ todo' \in {todo, {}}
      BY <1>5 DEF Next, Flush, Others, BeginTick, EventsThrow, NextAlert, SkipChannel, StartSend,
         SendRecorded, RecordThrows,
         EndFlush, ForgetFlush, Crash, Restart, MergeProducts, SwitchChannel, SetNetworkEnabled,
         vars, dbVars, flushVars, historyVars
    <2>2. QED
      BY <1>0, <2>1 DEF TodoInv, Pending
  <1>6. QED
    BY <1>1, <1>2, <1>3, <1>4, <1>5

LEMMA RecordNext == IInv /\ [Next]_vars => RecordInv'
  <1> SUFFICES ASSUME IInv, [Next]_vars PROVE RecordInv'
    OBVIOUS
  <1>0. TypeOK /\ RecordInv /\ LoopInv
    BY DEF IInv
  <1>1. pc = "sending" => at \in Channels /\ row[at][alert] # "sent" /\ alert \in Alerts
    BY <1>0 DEF LoopInv, TypeOK
  <1>2. ASSUME NEW s \in {"sent", "failed"}, SendRecorded(s) PROVE RecordInv'
    <2> SUFFICES ASSUME NEW c \in Channels, NEW a \in Alerts
                 PROVE  /\ row'[c][a] = "sent" => a \in confirmed'[c]
                        /\ a \in confirmed'[c] => row'[c][a] = "sent" \/ <<c, a>> \in lost'
      BY DEF RecordInv
    <2>1. row'[c][a] = IF c = at /\ a = alert THEN s ELSE row[c][a]
      BY <1>0, <1>1, <1>2 DEF SendRecorded, TypeOK
    <2>2. a \in confirmed'[c] <=> a \in confirmed[c] \/ (s = "sent" /\ c = at /\ a = alert)
      BY <1>0, <1>1, <1>2 DEF SendRecorded, Reported, TypeOK
    <2>3. <<c, a>> \in lost' <=> <<c, a>> \in lost /\ ~(s = "sent" /\ c = at /\ a = alert)
      BY <1>2 DEF SendRecorded
    <2>4. /\ row[c][a] = "sent" => a \in confirmed[c]
          /\ a \in confirmed[c] => row[c][a] = "sent" \/ <<c, a>> \in lost
      BY <1>0 DEF RecordInv
    <2>5. pc = "sending"
      BY <1>2 DEF SendRecorded
    <2>6. QED
      BY <1>1, <2>1, <2>2, <2>3, <2>4, <2>5
  <1>3. ASSUME NEW s \in {"sent", "failed"}, RecordThrows(s) PROVE RecordInv'
    <2>1. row' = row /\ pc = "sending"
      BY <1>3 DEF RecordThrows, dbVars
    <2>2. CASE s = "failed"
      BY <1>0, <1>3, <2>1, <2>2 DEF RecordThrows, Reported, RecordInv
    <2>3. CASE s = "sent"
      BY <1>0, <1>1, <1>3, <2>1, <2>3 DEF RecordThrows, Reported, RecordInv, TypeOK
    <2>4. QED
      BY <2>2, <2>3
  <1>4. CASE ~ \E s \in {"sent", "failed"} : SendRecorded(s) \/ RecordThrows(s)
    <2>1. UNCHANGED <<row, confirmed, lost>>
      BY <1>4 DEF Next, Flush, Others, BeginTick, EventsThrow, BeginFlush, NextAlert, SkipChannel,
         StartSend, FinishAlert,
         EndFlush, Crash, Restart, CreateAlert, DeleteWatchlist, MergeProducts, SwitchChannel,
         SetNetworkEnabled, vars, dbVars, flushVars, historyVars
    <2>2. QED
      BY <1>0, <2>1 DEF RecordInv
  <1>5. QED
    BY <1>2, <1>3, <1>4

LEMMA LoopNext == IInv /\ [Next]_vars => LoopInv'
  <1> SUFFICES ASSUME IInv, [Next]_vars PROVE LoopInv'
    OBVIOUS
  <1> USE DEF InFlush, AtAlert
  <1>0. TypeOK /\ LoopInv /\ RecordInv
    BY DEF IInv
  <1>1. CASE BeginFlush
    BY <1>0, <1>1 DEF BeginFlush, LoopInv, dbVars, historyVars
  <1>2. CASE NextAlert
    <2>1. \A c \in using' : ~(c < at')
      BY <1>0, <1>2 DEF NextAlert, TypeOK, Channels
    <2>2. QED
      BY <1>0, <1>2, <2>1 DEF NextAlert, LoopInv, historyVars
  <1>3. CASE SkipChannel
    <2>1. at \in using => alert \in confirmed[at]
      BY <1>0, <1>3 DEF SkipChannel, RecordInv, TypeOK
    <2>2. \A c \in using : c < at' => c < at \/ c = at
      BY <1>0, <1>3 DEF SkipChannel, TypeOK, Channels
    <2>3. QED
      BY <1>0, <1>3, <2>1, <2>2 DEF SkipChannel, LoopInv, dbVars, historyVars
  <1>4. CASE StartSend
    BY <1>0, <1>4 DEF StartSend, LoopInv, dbVars, flushVars, historyVars
  <1>5. ASSUME NEW s \in {"sent", "failed"}, SendRecorded(s) PROVE LoopInv'
    <2>1. at \in using /\ at \in Channels /\ pc = "sending" /\ pc' = "alert" /\ at' = at + 1
          /\ UNCHANGED <<configured, using, todo, alert>>
      BY <1>0, <1>5 DEF SendRecorded, LoopInv, TypeOK
    <2>2. \A c \in using : c < at' => c < at \/ c = at
      BY <1>0, <2>1 DEF TypeOK, Channels
    <2>3. \A c \in Channels : confirmed[c] \subseteq confirmed'[c]
      BY <1>0, <1>5 DEF SendRecorded, Reported, TypeOK
    <2>4. s = "sent" => alert \in confirmed'[at]
      BY <1>0, <1>5, <2>1 DEF SendRecorded, Reported, TypeOK
    <2>5. ~blocked' => ~blocked /\ s = "sent"
      BY <1>5 DEF SendRecorded
    <2>6. QED
      BY <1>0, <2>1, <2>2, <2>3, <2>4, <2>5 DEF LoopInv, TypeOK
  <1>6. ASSUME NEW s \in {"sent", "failed"}, RecordThrows(s) PROVE LoopInv'
    BY <1>0, <1>6 DEF RecordThrows, LoopInv
  <1>7. CASE FinishAlert
    BY <1>0, <1>7 DEF FinishAlert, LoopInv
  <1>8. CASE EndFlush \/ Crash \/ Restart
    BY <1>0, <1>8 DEF EndFlush, Crash, Restart, LoopInv
  <1>12. CASE BeginTick \/ EventsThrow
    BY <1>0, <1>12 DEF BeginTick, EventsThrow, LoopInv, dbVars, flushVars, historyVars
  <1>9. ASSUME NEW c \in Switchable, SwitchChannel(c) PROVE LoopInv'
    <2>1. c \notin Local
      BY AlertAssumption
    <2>2. Local \subseteq configured'
      BY <1>0, <1>9, <2>1 DEF SwitchChannel, LoopInv
    <2>3. UNCHANGED <<pc, using, todo, row, alert, at, blocked, confirmed>>
      BY <1>9 DEF SwitchChannel, dbVars, flushVars, historyVars
    <2>4. QED
      BY <1>0, <2>2, <2>3 DEF LoopInv
  <1>10. CASE \/ \E a \in Alerts, w \in Watchlists, p \in Products \cup {NoProduct} : CreateAlert(a, w, p)
              \/ \E w \in Watchlists : DeleteWatchlist(w)
              \/ \E p, q \in Products : MergeProducts(p, q)
              \/ \E on \in BOOLEAN : SetNetworkEnabled(on)
              \/ UNCHANGED vars
    <2>1. UNCHANGED <<configured, pc, using, todo, row, alert, at, blocked, confirmed>>
      BY <1>10 DEF CreateAlert, DeleteWatchlist, MergeProducts, SetNetworkEnabled,
         vars, dbVars, flushVars, historyVars
    <2>2. QED
      BY <1>0, <2>1 DEF LoopInv
  <1>11. QED
    BY <1>1, <1>2, <1>3, <1>4, <1>5, <1>6, <1>7, <1>8, <1>9, <1>10, <1>12 DEF Next, Flush, Others

LEMMA InductiveInvariant == Spec => []IInv
  <1>1. IInv /\ [Next]_vars => IInv'
    BY TypeNext, TodoNext, LoopNext, RecordNext, WithdrawnNext DEF IInv
  <1>2. QED
    BY InitIInv, <1>1, PTL DEF Spec

-----------------------------------------------------------------------------
(* Theorems *)

\* Every variable keeps its type: the index of the channel loop of
\* flushWatchlistAlerts leaves the notifiers only by one.
THEOREM TypeCorrect == Spec => []TypeOK
  <1>1. IInv => TypeOK
    BY DEF IInv
  <1>2. QED
    BY InductiveInvariant, <1>1, PTL

\* The row of src/core/watchlist.js:320-321 keeps a confirmed alert from being
\* sent again, unless writing that row threw.
THEOREM ConfirmedAlertsStayQuiet == Spec => NoRepeatedAlert
  <1>1. IInv /\ [Next]_vars =>
           [pc = "alert" /\ pc' = "sending" /\ alert \in confirmed[at] => <<at, alert>> \in lost]_vars
    <2> SUFFICES ASSUME IInv, [Next]_vars, pc = "alert", pc' = "sending", alert \in confirmed[at]
                 PROVE  <<at, alert>> \in lost
      OBVIOUS
    <2>1. StartSend
      BY DEF Next, Flush, Others, BeginTick, EventsThrow, BeginFlush, NextAlert, SkipChannel,
         SendRecorded, RecordThrows, FinishAlert, EndFlush, Crash, Restart, CreateAlert, DeleteWatchlist, MergeProducts,
         SwitchChannel, SetNetworkEnabled, vars, dbVars, flushVars, historyVars
    <2>2. at \in Channels /\ alert \in Alerts /\ row[at][alert] # "sent"
      BY <2>1 DEF IInv, TypeOK, StartSend
    <2>3. QED
      BY <2>2 DEF IInv, RecordInv
  <1>2. QED
    BY InductiveInvariant, <1>1, PTL DEF Spec, NoRepeatedAlert

-----------------------------------------------------------------------------
(* The queue implements AtLeastOnceDelivery *)

\* The life cycle and the perishable alerts the refinement mapping shows.
LifeCycle == [a \in Alerts |-> CASE status[a] = "none"    -> "unborn"
                                 [] status[a] = "pending" -> "open"
                                 [] OTHER                 -> "closed"]
Born == {a \in Alerts : status[a] # "none"}

LEMMA OpenIsPending == ASSUME TypeOK PROVE Promise!Open = Pending
  BY DEF TypeOK, Promise!Open, Pending

\* Alerts that leave the pending ones are closed, and they only.
LEMMA Closing ==
    ASSUME TypeOK, TypeOK', NEW S \in SUBSET Alerts,
           \A a \in Alerts : IF a \in S THEN status'[a] \in {"notified", "deleted"}
                             ELSE \/ status'[a] = status[a]
                                  \/ status[a] = "notified" /\ status'[a] = "deleted"
    PROVE  Promise!Close(S)
  <1>1. \A a \in Alerts : LifeCycle'[a] = IF a \in S THEN "closed" ELSE LifeCycle[a]
    BY DEF TypeOK, LifeCycle
  <1>2. LifeCycle' = [a \in Alerts |-> IF a \in S THEN "closed" ELSE LifeCycle[a]]
    BY <1>1 DEF LifeCycle
  <1>3. QED
    BY <1>2 DEF Promise!Close, LifeCycle

LEMMA InitRefines == Init => Promise!Init
  BY DEF Init, Promise!Init

LEMMA StepRefines == IInv /\ [Next]_vars => [Promise!Next]_(Promise!vars)
  <1> SUFFICES ASSUME IInv, [Next]_vars PROVE [Promise!Next]_(Promise!vars)
    OBVIOUS
  <1>0. TypeOK /\ TodoInv /\ LoopInv /\ WithdrawnInv /\ TypeOK' /\ NumChannels \in Nat
    BY AlertAssumption, TypeNext DEF IInv
  <1>1. Promise!Open = Pending
    BY <1>0, OpenIsPending
  <1>2. CASE BeginFlush
    <2>1. UNCHANGED <<status, confirmed, withdrawn>> /\ using' = configured
      BY <1>2 DEF BeginFlush, dbVars, historyVars
    <2>2. Promise!Close({})
      BY <1>0, <2>1, Closing
    <2>3. PICK C \in SUBSET Channels : C = configured
      BY <1>0 DEF TypeOK
    <2>4. Promise!Round(C, {})
      BY <2>1, <2>2, <2>3 DEF Promise!Round
    <2>5. QED
      BY <2>4 DEF Promise!Next
  <1>3. ASSUME NEW s \in {"sent", "failed"}, SendRecorded(s) \/ RecordThrows(s)
        PROVE  [Promise!Next]_(Promise!vars)
    <2>1. at \in using /\ at \in Channels /\ alert \in todo /\ alert \in Alerts
      BY <1>0, <1>3 DEF SendRecorded, RecordThrows, LoopInv, AtAlert, TypeOK
    <2>2. UNCHANGED <<status, using, withdrawn>> /\ Reported(s)
      BY <1>3 DEF SendRecorded, RecordThrows, ForgetFlush, dbVars
    <2>3. CASE s = "sent"
      <3>1. {alert} \subseteq Promise!Open \cup withdrawn
        BY <1>0, <1>1, <2>1 DEF TodoInv
      <3>2. Promise!Confirm(at, {alert})
        BY <2>1, <2>2, <2>3, <3>1 DEF Promise!Confirm, Reported
      <3>3. QED
        BY <2>1, <3>2 DEF Promise!Next
    <2>4. CASE s = "failed"
      BY <2>2, <2>4 DEF Promise!vars, Reported
    <2>5. QED
      BY <2>3, <2>4
  <1>4. CASE FinishAlert /\ ~blocked /\ status[alert] = "pending"
    <2>1. alert \in Alerts /\ Local \subseteq using /\ \A c \in using : c < at => alert \in confirmed[c]
      BY <1>0, <1>4 DEF FinishAlert, LoopInv, InFlush, AtAlert, TypeOK
    <2>2. \A c \in Channels : c < at
      BY <1>0, <1>4 DEF FinishAlert, TypeOK, Channels
    <2>3. \A c \in using : {alert} \subseteq confirmed[c]
      BY <1>0, <2>1, <2>2 DEF TypeOK
    <2>4. PICK S \in SUBSET Alerts : S = {alert} /\ S \subseteq Promise!Open
      BY <1>1, <1>4, <2>1 DEF Pending
    <2>5. status' = [status EXCEPT ![alert] = "notified"] /\ UNCHANGED <<using, confirmed, withdrawn>>
      BY <1>4 DEF FinishAlert, historyVars
    <2>6. Promise!Close(S)
      BY <1>0, <2>4, <2>5, Closing DEF TypeOK
    <2>7. Born' = Born
      BY <1>0, <1>4, <2>5 DEF Born, TypeOK
    <2>8. Promise!Deliver(S)
      BY <2>1, <2>3, <2>4, <2>5, <2>6, <2>7 DEF Promise!Deliver, Born
    <2>9. QED
      BY <2>8 DEF Promise!Next
  <1>5. ASSUME NEW a \in Alerts, NEW w \in Watchlists, NEW p \in Products \cup {NoProduct},
               CreateAlert(a, w, p)
        PROVE  [Promise!Next]_(Promise!vars)
    <2>1. status[a] = "none" /\ status' = [status EXCEPT ![a] = "pending"]
          /\ UNCHANGED <<using, confirmed, withdrawn>>
      BY <1>5 DEF CreateAlert, flushVars, historyVars
    <2>2. LifeCycle[a] = "unborn" /\ LifeCycle' = [LifeCycle EXCEPT ![a] = "open"]
      BY <1>0, <2>1 DEF TypeOK, LifeCycle
    <2>3. Born' = Born \cup {a}
      BY <1>0, <2>1 DEF Born, TypeOK
    <2>4. Promise!Create(a)
      BY <2>1, <2>2, <2>3 DEF Promise!Create, LifeCycle, Born
    <2>5. QED
      BY <2>4 DEF Promise!Next
  <1>6. ASSUME NEW w \in Watchlists, DeleteWatchlist(w) PROVE [Promise!Next]_(Promise!vars)
    <2>1. PICK S \in SUBSET Alerts : S = {a \in Pending : owner[a] = w}
      BY DEF Pending
    <2>2. status' = [a \in Alerts |-> IF owner[a] = w /\ status[a] # "none" THEN "deleted" ELSE status[a]]
          /\ withdrawn' = withdrawn \cup S /\ UNCHANGED <<using, confirmed>>
      BY <1>6, <2>1 DEF DeleteWatchlist, flushVars
    <2>3. Promise!Close(S)
      BY <1>0, <2>1, <2>2, Closing DEF TypeOK, Pending
    <2>4. Born' = Born
      BY <1>0, <2>2 DEF Born, TypeOK
    <2>5. S \subseteq Promise!Open \cap Born
      BY <1>1, <2>1 DEF Born, Pending
    <2>6. PICK C \in SUBSET Channels : C = using
      BY <1>0 DEF TypeOK
    <2>7. Promise!Round(C, S)
      BY <2>2, <2>3, <2>4, <2>5, <2>6 DEF Promise!Round, Born
    <2>8. QED
      BY <2>7 DEF Promise!Next
  <1>7. CASE /\ ~BeginFlush
             /\ ~(FinishAlert /\ ~blocked /\ status[alert] = "pending")
             /\ ~ \E s \in {"sent", "failed"} : SendRecorded(s) \/ RecordThrows(s)
             /\ ~ \E a \in Alerts, w \in Watchlists, p \in Products \cup {NoProduct} : CreateAlert(a, w, p)
             /\ ~ \E w \in Watchlists : DeleteWatchlist(w)
    <2>1. UNCHANGED <<status, using, confirmed, withdrawn>>
      BY <1>7 DEF Next, Flush, Others, BeginTick, EventsThrow, NextAlert, SkipChannel, StartSend,
         FinishAlert, EndFlush,
         ForgetFlush, Crash, Restart, MergeProducts, SwitchChannel, SetNetworkEnabled,
         vars, dbVars, flushVars, historyVars
    <2>2. QED
      BY <2>1 DEF Promise!vars
  <1>8. QED
    BY <1>2, <1>3, <1>4, <1>5, <1>6, <1>7

\* flushWatchlistAlerts keeps the promise of an at-least-once queue: an alert is
\* only marked notified once every channel of the flush confirmed it, although
\* any flush may end in a throw and any alert may be deleted under it.
THEOREM ImplementsAtLeastOnce == Spec => KeepsPromise
  <1>1. Init => Promise!Init
    BY InitRefines
  <1>2. IInv /\ [Next]_vars => [Promise!Next]_(Promise!vars)
    BY StepRefines
  <1>3. QED
    BY InductiveInvariant, <1>1, <1>2, PTL DEF Spec, KeepsPromise, Promise!Spec
-----------------------------------------------------------------------------
(* What the promise is worth: the guarantee of the abstract queue, read back *)
(* through the refinement mapping.                                           *)

LEMMA Accounting ==
    ASSUME TypeOK, Promise!Accounted, [Promise!Next]_(Promise!vars)
    PROVE  Promise!Accounted'
  <1> USE DEF Promise!Accounted
  <1>1. confirmed \in [Channels -> SUBSET Alerts] /\ Local \subseteq Channels
    BY AlertAssumption DEF TypeOK
  <1>2. ASSUME NEW a \in Alerts, Promise!Create(a) PROVE Promise!Accounted'
    BY <1>2 DEF Promise!Create
  <1>3. ASSUME NEW C, NEW S, Promise!Round(C, S) PROVE Promise!Accounted'
    BY <1>3 DEF Promise!Round, Promise!Close
  <1>4. ASSUME NEW c \in Channels, NEW S, Promise!Confirm(c, S) PROVE Promise!Accounted'
    <2>1. \A d \in Channels : confirmed[d] \subseteq confirmed'[d]
      BY <1>1, <1>4 DEF Promise!Confirm
    <2>2. QED
      BY <1>1, <1>4, <2>1 DEF Promise!Confirm
  <1>5. ASSUME NEW S, Promise!Deliver(S) PROVE Promise!Accounted'
    BY <1>5 DEF Promise!Deliver, Promise!Close
  <1>6. CASE UNCHANGED Promise!vars
    BY <1>6 DEF Promise!vars
  <1>7. QED
    BY <1>2, <1>3, <1>4, <1>5, <1>6 DEF Promise!Next

\* An alert marked notified reached every local channel.
NothingLost ==
    \A a \in Alerts : status[a] = "notified" => \A c \in Local : a \in confirmed[c]

\* No alert is retired unsent, although any flush may end in a throw or a kill, its
\* product may be merged away and other watchlists deleted while it is sent.
THEOREM AlertsAreDelivered == Spec => []NothingLost
  <1>1. Init => Promise!Accounted
    BY DEF Init, Promise!Accounted
  <1>2. IInv /\ Promise!Accounted /\ [Next]_vars => Promise!Accounted'
    BY StepRefines, Accounting DEF IInv
  <1>3. IInv /\ Promise!Accounted => NothingLost
    <2>1. SUFFICES ASSUME TypeOK, WithdrawnInv, Promise!Accounted,
                          NEW a \in Alerts, status[a] = "notified"
                   PROVE  \A c \in Local : a \in confirmed[c]
      BY DEF NothingLost, IInv
    <2>2. a \notin withdrawn
      BY <2>1 DEF WithdrawnInv
    <2>3. QED
      BY <2>1, <2>2 DEF Promise!Accounted
  <1>4. QED
    BY InductiveInvariant, <1>1, <1>2, <1>3, PTL DEF Spec
=============================================================================

-------------------------- MODULE AtLeastOnceDelivery --------------------------
(***************************************************************************)
(* What a notification queue promises, whatever its grouping, retry order,  *)
(* failures and kills: in a round, an announcement is only closed once      *)
(* every channel the round uses has confirmed it, and only a perishable one *)
(* (a claim that something can be bought now) is ever dropped unsent.       *)
(***************************************************************************)
EXTENDS FiniteSets

CONSTANTS
    Items,        \* the announcements
    Channels,     \* the delivery channels
    Mandatory     \* channels every round uses

VARIABLES
    state,        \* life cycle of each announcement
    perishable,   \* announcements that claim something can be bought
    inUse,        \* channels of the current round
    confirmed,    \* announcements each channel reported as sent
    dropped       \* announcements closed without delivery

vars == <<state, perishable, inUse, confirmed, dropped>>

Init ==
    /\ state = [i \in Items |-> "unborn"]
    /\ perishable = {}
    /\ inUse = {}
    /\ confirmed = [c \in Channels |-> {}]
    /\ dropped = {}

Open == {i \in Items : state[i] = "open"}

Close(S) == state' = [i \in Items |-> IF i \in S THEN "closed" ELSE state[i]]

Create(i) ==
    /\ state[i] = "unborn"
    /\ state' = [state EXCEPT ![i] = "open"]
    /\ perishable' \in {perishable, perishable \cup {i}}
    /\ UNCHANGED <<inUse, confirmed, dropped>>

\* A round begins or ends; what has perished is dropped.
Round(C, S) ==
    /\ S \subseteq Open \cap perishable
    /\ inUse' = C
    /\ Close(S)
    /\ dropped' = dropped \cup S
    /\ UNCHANGED <<perishable, confirmed>>

\* A channel confirms a summary, again or for the first time.  Nothing that was
\* closed as delivered is sent again; what was dropped may be on its way.
Confirm(c, S) ==
    /\ c \in inUse
    /\ S \subseteq Open \cup dropped
    /\ confirmed' = [confirmed EXCEPT ![c] = @ \cup S]
    /\ UNCHANGED <<state, perishable, inUse, dropped>>

Deliver(S) ==
    /\ S \subseteq Open
    /\ Mandatory \subseteq inUse
    /\ \A c \in inUse : S \subseteq confirmed[c]
    /\ Close(S)
    /\ UNCHANGED <<perishable, inUse, confirmed, dropped>>

Next ==
    \/ \E i \in Items : Create(i)
    \/ \E C \in SUBSET Channels, S \in SUBSET Items : Round(C, S)
    \/ \E c \in Channels, S \in SUBSET Items : Confirm(c, S)
    \/ \E S \in SUBSET Items : Deliver(S)

Spec == Init /\ [][Next]_vars

-----------------------------------------------------------------------------
\* What the promise is worth: a closed announcement was confirmed by every channel
\* that every round uses, unless it is a perishable one that was dropped.
Accounted ==
    \A i \in Items : state[i] = "closed" =>
        \/ \A c \in Mandatory : i \in confirmed[c]
        \/ i \in dropped \cap perishable
=============================================================================

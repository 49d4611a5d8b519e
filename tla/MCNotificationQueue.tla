--------------------------- MODULE MCNotificationQueue ---------------------------
(* An instance of NotificationQueue for TLC: either one event, with everything around
   the queue free to change; or two, which make no claim that freshness could end, under
   a network that stays on.  Offers, and products, are alike: the first event is about
   o1, which begins in p1. *)
EXTENDS NotificationQueue

CONSTANTS o1, o2, p1, p2

VARIABLE two

Within ==
    /\ status[1] # "none" => subject[1] = o1
    /\ IF two THEN network /\ stale = {} /\ \A e \in Events : ~buyable[e]
              ELSE \A e \in Events : e > 1 => status[e] = "none"

BoundedSpec ==
    /\ two \in BOOLEAN /\ product \in {f \in [Offers -> Products] : f[o1] = p1} /\ Init
    /\ [][Next /\ two' = two /\ Within']_<<vars, two>>
    /\ Fairness
=============================================================================

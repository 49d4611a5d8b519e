---------------------------- MODULE RecoverableRuns ----------------------------
(***************************************************************************)
(* What the rows of crawl_runs and discovery_runs that say "running" are    *)
(* worth (recoverInterruptedWork).  Such a row is about a run under way, at *)
(* most one to a place, or it was left behind: by a death of the service, or *)
(* by a write that threw where no handler finishes the run.  A row left      *)
(* behind stays until the next start, which settles every one of them before *)
(* anything is begun; at an exclusive place it keeps new runs out till then. *)
(***************************************************************************)
EXTENDS Naturals

CONSTANTS
    Places,         \* where at most one run may be under way
    Exclusive       \* a row that says running refuses a new run

VARIABLES
    alive,          \* the service is up
    live,           \* the places with a run under way
    rows,           \* by place, how many rows say "running"
    faults          \* deaths and failed writes so far

vars == <<alive, live, rows, faults>>

Init ==
    /\ alive \in BOOLEAN
    /\ live = {}
    /\ rows = [p \in Places |-> 0]
    /\ faults = 0

Begin(p) ==
    /\ alive
    /\ p \notin live
    /\ Exclusive => rows[p] = 0
    /\ live' = live \cup {p}
    /\ rows' = [rows EXCEPT ![p] = @ + 1]
    /\ UNCHANGED <<alive, faults>>

End(p) ==
    /\ alive
    /\ p \in live
    /\ live' = live \ {p}
    /\ rows' = [rows EXCEPT ![p] = @ - 1]
    /\ UNCHANGED <<alive, faults>>

\* A write failed: a run stops with its row settled or left as it is, or a row
\* is opened and nothing runs.
WriteFails(p) ==
    /\ alive
    /\ faults' = faults + 1
    /\ \/ live' \in {live, live \ {p}} /\ rows' = rows
       \/ p \in live /\ live' = live \ {p} /\ rows' = [rows EXCEPT ![p] = @ - 1]
       \/ p \notin live /\ (Exclusive => rows[p] = 0)
             /\ live' = live /\ rows' = [rows EXCEPT ![p] = @ + 1]
    /\ UNCHANGED alive

Die ==
    /\ alive
    /\ alive' = FALSE
    /\ live' = {}
    /\ faults' = faults + 1
    /\ UNCHANGED rows

\* The start may fail after it has settled the rows.
Recover ==
    /\ ~alive
    /\ \/ alive' = TRUE /\ faults' = faults
       \/ alive' = FALSE /\ faults' = faults + 1
    /\ rows' = [p \in Places |-> 0]
    /\ UNCHANGED live

Next ==
    \/ \E p \in Places : Begin(p) \/ End(p) \/ WriteFails(p)
    \/ Die
    \/ Recover

Spec == Init /\ [][Next]_vars
=============================================================================

----------------------------- MODULE Solutions -----------------------------
(***************************************************************************)
(* The reference solutions of three tasks that keep state between calls,   *)
(* each in an environment of its own.  One of them runs in a history, and  *)
(* the other two stay as they began.                                       *)
(***************************************************************************)
EXTENDS Watch, Pages, Leases

CONSTANTS EventsAtFirst     \* the events of histories that are not about pages

VARIABLE task   \* the task whose solution runs

vars == <<task, watchVars, pageVars, leaseVars>>

Tasks == {"watch-subscription", "event-pagination", "lease-expiry"}

Init ==
    /\ task \in Tasks
    /\ WatchInit /\ PagesInit /\ LeasesInit
    /\ task # "watch-subscription" => step = "implement"
    /\ task # "event-pagination" => events = EventsAtFirst /\ filter = NoKind
    /\ task # "lease-expiry" => reviewed

WatchStep == task = "watch-subscription" /\ WatchNext /\ UNCHANGED <<task, pageVars, leaseVars>>
PagesStep == task = "event-pagination" /\ PagesNext /\ UNCHANGED <<task, watchVars, leaseVars>>
LeasesStep == task = "lease-expiry" /\ LeasesNext /\ UNCHANGED <<task, watchVars, pageVars>>

Next == WatchStep \/ PagesStep \/ LeasesStep

Spec == Init /\ [][Next]_vars

\* Every alternate solution of a watch or of the pages answers as its oracle does, in every
\* state that the solutions are brought to, and a later step of a task keeps what the earlier
\* steps asked for, but for the form of a cursor.
SolutionsAgree == WatchSolutionsAgree /\ PagesAgree
=============================================================================

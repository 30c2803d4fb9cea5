------------------------------ MODULE ListPages ------------------------------
(***************************************************************************)
(* The pages that list commands: the dashboard and the queue of commands,  *)
(* each with the part of the control plane it reads.                       *)
(***************************************************************************)
EXTENDS ConsoleView

CONSTANTS
    MaxAborts,     \* loads the timer overtakes; the queue has a bound of its own
    MaxQueueAborts,
    MaxRows,       \* commands in the queue
    Queues,        \* dashboard: the seconds in which the first commands were queued
    LastSecond,    \* when the last command may be queued
    MaxCommands,   \* commands the dashboard may load
    PageSize,      \* PAGE_SIZE
    MaxPages,      \* COMMAND_FETCH_MAX_PAGES
    WindowStart    \* the second in which COMMAND_WINDOW_DAYS began

\* A page of commands holds at least one; there is a command at first, and
\* commands are numbered in the order in which they were queued.
ASSUME PagesAssumption ==
    /\ PageSize \in Nat \ {0} /\ LastSecond \in Nat /\ WindowStart \in Nat
    /\ \A q \in Queues :
          /\ q \in Seq(0 .. LastSecond)
          /\ \A i, j \in 1 .. Len(q) : i <= j => q[i] <= q[j]

\* The queue starts with one command.
ASSUME RowsAssumption == MaxRows \in Nat \ {0}

Home == INSTANCE Dashboard WITH MaxOverruns <- MaxAborts
Queue == INSTANCE CommandQueue WITH MaxCommands <- MaxRows, MaxOverruns <- MaxQueueAborts
==============================================================================

------------------------------ MODULE LoadPages -----------------------------
(***************************************************************************)
(* The pages whose loads could overtake each other: two that list commands,*)
(* the scheduling page and the operator console, each with the part of the *)
(* control plane it reads.                                                 *)
(***************************************************************************)
EXTENDS ListPages

Jobs == INSTANCE Scheduling WITH MaxOverruns <- MaxAborts
Operator == INSTANCE OperatorPage WITH MaxOverruns <- MaxAborts

LoadInit ==
    \/ On("scheduling") /\ Jobs!Init
    \/ On("dashboard") /\ Home!Init
    \/ On("operator") /\ Operator!Init
    \/ On("queue") /\ Queue!Init

LoadStep ==
    \/ On("scheduling") /\ Jobs!Next
    \/ On("dashboard") /\ Home!Next
    \/ On("operator") /\ Operator!Next
    \/ On("queue") /\ Queue!Next

\* These pages, and the explorer, whose browses overtake each other as well.
LoadSpec ==
    /\ LoadInit \/ (On("files") /\ Files!Init)
    /\ [][(LoadStep \/ (On("files") /\ Files!Next)) /\ UNCHANGED view]_vars

-----------------------------------------------------------------------------
(* Safety *)

\* Dashboard: a command the paging of the load misses was queued in the same
\* second as one it shows, or lies behind COMMAND_FETCH_MAX_PAGES.
MissedOnlyTies == On("dashboard") => Home!MissedOnlyTies

\* A load that was overtaken or aborted takes nothing back from the screen: run
\* history, commands of the dashboard, counts of the operator console, the end
\* of a command in the queue, entries of a folder.
NothingGoesBack ==
    [][/\ On("scheduling") => Jobs!HistoryGrows
       /\ On("dashboard") => Home!CommandsNeverLost
       /\ On("operator") => Operator!OperatorNeverGoesBack
       /\ On("queue") => Queue!EndsAreKept
       /\ On("files") => Files!EntriesNeverLost]_vars
=============================================================================

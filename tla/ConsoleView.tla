----------------------------- MODULE ConsoleView ----------------------------
(***************************************************************************)
(* What the pages of the console have in common: the page that is open and *)
(* its state.  One page is open in a behaviour: a page of Next.js is       *)
(* unmounted, with all its state, before another is shown.  The file       *)
(* explorer is here because both groups of pages below use it.             *)
(***************************************************************************)
EXTENDS Naturals, Sequences

CONSTANTS
    MaxActs,       \* clicks on a page that send something
    MaxMoves,      \* navigations, loads and reopenings of the explorer
    MaxLapses,     \* times a folder's five minutes end
    MaxFailures    \* requests that fail

VARIABLES view, ui, server, calls

vars == <<view, ui, server, calls>>

On(name) == view = name

Files == INSTANCE FileExplorer
=============================================================================

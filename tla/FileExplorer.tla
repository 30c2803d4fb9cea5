---------------------------- MODULE FileExplorer ----------------------------
(* The file explorer of a list_files result (FileExplorerSection of          *)
(* CommandResultPresentation.tsx): it walks the folders of one result, and   *)
(* where the result is partial it fetches a folder that came without its     *)
(* contents with a list_files command of its own (hydratePath).              *)
(* The drive is root / users / docs / note; docs holds the only file.        *)
(* Search, sorting, the hidden and system switches, the view and the folds   *)
(* of the tree only filter what is drawn and are left out.                   *)
EXTENDS Naturals, Sequences

CONSTANTS
    MaxMoves,      \* navigations, loads and reopenings in one visit
    MaxFailures,   \* browses that fail or run out of time
    MaxLapses      \* times a folder's five minutes (LAZY_ATTEMPT_TTL_MS) end

VARIABLES ui, server, calls

explorerVars == <<ui, server, calls>>

None == "none"
root == "root"
Folders == {root, "users", "docs"}
Entries == {"users", "docs", "note"}
Parent == [users |-> root, docs |-> "users", note |-> "docs"]
explorerParentPath(p) == IF p = root THEN None ELSE Parent[p]
Listing(p) == {e \in Entries : Parent[e] = p}

\* What a partial result brought: some of the entries, not always with their folder.
Snapshots == {{}, {"users"}, {"users", "docs"}, {"docs"}}
usersCandidatePath(snapshot) == IF "users" \in snapshot THEN "users" ELSE root

childrenByParent(u, p) == {e \in u.entries : Parent[e] = p}
isDirectoryLike(u, e) == e # "note" \/ childrenByParent(u, e) # {}
breadcrumbs[p \in Folders \cup Entries] == {p} \cup IF p = root THEN {} ELSE breadcrumbs[Parent[p]]

-----------------------------------------------------------------------------
\* One browse command per folder; "sent" until the command has an id.
Browse(p, mount) == [path |-> p, mount |-> mount, phase |-> "sent"]

\* Mutant: the gate of the tab is not asked.
MayHydrateUngated(u, p) ==
    u.partial /\ u.hydrating # p /\ p \notin u.blocked \cup u.attempted \cup u.hydrated

MayHydrate(u, p) ==
    /\ u.partial
    /\ u.hydrating # p
    /\ p \notin u.blocked
    /\ p \notin u.attempted
    /\ p \notin u.gate
    /\ p \notin u.hydrated

\* A whole state of the page, so that Init and every handler end in one effect.
Page(u, cs, srv) == [ui |-> u, calls |-> cs, server |-> srv]
Becomes(page) == ui' = page.ui /\ calls' = page.calls /\ server' = page.server

hydratePath(u, cs, srv, p) ==
    Page([u EXCEPT !.attempted = @ \cup {p}, !.gate = @ \cup {p}, !.hydrating = p, !.error = FALSE],
         cs \cup {Browse(p, u.mount)},
         [srv EXCEPT !.asked[p] = @ + 1])

\* The effect that runs after a change of the folder, its entries or the slot:
\* a folder shown without contents is hydrated, in the device page only.
WantsContents(u) == u.auto /\ u.partial /\ childrenByParent(u, u.cur) = {} /\ u.cur \notin u.hydrated

Rendered(u, cs, srv) ==
    IF WantsContents(u) /\ MayHydrate(u, u.cur) THEN hydratePath(u, cs, srv, u.cur) ELSE Page(u, cs, srv)

Booted(u) ==
    LET start == usersCandidatePath(u.snapshot)
        materialized == {Parent[e] : e \in u.snapshot}
    IN  [u EXCEPT !.entries = u.snapshot, !.cur = start, !.sel = None,
                  !.back = IF start # root THEN <<root>> ELSE <<>>, !.fwd = <<>>,
                  !.hydrating = None, !.error = FALSE,
                  !.hydrated = materialized, !.attempted = materialized]

Moved(u) == ui.moves < MaxMoves /\ Becomes(Rendered([u EXCEPT !.moves = @ + 1], calls, server))

Visited(u, p) ==
    [u EXCEPT !.back = Append(@, u.cur), !.fwd = <<>>, !.cur = p, !.sel = None]

\* Mutant: going to the folder shown is recorded.
navigateToItself(p) == Moved(Visited(ui, p))

navigateTo(p) == p # ui.cur /\ Moved(Visited(ui, p))

\* Where the buttons, the breadcrumbs, the tree and a double click lead.
Reachable(u) ==
    {root, "users"} \cup breadcrumbs[u.cur]
      \cup {e \in u.entries : isDirectoryLike(u, e) /\ breadcrumbs[e] \subseteq u.entries \cup {root}}
      \cup {e \in childrenByParent(u, u.cur) : isDirectoryLike(u, e)}
Navigate == \E p \in Reachable(ui) : navigateTo(p)

\* Mutant: Back keeps the selection.
goBackSelected ==
    /\ ui.back # <<>>
    /\ Moved([ui EXCEPT !.back = SubSeq(@, 1, Len(@) - 1), !.fwd = Append(@, ui.cur),
                        !.cur = ui.back[Len(ui.back)]])

goBack ==
    /\ ui.back # <<>>
    /\ Moved([ui EXCEPT !.back = SubSeq(@, 1, Len(@) - 1), !.fwd = Append(@, ui.cur),
                        !.cur = ui.back[Len(ui.back)], !.sel = None])
goForward ==
    /\ ui.fwd # <<>>
    /\ Moved([ui EXCEPT !.fwd = SubSeq(@, 1, Len(@) - 1), !.back = Append(@, ui.cur),
                        !.cur = ui.fwd[Len(ui.fwd)], !.sel = None])
goUp == explorerParentPath(ui.cur) # None /\ navigateTo(explorerParentPath(ui.cur))

SelectEntry ==
    \E e \in childrenByParent(ui, ui.cur) : ui' = [ui EXCEPT !.sel = e] /\ UNCHANGED <<server, calls>>

\* "Load this folder now", drawn where the folder looks empty.
LoadNow ==
    /\ ui.moves < MaxMoves
    /\ childrenByParent(ui, ui.cur) = {} /\ MayHydrate(ui, ui.cur)
    /\ Becomes(hydratePath([ui EXCEPT !.moves = @ + 1], calls, server, ui.cur))

\* The result is folded and unfolded: a new explorer; the gate and the blocked
\* folders belong to the tab and stay.
Reopen == Moved(Booted([ui EXCEPT !.mount = @ + 1]))

\* Five minutes after its last attempt a folder may be tried again.
GateLapses ==
    \E p \in ui.gate :
        /\ server.lapses[p] < MaxLapses
        /\ ui' = [ui EXCEPT !.gate = @ \ {p}]
        /\ server' = [server EXCEPT !.lapses[p] = @ + 1]
        /\ UNCHANGED calls

-----------------------------------------------------------------------------
CanFail == server.failures < MaxFailures
Failed == [server EXCEPT !.failures = @ + 1]

\* The finally of hydratePath: only the folder that holds the slot frees it.
Released(u, c) == [u EXCEPT !.hydrating = IF @ = c.path THEN None ELSE @]

\* React drops what an explorer that is gone sets; the blocked folders are the
\* tab's.  The effect runs again on what an answer leaves.
Answered(c, u, srv) ==
    IF c.mount = ui.mount
    THEN Becomes(Rendered(Released(u, c), calls \ {c}, srv))
    ELSE Becomes(Page([ui EXCEPT !.blocked = u.blocked], calls \ {c}, srv))

BrowseAccepted(c) ==
    /\ c.phase = "sent"
    /\ calls' = (calls \ {c}) \cup {[c EXCEPT !.phase = "polled"]}
    /\ UNCHANGED <<ui, server>>

\* A refusal of the parameters blocks the folder; any failure is reported.
BrowseRefused(c) ==
    \E invalid \in {c.phase = "sent", FALSE} :
        /\ CanFail
        /\ Answered(c, [ui EXCEPT !.error = TRUE,
                                  !.blocked = IF invalid THEN @ \cup {c.path} ELSE @], Failed)

\* Mutant: the entries that came replace the ones shown.
MergedAnew(u, c, incoming) ==
    [u EXCEPT !.entries = incoming,
              !.hydrated = @ \cup {Parent[e] : e \in incoming} \cup {c.path}]

\* setEntries and the refs: the entries that came are merged into the ones shown.
Merged(u, c, incoming) ==
    [u EXCEPT !.entries = @ \cup incoming,
              !.hydrated = @ \cup {Parent[e] : e \in incoming} \cup {c.path}]

BrowseCompleted(c) ==
    /\ c.phase = "polled"
    /\ Answered(c, Merged(ui, c, Listing(c.path)), server)

\* A command that ends without a result, or not within 90 s: mergeCommandDetail
\* falls back to the result the explorer already shows.
BrowseEmpty(c) ==
    /\ c.phase = "polled" /\ CanFail
    /\ Answered(c, Merged(ui, c, ui.snapshot), Failed)

BrowseStep ==
    \E c \in calls : BrowseAccepted(c) \/ BrowseRefused(c) \/ BrowseCompleted(c) \/ BrowseEmpty(c)

Mounted(snapshot, partial, auto) ==
    Booted([snapshot |-> snapshot, partial |-> partial, auto |-> auto, mount |-> 0, moves |-> 0,
            entries |-> {}, cur |-> root, sel |-> None, back |-> <<>>, fwd |-> <<>>,
            hydrating |-> None, error |-> FALSE, hydrated |-> {}, attempted |-> {},
            gate |-> {}, blocked |-> {}])
Unasked == [asked |-> [p \in Folders |-> 0], lapses |-> [p \in Folders |-> 0], failures |-> 0]

Init ==
    \E s \in Snapshots, partial \in BOOLEAN, auto \in BOOLEAN :
        LET first == Rendered(Mounted(s, partial, auto), {}, Unasked)
        IN  ui = first.ui /\ calls = first.calls /\ server = first.server

Next ==
    Navigate \/ goBack \/ goForward \/ goUp \/ SelectEntry
      \/ LoadNow \/ Reopen \/ GateLapses \/ BrowseStep

FairStep(i) == i = 1 /\ BrowseStep

Spec == Init /\ [][Next]_explorerVars /\ WF_explorerVars(FairStep(1))

-----------------------------------------------------------------------------
(* Properties *)

\* A folder is browsed again only after its five minutes, however often the
\* result is folded and unfolded and whichever effect or button asks: the gate
\* of hydratePath outlives the explorer, its attempted folders do not.
BrowsesAreSpaced == \A p \in Folders : server.asked[p] <= 1 + server.lapses[p]

Reversed(s) == [i \in 1..Len(s) |-> s[Len(s) + 1 - i]]
\* Back and Forward always move: the trail of folders, back, here and forward,
\* never holds the same folder twice in a row.
TrailHasNoRepeats ==
    LET trail == ui.back \o <<ui.cur>> \o Reversed(ui.fwd)
    IN  \A i \in 1..Len(trail) - 1 : trail[i] # trail[i + 1]

\* Answers of browses that overtake each other lose nothing of what the
\* explorer shows: setEntries merges into the entries of the moment.
EntriesNeverLost == ui'.mount = ui.mount => ui.entries \subseteq ui'.entries

\* What is selected lies in the folder shown, whichever way the folder changed.
SelectionIsHere == ui.sel # None => ui.sel \in childrenByParent(ui, ui.cur)

\* "Loading folder contents..." ends, also when folders are left and others
\* take the slot while their browses run.
HydrationRests == ui.hydrating = None
=============================================================================

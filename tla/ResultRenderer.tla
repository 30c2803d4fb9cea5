--------------------------- MODULE ResultRenderer ---------------------------
(* How a command's result is shown (lib/resultRenderer.ts, commandResults.ts *)
(* and the tabs of CommandResultPresentation.tsx).  A row is the state of    *)
(* the command, its error code, its artifact link and the payload; a payload *)
(* is reduced to what the builders branch on, a section to its widget, how   *)
(* much it holds and whether it carries a note.                              *)
EXTENDS Naturals, Integers, Sequences, FiniteSets, SequencesExt

CONSTANTS
    RowLimit,      \* rows a table keeps (250)
    Methods,       \* the names of methods as dispatched, legacy ones included
    States         \* the states the server reports

VARIABLES ui, server, calls

resultVars == <<ui, server, calls>>

Absent == -1
LEGACY_METHOD_ALIASES ==
    [m \in {"netstat", "process-list", "filesystem", "active-window", "screenshot-capture"} |->
        CASE m = "netstat" -> "list_connections"
          [] m = "process-list" -> "list_processes"
          [] m = "filesystem" -> "list_files"
          [] m = "active-window" -> "get_active_window"
          [] m = "screenshot-capture" -> "screenshot"]
resolveCommandMethod(m) == IF m \in DOMAIN LEGACY_METHOD_ALIASES THEN LEGACY_METHOD_ALIASES[m] ELSE m

CommandStates == {"queued", "dispatched", "ack_received", "executing", "completed", "failed", "expired", "rejected"}
normalizeCommandState(s) == IF s \in CommandStates THEN s ELSE "queued"

-----------------------------------------------------------------------------
\* Payloads.  A list field holds records and, at times, things that are not.
NoData == [kind |-> "none"]
List(records, junk) == [kind |-> "array", records |-> records, junk |-> junk]
Object(fields) == [kind |-> "object", fields |-> fields]
isObject(data) == data.kind = "object"
Has(data, key) == isObject(data) /\ key \in DOMAIN data.fields

\* A block is an object whose fields are filled or null; null ones are hidden.
Block(filled, nulls) == [kind |-> "object", fields |-> [k \in {} |-> 0], filled |-> filled, nulls |-> nulls]
NoBlock == Block(0, 0)
objectEntries(block) == [keyValues |-> block.filled, hiddenCount |-> block.nulls, total |-> block.filled + block.nulls]
BlockOf(data, key) == IF Has(data, key) THEN data.fields[key] ELSE NoBlock
Flag(data, key) == Has(data, key) /\ data.fields[key]

\* The rows of an array, or of the list the object keeps under the key.
normalizeArray(data, key) ==
    CASE data.kind = "array" -> data.records
      [] Has(data, key) -> data.fields[key].records
      [] OTHER -> 0
normalizeField(data, key) == IF Has(data, key) THEN data.fields[key].records ELSE 0

readSnapshotCounts(data) ==
    LET number(key) == IF Has(data, key) THEN data.fields[key] ELSE Absent IN
    [count |-> IF number("count") = Absent THEN 0 ELSE number("count"), totalSeen |-> number("total_seen")]
Truncated(counts) == counts.totalSeen # Absent /\ counts.totalSeen > counts.count

\* An entry of a folder: what its type and its hints say; some have no path.
entryType(e) ==
    IF e.type = "directory" \/ e.directoryHint THEN "directory"
    ELSE IF e.type = "file" \/ e.fileHint THEN "file" ELSE "other"
normalizeFilesystemEntries(es) ==
    LET typed == {[path |-> e.path, type |-> entryType(e)] : e \in {x \in es : x.path # ""}} IN
    SetToSeq({e \in typed : e.type = "directory"}) \o SetToSeq({e \in typed : e.type # "directory"})

-----------------------------------------------------------------------------
\* View models.
Diagnostic(severity, reason) == [severity |-> severity, reason |-> reason]
Only(condition, d) == IF condition THEN <<d>> ELSE <<>>

Section(id, widget, size, note) == [id |-> id, widget |-> widget, size |-> size, note |-> note, items |-> <<>>]
Stats(size, note) == Section("overview", "stats", size, note)
Kv(id, block) == Section(id, "kv", objectEntries(block).keyValues, objectEntries(block).keyValues = 0)
buildProcessTable(id, rows) == Section(id, "table", IF rows > RowLimit THEN RowLimit ELSE rows, rows = 0)
Log(id) == Section(id, "log", 1, FALSE)
Artifact(row) == Section("artifact", "artifact", IF row.artifact THEN 1 ELSE 0, ~row.artifact)
Diagnostics(ds) == [Section("diagnostics", "diagnostics", Len(ds), ds = <<>>) EXCEPT !.items = ds]

View(diagnostics, sections) ==
    [diagnostics |-> diagnostics, sections |-> Append(sections, Diagnostics(diagnostics))]

\* Mutant: a command that failed on the device is left out.
buildDiagnosticsOfRefusals(row) ==
    Only(row.state \in {"rejected", "expired"}, Diagnostic("error", "command_failed"))
      \o Only(row.code, Diagnostic("warning", "error_code"))

buildDiagnosticsFromRow(row) ==
    Only(row.state \in {"failed", "rejected", "expired"}, Diagnostic("error", "command_failed"))
      \o Only(row.code, Diagnostic("warning", "error_code"))
Missing(row) == Only(~row.artifact, Diagnostic("warning", "artifact_missing"))
TruncatedTo(counts) == Only(Truncated(counts), Diagnostic("warning", "truncated_to_limit"))

KNOWN_COLLECT_SECTIONS == <<"identity", "os", "hardware", "runtime", "storage", "network", "security">>
buildCollectSystemInfo(row) ==
    LET included == IF Has(row.data, "included_fields") THEN row.data.fields.included_fields ELSE {}
        notIncluded == SelectSeq(KNOWN_COLLECT_SECTIONS, LAMBDA s : s \notin included)
        hardware == objectEntries(BlockOf(row.data, "hardware"))
    IN  View(buildDiagnosticsFromRow(row)
               \o Only(normalizeField(row.data, "collection_failures") > 0, Diagnostic("warning", "collection_failure"))
               \o [i \in 1..Len(notIncluded) |-> Diagnostic("info", notIncluded[i])]
               \o Only(Flag(row.data, "masked_fields"), Diagnostic("warning", "masked_fields")),
             << Stats(6, TRUE), Kv("identity", BlockOf(row.data, "identity")), Kv("os", BlockOf(row.data, "os")),
                Section("hardware", "kv", hardware.keyValues, hardware.hiddenCount > 0),
                Kv("runtime", BlockOf(row.data, "runtime")) >>)

buildPing(row) ==
    View(buildDiagnosticsFromRow(row), << Stats(3, FALSE), Kv("details", BlockOf(row.data, "payload")) >>)

\* Mutant: the first row the table cuts is not told.
InventoryOffByOne(row, key) ==
    LET rows == normalizeArray(row.data, key) IN
    View(buildDiagnosticsFromRow(row), << Stats(2, rows > RowLimit + 1), buildProcessTable(key, rows) >>)

\* list_processes, list_services and list_mounts are built alike.
Inventory(row, key) ==
    LET rows == normalizeArray(row.data, key) IN
    View(buildDiagnosticsFromRow(row), << Stats(2, rows > RowLimit), buildProcessTable(key, rows) >>)
buildListProcesses(row) == Inventory(row, "processes")
buildListServices(row) == Inventory(row, "services")
buildListMounts(row) == Inventory(row, "mounts")

buildListConnections(row) ==
    LET counts == readSnapshotCounts(row.data) IN
    View(buildDiagnosticsFromRow(row) \o TruncatedTo(counts),
         << Stats(3, Truncated(counts)),
            buildProcessTable("talkers", normalizeField(row.data, "top_talkers_by_connection_count")),
            buildProcessTable("connections", normalizeArray(row.data, "connections")) >>)

\* The Wi-Fi block always holds the two counts and, of an object, what was collected.
buildNetworkInfo(row) ==
    LET counts == readSnapshotCounts(row.data)
        wifi == objectEntries(BlockOf(row.data, "wifi"))
    IN  View(buildDiagnosticsFromRow(row) \o TruncatedTo(counts),
             << Stats(4, Truncated(counts)),
                buildProcessTable("interfaces", normalizeArray(row.data, "adapters")),
                Kv("wifi", Block(2 + wifi.keyValues, wifi.hiddenCount)),
                Log("saved-wifi"),
                buildProcessTable("vpn-routes", normalizeField(row.data, "default_routes")) >>)

WindowAvailable(data) == Flag(data, "available") \/ Flag(data, "helper_available")
buildActiveWindow(row) ==
    View(buildDiagnosticsFromRow(row)
           \o Only(~WindowAvailable(row.data), Diagnostic("warning", "window_unavailable")) \o Missing(row),
         << Stats(4, FALSE), Kv("window", BlockOf(row.data, "payload")), Artifact(row) >>)

\* A bare array is no payload here: only an object's entries are listed.
buildListFiles(row) ==
    LET entries == IF Has(row.data, "entries") THEN normalizeFilesystemEntries(row.data.fields.entries) ELSE <<>>
        partial == Flag(row.data, "partial")
    IN  View(buildDiagnosticsFromRow(row) \o Only(partial, Diagnostic("warning", "partial_result")),
             << Stats(6, TRUE), Section("explorer", "filesystem", Len(entries), entries = <<>>),
                Section("metadata", "kv", 5, FALSE) >>)

buildDownloadFile(row) ==
    View(buildDiagnosticsFromRow(row) \o Missing(row),
         << Stats(4, FALSE), Artifact(row), Kv("details", BlockOf(row.data, "payload")) >>)

buildScreenshot(row) ==
    View(buildDiagnosticsFromRow(row) \o Missing(row),
         << Stats(4, FALSE), Artifact(row), Kv("capture", BlockOf(row.data, "capture")),
            Kv("authorization", BlockOf(row.data, "authorization")) >>)

\* Any other method: a section per field; a list with a non-record in it has none.
GenericSection(key, value) ==
    CASE value.kind = "object" -> <<Section(key, "kv", value.filled, value.filled = 0 \/ value.nulls > 0)>>
      [] value.kind = "array" /\ value.junk = 0 -> <<buildProcessTable(key, value.records)>>
      [] value.kind = "none" -> <<Section(key, "kv", 1, FALSE)>>
      [] OTHER -> <<>>
buildGeneric(row) ==
    LET keys == IF isObject(row.data) THEN SetToSeq(DOMAIN row.data.fields) ELSE <<>>
        sections == FlattenSeq([i \in 1..Len(keys) |-> GenericSection(keys[i], row.data.fields[keys[i]])])
        fallback == <<Log(IF row.text /\ ~isObject(row.data) THEN "output" ELSE "summary")>>
    IN  View(buildDiagnosticsFromRow(row), IF sections = <<>> THEN fallback ELSE sections)

renderResult(m, row) ==
    LET method == resolveCommandMethod(m) IN
    CASE method = "collect_system_info" -> buildCollectSystemInfo(row)
      [] method = "ping" -> buildPing(row)
      [] method = "list_processes" -> buildListProcesses(row)
      [] method = "list_services" -> buildListServices(row)
      [] method = "list_mounts" -> buildListMounts(row)
      [] method = "list_connections" -> buildListConnections(row)
      [] method = "network_info" -> buildNetworkInfo(row)
      [] method = "get_active_window" -> buildActiveWindow(row)
      [] method = "list_files" -> buildListFiles(row)
      [] method = "download_file" -> buildDownloadFile(row)
      [] method = "screenshot" -> buildScreenshot(row)
      [] OTHER -> buildGeneric(row)

-----------------------------------------------------------------------------
\* Rows as the control plane answers them, and as the page keeps them.
\* An error code is a number, a numeral or blank; a link stands in a column or in
\* the result.
Envelopes == {[code |-> "none", link |-> "none"], [code |-> "number", link |-> "column"],
              [code |-> "numeral", link |-> "result"], [code |-> "blank", link |-> "blank"]}
toNumber(code) == code \in {"number", "numeral"}

\* Mutant: a link in the result is not looked for.
normalizeColumnUrl(link) == link = "column"

normalizeArtifactUrl(link) == link \in {"column", "result"}

mapCommandListRow(r) ==
    [state |-> normalizeCommandState(r.state), code |-> toNumber(r.code),
     artifact |-> normalizeArtifactUrl(r.link), text |-> r.text, data |-> r.data]

\* A field the detail leaves out keeps its value in the row.
mergeCommandDetail(base, detail) ==
    LET new == mapCommandListRow(detail) IN
    [new EXCEPT !.code = IF detail.code = "none" THEN base.code ELSE @,
                !.artifact = IF detail.link = "none" THEN base.artifact ELSE @,
                !.text = IF detail.data = NoData THEN base.text \/ @ ELSE @,
                !.data = IF detail.data = NoData THEN base.data ELSE @]

\* The payloads a method may come with: none, a text, a list and objects.
Lists == {List(0, 0), List(RowLimit, 1), List(RowLimit + 1, 0)}
Blocks == {Block(1, 1), Block(0, 1)}
Payloads(m) ==
    LET method == resolveCommandMethod(m) IN
    {NoData, List(1, 1)} \cup
    CASE method = "collect_system_info" ->
            {Object([identity |-> b, hardware |-> b, included_fields |-> i, masked_fields |-> f, collection_failures |-> l]) :
                b \in Blocks, i \in {{}, {"os", "identity"}}, f \in BOOLEAN, l \in Lists}
      [] method \in {"ping", "download_file"} -> {Object([payload |-> b]) : b \in Blocks}
      [] method = "list_processes" -> Lists \cup {Object([processes |-> l]) : l \in Lists}
      [] method = "list_services" -> Lists \cup {Object([services |-> l]) : l \in Lists}
      [] method = "list_mounts" -> Lists \cup {Object([mounts |-> l]) : l \in Lists}
      [] method = "list_connections" ->
            {Object([connections |-> l, count |-> c, total_seen |-> t]) : l \in Lists, c \in {Absent, 1}, t \in {Absent, 0, 1, 2}}
      [] method = "network_info" ->
            {Object([adapters |-> l, wifi |-> Block(1, 0), count |-> 1, total_seen |-> t]) : l \in Lists, t \in {Absent, 1, 2}}
      [] method = "get_active_window" ->
            {Object([payload |-> Block(1, 0), available |-> a, helper_available |-> h]) : a, h \in BOOLEAN}
      [] method = "list_files" ->
            {Object([entries |-> e, partial |-> p]) : p \in BOOLEAN,
                e \in {{}} \cup {{x} : x \in [path : {"", "p"}, type : {"directory", "other"},
                                              directoryHint : {FALSE}, fileHint : BOOLEAN]}}
      [] method = "screenshot" -> {Object([capture |-> b, authorization |-> NoBlock]) : b \in Blocks}
      [] OTHER -> {Object([extra |-> l]) : l \in Lists} \cup {Object([extra |-> Block(0, 1)]), Object([extra |-> NoData])}

ApiRow(state, code, link, text, data) == [state |-> state, code |-> code, link |-> link, text |-> text, data |-> data]
Queued == ApiRow("queued", "none", "none", FALSE, NoData)

vm == renderResult(ui.method, ui.row)
tabs == {vm.sections[i].id : i \in 1..Len(vm.sections)} \cup {"debug"}
currentTab == IF ui.tab \in tabs THEN ui.tab ELSE vm.sections[1].id
\* The section a tab draws is the first of its name.
ShownOn(tab) == LET named == {i \in 1..Len(vm.sections) : vm.sections[i].id = tab} IN
                vm.sections[CHOOSE i \in named : \A j \in named : i <= j]

SelectTab == \E t \in tabs : ui' = [ui EXCEPT !.tab = t] /\ UNCHANGED <<server, calls>>

CommandReported ==
    /\ server.row = Queued
    /\ \E s \in States, e \in Envelopes, d \in Payloads(ui.method) :
        server' = [row |-> ApiRow(s, e.code, e.link, s = "completed", d)]
    /\ UNCHANGED <<ui, calls>>

DetailRead ==
    /\ calls = "open"
    /\ ui' = [ui EXCEPT !.row = mergeCommandDetail(@, server.row)]
    /\ calls' = IF server.row = Queued THEN "open" ELSE "done"
    /\ UNCHANGED server

Init ==
    /\ \E m \in Methods : ui = [method |-> m, row |-> mapCommandListRow(Queued), tab |-> "overview"]
    /\ server = [row |-> Queued]
    /\ calls = "open"

Next == SelectTab \/ CommandReported \/ DetailRead

FairStep(i) == i = 1 /\ DetailRead

Spec == Init /\ [][Next]_resultVars /\ WF_resultVars(FairStep(1))

-----------------------------------------------------------------------------
(* Properties *)

Told(severity, reasons) ==
    \E i \in 1..Len(ShownOn("diagnostics").items) :
        LET d == ShownOn("diagnostics").items[i] IN d.severity = severity /\ d.reason \in reasons

\* The Diagnostics tab reports an error exactly for a command that failed, was
\* rejected or expired, whatever the method, the payload and the shape it came
\* in: every builder passes the row through buildDiagnosticsFromRow.
FailureIsTold ==
    Told("error", {"command_failed"}) <=> server.row.state \in {"failed", "rejected", "expired"} /\ calls = "done"

\* What the device cut is told: an inventory longer than the table on the
\* overview, a bounded snapshot and a partial folder among the diagnostics.
CutIsTold ==
    LET data == ui.row.data
        method == resolveCommandMethod(ui.method)
        counted == Has(data, "count") /\ data.fields.count # Absent /\ Has(data, "total_seen")
    IN  /\ \A p \in {<<"list_processes", "processes">>, <<"list_services", "services">>, <<"list_mounts", "mounts">>} :
            method = p[1] /\ normalizeArray(data, p[2]) > ShownOn(p[2]).size => ShownOn("overview").note
        /\ counted /\ data.fields.total_seen > data.fields.count => Told("warning", {"truncated_to_limit"})
        /\ Flag(data, "partial") => Told("warning", {"partial_result"})

\* A capture without its file, and a window nobody saw, are told, and a file or
\* a window that came is not called missing: the artifact link may stand in the
\* command's column or in its result, the window in the payload or in the
\* screenshot's helper.
GapsAreTold ==
    LET method == resolveCommandMethod(ui.method) IN
    /\ method \in {"screenshot", "download_file", "get_active_window"} =>
        (Told("warning", {"artifact_missing"}) <=> ~(calls = "done" /\ server.row.link \in {"column", "result"}))
    /\ method = "get_active_window" =>
        (Told("warning", {"window_unavailable"}) <=> ~\E f \in {"available", "helper_available"} : Flag(ui.row.data, f))
=============================================================================

---------------------------- MODULE DevicesTable ----------------------------
(***************************************************************************)
(* The device table: web/js/dashboard/views/devices.js.  The rows are made *)
(* again from state.devices whenever the device store answers; the chosen  *)
(* devices are kept beside them, those that have left the list included.   *)
(*                                                                         *)
(* The badges need no state: createStatusCell asks for the status of a     *)
(* badge that is not yet part of the page, refreshDeviceStatusBadge        *)
(* returns for such a badge, and the badge stays as it was made.           *)
(***************************************************************************)
EXTENDS PageValues

VARIABLES
    tableDevices,  \* state.devices
    chosen,        \* state.selected
    tableRows,     \* the rows, and whether their checkbox is ticked
    controls,      \* the master checkbox, Export selected, the label of Select all
    imports        \* what handleImport waits for: the import, or the list

tableVars == <<tableDevices, chosen, tableRows, controls, imports>>

Ticks == {"none", "some", "all"}

TypeOK ==
    /\ tableDevices \subseteq Devices /\ chosen \subseteq Devices
    /\ tableRows \in UNION {[shown -> BOOLEAN] : shown \in SUBSET Devices}
    /\ controls \in [master : Ticks, canExport : BOOLEAN, clears : BOOLEAN]
    /\ imports \in {"idle", "sent", "listing"}

\* updateSelectionUI: counted over the devices of the list.
Controls(devices, selected) ==
    LET counted == selected \cap devices IN
    [master |-> IF devices = {} \/ counted = {} THEN "none"
                ELSE IF counted = devices THEN "all" ELSE "some",
     canExport |-> counted # {},
     clears |-> counted = devices /\ devices # {}]

\* renderTable
\* Mutant: an empty table leaves the controls alone.
RenderTableQuiet(devices, selected) ==
    /\ tableRows' = [d \in devices |-> d \in selected]
    /\ controls' = IF devices = {} THEN controls ELSE Controls(devices, selected)

RenderTable(devices, selected) ==
    /\ tableRows' = [d \in devices |-> d \in selected]
    /\ controls' = Controls(devices, selected)

Init ==
    /\ tableDevices = {} /\ chosen = {}
    /\ tableRows = [d \in {} |-> FALSE]
    /\ controls = Controls({}, {})
    /\ imports = "idle"

\* The subscription of bootstrapStandalone and init.
ListArrives(devices) ==
    /\ tableDevices' = devices
    /\ RenderTable(devices, chosen)
    /\ imports' = IF imports = "listing" THEN "idle" ELSE imports
    /\ UNCHANGED chosen

\* toggleDeviceSelection: the browser has ticked the box of the row.
ToggleDeviceSelection(d) ==
    /\ d \in DOMAIN tableRows
    /\ chosen' = IF tableRows[d] THEN chosen \ {d} ELSE chosen \cup {d}
    /\ tableRows' = [tableRows EXCEPT ![d] = ~@]
    /\ controls' = Controls(tableDevices, chosen')
    /\ UNCHANGED <<tableDevices, imports>>

\* handleSelectAll; the master checkbox (half ticked, it becomes ticked).
\* Mutant: a selection is cleared first.
SelectAllClears ==
    /\ chosen' = IF chosen = {} THEN tableDevices ELSE {}
    /\ RenderTable(tableDevices, chosen')
    /\ UNCHANGED <<tableDevices, imports>>

HandleSelectAll ==
    /\ chosen' = IF tableDevices \subseteq chosen THEN {} ELSE chosen \cup tableDevices
    /\ RenderTable(tableDevices, chosen')
    /\ UNCHANGED <<tableDevices, imports>>

MasterChanges ==
    /\ chosen' = IF controls.master = "all" THEN {} ELSE chosen \cup tableDevices
    /\ RenderTable(tableDevices, chosen')
    /\ UNCHANGED <<tableDevices, imports>>

\* Export selected: the devices of the list that are chosen; none is refused.
Exported == tableDevices \cap chosen

\* handleImport posts the file and then loads the list with force.
HandleImport ==
    /\ imports = "idle"
    /\ imports' = "sent"
    /\ UNCHANGED <<tableDevices, chosen, tableRows, controls>>

ImportAnswers ==
    /\ imports = "sent"
    /\ imports' \in {"listing", "idle"}
    /\ UNCHANGED <<tableDevices, chosen, tableRows, controls>>

Next ==
    \/ \E devices \in SUBSET Devices : ListArrives(devices)
    \/ \E d \in Devices : ToggleDeviceSelection(d)
    \/ HandleSelectAll \/ MasterChanges \/ HandleImport \/ ImportAnswers

Spec == Init /\ [][Next]_tableVars

-----------------------------------------------------------------------------
(* Properties *)

\* The export takes exactly the rows that are ticked, and is offered exactly
\* when there are any, though chosen keeps devices that are not in the table.
ExportIsWhatIsTicked ==
    /\ Exported = {d \in DOMAIN tableRows : tableRows[d]}
    /\ controls.canExport <=> Exported # {}

\* Select all does what its label says: it leaves every row ticked, or, when
\* it is called Clear selection, none; so does the master checkbox.
SelectAllDoesAsItSays ==
    [][ (tableDevices # {} /\ (HandleSelectAll \/ MasterChanges))
        => \A d \in DOMAIN tableRows' : tableRows'[d] <=> ~controls.clears ]_tableVars
=============================================================================

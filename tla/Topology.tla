------------------------------ MODULE Topology ------------------------------
(***************************************************************************)
(* The network map: web/js/dashboard/views/network-visualisation.js.       *)
(* A load reads the device list, the telemetry and the status of every     *)
(* device, one after the other, and then draws; the nodes that are drawn   *)
(* stay in use meanwhile: the user hovers over them, drags them and        *)
(* resizes the window.                                                     *)
(*                                                                         *)
(* A node's position is "its own" (dragged) or the layout's; the arithmetic*)
(* of the layout is in TopologyLayout.  The load is started by init and by *)
(* the refresh button, which is disabled while one runs.  Its failures are *)
(* caught where they happen (no metric, no status, the store's samples).   *)
(***************************************************************************)
EXTENDS PageValues

VARIABLES
    loadStage,        \* what the load waits for: "list", "telemetry", "statuses"; "idle"
    loadList,         \* the list it was given
    topoDevices,      \* state.devices, whose nodes are drawn
    deviceMap,        \* the keys of state.deviceMap
    selectedDevice,
    hoveredDevice,
    insightPanel,     \* the device of the panel, None: its buttons are hidden
    customPositions,  \* devices that were dragged
    dragged,          \* the device whose node has the pointer
    dragCursor,       \* the body has the class cursor-dragging
    renderFrame       \* resizeScheduled

topoVars == <<loadStage, loadList, topoDevices, deviceMap, selectedDevice, hoveredDevice,
              insightPanel, customPositions, dragged, dragCursor, renderFrame>>

TypeOK ==
    /\ loadStage \in {"idle", "list", "telemetry", "statuses"}
    /\ loadList \subseteq Devices /\ topoDevices \subseteq Devices
    /\ deviceMap \subseteq Devices /\ customPositions \subseteq Devices
    /\ {selectedDevice, hoveredDevice, insightPanel, dragged} \subseteq Devices \cup {None}
    /\ {dragCursor, renderFrame} \subseteq BOOLEAN

\* init: nothing is drawn, and the first load begins.
Init ==
    /\ loadStage = "list"
    /\ loadList = {} /\ topoDevices = {} /\ deviceMap = {} /\ customPositions = {}
    /\ selectedDevice = None /\ hoveredDevice = None /\ insightPanel = None
    /\ dragged = None
    /\ dragCursor = FALSE /\ renderFrame = FALSE

-----------------------------------------------------------------------------
(* Selecting and drawing *)

\* selectDevice: a device that deviceMap does not have clears the selection.
\* Mutant: it leaves the panel as it is.
SelectKeepsPanel(d, map) ==
    /\ selectedDevice' = IF d \in map THEN d ELSE None
    /\ insightPanel' = IF d \in map THEN d ELSE insightPanel

Select(d, map) ==
    /\ selectedDevice' = IF d \in map THEN d ELSE None
    /\ insightPanel' = IF d \in map THEN d ELSE None

\* What renderTopology does about the selection: the first device, if what is
\* selected is not in deviceMap; nothing if there is no device.
\* Mutant: the first device, if nothing is selected.
ReselectIfNone(drawn, map) ==
    IF drawn # {} /\ selectedDevice = None
    THEN \E d \in drawn : Select(d, map)
    ELSE UNCHANGED <<selectedDevice, insightPanel>>

Reselect(drawn, map) ==
    IF drawn # {} /\ selectedDevice \notin map
    THEN \E d \in drawn : Select(d, map)
    ELSE UNCHANGED <<selectedDevice, insightPanel>>

\* renderTopology makes new nodes.  The one being dragged goes, and with it the
\* pointer, but not the cursor.
Render(drawn, map) ==
    /\ Reselect(drawn, map)
    /\ dragged' = None

\* A resize asks for a frame; the frame draws.
Resize ==
    /\ ~renderFrame
    /\ renderFrame' = TRUE
    /\ UNCHANGED <<loadStage, loadList, topoDevices, deviceMap, selectedDevice, hoveredDevice,
                   insightPanel, customPositions, dragged, dragCursor>>

Frame ==
    /\ renderFrame
    /\ renderFrame' = FALSE
    /\ Render(topoDevices, deviceMap)
    /\ UNCHANGED <<loadStage, loadList, topoDevices, deviceMap, hoveredDevice, customPositions,
                   dragCursor>>

-----------------------------------------------------------------------------
(* loadTopology *)

Refresh ==
    /\ loadStage = "idle"
    /\ loadStage' = "list"
    /\ UNCHANGED <<loadList, topoDevices, deviceMap, selectedDevice, hoveredDevice, insightPanel,
                   customPositions, dragged, dragCursor, renderFrame>>

\* The device store has a list; fetchTelemetry asks for the metrics of each.
ListArrives(list) ==
    /\ loadStage = "list"
    /\ loadStage' = "telemetry"
    /\ loadList' = list
    /\ UNCHANGED <<topoDevices, deviceMap, selectedDevice, hoveredDevice, insightPanel,
                   customPositions, dragged, dragCursor, renderFrame>>

\* buildDevices empties deviceMap and asks for the status of each.
TelemetryArrives ==
    /\ loadStage = "telemetry"
    /\ loadStage' = "statuses"
    /\ deviceMap' = {}
    /\ UNCHANGED <<loadList, topoDevices, selectedDevice, hoveredDevice, insightPanel,
                   customPositions, dragged, dragCursor, renderFrame>>

\* buildDevices ends: deviceMap is filled, positions of devices that are gone
\* are dropped, and the map is drawn.
\* Mutant: the positions are kept.
StatusesArriveUnpruned ==
    /\ loadStage = "statuses"
    /\ loadStage' = "idle"
    /\ topoDevices' = loadList /\ deviceMap' = loadList
    /\ loadList' = {}
    /\ Render(loadList, loadList)
    /\ UNCHANGED <<hoveredDevice, customPositions, dragCursor, renderFrame>>

StatusesArrive ==
    /\ loadStage = "statuses"
    /\ loadStage' = "idle"
    /\ topoDevices' = loadList /\ deviceMap' = loadList
    /\ loadList' = {}
    /\ customPositions' = customPositions \cap loadList
    /\ Render(loadList, loadList)
    /\ UNCHANGED <<hoveredDevice, dragCursor, renderFrame>>

-----------------------------------------------------------------------------
(* The nodes: createDeviceNode, enableDragging *)

\* The pointer or the focus comes to a node.
Hover(d) ==
    /\ d \in topoDevices
    /\ hoveredDevice' = d
    /\ Select(d, deviceMap)
    /\ UNCHANGED <<loadStage, loadList, topoDevices, deviceMap, customPositions, dragged,
                   dragCursor, renderFrame>>

Unhover ==
    /\ hoveredDevice # None
    /\ hoveredDevice' = None
    /\ UNCHANGED <<loadStage, loadList, topoDevices, deviceMap, selectedDevice, insightPanel,
                   customPositions, dragged, dragCursor, renderFrame>>

PointerDown(d) ==
    /\ d \in topoDevices /\ dragged = None
    /\ dragged' = d /\ dragCursor' = TRUE
    /\ UNCHANGED <<loadStage, loadList, topoDevices, deviceMap, selectedDevice, hoveredDevice,
                   insightPanel, customPositions, renderFrame>>

PointerMove ==
    /\ dragged # None
    /\ customPositions' = customPositions \cup {dragged}
    /\ UNCHANGED <<loadStage, loadList, topoDevices, deviceMap, selectedDevice, hoveredDevice,
                   insightPanel, dragged, dragCursor, renderFrame>>

EndDrag ==
    /\ dragged # None
    /\ dragged' = None /\ dragCursor' = FALSE
    /\ UNCHANGED <<loadStage, loadList, topoDevices, deviceMap, selectedDevice, hoveredDevice,
                   insightPanel, customPositions, renderFrame>>

Next ==
    \/ Refresh \/ TelemetryArrives \/ StatusesArrive \/ Resize \/ Frame
    \/ \E list \in SUBSET Devices : ListArrives(list)
    \/ \E d \in Devices : Hover(d) \/ PointerDown(d)
    \/ Unhover \/ PointerMove \/ EndDrag

Spec == Init /\ [][Next]_topoVars

-----------------------------------------------------------------------------
(* Properties *)

\* Between loads a map with nodes has one of them selected, whatever the user
\* did while deviceMap was empty and whichever devices the load removed.
SelectionIsDrawn ==
    loadStage = "idle" /\ topoDevices # {} => selectedDevice \in topoDevices

\* The panel never describes another device than the selected one.
PanelShowsSelection == insightPanel = selectedDevice

\* A device that is not on the map keeps no position: one that comes back
\* under its id is laid out again, and a drag cannot outlive its node.
PositionsAreDrawn == customPositions \cup ({dragged} \ {None}) \subseteq topoDevices
=============================================================================

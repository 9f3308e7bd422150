------------------------------ MODULE MapPage ------------------------------
(***************************************************************************)
(* The saved maps: web/js/dashboard/views/overview-map.js.  A refresh asks *)
(* for the groups and for the maps, stores each answer when it comes, and  *)
(* draws when it has both; meanwhile the table is drawn again from a mix   *)
(* of old and new by every click and keystroke.                            *)
(*                                                                         *)
(* A map has the id of its group.  A search is the set of maps it matches. *)
(***************************************************************************)
EXTENDS PageValues

VARIABLES
    mapGroups, savedMaps, \* state.groups, state.maps
    mapGroup,             \* state.selectedGroup
    mapSearch,            \* state.filterText
    openedMap,            \* state.selectedMapId
    mapRows,              \* the rows of the table
    mapTree,              \* the groups with a button in the tree
    activeGroup,          \* the button that is highlighted
    mapCounted,           \* the maps the status line counts
    mapCanvas,            \* the map of the preview, None if it is hidden
    mapRefreshes          \* what each refresh under way still waits for

mapVars == <<mapGroups, savedMaps, mapGroup, mapSearch, openedMap, mapRows, mapTree,
             activeGroup, mapCounted, mapCanvas, mapRefreshes>>

Maps == Devices
Parts == {"groups", "maps"}
Refreshing(r) == mapRefreshes[r] # {}

TypeOK ==
    /\ mapGroups \subseteq Maps /\ savedMaps \subseteq Maps /\ mapSearch \subseteq Maps
    /\ mapRows \subseteq Maps /\ mapCounted \subseteq Maps /\ mapTree \subseteq Maps
    /\ {mapGroup, openedMap, activeGroup, mapCanvas} \subseteq Maps \cup {None}
    /\ mapRefreshes \in [Requests -> SUBSET Parts]

\* mapMatchesFilters: a group that is not in the list does not filter.
Visible(groups, maps, group, search) ==
    {m \in maps : (group \in groups => m = group) /\ m \in search}

\* renderGroupsTree, renderTable, updateStatus.  A group has a button if all groups
\* above it are listed; which those are is the server's.
Drawn(groups, maps, group, search) ==
    /\ \E tree \in SUBSET groups : mapTree' = tree
    /\ activeGroup' = IF group \in mapTree' THEN group ELSE None
    /\ mapRows' = Visible(groups, maps, group, search)
    /\ mapCounted' = Visible(groups, maps, group, search)

\* openMap: its own renderTable, and the preview if the map is there.
OpenMap(m, groups, maps) ==
    /\ openedMap' = m
    /\ mapRows' = Visible(groups, maps, mapGroup, mapSearch)
    /\ mapCanvas' = IF m \in maps THEN m ELSE None

Init ==
    /\ mapGroups = {} /\ savedMaps = {} /\ mapSearch = Maps
    /\ mapGroup = None /\ openedMap = None
    /\ mapRows = {} /\ mapCounted = {} /\ mapTree = {} /\ activeGroup = None /\ mapCanvas = None
    /\ mapRefreshes = [r \in Requests |-> {}]

-----------------------------------------------------------------------------
(* The user *)

\* A click on the button of a group, though it may have left the list, chooses it
\* or undoes the choice.
ChooseGroup(g) ==
    /\ g \in mapTree
    /\ mapGroup' = IF mapGroup = g THEN None ELSE g
    /\ Drawn(mapGroups, savedMaps, mapGroup', mapSearch)
    /\ UNCHANGED <<mapGroups, savedMaps, mapSearch, openedMap, mapCanvas, mapRefreshes>>

Search(matching) ==
    /\ mapSearch' = matching
    /\ mapRows' = Visible(mapGroups, savedMaps, mapGroup, matching)
    /\ mapCounted' = mapRows'
    /\ UNCHANGED <<mapGroups, savedMaps, mapGroup, openedMap, mapTree, activeGroup,
                   mapCanvas, mapRefreshes>>

ClickRow(m) ==
    /\ m \in mapRows
    /\ OpenMap(m, mapGroups, savedMaps)
    /\ UNCHANGED <<mapGroups, savedMaps, mapGroup, mapSearch, mapTree, activeGroup, mapCounted,
                   mapRefreshes>>

-----------------------------------------------------------------------------
(* refreshData, loadGroups, loadMaps *)

RefreshData(r) ==
    /\ ~Refreshing(r)
    /\ mapRefreshes' = [mapRefreshes EXCEPT ![r] = Parts]
    /\ UNCHANGED <<mapGroups, savedMaps, mapGroup, mapSearch, openedMap, mapRows, mapTree,
                   activeGroup, mapCounted, mapCanvas>>

\* An answer of a refresh; the last one draws, and opens the first map.
\* Mutant: the first answer draws already.
ArrivesRaced(r, part, groups, maps) ==
    /\ mapGroups' = groups /\ savedMaps' = maps
    /\ mapRefreshes' = [mapRefreshes EXCEPT ![r] = @ \ {part}]
    /\ IF mapRefreshes[r] = Parts
       THEN /\ Drawn(groups, maps, mapGroup, mapSearch)
            /\ IF maps = {} THEN mapCanvas' = None /\ UNCHANGED openedMap
               ELSE \E m \in maps : openedMap' = m /\ mapCanvas' = m
       ELSE UNCHANGED <<openedMap, mapRows, mapTree, activeGroup, mapCounted, mapCanvas>>
    /\ UNCHANGED <<mapGroup, mapSearch>>

Arrives(r, part, groups, maps) ==
    /\ mapGroups' = groups /\ savedMaps' = maps
    /\ mapRefreshes' = [mapRefreshes EXCEPT ![r] = @ \ {part}]
    /\ IF mapRefreshes[r] = {part}
       THEN /\ Drawn(groups, maps, mapGroup, mapSearch)
            /\ IF maps = {} THEN mapCanvas' = None /\ UNCHANGED openedMap
               ELSE \E m \in maps : openedMap' = m /\ mapCanvas' = m
       ELSE UNCHANGED <<openedMap, mapRows, mapTree, activeGroup, mapCounted, mapCanvas>>
    /\ UNCHANGED <<mapGroup, mapSearch>>

\* A list that is empty, or a failure, gives the samples: never no list at all.
GroupsArrive(r, groups) ==
    /\ "groups" \in mapRefreshes[r]
    /\ Arrives(r, "groups", groups, savedMaps)

MapsArrive(r, maps) ==
    /\ "maps" \in mapRefreshes[r]
    /\ Arrives(r, "maps", mapGroups, maps)

Next ==
    \/ \E m \in Maps : ChooseGroup(m) \/ ClickRow(m)
    \/ \E matching \in SUBSET Maps : Search(matching)
    \/ \E r \in Requests :
           \/ RefreshData(r)
           \/ \E list \in (SUBSET Maps) \ {{}} : GroupsArrive(r, list) \/ MapsArrive(r, list)

Spec == Init /\ [][Next]_mapVars

-----------------------------------------------------------------------------
(* Properties *)

\* When no refresh runs, everything that is drawn was drawn from the lists and
\* filters the page has: an answer that only replaced a list is always followed
\* by a drawing, whichever refresh it belonged to.
DrawnFromLists ==
    (\A r \in Requests : ~Refreshing(r)) =>
        /\ mapRows = Visible(mapGroups, savedMaps, mapGroup, mapSearch)
        /\ mapCounted = mapRows
        /\ mapTree \subseteq mapGroups
        /\ activeGroup = IF mapGroup \in mapTree THEN mapGroup ELSE None

\* When no refresh runs, the preview is of the map that is open, and that map
\* is one of the saved ones (before the first refresh there is none).  Which one
\* is not the user's alone: the end of each refresh opens the first of its list.
PreviewIsOfOpened ==
    (\A r \in Requests : ~Refreshing(r)) =>
        mapCanvas = openedMap /\ openedMap \in savedMaps \cup {None}
=============================================================================

------------------------------ MODULE ScanPage ------------------------------
(***************************************************************************)
(* The network analysis page:                                              *)
(* web/js/dashboard/views/network-analysis.js.  It lists the networks the  *)
(* server knows, lets the user choose some of them, add and remove manual  *)
(* ones, and scans the chosen ones one after the other.  Every change      *)
(* loads the list again, and nothing keeps two loads from overlapping.     *)
(*                                                                         *)
(* A list is the set of networks it holds, any set: the server's networks  *)
(* come and go with its interfaces.  The medium of a network, the ping     *)
(* columns and the texts are left out.                                     *)
(***************************************************************************)
EXTENDS PageValues

CONSTANTS
    Networks,  \* what the server may list
    Scans      \* calls of handleRunScan

VARIABLES
    ranges,      \* state.ranges
    selected,    \* state.selected
    rangeLoads,  \* the loads of the list under way
    rangeEdit,   \* the network that is being added (savingManual), and its load
    removing,    \* the networks whose removal the server has not answered
    scanning,    \* state.scanning, which disables the run button
    toScan,      \* per scan: the networks it still has to ask about; None
    scanWaits,   \* per scan: the network whose answer it waits for
    scanResults, \* the scans whose devices are in state.results
    lastScan     \* the scan that was started last

scanVars == <<ranges, selected, rangeLoads, rangeEdit, removing, scanning, toScan, scanWaits,
              scanResults, lastScan>>

NoEdit == [net |-> None, load |-> None]

TypeOK ==
    /\ ranges \subseteq Networks /\ selected \subseteq Networks
    /\ rangeLoads \subseteq Requests
    /\ rangeEdit \in [net : Networks \cup {None}, load : Requests \cup {None}]
    /\ removing \subseteq Networks
    /\ scanning \in BOOLEAN
    /\ toScan \in [Scans -> (SUBSET Networks) \cup {None}]
    /\ scanWaits \in [Scans -> Networks \cup {None}]
    /\ scanResults \subseteq Scans
    /\ lastScan \in Scans \cup {None}

\* init binds the controls and loads the list, which is a Refresh.
Init ==
    /\ ranges = {} /\ selected = {} /\ rangeLoads = {}
    /\ rangeEdit = NoEdit /\ removing = {}
    /\ scanning = FALSE
    /\ toScan = [s \in Scans |-> None] /\ scanWaits = [s \in Scans |-> None]
    /\ scanResults = {} /\ lastScan = None

-----------------------------------------------------------------------------
(* Loading the list *)

\* The networks that are selected after a load: those that were, or all of them
\* if none was.
\* Mutant: all of them.
SelectionOfAll(list) == list

SelectionOf(list) == IF selected = {} THEN list ELSE selected \cap list

\* The end of a load; if it was that of an addition, the form may be sent again.
LoadEnds(r) ==
    /\ rangeLoads' = rangeLoads \ {r}
    /\ rangeEdit' = IF rangeEdit.load = r THEN NoEdit ELSE rangeEdit
    /\ UNCHANGED <<removing, scanning, toScan, scanWaits, scanResults, lastScan>>

LoadArrives(r, list) ==
    /\ r \in rangeLoads
    /\ ranges' = list
    /\ selected' = SelectionOf(list)
    /\ LoadEnds(r)

\* The list is emptied, the selection kept for the next load.
LoadFails(r) ==
    /\ r \in rangeLoads
    /\ ranges' = {}
    /\ UNCHANGED selected
    /\ LoadEnds(r)

\* The refresh button, which is disabled during a scan.
Refresh(r) ==
    /\ ~scanning /\ r \notin rangeLoads
    /\ rangeLoads' = rangeLoads \cup {r}
    /\ UNCHANGED <<ranges, selected, rangeEdit, removing, scanning, toScan, scanWaits, scanResults,
                   lastScan>>

-----------------------------------------------------------------------------
(* Choosing, adding and removing networks *)

Tick(n) ==
    /\ n \in ranges
    /\ selected' = IF n \in selected THEN selected \ {n} ELSE selected \cup {n}
    /\ UNCHANGED <<ranges, rangeLoads, rangeEdit, removing, scanning, toScan, scanWaits,
                   scanResults, lastScan>>

\* handleManualFormSubmit: one at a time.
Add(n) ==
    /\ rangeEdit = NoEdit
    /\ rangeEdit' = [net |-> n, load |-> None]
    /\ UNCHANGED <<ranges, selected, rangeLoads, removing, scanning, toScan, scanWaits,
                   scanResults, lastScan>>

\* The server has it: the network joins the selection, and the list is loaded.
AddAnswered(r) ==
    /\ rangeEdit # NoEdit /\ rangeEdit.load = None /\ r \notin rangeLoads
    /\ rangeLoads' = rangeLoads \cup {r}
    /\ rangeEdit' = [rangeEdit EXCEPT !.load = r]
    /\ selected' = selected \cup {rangeEdit.net}
    /\ UNCHANGED <<ranges, removing, scanning, toScan, scanWaits, scanResults, lastScan>>

AddFails ==
    /\ rangeEdit # NoEdit /\ rangeEdit.load = None
    /\ rangeEdit' = NoEdit
    /\ UNCHANGED <<ranges, selected, rangeLoads, removing, scanning, toScan, scanWaits,
                   scanResults, lastScan>>

\* deleteManualRange: only its own button is disabled, so removals overlap each
\* other and an addition.  (A second one of the same network, by the button that a
\* load draws anew, is refused and changes nothing.)
Remove(n) ==
    /\ n \in ranges \ removing
    /\ removing' = removing \cup {n}
    /\ UNCHANGED <<ranges, selected, rangeLoads, rangeEdit, scanning, toScan, scanWaits,
                   scanResults, lastScan>>

RemoveAnswered(n, r) ==
    /\ n \in removing /\ r \notin rangeLoads
    /\ removing' = removing \ {n}
    /\ rangeLoads' = rangeLoads \cup {r}
    /\ selected' = selected \ {n}
    /\ UNCHANGED <<ranges, rangeEdit, scanning, toScan, scanWaits, scanResults, lastScan>>

RemoveFails(n) ==
    /\ n \in removing
    /\ removing' = removing \ {n}
    /\ UNCHANGED <<ranges, selected, rangeLoads, rangeEdit, scanning, toScan, scanWaits,
                   scanResults, lastScan>>

-----------------------------------------------------------------------------
(* handleRunScan *)

Chosen == ranges \cap selected

\* Mutant: a scan does not look for one under way.
StartScanAgain(s) ==
    /\ toScan[s] = None /\ lastScan # s /\ Chosen # {}
    /\ scanning' = TRUE
    /\ scanResults' = {} /\ lastScan' = s
    /\ \E n \in Chosen : /\ scanWaits' = [scanWaits EXCEPT ![s] = n]
                         /\ toScan' = [toScan EXCEPT ![s] = Chosen \ {n}]
    /\ UNCHANGED <<ranges, selected, rangeLoads, rangeEdit, removing>>

StartScan(s) ==
    /\ ~scanning
    /\ toScan[s] = None /\ lastScan # s /\ Chosen # {}
    /\ scanning' = TRUE
    /\ scanResults' = {} /\ lastScan' = s
    /\ \E n \in Chosen : /\ scanWaits' = [scanWaits EXCEPT ![s] = n]
                         /\ toScan' = [toScan EXCEPT ![s] = Chosen \ {n}]
    /\ UNCHANGED <<ranges, selected, rangeLoads, rangeEdit, removing>>

\* The next network, or the end.
\* Mutant: a network that failed ends the loop.
NextScanOfOk(s, ok) ==
    IF ~ok THEN scanWaits' = [scanWaits EXCEPT ![s] = None] /\ UNCHANGED <<toScan, scanning>>
    ELSE IF toScan[s] = {}
    THEN /\ toScan' = [toScan EXCEPT ![s] = None]
         /\ scanWaits' = [scanWaits EXCEPT ![s] = None]
         /\ scanning' = FALSE
    ELSE /\ \E n \in toScan[s] : /\ scanWaits' = [scanWaits EXCEPT ![s] = n]
                                 /\ toScan' = [toScan EXCEPT ![s] = @ \ {n}]
         /\ UNCHANGED scanning

NextScan(s, ok) ==
    IF toScan[s] = {}
    THEN /\ toScan' = [toScan EXCEPT ![s] = None]
         /\ scanWaits' = [scanWaits EXCEPT ![s] = None]
         /\ scanning' = FALSE
    ELSE /\ \E n \in toScan[s] : /\ scanWaits' = [scanWaits EXCEPT ![s] = n]
                                 /\ toScan' = [toScan EXCEPT ![s] = @ \ {n}]
         /\ UNCHANGED scanning

\* The answer for a network, with its devices; or its failure, which is noted.
ScanAnswer(s, ok) ==
    /\ scanWaits[s] # None
    /\ scanResults' = IF ok THEN scanResults \cup {s} ELSE scanResults
    /\ NextScan(s, ok)
    /\ UNCHANGED <<ranges, selected, rangeLoads, rangeEdit, removing, lastScan>>

Scanning == \E s \in Scans, ok \in BOOLEAN : ScanAnswer(s, ok)

Next ==
    \/ \E r \in Requests : LoadFails(r) \/ Refresh(r) \/ AddAnswered(r)
    \/ \E r \in Requests, list \in SUBSET Networks : LoadArrives(r, list)
    \/ \E n \in Networks : Tick(n) \/ Add(n) \/ Remove(n) \/ RemoveFails(n)
    \/ \E n \in Networks, r \in Requests : RemoveAnswered(n, r)
    \/ AddFails
    \/ \E s \in Scans : StartScan(s)
    \/ Scanning

Spec == Init /\ [][Next]_scanVars

-----------------------------------------------------------------------------
(* Properties *)

\* While anything is chosen, a list that arrives keeps of the choice what it holds
\* and selects nothing else, whatever was added or removed meanwhile, and a failed
\* load keeps all of it.  While nothing is chosen - also because the list before did
\* not hold the choice, or it was removed - a list selects all it holds.
ReloadKeepsChoice ==
    [][ ranges' # ranges =>
            IF selected = {} THEN selected' = ranges'
            ELSE /\ selected' \subseteq selected
                 /\ selected \cap ranges' \subseteq selected' ]_scanVars

\* The results on the page are those of one scan, the one started last, though
\* lists are loaded and networks removed while it runs.
ResultsOfOneScan == scanResults \subseteq {lastScan}

\* The buttons are taken away exactly while a scan waits for an answer, whichever
\* of its networks fail: no scan ends without giving them back.
ScanEnds == scanning = (\E s \in Scans : scanWaits[s] # None)
=============================================================================

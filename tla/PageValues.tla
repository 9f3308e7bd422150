----------------------------- MODULE PageValues -----------------------------
(***************************************************************************)
(* The constants of the models of the dashboard's pages (web/js).  Every   *)
(* page of the dashboard is a JavaScript world of its own; what its code   *)
(* shares with the other pages is the server and these values.             *)
(*                                                                         *)
(* JavaScript runs to completion: an action of a page module is what       *)
(* happens between two events - a click, a timer, an animation frame, an   *)
(* answer that arrives - up to the next await.                             *)
(***************************************************************************)
EXTENDS Integers

CONSTANTS
    None,          \* null, undefined, no entry, no request
    Requests,      \* bound: requests under way at the same time
    Devices,       \* devices the server may list
    Sample,        \* the sample data shown when a request fails
    Empty,         \* [], the list made of an answer of unknown shape
    Waiting,       \* sent or subscribed, and given nothing yet
    MaxTime,       \* bound: ticks of the clock
    MaxChanges,    \* bound: changes made on the server
    StatusTTL,     \* STATUS_CACHE_TTL_MS of device-status.js, in ticks
    OverviewTTL,   \* that of views/overview.js
    OnlineFor,     \* PING_ONLINE_THRESHOLD_MS
    UnreachableIn, \* PING_UNREACHABLE_THRESHOLD_MS
    GeoTTL,        \* CACHE_TTL of createGeolocationService
    GeoErrorTTL,   \* its ERROR_TTL
    MinVisible,    \* minVisibleMs of createLoadingIndicator
    HideDelay      \* the 220 ms its bar stays full

ASSUME PageNames ==
    /\ None \notin Requests \cup Devices \cup {Sample, Empty, Waiting}
    /\ {None, Sample, Empty, Waiting} \cap Int = {}
    /\ Waiting \notin {Sample, Empty}
ASSUME PageTimes ==
    /\ MaxTime \in Nat /\ MaxChanges \in Nat
    /\ StatusTTL \in Nat /\ OverviewTTL \in Nat /\ GeoTTL \in Nat /\ GeoErrorTTL \in Nat
    /\ MinVisible \in Nat /\ HideDelay \in Nat
    /\ OnlineFor \in Nat /\ UnreachableIn \in Nat /\ OnlineFor <= UnreachableIn
=============================================================================

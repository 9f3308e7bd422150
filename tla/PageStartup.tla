---------------------------- MODULE PageStartup ----------------------------
(***************************************************************************)
(* How a page of the dashboard starts: its scripts run in order            *)
(* (shared.js, main.js, the view), and when the document is there          *)
(* main.js wraps the page in its template, makes the shared services       *)
(* ready, asks who is logged in, starts the controller of the route and    *)
(* then runs the callbacks that scripts gave to whenReady.                 *)
(*                                                                         *)
(* Names is what the object that shared.js exposes is built from, and      *)
(* undeclared those of them that no script declares.  The code as it is    *)
(* has four (formatGeolocationLabel, -Meta, -Tooltip, geoTooltipManager):  *)
(* shared.js ends before it assigns PulseOps.shared, and no page has its   *)
(* services.  With {} they are there.  Both are in Undeclared.             *)
(***************************************************************************)
EXTENDS PageValues

CONSTANTS
    Names,      \* of the literal "shared", see above
    Undeclared, \* the sets of names that a build of the page may leave undeclared
    Callbacks   \* what the scripts give to whenReady

VARIABLES
    undeclared,    \* the names that no script declares
    stage,         \* how far the page has come
    isDashboard,   \* data-page of the body
    sharedSet,     \* PulseOps.shared was assigned
    servicesReady, \* shared.ready, set by initDomBindings
    template,      \* the page is wrapped in the dashboard's template
    viewStarts,    \* how often the view of the route was initialised
    ready,         \* ready and readyContext of main.js
    readyQueue,
    callbacksRun   \* per callback: None, or what was ready when it ran

startupVars == <<undeclared, stage, isDashboard, sharedSet, servicesReady, template, viewStarts, ready,
                 readyQueue, callbacksRun>>

\* Between two stages of a dashboard page there is an await.
Stages == {"shared.js", "main.js", "view.js", "parsed", "template", "auth", "controller", "done"}
RunWith == [view : BOOLEAN, services : BOOLEAN]

TypeOK ==
    /\ undeclared \in Undeclared /\ stage \in Stages
    /\ {isDashboard, sharedSet, servicesReady, template, ready} \subseteq BOOLEAN
    /\ viewStarts \in 0..2
    /\ readyQueue \subseteq Callbacks
    /\ callbacksRun \in [Callbacks -> RunWith \cup {None}]

Init ==
    /\ undeclared \in Undeclared
    /\ stage = "shared.js"
    /\ isDashboard \in BOOLEAN
    /\ sharedSet = FALSE /\ servicesReady = FALSE /\ template = FALSE
    /\ viewStarts = 0 /\ ready = FALSE
    /\ readyQueue = {} /\ callbacksRun = [c \in Callbacks |-> None]

\* shared.js: the literal names what must exist when it is evaluated, or the
\* script ends there.
RunShared ==
    /\ stage = "shared.js"
    /\ sharedSet' = (Names \cap undeclared = {})
    /\ stage' = "main.js"
    /\ UNCHANGED <<undeclared, isDashboard, servicesReady, template, viewStarts, ready,
                   readyQueue, callbacksRun>>

RunMain ==
    /\ stage = "main.js"
    /\ stage' = "view.js"
    /\ UNCHANGED <<undeclared, isDashboard, sharedSet, servicesReady, template, viewStarts,
                   ready, readyQueue,
                   callbacksRun>>

Now == [view |-> viewStarts > 0, services |-> servicesReady]

\* whenReady, by the scripts of the page and, later, by what they do.
WhenReady(c) ==
    /\ stage \notin {"shared.js", "main.js"}
    /\ c \notin readyQueue /\ callbacksRun[c] = None
    /\ IF ready
       THEN /\ callbacksRun' = [callbacksRun EXCEPT ![c] = Now]
            /\ UNCHANGED readyQueue
       ELSE /\ readyQueue' = readyQueue \cup {c}
            /\ UNCHANGED callbacksRun
    /\ UNCHANGED <<undeclared, stage, isDashboard, sharedSet, servicesReady, template,
                   viewStarts, ready>>

\* The script of the view.
\* Mutant: it initialises the view at once.
RunViewStarts ==
    /\ stage = "view.js"
    /\ stage' = "parsed"
    /\ viewStarts' = viewStarts + 1
    /\ UNCHANGED <<undeclared, isDashboard, sharedSet, servicesReady, template, ready,
                   readyQueue, callbacksRun>>

RunView ==
    /\ stage = "view.js"
    /\ stage' = "parsed"
    /\ UNCHANGED <<undeclared, isDashboard, sharedSet, servicesReady, template, viewStarts,
                   ready, readyQueue,
                   callbacksRun>>

\* ready is set, and the queue is emptied in the same turn.
DrainWith(now) ==
    /\ ready' = TRUE
    /\ callbacksRun' = [c \in Callbacks |-> IF c \in readyQueue THEN now ELSE callbacksRun[c]]
    /\ readyQueue' = {}

\* DOMContentLoaded on a page that is not the dashboard's (login, set-up).
\* Mutant: only what comes later is run.
PlainPageKeepsQueue ==
    /\ stage = "parsed" /\ ~isDashboard
    /\ ready' = TRUE
    /\ stage' = "done"
    /\ UNCHANGED <<undeclared, isDashboard, sharedSet, servicesReady, template, viewStarts,
                   readyQueue, callbacksRun>>

PlainPage ==
    /\ stage = "parsed" /\ ~isDashboard
    /\ DrainWith(Now)
    /\ stage' = "done"
    /\ UNCHANGED <<undeclared, isDashboard, sharedSet, servicesReady, template, viewStarts>>

\* applyDashboardTemplateIfNeeded is called; the template is fetched.
DashboardPage ==
    /\ stage = "parsed" /\ isDashboard
    /\ stage' = "template"
    /\ UNCHANGED <<undeclared, isDashboard, sharedSet, servicesReady, template, viewStarts,
                   ready, readyQueue,
                   callbacksRun>>

\* The template is there or failed (the page goes on without it and without
\* its content, which was taken out); initialiseDashboard binds the services
\* to what the document now has and asks for the account.
TemplateArrives(ok) ==
    /\ stage = "template"
    /\ template' = ok
    /\ servicesReady' = sharedSet
    /\ stage' = "auth"
    /\ UNCHANGED <<undeclared, isDashboard, sharedSet, viewStarts, ready, readyQueue,
                   callbacksRun>>

\* refresh has an answer or failed.  It may have sent the browser to another
\* page; until that is there the start goes on: the controller of the route is
\* started if its section is on the page.
\* Mutant: the page is called ready before the controller is started.
AuthArrivesReady ==
    /\ stage = "auth"
    /\ DrainWith(Now)
    /\ viewStarts' = IF template THEN viewStarts + 1 ELSE viewStarts
    /\ stage' = "controller"
    /\ UNCHANGED <<undeclared, isDashboard, sharedSet, servicesReady, template>>

AuthArrives ==
    /\ stage = "auth"
    /\ viewStarts' = IF template THEN viewStarts + 1 ELSE viewStarts
    /\ stage' = "controller"
    /\ UNCHANGED <<undeclared, isDashboard, sharedSet, servicesReady, template, ready,
                   readyQueue, callbacksRun>>

\* init of the controller has ended, or thrown: the page is ready.  Most views also
\* left a callback of their own with whenReady, which initialises them again: what
\* they bind to their controls and to the store is bound twice.
ControllerEnds ==
    /\ stage = "controller"
    /\ DrainWith(Now)
    /\ viewStarts' \in {viewStarts, viewStarts + 1}
    /\ stage' = "done"
    /\ UNCHANGED <<undeclared, isDashboard, sharedSet, servicesReady, template>>

Starting ==
    \/ RunShared \/ RunMain \/ RunView \/ PlainPage \/ DashboardPage
    \/ \E ok \in BOOLEAN : TemplateArrives(ok)
    \/ AuthArrives \/ ControllerEnds

Next == Starting \/ \E c \in Callbacks : WhenReady(c)

Spec == Init /\ [][Next]_startupVars

-----------------------------------------------------------------------------
(* Properties *)

\* No callback is left in the queue of whenReady once the page has started,
\* though it came while the page was still waiting for its template, the account
\* or its view, and though any of them failed.
CallbacksRun == ready \/ stage = "done" => readyQueue = {}

\* On a dashboard page a callback finds the services bound exactly if every name
\* of shared.js is declared - never, as the code is - and the view started if the
\* page has its template: never what a page between two awaits of its start has.
CallbacksFindPageStarted ==
    \A c \in Callbacks :
        callbacksRun[c] # None /\ isDashboard =>
            /\ callbacksRun[c].services <=> Names \cap undeclared = {}
            /\ template => callbacksRun[c].view
=============================================================================

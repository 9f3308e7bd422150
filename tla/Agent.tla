------------------------------- MODULE Agent -------------------------------
(***************************************************************************)
(* The assistant of the dashboard: class PulseOpsAgent of                  *)
(* web/js/dashboard/shared.js.  A page publishes what its data say as      *)
(* contexts (a summary and highlights with a severity); the agent tells    *)
(* the user of every context that differs from the last one, puts tooltips *)
(* on what it is about, asks for attention while its panel is closed and   *)
(* answers questions from the context it has.                              *)
(*                                                                         *)
(* A page has one route, so that routeContexts and routeSignatures have    *)
(* one entry.  Texts are left out; the order of the highlights too.        *)
(***************************************************************************)
EXTENDS PageValues

CONSTANTS
    Highlights,   \* the ids of highlights
    Summaries     \* summaries; None for a context without one

VARIABLES
    routeActive,     \* setActiveRoute was called
    routeContext,    \* the entry of routeContexts, None
    routeSignature,  \* the entry of routeSignatures, None
    currentContext,  \* what the agent answers from
    tooltips,        \* highlights with a button on the page
    panelOpen,       \* isOpen
    hasUnread,
    attention,       \* the toggle has the class agent-toggle--attention
    spoken,          \* the last message about a context
    research,        \* lastDeepResearchQuery: the highlight, summary or question, or None
    missed           \* history: an alarm was announced since the panel was last open

agentVars == <<routeActive, routeContext, routeSignature, currentContext, tooltips,
               panelOpen, hasUnread, attention, spoken, research, missed>>

Severity == {"info", "success", "warning", "critical"}
Context == [summary : Summaries, highlights : [Highlights -> Severity \cup {None}]]
Present(c) == {h \in Highlights : c.highlights[h] # None}
Message == [severity : Severity, about : SUBSET Highlights]

NoneIsNoContext == None \notin Context

TypeOK ==
    /\ {routeActive, panelOpen, hasUnread, attention, missed} \subseteq BOOLEAN
    /\ {routeContext, routeSignature, currentContext} \subseteq Context \cup {None}
    /\ tooltips \subseteq Highlights
    /\ spoken \in Message \cup {None}
    /\ research \in Highlights \cup Summaries \cup {"question", None}

Init ==
    /\ routeActive = FALSE
    /\ routeContext = None /\ routeSignature = None /\ currentContext = None
    /\ tooltips = {}
    /\ panelOpen = FALSE /\ hasUnread = FALSE /\ attention = FALSE
    /\ spoken = None /\ research = None /\ missed = FALSE

-----------------------------------------------------------------------------

\* resolveMaxSeverity, by AGENT_SEVERITY_RANK.
MaxSeverity(c) ==
    LET of == {c.highlights[h] : h \in Present(c)}
    IN  IF "critical" \in of THEN "critical" ELSE IF "warning" \in of THEN "warning"
        ELSE IF "success" \in of THEN "success" ELSE "info"

Alarming(c) == MaxSeverity(c) \in {"warning", "critical"}

\* buildSignature: the summary, and the id and severity of every highlight.
\* Mutant: the ids alone.
BuildSignatureIds(c) ==
    [c EXCEPT !.highlights =
        [h \in Highlights |-> IF h \in Present(c) THEN "info" ELSE None]]

BuildSignature(c) == c

\* buildContextResearchQuery: the first highlight that is an alarm, else the summary.
ContextResearch(c) ==
    LET alarms == {h \in Highlights : c.highlights[h] \in {"warning", "critical"}}
    IN  IF alarms # {} THEN alarms ELSE {c.summary}

\* applyContext, when the signature has changed.
Announce(c) ==
    /\ spoken' = [severity |-> MaxSeverity(c), about |-> Present(c)]
    /\ research' \in {IF q = None THEN research ELSE q : q \in ContextResearch(c)}
    /\ IF ~panelOpen /\ Alarming(c)
       THEN hasUnread' = TRUE /\ attention' = TRUE /\ missed' = TRUE
       ELSE UNCHANGED <<hasUnread, attention, missed>>

\* handleContext, and applyContext: the highlights whose element is on the page
\* get a tooltip.
HandleContext(c, onPage) ==
    /\ routeContext' = c /\ currentContext' = c
    /\ routeSignature' = BuildSignature(c)
    /\ tooltips' = Present(c) \cap onPage
    /\ IF BuildSignature(c) = routeSignature
       THEN UNCHANGED <<spoken, research, hasUnread, attention, missed>>
       ELSE Announce(c)
    /\ UNCHANGED <<routeActive, panelOpen>>

\* setActiveRoute: a context that came before is applied again, silently.
SetActiveRoute(onPage) ==
    /\ ~routeActive
    /\ routeActive' = TRUE
    /\ IF routeContext = None THEN UNCHANGED <<currentContext, routeSignature, tooltips>>
       ELSE /\ currentContext' = routeContext
            /\ routeSignature' = BuildSignature(routeContext)
            /\ tooltips' = Present(routeContext) \cap onPage
    /\ UNCHANGED <<routeContext, panelOpen, hasUnread, attention, spoken, research, missed>>

\* open
\* Mutant: the flag is left for the toggle to clear.
OpenPanelUnread ==
    /\ panelOpen' = TRUE
    /\ missed' = FALSE
    /\ attention' = FALSE
    /\ UNCHANGED hasUnread

OpenPanel ==
    /\ panelOpen' = TRUE
    /\ missed' = FALSE
    /\ hasUnread' = FALSE /\ attention' = FALSE

Open ==
    /\ ~panelOpen
    /\ OpenPanel
    /\ UNCHANGED <<routeActive, routeContext, routeSignature, currentContext, tooltips,
                   spoken, research>>

\* close: by its button, the toggle or Escape.
Close ==
    /\ panelOpen
    /\ panelOpen' = FALSE
    /\ UNCHANGED <<routeActive, routeContext, routeSignature, currentContext, tooltips,
                   hasUnread, attention, spoken, research, missed>>

\* A tooltip is clicked: showHighlight opens the panel and explains.
ShowHighlight(h) ==
    /\ h \in tooltips
    /\ OpenPanel
    /\ research' = h
    /\ UNCHANGED <<routeActive, routeContext, routeSignature, currentContext, tooltips, spoken>>

\* handleSubmit and respondToUser: the highlights that match decide the
\* research query, else it is made of the question.
AskQuestion ==
    /\ panelOpen
    /\ research' \in (IF currentContext = None THEN {} ELSE Present(currentContext)) \cup {"question"}
    /\ UNCHANGED <<routeActive, routeContext, routeSignature, currentContext, tooltips,
                   panelOpen, hasUnread, attention, spoken, missed>>

Next ==
    \/ Open \/ Close \/ AskQuestion
    \/ \E c \in Context, onPage \in SUBSET Highlights : HandleContext(c, onPage)
    \/ \E onPage \in SUBSET Highlights : SetActiveRoute(onPage)
    \/ \E h \in Highlights : ShowHighlight(h)

Spec == Init /\ [][Next]_agentVars

-----------------------------------------------------------------------------
(* Properties *)

\* What the agent said last is what the page says now: a highlight that
\* appears, goes or changes its severity never passes in silence, though
\* contexts that repeat are not announced again.
LastWordIsCurrent ==
    currentContext # None =>
        /\ spoken.severity = MaxSeverity(currentContext)
        /\ spoken.about = Present(currentContext)

\* The toggle asks for attention exactly while an alarm was announced that the
\* user cannot have seen, and a panel that was read does not ask again.
AttentionMeansUnseen ==
    /\ attention = (hasUnread /\ ~panelOpen)
    /\ attention = missed
=============================================================================

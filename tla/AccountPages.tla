---------------------------- MODULE AccountPages ----------------------------
(***************************************************************************)
(* Set-up, login and logout, from the browser to the tables: the pages     *)
(* login.html and setup.html (web/js/login.js, web/js/setup.js), what the  *)
(* other pages do with /api/auth/status when they are opened (index.html   *)
(* with web/js/shared/auth.js, the views with createAuthManager), and the  *)
(* handlers behind them.                                                   *)
(*                                                                         *)
(* One tab and one browser, whose session cookie is what "session" says.   *)
(* The file server answers for set-up servers only; before that every page *)
(* is redirected to /setup, which is a page of the file server too.        *)
(***************************************************************************)
EXTENDS PageValues

VARIABLES
    setupDone,   \* the setting setup_completed
    accounts,    \* rows of users
    session,     \* the cookie names a session that has not expired
    setupCalls,  \* POST /api/auth/setup by API clients: "none", "sent", "checked", "created"
    tab,         \* the page that is shown
    ask,         \* its request under way
    reply,       \* what the server said to it, None
    leaving,     \* the timer that goes to / is set
    hops,        \* history: pages the browser was sent to since it last rested
    errands      \* bound: what the user did, and what failed

accountVars == <<setupDone, accounts, session, setupCalls, tab, ask, reply, leaving, hops,
                 errands>>

Pages == {"index", "view", "login", "setup"}
Asks == {"page", "status", "setupStatus", "login", "setupPost", "guess", "recheck"}
Answers == [done : BOOLEAN, auth : BOOLEAN] \cup [ok : BOOLEAN]

\* None is neither a request nor an answer.
NoneIsNothing == None \notin (Asks \X Pages) \cup Answers

TypeOK ==
    /\ {setupDone, session, leaving} \subseteq BOOLEAN
    /\ accounts \in Nat
    /\ setupCalls \in [Requests -> {"none", "sent", "checked", "created"}]
    /\ tab \in Pages \cup {"blank", "too many redirects"}
    /\ ask \in {<<"page", p>> : p \in Pages} \cup {<<a, tab>> : a \in Asks} \cup {None}
    /\ reply \in Answers \cup {None}
    /\ hops \in Nat /\ errands \in 0..MaxChanges

Init ==
    /\ setupDone = FALSE /\ accounts = 0 /\ session = FALSE
    /\ setupCalls = [r \in Requests |-> "none"]
    /\ tab = "blank" /\ ask = None /\ reply = None /\ leaving = FALSE
    /\ hops = 0 /\ errands = 0

Errand == errands < MaxChanges /\ errands' = errands + 1

\* Another page is asked for, by the user or by the page that is shown; what the
\* page that is left waits for is dropped.
Request(page) == ask' = <<"page", page>> /\ reply' = None /\ leaving' = FALSE
GoTo(page) == Request(page) /\ hops' = hops + 1

Asking(what) == ask # None /\ ask[1] = what
AskFor(what) == ask' = <<what, tab>> /\ reply' = None

-----------------------------------------------------------------------------
(* The server *)

\* POST /api/auth/setup in its three steps: is it done, the account, the setting.
\* Mutant: the setting is written before the account.
SetupStepMarkFirst(r) ==
    /\ CASE setupCalls[r] = "sent"    -> /\ setupCalls' = [setupCalls EXCEPT ![r] =
                                                IF setupDone THEN "none" ELSE "checked"]
                                         /\ UNCHANGED <<accounts, setupDone>>
         [] setupCalls[r] = "checked" -> /\ setupDone' = TRUE
                                         /\ setupCalls' = [setupCalls EXCEPT ![r] = "created"]
                                         /\ UNCHANGED accounts
         [] setupCalls[r] = "created" -> /\ accounts' = accounts + 1
                                         /\ setupCalls' = [setupCalls EXCEPT ![r] = "none"]
                                         /\ UNCHANGED setupDone
         [] OTHER -> FALSE
    /\ UNCHANGED <<session, tab, ask, reply, leaving, hops, errands>>

SetupStep(r) ==
    /\ CASE setupCalls[r] = "sent"    -> /\ setupCalls' = [setupCalls EXCEPT ![r] =
                                                IF setupDone THEN "none" ELSE "checked"]
                                         /\ UNCHANGED <<accounts, setupDone>>
         [] setupCalls[r] = "checked" -> /\ accounts' = accounts + 1
                                         /\ setupCalls' = [setupCalls EXCEPT ![r] = "created"]
                                         /\ UNCHANGED setupDone
         [] setupCalls[r] = "created" -> /\ setupDone' = TRUE
                                         /\ setupCalls' = [setupCalls EXCEPT ![r] = "none"]
                                         /\ UNCHANGED accounts
         [] OTHER -> FALSE
    /\ UNCHANGED <<session, tab, ask, reply, leaving, hops, errands>>

\* The account cannot be stored (its name is taken), or the process stops: the
\* call ends where it is.
SetupCut(r) ==
    /\ setupCalls[r] \in {"checked", "created"}
    /\ setupCalls' = [setupCalls EXCEPT ![r] = "none"]
    /\ UNCHANGED <<setupDone, accounts, session, tab, ask, reply, leaving, hops, errands>>

SetupCall(r) ==
    /\ setupCalls[r] = "none" /\ Errand
    /\ setupCalls' = [setupCalls EXCEPT ![r] = "sent"]
    /\ UNCHANGED <<setupDone, accounts, session, tab, ask, reply, leaving, hops>>

\* RequireSetup around the file server: before set-up, /setup is redirected to
\* /setup until the browser gives up.
ServePage ==
    /\ Asking("page")
    /\ IF ~setupDone THEN tab' = "too many redirects" /\ ask' = None
       ELSE /\ tab' = ask[2]
            /\ ask' = <<IF ask[2] = "setup" THEN "setupStatus" ELSE "status", ask[2]>>
    /\ UNCHANGED <<setupDone, accounts, session, setupCalls, reply, leaving, hops, errands>>

\* GetAuthState and GET /api/auth/setup
ServeStatus ==
    /\ Asking("status") \/ Asking("recheck") \/ Asking("setupStatus")
    /\ reply = None
    /\ reply' = [done |-> setupDone, auth |-> setupDone /\ session]
    /\ UNCHANGED <<setupDone, accounts, session, setupCalls, tab, ask, leaving, hops, errands>>

\* POST /api/auth/login, or one of tryAutoLogin: the credentials fit or not.
\* From the set-up page, POST /api/auth/setup is refused.
ServePost ==
    /\ Asking("login") \/ Asking("guess") \/ Asking("setupPost")
    /\ reply = None
    /\ \E fits \in BOOLEAN :
        /\ fits => ~Asking("setupPost") /\ accounts > 0 /\ setupDone
        /\ reply' = [ok |-> fits]
        /\ session' = (session \/ fits)
    /\ UNCHANGED <<setupDone, accounts, setupCalls, tab, ask, leaving, hops, errands>>

SessionExpires ==
    /\ session /\ Errand
    /\ session' = FALSE
    /\ UNCHANGED <<setupDone, accounts, setupCalls, tab, ask, reply, leaving, hops>>

-----------------------------------------------------------------------------
(* The pages *)

Stay == ask' = None /\ reply' = None /\ hops' = 0 /\ UNCHANGED leaving

\* login.js, checkAuthStatus.
\* Mutant: a server that is set up sends the login page back to /.
LoginPageStatusLoop(s) ==
    IF ~s.done THEN GoTo("setup") ELSE GoTo("index")

LoginPageStatus(s) ==
    IF ~s.done THEN GoTo("setup") ELSE IF s.auth THEN GoTo("index") ELSE Stay

\* checkAuthStatus of shared/auth.js: on localhost it tries to log in first.
IndexStatus(s) ==
    IF ~s.done THEN GoTo("setup") ELSE IF s.auth THEN Stay
    ELSE \/ GoTo("login")
         \/ Asking("status") /\ AskFor("guess") /\ UNCHANGED <<leaving, hops>>

\* refresh of createAuthManager
ViewStatus(s) ==
    IF ~s.done THEN GoTo("setup") ELSE IF ~s.auth THEN GoTo("login") ELSE Stay

\* setup.js, checkSetupStatus
SetupPageStatus(s) == IF s.done THEN GoTo("index") ELSE Stay

StatusArrives ==
    /\ Asking("status") \/ Asking("recheck") \/ Asking("setupStatus")
    /\ reply # None
    /\ CASE tab = "index" -> IndexStatus(reply)
         [] tab = "view"  -> ViewStatus(reply)
         [] tab = "login" -> LoginPageStatus(reply)
         [] tab = "setup" -> SetupPageStatus(reply)
    /\ UNCHANGED <<setupDone, accounts, session, setupCalls, tab, errands>>

\* A status request fails: the index goes to the login page, a view takes its
\* initial setupCompleted (FALSE) for the answer, the other two stay.
StatusFails ==
    /\ Asking("status") \/ Asking("recheck") \/ Asking("setupStatus")
    /\ Errand
    /\ CASE tab = "index" -> Request("login") /\ hops' = 0
         [] tab = "view"  -> Request("setup") /\ hops' = 0
         [] OTHER         -> Stay
    /\ UNCHANGED <<setupDone, accounts, session, setupCalls, tab>>

\* The answer to a form: success sets the timer that goes to /, and the form
\* comes back meanwhile (finally).
PostArrives ==
    /\ Asking("login") \/ Asking("setupPost")
    /\ reply # None
    /\ leaving' = (leaving \/ reply.ok)
    /\ ask' = None /\ reply' = None /\ hops' = 0
    /\ UNCHANGED <<setupDone, accounts, session, setupCalls, tab, errands>>

\* tryAutoLogin has an answer: a success is checked with another status request.
GuessArrives ==
    /\ Asking("guess") /\ reply # None
    /\ IF reply.ok THEN AskFor("recheck") /\ UNCHANGED <<leaving, hops>> ELSE GoTo("login")
    /\ UNCHANGED <<setupDone, accounts, session, setupCalls, tab, errands>>

\* The timer of a form that succeeded; a request under way is dropped.
Leave ==
    /\ leaving
    /\ GoTo("index")
    /\ UNCHANGED <<setupDone, accounts, session, setupCalls, tab, errands>>

-----------------------------------------------------------------------------
(* The user *)

OpenPage(page) ==
    /\ Errand
    /\ Request(page) /\ hops' = 0
    /\ UNCHANGED <<setupDone, accounts, session, setupCalls, tab>>

\* A form is sent; it is hidden until the answer is there.
Submit ==
    /\ ask = None /\ tab \in {"login", "setup"} /\ Errand
    /\ AskFor(IF tab = "login" THEN "login" ELSE "setupPost")
    /\ UNCHANGED <<setupDone, accounts, session, setupCalls, tab, leaving, hops>>

\* logout, of either script: the session ends, whether or not the call succeeds
\* the page goes to the login page.
Logout ==
    /\ ask = None /\ tab \in {"index", "view"} /\ Errand
    /\ session' \in {FALSE, session}
    /\ Request("login") /\ hops' = 0
    /\ UNCHANGED <<setupDone, accounts, setupCalls, tab>>

ByItself ==
    \/ ServePage \/ ServeStatus \/ ServePost
    \/ StatusArrives \/ PostArrives \/ GuessArrives \/ Leave

Next ==
    \/ ByItself \/ SessionExpires \/ StatusFails \/ Submit \/ Logout
    \/ \E r \in Requests : SetupCall(r) \/ SetupStep(r) \/ SetupCut(r)
    \/ \E page \in Pages : OpenPage(page)

Spec == Init /\ [][Next]_accountVars
FairSpec == Spec /\ WF_accountVars(ByItself)

-----------------------------------------------------------------------------
(* Properties *)

\* The pages send the user on until they rest, and soon: no two of them send a
\* browser to and fro, whatever state the server is in, and however it is set up
\* or the session ends meanwhile.
RedirectsEnd == hops <= 2

\* A server that counts as set up has an account to log in with, though the
\* handler writes the two one after the other and may be cut in between.
SetupLeavesAnAccount == setupDone => accounts > 0

\* "You will be redirected to /setup on first run to create the admin account"
\* (docs/GETTING_STARTED.md): a browser that is opened before set-up gets the
\* set-up page, or the server is set up meanwhile.
FirstRunShowsSetup == ask # None /\ ~setupDone ~> tab = "setup" \/ setupDone
=============================================================================

----------------------- MODULE DashboardPages_proofs ------------------------
(***************************************************************************)
(* What Dashboard.tla says of the way to a page and of its forms: set-up   *)
(* and login, the start of a page, the settings.  As in                    *)
(* DashboardServices_proofs, each part has an inductive invariant.         *)
(***************************************************************************)
EXTENDS Dashboard, TLAPS

\* A step of Dashboard is one of the part, or leaves it alone.
LEMMA AccountPart == [Next]_dashboardVars => Accounts!Next \/ UNCHANGED accountVars
BY DEF Next, Step, Rest, dashboardVars

LEMMA StartupPart == [Next]_dashboardVars => Startup!Next \/ UNCHANGED startupVars
BY DEF Next, Step, Rest, dashboardVars

LEMMA EditorPart == [Next]_dashboardVars => Editor!Next \/ UNCHANGED editVars
BY DEF Next, Step, Rest, dashboardVars

LEMMA TablePart == [Next]_dashboardVars => Table!Next \/ UNCHANGED tableVars
BY DEF Next, Step, Rest, dashboardVars

LEMMA KeysPart == [Next]_dashboardVars => Keys!Next \/ UNCHANGED keysVars
BY DEF Next, Step, Rest, dashboardVars

LEMMA LogsPart == [Next]_dashboardVars => Logs!Next \/ UNCHANGED logsVars
BY DEF Next, Step, Rest, dashboardVars

LEMMA ScannerPart == [Next]_dashboardVars => Scanner!Next \/ UNCHANGED scanVars
BY DEF Next, Step, Rest, dashboardVars

LEMMA SettingsPart == [Next]_dashboardVars => Settings!Next \/ UNCHANGED settingsVars
BY DEF Next, Step, Rest, dashboardVars

-----------------------------------------------------------------------------
(* The start of a page *)

StartupTypes ==
    /\ {ready, isDashboard, template, servicesReady, sharedSet} \subseteq BOOLEAN
    /\ viewStarts \in Nat
    /\ callbacksRun \in [Callbacks -> Startup!RunWith \cup {None}]

\* A callback runs at the end of the start, not before.
ReadyAtEnd ==
    /\ ready = TRUE <=> stage = "done"
    /\ ready = TRUE => readyQueue = {}
    /\ ready = FALSE => \A c \in Callbacks : callbacksRun[c] = None

\* By then the services are bound, and the view of a page that has its template
\* was started.
PageIsMade ==
    /\ stage # "shared.js" => (sharedSet = TRUE <=> Names \cap undeclared = {})
    /\ stage \in {"auth", "controller", "done"} /\ isDashboard = TRUE => servicesReady = sharedSet
    /\ stage \in {"controller", "done"} /\ isDashboard = TRUE /\ template = TRUE => viewStarts > 0

StartupInv == StartupTypes /\ ReadyAtEnd /\ PageIsMade /\ Startup!CallbacksFindPageStarted

LEMMA StartupInit == Startup!Init => StartupInv
<1> SUFFICES ASSUME Startup!Init PROVE StartupInv
  OBVIOUS
<1> USE DEF Startup!Init
<1>1. StartupTypes
  BY DEF StartupTypes
<1>2. ReadyAtEnd /\ PageIsMade
  BY DEF ReadyAtEnd, PageIsMade
<1>3. Startup!CallbacksFindPageStarted
  BY DEF Startup!CallbacksFindPageStarted
<1> QED BY <1>1, <1>2, <1>3 DEF StartupInv

\* What a callback finds.
LEMMA NowTells ==
    ASSUME StartupTypes
    PROVE  /\ Startup!Now \in Startup!RunWith
           /\ Startup!Now.services = servicesReady
           /\ viewStarts > 0 => Startup!Now.view
<1>1. (viewStarts > 0) \in BOOLEAN
  OBVIOUS
<1> QED BY <1>1, Zenon DEF StartupTypes, Startup!Now, Startup!RunWith

\* The page is ready, its queue is run: what each callback found stays right.
LEMMA Drained ==
    ASSUME StartupInv, Startup!DrainWith(Startup!Now),
           UNCHANGED <<undeclared, template, isDashboard>>,
           isDashboard = TRUE => /\ Startup!Now.services = TRUE <=> Names \cap undeclared = {}
                                 /\ template = TRUE => Startup!Now.view
    PROVE  /\ Startup!CallbacksFindPageStarted'
           /\ callbacksRun' \in [Callbacks -> Startup!RunWith \cup {None}]
<1> USE DEF StartupInv, StartupTypes
<1>1. Startup!Now \in Startup!RunWith
  BY NowTells
<1>2. callbacksRun' \in [Callbacks -> Startup!RunWith \cup {None}]
  BY <1>1 DEF Startup!DrainWith
<1>3. \A c \in Callbacks : callbacksRun'[c] \in {Startup!Now, callbacksRun[c]}
  BY DEF Startup!DrainWith
<1> QED BY <1>2, <1>3 DEF Startup!CallbacksFindPageStarted

LEMMA StartupStep == StartupInv /\ [Next]_dashboardVars => StartupInv'
<1> SUFFICES ASSUME StartupInv, Startup!Next \/ UNCHANGED startupVars PROVE StartupInv'
  BY StartupPart
<1> USE DEF StartupInv
<1>1. CASE Startup!RunShared \/ Startup!RunMain \/ Startup!RunView \/ Startup!DashboardPage
  BY <1>1 DEF Startup!RunShared, Startup!RunMain, Startup!RunView, Startup!DashboardPage,
     StartupTypes, ReadyAtEnd, PageIsMade, Startup!CallbacksFindPageStarted
<1>2. ASSUME NEW ok \in BOOLEAN, Startup!TemplateArrives(ok) PROVE StartupInv'
  BY <1>2 DEF Startup!TemplateArrives,
     StartupTypes, ReadyAtEnd, PageIsMade, Startup!CallbacksFindPageStarted
<1>3. CASE Startup!AuthArrives
  BY <1>3 DEF Startup!AuthArrives,
     StartupTypes, ReadyAtEnd, PageIsMade, Startup!CallbacksFindPageStarted
<1>4. CASE Startup!PlainPage
  <2>1. /\ Startup!CallbacksFindPageStarted'
        /\ callbacksRun' \in [Callbacks -> Startup!RunWith \cup {None}]
    BY <1>4, Drained DEF Startup!PlainPage
  <2> QED BY <1>4, <2>1
          DEF Startup!PlainPage, Startup!DrainWith, StartupTypes, ReadyAtEnd, PageIsMade
<1>5. CASE Startup!ControllerEnds
  <2>1. isDashboard = TRUE =>
           /\ Startup!Now.services = TRUE <=> Names \cap undeclared = {}
           /\ template = TRUE => Startup!Now.view
    BY <1>5, NowTells DEF Startup!ControllerEnds, PageIsMade
  <2>2. /\ Startup!CallbacksFindPageStarted'
        /\ callbacksRun' \in [Callbacks -> Startup!RunWith \cup {None}]
    BY <1>5, <2>1, Drained DEF Startup!ControllerEnds
  <2> QED BY <1>5, <2>2
          DEF Startup!ControllerEnds, Startup!DrainWith, StartupTypes, ReadyAtEnd, PageIsMade
<1>6. ASSUME NEW c \in Callbacks, Startup!WhenReady(c) PROVE StartupInv'
  <2>1. CASE ready = TRUE
    <3>1. isDashboard = TRUE =>
             /\ Startup!Now.services = TRUE <=> Names \cap undeclared = {}
             /\ template = TRUE => Startup!Now.view
      BY <2>1, NowTells DEF ReadyAtEnd, PageIsMade
    <3> QED BY <1>6, <2>1, <3>1, NowTells
            DEF Startup!WhenReady, StartupTypes, ReadyAtEnd, PageIsMade,
                Startup!CallbacksFindPageStarted
  <2>2. CASE ready = FALSE
    BY <1>6, <2>2
    DEF Startup!WhenReady, StartupTypes, ReadyAtEnd, PageIsMade, Startup!CallbacksFindPageStarted
  <2> QED BY <2>1, <2>2 DEF StartupTypes
<1>7. CASE UNCHANGED startupVars
  BY <1>7 DEF startupVars, StartupTypes, ReadyAtEnd, PageIsMade, Startup!CallbacksFindPageStarted,
     Startup!Now
<1> QED BY <1>1, <1>2, <1>3, <1>4, <1>5, <1>6, <1>7 DEF Startup!Next, Startup!Starting

\* No callback of whenReady is left in its queue, for any number of callbacks.  On a
\* dashboard page each finds the view started if there is a template, and the
\* services bound exactly if no name that shared.js exposes is undeclared: for the
\* names it leaves undeclared as it is, never.
THEOREM CallbacksAllRun == Spec => []CallbacksAreRun
<1>1. Init => StartupInv
  BY StartupInit DEF Init
<1>2. StartupInv => CallbacksAreRun
  BY DEF StartupInv, StartupTypes, ReadyAtEnd, CallbacksAreRun, Startup!CallbacksRun
<1> QED BY <1>1, <1>2, StartupStep, PTL DEF Spec

\* A view is started twice at most: by the controller, and by its own callback.
StartupTyped ==
    /\ Startup!TypeOK
    /\ stage \notin {"controller", "done"} => viewStarts = 0
    /\ stage = "controller" => viewStarts \in 0..1

LEMMA StartupTypedInit == Startup!Init => StartupTyped
<1> SUFFICES ASSUME Startup!Init PROVE StartupTyped
  OBVIOUS
<1>1. Startup!TypeOK
  <2>1. StartupTypes
    BY StartupInit DEF StartupInv
  <2>2. undeclared \in Undeclared /\ stage \in Startup!Stages /\ viewStarts \in 0..2 /\ readyQueue \subseteq Callbacks
    BY DEF Startup!Init, Startup!Stages
  <2> QED BY <2>1, <2>2 DEF StartupTypes, Startup!TypeOK
<1> QED BY <1>1 DEF Startup!Init, StartupTyped

LEMMA StartupTypedStep == StartupTyped /\ [Next]_dashboardVars => StartupTyped'
<1> SUFFICES ASSUME StartupTyped, Startup!Next \/ UNCHANGED startupVars PROVE StartupTyped'
  BY StartupPart
<1> USE DEF StartupTyped, Startup!TypeOK, Startup!Stages
<1>0. Startup!Now \in Startup!RunWith
  BY DEF Startup!Now, Startup!RunWith
<1>1. CASE Startup!RunShared
  BY <1>1 DEF Startup!RunShared
<1>2. CASE Startup!RunMain \/ Startup!RunView \/ Startup!DashboardPage
  BY <1>2 DEF Startup!RunMain, Startup!RunView, Startup!DashboardPage
<1>3. CASE Startup!PlainPage
  BY <1>0, <1>3 DEF Startup!PlainPage, Startup!DrainWith
<1>4. ASSUME NEW ok \in BOOLEAN, Startup!TemplateArrives(ok) PROVE StartupTyped'
  BY <1>4 DEF Startup!TemplateArrives
<1>5. CASE Startup!AuthArrives
  BY <1>5 DEF Startup!AuthArrives
<1>6. CASE Startup!ControllerEnds
  BY <1>0, <1>6 DEF Startup!ControllerEnds, Startup!DrainWith
<1>7. ASSUME NEW c \in Callbacks, Startup!WhenReady(c) PROVE StartupTyped'
  BY <1>0, <1>7 DEF Startup!WhenReady
<1>8. CASE UNCHANGED startupVars
  BY <1>8 DEF startupVars
<1> QED BY <1>1, <1>2, <1>3, <1>4, <1>5, <1>6, <1>7, <1>8 DEF Startup!Next, Startup!Starting

-----------------------------------------------------------------------------
(* The settings *)

\* A form that was filled and not edited has the fields of the answer, or the
\* defaults; and so has a save.
FilledIsKept ==
    /\ ~formEdited => form.fields = IF formOf = None THEN Settings!Defaults ELSE formOf.fields
    /\ formEdited => formOf = None

SentIsKept ==
    settingsSave # None =>
        /\ ~settingsSave.edited =>
                settingsSave.fields = IF settingsSave.loaded = None THEN Settings!Defaults
                                      ELSE settingsSave.loaded.fields
        /\ settingsSave.edited => settingsSave.loaded = None

\* An answer that was not overtaken has what is stored.
Holds(answer, s) == answer # None => (~answer.old => answer.fields = s.fields)

AnswersAreStored ==
    /\ Holds(formOf, stored)
    /\ settingsLoad # Waiting => Holds(settingsLoad, stored)
    /\ settingsSave # None =>
           Holds(settingsSave.answer, stored) /\ Holds(settingsSave.loaded, stored)

SettingsInv ==
    /\ Settings!TypeOK /\ Settings!PasswordIsAsked
    /\ FilledIsKept /\ SentIsKept /\ AnswersAreStored

LEMMA SettingsInit == Settings!Init => SettingsInv
<1> SUFFICES ASSUME Settings!Init PROVE SettingsInv
  OBVIOUS
<1>1. Settings!TypeOK
  BY DEF Settings!Init, Settings!TypeOK, Settings!Fields, Settings!Passwords
<1>2. Settings!PasswordIsAsked
  BY DEF Settings!Init, Settings!PasswordIsAsked
<1>3. FilledIsKept /\ SentIsKept /\ AnswersAreStored
  BY DEF Settings!Init, FilledIsKept, SentIsKept, AnswersAreStored, Holds, Settings!Defaults
<1> QED BY <1>1, <1>2, <1>3 DEF SettingsInv

\* The save of a form that was not edited changes nothing that is still as it was read.
LEMMA SettingsKept == SettingsInv => Settings!UneditedIsKept
BY DEF SettingsInv, SentIsKept, AnswersAreStored, Holds, Settings!UneditedIsKept

\* An answer that was overtaken is marked, and holds whatever is stored.
LEMMA AgedHolds ==
    ASSUME NEW answer \in Settings!Answer \cup {None}, NEW s
    PROVE  /\ Settings!Aged(answer) \in Settings!Answer \cup {None}
           /\ Holds(Settings!Aged(answer), s)
           /\ Settings!Aged(answer) = None <=> answer = None
           /\ answer # None => Settings!Aged(answer).fields = answer.fields
<1>1. CASE answer = None
  BY <1>1 DEF Settings!Aged, Holds
<1>2. CASE answer # None
  <2>1. Settings!Aged(answer) = [answer EXCEPT !.old = TRUE] /\ answer \in Settings!Answer
    BY <1>2 DEF Settings!Aged
  <2>2. /\ Settings!Aged(answer) \in Settings!Answer
        /\ Settings!Aged(answer).old = TRUE /\ Settings!Aged(answer).fields = answer.fields
    BY <2>1, Zenon DEF Settings!Answer
  <2> QED BY <1>2, <2>2, Inputs DEF Holds, Settings!NoneIsNoAnswer
<1> QED BY <1>1, <1>2

LEMMA CurrentHolds ==
    ASSUME NEW s \in [fields : Settings!Fields, password : Settings!Passwords]
    PROVE  /\ Settings!CurrentSettings(s) \in Settings!Answer
           /\ Holds(Settings!CurrentSettings(s), s)
BY DEF Settings!CurrentSettings, Settings!Answer, Holds

\* populateForm
LEMMA Populated ==
    ASSUME SettingsInv, NEW answer \in Settings!Answer \cup {None}, NEW fields \in Settings!Fields,
           fields = IF answer = None THEN Settings!Defaults ELSE answer.fields,
           Holds(answer, stored), Settings!PopulateForm(fields, answer),
           settingsLoad' \in {settingsLoad, None}, settingsSave' \in {settingsSave, None},
           UNCHANGED <<stored, standalone>>
    PROVE  SettingsInv'
<1> USE DEF Settings!PopulateForm, SettingsInv
<1>1. /\ form' \in [fields : Settings!Fields, password : Settings!Passwords, clear : BOOLEAN]
      /\ form'.fields = fields /\ form'.password = "" /\ form'.clear = FALSE
  BY DEF Settings!Passwords
<1>2. Settings!TypeOK'
  BY <1>1 DEF Settings!TypeOK
<1>3. FilledIsKept' /\ Settings!PasswordIsAsked'
  BY <1>1 DEF FilledIsKept, Settings!PasswordIsAsked
<1>4. SentIsKept'
  BY DEF SentIsKept
<1>5. AnswersAreStored'
  BY DEF AnswersAreStored, Holds
<1> QED BY <1>2, <1>3, <1>4, <1>5

\* What was read before other settings were stored.
LEMMA OvertakenHolds ==
    ASSUME SettingsInv, Settings!Overtaken, NEW s
    PROVE  /\ formOf' \in Settings!Answer \cup {None} /\ Holds(formOf', s)
           /\ settingsLoad' \in Settings!Answer \cup {None, Waiting}
           /\ settingsLoad' # Waiting => Holds(settingsLoad', s)
           /\ UNCHANGED <<form, formEdited>> => FilledIsKept'
<1>1. /\ formOf \in Settings!Answer \cup {None}
      /\ settingsLoad # Waiting => settingsLoad \in Settings!Answer \cup {None}
      /\ FilledIsKept
  BY DEF SettingsInv, Settings!TypeOK
<1>2. /\ formOf' = Settings!Aged(formOf)
      /\ settingsLoad' = IF settingsLoad = Waiting THEN Waiting ELSE Settings!Aged(settingsLoad)
  BY DEF Settings!Overtaken
<1>3. /\ formOf' \in Settings!Answer \cup {None} /\ Holds(formOf', s)
      /\ formOf' = None <=> formOf = None
      /\ formOf # None => formOf'.fields = formOf.fields
  BY <1>1, <1>2, AgedHolds
<1>4. /\ settingsLoad' \in Settings!Answer \cup {None, Waiting}
      /\ settingsLoad' # Waiting => Holds(settingsLoad', s)
  BY <1>1, <1>2, AgedHolds
<1>5. UNCHANGED <<form, formEdited>> => FilledIsKept'
  BY <1>1, <1>3 DEF FilledIsKept
<1> QED BY <1>3, <1>4, <1>5

LEMMA SettingsStep == SettingsInv /\ [Next]_dashboardVars => SettingsInv'
<1> SUFFICES ASSUME SettingsInv, Settings!Next \/ UNCHANGED settingsVars PROVE SettingsInv'
  BY SettingsPart
<1>0. /\ Settings!TypeOK /\ Settings!PasswordIsAsked
      /\ FilledIsKept /\ SentIsKept /\ AnswersAreStored
  BY DEF SettingsInv
<1>1. CASE Settings!EditFields
  <2>1. PICK f \in Settings!Fields : form' = [form EXCEPT !.fields = f]
    BY <1>1 DEF Settings!EditFields
  <2> USE <1>1 DEF Settings!EditFields
  <2>2. Settings!TypeOK' /\ Settings!PasswordIsAsked'
    BY <1>0, <2>1 DEF Settings!TypeOK, Settings!PasswordIsAsked
  <2>3. FilledIsKept' /\ SentIsKept' /\ AnswersAreStored'
    BY <1>0 DEF FilledIsKept, SentIsKept, AnswersAreStored, Holds
  <2> QED BY <2>2, <2>3 DEF SettingsInv
<1>2. CASE Settings!EditPassword
  <2>1. PICK p \in Settings!Passwords, c \in BOOLEAN :
            form' = [form EXCEPT !.password = p, !.clear = c]
    BY <1>2 DEF Settings!EditPassword
  <2> USE <1>2 DEF Settings!EditPassword
  <2>2. Settings!TypeOK' /\ Settings!PasswordIsAsked' /\ form'.fields = form.fields
    BY <1>0, <2>1 DEF Settings!TypeOK, Settings!PasswordIsAsked
  <2>3. FilledIsKept' /\ SentIsKept' /\ AnswersAreStored'
    BY <1>0, <2>2 DEF FilledIsKept, SentIsKept, AnswersAreStored, Holds
  <2> QED BY <2>2, <2>3 DEF SettingsInv
<1>3. CASE Settings!LoadArrives
  <2>1. settingsLoad \in Settings!Answer /\ settingsLoad.fields \in Settings!Fields
        /\ Holds(settingsLoad, stored)
    BY <1>0, <1>3 DEF Settings!LoadArrives, Settings!TypeOK, Settings!Answer, AnswersAreStored
  <2> QED BY <1>3, <2>1, Populated DEF Settings!LoadArrives
<1>4. CASE Settings!LoadFails
  <2>1. Settings!Defaults \in Settings!Fields /\ Holds(None, stored)
    BY DEF Settings!Defaults, Settings!Fields, Holds
  <2> QED BY <1>4, <2>1, Populated DEF Settings!LoadFails
<1>5. CASE Settings!SaveArrives
  <2>1. /\ settingsSave.answer \in Settings!Answer /\ settingsSave.answer.fields \in Settings!Fields
        /\ Holds(settingsSave.answer, stored)
    BY <1>0, <1>5
    DEF Settings!SaveArrives, Settings!TypeOK, Settings!Payload, Settings!Answer, AnswersAreStored
  <2> QED BY <1>5, <2>1, Populated DEF Settings!SaveArrives
<1>6. CASE Settings!ServerReads
  <2>1. /\ settingsLoad' \in Settings!Answer /\ Holds(settingsLoad', stored)
        /\ UNCHANGED <<stored, form, formOf, formEdited, passwordAsked, settingsSave, standalone>>
    BY <1>0, <1>6, CurrentHolds DEF Settings!ServerReads, Settings!TypeOK
  <2> QED BY <1>0, <2>1 DEF SettingsInv, Settings!TypeOK, Settings!PasswordIsAsked, FilledIsKept,
                            SentIsKept, AnswersAreStored
<1>7. CASE Settings!LoadAgain
  BY <1>0, <1>7 DEF Settings!LoadAgain, SettingsInv, Settings!TypeOK, Settings!PasswordIsAsked,
                    FilledIsKept, SentIsKept, AnswersAreStored
<1>8. CASE Settings!Submit
  <2> DEFINE sent == IF form.clear THEN ""
                     ELSE IF form.password # "" THEN form.password ELSE "kept"
  <2>0. sent \in Settings!Passwords \cup {"kept"}
    <3>1. form.password \in Settings!Passwords
      BY <1>0 DEF Settings!TypeOK
    <3>2. \/ sent = "" \/ sent = form.password \/ sent = "kept"
      OBVIOUS
    <3> HIDE DEF sent
    <3> QED BY <3>1, <3>2, Zenon DEF Settings!Passwords
  <2>1. settingsSave' = [fields |-> form.fields, password |-> sent, answer |-> None,
                         edited |-> formEdited, loaded |-> formOf]
    BY <1>8 DEF Settings!Submit
  <2> HIDE DEF sent
  <2>2. /\ form.fields \in Settings!Fields /\ formEdited \in BOOLEAN
        /\ formOf \in Settings!Answer \cup {None}
    BY <1>0 DEF Settings!TypeOK
  <2>3. /\ settingsSave' \in Settings!Payload
        /\ settingsSave'.loaded = formOf /\ settingsSave'.edited = formEdited
        /\ settingsSave'.fields = form.fields /\ settingsSave'.answer = None
    BY <2>0, <2>1, <2>2 DEF Settings!Payload
  <2>4. UNCHANGED <<stored, form, formOf, formEdited, passwordAsked, settingsLoad, standalone>>
    BY <1>8 DEF Settings!Submit
  <2>5. Settings!TypeOK' /\ Settings!PasswordIsAsked' /\ FilledIsKept'
    BY <1>0, <2>3, <2>4 DEF Settings!TypeOK, Settings!PasswordIsAsked, FilledIsKept
  <2>6. SentIsKept'
    BY <1>0, <2>3 DEF FilledIsKept, SentIsKept
  <2>7. AnswersAreStored'
    BY <1>0, <2>3, <2>4 DEF AnswersAreStored, Holds
  <2> QED BY <2>5, <2>6, <2>7 DEF SettingsInv
<1>9. CASE Settings!ServerSaves
  <2>1. settingsSave \in Settings!Payload /\ settingsSave # None
    BY <1>0, <1>9 DEF Settings!ServerSaves, Settings!TypeOK
  <2>2. /\ stored' \in [fields : Settings!Fields, password : Settings!Passwords]
        /\ stored'.fields = settingsSave.fields
    BY <1>0, <1>9, <2>1 DEF Settings!ServerSaves, Settings!Payload, Settings!TypeOK
  <2>3. /\ Settings!CurrentSettings(stored') \in Settings!Answer
        /\ Holds(Settings!CurrentSettings(stored'), stored')
    BY <2>2, CurrentHolds
  <2>4. settingsSave' = [settingsSave EXCEPT !.answer = Settings!CurrentSettings(stored')]
    BY <1>9 DEF Settings!ServerSaves
  <2>5. /\ settingsSave' \in Settings!Payload
        /\ settingsSave'.loaded = settingsSave.loaded /\ settingsSave'.edited = settingsSave.edited
        /\ settingsSave'.fields = settingsSave.fields
        /\ settingsSave'.answer = Settings!CurrentSettings(stored')
    BY <2>1, <2>3, <2>4 DEF Settings!Payload
  <2>6. UNCHANGED <<form, formEdited, passwordAsked, standalone>> /\ Settings!Overtaken
    BY <1>9 DEF Settings!ServerSaves
  <2>7. /\ formOf' \in Settings!Answer \cup {None} /\ Holds(formOf', stored')
        /\ settingsLoad' \in Settings!Answer \cup {None, Waiting}
        /\ settingsLoad' # Waiting => Holds(settingsLoad', stored')
        /\ FilledIsKept'
    BY <2>6, OvertakenHolds
  <2>8. Settings!TypeOK' /\ Settings!PasswordIsAsked'
    BY <1>0, <2>2, <2>5, <2>6, <2>7 DEF Settings!TypeOK, Settings!PasswordIsAsked
  <2>9. SentIsKept'
    BY <1>0, <2>1, <2>5 DEF SentIsKept
  <2>10. Holds(settingsSave.loaded, stored')
    BY <1>0, <2>1, <2>2 DEF SentIsKept, Holds, Settings!Payload
  <2>11. AnswersAreStored'
    BY <2>3, <2>5, <2>7, <2>10 DEF AnswersAreStored
  <2> QED BY <2>7, <2>8, <2>9, <2>11 DEF SettingsInv
<1>10. CASE Settings!StoredElsewhere
  <2>1. /\ stored' \in [fields : Settings!Fields, password : Settings!Passwords]
        /\ UNCHANGED <<form, formEdited, passwordAsked, standalone>> /\ Settings!Overtaken
    BY <1>10 DEF Settings!StoredElsewhere
  <2>2. /\ formOf' \in Settings!Answer \cup {None} /\ Holds(formOf', stored')
        /\ settingsLoad' \in Settings!Answer \cup {None, Waiting}
        /\ settingsLoad' # Waiting => Holds(settingsLoad', stored')
        /\ FilledIsKept'
    BY <2>1, OvertakenHolds
  <2>3. /\ settingsSave' \in Settings!Payload \cup {None}
        /\ SentIsKept'
        /\ settingsSave' # None => /\ Holds(settingsSave'.answer, stored')
                                   /\ Holds(settingsSave'.loaded, stored')
    <3>1. CASE settingsSave = None
      BY <1>10, <3>1 DEF Settings!StoredElsewhere, SentIsKept
    <3>2. CASE settingsSave # None
      <4> DEFINE l == Settings!Aged(settingsSave.loaded)
                 a == Settings!Aged(settingsSave.answer)
      <4>1. /\ settingsSave \in Settings!Payload
            /\ settingsSave.loaded \in Settings!Answer \cup {None}
            /\ settingsSave.answer \in Settings!Answer \cup {None}
        BY <1>0, <3>2 DEF Settings!TypeOK, Settings!Payload
      <4>2. /\ l \in Settings!Answer \cup {None} /\ Holds(l, stored')
            /\ l = None <=> settingsSave.loaded = None
            /\ settingsSave.loaded # None => l.fields = settingsSave.loaded.fields
            /\ a \in Settings!Answer \cup {None} /\ Holds(a, stored')
        BY <4>1, AgedHolds
      <4>3. settingsSave' = [settingsSave EXCEPT !.loaded = l, !.answer = a]
        BY <1>10, <3>2 DEF Settings!StoredElsewhere
      <4> HIDE DEF l, a
      <4>4. /\ settingsSave' \in Settings!Payload
            /\ settingsSave'.loaded = l /\ settingsSave'.answer = a
            /\ settingsSave'.edited = settingsSave.edited
            /\ settingsSave'.fields = settingsSave.fields
        BY <4>1, <4>2, <4>3 DEF Settings!Payload
      <4>5. SentIsKept'
        BY <1>0, <3>2, <4>2, <4>4 DEF SentIsKept
      <4> QED BY <4>2, <4>4, <4>5
    <3> QED BY <3>1, <3>2
  <2>4. Settings!TypeOK' /\ Settings!PasswordIsAsked'
    BY <1>0, <2>1, <2>2, <2>3 DEF Settings!TypeOK, Settings!PasswordIsAsked
  <2>5. AnswersAreStored'
    BY <2>2, <2>3 DEF AnswersAreStored
  <2> QED BY <2>2, <2>3, <2>4, <2>5 DEF SettingsInv
<1>11. CASE Settings!SaveFails \/ UNCHANGED settingsVars
  <2>1. /\ settingsSave' \in {settingsSave, None}
        /\ UNCHANGED <<stored, form, formOf, formEdited, passwordAsked, settingsLoad, standalone>>
    BY <1>11 DEF Settings!SaveFails, settingsVars
  <2>2. Settings!TypeOK' /\ Settings!PasswordIsAsked' /\ FilledIsKept'
    BY <1>0, <2>1 DEF Settings!TypeOK, Settings!PasswordIsAsked, FilledIsKept
  <2>3. SentIsKept' /\ AnswersAreStored'
    BY <1>0, <2>1 DEF SentIsKept, AnswersAreStored, Holds
  <2> QED BY <2>2, <2>3 DEF SettingsInv
<1> QED BY <1>1, <1>2, <1>3, <1>4, <1>5, <1>6, <1>7, <1>8, <1>9, <1>10, <1>11 DEF Settings!Next

\* A password is sent only if the user asked for one since the form was filled.  A
\* form that was not edited sends what it was filled from, and what is then stored
\* is as it was, unless settings were stored after the server read that answer; the
\* form of a page without an answer sends the defaults.
THEOREM SettingsStayKept == Spec => []SettingsAreKept
<1>1. Init => SettingsInv
  BY SettingsInit DEF Init
<1>2. SettingsInv => SettingsAreKept
  BY SettingsKept DEF SettingsInv, SettingsAreKept
<1> QED BY <1>1, <1>2, SettingsStep, PTL DEF Spec

-----------------------------------------------------------------------------
(* Set-up and login *)

\* What the accounts need of the constants.
LEMMA NothingDiffers ==
    /\ \A a \in Accounts!Asks, p \in Accounts!Pages : <<a, p>> # None
    /\ None \notin Accounts!Answers
BY Inputs DEF Accounts!NoneIsNothing

AskIs(what) == ask # None /\ ask[1] = what
OnStatus == AskIs("status") \/ AskIs("recheck") \/ AskIs("setupStatus")
OnPost == AskIs("login") \/ AskIs("guess") \/ AskIs("setupPost")

AccountTypes ==
    /\ {setupDone, session, leaving} \subseteq BOOLEAN
    /\ accounts \in Nat
    /\ setupCalls \in [Requests -> {"none", "sent", "checked", "created"}]
    /\ tab \in Accounts!Pages \cup {"blank", "too many redirects"}
    /\ ask # None => ask[1] \in Accounts!Asks /\ ask[2] \in Accounts!Pages
    /\ ask # None /\ ask[1] # "page" => ask[2] = tab
    /\ hops \in Nat

\* An account is there before the setting is; and a page that is shown was served
\* after that.
SetupInOrder ==
    /\ setupDone = TRUE => accounts > 0
    /\ \A r \in Requests : setupCalls[r] = "created" => accounts > 0
    /\ tab \in Accounts!Pages => setupDone = TRUE

\* What a page has been told: it is known to be set up, and who is not logged in
\* does not become so by waiting.
RepliesHold ==
    /\ AskIs("page") => reply = None
    /\ OnStatus /\ reply # None =>
          /\ reply.done = TRUE
          /\ reply.auth = FALSE => session = FALSE
          /\ reply.auth = TRUE /\ tab = "login" => hops = 0
    /\ AskIs("guess") =>
          /\ tab = "index"
          /\ reply = None => session = FALSE
          /\ reply # None => (reply.ok = FALSE => session = FALSE)
    /\ AskIs("recheck") => tab = "index"
    /\ OnStatus /\ reply # None => reply \in [done : BOOLEAN, auth : BOOLEAN]
    /\ OnPost /\ reply # None => reply \in [ok : BOOLEAN]

\* How far the browser was sent without resting.
HopsEnd ==
    /\ hops > 0 => setupDone = TRUE /\ ask # None
    /\ ask # None =>
          /\ ask[2] \in {"view", "setup"} => hops = 0
          /\ ask[2] = "index" => hops <= 1
          /\ ask[2] = "login" => hops <= 2 /\ (hops = 0 \/ session = FALSE)
    /\ AskIs("login") \/ AskIs("setupPost") => hops = 0
    /\ leaving = TRUE =>
          hops = 0 /\ setupDone = TRUE /\ (ask = None \/ AskIs("login") \/ AskIs("setupPost"))

AccountInv == AccountTypes /\ SetupInOrder /\ RepliesHold /\ HopsEnd

LEMMA AccountInit == Accounts!Init => AccountInv
<1> SUFFICES ASSUME Accounts!Init PROVE AccountInv
  OBVIOUS
<1> USE DEF Accounts!Init
<1>1. AccountTypes
  BY DEF AccountTypes
<1>2. SetupInOrder
  BY DEF SetupInOrder, Accounts!Pages
<1>3. RepliesHold /\ HopsEnd
  BY DEF RepliesHold, HopsEnd, OnStatus, OnPost, AskIs
<1> QED BY <1>1, <1>2, <1>3 DEF AccountInv

LEMMA HopsCount ==
    ASSUME AccountInv
    PROVE  /\ hops \in Nat
           /\ hops = 0 \/ (setupDone = TRUE /\ ask # None)
<1>1. hops \in Nat
  BY DEF AccountInv, AccountTypes
<1>2. hops > 0 => setupDone = TRUE /\ ask # None
  BY Zenon DEF AccountInv, HopsEnd
<1>3. hops = 0 \/ hops > 0
  BY <1>1
<1> QED BY <1>1, <1>2, <1>3

\* Another page is asked for.
LEMMA Requested ==
    ASSUME AccountInv, NEW page \in Accounts!Pages, Accounts!Request(page),
           hops' = 0 \/ (hops' = hops + 1 /\ setupDone = TRUE),
           page \in {"view", "setup"} => hops' = 0,
           page = "index" => hops' <= 1,
           page = "login" => hops' = 0 \/ (session = FALSE /\ hops' <= 2),
           session' \in {session, FALSE},
           UNCHANGED <<setupDone, accounts, setupCalls, tab>>
    PROVE  AccountInv'
<1> USE DEF AccountInv
<1>0. /\ "page" \in Accounts!Asks
      /\ ask' = <<"page", page>> /\ ask' # None
      /\ ask'[1] = "page" /\ ask'[2] = page
      /\ reply' = None /\ leaving' = FALSE
  BY NothingDiffers DEF Accounts!Request, Accounts!Asks
<1>1. AccountTypes'
  <2>1. ask'[1] \in Accounts!Asks /\ ask'[2] \in Accounts!Pages /\ ask'[1] = "page"
    BY <1>0
  <2>2. hops' \in Nat
    BY HopsCount
  <2>3. {setupDone', session', leaving'} \subseteq BOOLEAN
    BY <1>0 DEF AccountTypes
  <2> QED BY <2>1, <2>2, <2>3 DEF AccountTypes
<1>2. SetupInOrder'
  BY DEF SetupInOrder
<1>3. RepliesHold'
  BY <1>0 DEF RepliesHold, OnStatus, OnPost, AskIs
<1>4. HopsEnd'
  <2>1. hops' > 0 => setupDone' = TRUE /\ ask' # None
    BY <1>0
  <2>2. /\ ask'[2] \in {"view", "setup"} => hops' = 0
        /\ ask'[2] = "index" => hops' <= 1
    BY <1>0
  <2>3. ask'[2] = "login" => hops' <= 2 /\ (hops' = 0 \/ session' = FALSE)
    <3>1. session = FALSE => session' = FALSE
      OBVIOUS
    <3>2. hops' = 0 => hops' <= 2
      OBVIOUS
    <3> HIDE DEF AccountInv
    <3> QED BY <1>0, <3>1, <3>2
  <2>4. ~AskIs("login")' /\ ~AskIs("setupPost")' /\ ask'[2] = page /\ leaving' = FALSE
    BY <1>0 DEF AskIs
  <2> QED BY <2>1, <2>2, <2>3, <2>4 DEF HopsEnd
<1> QED BY <1>1, <1>2, <1>3, <1>4

\* The page rests.
LEMMA Rested ==
    ASSUME AccountInv, ask' = None, reply' = None, hops' = 0,
           leaving' = TRUE => setupDone = TRUE, leaving' \in BOOLEAN,
           UNCHANGED <<setupDone, accounts, session, setupCalls, tab>>
    PROVE  AccountInv'
<1>1. AccountTypes' /\ SetupInOrder'
  BY DEF AccountInv, AccountTypes, SetupInOrder
<1>2. RepliesHold'
  BY DEF RepliesHold, OnStatus, OnPost, AskIs
<1>3. HopsEnd'
  BY DEF HopsEnd
<1> QED BY <1>1, <1>2, <1>3 DEF AccountInv

\* What is known while the page waits for the server to say who is logged in.
LEMMA WhileAsking ==
    ASSUME AccountInv, ask # None, ask[1] # "page"
    PROVE  /\ setupDone = TRUE /\ ask[2] = tab /\ tab \in Accounts!Pages
           /\ ~AskIs("login") /\ ~AskIs("setupPost") => leaving = FALSE
<1>1. ask[2] = tab /\ tab \in Accounts!Pages /\ leaving \in BOOLEAN
  BY DEF AccountInv, AccountTypes
<1>2. setupDone = TRUE
  BY <1>1 DEF AccountInv, SetupInOrder
<1>3. leaving = TRUE => AskIs("login") \/ AskIs("setupPost")
  BY DEF AccountInv, HopsEnd
<1> QED BY <1>1, <1>2, <1>3

\* The index goes on asking.
LEMMA Asked ==
    ASSUME AccountInv, NEW what \in {"guess", "recheck"}, Accounts!AskFor(what),
           tab = "index", leaving = FALSE, hops <= 1, setupDone = TRUE,
           what = "guess" => session = FALSE,
           UNCHANGED <<setupDone, accounts, session, setupCalls, tab, leaving, hops>>
    PROVE  AccountInv'
<1>1. /\ ask' # None /\ ask'[1] = what /\ ask'[2] = "index" /\ reply' = None
      /\ what \in Accounts!Asks /\ "index" \in Accounts!Pages
  BY NothingDiffers DEF Accounts!AskFor, Accounts!Asks, Accounts!Pages
<1>2. AccountTypes' /\ SetupInOrder'
  BY <1>1 DEF AccountInv, AccountTypes, SetupInOrder
<1>3. RepliesHold'
  BY <1>1 DEF RepliesHold, OnStatus, OnPost, AskIs
<1>4. HopsEnd'
  <2>1. ~AskIs("login")' /\ ~AskIs("setupPost")'
    BY <1>1 DEF AskIs
  <2>2. hops' <= 1 /\ leaving' = FALSE /\ setupDone' = TRUE
    OBVIOUS
  <2> QED BY <1>1, <2>1, <2>2 DEF HopsEnd
<1> QED BY <1>2, <1>3, <1>4 DEF AccountInv

LEMMA AccountStep == AccountInv /\ [Next]_dashboardVars => AccountInv'
<1> SUFFICES ASSUME AccountInv, Accounts!Next \/ UNCHANGED accountVars PROVE AccountInv'
  BY AccountPart
<1>1. ASSUME NEW r \in Requests,
             Accounts!SetupCall(r) \/ Accounts!SetupStep(r) \/ Accounts!SetupCut(r)
      PROVE  AccountInv'
  <2>1. UNCHANGED <<session, tab, ask, reply, leaving, hops>>
    BY <1>1 DEF Accounts!SetupCall, Accounts!SetupStep, Accounts!SetupCut
  <2>2. AccountTypes' /\ SetupInOrder' /\ (setupDone = TRUE => setupDone' = TRUE)
    <3> USE DEF AccountInv, AccountTypes, SetupInOrder
    <3>1. CASE Accounts!SetupCall(r) \/ Accounts!SetupCut(r)
      BY <2>1, <3>1 DEF Accounts!SetupCall, Accounts!SetupCut
    <3>2. CASE Accounts!SetupStep(r)
      <4>1. CASE setupCalls[r] = "sent"
        BY <2>1, <3>2, <4>1 DEF Accounts!SetupStep
      <4>2. CASE setupCalls[r] = "checked"
        <5>1. /\ accounts' = accounts + 1 /\ UNCHANGED setupDone
              /\ setupCalls' = [setupCalls EXCEPT ![r] = "created"]
          BY <3>2, <4>2 DEF Accounts!SetupStep
        <5>0. accounts \in Nat
          OBVIOUS
        <5>2. accounts' = accounts + 1
          BY <5>1
        <5> HIDE DEF AccountInv, AccountTypes, SetupInOrder
        <5>3. accounts' \in Nat /\ accounts' > 0
          BY <5>0, <5>2
        <5> USE DEF AccountInv, AccountTypes, SetupInOrder
        <5> QED BY <2>1, <5>1, <5>3
      <4>3. CASE setupCalls[r] = "created"
        BY <2>1, <3>2, <4>3 DEF Accounts!SetupStep
      <4> QED BY <3>2, <4>1, <4>2, <4>3 DEF Accounts!SetupStep
    <3> QED BY <1>1, <3>1, <3>2
  <2> QED BY <2>1, <2>2 DEF AccountInv, RepliesHold, HopsEnd, OnStatus, OnPost, AskIs
<1>2. CASE Accounts!ServePage
  <2>1. ask[1] = "page" /\ ask # None /\ UNCHANGED <<setupDone, accounts, session, setupCalls,
                                                   reply, leaving, hops>>
    BY <1>2 DEF Accounts!ServePage, Accounts!Asking
  <2>2. leaving = FALSE
    BY <2>1 DEF AccountInv, AccountTypes, HopsEnd, AskIs
  <2>3. CASE setupDone = FALSE
    <3>1. tab' = "too many redirects" /\ ask' = None
      BY <1>2, <2>3 DEF Accounts!ServePage
    <3>2. AccountTypes' /\ SetupInOrder'
      BY <2>1, <3>1 DEF AccountInv, AccountTypes, SetupInOrder, Accounts!Pages
    <3>3. RepliesHold'
      BY <3>1 DEF RepliesHold, OnStatus, OnPost, AskIs
    <3>4. hops' = 0
      BY <2>1, <2>3, HopsCount
    <3>5. HopsEnd'
      <4>1. leaving' = FALSE /\ ask' = None
        BY <2>1, <2>2, <3>1
      <4>2. ~(hops' > 0)
        BY <3>4
      <4> QED BY <4>1, <4>2 DEF HopsEnd, AskIs
    <3> QED BY <3>2, <3>3, <3>5 DEF AccountInv
  <2>4. CASE setupDone = TRUE
    <3>1. /\ tab' = ask[2] /\ ask[2] \in Accounts!Pages /\ reply' = None
          /\ \E what \in {"status", "setupStatus"} : ask' = <<what, ask[2]>>
      BY <1>2, <2>1, <2>4 DEF Accounts!ServePage, AccountInv, AccountTypes, RepliesHold, AskIs
    <3>2. /\ ask' # None /\ ask'[1] \in {"status", "setupStatus"} /\ ask'[2] = ask[2]
          /\ ask'[1] \in Accounts!Asks
      BY <3>1, NothingDiffers DEF Accounts!Asks
    <3>3. AccountTypes' /\ SetupInOrder'
      BY <2>1, <2>4, <3>1, <3>2 DEF AccountInv, AccountTypes, SetupInOrder
    <3>4. RepliesHold'
      BY <3>1, <3>2 DEF RepliesHold, OnStatus, OnPost, AskIs
    <3>5. HopsEnd'
      BY <2>1, <2>2, <3>2 DEF AccountInv, HopsEnd, AskIs
    <3> QED BY <3>3, <3>4, <3>5 DEF AccountInv
  <2> QED BY <2>3, <2>4 DEF AccountInv, AccountTypes
<1>3. CASE Accounts!ServeStatus
  <2>1. /\ OnStatus /\ ask # None /\ ask[1] \in {"status", "recheck", "setupStatus"}
        /\ reply' = [done |-> setupDone, auth |-> setupDone /\ session]
        /\ UNCHANGED <<setupDone, accounts, session, setupCalls, tab, ask, leaving, hops>>
    BY <1>3 DEF Accounts!ServeStatus, Accounts!Asking, OnStatus, AskIs
  <2>2. setupDone = TRUE /\ ask[2] = tab /\ session \in BOOLEAN
    BY <2>1, WhileAsking DEF AccountInv, AccountTypes
  <2>3. reply'.done = TRUE /\ reply'.auth = session /\ reply' \in [done : BOOLEAN, auth : BOOLEAN]
    BY <2>1, <2>2, Zenon
  <2>4. session = TRUE /\ tab = "login" => hops = 0
    BY <2>1, <2>2 DEF AccountInv, HopsEnd
  <2>5. RepliesHold'
    BY <2>1, <2>3, <2>4 DEF AccountInv, RepliesHold, OnStatus, OnPost, AskIs
  <2>6. AccountTypes' /\ SetupInOrder'
    BY <2>1 DEF AccountInv, AccountTypes, SetupInOrder
  <2>7. HopsEnd'
    BY <2>1 DEF AccountInv, HopsEnd, AskIs
  <2> QED BY <2>5, <2>6, <2>7 DEF AccountInv
<1>4. CASE Accounts!ServePost
  <2>1. PICK fits \in BOOLEAN : reply' = [ok |-> fits] /\ session' = (session \/ fits)
    BY <1>4 DEF Accounts!ServePost
  <2>2. /\ OnPost /\ ask # None /\ ask[1] \in {"login", "guess", "setupPost"} /\ reply = None
        /\ UNCHANGED <<setupDone, accounts, setupCalls, tab, ask, leaving, hops>>
    BY <1>4 DEF Accounts!ServePost, Accounts!Asking, OnPost, AskIs
  <2>3. reply'.ok = fits /\ reply' \in [ok : BOOLEAN] /\ session' \in BOOLEAN
    BY <2>1, Zenon
  <2>4. AskIs("guess") => session = FALSE /\ tab = "index"
    BY <2>2 DEF AccountInv, RepliesHold
  <2>5. session = FALSE /\ fits = FALSE => session' = FALSE
    BY <2>1, Zenon
  <2>6. RepliesHold'
    <3>1. ~OnStatus' /\ ~AskIs("page")' /\ ~AskIs("recheck")'
      BY <2>2 DEF OnStatus, AskIs
    <3>2. AskIs("guess")' => tab' = "index" /\ (reply'.ok = FALSE => session' = FALSE)
      BY <2>2, <2>3, <2>4, <2>5 DEF AskIs
    <3>3. reply' # None
      BY <2>1, NothingDiffers DEF Accounts!Answers
    <3> QED BY <2>3, <3>1, <3>2, <3>3 DEF RepliesHold
  <2>7. AccountTypes' /\ SetupInOrder'
    BY <2>2, <2>3 DEF AccountInv, AccountTypes, SetupInOrder
  <2>8. ask[2] = "login" => hops = 0
    <3>1. ask[2] = tab
      BY <2>2, WhileAsking
    <3>2. AskIs("guess") \/ AskIs("login") \/ AskIs("setupPost")
      BY <2>2 DEF OnPost
    <3> QED BY <2>4, <3>1, <3>2 DEF AccountInv, HopsEnd
  <2>9. HopsEnd'
    BY <2>2, <2>8 DEF AccountInv, HopsEnd, AskIs
  <2> QED BY <2>6, <2>7, <2>9 DEF AccountInv
<1>5. CASE Accounts!SessionExpires
  BY <1>5 DEF Accounts!SessionExpires, AccountInv, AccountTypes, SetupInOrder, RepliesHold,
     HopsEnd, OnStatus, OnPost, AskIs
<1>6. CASE Accounts!StatusArrives
  <2>1. /\ OnStatus /\ ask # None /\ ask[1] \in {"status", "recheck", "setupStatus"}
        /\ reply # None
        /\ UNCHANGED <<setupDone, accounts, session, setupCalls, tab>>
    BY <1>6 DEF Accounts!StatusArrives, Accounts!Asking, OnStatus, AskIs
  <2>2. /\ setupDone = TRUE /\ ask[2] = tab /\ tab \in Accounts!Pages
        /\ leaving = FALSE /\ hops \in Nat
    BY <2>1, WhileAsking, HopsCount DEF AskIs
  <2>3. /\ reply.done = TRUE /\ reply.auth \in BOOLEAN
        /\ reply.auth = FALSE => session = FALSE
        /\ reply.auth = TRUE /\ tab = "login" => hops = 0
    BY <2>1 DEF AccountInv, RepliesHold
  <2>4. /\ tab \in {"view", "setup"} => hops = 0
        /\ tab = "index" => hops <= 1
    BY <2>1, <2>2 DEF AccountInv, HopsEnd
  <2>5. ASSUME Accounts!Stay PROVE AccountInv'
    BY <2>1, <2>2, <2>5, Rested DEF Accounts!Stay
  <2>6. ASSUME Accounts!GoTo("index"), hops = 0 PROVE AccountInv'
    <3>1. hops' = 1 /\ Accounts!Request("index")
      BY <2>6 DEF Accounts!GoTo
    <3> QED BY <2>1, <2>2, <2>6, <3>1, Requested DEF Accounts!Pages
  <2>7. ASSUME Accounts!GoTo("login"), hops <= 1, session = FALSE PROVE AccountInv'
    <3>1. hops' = hops + 1 /\ hops' <= 2 /\ Accounts!Request("login")
      BY <2>2, <2>7 DEF Accounts!GoTo
    <3> QED BY <2>1, <2>2, <2>7, <3>1, Requested DEF Accounts!Pages
  <2>8. CASE tab = "index"
    <3>1. Accounts!IndexStatus(reply)
      BY <1>6, <2>8 DEF Accounts!StatusArrives
    <3>2. CASE reply.auth = TRUE
      BY <2>3, <2>5, <3>1, <3>2 DEF Accounts!IndexStatus
    <3>3. CASE reply.auth = FALSE
      <4>1. \/ Accounts!GoTo("login")
            \/ Accounts!AskFor("guess") /\ UNCHANGED <<leaving, hops>>
        BY <2>3, <3>1, <3>3 DEF Accounts!IndexStatus
      <4> QED BY <2>1, <2>2, <2>3, <2>4, <2>7, <2>8, <3>3, <4>1, Asked
    <3> QED BY <2>3, <3>2, <3>3
  <2>9. CASE tab = "view"
    <3>1. Accounts!Stay \/ (reply.auth = FALSE /\ Accounts!GoTo("login"))
      BY <1>6, <2>3, <2>9 DEF Accounts!StatusArrives, Accounts!ViewStatus
    <3>2. hops <= 1
      BY <2>4, <2>9
    <3> QED BY <2>3, <2>5, <2>7, <3>1, <3>2
  <2>10. CASE tab = "login"
    <3>1. Accounts!Stay \/ (reply.auth = TRUE /\ Accounts!GoTo("index"))
      BY <1>6, <2>3, <2>10 DEF Accounts!StatusArrives, Accounts!LoginPageStatus
    <3> QED BY <2>3, <2>5, <2>6, <2>10, <3>1
  <2>11. CASE tab = "setup"
    <3>1. Accounts!GoTo("index")
      BY <1>6, <2>3, <2>11 DEF Accounts!StatusArrives, Accounts!SetupPageStatus
    <3> QED BY <2>4, <2>6, <2>11, <3>1
  <2> QED BY <2>2, <2>8, <2>9, <2>10, <2>11 DEF Accounts!Pages
<1>7. CASE Accounts!StatusFails
  <2>1. UNCHANGED <<setupDone, accounts, session, setupCalls, tab>>
    BY <1>7 DEF Accounts!StatusFails
  <2>2. \/ \E page \in {"login", "setup"} : Accounts!Request(page) /\ hops' = 0
        \/ ask' = None /\ reply' = None /\ hops' = 0 /\ UNCHANGED leaving
    BY <1>7 DEF Accounts!StatusFails, Accounts!Stay
  <2>3. leaving = TRUE => setupDone = TRUE
    BY DEF AccountInv, HopsEnd
  <2>4. {"login", "setup"} \subseteq Accounts!Pages /\ leaving \in BOOLEAN
    BY DEF Accounts!Pages, AccountInv, AccountTypes
  <2> QED BY <2>1, <2>2, <2>3, <2>4, Requested, Rested
<1>8. CASE Accounts!PostArrives
  <2>1. /\ ask' = None /\ reply' = None /\ hops' = 0
        /\ UNCHANGED <<setupDone, accounts, session, setupCalls, tab>>
    BY <1>8 DEF Accounts!PostArrives
  <2>2. (AskIs("login") \/ AskIs("setupPost")) /\ reply # None
    BY <1>8 DEF Accounts!PostArrives, Accounts!Asking, AskIs
  <2>3. reply.ok \in BOOLEAN
    BY <2>2 DEF AccountInv, RepliesHold, OnPost
  <2>4. leaving' \in BOOLEAN
    BY <1>8, <2>3 DEF Accounts!PostArrives, AccountInv, AccountTypes
  <2>5. setupDone = TRUE
    BY <2>2 DEF AccountInv, AccountTypes, SetupInOrder, AskIs
  <2> QED BY <2>1, <2>4, <2>5, Rested
<1>9. CASE Accounts!GuessArrives
  <2>1. /\ AskIs("guess") /\ OnPost /\ ask # None /\ ask[1] = "guess" /\ reply # None
        /\ UNCHANGED <<setupDone, accounts, session, setupCalls, tab>>
    BY <1>9 DEF Accounts!GuessArrives, Accounts!Asking, OnPost, AskIs
  <2>2. /\ setupDone = TRUE /\ ask[2] = tab /\ leaving = FALSE /\ hops \in Nat
    BY <2>1, WhileAsking, HopsCount DEF AskIs
  <2>3. tab = "index" /\ reply.ok \in BOOLEAN /\ (reply.ok = FALSE => session = FALSE)
    BY <2>1 DEF AccountInv, RepliesHold
  <2>4. hops <= 1
    BY <2>1, <2>2, <2>3 DEF AccountInv, HopsEnd
  <2>5. CASE reply.ok = TRUE
    BY <1>9, <2>1, <2>2, <2>3, <2>4, <2>5, Asked DEF Accounts!GuessArrives
  <2>6. CASE reply.ok = FALSE
    <3>1. hops' = hops + 1 /\ hops' <= 2 /\ Accounts!Request("login")
      BY <1>9, <2>2, <2>4, <2>6 DEF Accounts!GuessArrives, Accounts!GoTo
    <3> QED BY <2>1, <2>2, <2>3, <2>6, <3>1, Requested DEF Accounts!Pages
  <2> QED BY <2>3, <2>5, <2>6
<1>10. CASE Accounts!Leave
  <2>1. hops = 0 /\ setupDone = TRUE
    BY <1>10 DEF Accounts!Leave, AccountInv, AccountTypes, HopsEnd
  <2>2. hops' = 1 /\ Accounts!Request("index") /\ "index" \in Accounts!Pages
        /\ UNCHANGED <<setupDone, accounts, session, setupCalls, tab>>
    BY <1>10, <2>1 DEF Accounts!Leave, Accounts!GoTo, Accounts!Pages
  <2>3. session' \in {session, FALSE}
    BY <2>2
  <2> HIDE DEF AccountInv
  <2>4. hops' = hops + 1 /\ hops' <= 1
    BY <2>1, <2>2
  <2> QED BY <2>1, <2>2, <2>3, <2>4, Requested
<1>11. ASSUME NEW page \in Accounts!Pages, Accounts!OpenPage(page) PROVE AccountInv'
  BY <1>11, Requested DEF Accounts!OpenPage
<1>12. CASE Accounts!Submit
  <2>1. PICK what \in {"login", "setupPost"} :
           ask' = <<what, tab>> /\ ask'[1] = what /\ ask'[2] = tab /\ ask' # None
    BY <1>12, NothingDiffers DEF Accounts!Submit, Accounts!AskFor, Accounts!Asks, Accounts!Pages
  <2>2. /\ tab \in {"login", "setup"} /\ ask = None /\ reply' = None
        /\ UNCHANGED <<setupDone, accounts, session, setupCalls, tab, leaving, hops>>
    BY <1>12 DEF Accounts!Submit, Accounts!AskFor
  <2>3. AccountTypes' /\ SetupInOrder'
    BY <2>1, <2>2 DEF AccountInv, AccountTypes, SetupInOrder, Accounts!Asks, Accounts!Pages
  <2>4. RepliesHold'
    BY <2>1, <2>2 DEF RepliesHold, OnStatus, OnPost, AskIs
  <2>5. hops = 0
    BY <2>2, HopsCount
  <2>6. HopsEnd'
    BY <2>1, <2>2, <2>5 DEF AccountInv, HopsEnd, AskIs
  <2> QED BY <2>3, <2>4, <2>6 DEF AccountInv
<1>13. CASE Accounts!Logout
  BY <1>13, Requested DEF Accounts!Logout, AccountInv, AccountTypes, Accounts!Pages
<1>14. CASE UNCHANGED accountVars
  <2>1. AccountTypes' /\ SetupInOrder'
    BY <1>14 DEF accountVars, AccountInv, AccountTypes, SetupInOrder
  <2>2. RepliesHold'
    BY <1>14 DEF accountVars, AccountInv, RepliesHold, OnStatus, OnPost, AskIs
  <2>3. HopsEnd'
    BY <1>14 DEF accountVars, AccountInv, HopsEnd, AskIs
  <2> QED BY <2>1, <2>2, <2>3 DEF AccountInv
<1> QED
  BY <1>1, <1>2, <1>3, <1>4, <1>5, <1>6, <1>7, <1>8, <1>9, <1>10, <1>11, <1>12, <1>13, <1>14
  DEF Accounts!Next, Accounts!ByItself

\* No browser is sent on more than twice, and a server that is set up has an account,
\* for any number of concurrent set-ups and whatever the user does.
THEOREM AccountsStayReachable == Spec => []AccountsAreReachable
<1>1. Init => AccountInv
  BY AccountInit DEF Init
<1>2. AccountInv => AccountsAreReachable
  <2> SUFFICES ASSUME AccountInv PROVE hops <= 2 /\ (setupDone => accounts > 0)
    BY DEF AccountsAreReachable, Accounts!RedirectsEnd, Accounts!SetupLeavesAnAccount
  <2>1. setupDone => accounts > 0
    BY DEF AccountInv, AccountTypes, SetupInOrder
  <2>2. hops \in Nat
    BY DEF AccountInv, AccountTypes
  <2>3. ask # None => ask[2] \in {"index", "view", "login", "setup"}
    BY DEF AccountInv, AccountTypes, Accounts!Pages
  <2>4. hops <= 2
    BY <2>2, <2>3 DEF AccountInv, HopsEnd
  <2> QED BY <2>1, <2>4
<1> QED BY <1>1, <1>2, AccountStep, PTL DEF Spec

\* What is asked for is a page, or is asked for by the page that is shown.
AskedHere ==
    /\ ask \in {<<"page", p>> : p \in Accounts!Pages} \cup {<<a, tab>> : a \in Accounts!Asks}
               \cup {None}
    /\ reply \in Accounts!Answers \cup {None}
    /\ errands \in 0..MaxErrands

LEMMA AskedInit == Accounts!Init => AskedHere
<1> SUFFICES ASSUME Accounts!Init PROVE AskedHere
  OBVIOUS
<1>1. 0 \in 0..MaxErrands
  BY Inputs
<1> QED BY <1>1 DEF Accounts!Init, AskedHere

LEMMA AskedStep == AccountInv /\ AskedHere /\ [Next]_dashboardVars => AskedHere'
<1> SUFFICES ASSUME AccountInv, AskedHere, Accounts!Next \/ UNCHANGED accountVars
             PROVE  AskedHere'
  BY AccountPart
<1> USE DEF AskedHere
<1>1. ASSUME NEW page \in Accounts!Pages, Accounts!Request(page), errands' \in 0..MaxErrands
      PROVE  AskedHere'
  BY <1>1 DEF Accounts!Request
<1>2. ASSUME NEW what \in Accounts!Asks, Accounts!AskFor(what), UNCHANGED tab,
             errands' \in 0..MaxErrands
      PROVE  AskedHere'
  BY <1>2 DEF Accounts!AskFor
<1>3. ASSUME ask' = None, reply' = None, errands' \in 0..MaxErrands PROVE AskedHere'
  BY <1>3
<1>4. ASSUME UNCHANGED <<tab, ask>>, reply' \in Accounts!Answers \cup {None},
             errands' \in 0..MaxErrands
      PROVE AskedHere'
  BY <1>4
<1>5. Accounts!Errand => errands' \in 0..MaxErrands
  BY Inputs DEF Accounts!Errand
<1>6. CASE Accounts!ServePage
  <2>1. ask # None /\ ask[2] \in Accounts!Pages
    BY <1>6 DEF Accounts!ServePage, Accounts!Asking, AccountInv, AccountTypes
  <2>2. {"status", "setupStatus"} \subseteq Accounts!Asks
    BY DEF Accounts!Asks
  <2> QED BY <1>6, <2>1, <2>2 DEF Accounts!ServePage
<1>7. CASE Accounts!ServeStatus
  <2>1. setupDone \in BOOLEAN /\ session \in BOOLEAN
    BY DEF AccountInv, AccountTypes
  <2>2. reply' \in Accounts!Answers
    BY <1>7, <2>1 DEF Accounts!ServeStatus, Accounts!Answers
  <2> QED BY <1>4, <1>7, <2>2 DEF Accounts!ServeStatus
<1>8. CASE Accounts!ServePost
  <2>1. reply' \in Accounts!Answers
    BY <1>8 DEF Accounts!ServePost, Accounts!Answers
  <2> QED BY <1>4, <1>8, <2>1 DEF Accounts!ServePost
<1>9. {"index", "login", "setup"} \subseteq Accounts!Pages
  BY DEF Accounts!Pages
<1>10. CASE Accounts!StatusArrives
  <2>1. tab \in {"index", "view", "login", "setup"} /\ UNCHANGED <<tab, errands>>
    BY <1>10, WhileAsking
    DEF Accounts!StatusArrives, Accounts!Asking, AccountInv, AccountTypes, Accounts!Pages
  <2>2. \/ Accounts!Stay
        \/ \E page \in Accounts!Pages : Accounts!Request(page)
        \/ Accounts!AskFor("guess")
    BY <1>9, <1>10, <2>1
    DEF Accounts!StatusArrives, Accounts!IndexStatus, Accounts!ViewStatus,
        Accounts!LoginPageStatus, Accounts!SetupPageStatus, Accounts!GoTo
  <2>3. "guess" \in Accounts!Asks
    BY DEF Accounts!Asks
  <2> QED BY <1>1, <1>2, <1>3, <2>1, <2>2, <2>3 DEF Accounts!Stay
<1>11. CASE Accounts!StatusFails
  <2>1. \/ Accounts!Stay
        \/ \E page \in Accounts!Pages : Accounts!Request(page)
    BY <1>9, <1>11 DEF Accounts!StatusFails
  <2> QED BY <1>1, <1>3, <1>5, <1>11, <2>1 DEF Accounts!Stay, Accounts!StatusFails
<1>12. CASE Accounts!PostArrives
  BY <1>3, <1>12 DEF Accounts!PostArrives
<1>13. CASE Accounts!GuessArrives
  <2>1. "recheck" \in Accounts!Asks
    BY DEF Accounts!Asks
  <2> QED BY <1>1, <1>2, <1>9, <1>13, <2>1 DEF Accounts!GuessArrives, Accounts!GoTo
<1>14. CASE Accounts!Leave
  BY <1>1, <1>9, <1>14 DEF Accounts!Leave, Accounts!GoTo
<1>15. CASE Accounts!SessionExpires
  BY <1>4, <1>5, <1>15 DEF Accounts!SessionExpires
<1>16. CASE Accounts!Submit
  <2>1. {"login", "setupPost"} \subseteq Accounts!Asks
    BY DEF Accounts!Asks
  <2> QED BY <1>2, <1>5, <1>16, <2>1 DEF Accounts!Submit
<1>17. CASE Accounts!Logout
  BY <1>1, <1>5, <1>9, <1>17 DEF Accounts!Logout
<1>18. ASSUME NEW r \in Requests,
              Accounts!SetupCall(r) \/ Accounts!SetupStep(r) \/ Accounts!SetupCut(r)
       PROVE AskedHere'
  BY <1>4, <1>5, <1>18 DEF Accounts!SetupCall, Accounts!SetupStep, Accounts!SetupCut
<1>19. ASSUME NEW page \in Accounts!Pages, Accounts!OpenPage(page) PROVE AskedHere'
  BY <1>1, <1>5, <1>19 DEF Accounts!OpenPage
<1>20. CASE UNCHANGED accountVars
  BY <1>4, <1>20 DEF accountVars
<1> QED
  BY <1>6, <1>7, <1>8, <1>10, <1>11, <1>12, <1>13, <1>14, <1>15, <1>16, <1>17, <1>18, <1>19, <1>20
  DEF Accounts!Next, Accounts!ByItself

LEMMA AccountsAreTyped == AccountInv /\ AskedHere => Accounts!TypeOK
BY DEF AccountInv, AccountTypes, AskedHere, Accounts!TypeOK

-----------------------------------------------------------------------------
(* The editor of a device *)

\* A load stands for a device.  An opening that no earlier load runs into is followed
\* by loads of its own device alone, and they leave their own configuration.
EditorInv ==
    /\ Editor!TypeOK
    /\ edit.device = None => edit.step = "config"
    /\ Editor!LoadingEnds
    /\ Editor!FormIsOfOpened
    /\ \A r \in Requests : editLoads[r].at # "idle" => editLoads[r].of \in editLately
    /\ \A r \in Requests : editLoads[r].at = "template" =>
          /\ edit.config \in editLately \cup {None}
          /\ edit.device # None => edit.config \in editLately

LEMMA EditorInit == Editor!Init => EditorInv
<1> SUFFICES ASSUME Editor!Init PROVE EditorInv
  OBVIOUS
<1>1. Editor!TypeOK
  BY DEF Editor!Init, Editor!TypeOK, Editor!NoLoad, Editor!DeviceOrNone
<1> QED BY <1>1, PageNames DEF Editor!Init, EditorInv, Editor!LoadingEnds, Editor!FormIsOfOpened,
                           Editor!NoLoad

LEMMA EditorStep == EditorInv /\ [Next]_dashboardVars => EditorInv'
<1> SUFFICES ASSUME EditorInv, Editor!Next \/ UNCHANGED editVars PROVE EditorInv'
  BY EditorPart
<1> USE PageNames DEF EditorInv, Editor!TypeOK, Editor!LoadingEnds, Editor!NoLoad,
                      Editor!DeviceOrNone, Editor!FormIsOfOpened
<1>1. ASSUME NEW r \in Requests, NEW d \in Devices, Editor!OpenDeviceEdit(d, r)
      PROVE  EditorInv'
  <2>1. /\ edit'.device = d /\ edit'.step = "config" /\ edit'.loading
        /\ edit'.form = edit.form /\ edit'.config = edit.config
    BY <1>1 DEF Editor!OpenDeviceEdit
  <2>2. /\ editLoads'[r].of = d /\ editLoads'[r].at = "device"
        /\ \A q \in Requests : q # r => editLoads'[q] = editLoads[q]
    BY <1>1 DEF Editor!OpenDeviceEdit
  <2>3. /\ d \in editLately'
        /\ \/ \A q \in Requests : editLoads[q].at = "idle"
           \/ None \in editLately' /\ editLately \subseteq editLately'
    BY <1>1 DEF Editor!OpenDeviceEdit, Editor!OpenedLately, Editor!Loading
  <2>4. Editor!TypeOK'
    BY <1>1 DEF Editor!OpenDeviceEdit, Editor!OpenedLately
  <2> QED BY <2>1, <2>2, <2>3, <2>4
<1>2. ASSUME NEW r \in Requests, Editor!DeviceArrives(r) PROVE EditorInv'
  <2> DEFINE answered == [edit EXCEPT !.config = editLoads[r].of]
  <2>0. /\ answered.device = edit.device /\ answered.step = edit.step
        /\ answered.form = edit.form /\ answered.loading = edit.loading
        /\ answered.config = editLoads[r].of
    OBVIOUS
  <2>1. CASE /\ edit' = Editor!Rendered(answered)
             /\ editLoads' = [editLoads EXCEPT ![r] = Editor!NoLoad]
    BY <1>2, <2>1 DEF Editor!DeviceArrives, Editor!Rendered
  <2>2. CASE edit' = answered /\ editLoads' = [editLoads EXCEPT ![r].at = "template"]
    <3>1. \A q \in Requests : q # r => editLoads'[q] = editLoads[q]
      BY <2>2
    <3>2. editLoads'[r].of = editLoads[r].of /\ editLoads'[r].at = "template"
      BY <2>2
    <3>3. Editor!TypeOK'
      BY <1>2, <2>2 DEF Editor!DeviceArrives
    <3> QED BY <1>2, <2>2, <2>0, <3>1, <3>2, <3>3 DEF Editor!DeviceArrives
  <2> QED BY <1>2, <2>1, <2>2 DEF Editor!DeviceArrives
<1>3. ASSUME NEW r \in Requests, Editor!TemplateArrives(r) PROVE EditorInv'
  BY <1>3 DEF Editor!TemplateArrives, Editor!Rendered
<1>4. ASSUME NEW r \in Requests, Editor!LoadFails(r) PROVE EditorInv'
  BY <1>4 DEF Editor!LoadFails, Editor!Closed
<1>5. CASE Editor!CloseEditOverlay
  BY <1>5 DEF Editor!CloseEditOverlay, Editor!Closed
<1>6. CASE Editor!ValidateDevice \/ Editor!ValidationEnds \/ Editor!Back
  <2>1. edit' \in {edit, [edit EXCEPT !.step = "validation"], [edit EXCEPT !.step = "config"]}
    BY <1>6 DEF Editor!ValidateDevice, Editor!ValidationEnds, Editor!Back
  <2>2. /\ edit'.device = edit.device /\ edit'.config = edit.config
        /\ edit'.form = edit.form /\ edit'.loading = edit.loading
        /\ edit'.step = "validation" => edit.device # None
    BY <2>1, <1>6 DEF Editor!ValidateDevice, Editor!ValidationEnds, Editor!Back
  <2>3. Editor!TypeOK'
    BY <1>6 DEF Editor!ValidateDevice, Editor!ValidationEnds, Editor!Back
  <2>4. editLoads' = editLoads /\ editLately' = editLately
    BY <1>6 DEF Editor!ValidateDevice, Editor!ValidationEnds, Editor!Back
  <2> QED BY <2>2, <2>3, <2>4
<1>7. CASE Editor!SaveDevice
  <2>1. editSave' \in [to : Devices, form : Devices \cup {None}]
    BY <1>7 DEF Editor!SaveDevice
  <2> QED BY <1>7, <2>1 DEF Editor!SaveDevice
<1>9. CASE Editor!SaveEnds
  BY <1>9 DEF Editor!SaveEnds, Editor!Closed
<1>8. CASE UNCHANGED editVars
  BY <1>8 DEF editVars
<1> QED BY <1>1, <1>2, <1>3, <1>4, <1>5, <1>6, <1>7, <1>8, <1>9 DEF Editor!Next

-----------------------------------------------------------------------------
(* The table of devices *)

\* The controls are those of the list and the choice; each device of the list has a
\* row, which is ticked if the device is chosen.
TableInv ==
    /\ tableDevices \subseteq Devices /\ chosen \subseteq Devices
    /\ imports \in {"idle", "sent", "listing"}
    /\ controls = Table!Controls(tableDevices, chosen)
    /\ tableRows = [d \in tableDevices |-> d \in chosen]

LEMMA TableInit == Table!Init => TableInv
BY DEF Table!Init, TableInv

LEMMA TableStep == TableInv /\ [Next]_dashboardVars => TableInv'
<1> SUFFICES ASSUME TableInv, Table!Next \/ UNCHANGED tableVars PROVE TableInv'
  BY TablePart
<1>1. ASSUME NEW devices \in SUBSET Devices, Table!ListArrives(devices) PROVE TableInv'
  BY <1>1 DEF Table!ListArrives, Table!RenderTable, TableInv, Table!Controls
<1>2. ASSUME NEW d \in Devices, Table!ToggleDeviceSelection(d) PROVE TableInv'
  BY <1>2 DEF Table!ToggleDeviceSelection, TableInv, Table!Controls
<1>3. CASE Table!HandleSelectAll
  BY <1>3 DEF Table!HandleSelectAll, Table!RenderTable, TableInv, Table!Controls
<1>4. CASE Table!MasterChanges
  BY <1>4 DEF Table!MasterChanges, Table!RenderTable, TableInv, Table!Controls
<1>5. CASE Table!HandleImport \/ Table!ImportAnswers \/ UNCHANGED tableVars
  BY <1>5 DEF Table!HandleImport, Table!ImportAnswers, tableVars, TableInv, Table!Controls
<1> QED BY <1>1, <1>2, <1>3, <1>4, <1>5 DEF Table!Next

LEMMA TableIsRight == TableInv => Table!TypeOK /\ Table!ExportIsWhatIsTicked
<1> SUFFICES ASSUME TableInv PROVE Table!TypeOK /\ Table!ExportIsWhatIsTicked
  OBVIOUS
<1>1. tableRows \in [tableDevices -> BOOLEAN]
  BY DEF TableInv
<1>2. controls \in [master : Table!Ticks, canExport : BOOLEAN, clears : BOOLEAN]
  BY DEF TableInv, Table!Controls, Table!Ticks
<1> QED BY <1>1, <1>2 DEF TableInv, Table!TypeOK, Table!ExportIsWhatIsTicked, Table!Exported,
                          Table!Controls

LEMMA SelectAllStep ==
    TableInv /\ [Next]_dashboardVars =>
      [ (tableDevices # {} /\ (Table!HandleSelectAll \/ Table!MasterChanges))
        => \A d \in DOMAIN tableRows' : tableRows'[d] <=> ~controls.clears ]_Table!tableVars
<1> SUFFICES ASSUME TableInv, tableDevices # {}, Table!HandleSelectAll \/ Table!MasterChanges,
                    NEW d \in DOMAIN tableRows'
             PROVE  tableRows'[d] <=> ~controls.clears
  OBVIOUS
<1>1. /\ controls.clears <=> chosen \cap tableDevices = tableDevices
      /\ controls.master = "all" <=> chosen \cap tableDevices = tableDevices
  BY DEF TableInv, Table!Controls
<1>2. tableRows' = [e \in tableDevices |-> e \in chosen'] /\ d \in tableDevices
  BY DEF Table!HandleSelectAll, Table!MasterChanges, Table!RenderTable
<1> QED BY <1>1, <1>2 DEF Table!HandleSelectAll, Table!MasterChanges

-----------------------------------------------------------------------------
(* The keys *)

KeysInv ==
    /\ Keys!TypeOK /\ Keys!SpinnerMeansLoading /\ Keys!ViewerIsOfAsked
    /\ \A r \in Requests : keyViews[r] \in viewedLately \cup {None}

LEMMA KeysInit == Keys!Init => KeysInv
<1> SUFFICES ASSUME Keys!Init PROVE KeysInv
  OBVIOUS
<1>0. 0 \in 0..Keys!MaxSent
  BY DEF Keys!MaxSent
<1>1. Keys!TypeOK
  BY <1>0 DEF Keys!Init, Keys!TypeOK, Keys!LoadStage
<1> QED BY <1>1 DEF Keys!Init, KeysInv, Keys!SpinnerMeansLoading, Keys!ViewerIsOfAsked

LEMMA ListsAreLists ==
    /\ None \notin Devices
    /\ \A list \in Keys!Lists \cup {Sample} : list # None
    /\ "some" # Empty
BY PageNames, Inputs DEF Keys!ListsDiffer, Keys!Lists

\* What is sent stays within its bound.
LEMMA AddingTyped ==
    ASSUME adding \in [open : BOOLEAN, sent : 0..Keys!MaxSent],
           \/ UNCHANGED adding
           \/ Keys!OpenAddModal \/ Keys!CloseAddModal \/ Keys!SaveNewKey \/ Keys!KeyRefused
           \/ \E r \in Requests : Keys!KeyAdded(r)
    PROVE  adding' \in [open : BOOLEAN, sent : 0..Keys!MaxSent]
<1> DEFINE S == 0..Keys!MaxSent
<1>0. /\ adding.open \in BOOLEAN /\ adding.sent \in S
      /\ adding.sent > 0 => adding.sent - 1 \in S
      /\ adding.sent < Keys!MaxSent => adding.sent + 1 \in S
  BY DEF Keys!MaxSent
<1>1. CASE \/ UNCHANGED adding
           \/ Keys!OpenAddModal \/ Keys!CloseAddModal
  BY <1>1 DEF Keys!OpenAddModal, Keys!CloseAddModal
<1>2. CASE Keys!SaveNewKey
  <2>1. adding' = [adding EXCEPT !.sent = adding.sent + 1] /\ adding.sent + 1 \in S
    BY <1>0, <1>2 DEF Keys!SaveNewKey
  <2> QED BY <2>1
<1>3. CASE Keys!KeyRefused
  <2>1. adding' = [adding EXCEPT !.sent = adding.sent - 1] /\ adding.sent - 1 \in S
    BY <1>0, <1>3 DEF Keys!KeyRefused
  <2> QED BY <2>1
<1>4. CASE \E r \in Requests : Keys!KeyAdded(r)
  <2>1. adding' = [open |-> FALSE, sent |-> adding.sent - 1] /\ adding.sent - 1 \in S
    BY <1>0, <1>4 DEF Keys!KeyAdded
  <2> QED BY <2>1
<1> QED BY <1>1, <1>2, <1>3, <1>4

LEMMA KeysStep == KeysInv /\ [Next]_dashboardVars => KeysInv'
<1> SUFFICES ASSUME KeysInv, Keys!Next \/ UNCHANGED keysVars PROVE KeysInv'
  BY KeysPart
<1> USE ListsAreLists DEF KeysInv, Keys!TypeOK, Keys!Keys, Keys!LoadStage, Keys!SpinnerMeansLoading,
        Keys!ViewerIsOfAsked
<1>1. ASSUME NEW r \in Requests, Keys!Refresh(r) \/ Keys!KeyAdded(r) PROVE KeysInv'
  <2>1. adding' \in [open : BOOLEAN, sent : 0..Keys!MaxSent]
    BY <1>1, AddingTyped DEF Keys!Refresh
  <2>2. keyLoads' = [keyLoads EXCEPT ![r] = "usage"] /\ keysLoading' = TRUE /\ keysView' = "loading"
    BY <1>1 DEF Keys!Refresh, Keys!KeyAdded, Keys!LoadKeys
  <2>3. UNCHANGED <<keys, viewer, keyViews, viewedLately>>
    BY <1>1 DEF Keys!Refresh, Keys!KeyAdded
  <2> QED BY <2>1, <2>2, <2>3
<1>2. ASSUME NEW r \in Requests, Keys!KeysArrive(r) \/ Keys!KeysFail(r) PROVE KeysInv'
  <2>1. PICK list \in Keys!Lists \cup {Sample} : Keys!Listed(list)
    BY <1>2 DEF Keys!KeysArrive, Keys!KeysFail
  <2>2. /\ keys' = list /\ keysLoading' = FALSE
        /\ keysView' = IF list = Empty THEN "empty" ELSE "list"
        /\ UNCHANGED <<adding, viewer, keyViews, viewedLately>>
    BY <2>1 DEF Keys!Listed
  <2>3. keyLoads' = [keyLoads EXCEPT ![r] = "idle"]
    BY <1>2 DEF Keys!KeysArrive, Keys!KeysFail
  <2> QED BY <2>2, <2>3
<1>3. ASSUME NEW r \in Requests, Keys!UsageFails(r) PROVE KeysInv'
  BY <1>3 DEF Keys!UsageFails
<1>4. ASSUME NEW r \in Requests, NEW k \in Devices, Keys!View(k, r) PROVE KeysInv'
  BY <1>4 DEF Keys!View
<1>5. ASSUME NEW r \in Requests, Keys!ViewArrives(r) PROVE KeysInv'
  BY <1>5 DEF Keys!ViewArrives
<1>6. ASSUME NEW r \in Requests, Keys!ViewFails(r) PROVE KeysInv'
  BY <1>6 DEF Keys!ViewFails
<1>7. CASE Keys!OpenAddModal \/ Keys!CloseAddModal \/ Keys!SaveNewKey \/ Keys!KeyRefused
  <2>1. adding' \in [open : BOOLEAN, sent : 0..Keys!MaxSent]
    BY <1>7, AddingTyped
  <2>2. UNCHANGED <<keys, keysLoading, keysView, keyLoads, viewer, keyViews, viewedLately>>
    BY <1>7 DEF Keys!OpenAddModal, Keys!CloseAddModal, Keys!SaveNewKey, Keys!KeyRefused
  <2> QED BY <2>1, <2>2
<1>8. CASE Keys!CloseViewer
  <2>1. viewer'.key = None /\ viewer'.open = FALSE
    BY <1>8 DEF Keys!CloseViewer
  <2>2. Keys!TypeOK'
    BY <1>8 DEF Keys!CloseViewer
  <2>3. UNCHANGED <<keys, keysLoading, keysView, keyLoads, keyViews, viewedLately>>
    BY <1>8 DEF Keys!CloseViewer
  <2> HIDE DEF Keys!TypeOK
  <2> QED BY <2>1, <2>2, <2>3
<1>9. CASE UNCHANGED keysVars
  BY <1>9 DEF keysVars
<1> QED BY <1>1, <1>2, <1>3, <1>4, <1>5, <1>6, <1>7, <1>8, <1>9 DEF Keys!Next

-----------------------------------------------------------------------------
(* The logs *)

LogsInv ==
    Logs!TypeOK /\ Logs!FilterIsListed /\ Logs!LogsSettle /\ Logs!AgentKnowsEntries

LEMMA LogsInit == Logs!Init => LogsInv
<1> SUFFICES ASSUME Logs!Init PROVE LogsInv
  OBVIOUS
<1>1. Logs!TypeOK
  BY DEF Logs!Init, Logs!TypeOK, Logs!AnyQuery, Logs!Query, Logs!Entries, Logs!Line
<1> QED
  BY <1>1 DEF Logs!Init, LogsInv, Logs!FilterIsListed, Logs!LogsSettle, Logs!AgentKnowsEntries,
              Logs!AnyQuery

LEMMA QueryIsNotNone == None \notin Logs!Query /\ Logs!AnyQuery \in Logs!Query
BY Inputs DEF Logs!NoneIsNoQuery, Logs!Query, Logs!AnyQuery

LEMMA SendKeeps ==
    ASSUME LogsInv, NEW r \in Requests, NEW query \in Logs!Query, Logs!Send(r, query),
           logFilter' \in {query, logFilter}, logFilter'.device \in logDevices \cup {None}
    PROVE  LogsInv'
<1>1. /\ logLoads' = [logLoads EXCEPT ![r] = query]
      /\ logsLoading' = TRUE /\ logsStatus' = "loading"
      /\ results' = Waiting /\ agentTold' = entries /\ UNCHANGED <<logDevices, entries>>
  BY DEF Logs!Send, Logs!RenderEntries
<1>2. logLoads'[r] # None
  BY <1>1, QueryIsNotNone DEF LogsInv, Logs!TypeOK
<1>3. Logs!TypeOK'
  BY <1>1, QueryIsNotNone DEF LogsInv, Logs!TypeOK, Logs!Line
<1> QED BY <1>1, <1>2, <1>3 DEF LogsInv, Logs!FilterIsListed, Logs!LogsSettle,
                                Logs!AgentKnowsEntries

LEMMA LogsStep == LogsInv /\ [Next]_dashboardVars => LogsInv'
<1> SUFFICES ASSUME LogsInv, Logs!Next \/ UNCHANGED logsVars PROVE LogsInv'
  BY LogsPart
<1>0. None \notin Logs!Query /\ Logs!AnyQuery \in Logs!Query /\ Logs!AnyQuery.device = None
  BY QueryIsNotNone DEF Logs!AnyQuery
<1>1. ASSUME NEW devices \in SUBSET Devices, Logs!PopulateDeviceFilters(devices) PROVE LogsInv'
  <2>1. logFilter' \in Logs!Query /\ logFilter'.device = None
    BY <1>1 DEF Logs!PopulateDeviceFilters, LogsInv, Logs!TypeOK, Logs!Query
  <2> QED
    BY <1>1, <2>1 DEF Logs!PopulateDeviceFilters, LogsInv, Logs!TypeOK, Logs!FilterIsListed,
       Logs!LogsSettle, Logs!AgentKnowsEntries
<1>2. ASSUME NEW query \in Logs!Query, Logs!Choose(query) PROVE LogsInv'
  BY <1>2 DEF Logs!Choose, LogsInv, Logs!TypeOK, Logs!FilterIsListed, Logs!LogsSettle,
     Logs!AgentKnowsEntries
<1>3. ASSUME NEW r \in Requests, Logs!LoadLogs(r) PROVE LogsInv'
  <2>1. logFilter \in Logs!Query /\ logFilter.device \in logDevices \cup {None}
    BY DEF LogsInv, Logs!TypeOK, Logs!FilterIsListed
  <2>2. Logs!Send(r, logFilter) /\ logFilter' = logFilter
    BY <1>3 DEF Logs!LoadLogs
  <2> QED BY <2>1, <2>2, SendKeeps
<1>4. ASSUME NEW r \in Requests, Logs!Reset(r) PROVE LogsInv'
  <2>1. Logs!Send(r, Logs!AnyQuery) /\ logFilter' = Logs!AnyQuery
    BY <1>4 DEF Logs!Reset
  <2> QED BY <1>0, <2>1, SendKeeps
<1>5. ASSUME NEW r \in Requests, NEW found \in {[q |-> logLoads[r]], Empty, Sample},
             Logs!LoadEnds(r, found)
      PROVE  LogsInv'
  <2>1. logLoads[r] \in Logs!Query
    BY <1>5 DEF Logs!LoadEnds, LogsInv, Logs!TypeOK
  <2>2. found \in Logs!Entries
    BY <2>1 DEF Logs!Entries
  <2>3. /\ logLoads' = [logLoads EXCEPT ![r] = None] /\ entries' = found
        /\ logsLoading' = FALSE /\ logsStatus' = "shown"
        /\ results' = found /\ agentTold' = found /\ UNCHANGED <<logDevices, logFilter>>
    BY <1>5 DEF Logs!LoadEnds, Logs!RenderEntries
  <2>4. Logs!TypeOK'
    BY <2>2, <2>3 DEF LogsInv, Logs!TypeOK, Logs!Line
  <2> QED BY <2>3, <2>4 DEF LogsInv, Logs!FilterIsListed, Logs!LogsSettle, Logs!AgentKnowsEntries
<1>6. CASE UNCHANGED logsVars
  BY <1>6 DEF logsVars, LogsInv, Logs!TypeOK, Logs!FilterIsListed, Logs!LogsSettle,
     Logs!AgentKnowsEntries
<1> QED BY <1>1, <1>2, <1>3, <1>4, <1>5, <1>6 DEF Logs!Next

-----------------------------------------------------------------------------
(* The scan *)

\* The page scans while one scan, the last that was started, waits for an answer.
ScannerInv ==
    /\ Scanner!TypeOK
    /\ Scanner!ResultsOfOneScan
    /\ scanning <=> \E s \in Scans : scanWaits[s] # None
    /\ \A s \in Scans : scanWaits[s] # None => s = lastScan /\ toScan[s] \in SUBSET Networks
    /\ rangeEdit # Scanner!NoEdit => rangeEdit.net \in Networks

LEMMA ScannerInit == Scanner!Init => ScannerInv
<1> SUFFICES ASSUME Scanner!Init PROVE ScannerInv
  OBVIOUS
<1>1. Scanner!TypeOK
  BY DEF Scanner!Init, Scanner!TypeOK, Scanner!NoEdit
<1>2. \A s \in Scans : scanWaits[s] = None
  BY DEF Scanner!Init
<1> QED BY <1>1, <1>2 DEF Scanner!Init, ScannerInv, Scanner!TypeOK, Scanner!ResultsOfOneScan,
                          Scanner!NoEdit

LEMMA ScannerStep == ScannerInv /\ [Next]_dashboardVars => ScannerInv'
<1> SUFFICES ASSUME ScannerInv, Scanner!Next \/ UNCHANGED scanVars PROVE ScannerInv'
  BY ScannerPart
<1>a. None \notin Networks \cup Scans \cup Requests
  BY Inputs, PageNames
<1> USE <1>a DEF ScannerInv, Scanner!TypeOK, Scanner!ResultsOfOneScan, Scanner!NoEdit
<1>1. ASSUME NEW r \in Requests, NEW list \in SUBSET Networks, Scanner!LoadArrives(r, list)
      PROVE  ScannerInv'
  BY <1>1 DEF Scanner!LoadArrives, Scanner!LoadEnds, Scanner!SelectionOf
<1>2. ASSUME NEW r \in Requests, Scanner!LoadFails(r) \/ Scanner!Refresh(r) PROVE ScannerInv'
  BY <1>2 DEF Scanner!LoadFails, Scanner!LoadEnds, Scanner!Refresh
<1>3. ASSUME NEW r \in Requests, Scanner!AddAnswered(r) PROVE ScannerInv'
  <2>1. rangeEdit'.net = rangeEdit.net /\ rangeEdit'.load = r
    BY <1>3 DEF Scanner!AddAnswered
  <2>2. rangeEdit.net \in Networks
    BY <1>3 DEF Scanner!AddAnswered
  <2>3. selected' \subseteq Networks /\ rangeLoads' \subseteq Requests
    BY <1>3, <2>2 DEF Scanner!AddAnswered
  <2>4. rangeEdit' \in [net : Networks \cup {None}, load : Requests \cup {None}]
    BY <1>3, <2>2 DEF Scanner!AddAnswered
  <2> QED BY <1>3, <2>1, <2>2 , <2>3, <2>4 DEF Scanner!AddAnswered
<1>4. ASSUME NEW n \in Networks, Scanner!Tick(n) \/ Scanner!Remove(n) \/ Scanner!RemoveFails(n)
      PROVE  ScannerInv'
  BY <1>4 DEF Scanner!Tick, Scanner!Remove, Scanner!RemoveFails
<1>5. ASSUME NEW n \in Networks,
             Scanner!Add(n) \/ \E r \in Requests : Scanner!RemoveAnswered(n, r)
      PROVE  ScannerInv'
  BY <1>5 DEF Scanner!Add, Scanner!RemoveAnswered
<1>6. CASE Scanner!AddFails \/ UNCHANGED scanVars
  BY <1>6 DEF Scanner!AddFails, scanVars
<1>7. ASSUME NEW s \in Scans, Scanner!StartScan(s) PROVE ScannerInv'
  <2>1. PICK n \in ranges \cap selected :
          /\ scanWaits' = [scanWaits EXCEPT ![s] = n]
          /\ toScan' = [toScan EXCEPT ![s] = (ranges \cap selected) \ {n}]
    BY <1>7 DEF Scanner!StartScan, Scanner!Chosen
  <2>2. n \in Networks /\ n # None
    OBVIOUS
  <2>3. \A q \in Scans : scanWaits[q] = None
    BY <1>7 DEF Scanner!StartScan
  <2> QED BY <1>7, <2>1, <2>2, <2>3 DEF Scanner!StartScan
<1>8. ASSUME NEW s \in Scans, NEW ok \in BOOLEAN, Scanner!ScanAnswer(s, ok) PROVE ScannerInv'
  <2>1. s = lastScan /\ toScan[s] \in SUBSET Networks /\ scanning
    BY <1>8 DEF Scanner!ScanAnswer
  <2>2. \A q \in Scans : q # s => scanWaits[q] = None
    BY <2>1
  <2>3. CASE toScan[s] = {}
    <3>1. /\ scanWaits' = [scanWaits EXCEPT ![s] = None] /\ toScan' = [toScan EXCEPT ![s] = None]
          /\ ~scanning' /\ scanResults' \subseteq {s}
          /\ UNCHANGED <<ranges, selected, rangeLoads, rangeEdit, removing, lastScan>>
      BY <1>8, <2>1, <2>3 DEF Scanner!ScanAnswer, Scanner!NextScan
    <3>2. /\ scanWaits' \in [Scans -> Networks \cup {None}]
          /\ toScan' \in [Scans -> (SUBSET Networks) \cup {None}]
      BY <3>1
    <3>3. \A q \in Scans : scanWaits'[q] = None
      BY <2>2, <3>1
    <3>4. scanning' \in BOOLEAN
      BY <1>8, <2>3 DEF Scanner!ScanAnswer, Scanner!NextScan
    <3> QED BY <2>1, <3>1, <3>2, <3>3, <3>4
  <2>4. CASE toScan[s] # {}
    <3>1. PICK n \in toScan[s] : /\ scanWaits' = [scanWaits EXCEPT ![s] = n]
                                 /\ toScan' = [toScan EXCEPT ![s] = @ \ {n}]
      BY <1>8, <2>4 DEF Scanner!ScanAnswer, Scanner!NextScan
    <3>2. n \in Networks /\ n # None
      BY <2>1
    <3>3. /\ UNCHANGED <<ranges, selected, rangeLoads, rangeEdit, removing, lastScan, scanning>>
          /\ scanResults' \subseteq {s}
      BY <1>8, <2>1, <2>4 DEF Scanner!ScanAnswer, Scanner!NextScan
    <3>4. toScan[s] \ {n} \in SUBSET Networks
      BY <2>1
    <3>5. /\ scanWaits'[s] = n /\ toScan'[s] = toScan[s] \ {n}
          /\ \A q \in Scans : q # s => scanWaits'[q] = None
      BY <2>2, <3>1
    <3>6. /\ scanWaits' \in [Scans -> Networks \cup {None}]
          /\ toScan' \in [Scans -> (SUBSET Networks) \cup {None}]
      BY <3>1, <3>2, <3>4
    <3>7. Scanner!TypeOK'
      BY <2>1, <3>3, <3>6
    <3>8. \A q \in Scans : scanWaits'[q] # None => q = s
      BY <3>5
    <3>9. scanning' /\ lastScan' = s
      BY <2>1, <3>3
    <3>10. toScan'[s] \in SUBSET Networks
      BY <3>4, <3>5
    <3>11. \E q \in Scans : scanWaits'[q] # None
      BY <3>2, <3>5
    <3> HIDE DEF Scanner!TypeOK
    <3> QED BY <3>3, <3>7, <3>8, <3>9, <3>10, <3>11
  <2> QED BY <2>3, <2>4
<1> QED BY <1>1, <1>2, <1>3, <1>4, <1>5, <1>6, <1>7, <1>8 DEF Scanner!Next, Scanner!Scanning

LEMMA ReloadStep ==
    [Next]_dashboardVars =>
      [ ranges' # ranges =>
            IF selected = {} THEN selected' = ranges'
            ELSE /\ selected' \subseteq selected
                 /\ selected \cap ranges' \subseteq selected' ]_Scanner!scanVars
<1> SUFFICES ASSUME Scanner!Next, ranges' # ranges
             PROVE  IF selected = {} THEN selected' = ranges'
                    ELSE selected' \subseteq selected /\ selected \cap ranges' \subseteq selected'
  BY ScannerPart DEF scanVars, Scanner!scanVars
<1>1. \/ \E r \in Requests : Scanner!LoadFails(r)
      \/ \E r \in Requests, list \in SUBSET Networks : Scanner!LoadArrives(r, list)
  BY DEF Scanner!Next, Scanner!Refresh, Scanner!AddAnswered, Scanner!Tick, Scanner!Add,
         Scanner!Remove, Scanner!RemoveAnswered, Scanner!RemoveFails,
         Scanner!AddFails, Scanner!StartScan, Scanner!Scanning, Scanner!ScanAnswer
<1> QED BY <1>1 DEF Scanner!LoadFails, Scanner!LoadArrives, Scanner!SelectionOf

\* "Select all" does as its label says.  While anything is chosen, a list that is
\* loaded again keeps of the choice what it holds and adds nothing; while nothing is,
\* it selects all it holds.
THEOREM ChoicesStayKept == Spec => ChoicesAreKept
<1>1. Init => TableInv
  BY TableInit DEF Init
<1>2. Spec => Table!SelectAllDoesAsItSays
  BY <1>1, TableStep, SelectAllStep, PTL DEF Spec, Table!SelectAllDoesAsItSays
<1>3. Spec => Scanner!ReloadKeepsChoice
  BY ReloadStep, PTL DEF Spec, Scanner!ReloadKeepsChoice
<1> QED BY <1>2, <1>3 DEF ChoicesAreKept
=============================================================================

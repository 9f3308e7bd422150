---------------------------- MODULE SettingsPage ----------------------------
(***************************************************************************)
(* The settings: the form of web/js/dashboard/views/settings.js and the    *)
(* handler of /api/settings (internal/server/http.go).  The form can be    *)
(* edited and submitted before it has been filled, while a save or another *)
(* load is under way, and after the load failed; and the settings may be   *)
(* stored from elsewhere.                                                  *)
(*                                                                         *)
(* The fields other than the password are one value, since all of them are *)
(* read, shown and sent together; "default" is what an empty instance and  *)
(* a form without an answer have in them.  The status line and the note on *)
(* a stored password are wording, and left out.                            *)
(***************************************************************************)
EXTENDS PageValues

VARIABLES
    stored,         \* the settings of the server
    form,           \* the fields of the page
    formEdited,     \* history: the user changed a field since the form was filled
    formOf,         \* history: the answer it was filled from; None if that was the
                    \* defaults, or it was edited
    passwordAsked,  \* history: the user touched the password fields since then
    settingsLoad,   \* the GET under way: Waiting, or what it read; None if there is none
    settingsSave,   \* the PUT under way, with what it answers; None if there is none
    standalone      \* state.standaloneInitialised

settingsVars == <<stored, form, formEdited, formOf, passwordAsked, settingsLoad, settingsSave,
                  standalone>>

Fields == {"default", "edited"}
Passwords == {"", "secret"}
\* currentSettings: all but the password, which never leaves the server.
\* old is history: settings were stored after the server had read these.
Answer == [fields : Fields, old : BOOLEAN]
Payload == [fields : Fields, password : Passwords \cup {"kept"}, answer : Answer \cup {None},
            edited : BOOLEAN, loaded : Answer \cup {None}]

TypeOK ==
    /\ stored \in [fields : Fields, password : Passwords]
    /\ form \in [fields : Fields, password : Passwords, clear : BOOLEAN]
    /\ formOf \in Answer \cup {None}
    /\ {formEdited, passwordAsked, standalone} \subseteq BOOLEAN
    /\ settingsLoad \in Answer \cup {None, Waiting}
    /\ settingsSave \in Payload \cup {None}

\* What the proofs need of the constants.
NoneIsNoAnswer == None \notin Answer

CurrentSettings(s) == [fields |-> s.fields, old |-> FALSE]
Defaults == "default"

Aged(answer) == IF answer = None THEN None ELSE [answer EXCEPT !.old = TRUE]

\* What the page has, or is about to get, was read before this.
Overtaken ==
    /\ formOf' = Aged(formOf)
    /\ settingsLoad' = IF settingsLoad = Waiting THEN Waiting ELSE Aged(settingsLoad)

\* The form as the page is delivered, and the load that init begins.
Init ==
    /\ stored \in [fields : Fields, password : Passwords]
    /\ form = [fields |-> "default", password |-> "", clear |-> FALSE]
    /\ formOf = None
    /\ formEdited = FALSE /\ passwordAsked = FALSE
    /\ settingsLoad = Waiting
    /\ settingsSave = None
    /\ standalone = FALSE

-----------------------------------------------------------------------------
(* The form *)

EditFields ==
    /\ \E f \in Fields : form' = [form EXCEPT !.fields = f]
    /\ formEdited' = TRUE /\ formOf' = None
    /\ UNCHANGED <<stored, passwordAsked, settingsLoad, settingsSave, standalone>>

EditPassword ==
    /\ \E p \in Passwords, c \in BOOLEAN : form' = [form EXCEPT !.password = p, !.clear = c]
    /\ passwordAsked' = TRUE
    /\ UNCHANGED <<stored, formOf, formEdited, settingsLoad, settingsSave, standalone>>

\* populateForm: the password is emptied and "clear" unticked.
\* Mutant: the tick is left.
PopulateKeepsTick(fields, answer) ==
    /\ form' = [fields |-> fields, password |-> "", clear |-> form.clear]
    /\ formOf' = answer
    /\ formEdited' = FALSE /\ passwordAsked' = FALSE

PopulateForm(fields, answer) ==
    /\ form' = [fields |-> fields, password |-> "", clear |-> FALSE]
    /\ formOf' = answer
    /\ formEdited' = FALSE /\ passwordAsked' = FALSE

-----------------------------------------------------------------------------
(* loadSettings, handleSubmit, and the two methods of the handler *)

\* Once init has ended, initStandalone loads once more.
LoadAgain ==
    /\ settingsLoad = None /\ ~standalone
    /\ settingsLoad' = Waiting /\ standalone' = TRUE
    /\ UNCHANGED <<stored, form, formOf, formEdited, passwordAsked, settingsSave>>

ServerReads ==
    /\ settingsLoad = Waiting
    /\ settingsLoad' = CurrentSettings(stored)
    /\ UNCHANGED <<stored, form, formOf, formEdited, passwordAsked, settingsSave, standalone>>

LoadArrives ==
    /\ settingsLoad \notin {None, Waiting}
    /\ PopulateForm(settingsLoad.fields, settingsLoad)
    /\ settingsLoad' = None
    /\ UNCHANGED <<stored, settingsSave, standalone>>

LoadFails ==
    /\ settingsLoad # None
    /\ PopulateForm(Defaults, None)
    /\ settingsLoad' = None
    /\ UNCHANGED <<stored, settingsSave, standalone>>

\* The password goes along only if it was typed, or is to be cleared.
Submit ==
    /\ settingsSave = None
    /\ settingsSave' = [fields |-> form.fields,
                        password |-> IF form.clear THEN ""
                                     ELSE IF form.password # "" THEN form.password ELSE "kept",
                        answer |-> None, edited |-> formEdited, loaded |-> formOf]
    /\ UNCHANGED <<stored, form, formOf, formEdited, passwordAsked, settingsLoad, standalone>>

\* The handler of PUT stores all of it and answers with what it then reads.
ServerSaves ==
    /\ settingsSave # None
    /\ settingsSave.answer = None
    /\ stored' = [fields |-> settingsSave.fields,
                  password |-> IF settingsSave.password = "kept" THEN stored.password
                               ELSE settingsSave.password]
    /\ settingsSave' = [settingsSave EXCEPT !.answer = CurrentSettings(stored')]
    /\ Overtaken
    /\ UNCHANGED <<form, formEdited, passwordAsked, standalone>>

\* Another page, or another client of the API, stores settings.
StoredElsewhere ==
    /\ \E f \in Fields, p \in Passwords : stored' = [fields |-> f, password |-> p]
    /\ Overtaken
    /\ settingsSave' = IF settingsSave = None THEN None
                       ELSE [settingsSave EXCEPT !.loaded = Aged(@), !.answer = Aged(@)]
    /\ UNCHANGED <<form, formEdited, passwordAsked, standalone>>

SaveArrives ==
    /\ settingsSave # None
    /\ settingsSave.answer # None
    /\ PopulateForm(settingsSave.answer.fields, settingsSave.answer)
    /\ settingsSave' = None
    /\ UNCHANGED <<stored, settingsLoad, standalone>>

SaveFails ==
    /\ settingsSave # None
    /\ settingsSave' = None
    /\ UNCHANGED <<stored, form, formOf, formEdited, passwordAsked, settingsLoad, standalone>>

Next ==
    \/ EditFields \/ EditPassword
    \/ LoadAgain \/ ServerReads \/ LoadArrives \/ LoadFails
    \/ Submit \/ ServerSaves \/ SaveArrives \/ SaveFails
    \/ StoredElsewhere

Spec == Init /\ [][Next]_settingsVars

-----------------------------------------------------------------------------
(* Properties *)

\* A save sends a password, or clears it, only if the user asked for that since
\* the form was last filled: a second save never repeats the wish of the first.
PasswordIsAsked == form.password # "" \/ form.clear => passwordAsked

\* A save of a form that was not edited since it was filled sends the answer it was
\* filled from, the last that had come; and that is what is stored, so that the save
\* changes nothing, unless settings were stored after the server read it.  If no
\* answer had come, or a load failed last, it sends the defaults, whatever is stored.
UneditedIsKept ==
    settingsSave # None =>
        (~settingsSave.edited =>
            IF settingsSave.loaded = None THEN settingsSave.fields = Defaults
            ELSE /\ settingsSave.fields = settingsSave.loaded.fields
                 /\ ~settingsSave.loaded.old => settingsSave.fields = stored.fields)
=============================================================================

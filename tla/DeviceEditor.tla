---------------------------- MODULE DeviceEditor ----------------------------
(***************************************************************************)
(* The device editor: web/js/dashboard/device-interactions.js.  It has one *)
(* overlay and one state for all devices; the overlay covers the page, so  *)
(* that a device is opened only while it is closed, but nothing cancels    *)
(* what an earlier opening started: its answers still fill the form, or    *)
(* close the overlay.  The buttons are outside of what a load hides.       *)
(*                                                                         *)
(* The contents of a form are the device they were filled from.  The edits *)
(* of the user, and what the server answers to them, are left out.         *)
(***************************************************************************)
EXTENDS PageValues

VARIABLES
    edit,       \* the overlay: editState and what the page shows of it
    editLoads,  \* the load (of) behind each request, and what it waits for (at)
    editSave,   \* the PUT under way: the device it goes to, and the form sent
    editCheck,  \* isValidating
    editLately  \* history: what was opened since no load ran

editVars == <<edit, editLoads, editSave, editCheck, editLately>>

DeviceOrNone == Devices \cup {None}

NoLoad == [of |-> None, at |-> "idle"]
Loading(r) == editLoads[r] # NoLoad

TypeOK ==
    /\ edit \in [device : DeviceOrNone, step : {"config", "validation"}, config : DeviceOrNone,
                 form : DeviceOrNone, loading : BOOLEAN]
    /\ editLoads \in [Requests -> [of : DeviceOrNone, at : {"idle", "device", "template"}]]
    /\ editSave \in [to : Devices, form : DeviceOrNone] \cup {None}
    /\ editCheck \in BOOLEAN
    /\ editLately \subseteq DeviceOrNone

Init ==
    /\ edit = [device |-> None, step |-> "config", config |-> None, form |-> None,
               loading |-> FALSE]
    /\ editLoads = [r \in Requests |-> NoLoad]
    /\ editSave = None
    /\ editCheck = FALSE /\ editLately = {}

\* closeEditOverlay: what the form holds, and whether it is hidden, stay.
Closed == [edit EXCEPT !.device = None, !.step = "config", !.config = None]

\* renderEditForm, from whatever deviceConfig is by now, and showEditLoading(false).
Rendered(e) == [e EXCEPT !.form = e.config, !.loading = FALSE]

\* None stands for the blank form that a load draws whose device was forgotten when
\* the overlay was closed.
OpenedLately(d) ==
    IF \E r \in Requests : Loading(r) THEN editLately \cup {d, None} ELSE {d}

\* Mutant: the form is left in view while the device is loaded.
OpenDeviceEditInView(d, r) ==
    /\ edit.device = None /\ ~Loading(r)
    /\ edit' = [edit EXCEPT !.device = d, !.step = "config"]
    /\ editLoads' = [editLoads EXCEPT ![r] = [of |-> d, at |-> "device"]]
    /\ editLately' = OpenedLately(d)
    /\ UNCHANGED <<editSave, editCheck>>

OpenDeviceEdit(d, r) ==
    /\ edit.device = None /\ ~Loading(r)
    /\ edit' = [edit EXCEPT !.device = d, !.step = "config", !.loading = TRUE]
    /\ editLoads' = [editLoads EXCEPT ![r] = [of |-> d, at |-> "device"]]
    /\ editLately' = OpenedLately(d)
    /\ UNCHANGED <<editSave, editCheck>>

CloseEditOverlay ==
    /\ edit.device # None
    /\ edit' = Closed
    /\ UNCHANGED <<editLoads, editSave, editCheck, editLately>>

\* loadDeviceForEdit, its first answer: the form is drawn now, or after the
\* device's template has been asked for.
DeviceArrives(r) ==
    /\ editLoads[r].at = "device"
    /\ LET answered == [edit EXCEPT !.config = editLoads[r].of] IN
       \/ /\ edit' = Rendered(answered)
          /\ editLoads' = [editLoads EXCEPT ![r] = NoLoad]
       \/ /\ edit' = answered
          /\ editLoads' = [editLoads EXCEPT ![r].at = "template"]
    /\ UNCHANGED <<editSave, editCheck, editLately>>

TemplateArrives(r) ==
    /\ editLoads[r].at = "template"
    /\ edit' = Rendered(edit)
    /\ editLoads' = [editLoads EXCEPT ![r] = NoLoad]
    /\ UNCHANGED <<editSave, editCheck, editLately>>

\* A request of a load fails: whichever device is open is closed.
\* Mutant: there is only the message.
LoadFailsOpen(r) ==
    /\ Loading(r)
    /\ editLoads' = [editLoads EXCEPT ![r] = NoLoad]
    /\ UNCHANGED <<edit, editSave, editCheck, editLately>>

LoadFails(r) ==
    /\ Loading(r)
    /\ edit' = Closed
    /\ editLoads' = [editLoads EXCEPT ![r] = NoLoad]
    /\ UNCHANGED <<editSave, editCheck, editLately>>

\* validateDevice shows the second step at once; its answer only fills the results.
ValidateDevice ==
    /\ edit.device # None /\ edit.step = "config" /\ ~editCheck
    /\ edit' = [edit EXCEPT !.step = "validation"]
    /\ editCheck' = TRUE
    /\ UNCHANGED <<editLoads, editSave, editLately>>

ValidationEnds ==
    /\ editCheck
    /\ editCheck' = FALSE
    /\ UNCHANGED <<edit, editLoads, editSave, editLately>>

Back ==
    /\ edit.step = "validation"
    /\ edit' = [edit EXCEPT !.step = "config"]
    /\ UNCHANGED <<editLoads, editSave, editCheck, editLately>>

\* saveDevice: collectFormData reads the form whether it is shown or not.
SaveDevice ==
    /\ edit.step = "validation" /\ editSave = None
    /\ editSave' = [to |-> edit.device, form |-> edit.form]
    /\ UNCHANGED <<edit, editLoads, editCheck, editLately>>

\* A save that succeeds closes whichever device is open by then.
SaveEnds ==
    /\ editSave # None
    /\ editSave' = None
    /\ edit' \in {Closed, edit}
    /\ UNCHANGED <<editLoads, editCheck, editLately>>

Next ==
    \/ \E r \in Requests : \/ \E d \in Devices : OpenDeviceEdit(d, r)
                           \/ DeviceArrives(r) \/ TemplateArrives(r) \/ LoadFails(r)
    \/ CloseEditOverlay \/ ValidateDevice \/ ValidationEnds \/ Back \/ SaveDevice \/ SaveEnds

Spec == Init /\ [][Next]_editVars

-----------------------------------------------------------------------------
(* Properties *)

\* An overlay that says it is loading has a load of its device under way,
\* whatever answers of earlier openings arrived: it never says so for ever.
LoadingEnds ==
    edit.device # None /\ edit.loading => \E r \in Requests : editLoads[r].of = edit.device

\* Whatever answers arrive, the form in view is of a device that was opened since no
\* load ran - the device that Save would overwrite, if it was the only one - or, if
\* a device was opened before the loads of another had ended, it may be blank.
FormIsOfOpened ==
    edit.device # None =>
        /\ edit.device \in editLately
        /\ ~edit.loading => edit.form \in editLately
=============================================================================

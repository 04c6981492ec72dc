---------------------------- MODULE CheckInForm ----------------------------
(***************************************************************************)
(* The check-in wizard of the client: components/VisitForm.tsx, its four   *)
(* steps, PhotoCapture.tsx and the requests they await.  The operator may  *)
(* go back and type another document while a lookup, a submission or the   *)
(* reader of a photo file is under way.                                    *)
(*                                                                         *)
(* Personal data is a value and the document it was typed or loaded for;   *)
(* a photo, which stands for the two of the form, is the document it shows *)
(* and whether it was taken here or is the stored one; the consent is the  *)
(* document it was given for.                                              *)
(***************************************************************************)
EXTENDS Naturals

CONSTANTS
  Doc,          \* documents of visitors
  Value,        \* values of personal data
  Submission,   \* submissions in progress at a time
  None          \* no document, no value, nothing typed

ASSUME FormAssumption == None \notin Doc /\ None \notin Value

VARIABLES
  cedula,      \* the document in the form, None while it is not valid
  step,        \* currentStep
  form,        \* formData, originalVisitorData and editPassword
  loading,     \* whether the buttons that submit are disabled
  lookups,     \* lookups in progress; those of an old lookupVersion are stale
  sub,         \* sub[i]: a submission, with the data it was clicked with
  photo,       \* the camera, and the file being read
  stored,      \* stored[d]: the visitor as the server has it, or None
  open         \* documents with an open visit

vars == <<cedula, step, form, loading, lookups, sub, photo, stored, open>>

Data == [of : Doc, value : Value] \cup {None}
Picture == [of : Doc, taken : BOOLEAN]
Part == {"data", "photo"}
Lookup == [doc : Doc, kind : {"search", "previous"}, fresh : BOOLEAN]
Empty == [data |-> None, original |-> None, password |-> FALSE, photo |-> None,
          vehicle |-> TRUE, details |-> FALSE, consent |-> None]
Over == [phase |-> "over", doc |-> None, form |-> Empty, unsaved |-> {}]
NoPhoto == [camera |-> "off", reader |-> None]

(* A URL of the server, or a picture as data. *)
StoredPhoto(d) == [of |-> d, taken |-> FALSE]
TakenPhoto(d) == [of |-> d, taken |-> TRUE]

FormType == [data : Data, original : Value \cup {None}, password : BOOLEAN, photo : Picture \cup {None},
             vehicle : BOOLEAN, details : BOOLEAN, consent : Doc \cup {None}]

TypeOK ==
  /\ cedula \in Doc \cup {None}
  /\ step \in 1..4
  /\ form \in FormType
  /\ loading \in BOOLEAN
  /\ lookups \subseteq Lookup
  /\ sub \in [Submission -> [phase : {"over", "update", "checkin"}, doc : Doc \cup {None},
                             form : FormType, unsaved : SUBSET Part]]
  /\ photo \in [camera : {"off", "live", "counting"}, reader : Doc \cup {None}]
  /\ stored \in [Doc -> Value \cup {None}]
  /\ open \subseteq Doc

(* The form is empty; the server may know any of the visitors. *)
Init ==
  /\ cedula = None
  /\ step = 1
  /\ form = Empty
  /\ loading = FALSE
  /\ lookups = {}
  /\ sub = [i \in Submission |-> Over]
  /\ photo = NoPhoto
  /\ stored \in [Doc -> Value \cup {None}]
  /\ open = {}

Server == <<stored, open>>

-----------------------------------------------------------------------------
(* Step 1: the document and its lookup.                                    *)

(* lookupVersion++: what is under way is stale from now on. *)
Outdated == {[l EXCEPT !.fresh = FALSE] : l \in lookups}

(* Variant: the spinner of a lookup that is given up stays. *)
SpinnerStays == loading

(* handleCedulaChange stops the spinner. *)
SpinnerAfterChange == FALSE

(* handleCedulaChange: another document starts with an empty form. *)
TypeCedula(d) ==
  /\ step = 1
  /\ d # cedula
  /\ cedula' = d
  /\ form' = Empty
  /\ lookups' = Outdated
  /\ loading' = SpinnerAfterChange
  /\ UNCHANGED <<step, sub, photo, Server>>

(* The search of a blurred field, the button, and that of the previous     *)
(* visit.  Only the first of them looks at loading, and blur does not.     *)
Search(k) ==
  /\ step = 1
  /\ cedula # None
  /\ lookups' = Outdated \cup {[doc |-> cedula, kind |-> k, fresh |-> TRUE]}
  /\ loading' = TRUE
  /\ UNCHANGED <<cedula, step, form, sub, photo, Server>>

(* Variant: an answer is taken whatever the form asks for now. *)
TakenAnyway(l) == TRUE

(* An answer counts for the lookup of the present version only. *)
Taken(l) == l.fresh

(* handleSearch has its answer: the stored visitor, with the details of    *)
(* the last visit if there is one, nobody, or an error.                    *)
Found(l, history) ==
  /\ stored[l.doc] # None
  /\ form' = [form EXCEPT
       !.data = IF l.kind = "search" THEN [of |-> l.doc, value |-> stored[l.doc]] ELSE @,
       !.original = IF l.kind = "search" THEN stored[l.doc] ELSE @,
       !.photo = IF l.kind = "search" THEN StoredPhoto(l.doc) ELSE @,
       !.vehicle = @ \/ history, !.details = @ \/ history]

LookupAnswered(l) ==
  /\ l \in lookups
  /\ lookups' = lookups \ {l}
  /\ IF Taken(l)
     THEN /\ loading' = FALSE
          /\ \/ \E history \in BOOLEAN : Found(l, history)
             \/ UNCHANGED form
     ELSE UNCHANGED <<form, loading>>
  /\ UNCHANGED <<cedula, step, sub, photo, Server>>

-----------------------------------------------------------------------------
(* The fields of the steps.                                                *)

(* Names in step 1 and the company in step 2. *)
TypeData(v) ==
  /\ step \in {1, 2}
  /\ cedula # None
  /\ form.data # [of |-> cedula, value |-> v]
  /\ form' = [form EXCEPT !.data = [of |-> cedula, value |-> v]]
  /\ UNCHANGED <<cedula, step, loading, lookups, sub, photo, Server>>

(* The vehicle in step 3: all of it, or none of it. *)
TypeVehicle ==
  /\ step = 3
  /\ form' = [form EXCEPT !.vehicle = ~@]
  /\ UNCHANGED <<cedula, step, loading, lookups, sub, photo, Server>>

(* hasVisitorDataChanged: what differs of a loaded visitor from what was   *)
(* loaded; a photo taken again differs, whomever it shows.                 *)
Changes(f, d) ==
  IF f.original = None THEN {}
  ELSE {p \in Part : IF p = "data" THEN f.data # [of |-> d, value |-> f.original]
                                   ELSE f.photo # StoredPhoto(d)}

(* Department, host and reason, the consent, and the password that a       *)
(* changed visitor asks for, in step 4.                                    *)
TypeDetails ==
  /\ step = 4
  /\ \/ form' = [form EXCEPT !.details = TRUE]
     \/ form' = [form EXCEPT !.consent = IF @ = None THEN cedula ELSE None]
     \/ Changes(form, cedula) # {} /\ form' = [form EXCEPT !.password = TRUE]
  /\ UNCHANGED <<cedula, step, loading, lookups, sub, photo, Server>>

(* canProceedStep1 to canProceedStep3. *)
CanProceed ==
  CASE step \in {1, 2} -> cedula # None /\ form.data # None
    [] step = 3 -> form.vehicle
    [] OTHER -> FALSE

(* A step left closes its camera. *)
GoTo(s) ==
  /\ step' = s
  /\ photo' = [photo EXCEPT !.camera = "off"]
  /\ UNCHANGED <<cedula, form, loading, lookups, sub, Server>>

NextStep == CanProceed /\ GoTo(step + 1)
PreviousStep == step > 1 /\ GoTo(step - 1)

-----------------------------------------------------------------------------
(* PhotoCapture, in step 4.                                                *)

(* The buttons of the views: start, count down, stop, take again. *)
Camera ==
  /\ step = 4
  /\ \/ photo.camera = "off" /\ form.photo = None /\ photo' = [photo EXCEPT !.camera = "live"] /\ UNCHANGED form
     \/ photo.camera = "live" /\ photo' = [photo EXCEPT !.camera = "counting"] /\ UNCHANGED form
     \/ photo.camera # "off" /\ photo' = [photo EXCEPT !.camera = "off"] /\ UNCHANGED form
     \/ /\ photo.camera = "off" /\ form.photo # None
        /\ photo' = [photo EXCEPT !.camera = "live"]
        /\ form' = [form EXCEPT !.photo = None]
  /\ UNCHANGED <<cedula, step, loading, lookups, sub, Server>>

(* The count is over: the picture, unless validateImage refuses it. *)
Capture ==
  /\ photo.camera = "counting"
  /\ \/ photo' = [photo EXCEPT !.camera = "off"] /\ form' = [form EXCEPT !.photo = TakenPhoto(cedula)]
     \/ photo' = [photo EXCEPT !.camera = "live"] /\ UNCHANGED form
  /\ UNCHANGED <<cedula, step, loading, lookups, sub, Server>>

(* A file is chosen, and is read in the time that takes: its picture goes  *)
(* into the form of that moment.                                           *)
ChooseFile ==
  /\ step = 4
  /\ photo.camera = "off"
  /\ form.photo = None
  /\ photo.reader = None
  /\ photo' = [photo EXCEPT !.reader = cedula]
  /\ UNCHANGED <<cedula, step, form, loading, lookups, sub, Server>>

FileRead ==
  /\ photo.reader # None
  /\ photo' = [photo EXCEPT !.reader = None]
  /\ form' \in {form, [form EXCEPT !.photo = TakenPhoto(photo.reader)]}
  /\ UNCHANGED <<cedula, step, loading, lookups, sub, Server>>

-----------------------------------------------------------------------------
(* Submission.                                                             *)

CanSubmit ==
  /\ cedula # None /\ form.data # None
  /\ form.vehicle /\ form.details
  /\ form.consent # None

(* The catch of handleSubmit. *)
Caught ==
  /\ form' = [form EXCEPT !.password = FALSE]
  /\ loading' = FALSE

(* handleSubmit, from a button of step 4: a changed visitor is saved       *)
(* first, and without its password the form says so.                       *)
Submit(i) ==
  /\ step = 4
  /\ ~loading
  /\ CanSubmit
  /\ sub[i] = Over
  /\ LET unsaved == Changes(form, cedula) IN
     IF unsaved # {} /\ ~form.password
     THEN Caught /\ UNCHANGED sub
     ELSE /\ sub' = [sub EXCEPT ![i] = [phase |-> IF unsaved # {} THEN "update" ELSE "checkin",
                                        doc |-> cedula, form |-> form, unsaved |-> unsaved]]
          /\ loading' = TRUE
          /\ UNCHANGED form
  /\ UNCHANGED <<cedula, step, lookups, photo, Server>>

(* Variant: the check-in goes on after a failed update. *)
GoesOn(i) ==
  /\ sub' = [sub EXCEPT ![i].phase = "checkin"]
  /\ UNCHANGED <<form, loading>>

(* A failure ends the submission; the form stays. *)
Fails(i) ==
  /\ sub' = [sub EXCEPT ![i] = Over]
  /\ Caught

(* What the request carries: of the photos only those taken here, so that  *)
(* it does not say that one was removed.                                   *)
Carried(f) == IF f.photo # None /\ f.photo.taken THEN {"data", "photo"} ELSE {"data"}

(* PATCH /visitors is answered: saved, refused, or saved and not heard of. *)
UpdateAnswered(i) ==
  /\ sub[i].phase = "update"
  /\ \E saved, heard \in BOOLEAN :
       /\ stored' = IF saved /\ stored[sub[i].doc] # None
                    THEN [stored EXCEPT ![sub[i].doc] = sub[i].form.data.value] ELSE stored
       /\ IF saved /\ heard
          THEN /\ sub' = [sub EXCEPT ![i] =
                           [sub[i] EXCEPT !.phase = "checkin", !.unsaved = @ \ Carried(sub[i].form)]]
               /\ UNCHANGED <<form, loading>>
          ELSE Fails(i)
  /\ UNCHANGED <<cedula, step, lookups, photo, open>>

(* POST /visits is answered.  The form is cleared after a success, even if *)
(* another document is in it by now.                                       *)
CheckInAnswered(i) ==
  /\ sub[i].phase = "checkin"
  /\ \E admitted, heard \in BOOLEAN :
       /\ admitted => sub[i].doc \notin open
       /\ open' = IF admitted THEN open \cup {sub[i].doc} ELSE open
       /\ stored' = IF admitted /\ stored[sub[i].doc] = None
                    THEN [stored EXCEPT ![sub[i].doc] = sub[i].form.data.value] ELSE stored
       /\ IF admitted /\ heard
          THEN /\ sub' = [sub EXCEPT ![i] = Over]
               /\ cedula' = None /\ step' = 1 /\ form' = Empty /\ loading' = FALSE
               /\ lookups' = Outdated
               /\ photo' = [photo EXCEPT !.camera = "off"]
          ELSE Fails(i) /\ UNCHANGED <<cedula, step, lookups, photo>>

(* Other desks check visitors out and edit them. *)
Elsewhere ==
  \/ open # {} /\ open' = {} /\ UNCHANGED stored
  \/ \E d \in Doc, v \in Value : /\ stored[d] \notin {None, v}
                                 /\ stored' = [stored EXCEPT ![d] = v] /\ UNCHANGED open

Next ==
  \/ \E d \in Doc \cup {None} : TypeCedula(d)
  \/ \E k \in {"search", "previous"} : Search(k)
  \/ \E l \in lookups : LookupAnswered(l)
  \/ \E v \in Value : TypeData(v)
  \/ TypeVehicle \/ TypeDetails \/ NextStep \/ PreviousStep
  \/ Camera \/ Capture \/ ChooseFile \/ FileRead
  \/ \E i \in Submission : Submit(i) \/ UpdateAnswered(i) \/ CheckInAnswered(i)
  \/ Elsewhere /\ UNCHANGED <<cedula, step, form, loading, lookups, sub, photo>>

Spec == Init /\ [][Next]_vars

-----------------------------------------------------------------------------
(* Whatever answers come late, a check-in carries the person and the       *)
(* consent of the document it is for.  (The photo of a file that was read  *)
(* late may be another's.)                                                 *)
OwnData ==
  \A i \in Submission : sub[i] # Over =>
    /\ sub[i].form.data.of = sub[i].doc
    /\ sub[i].form.consent = sub[i].doc

(* A check-in never goes out with a change of the visitor that was not     *)
(* saved: neither an old answer nor a failed update lets one through.  A   *)
(* photo that was removed is the exception.                                *)
ChangesSaved ==
  \A i \in Submission : sub[i].phase = "checkin" =>
    sub[i].unsaved \subseteq (IF sub[i].form.photo = None THEN {"photo"} ELSE {})

(* VisitForm.stabilization.test.tsx:41 "does not silently register unsaved *)
(* changes", of no change at all.  A removed photo is one that it does.    *)
NoUnsavedChanges == \A i \in Submission : sub[i].phase = "checkin" => sub[i].unsaved = {}

(* The form is disabled only while an answer it waits for is on its way:   *)
(* a lookup that was given up leaves no spinner behind.                    *)
SpinnerHasCause ==
  loading => (\E l \in lookups : l.fresh) \/ (\E i \in Submission : sub[i] # Over)
=============================================================================

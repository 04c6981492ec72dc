----------------------------- MODULE ClientProofs -----------------------------
(***************************************************************************)
(* The safety of the web client, in three parts: the check-in wizard, the  *)
(* lists, dialogs and commands of the screens, and the session.  The three *)
(* components share no state; each part is about its own specification and *)
(* holds for any number of tabs, calls, submissions, answers and commands  *)
(* under way.                                                              *)
(***************************************************************************)
EXTENDS CheckInForm, Screens, ClientSession, TLAPS

-----------------------------------------------------------------------------
(***************************************************************************)
(* The check-in wizard: a check-in carries the data and the consent of its *)
(* own document, a change of data or a new photo is saved before it, and   *)
(* the form is disabled only while it waits for something.                 *)
(***************************************************************************)

(* What the form holds is about its document, the photo too unless it was  *)
(* taken here, and so is the answer that will be taken.                    *)
FormOwn ==
  /\ form.data # None => form.data.of = cedula
  /\ form.consent \in {None, cedula}
  /\ form.photo # None => form.photo.taken \/ form.photo = StoredPhoto(cedula)
  /\ step # 1 => cedula # None
  /\ photo.camera # "off" => step # 1
  /\ \A l \in lookups : l.fresh => l.doc = cedula

(* A submission under way was clicked with complete data of its document;  *)
(* its photo was changed only if it was taken again or removed.            *)
Submitted(i) ==
  /\ sub[i].phase \in {"update", "checkin"}
  /\ sub[i].doc \in Doc
  /\ sub[i].form.data \in [of : Doc, value : Value]
  /\ sub[i].form.data.of = sub[i].doc
  /\ sub[i].form.consent = sub[i].doc
  /\ "photo" \in sub[i].unsaved => sub[i].form.photo = None \/ sub[i].form.photo.taken

SubsOwn == \A i \in Submission : sub[i] = Over \/ Submitted(i)

FormInv == TypeOK /\ FormOwn /\ SubsOwn /\ ChangesSaved /\ SpinnerHasCause

-----------------------------------------------------------------------------
LEMMA EmptyType == Empty \in FormType
BY DEF Empty, FormType, Data

(* What TypeOK says of a submission. *)
SubType == [phase : {"over", "update", "checkin"}, doc : Doc \cup {None},
            form : FormType, unsaved : SUBSET Part]

LEMMA OverType == Over \in SubType /\ Over.phase = "over"
BY EmptyType DEF Over, SubType

LEMMA SubTyped ==
  ASSUME TypeOK
  PROVE  sub \in [Submission -> SubType]
BY DEF TypeOK, SubType

(* A submission replaced by another leaves the rest alone. *)
LEMMA SubReplaced ==
  ASSUME TypeOK, NEW i \in Submission, NEW x \in SubType, sub' = [sub EXCEPT ![i] = x]
  PROVE  sub' \in [Submission -> SubType] /\ sub'[i] = x /\ \A j \in Submission \ {i} : sub'[j] = sub[j]
BY SubTyped

LEMMA InitInv == Init => FormInv
<1> SUFFICES ASSUME Init PROVE FormInv
  OBVIOUS
<1>1. TypeOK
  <2>1. sub \in [Submission -> SubType]
    BY OverType DEF Init
  <2>2. photo \in [camera : {"off", "live", "counting"}, reader : Doc \cup {None}]
    BY DEF Init, NoPhoto
  <2>3. form \in FormType
    BY EmptyType DEF Init
  <2>4. /\ cedula \in Doc \cup {None} /\ step \in 1..4
        /\ lookups \subseteq Lookup /\ stored \in [Doc -> Value \cup {None}] /\ open \subseteq Doc
    BY DEF Init
  <2>5. loading \in BOOLEAN
    BY Zenon DEF Init
  <2> QED BY <2>1, <2>2, <2>3, <2>4, <2>5 DEF TypeOK, SubType
<1>2. FormOwn
  BY DEF Init, FormOwn, Empty, NoPhoto
<1>3. SubsOwn /\ ChangesSaved /\ SpinnerHasCause
  BY OverType DEF Init, SubsOwn, ChangesSaved, SpinnerHasCause
<1> QED BY <1>1, <1>2, <1>3 DEF FormInv

(* A lookup that is given up keeps its document and its kind. *)
LEMMA OutdatedStale ==
  ASSUME lookups \subseteq Lookup
  PROVE  Outdated \subseteq Lookup /\ \A l \in Outdated : ~ l.fresh
BY DEF Outdated, Lookup

-----------------------------------------------------------------------------
(* Steps that leave the submissions alone. *)

LEMMA TypeCedulaStep ==
  ASSUME FormInv, NEW d \in Doc \cup {None}, TypeCedula(d)
  PROVE  FormInv'
<1> USE DEF FormInv
<1>1. TypeOK'
  BY OutdatedStale, EmptyType DEF TypeCedula, TypeOK, Server, SpinnerAfterChange
<1>2. FormOwn'
  BY OutdatedStale DEF TypeCedula, TypeOK, FormOwn, Empty
<1>3. SubsOwn' /\ ChangesSaved' /\ SpinnerHasCause'
  BY DEF TypeCedula, SubsOwn, Submitted, ChangesSaved, SpinnerHasCause, SpinnerAfterChange
<1> QED BY <1>1, <1>2, <1>3

LEMMA SearchStep ==
  ASSUME FormInv, NEW k \in {"search", "previous"}, Search(k)
  PROVE  FormInv'
<1> USE DEF FormInv
<1> DEFINE new == [doc |-> cedula, kind |-> k, fresh |-> TRUE]
<1>1. lookups' = Outdated \cup {new} /\ new \in Lookup /\ new.fresh
  BY DEF Search, TypeOK, Lookup
<1>2. TypeOK'
  BY <1>1, OutdatedStale DEF Search, TypeOK, Server
<1>3. FormOwn'
  BY <1>1, OutdatedStale DEF Search, TypeOK, FormOwn
<1>4. SubsOwn' /\ ChangesSaved' /\ SpinnerHasCause'
  BY <1>1 DEF Search, SubsOwn, Submitted, ChangesSaved, SpinnerHasCause
<1> QED BY <1>2, <1>3, <1>4

LEMMA LookupStep ==
  ASSUME FormInv, NEW l \in lookups, LookupAnswered(l)
  PROVE  FormInv'
<1> USE DEF FormInv
<1>1. CASE ~ l.fresh
  <2>1. form' = form /\ loading' = loading /\ lookups' = lookups \ {l}
    BY <1>1 DEF LookupAnswered, Taken
  <2>2. TypeOK' /\ FormOwn'
    BY <2>1 DEF LookupAnswered, TypeOK, FormOwn, Server
  <2>3. SubsOwn' /\ ChangesSaved' /\ SpinnerHasCause'
    BY <1>1, <2>1 DEF LookupAnswered, SubsOwn, Submitted, ChangesSaved, SpinnerHasCause
  <2> QED BY <2>2, <2>3
<1>2. CASE l.fresh
  <2>1. loading' = FALSE /\ l.doc = cedula /\ l \in Lookup
    BY <1>2 DEF LookupAnswered, Taken, FormOwn, TypeOK
  <2>2. /\ form' \in FormType /\ (form'.data # None => form'.data.of = cedula)
        /\ form'.consent = form.consent /\ form'.photo \in {form.photo, StoredPhoto(cedula)}
    <3>1. CASE UNCHANGED form
      BY <3>1 DEF TypeOK, FormOwn
    <3>2. ASSUME NEW history \in BOOLEAN, Found(l, history)
          PROVE  /\ form' \in FormType /\ (form'.data # None => form'.data.of = cedula)
                 /\ form'.consent = form.consent /\ form'.photo \in {form.photo, StoredPhoto(cedula)}
      <4>1. stored[l.doc] \in Value
        BY <2>1, <3>2 DEF Found, TypeOK, Lookup
      <4>2. CASE l.kind = "search"
        <5>1. form' = [form EXCEPT !.data = [of |-> l.doc, value |-> stored[l.doc]],
                                   !.original = stored[l.doc], !.photo = StoredPhoto(l.doc),
                                   !.vehicle = @ \/ history, !.details = @ \/ history]
          BY <3>2, <4>2 DEF Found
        <5>2. form \in FormType /\ l.doc \in Doc /\ StoredPhoto(l.doc) \in Picture
          BY <2>1 DEF TypeOK, Lookup, StoredPhoto, Picture
        <5>3. [of |-> l.doc, value |-> stored[l.doc]] \in Data
          BY <4>1, <5>2 DEF Data
        <5>4. (form.vehicle \/ history) \in BOOLEAN /\ (form.details \/ history) \in BOOLEAN
          OBVIOUS
        <5>5. form' \in FormType
          BY <4>1, <5>1, <5>2, <5>3, <5>4 DEF FormType
        <5>6. /\ form'.data = [of |-> l.doc, value |-> stored[l.doc]] /\ form'.consent = form.consent
              /\ form'.photo = StoredPhoto(l.doc)
          BY <5>1, <5>2 DEF FormType
        <5> QED BY <2>1, <5>5, <5>6
      <4>3. CASE l.kind # "search"
        <5>1. form' = [form EXCEPT !.data = @, !.original = @, !.photo = @,
                                   !.vehicle = @ \/ history, !.details = @ \/ history]
          BY <3>2, <4>3 DEF Found
        <5>2. form \in FormType
          BY DEF TypeOK
        <5>3. (form.vehicle \/ history) \in BOOLEAN /\ (form.details \/ history) \in BOOLEAN
          OBVIOUS
        <5>4. form' \in FormType
          BY <5>1, <5>2, <5>3 DEF FormType
        <5>5. form'.data = form.data /\ form'.consent = form.consent /\ form'.photo = form.photo
          BY <5>1, <5>2 DEF FormType
        <5> QED BY <5>4, <5>5 DEF FormOwn
      <4> QED BY <4>2, <4>3
    <3> QED BY <1>2, <3>1, <3>2 DEF LookupAnswered, Taken
  <2>3. TypeOK' /\ FormOwn'
    BY <2>1, <2>2 DEF LookupAnswered, TypeOK, FormOwn, Server
  <2>4. SubsOwn' /\ ChangesSaved' /\ SpinnerHasCause'
    BY <2>1 DEF LookupAnswered, SubsOwn, Submitted, ChangesSaved, SpinnerHasCause
  <2> QED BY <2>3, <2>4
<1> QED BY <1>1, <1>2 DEF TypeOK, Lookup

(* The fields, the steps and the camera keep the form its document's, the  *)
(* lookups and the submissions.                                            *)
LEMMA FieldStep ==
  ASSUME FormInv, form' \in FormType,
         form'.data # None => form'.data.of = cedula,
         form'.consent \in {None, cedula},
         form'.photo # None => form'.photo.taken \/ form'.photo = StoredPhoto(cedula),
         step' \in 1..4,
         step' # 1 => cedula # None,
         photo'.camera # "off" => step' # 1,
         photo' \in [camera : {"off", "live", "counting"}, reader : Doc \cup {None}],
         UNCHANGED <<cedula, loading, lookups, sub, Server>>
  PROVE  FormInv'
<1> USE DEF FormInv
<1>1. TypeOK'
  BY DEF TypeOK, Server
<1>2. FormOwn'
  BY DEF FormOwn
<1>3. SubsOwn' /\ ChangesSaved' /\ SpinnerHasCause'
  BY DEF SubsOwn, Submitted, ChangesSaved, SpinnerHasCause
<1> QED BY <1>1, <1>2, <1>3

LEMMA TypeDataStep ==
  ASSUME FormInv, NEW v \in Value, TypeData(v)
  PROVE  FormInv'
<1>1. cedula \in Doc /\ form \in FormType
  BY DEF FormInv, TypeOK, TypeData
<1>2. /\ form' \in FormType /\ form'.data = [of |-> cedula, value |-> v]
      /\ form'.consent = form.consent /\ form'.photo = form.photo
  BY <1>1 DEF TypeData, FormType, Data
<1> QED BY <1>1, <1>2, FieldStep DEF TypeData, FormInv, TypeOK, FormOwn

LEMMA TypeVehicleStep ==
  ASSUME FormInv, TypeVehicle
  PROVE  FormInv'
<1>1. /\ form' \in FormType /\ form'.data = form.data
      /\ form'.consent = form.consent /\ form'.photo = form.photo
  BY DEF FormInv, TypeOK, TypeVehicle, FormType
<1> QED BY <1>1, FieldStep DEF TypeVehicle, FormInv, TypeOK, FormOwn

LEMMA TypeDetailsStep ==
  ASSUME FormInv, TypeDetails
  PROVE  FormInv'
<1>1. form \in FormType /\ cedula \in Doc \cup {None}
  BY DEF FormInv, TypeOK
<1>2. /\ form' \in FormType /\ form'.data = form.data
      /\ form'.consent \in {form.consent, None, cedula} /\ form'.photo = form.photo
  BY <1>1 DEF TypeDetails, FormType
<1> QED BY <1>2, FieldStep DEF TypeDetails, FormInv, TypeOK, FormOwn

LEMMA GoToStep ==
  ASSUME FormInv, NextStep \/ PreviousStep
  PROVE  FormInv'
<1>1. step' \in 1..4
  <2>1. CASE NextStep
    BY <2>1 DEF FormInv, TypeOK, NextStep, CanProceed, GoTo
  <2>2. CASE PreviousStep
    BY <2>2 DEF FormInv, TypeOK, PreviousStep, GoTo
  <2> QED BY <2>1, <2>2
<1>2. UNCHANGED <<cedula, form, loading, lookups, sub, Server>>
  BY DEF NextStep, PreviousStep, GoTo
<1>3. photo' \in [camera : {"off", "live", "counting"}, reader : Doc \cup {None}]
  BY DEF FormInv, TypeOK, NextStep, PreviousStep, GoTo
<1>4. cedula # None /\ photo'.camera = "off"
  BY DEF FormInv, TypeOK, FormOwn, NextStep, PreviousStep, CanProceed, GoTo
<1> QED BY <1>1, <1>2, <1>3, <1>4, FieldStep DEF FormInv, TypeOK, FormOwn

LEMMA PhotoStep ==
  ASSUME FormInv, Camera \/ Capture \/ ChooseFile \/ FileRead
  PROVE  FormInv'
<1>1. /\ form \in FormType /\ cedula \in Doc \cup {None} /\ None \in Doc \cup {None}
      /\ photo \in [camera : {"off", "live", "counting"}, reader : Doc \cup {None}]
  BY DEF FormInv, TypeOK
<1>2. /\ UNCHANGED <<cedula, step, loading, lookups, sub, Server>>
      /\ form' \in {form, [form EXCEPT !.photo = None]} \cup {[form EXCEPT !.photo = TakenPhoto(d)] : d \in Doc}
      /\ photo' \in [camera : {"off", "live", "counting"}, reader : Doc \cup {None}]
  <2>1. CASE Camera
    BY <1>1, <2>1 DEF Camera
  <2>2. CASE Capture
    BY <1>1, <2>2 DEF Capture, FormInv, FormOwn
  <2>3. CASE ChooseFile
    BY <1>1, <2>3 DEF ChooseFile
  <2>4. CASE FileRead
    BY <1>1, <2>4 DEF FileRead
  <2> QED BY <2>1, <2>2, <2>3, <2>4
<1>3. /\ form' \in FormType /\ form'.data = form.data /\ form'.consent = form.consent
      /\ form'.photo # None => form'.photo = form.photo \/ form'.photo.taken
  <2>1. \A d \in Doc : TakenPhoto(d) \in Picture /\ TakenPhoto(d).taken
    BY DEF TakenPhoto, Picture
  <2> QED BY <1>1, <1>2, <2>1 DEF FormType
<1>4. photo'.camera # "off" => step # 1
  BY <1>1 DEF FormInv, FormOwn, Camera, Capture, ChooseFile, FileRead
<1> QED BY <1>2, <1>3, <1>4, FieldStep DEF FormInv, TypeOK, FormOwn

-----------------------------------------------------------------------------
(* Steps of submissions. *)

LEMMA SubmitStep ==
  ASSUME FormInv, NEW i \in Submission, Submit(i)
  PROVE  FormInv'
<1> USE DEF FormInv
<1> DEFINE unsaved == Changes(form, cedula)
           new == [phase |-> IF unsaved # {} THEN "update" ELSE "checkin",
                   doc |-> cedula, form |-> form, unsaved |-> unsaved]
<1>1. CASE unsaved # {} /\ ~ form.password
  <2>1. Caught /\ UNCHANGED <<cedula, step, lookups, sub, photo, Server>>
    BY <1>1 DEF Submit
  <2>2. /\ form' \in FormType /\ form'.data = form.data /\ form'.consent = form.consent
        /\ form'.photo = form.photo /\ loading' = FALSE
    BY <2>1 DEF Caught, TypeOK, FormType
  <2> QED BY <2>1, <2>2 DEF TypeOK, Server, FormOwn, SubsOwn, Submitted, ChangesSaved, SpinnerHasCause
<1>2. CASE ~ (unsaved # {} /\ ~ form.password)
  <2>1. /\ sub' = [sub EXCEPT ![i] = new] /\ loading' = TRUE
        /\ UNCHANGED <<cedula, step, form, lookups, photo, Server>>
    BY <1>2 DEF Submit
  <2>2. /\ cedula \in Doc /\ form.data \in [of : Doc, value : Value]
        /\ form.data.of = cedula /\ form.consent = cedula
    BY DEF Submit, CanSubmit, TypeOK, FormType, Data, FormOwn
  <2>3. /\ unsaved \subseteq Part
        /\ "photo" \in unsaved => form.photo = None \/ form.photo.taken
    <3>1. "photo" \in unsaved => form.photo # StoredPhoto(cedula)
      BY DEF Changes, Part
    <3> QED BY <3>1 DEF Changes, FormOwn
  <2>4. new \in [phase : {"over", "update", "checkin"}, doc : Doc \cup {None},
                 form : FormType, unsaved : SUBSET Part]
    BY <2>2, <2>3 DEF TypeOK
  <2>5. TypeOK' /\ FormOwn'
    BY <2>1, <2>4 DEF TypeOK, Server, FormOwn
  <2>6. sub'[i] = new /\ \A j \in Submission \ {i} : sub'[j] = sub[j]
    BY <2>1 DEF TypeOK
  <2>7. SubsOwn'
    BY <2>2, <2>3, <2>6 DEF SubsOwn, Submitted
  <2>8. ChangesSaved'
    BY <2>3, <2>6 DEF ChangesSaved
  <2>9. SpinnerHasCause'
    BY <2>6 DEF SpinnerHasCause, Over
  <2> QED BY <2>5, <2>7, <2>8, <2>9
<1> QED BY <1>1, <1>2

LEMMA FailsStep ==
  ASSUME FormInv, NEW i \in Submission, Fails(i),
         UNCHANGED <<cedula, step, lookups, photo>>,
         stored' \in [Doc -> Value \cup {None}], open' \subseteq Doc
  PROVE  FormInv'
<1> USE DEF FormInv
<1>1. /\ form' \in FormType /\ form'.data = form.data /\ form'.consent = form.consent
      /\ form'.photo = form.photo /\ loading' = FALSE
  BY DEF Fails, Caught, TypeOK, FormType
<1>2. /\ sub' \in [Submission -> SubType]
      /\ sub'[i] = Over /\ \A j \in Submission \ {i} : sub'[j] = sub[j]
  BY OverType, SubReplaced DEF Fails
<1>3. TypeOK'
  BY <1>1, <1>2 DEF TypeOK, SubType
<1>4. FormOwn' /\ SpinnerHasCause'
  BY <1>1 DEF FormOwn, SpinnerHasCause
<1>5. SubsOwn' /\ ChangesSaved'
  BY <1>2, OverType DEF SubsOwn, Submitted, ChangesSaved
<1> QED BY <1>3, <1>4, <1>5

LEMMA UpdateStep ==
  ASSUME FormInv, NEW i \in Submission, UpdateAnswered(i)
  PROVE  FormInv'
<1> USE DEF FormInv
<1>1. Submitted(i)
  BY DEF UpdateAnswered, SubsOwn, Over
<1>2. PICK saved \in BOOLEAN, heard \in BOOLEAN :
       /\ stored' = IF saved /\ stored[sub[i].doc] # None
                    THEN [stored EXCEPT ![sub[i].doc] = sub[i].form.data.value] ELSE stored
       /\ IF saved /\ heard
          THEN /\ sub' = [sub EXCEPT ![i] =
                           [sub[i] EXCEPT !.phase = "checkin", !.unsaved = @ \ Carried(sub[i].form)]]
               /\ UNCHANGED <<form, loading>>
          ELSE Fails(i)
  BY DEF UpdateAnswered
<1>3. stored' \in [Doc -> Value \cup {None}] /\ open' \subseteq Doc /\ UNCHANGED <<cedula, step, lookups, photo>>
  BY <1>1, <1>2 DEF UpdateAnswered, Submitted, TypeOK
<1>4. CASE saved /\ heard
  <2> DEFINE new == [sub[i] EXCEPT !.phase = "checkin", !.unsaved = @ \ Carried(sub[i].form)]
  <2>1. sub' = [sub EXCEPT ![i] = new] /\ UNCHANGED <<form, loading>>
    BY <1>2, <1>4
  <2>2. /\ new \in SubType /\ new.phase = "checkin" /\ new.doc = sub[i].doc /\ new.form = sub[i].form
        /\ new.unsaved = sub[i].unsaved \ Carried(sub[i].form)
    BY SubTyped DEF SubType
  <2>7. new.unsaved \subseteq IF new.form.photo = None THEN {"photo"} ELSE {}
    <3>1. sub[i].unsaved \subseteq {"data", "photo"} /\ "data" \in Carried(sub[i].form)
      BY SubTyped DEF SubType, Part, Carried
    <3>2. "photo" \in sub[i].unsaved /\ sub[i].form.photo # None => "photo" \in Carried(sub[i].form)
      BY <1>1 DEF Submitted, Carried
    <3> QED BY <2>2, <3>1, <3>2
  <2> HIDE DEF new
  <2>3. /\ sub' \in [Submission -> SubType]
        /\ sub'[i] = new /\ \A j \in Submission \ {i} : sub'[j] = sub[j]
    BY <2>1, <2>2, SubReplaced
  <2>4. TypeOK' /\ FormOwn'
    BY <1>3, <2>1, <2>3 DEF TypeOK, SubType, FormOwn
  <2>5. SubsOwn' /\ ChangesSaved'
    BY <1>1, <2>2, <2>3, <2>7 DEF SubsOwn, Submitted, ChangesSaved
  <2>6. SpinnerHasCause'
    BY <2>2, <2>3, OverType DEF SpinnerHasCause
  <2> QED BY <2>4, <2>5, <2>6
<1>5. CASE ~ (saved /\ heard)
  BY <1>2, <1>3, <1>5, FailsStep
<1> QED BY <1>4, <1>5

LEMMA CheckInStep ==
  ASSUME FormInv, NEW i \in Submission, CheckInAnswered(i)
  PROVE  FormInv'
<1> USE DEF FormInv
<1>1. Submitted(i)
  BY DEF CheckInAnswered, SubsOwn, Over
<1>2. PICK admitted \in BOOLEAN, heard \in BOOLEAN :
       /\ open' = IF admitted THEN open \cup {sub[i].doc} ELSE open
       /\ stored' = IF admitted /\ stored[sub[i].doc] = None
                    THEN [stored EXCEPT ![sub[i].doc] = sub[i].form.data.value] ELSE stored
       /\ IF admitted /\ heard
          THEN /\ sub' = [sub EXCEPT ![i] = Over]
               /\ cedula' = None /\ step' = 1 /\ form' = Empty /\ loading' = FALSE
               /\ lookups' = Outdated
               /\ photo' = [photo EXCEPT !.camera = "off"]
          ELSE Fails(i) /\ UNCHANGED <<cedula, step, lookups, photo>>
  BY DEF CheckInAnswered
<1>3. stored' \in [Doc -> Value \cup {None}] /\ open' \subseteq Doc
  BY <1>1, <1>2 DEF Submitted, TypeOK
<1>4. CASE admitted /\ heard
  <2>1. /\ sub' = [sub EXCEPT ![i] = Over]
        /\ cedula' = None /\ step' = 1 /\ form' = Empty /\ loading' = FALSE
        /\ lookups' = Outdated
        /\ photo' = [photo EXCEPT !.camera = "off"]
    BY <1>2, <1>4
  <2>2. /\ sub' \in [Submission -> SubType]
        /\ sub'[i] = Over /\ \A j \in Submission \ {i} : sub'[j] = sub[j]
    BY <2>1, OverType, SubReplaced
  <2>3. photo' \in [camera : {"off", "live", "counting"}, reader : Doc \cup {None}]
    BY <2>1 DEF TypeOK
  <2>4. TypeOK'
    <3>1. cedula' \in Doc \cup {None} /\ step' \in 1..4 /\ form' \in FormType
      BY <2>1, EmptyType
    <3>3. loading' \in BOOLEAN
      BY <2>1, Zenon
    <3>2. lookups' \subseteq Lookup
      BY <2>1, OutdatedStale DEF TypeOK
    <3> QED BY <1>3, <2>2, <2>3, <3>1, <3>2, <3>3 DEF TypeOK, SubType
  <2>5. FormOwn' /\ SpinnerHasCause'
    BY <2>1, OutdatedStale DEF TypeOK, FormOwn, Empty, SpinnerHasCause
  <2>6. SubsOwn' /\ ChangesSaved'
    BY <2>2, OverType DEF SubsOwn, Submitted, ChangesSaved
  <2> QED BY <2>4, <2>5, <2>6
<1>5. CASE ~ (admitted /\ heard)
  BY <1>2, <1>3, <1>5, FailsStep
<1> QED BY <1>4, <1>5

LEMMA OtherStep ==
  ASSUME FormInv, UNCHANGED <<cedula, step, form, loading, lookups, sub, photo>>,
         Elsewhere \/ UNCHANGED Server
  PROVE  FormInv'
<1> USE DEF FormInv
<1>1. TypeOK'
  BY DEF TypeOK, Elsewhere, Server
<1>2. FormOwn' /\ SubsOwn' /\ ChangesSaved' /\ SpinnerHasCause'
  BY DEF FormOwn, SubsOwn, Submitted, ChangesSaved, SpinnerHasCause
<1> QED BY <1>1, <1>2

-----------------------------------------------------------------------------
(* The inductive invariant of the wizard: the form and the fresh lookup    *)
(* are about the present document, and a submission keeps the data it was  *)
(* clicked with.                                                           *)
THEOREM FormInvariant == Spec => []FormInv
<1>1. ASSUME FormInv, [Next]_vars PROVE FormInv'
  <2>1. CASE UNCHANGED vars
    BY <1>1, <2>1, OtherStep DEF vars, Server
  <2>2. CASE Next
    <3>1. ASSUME NEW d \in Doc \cup {None}, TypeCedula(d) PROVE FormInv'
      BY <1>1, <3>1, TypeCedulaStep
    <3>2. ASSUME NEW k \in {"search", "previous"}, Search(k) PROVE FormInv'
      BY <1>1, <3>2, SearchStep
    <3>3. ASSUME NEW l \in lookups, LookupAnswered(l) PROVE FormInv'
      BY <1>1, <3>3, LookupStep
    <3>4. ASSUME NEW v \in Value, TypeData(v) PROVE FormInv'
      BY <1>1, <3>4, TypeDataStep
    <3>5. CASE TypeVehicle \/ TypeDetails \/ NextStep \/ PreviousStep
      BY <1>1, <3>5, TypeVehicleStep, TypeDetailsStep, GoToStep
    <3>6. CASE Camera \/ Capture \/ ChooseFile \/ FileRead
      BY <1>1, <3>6, PhotoStep
    <3>7. ASSUME NEW i \in Submission, Submit(i) \/ UpdateAnswered(i) \/ CheckInAnswered(i)
          PROVE  FormInv'
      BY <1>1, <3>7, SubmitStep, UpdateStep, CheckInStep
    <3>8. CASE Elsewhere /\ UNCHANGED <<cedula, step, form, loading, lookups, sub, photo>>
      BY <1>1, <3>8, OtherStep
    <3> QED BY <2>2, <3>1, <3>2, <3>3, <3>4, <3>5, <3>6, <3>7, <3>8 DEF Next
  <2> QED BY <1>1, <2>1, <2>2
<1> QED BY <1>1, InitInv, PTL DEF Spec

(* Type correctness of the wizard. *)
THEOREM FormTypeCorrect == Spec => []TypeOK
BY FormInvariant, PTL DEF FormInv

(* A check-in carries the person and the consent of its own document.      *)
THEOREM CheckInOwnData == Spec => []OwnData
<1>1. FormInv => OwnData
  BY DEF FormInv, SubsOwn, Submitted, OwnData
<1> QED BY <1>1, FormInvariant, PTL

(* No check-in goes out with a change that was not saved, but for a photo  *)
(* that was removed.                                                       *)
THEOREM CheckInSaved == Spec => []ChangesSaved
BY FormInvariant, PTL DEF FormInv

(* The form is disabled only while it waits for an answer. *)
THEOREM FormNotStuck == Spec => []SpinnerHasCause
BY FormInvariant, PTL DEF FormInv

-----------------------------------------------------------------------------
(***************************************************************************)
(* The screens.  ScreensInvariant is inductive because it says, beside     *)
(* what the runs check, for what key and after which change of the         *)
(* screen's own a fetch was made that is still awaited (FetchInv), and     *)
(* that data is held which was asked for so when none is (CacheInv).       *)
(***************************************************************************)

(* The screens on which a change of their own asks for all that is shown.  *)
Whole == Query.order = "latest" \/ (Query.order = "key" /\ ~Query.filters)

(* A fetch for what is on the screen is under way. *)
Awaited == \E f \in fetches : f.fresh /\ (Query.order = "key" => f.for = view.key)

(* What is fetched: for the current filter unless a timer is going to ask, *)
(* and after the last change of the screen's own.                          *)
FetchInv ==
  /\ view.timer => Query.delay
  /\ view.loading => Query.spinner
  /\ ~view.timer => view.key = filter
  /\ Query.order = "latest" => \A f \in fetches : f.fresh => f.for = view.key
  /\ Whole => \A f \in fetches : f.fresh => f.for = view.key /\ f.since >= own

(* What is held: an answer for the key and after the last own change, once *)
(* none is awaited and none has failed.                                    *)
CacheInv ==
  /\ Query.order = "latest" => \A f, g \in Filter : cache[f].held /\ cache[g].held => f = g
  /\ Query.blanks => \A f \in Filter : cache[f].held => f = view.key
  /\ Guarded /\ (view.timer => Query.order = "key") /\ ~Awaited /\ ~view.failed /\ ~NotMade(view.key) =>
       /\ cache[view.key].held
       /\ Whole => cache[view.key].rev >= own

(* What is typed in an open dialog is typed for its item, and on the page  *)
(* the box is ticked for it.                                               *)
TypedFor(d) ==
  d.item # NoItem =>
    IF Command.via = "page" THEN d.ticked \in {d.item, NoItem} ELSE d.typed \in {d.item, NoItem}

DialogInv ==
  /\ ~InDialog => dialog = Closed
  /\ TypedFor(dialog)
  /\ \A o \in ops : o.at <= rev

(* A command is about an item of a list that was loaded: what its success  *)
(* fetches does not join the first load.                                   *)
ListInv ==
  Query.order = "key" /\ ~Query.filters /\ (ops # {} \/ dialog.item # NoItem) => cache[view.key].held

(* A list that is loaded remains so. *)
StaysListed ==
  Query.order = "key" /\ ~Query.filters /\ cache[view.key].held => cache'[view'.key].held

ScreenInv ==
  ScreenTypeOK /\ FetchInv /\ CacheInv /\ DialogInv /\ ListInv /\ OwnInput /\ WaitsForAnAnswer

-----------------------------------------------------------------------------
(* What the screens have in common.                                        *)

QueryFacts(q) ==
  /\ q.order \in {"any", "latest", "key"}
  /\ q.filters \in BOOLEAN /\ q.delay \in BOOLEAN /\ q.short \in BOOLEAN
  /\ q.blanks \in BOOLEAN /\ q.spinner \in BOOLEAN
  /\ q.spinner => ~q.short
  /\ q.blanks => q.order = "latest" /\ ~q.delay
  /\ q.delay => q.filters
  /\ q = ReportsQuery => ~q.spinner /\ q.delay

CommandFacts(c) ==
  /\ c.via = "button" => c.input = "none"
  /\ c.via = "page" => c.input = "required"
  /\ c.refetch \in BOOLEAN /\ c.loads \in BOOLEAN /\ c.keeps \in BOOLEAN

LEMMA LatestFacts ==
  \A q \in {ReportsQuery, AuditQuery, ActivityQuery, CalendarQuery, StatisticsQuery} : QueryFacts(q)
BY DEF QueryFacts, Plain, ReportsQuery, AuditQuery, ActivityQuery, CalendarQuery, StatisticsQuery

LEMMA AnyFacts ==
  \A q \in {AlertsQuery, BackupsQuery, RequestsQuery, UsersQuery, HistoryQuery, EditHistoryQuery} :
    QueryFacts(q) /\ q.order = "any"
BY DEF QueryFacts, Plain, ReportsQuery, AlertsQuery, BackupsQuery, RequestsQuery, UsersQuery,
       HistoryQuery, EditHistoryQuery

LEMMA KeyFacts ==
  \A q \in {VisitsQuery, VisitorsQuery, CompanyQuery} : QueryFacts(q)
BY DEF QueryFacts, Plain, ReportsQuery, VisitsQuery, VisitorsQuery, CompanyQuery

LEMMA ButtonFacts ==
  \A c \in {Nothing, RunBackup, UpdateStatus, Admit} : CommandFacts(c) /\ c.refetch
BY DEF CommandFacts, Button, Nothing, RunBackup, UpdateStatus, Admit

LEMMA ConfirmFacts ==
  \A c \in {CalendarCheckout, DeleteUser, Checkout, GoIntermittent, Reactivate} :
    CommandFacts(c) /\ c.refetch
BY DEF CommandFacts, Button, CalendarCheckout, DeleteUser, Checkout, GoIntermittent, Reactivate

LEMMA FormFacts ==
  \A c \in {RestoreBackup, CancelSubject, UpdateUser, BlockVisitor, CancelWaiting, EditProfile} :
    CommandFacts(c) /\ c.refetch
BY DEF CommandFacts, Button, RestoreBackup, CancelSubject, UpdateUser, BlockVisitor,
       CancelWaiting, EditProfile

LEMMA ResetFacts == CommandFacts(ResetUserPassword)
BY DEF CommandFacts, Button, UpdateUser, ResetUserPassword

LEMMA ScreenFacts ==
  ASSUME NEW s \in Screen
  PROVE  /\ QueryFacts(s.query) /\ CommandFacts(s.command)
         /\ s.query.order # "any" => s.command.refetch
BY LatestFacts, AnyFacts, KeyFacts, ButtonFacts, ConfirmFacts, FormFacts, ResetFacts DEF Screen

LEMMA Facts ==
  ASSUME ScreenTypeOK
  PROVE  /\ QueryFacts(Query) /\ CommandFacts(Command)
         /\ Guarded => Command.refetch
BY ScreenFacts DEF ScreenTypeOK, Query, Command, Guarded

-----------------------------------------------------------------------------
(* Fetching.                                                               *)

(* Giving up a fetch leaves its filter and its revision. *)
LEMMA KeptType ==
  ASSUME ScreenTypeOK, NEW k
  PROVE  /\ Kept(k) \subseteq Fetch
         /\ \A f \in Kept(k) : f.fresh => f \in fetches \ GivenUp(k)
<1>1. GivenUp(k) \subseteq fetches /\ fetches \subseteq Fetch
  BY Facts DEF GivenUp, QueryFacts, ScreenTypeOK
<1>2. \A f \in GivenUp(k) : [f EXCEPT !.fresh = FALSE] \in Fetch /\ ~[f EXCEPT !.fresh = FALSE].fresh
  BY <1>1 DEF Fetch
<1> QED BY <1>1, <1>2 DEF Kept

(* Once the query is made for k nothing is awaited but the answer to it,   *)
(* which is read after whatever the screen has changed; what it joins is   *)
(* the first load, before there was anything to change.                    *)
LEMMA AskStep ==
  ASSUME ScreenTypeOK, FetchInv, CacheInv, screen' = screen,
         NEW k \in Filter, NEW timer \in BOOLEAN, Ask(k, timer),
         timer => Query.delay, ~timer => k = filter',
         Whole /\ Query.order = "key" => k = view.key,
         rev' = rev, own' \in 0..rev, own' = own \/ ~(Whole /\ Joins(k))
  PROVE  /\ fetches' \subseteq Fetch
         /\ view' \in [key : Filter, timer : BOOLEAN, loading : BOOLEAN, failed : BOOLEAN]
         /\ cache' \in [Filter -> [rev : 0..MaxRev, held : BOOLEAN]]
         /\ FetchInv' /\ CacheInv' /\ StaysListed
         /\ view'.loading => \E f \in fetches' : f.fresh
<1>1. /\ QueryFacts(Query) /\ Query' = Query /\ rev \in 0..MaxRev /\ MaxRev \in Nat
      /\ fetches \subseteq Fetch
      /\ view \in [key : Filter, timer : BOOLEAN, loading : BOOLEAN, failed : BOOLEAN]
      /\ cache \in [Filter -> [rev : 0..MaxRev, held : BOOLEAN]]
  BY Facts, ScreenAssumption DEF ScreenTypeOK, Query
<1>2. NewFetch(k) \in Fetch /\ NewFetch(k).for = k /\ NewFetch(k).since = rev /\ NewFetch(k).fresh
  BY <1>1 DEF NewFetch, Fetch
<1>3. fetches' = Started(k) /\ fetches' \subseteq Fetch
  BY <1>1, <1>2, KeptType DEF Ask, Started
<1>4. /\ view' \in [key : Filter, timer : BOOLEAN, loading : BOOLEAN, failed : BOOLEAN]
      /\ view'.key = k /\ view'.timer = timer /\ view'.loading = (view.loading \/ Query.spinner)
      /\ view'.failed = view.failed
  <2>1. view' = [view EXCEPT !.key = k, !.timer = timer, !.loading = @ \/ Query.spinner]
    BY DEF Ask
  <2>2. (view.loading \/ Query.spinner) \in BOOLEAN
    OBVIOUS
  <2> QED BY <1>1, <2>1, <2>2
<1>5. cache' \in [Filter -> [rev : 0..MaxRev, held : BOOLEAN]]
  BY <1>1 DEF Ask, Blank, NoAnswer
<1>6. ~NotMade(k) => \E f \in fetches' : f.fresh /\ f.for = k
  BY <1>2, <1>3 DEF Started, Joins, UnderWay
<1>7. \A f \in fetches' : f.fresh => f = NewFetch(k) \/ f \in fetches \ GivenUp(k) \/ (Joins(k) /\ f \in fetches)
  BY <1>1, <1>3, KeptType DEF Started
<1>8. ASSUME NEW f \in fetches', f.fresh, Query.order = "latest" \/ Whole
      PROVE  f = NewFetch(k) \/ (Query.order = "key" /\ Joins(k) /\ f \in fetches)
  <2>1. CASE Query.order = "latest"
    BY <1>7, <1>8, <2>1 DEF GivenUp, Joins
  <2>2. CASE Query.order = "key" /\ Whole
    BY <1>7, <1>8, <2>2 DEF GivenUp, FetchInv
  <2> QED BY <1>8, <2>1, <2>2 DEF Whole
<1>9. FetchInv'
  <2>1. own' <= rev
    BY <1>1
  <2>2. view'.loading => Query.spinner
    BY <1>1, <1>4 DEF FetchInv
  <2>3. Whole' = Whole
    BY <1>1 DEF Whole
  <2>4. ASSUME NEW f \in fetches', f.fresh, Whole
        PROVE  f.for = view'.key /\ f.since >= own'
    <3>1. CASE f = NewFetch(k)
      BY <1>1, <1>2, <1>4, <2>1, <3>1
    <3>2. CASE Query.order = "key" /\ Joins(k) /\ f \in fetches
      BY <1>4, <2>4, <3>2 DEF FetchInv
    <3> QED BY <1>8, <2>4, <3>1, <3>2
  <2>5. Query.order = "latest" => \A f \in fetches' : f.fresh => f.for = view'.key
    BY <1>2, <1>4, <1>8
  <2> QED BY <1>1, <1>4, <2>2, <2>3, <2>4, <2>5 DEF FetchInv
<1>10. CacheInv'
  <2>1. Query.order = "latest" => \A f, g \in Filter : cache'[f].held /\ cache'[g].held => f = g
    BY DEF Ask, Blank, NoAnswer, CacheInv
  <2>2. Query.blanks => \A f \in Filter : ~cache'[f].held
    BY DEF Ask, Blank, NoAnswer
  <2>3. ~NotMade(k) => Awaited'
    BY <1>1, <1>4, <1>6 DEF Awaited
  <2>4. NotMade(k)' = NotMade(k)
    BY <1>1 DEF NotMade
  <2> QED BY <1>1, <1>4, <2>1, <2>2, <2>3, <2>4 DEF CacheInv, NotMade
<1>11. view'.loading => \E f \in fetches' : f.fresh
  BY <1>1, <1>4, <1>6 DEF FetchInv, NotMade, QueryFacts
<1>12. StaysListed
  BY <1>1, <1>4 DEF StaysListed, Whole, Ask, Blank, QueryFacts
<1> QED BY <1>3, <1>4, <1>5, <1>9, <1>10, <1>11, <1>12

(* A change of the key awaits an answer for k, or holds one. *)
LEMMA TurnStep ==
  ASSUME ScreenTypeOK, FetchInv, CacheInv, UNCHANGED <<screen, rev, own>>,
         NEW k \in Filter, Turn(k), k = filter', Query.order = "key", Query.filters
  PROVE  /\ fetches' \subseteq Fetch
         /\ view' \in [key : Filter, timer : BOOLEAN, loading : BOOLEAN, failed : BOOLEAN]
         /\ cache' \in [Filter -> [rev : 0..MaxRev, held : BOOLEAN]]
         /\ FetchInv' /\ CacheInv'
         /\ (view.loading => \E f \in fetches : f.fresh) => (view'.loading => \E f \in fetches' : f.fresh)
<1>1. /\ QueryFacts(Query) /\ Query' = Query /\ rev \in 0..MaxRev /\ MaxRev \in Nat
      /\ fetches \subseteq Fetch /\ cache' = cache
      /\ view \in [key : Filter, timer : BOOLEAN, loading : BOOLEAN, failed : BOOLEAN]
      /\ cache \in [Filter -> [rev : 0..MaxRev, held : BOOLEAN]]
  BY Facts, ScreenAssumption DEF ScreenTypeOK, Query, Turn
<1>2. NewFetch(k) \in Fetch /\ NewFetch(k).for = k /\ NewFetch(k).fresh
  BY <1>1 DEF NewFetch, Fetch
<1>3. /\ fetches' \in {fetches, fetches \cup {NewFetch(k)}}
      /\ k = view.key \/ NotMade(k) \/ UnderWay(k) \/ cache[k].held \/ NewFetch(k) \in fetches'
  BY DEF Turn
<1>4. /\ view' \in [key : Filter, timer : BOOLEAN, loading : BOOLEAN, failed : BOOLEAN]
      /\ view'.key = k /\ view'.timer = FALSE /\ view'.loading = view.loading
      /\ view'.failed = (view.failed /\ k = view.key)
  <2>1. view' = [view EXCEPT !.key = k, !.timer = FALSE, !.failed = @ /\ k = view.key]
    BY DEF Turn
  <2>2. (view.failed /\ k = view.key) \in BOOLEAN
    OBVIOUS
  <2> QED BY <1>1, <2>1, <2>2
<1>5. ~Whole /\ ~Whole' /\ ~Query.blanks
  BY <1>1 DEF Whole, QueryFacts
<1>6. FetchInv'
  BY <1>1, <1>4, <1>5 DEF FetchInv
<1>7. CacheInv'
  <2>1. ASSUME ~Awaited', ~view'.failed, ~NotMade(k)
        PROVE  cache[k].held
    <3>1. ~UnderWay(k) /\ NewFetch(k) \notin fetches'
      BY <1>1, <1>2, <1>3, <1>4, <2>1 DEF Awaited, UnderWay
    <3>2. CASE k = view.key
      <4>1. ~Awaited /\ ~view.failed
        BY <1>4, <2>1, <3>1, <3>2 DEF Awaited, UnderWay
      <4> QED BY <2>1, <3>2, <4>1 DEF CacheInv, Guarded
    <3> QED BY <1>3, <2>1, <3>1, <3>2
  <2>2. NotMade(k)' = NotMade(k)
    BY <1>1 DEF NotMade
  <2> QED BY <1>1, <1>4, <1>5, <2>1, <2>2 DEF CacheInv, NotMade
<1>8. (view.loading => \E f \in fetches : f.fresh) => (view'.loading => \E f \in fetches' : f.fresh)
  BY <1>3, <1>4
<1> QED BY <1>1, <1>2, <1>3, <1>4, <1>6, <1>7, <1>8

(* What the operator asks for, at once or when the timer fires. *)
LEMMA FollowStep ==
  ASSUME ScreenInv, UNCHANGED <<screen, rev, own>>,
         NEW k \in Filter, Follow(k), k = filter', Query.filters
  PROVE  /\ fetches' \subseteq Fetch
         /\ view' \in [key : Filter, timer : BOOLEAN, loading : BOOLEAN, failed : BOOLEAN]
         /\ cache' \in [Filter -> [rev : 0..MaxRev, held : BOOLEAN]]
         /\ FetchInv' /\ CacheInv' /\ StaysListed
         /\ view'.loading => \E f \in fetches' : f.fresh
<1>1. /\ ScreenTypeOK /\ FetchInv /\ CacheInv /\ own' \in 0..rev
      /\ view.loading => \E f \in fetches : f.fresh
  BY DEF ScreenInv, ScreenTypeOK, WaitsForAnAnswer
<1>2. CASE Query.order = "key"
  BY <1>1, <1>2, TurnStep DEF Follow, StaysListed
<1>3. CASE Query.order # "key"
  BY <1>1, <1>3, AskStep DEF Follow
<1> QED BY <1>2, <1>3

(* What the invariant says of the commands is left alone by a fetch. *)
LEMMA CommandsKept ==
  ASSUME ScreenInv, UNCHANGED <<screen, dialog, loads, ops, busy, rev>>, StaysListed
  PROVE  /\ DialogInv' /\ ListInv' /\ OwnInput'
         /\ busy' # NoItem => \E o \in ops' : o.item = busy'
<1>1. DialogInv' /\ OwnInput' /\ (busy' # NoItem => \E o \in ops' : o.item = busy')
  BY DEF ScreenInv, DialogInv, TypedFor, OwnInput, WaitsForAnAnswer, InDialog, Command
<1>2. ListInv'
  BY DEF ScreenInv, ListInv, StaysListed, Query
<1> QED BY <1>1, <1>2

(* ... and the other way around, by whatever leaves the fetches alone. *)
LEMMA FetchesKept ==
  ASSUME ScreenInv, UNCHANGED <<screen, filter, cache, fetches, view, own>>
  PROVE  /\ FetchInv' /\ CacheInv'
         /\ view'.loading => \E f \in fetches' : f.fresh
BY DEF ScreenInv, FetchInv, CacheInv, WaitsForAnAnswer, Whole, Awaited, Query, NotMade, Guarded

LEMMA ChangeStep ==
  ASSUME ScreenInv, NEW k \in Filter, Change(k)
  PROVE  ScreenInv'
<1>1. /\ ScreenTypeOK /\ FetchInv /\ CacheInv /\ QueryFacts(Query)
      /\ screen' = screen /\ rev' = rev /\ own' = own /\ own' \in 0..rev
      /\ UNCHANGED Ordered /\ filter' = k /\ Query.filters
  BY Facts DEF ScreenInv, Change, ScreenTypeOK
<1>2. CASE ~Query.delay
  <2>1. Follow(k)
    BY <1>2 DEF Change
  <2>2. /\ fetches' \subseteq Fetch
        /\ view' \in [key : Filter, timer : BOOLEAN, loading : BOOLEAN, failed : BOOLEAN]
        /\ cache' \in [Filter -> [rev : 0..MaxRev, held : BOOLEAN]]
        /\ FetchInv' /\ CacheInv' /\ StaysListed
        /\ view'.loading => \E f \in fetches' : f.fresh
    BY <1>1, <2>1, FollowStep
  <2> QED BY <1>1, <2>2, CommandsKept DEF ScreenInv, ScreenTypeOK, WaitsForAnAnswer, Ordered
<1>3. CASE Query.delay
  <2>1. view' = [view EXCEPT !.timer = TRUE] /\ cache' = cache /\ fetches' = fetches
    BY <1>3 DEF Change
  <2>2. ScreenTypeOK'
    BY <1>1, <2>1 DEF ScreenTypeOK, Ordered
  <2>3. /\ view'.timer /\ view'.key = view.key /\ view'.loading = view.loading
    BY <1>1, <2>1 DEF ScreenTypeOK
  <2>4. FetchInv' /\ StaysListed
    BY <1>1, <1>3, <2>1, <2>3 DEF FetchInv, StaysListed, Query, Whole
  <2>6. CacheInv'
    <3>1. Awaited' = Awaited /\ view'.failed = view.failed
      BY <1>1, <2>1, <2>3 DEF Awaited, Query, ScreenTypeOK
    <3> QED BY <1>1, <1>3, <2>1, <2>3, <3>1 DEF CacheInv, Query, Whole, Guarded, NotMade
  <2>5. view'.loading => \E f \in fetches' : f.fresh
    BY <2>1, <2>3 DEF ScreenInv, WaitsForAnAnswer
  <2> QED BY <1>1, <2>2, <2>4, <2>5, <2>6, CommandsKept DEF ScreenInv, WaitsForAnAnswer, Ordered
<1> QED BY <1>1, <1>2, <1>3 DEF QueryFacts

LEMMA TimerStep ==
  ASSUME ScreenInv, TimerFires
  PROVE  ScreenInv'
<1>1. /\ ScreenTypeOK /\ FetchInv /\ CacheInv /\ QueryFacts(Query)
      /\ screen' = screen /\ rev' = rev /\ own' = own /\ own' \in 0..rev
      /\ UNCHANGED Ordered /\ filter' = filter /\ filter \in Filter /\ view.timer
  BY Facts DEF ScreenInv, TimerFires, ScreenTypeOK
<1>2. Query.filters
  BY <1>1 DEF FetchInv, QueryFacts
<1>3. Follow(filter)
  BY DEF TimerFires
<1>4. /\ fetches' \subseteq Fetch
      /\ view' \in [key : Filter, timer : BOOLEAN, loading : BOOLEAN, failed : BOOLEAN]
      /\ cache' \in [Filter -> [rev : 0..MaxRev, held : BOOLEAN]]
      /\ FetchInv' /\ CacheInv' /\ StaysListed
      /\ view'.loading => \E f \in fetches' : f.fresh
  BY <1>1, <1>2, <1>3, FollowStep
<1> QED BY <1>1, <1>4, CommandsKept DEF ScreenInv, ScreenTypeOK, WaitsForAnAnswer, Ordered

(* A refetch, of whatever is current. *)
LEMMA RefetchStep ==
  ASSUME ScreenInv, UNCHANGED <<screen, filter, rev>>, Ask(Current, view.timer), own' \in 0..rev,
         own' = own \/ ~(Whole /\ Joins(Current))
  PROVE  /\ fetches' \subseteq Fetch
         /\ view' \in [key : Filter, timer : BOOLEAN, loading : BOOLEAN, failed : BOOLEAN]
         /\ cache' \in [Filter -> [rev : 0..MaxRev, held : BOOLEAN]]
         /\ FetchInv' /\ CacheInv' /\ StaysListed
         /\ view'.loading => \E f \in fetches' : f.fresh
<1>1. /\ ScreenTypeOK /\ FetchInv /\ CacheInv
      /\ Current \in Filter /\ view.timer \in BOOLEAN
  BY DEF ScreenInv, ScreenTypeOK, Current
<1>2. /\ view.timer => Query.delay
      /\ ~view.timer => Current = filter'
      /\ Query.order = "key" => Current = view.key
  BY <1>1 DEF FetchInv, Current
<1> QED BY <1>1, <1>2, AskStep

LEMMA FetchAgainStep ==
  ASSUME ScreenInv, FetchAgain
  PROVE  ScreenInv'
<1>1. /\ ScreenTypeOK /\ UNCHANGED <<screen, filter, rev, own>> /\ UNCHANGED Ordered
      /\ Ask(Current, view.timer) /\ own' \in 0..rev /\ own' = own
  BY DEF ScreenInv, FetchAgain, ScreenTypeOK
<1> QED BY <1>1, RefetchStep, CommandsKept DEF ScreenInv, ScreenTypeOK, WaitsForAnAnswer, Ordered
(* The answer that is awaited is about the key, the others change nothing  *)
(* that is shown.                                                          *)
LEMMA AnswerStep ==
  ASSUME ScreenInv, NEW f \in fetches, Answered(f)
  PROVE  ScreenInv'
<1>1. /\ ScreenTypeOK /\ FetchInv /\ CacheInv /\ QueryFacts(Query) /\ Query' = Query
      /\ UNCHANGED <<screen, filter, rev, own>> /\ UNCHANGED Ordered
      /\ fetches' = fetches \ {f}
  BY Facts DEF ScreenInv, Answered, Query
<1>2. /\ f.for \in Filter /\ f.since \in Nat /\ f.fresh \in BOOLEAN
      /\ rev \in 0..MaxRev /\ own \in Nat /\ MaxRev \in Nat
      /\ view \in [key : Filter, timer : BOOLEAN, loading : BOOLEAN, failed : BOOLEAN]
      /\ cache \in [Filter -> [rev : 0..MaxRev, held : BOOLEAN]]
  BY <1>1, ScreenAssumption DEF ScreenTypeOK, Fetch
<1>3. /\ view' \in [key : Filter, timer : BOOLEAN, loading : BOOLEAN, failed : BOOLEAN]
      /\ view'.key = view.key /\ view'.timer = view.timer
      /\ view'.loading = (view.loading /\ ~f.fresh)
      /\ \/ /\ \E r \in f.since..rev : cache' = IF f.fresh THEN Held(f.for, r) ELSE cache
            /\ view'.failed = (view.failed /\ ~Concerns(f))
         \/ cache' = cache /\ view'.failed = (view.failed \/ Concerns(f))
  <2>1. CASE \E r \in f.since..rev :
               /\ cache' = IF Takes(f) THEN Held(f.for, r) ELSE cache
               /\ view' = [view EXCEPT !.loading = @ /\ ~Stops(f, TRUE),
                                       !.failed = @ /\ ~Concerns(f)]
    <3>1. (view.loading /\ ~f.fresh) \in BOOLEAN /\ (view.failed /\ ~Concerns(f)) \in BOOLEAN
      OBVIOUS
    <3> QED BY <1>2, <2>1, <3>1 DEF Takes, Stops
  <2>2. CASE /\ view' = [view EXCEPT !.loading = @ /\ ~Stops(f, FALSE),
                                     !.failed = @ \/ Concerns(f)]
             /\ UNCHANGED cache
    <3>1. (view.loading /\ ~f.fresh) \in BOOLEAN /\ (view.failed \/ Concerns(f)) \in BOOLEAN
      OBVIOUS
    <3> QED BY <1>2, <2>2, <3>1 DEF Stops
  <2> QED BY <2>1, <2>2 DEF Answered
<1>4. FetchInv'
  BY <1>1, <1>3 DEF FetchInv, Whole
<1>5. view'.loading => \E g \in fetches' : g.fresh
  BY <1>1, <1>3 DEF ScreenInv, WaitsForAnAnswer
<1>6. ASSUME NEW r \in f.since..rev, f.fresh, cache' = Held(f.for, r)
      PROVE  /\ cache' \in [Filter -> [rev : 0..MaxRev, held : BOOLEAN]]
             /\ cache'[f.for] = [rev |-> r, held |-> TRUE]
             /\ Query.order # "key" => \A g \in Filter \ {f.for} : ~cache'[g].held
             /\ Query.order = "key" => \A g \in Filter \ {f.for} : cache'[g] = cache[g]
  <2>1. r \in 0..MaxRev
    BY <1>2
  <2> DEFINE old == IF Query.order = "key" THEN cache ELSE [g \in Filter |-> NoAnswer]
             new == [rev |-> r, held |-> TRUE]
  <2>2. /\ old \in [Filter -> [rev : 0..MaxRev, held : BOOLEAN]]
        /\ Query.order # "key" => \A g \in Filter : ~old[g].held
        /\ Query.order = "key" => old = cache
    BY <1>2 DEF NoAnswer
  <2>3. new \in [rev : 0..MaxRev, held : BOOLEAN]
    BY <2>1
  <2>4. cache' = [old EXCEPT ![f.for] = new]
    BY <1>6 DEF Held
  <2> HIDE DEF old, new
  <2>5. /\ cache' \in [Filter -> [rev : 0..MaxRev, held : BOOLEAN]]
        /\ cache'[f.for] = new /\ \A g \in Filter \ {f.for} : cache'[g] = old[g]
    BY <1>2, <2>2, <2>3, <2>4
  <2> QED BY <2>2, <2>5 DEF new
(* What was awaited and is not any more is this answer. *)
<1>7. ~Awaited' => ~Awaited \/ Concerns(f)
  BY <1>1, <1>3 DEF Awaited, Concerns, Takes
<1>8. Concerns(f) /\ Guarded => f.fresh /\ f.for = view.key
  BY <1>1 DEF Concerns, Takes, Guarded, FetchInv, QueryFacts
<1>9. ASSUME NEW r \in f.since..rev, f.fresh, cache' = Held(f.for, r),
             view'.failed = (view.failed /\ ~Concerns(f))
      PROVE  CacheInv'
  <2>1. Query.order = "latest" => f.for = view.key
    BY <1>1, <1>9 DEF FetchInv
  <2>2. Query.order = "latest" => \A g, h \in Filter : cache'[g].held /\ cache'[h].held => g = h
    BY <1>6, <1>9
  <2>3. Query.blanks => \A g \in Filter : cache'[g].held => g = view'.key
    BY <1>1, <1>3, <1>6, <1>9, <2>1 DEF QueryFacts
  <2>4. ASSUME Guarded, view.timer => Query.order = "key", ~Awaited', ~view'.failed, ~NotMade(view.key)
        PROVE  /\ cache'[view.key].held
               /\ Whole => cache'[view.key].rev >= own
    <3>1. CASE Concerns(f)
      <4>1. cache'[view.key].held /\ cache'[view.key].rev = r
        <5>1. f.for = view.key
          BY <1>8, <2>4, <3>1
        <5>2. cache'[f.for] = [rev |-> r, held |-> TRUE]
          BY <1>6, <1>9
        <5> QED BY <5>1, <5>2
      <4>2. Whole => f.since >= own
        BY <1>1, <1>9 DEF FetchInv
      <4> QED BY <1>2, <1>9, <4>1, <4>2
    <3>2. CASE ~Concerns(f)
      <4>1. Query.order = "key" /\ f.for # view.key
        BY <1>1, <1>9, <2>1, <2>4, <3>2 DEF Concerns, Takes, Guarded, QueryFacts
      <4>2. cache'[view.key] = cache[view.key]
        BY <1>2, <1>6, <1>9, <4>1
      <4>3. ~Awaited /\ ~view.failed
        BY <1>2, <1>7, <1>9, <2>4, <3>2
      <4> QED BY <1>1, <2>4, <4>2, <4>3 DEF CacheInv
    <3> QED BY <3>1, <3>2
  <2> QED BY <1>1, <1>3, <2>2, <2>3, <2>4 DEF CacheInv, Guarded, Whole, NotMade
<1>10. ASSUME cache' = cache,
              \/ view'.failed = (view.failed \/ Concerns(f))
              \/ ~f.fresh /\ view'.failed = (view.failed /\ ~Concerns(f))
       PROVE  CacheInv'
  <2>1. ~Awaited' /\ ~view'.failed => ~Awaited /\ ~view.failed
    BY <1>2, <1>7, <1>10 DEF Concerns, Takes
  <2> QED BY <1>1, <1>3, <1>10, <2>1 DEF CacheInv, Guarded, Whole, NotMade
<1>11. CacheInv' /\ cache' \in [Filter -> [rev : 0..MaxRev, held : BOOLEAN]]
  BY <1>2, <1>3, <1>6, <1>9, <1>10
<1>12. StaysListed
  <2>1. CASE cache' = cache
    BY <1>3, <2>1 DEF StaysListed
  <2>2. ASSUME NEW r \in f.since..rev, f.fresh, cache' = Held(f.for, r)
        PROVE  StaysListed
    <3>1. cache'[f.for] = [rev |-> r, held |-> TRUE]
      BY <1>6, <2>2
    <3>2. Query.order = "key" => \A g \in Filter \ {f.for} : cache'[g] = cache[g]
      BY <1>6, <2>2
    <3> QED BY <1>2, <1>3, <3>1, <3>2 DEF StaysListed
  <2> QED BY <1>3, <2>1, <2>2
<1> QED BY <1>1, <1>3, <1>4, <1>5, <1>11, <1>12, CommandsKept
        DEF ScreenInv, ScreenTypeOK, WaitsForAnAnswer, Ordered
-----------------------------------------------------------------------------
(* Commands.                                                               *)

(* A step of the dialog, which sends nothing. *)
LEMMA DialogStep ==
  ASSUME ScreenInv, UNCHANGED <<screen, Made, ops, busy, rev, own>>,
         dialog' \in Dialog,
         loads' \subseteq Item,
         ~InDialog => dialog' = Closed,
         dialog'.item # NoItem => dialog.item # NoItem \/ Listed,
         TypedFor(dialog')
  PROVE  ScreenInv'
<1>1. ScreenTypeOK'
  BY DEF ScreenInv, ScreenTypeOK, Made
<1>2. DialogInv' /\ OwnInput'
  BY DEF ScreenInv, DialogInv, TypedFor, OwnInput, InDialog, Command
<1>5. ListInv'
  BY DEF ScreenInv, ListInv, Listed, Query, Made
<1>3. FetchInv' /\ CacheInv' /\ (view'.loading => \E f \in fetches' : f.fresh)
  BY FetchesKept DEF Made
<1>4. WaitsForAnAnswer'
  BY <1>3 DEF ScreenInv, WaitsForAnAnswer
<1> QED BY <1>1, <1>2, <1>3, <1>4, <1>5 DEF ScreenInv

LEMMA OpenStep ==
  ASSUME ScreenInv, NEW i \in Item, Open(i)
  PROVE  ScreenInv'
<1>1. /\ InDialog /\ Listed /\ dialog' = Opened(i)
      /\ UNCHANGED <<screen, Made, loads, ops, busy, rev, own>> /\ loads \subseteq Item
      /\ dialog \in Dialog
  BY DEF Open, ScreenInv, ScreenTypeOK
<1>2. dialog' \in Dialog /\ TypedFor(dialog')
  <2>1. CASE Command.via = "page"
    BY <1>1, <2>1 DEF Opened, Dialog, TypedFor
  <2>2. CASE Command.via # "page"
    BY <1>1, <2>2 DEF Opened, Closed, Dialog, TypedFor
  <2> QED BY <2>1, <2>2
<1> QED BY <1>1, <1>2, DialogStep

(* An open dialog is of a screen that has one. *)
LEMMA OpenDialog ==
  ASSUME ScreenInv, dialog.item # NoItem
  PROVE  InDialog
BY DEF ScreenInv, DialogInv, Closed

LEMMA TypeStep ==
  ASSUME ScreenInv, Type
  PROVE  ScreenInv'
<1>1. /\ InDialog /\ dialog.item # NoItem /\ TypedFor(dialog) /\ dialog \in Dialog
      /\ UNCHANGED <<screen, Made, loads, ops, busy, rev, own>> /\ loads \subseteq Item
      /\ \/ dialog' = [dialog EXCEPT !.typed = dialog.item]
         \/ dialog' = [dialog EXCEPT !.ticked = dialog.item]
  BY OpenDialog DEF Type, ScreenInv, ScreenTypeOK, DialogInv
<1>2. dialog' \in Dialog /\ TypedFor(dialog')
  BY <1>1 DEF Dialog, TypedFor
<1> QED BY <1>1, <1>2, DialogStep

LEMMA CloseStep ==
  ASSUME ScreenInv, Close
  PROVE  ScreenInv'
<1>1. /\ InDialog
      /\ UNCHANGED <<screen, Made, loads, ops, busy, rev, own>> /\ loads \subseteq Item
      /\ dialog \in Dialog /\ dialog.item # NoItem
  BY DEF Close, ScreenInv, ScreenTypeOK
<1>2. dialog' \in Dialog /\ TypedFor(dialog')
  <2>1. CASE dialog' = [dialog EXCEPT !.item = NoItem]
    BY <1>1, <2>1 DEF Dialog, TypedFor
  <2>2. CASE dialog' = Closed \/ dialog' = [Closed EXCEPT !.item = dialog.item]
    BY <1>1, <2>2 DEF Closed, Dialog, TypedFor
  <2> QED BY <2>1, <2>2 DEF Close
<1> QED BY <1>1, <1>2, DialogStep

LEMMA LoadStep ==
  ASSUME ScreenInv, Load
  PROVE  ScreenInv'
<1>1. /\ UNCHANGED <<screen, Made, dialog, ops, busy, rev, own>> /\ loads' \subseteq Item
      /\ dialog \in Dialog
      /\ InDialog /\ TypedFor(dialog) /\ dialog' = dialog
  BY OpenDialog DEF Load, ScreenInv, ScreenTypeOK, DialogInv, Dialog
<1> QED BY <1>1, DialogStep

LEMMA LoadedStep ==
  ASSUME ScreenInv, NEW i \in loads, Loaded(i)
  PROVE  ScreenInv'
<1>1. /\ UNCHANGED <<screen, Made, ops, busy, rev, own>>
      /\ loads' \subseteq Item /\ i \in Item
      /\ dialog \in Dialog
      /\ TypedFor(dialog)
      /\ ~InDialog => dialog = Closed
  BY DEF Loaded, ScreenInv, ScreenTypeOK, DialogInv
<1>2. CASE dialog' = dialog
  BY <1>1, <1>2, DialogStep
<1>3. CASE dialog.item # NoItem /\ dialog' = [dialog EXCEPT !.form = i]
  <2>1. dialog' \in Dialog /\ TypedFor(dialog')
    BY <1>1, <1>3 DEF Dialog, TypedFor
  <2> QED BY <1>1, <1>3, <2>1, OpenDialog, DialogStep
<1> QED BY <1>2, <1>3 DEF Loaded

(* What Confirm and Click send was typed for the item it is sent for. *)
LEMMA SentStep ==
  ASSUME ScreenInv, NEW i \in Item, Sent(i),
         IF Command.via = "page" THEN dialog.ticked = i
         ELSE dialog.typed \in {i, NoItem} /\ (Command.input = "required" => dialog.typed = i),
         dialog.item # NoItem \/ Listed,
         dialog' = dialog \/ dialog' = Closed,
         UNCHANGED <<screen, Made, loads, rev, own>>
  PROVE  ScreenInv'
<1> DEFINE o == [item |-> i, typed |-> dialog.typed, ticked |-> dialog.ticked, data |-> dialog.form,
                 stage |-> "sent", at |-> 0]
<1>1. /\ ScreenTypeOK /\ DialogInv /\ OwnInput /\ WaitsForAnAnswer
      /\ MaxRev \in Nat /\ rev \in 0..MaxRev
  BY ScreenAssumption DEF ScreenInv, ScreenTypeOK
<1>2. ops' = ops \cup {o} /\ o \in Op
  BY <1>1 DEF Sent, Op, ScreenTypeOK, Dialog
<1>3. /\ busy' \in {i, busy} /\ o.item = i /\ o.at = 0
      /\ o.typed = dialog.typed /\ o.ticked = dialog.ticked
  BY DEF Sent
<1> HIDE DEF o
<1>4. ScreenTypeOK'
  BY <1>1, <1>2, <1>3 DEF ScreenTypeOK, Made, Closed, Dialog
<1>5. DialogInv' /\ ListInv'
  <2>1. DialogInv'
    BY <1>1, <1>2, <1>3 DEF DialogInv, TypedFor, InDialog, Command, Closed
  <2>2. ListInv'
    BY DEF ScreenInv, ListInv, Listed, Query, Made
  <2> QED BY <2>1, <2>2
<1>6. OwnInput'
  BY <1>1, <1>2, <1>3 DEF OwnInput, Command
<1>7. FetchInv' /\ CacheInv' /\ (view'.loading => \E f \in fetches' : f.fresh)
  BY FetchesKept DEF Made
<1>8. WaitsForAnAnswer'
  BY <1>1, <1>2, <1>3, <1>7 DEF WaitsForAnAnswer
<1> QED BY <1>4, <1>5, <1>6, <1>7, <1>8 DEF ScreenInv

LEMMA ClickStep ==
  ASSUME ScreenInv, NEW i \in Item, Click(i)
  PROVE  ScreenInv'
<1>1. dialog = Closed /\ Command.input # "required"
  <2>1. CommandFacts(Command)
    BY Facts DEF ScreenInv
  <2> QED BY <2>1 DEF Click, ScreenInv, DialogInv, InDialog, CommandFacts
<1>2. dialog.typed = NoItem /\ Command.via # "page" /\ Listed
  BY <1>1 DEF Closed, Click
<1> QED BY <1>1, <1>2, SentStep DEF Click

LEMMA ConfirmStep ==
  ASSUME ScreenInv, Confirm
  PROVE  ScreenInv'
<1>1. /\ dialog.item \in Item
      /\ IF Command.via = "page" THEN dialog.ticked = dialog.item
         ELSE /\ dialog.typed \in {dialog.item, NoItem}
              /\ Command.input = "required" => dialog.typed = dialog.item
  BY DEF Confirm, ScreenInv, ScreenTypeOK, DialogInv, TypedFor, Dialog
<1> QED BY <1>1, SentStep DEF Confirm

(* A command that moves on keeps its item and what was typed. *)
LEMMA ServeStep ==
  ASSUME ScreenInv, NEW o \in ops, Serve(o)
  PROVE  ScreenInv'
<1>1. /\ ScreenTypeOK /\ DialogInv /\ OwnInput /\ WaitsForAnAnswer
      /\ MaxRev \in Nat /\ rev \in 0..MaxRev /\ own \in 0..rev /\ o \in Op
      /\ UNCHANGED <<screen, Made, dialog, loads, busy, own>>
  BY ScreenAssumption DEF ScreenInv, ScreenTypeOK, Serve
<1>2. PICK p \in Op : /\ ops' = (ops \ {o}) \cup {p}
                      /\ p.item = o.item /\ p.typed = o.typed /\ p.ticked = o.ticked
                      /\ rev' \in 0..MaxRev /\ rev <= rev' /\ p.at <= rev'
  <2>1. CASE /\ rev < MaxRev /\ rev' = rev + 1
             /\ ops' = (ops \ {o}) \cup {[o EXCEPT !.stage = "done", !.at = rev']}
    <3>1. ASSUME NEW r \in 0..MaxRev
          PROVE  LET d == [o EXCEPT !.stage = "done", !.at = r]
                 IN  d \in Op /\ d.item = o.item /\ d.typed = o.typed /\ d.ticked = o.ticked /\ d.at = r
      BY <1>1 DEF Op
    <3>2. rev' \in 0..MaxRev /\ rev <= rev'
      BY <1>1, <2>1
    <3> DEFINE p == [o EXCEPT !.stage = "done", !.at = rev']
    <3>3. p.item = o.item /\ p.typed = o.typed /\ p.ticked = o.ticked /\ p.at = rev'
      BY <3>1, <3>2
    <3>4. p \in Op /\ ops' = (ops \ {o}) \cup {p}
      BY <2>1, <3>1, <3>2
    <3> HIDE DEF p
    <3>5. p.at <= rev'
      BY <1>1, <3>2, <3>3
    <3> QED BY <3>2, <3>3, <3>4, <3>5
  <2>2. CASE /\ ops' = (ops \ {o}) \cup {[o EXCEPT !.stage = "refused"]}
             /\ UNCHANGED rev
    <3>1. [o EXCEPT !.stage = "refused"] \in Op
      BY <1>1 DEF Op
    <3>2. o.at <= rev
      BY <1>1 DEF DialogInv
    <3> DEFINE p == [o EXCEPT !.stage = "refused"]
    <3>3. p.item = o.item /\ p.typed = o.typed /\ p.ticked = o.ticked /\ p.at = o.at
      BY <1>1 DEF Op
    <3>4. p \in Op /\ ops' = (ops \ {o}) \cup {p}
      BY <2>2, <3>1
    <3> HIDE DEF p
    <3>5. p.at <= rev' /\ rev' \in 0..MaxRev /\ rev <= rev'
      BY <1>1, <2>2, <3>2, <3>3
    <3> QED BY <3>3, <3>4, <3>5
  <2> QED BY <2>1, <2>2 DEF Serve
<1>3. ScreenTypeOK'
  BY <1>1, <1>2 DEF ScreenTypeOK, Made
<1>4. DialogInv'
  <2>1. \A q \in ops : q.at \in Nat /\ q.at <= rev
    BY <1>1 DEF DialogInv, ScreenTypeOK, Op
  <2> QED BY <1>1, <1>2, <2>1 DEF DialogInv, TypedFor, InDialog, Command
<1>8. ListInv'
  BY <1>1 DEF ScreenInv, ListInv, Query, Made
<1>5. OwnInput'
  BY <1>1, <1>2 DEF OwnInput, Command
<1>6. FetchInv' /\ CacheInv' /\ (view'.loading => \E f \in fetches' : f.fresh)
  BY <1>1, FetchesKept DEF Made
<1>7. WaitsForAnAnswer'
  BY <1>1, <1>2, <1>6 DEF WaitsForAnAnswer
<1> QED BY <1>3, <1>4, <1>5, <1>6, <1>7, <1>8 DEF ScreenInv

(* Success takes note of the change and fetches after it. *)
LEMMA SucceededStep ==
  ASSUME ScreenInv, NEW o \in ops, Succeeded(o)
  PROVE  ScreenInv'
<1>1. /\ ScreenTypeOK /\ FetchInv /\ CacheInv /\ DialogInv /\ OwnInput /\ CommandFacts(Command)
      /\ Guarded => Command.refetch
      /\ MaxRev \in Nat /\ rev \in 0..MaxRev /\ own \in 0..rev /\ o \in Op
      /\ UNCHANGED <<screen, filter, loads, rev>> /\ ops' = ops \ {o} /\ busy' = NoItem
  BY Facts, ScreenAssumption DEF ScreenInv, ScreenTypeOK, Succeeded
<1>2. own' \in 0..rev
  <2>1. o.at \in Nat /\ o.at <= rev
    BY <1>1 DEF DialogInv, Op
  <2> QED BY <1>1, <2>1 DEF Succeeded
<1>3. /\ dialog' \in Dialog
      /\ ~InDialog => dialog' = Closed
      /\ TypedFor(dialog')
      /\ dialog'.item # NoItem => dialog.item # NoItem
  <2>1. CASE dialog' = dialog
    BY <1>1, <2>1 DEF ScreenTypeOK, DialogInv, TypedFor
  <2>2. CASE dialog' = Closed
    BY <2>2 DEF Closed, Dialog, TypedFor
  <2>3. CASE /\ Command.via = "page" \/ Command.loads
             /\ Command.via \notin {"button", "confirm"}
             /\ dialog' = [dialog EXCEPT !.typed = NoItem, !.ticked = NoItem, !.form = NoItem]
    <3>1. dialog \in Dialog
      BY <1>1 DEF ScreenTypeOK
    <3>2. /\ dialog' \in Dialog
          /\ dialog'.typed = NoItem /\ dialog'.ticked = NoItem /\ dialog'.item = dialog.item
      BY <2>3, <3>1 DEF Dialog
    <3>3. ASSUME dialog = Closed
          PROVE  dialog' = Closed
      BY <2>3, <3>3 DEF Closed
    <3> QED BY <1>1, <3>2, <3>3 DEF DialogInv, TypedFor
  <2> QED BY <2>1, <2>2, <2>3 DEF Succeeded, AfterSuccess
<1>4. /\ fetches' \subseteq Fetch
      /\ view' \in [key : Filter, timer : BOOLEAN, loading : BOOLEAN, failed : BOOLEAN]
      /\ cache' \in [Filter -> [rev : 0..MaxRev, held : BOOLEAN]]
      /\ FetchInv' /\ CacheInv' /\ StaysListed
      /\ view'.loading => \E f \in fetches' : f.fresh
  <2>1. CASE Command.refetch
    <3>1. Ask(Current, view.timer)
      BY <2>1 DEF Succeeded, Refetch
    <3>2. ~(Whole /\ Joins(Current))
      BY DEF ScreenInv, ListInv, Whole, Joins, Current
    <3> QED BY <1>1, <1>2, <3>1, <3>2, RefetchStep
  <2>2. CASE ~Command.refetch
    <3>1. UNCHANGED <<fetches, cache, view>> /\ ~Guarded
      BY <1>1, <2>2 DEF Succeeded
    <3>2. ~Whole /\ Query.order # "latest" /\ Query.order # "key"
      BY <3>1 DEF Guarded, Whole
    <3>3. Query' = Query /\ (Query.blanks => Query.order = "latest")
      BY <1>1, Facts DEF Query, QueryFacts
    <3>4. FetchInv'
      BY <1>1, <3>1, <3>2, <3>3 DEF FetchInv, Whole
    <3>5. CacheInv'
      BY <1>1, <3>1, <3>2, <3>3 DEF CacheInv, Whole, Guarded
    <3> QED BY <1>1, <3>1, <3>2, <3>4, <3>5 DEF ScreenInv, ScreenTypeOK, WaitsForAnAnswer, StaysListed
  <2> QED BY <2>1, <2>2
<1>5. ScreenTypeOK'
  BY <1>1, <1>2, <1>3, <1>4 DEF ScreenTypeOK
<1>6. DialogInv' /\ OwnInput'
  BY <1>1, <1>3 DEF DialogInv, TypedFor, OwnInput, InDialog, Command
<1>8. ListInv'
  BY <1>1, <1>3, <1>4 DEF ScreenInv, ListInv, StaysListed, Query
<1>7. WaitsForAnAnswer'
  BY <1>1, <1>4 DEF WaitsForAnAnswer
<1> QED BY <1>4, <1>5, <1>6, <1>7, <1>8 DEF ScreenInv

LEMMA FailedStep ==
  ASSUME ScreenInv, NEW o \in ops, Failed(o)
  PROVE  ScreenInv'
<1>1. ops' = ops \ {o} /\ busy' = NoItem /\ UNCHANGED <<screen, Made, dialog, loads, rev, own>>
  BY DEF Failed
<1>2. ScreenTypeOK' /\ DialogInv' /\ OwnInput'
  BY <1>1 DEF ScreenInv, ScreenTypeOK, DialogInv, TypedFor, OwnInput, InDialog, Command, Made
<1>4. ListInv'
  BY <1>1 DEF ScreenInv, ListInv, Query, Made
<1>3. FetchInv' /\ CacheInv' /\ (view'.loading => \E f \in fetches' : f.fresh)
  BY <1>1, FetchesKept DEF Made
<1> QED BY <1>1, <1>2, <1>3, <1>4 DEF ScreenInv, WaitsForAnAnswer

LEMMA OtherChangeStep ==
  ASSUME ScreenInv, OtherChange
  PROVE  ScreenInv'
<1>1. /\ MaxRev \in Nat /\ rev \in 0..MaxRev /\ rev < MaxRev /\ rev' = rev + 1
      /\ UNCHANGED <<screen, Made, Ordered, own>> /\ own \in 0..rev
      /\ \A o \in ops : o.at \in Nat /\ o.at <= rev
  BY ScreenAssumption DEF OtherChange, ScreenInv, ScreenTypeOK, DialogInv, Op
<1>2. ScreenTypeOK'
  BY <1>1 DEF ScreenInv, ScreenTypeOK, Made, Ordered
<1>3. DialogInv' /\ OwnInput'
  BY <1>1 DEF ScreenInv, DialogInv, TypedFor, OwnInput, InDialog, Command, Ordered
<1>5. ListInv'
  BY <1>1 DEF ScreenInv, ListInv, Query, Made, Ordered
<1>4. FetchInv' /\ CacheInv' /\ (view'.loading => \E f \in fetches' : f.fresh)
  BY <1>1, FetchesKept DEF Made
<1> QED BY <1>1, <1>2, <1>3, <1>4, <1>5 DEF ScreenInv, WaitsForAnAnswer, Ordered

-----------------------------------------------------------------------------
LEMMA InitScreen == ScreenInit => ScreenInv
<1> SUFFICES ASSUME ScreenInit PROVE ScreenInv
  OBVIOUS
<1>1. /\ QueryFacts(Query) /\ MaxRev \in Nat /\ filter \in Filter /\ screen \in Screen
  BY ScreenFacts, ScreenAssumption DEF ScreenInit, Query
<1>2. NewFetch(filter) \in Fetch /\ NewFetch(filter).fresh /\ NewFetch(filter).for = filter /\ NewFetch(filter).since = 0
  BY <1>1 DEF ScreenInit, NewFetch, Fetch
<1>3. ScreenTypeOK
  BY <1>1, <1>2 DEF ScreenInit, ScreenTypeOK, NoAnswer, Closed, Dialog, Query, QueryFacts
<1>4. FetchInv
  BY <1>1, <1>2 DEF ScreenInit, FetchInv, Query
<1>5. (view.timer => Query.order = "key") => Awaited
  BY <1>1, <1>2 DEF ScreenInit, Awaited, Query, QueryFacts, Plain, ReportsQuery
<1>6. CacheInv
  BY <1>5 DEF ScreenInit, CacheInv, NoAnswer
<1>7. DialogInv /\ ListInv /\ OwnInput
  BY DEF ScreenInit, DialogInv, TypedFor, ListInv, OwnInput, Closed
<1>8. WaitsForAnAnswer
  BY <1>1, <1>2 DEF ScreenInit, WaitsForAnAnswer, Query, QueryFacts
<1> QED BY <1>3, <1>4, <1>6, <1>7, <1>8 DEF ScreenInv

LEMMA NextScreen == ScreenInv /\ [ScreenNext]_screenVars => ScreenInv'
<1> SUFFICES ASSUME ScreenInv, [ScreenNext]_screenVars PROVE ScreenInv'
  OBVIOUS
<1>1. CASE UNCHANGED screenVars
  <2>1. UNCHANGED <<screen, Made, Ordered, rev, own>>
    BY <1>1 DEF screenVars, Made, Ordered
  <2>2. ScreenTypeOK'
    BY <2>1 DEF ScreenInv, ScreenTypeOK, Made, Ordered
  <2>3. StaysListed
    BY <2>1 DEF StaysListed, Made
  <2> QED BY <2>1, <2>2, <2>3, FetchesKept, CommandsKept DEF ScreenInv, WaitsForAnAnswer, Made, Ordered
<1>2. CASE User
  BY <1>2, ChangeStep, FetchAgainStep, OpenStep, ClickStep, TypeStep, CloseStep, LoadStep, ConfirmStep
     DEF User
<1>3. CASE TimerFires
  BY <1>3, TimerStep
<1>4. ASSUME NEW f \in fetches, Answered(f)
      PROVE  ScreenInv'
  BY <1>4, AnswerStep
<1>5. ASSUME NEW i \in loads, Loaded(i)
      PROVE  ScreenInv'
  BY <1>5, LoadedStep
<1>6. ASSUME NEW o \in ops, Serve(o) \/ Succeeded(o) \/ Failed(o)
      PROVE  ScreenInv'
  BY <1>6, ServeStep, SucceededStep, FailedStep
<1>7. CASE OtherChange
  BY <1>7, OtherChangeStep
<1> QED BY <1>1, <1>2, <1>3, <1>4, <1>5, <1>6, <1>7 DEF ScreenNext

(* The invariant of the screens, for any filters, items and revisions and  *)
(* any number of requests under way.                                       *)
THEOREM ScreensInvariant == ScreenSpec => []ScreenInv
BY InitScreen, NextScreen, PTL DEF ScreenSpec
-----------------------------------------------------------------------------
(* What the invariant says of a screen at rest.                            *)

LEMMA RestFacts ==
  ASSUME ScreenInv, Guarded, AtRest, ~view.failed, ~NotMade(filter)
  PROVE  /\ cache[filter].held /\ Shown = {filter}
         /\ Whole => cache[filter].rev >= own
<1>1. ~view.timer /\ ~Awaited /\ view.key = filter /\ filter \in Filter
  BY DEF ScreenInv, ScreenTypeOK, FetchInv, AtRest, Awaited
<1>2. cache[filter].held /\ (Whole => cache[filter].rev >= own)
  BY <1>1 DEF ScreenInv, CacheInv
<1>3. Query.order \in {"latest", "key"}
  BY Facts DEF ScreenInv, QueryFacts, Guarded
<1>4. ASSUME NEW f \in Filter, cache[f].held, Query.order = "key" => f = view.key
      PROVE  f = filter
  BY <1>1, <1>2, <1>3, <1>4 DEF ScreenInv, CacheInv
<1> QED BY <1>1, <1>2, <1>4 DEF Shown

(* A screen that guards its answers shows, once at rest and without an     *)
(* error, the answer for its current filter and nothing else.              *)
THEOREM ScreensShowWhatIsAsked == ScreenSpec => []ShowsWhatIsAsked
<1>1. ASSUME ScreenInv
      PROVE  ShowsWhatIsAsked
  <2>1. Guarded /\ AtRest /\ ~view.failed /\ ~NotMade(filter) => Shown = {filter}
    BY <1>1, RestFacts
  <2>2. ASSUME Query.blanks
        PROVE  Shown \subseteq {filter}
    <3>1. ~Query.delay
      BY <1>1, <2>2, Facts DEF ScreenInv, QueryFacts
    <3> QED BY <1>1, <2>2, <3>1 DEF ScreenInv, FetchInv, CacheInv, Shown
  <2> QED BY <2>1, <2>2 DEF ShowsWhatIsAsked
<1> QED BY <1>1, ScreensInvariant, PTL

(* After the success of a change of its own such a screen does not rest on *)
(* data read before the change.                                            *)
THEOREM ScreensShowOwnChange == ScreenSpec => []OwnChangeShown
<1>1. ASSUME ScreenInv
      PROVE  OwnChangeShown
  <2> SUFFICES ASSUME Guarded, AtRest, ~view.failed, ~NotMade(filter),
                      ~(Query.order = "key" /\ Query.filters)
               PROVE  \A f \in Shown : cache[f].rev >= own
    BY DEF OwnChangeShown
  <2>1. Whole
    BY <1>1, Facts DEF ScreenInv, QueryFacts, Guarded, Whole
  <2> QED BY <1>1, <2>1, RestFacts
<1> QED BY <1>1, ScreensInvariant, PTL

(* What is sent about an item was typed for that item. *)
THEOREM ScreensOwnInput == ScreenSpec => []OwnInput
BY ScreensInvariant, PTL DEF ScreenInv

(* A spinner or a disabled button awaits an answer that releases it. *)
THEOREM ScreensAwaitAnswers == ScreenSpec => []WaitsForAnAnswer
BY ScreensInvariant, PTL DEF ScreenInv

THEOREM ScreensTypeCorrect == ScreenSpec => []ScreenTypeOK
BY ScreensInvariant, PTL DEF ScreenInv

-----------------------------------------------------------------------------
(***************************************************************************)
(* The session.  A token that was refused must stay dead until the answer  *)
(* arrives, although sessions are opened meanwhile: every token in the     *)
(* browser or under way has a number that was given already (IssuedInv),   *)
(* and a new session takes the next one.                                   *)
(***************************************************************************)

Issued == 1..account.opened \cup {Absent}

(* Every token in the browser or under way was issued: a session that is   *)
(* opened is new to all of them.                                           *)
IssuedInv ==
  /\ account.live \subseteq 1..account.opened
  /\ jar.refresh \in Issued
  /\ \A c \in Call : call[c].tokens \in Issued
  /\ \A w \in Renewal : renewal[w].sent \in Issued

(* What the answer to a renewal says: the refused are dead and stay so. *)
AnswerInv ==
  \A w \in Renewal : renewal[w].stage = "replied" =>
    /\ renewal[w].answer = "ok" => renewal[w].sent # Absent
    /\ renewal[w].answer = "refused" => renewal[w].sent \notin account.live

SessionInv == SessionTypeOK /\ CarriedOutOnce /\ IssuedInv /\ AnswerInv
-----------------------------------------------------------------------------
(* What the session's actions have in common.                              *)

LEMMA SessionTypes ==
  /\ Absent \in Cookie /\ Absent \notin Session /\ Session \subseteq Cookie
  /\ NoCookies \in Cookies /\ NoCookies.refresh = Absent
  /\ \A s \in Cookie : Pair(s) \in Cookies /\ Pair(s).refresh = s
  /\ Idle \in CallState /\ ~Idle.done /\ Idle.tokens = Absent
  /\ Quiet \in RenewalState /\ Quiet.stage = "idle" /\ Quiet.sent = Absent
  /\ NoLogout \in LogoutState
BY SessionAssumption DEF Cookie, Session, NoCookies, Cookies, Pair, Idle, CallState, Quiet, RenewalState,
   NoLogout, LogoutState

LEMMA Places ==
  /\ {"login", "renew", "reset", "operations", "audit", "root", "password"} \subseteq Place
  /\ \A p \in Place : At(p) \in PageState
  /\ \A r : Home(r) \in Place
BY DEF Place, Allowed, At, PageState, Home

LEMMA GoStep ==
  ASSUME SessionTypeOK, NEW t \in Tab, NEW p \in Place, Go(t, p)
  PROVE  page' \in [Tab -> PageState]
BY Places DEF SessionTypeOK, Go

LEMMA LogoutStep ==
  ASSUME SessionTypeOK, NEW t \in Tab, NEW cookies \in Cookies, StartLogout(t, cookies)
  PROVE  logout' \in [Tab -> LogoutState]
<1>1. logout[t] \in LogoutState
  BY DEF SessionTypeOK
<1>2. [logout[t] EXCEPT !.stage = "sent", !.sent = cookies] \in LogoutState
  BY <1>1 DEF LogoutState
<1> QED BY <1>1, <1>2 DEF SessionTypeOK, StartLogout

(* Go revives no session: what it accepts it accepted before or it opens.  *)
Advanced ==
  /\ account' \in Account
  /\ account.opened <= account'.opened
  /\ account'.live \subseteq 1..account'.opened
  /\ account'.live \cap 1..account.opened \subseteq account.live

LEMMA AccountFacts ==
  ASSUME SessionInv
  PROVE  /\ account \in Account /\ account.opened \in Nat /\ account.live \subseteq Session
         /\ Issued \subseteq Cookie
         /\ UNCHANGED account => Advanced /\ Issued' = Issued
         /\ Absent \notin account.live /\ Absent \in Issued
<1>1. account \in Account /\ MaxLogins \in Nat
  BY SessionAssumption DEF SessionInv, SessionTypeOK
<1>2. account.opened \in 0..MaxLogins /\ account.live \subseteq Session
  BY <1>1 DEF Account
<1>3. account.live \subseteq 1..account.opened
  BY DEF SessionInv, IssuedInv
<1> QED BY <1>1, <1>2, <1>3, SessionTypes DEF Advanced, Issued, Session, Cookie

(* Some sessions of the account end. *)
LEMMA EndStep ==
  ASSUME SessionInv, NEW r \in Role, NEW m \in BOOLEAN, NEW L \in SUBSET account.live,
         account' = [role |-> r, must |-> m, live |-> L, opened |-> account.opened]
  PROVE  Advanced /\ Issued' = Issued
<1>1. account' \in Account
  BY AccountFacts DEF Account
<1>2. account'.opened = account.opened /\ account'.live = L
  OBVIOUS
<1>3. account.live \subseteq 1..account.opened
  BY DEF SessionInv, IssuedInv
<1> QED BY <1>1, <1>2, <1>3, AccountFacts DEF Advanced, Issued

LEMMA AllEnd ==
  ASSUME SessionInv, account' = [account EXCEPT !.live = {}]
  PROVE  Advanced /\ Issued' = Issued /\ account'.live = {}
<1>1. /\ account' = [role |-> account.role, must |-> account.must, live |-> {}, opened |-> account.opened]
      /\ account.role \in Role /\ account.must \in BOOLEAN /\ account'.live = {}
  BY AccountFacts DEF Account
<1> QED BY <1>1, EndStep

LEMMA PasswordSet ==
  ASSUME SessionInv, account' = [account EXCEPT !.live = {}, !.must = FALSE]
  PROVE  Advanced /\ Issued' = Issued /\ account'.live = {}
<1>1. /\ account' = [role |-> account.role, must |-> FALSE, live |-> {}, opened |-> account.opened]
      /\ account.role \in Role /\ account'.live = {}
  BY AccountFacts DEF Account
<1> QED BY <1>1, EndStep

(* The invariant holds again when the actions' parts fit together. *)
LEMMA Assembled ==
  ASSUME SessionInv, Advanced,
         jar' \in Cookies, jar'.refresh \in Issued',
         call' \in [Call -> CallState], CarriedOutOnce',
         \A c \in Call : call'[c].tokens \in Issued',
         renewal' \in [Renewal -> RenewalState],
         \A w \in Renewal : \/ renewal'[w] = renewal[w]
                            \/ renewal'[w].stage # "replied" /\ renewal'[w].sent \in Issued',
         logout' \in [Tab -> LogoutState], login' \in [Tab -> BOOLEAN],
         page' \in [Tab -> PageState], faults' \in 0..MaxFaults
  PROVE  SessionInv'
<1>1. SessionTypeOK'
  BY DEF SessionTypeOK, Advanced
<1>2. Issued \subseteq Issued'
  BY <1>1, AccountFacts DEF Issued, Advanced, SessionTypeOK, Account
<1>3. IssuedInv'
  <2>1. \A w \in Renewal : renewal'[w].sent \in Issued'
    BY <1>2 DEF SessionInv, IssuedInv
  <2> QED BY <2>1 DEF IssuedInv, Advanced
<1>4. AnswerInv'
  <2> SUFFICES ASSUME NEW w \in Renewal, renewal'[w].stage = "replied"
               PROVE  /\ renewal'[w].answer = "ok" => renewal'[w].sent # Absent
                      /\ renewal'[w].answer = "refused" => renewal'[w].sent \notin account'.live
    BY DEF AnswerInv
  <2>1. renewal'[w] = renewal[w]
    OBVIOUS
  <2>2. /\ renewal[w].answer = "ok" => renewal[w].sent # Absent
        /\ renewal[w].answer = "refused" => renewal[w].sent \notin account.live
    BY <2>1 DEF SessionInv, AnswerInv
  <2>3. renewal[w].sent \in Issued /\ Absent \notin account'.live
    BY <1>1, SessionTypes DEF SessionInv, IssuedInv, SessionTypeOK, Account
  <2> QED BY <2>1, <2>2, <2>3 DEF Advanced, Issued
<1> QED BY <1>1, <1>3, <1>4 DEF SessionInv
(* The parts an action leaves alone. *)
LEMMA Parts ==
  ASSUME SessionInv, Issued \subseteq Issued'
  PROVE  /\ UNCHANGED jar => jar' \in Cookies /\ jar'.refresh \in Issued'
         /\ UNCHANGED call => /\ call' \in [Call -> CallState] /\ CarriedOutOnce'
                              /\ \A c \in Call : call'[c].tokens \in Issued'
         /\ UNCHANGED renewal => renewal' \in [Renewal -> RenewalState]
         /\ UNCHANGED logout => logout' \in [Tab -> LogoutState]
         /\ UNCHANGED login => login' \in [Tab -> BOOLEAN]
         /\ UNCHANGED page => page' \in [Tab -> PageState]
         /\ UNCHANGED faults => faults' \in 0..MaxFaults
BY DEF SessionInv, SessionTypeOK, IssuedInv, CarriedOutOnce

LEMMA FaultStep ==
  ASSUME SessionInv, Fault
  PROVE  faults' \in 0..MaxFaults /\ faults' < faults
BY SessionAssumption DEF SessionInv, SessionTypeOK, Fault

LEMMA LeaveStep ==
  ASSUME SessionInv, NEW t \in Tab, Leave(t), Issued' = Issued
  PROVE  /\ call' \in [Call -> CallState] /\ CarriedOutOnce'
         /\ \A c \in Call : call'[c].tokens \in Issued'
         /\ renewal' \in [Renewal -> RenewalState]
         /\ \A w \in Renewal : \/ renewal'[w] = renewal[w]
                               \/ renewal'[w].stage # "replied" /\ renewal'[w].sent \in Issued'
         /\ login' \in [Tab -> BOOLEAN]
<1>1. \A c \in Call : /\ call'[c] \in {call[c], Idle} /\ call[c] \in CallState
                      /\ call[c].tokens \in Issued /\ (call[c].done => call[c].stage = "idle")
  BY DEF Leave, SessionInv, SessionTypeOK, IssuedInv, CarriedOutOnce
<1>2. call' \in [Call -> CallState]
  BY <1>1, SessionTypes DEF Leave
<1>3. \A w \in Renewal : renewal'[w] \in {renewal[w], Quiet} /\ renewal[w] \in RenewalState
  BY DEF Leave, SessionInv, SessionTypeOK
<1>4. renewal' \in [Renewal -> RenewalState]
  BY <1>3, SessionTypes DEF Leave
<1>5. Absent \in Issued'
  BY AccountFacts
<1>6. login' \in [Tab -> BOOLEAN]
  BY DEF Leave, SessionInv, SessionTypeOK
<1> QED BY <1>1, <1>2, <1>3, <1>4, <1>5, <1>6, SessionTypes DEF CarriedOutOnce

(* A shared renewal is begun with the cookie of the moment or joined. *)
LEMMA JoinStep ==
  ASSUME SessionInv, NEW t \in Tab, NEW cookies \in Cookies, cookies.refresh \in Issued',
         JoinRenewal(t, cookies)
  PROVE  /\ renewal' \in [Renewal -> RenewalState]
         /\ \A w \in Renewal : \/ renewal'[w] = renewal[w]
                               \/ renewal'[w].stage # "replied" /\ renewal'[w].sent \in Issued'
<1> DEFINE begun == [Quiet EXCEPT !.stage = "sent", !.sent = cookies.refresh]
<1>1. begun \in RenewalState /\ begun.stage = "sent" /\ begun.sent = cookies.refresh
  BY DEF Quiet, RenewalState, Cookies
<1>2. renewal \in [Renewal -> RenewalState] /\ <<t, "calls">> \in Renewal
  BY DEF SessionInv, SessionTypeOK, Renewal
<1>3. renewal' = [renewal EXCEPT ![<<t, "calls">>] =
                    IF renewal[<<t, "calls">>].stage = "idle" THEN begun ELSE renewal[<<t, "calls">>]]
  BY <1>2 DEF JoinRenewal
<1> HIDE DEF begun
<1>4. \A w \in Renewal : renewal'[w] \in {renewal[w], begun}
  BY <1>2, <1>3
<1> QED BY <1>1, <1>2, <1>3, <1>4

(* An answer settles the call or sends a refused one into the renewal.  It *)
(* takes the cookies only when the password has changed.                   *)
LEMMA SettleStep ==
  ASSUME SessionInv, NEW c \in Call, NEW a, NEW done \in BOOLEAN, Settle(c, a, done),
         a = "refused" => done = FALSE, Issued' = Issued
  PROVE  /\ jar' \in Cookies /\ jar'.refresh \in Issued'
         /\ a # "changed" /\ jar'.refresh = Absent => jar.refresh = Absent
         /\ call' \in [Call -> CallState] /\ CarriedOutOnce'
         /\ \A d \in Call : call'[d].tokens \in Issued'
         /\ renewal' \in [Renewal -> RenewalState]
         /\ \A w \in Renewal : \/ renewal'[w] = renewal[w]
                               \/ renewal'[w].stage # "replied" /\ renewal'[w].sent \in Issued'
         /\ logout' \in [Tab -> LogoutState] /\ login' \in [Tab -> BOOLEAN]
         /\ page' \in [Tab -> PageState]
<1>1. /\ SessionTypeOK /\ TabOf[c] \in Tab
      /\ call[c] \in CallState /\ call[c].tokens \in Issued
      /\ call \in [Call -> CallState] /\ jar \in Cookies /\ jar.refresh \in Issued
      /\ \A d \in Call : call[d].tokens \in Issued /\ (call[d].done => call[d].stage = "idle")
  BY SessionAssumption DEF SessionInv, SessionTypeOK, IssuedInv, CarriedOutOnce
<1>2. jar' \in {NoCookies, Pair(call[c].tokens), jar}
  BY DEF Settle
<1>3. call[c].tokens \in Cookie
  BY <1>1 DEF CallState
<1>4. jar' \in Cookies /\ jar'.refresh \in Issued'
  BY <1>1, <1>2, <1>3, SessionTypes, AccountFacts
<1>5. a # "changed" /\ jar'.refresh = Absent => jar.refresh = Absent
  BY <1>3, SessionTypes DEF Settle
<1>6. PICK s \in CallState : /\ call' = [call EXCEPT ![c] = s]
                             /\ s.tokens = Absent /\ (s.done => s.stage = "idle")
  <2> DEFINE again == [Idle EXCEPT !.kind = call[c].kind, !.stage = "waiting", !.retried = TRUE, !.done = done]
             rest == [Idle EXCEPT !.done = done]
  <2>1. /\ again \in CallState /\ again.tokens = Absent /\ again.done = done
        /\ rest \in CallState /\ rest.tokens = Absent /\ rest.stage = "idle"
    <3>1. ASSUME NEW r \in CallState
          PROVE  LET w == [r EXCEPT !.kind = call[c].kind, !.stage = "waiting", !.retried = TRUE, !.done = done]
                     e == [r EXCEPT !.done = done]
                 IN  /\ w \in CallState /\ w.tokens = r.tokens /\ w.done = done
                     /\ e \in CallState /\ e.tokens = r.tokens /\ e.stage = r.stage
      BY <1>1 DEF CallState
    <3>2. Idle \in CallState /\ Idle.tokens = Absent /\ Idle.stage = "idle"
      BY SessionTypes DEF Idle
    <3> QED BY <3>1, <3>2
  <2>2. CASE Resends(c, a)
    <3>1. done = FALSE /\ call' = [call EXCEPT ![c] = again]
      BY <2>2 DEF Settle, Resends
    <3> QED BY <2>1, <3>1
  <2>3. CASE ~Resends(c, a)
    <3>1. call' = [call EXCEPT ![c] = rest]
      BY <2>3 DEF Settle
    <3> QED BY <2>1, <3>1
  <2> QED BY <2>2, <2>3
<1>7. /\ call' \in [Call -> CallState] /\ CarriedOutOnce'
      /\ \A d \in Call : call'[d].tokens \in Issued'
  <2>1. \A d \in Call : call'[d] = IF d = c THEN s ELSE call[d]
    BY <1>1, <1>6
  <2> QED BY <1>1, <1>6, <2>1, AccountFacts DEF CarriedOutOnce
<1>8. /\ renewal' \in [Renewal -> RenewalState]
      /\ \A w \in Renewal : \/ renewal'[w] = renewal[w]
                            \/ renewal'[w].stage # "replied" /\ renewal'[w].sent \in Issued'
  <2>1. CASE UNCHANGED renewal
    BY <1>1, <2>1 DEF SessionTypeOK
  <2>2. CASE JoinRenewal(TabOf[c], jar')
    BY <1>1, <1>4, <2>2, JoinStep
  <2> QED BY <2>1, <2>2 DEF Settle
<1>9. logout' \in [Tab -> LogoutState] /\ login' \in [Tab -> BOOLEAN] /\ page' \in [Tab -> PageState]
  <2>1. logout' \in [Tab -> LogoutState]
    BY <1>1, <1>4, LogoutStep DEF Settle, SessionTypeOK
  <2>2. page' \in [Tab -> PageState]
    BY <1>1, Places, GoStep DEF Settle, SessionTypeOK
  <2> QED BY <1>1, <2>1, <2>2 DEF Settle, SessionTypeOK
<1> QED BY <1>4, <1>5, <1>7, <1>8, <1>9
-----------------------------------------------------------------------------
(* Each action keeps the invariant, and a session that lives on leaves the *)
(* browser for a cause.                                                    *)

(* Most actions leave the cookies or give them a token. *)
LEMMA NotLost ==
  ASSUME SessionInv, jar'.refresh = Absent => jar.refresh = Absent
  PROVE  ~Lost
BY AccountFacts DEF Lost

(* An answered call: the same account, or one whose sessions are over.     *)
LEMMA SettledStep ==
  ASSUME SessionInv, NEW c \in Call, NEW a, NEW done \in BOOLEAN, Settle(c, a, done),
         a = "refused" => done = FALSE, Advanced, Issued' = Issued, faults' \in 0..MaxFaults,
         a = "changed" => account'.live = {}
  PROVE  SessionInv' /\ (Lost => Cause)
<1>1. SessionInv'
  BY SettleStep, Assembled
<1>2. CASE a = "changed"
  BY <1>1, <1>2 DEF Lost
<1>3. CASE a # "changed"
  <2>1. jar'.refresh = Absent => jar.refresh = Absent
    BY <1>3, SettleStep
  <2> QED BY <1>1, <2>1, NotLost
<1> QED BY <1>1, <1>2, <1>3

LEMMA SendStep ==
  ASSUME SessionInv, NEW c \in Call, NEW k \in {"read", "write", "change"}, Send(c, k)
  PROVE  SessionInv' /\ (Lost => Cause)
<1>1. /\ Advanced /\ Issued' = Issued /\ UNCHANGED <<jar, renewal, logout, login, page, faults>>
  BY AccountFacts DEF Send
<1> DEFINE s == [Idle EXCEPT !.kind = k, !.stage = "sent", !.sent = jar]
<1>2. s \in CallState /\ s.tokens = Absent /\ s.done = FALSE
  <2>1. jar \in Cookies
    BY DEF SessionInv, SessionTypeOK
  <2>2. ASSUME NEW r \in CallState
        PROVE  LET w == [r EXCEPT !.kind = k, !.stage = "sent", !.sent = jar]
               IN  w \in CallState /\ w.tokens = r.tokens /\ w.done = r.done
    BY <2>1 DEF CallState
  <2>3. Idle \in CallState /\ Idle.tokens = Absent /\ Idle.done = FALSE
    BY SessionTypes DEF Idle
  <2> QED BY <2>2, <2>3
<1>3. call' = [call EXCEPT ![c] = s]
  BY DEF Send
<1> HIDE DEF s
<1>4. \A d \in Call : call'[d] = IF d = c THEN s ELSE call[d]
  BY <1>3 DEF SessionInv, SessionTypeOK
<1>5. /\ call' \in [Call -> CallState] /\ CarriedOutOnce'
      /\ \A d \in Call : call'[d].tokens \in Issued'
  BY <1>1, <1>2, <1>3, <1>4, AccountFacts
     DEF SessionInv, SessionTypeOK, IssuedInv, CarriedOutOnce
<1>6. SessionInv'
  BY <1>1, <1>5, Parts, Assembled
<1> QED BY <1>1, <1>6, NotLost

LEMMA AcceptStep ==
  ASSUME SessionInv, NEW c \in Call, Accept(c)
  PROVE  SessionInv' /\ (Lost => Cause)
<1>1. faults' \in 0..MaxFaults
  BY DEF Accept, SessionInv, SessionTypeOK
<1>2. UNCHANGED account => Advanced /\ Issued' = Issued
  BY AccountFacts
<1>3. CASE /\ account' = [account EXCEPT !.live = {}, !.must = FALSE]
           /\ Settle(c, "changed", TRUE)
  BY <1>1, <1>3, PasswordSet, SettledStep
<1>4. CASE Settle(c, "refused", FALSE) /\ UNCHANGED account
  BY <1>1, <1>2, <1>4, SettledStep
<1>5. CASE Settle(c, "must", FALSE) /\ UNCHANGED account
  BY <1>1, <1>2, <1>5, SettledStep
<1>6. CASE Settle(c, "ok", call[c].kind = "write") /\ UNCHANGED account
  BY <1>1, <1>2, <1>6, SettledStep
<1> QED BY <1>3, <1>4, <1>5, <1>6 DEF Accept

(* proxy keeps a call to renew by itself, and sends it again with tokens.  *)
LEMMA ProxyStep ==
  ASSUME SessionInv, NEW c \in Call, call[c].stage # "idle",
         NEW st \in {"renewing", "again"}, NEW tok \in Issued,
         call' = [call EXCEPT ![c] = [call[c] EXCEPT !.stage = st, !.tokens = tok]],
         UNCHANGED <<account, jar, renewal, logout, login, page>>, faults' \in 0..MaxFaults
  PROVE  SessionInv' /\ (Lost => Cause)
<1>1. Advanced /\ Issued' = Issued /\ tok \in Cookie
  BY AccountFacts
<1>2. call[c] \in CallState /\ call \in [Call -> CallState] /\ call[c].done = FALSE
  BY DEF SessionInv, SessionTypeOK, CarriedOutOnce, CallState
<1> DEFINE s == [call[c] EXCEPT !.stage = st, !.tokens = tok]
<1>3. s \in CallState /\ s.tokens = tok /\ s.done = FALSE
  BY <1>1, <1>2 DEF CallState
<1>4. call' = [call EXCEPT ![c] = s]
  OBVIOUS
<1> HIDE DEF s
<1>5. \A d \in Call : call'[d] = IF d = c THEN s ELSE call[d]
  BY <1>2, <1>4
<1>6. /\ call' \in [Call -> CallState] /\ CarriedOutOnce'
      /\ \A d \in Call : call'[d].tokens \in Issued'
  BY <1>1, <1>2, <1>3, <1>4, <1>5 DEF SessionInv, IssuedInv, CarriedOutOnce
<1>7. SessionInv'
  BY <1>1, <1>6, Parts, Assembled
<1> QED BY <1>7, NotLost

LEMMA RefuseStep ==
  ASSUME SessionInv, NEW c \in Call, Refuse(c)
  PROVE  SessionInv' /\ (Lost => Cause)
<1>1. faults' \in 0..MaxFaults /\ Advanced /\ Issued' = Issued
  BY FaultStep, AccountFacts DEF Refuse, SessionInv, SessionTypeOK
<1>2. CASE Settle(c, "refused", FALSE)
  BY <1>1, <1>2, SettledStep
<1>3. CASE /\ call' = [call EXCEPT ![c].stage = "renewing"]
           /\ UNCHANGED <<jar, renewal, logout, login, page>>
  <2>1. call[c] \in CallState /\ call[c].tokens \in Issued
    BY DEF SessionInv, SessionTypeOK, IssuedInv
  <2>2. [call[c] EXCEPT !.stage = "renewing"]
          = [call[c] EXCEPT !.stage = "renewing", !.tokens = call[c].tokens]
    BY <2>1 DEF CallState
  <2>3. call' = [call EXCEPT ![c] = [call[c] EXCEPT !.stage = "renewing", !.tokens = call[c].tokens]]
    BY <1>3, <2>2
  <2> QED BY <1>1, <1>3, <2>1, <2>3, ProxyStep DEF Refuse
<1> QED BY <1>2, <1>3 DEF Refuse

LEMMA RenewedStep ==
  ASSUME SessionInv, NEW c \in Call, Renewed(c)
  PROVE  SessionInv' /\ (Lost => Cause)
<1>1. faults' \in 0..MaxFaults /\ Advanced /\ Issued' = Issued
  BY AccountFacts DEF Renewed, SessionInv, SessionTypeOK
<1>2. CASE Settle(c, "refused", FALSE)
  BY <1>1, <1>2, SettledStep
<1>3. CASE /\ call[c].sent.refresh \in account.live
           /\ call' = [call EXCEPT ![c].stage = "again", ![c].tokens = call[c].sent.refresh]
           /\ UNCHANGED <<jar, renewal, logout, login, page>>
  <2>1. call[c].sent.refresh \in Issued
    BY <1>3 DEF SessionInv, IssuedInv, Issued
  <2>2. call' = [call EXCEPT ![c] = [call[c] EXCEPT !.stage = "again", !.tokens = call[c].sent.refresh]]
    BY <1>3 DEF SessionInv, SessionTypeOK
  <2> QED BY <1>1, <1>3, <2>1, <2>2, ProxyStep DEF Renewed
<1> QED BY <1>2, <1>3 DEF Renewed

LEMMA OutageStep ==
  ASSUME SessionInv, NEW c \in Call, Outage(c)
  PROVE  SessionInv' /\ (Lost => Cause)
<1>1. faults' \in 0..MaxFaults
  BY FaultStep DEF Outage
<1>2. Advanced /\ Issued' = Issued
  BY PasswordSet, AccountFacts DEF Outage
<1>3. PICK served \in BOOLEAN : Settle(c, "down", served)
  BY DEF Outage
<1> QED BY <1>1, <1>2, <1>3, SettledStep
(* The answer to a renewal says whether its token lives, or nothing. *)
LEMMA RenewalAnsweredStep ==
  ASSUME SessionInv, NEW w \in Renewal, RenewalAnswered(w)
  PROVE  SessionInv' /\ (Lost => Cause)
<1>1. /\ UNCHANGED <<account, jar, call, logout, login, page>> /\ faults' \in 0..MaxFaults
      /\ Advanced /\ Issued' = Issued
  BY FaultStep, AccountFacts DEF RenewalAnswered, SessionInv, SessionTypeOK
<1>2. PICK a \in {"ok", "refused", "down"} :
        /\ renewal' = [renewal EXCEPT ![w] = [renewal[w] EXCEPT !.stage = "replied", !.answer = a]]
        /\ a = "ok" => renewal[w].sent \in account.live
        /\ a = "refused" => renewal[w].sent \notin account.live
  <2>1. renewal \in [Renewal -> RenewalState]
    BY DEF SessionInv, SessionTypeOK
  <2>2. ASSUME NEW a
        PROVE  [renewal EXCEPT ![w].stage = "replied", ![w].answer = a]
                 = [renewal EXCEPT ![w] = [renewal[w] EXCEPT !.stage = "replied", !.answer = a]]
    BY <2>1
  <2> QED BY <2>2 DEF RenewalAnswered
<1> DEFINE s == [renewal[w] EXCEPT !.stage = "replied", !.answer = a]
<1>3. s \in RenewalState /\ s.sent = renewal[w].sent /\ s.answer = a
  BY DEF SessionInv, SessionTypeOK, RenewalState
<1>4. renewal' = [renewal EXCEPT ![w] = s]
  BY <1>2
<1> HIDE DEF s
<1>5. \A v \in Renewal : renewal'[v] = IF v = w THEN s ELSE renewal[v]
  BY <1>4 DEF SessionInv, SessionTypeOK
<1>6. SessionTypeOK'
  BY <1>1, <1>3, <1>4 DEF SessionInv, SessionTypeOK
<1>7. IssuedInv' /\ CarriedOutOnce'
  BY <1>1, <1>3, <1>5 DEF SessionInv, IssuedInv, CarriedOutOnce
<1>8. AnswerInv'
  BY <1>1, <1>2, <1>3, <1>5, AccountFacts DEF SessionInv, AnswerInv
<1> QED BY <1>1, <1>6, <1>7, <1>8, NotLost DEF SessionInv

(* Only the refusal of a dead token clears the cookies. *)
LEMMA CookiesStep ==
  ASSUME SessionInv, NEW w \in Renewal, renewal[w].stage = "replied", jar' = CookiesAfter(w),
         Issued' = Issued
  PROVE  /\ jar' \in Cookies /\ jar'.refresh \in Issued'
         /\ Lost => Cause
<1>1. /\ renewal[w] \in RenewalState /\ renewal[w].sent \in Issued /\ renewal[w].sent \in Cookie
      /\ jar \in Cookies /\ jar.refresh \in Issued
  BY DEF SessionInv, SessionTypeOK, IssuedInv, RenewalState
<1>2. CASE renewal[w].answer = "ok"
  <2>1. jar' = Pair(renewal[w].sent) /\ renewal[w].sent # Absent
    BY <1>2 DEF CookiesAfter, SessionInv, AnswerInv
  <2> QED BY <1>1, <2>1, SessionTypes DEF Lost
<1>3. CASE renewal[w].answer = "refused"
  <2>1. jar' = NoCookies /\ renewal[w].sent \notin account.live
    BY <1>3 DEF CookiesAfter, SessionInv, AnswerInv
  <2> QED BY <2>1, SessionTypes, AccountFacts DEF Cause
<1>4. CASE renewal[w].answer \notin {"ok", "refused"}
  <2>1. jar' = jar
    BY <1>4 DEF CookiesAfter
  <2> QED BY <1>1, <2>1, NotLost
<1> QED BY <1>2, <1>3, <1>4

LEMMA CallsRenewedStep ==
  ASSUME SessionInv, NEW t \in Tab, CallsRenewed(t)
  PROVE  SessionInv' /\ (Lost => Cause)
<1> DEFINE w == <<t, "calls">>
<1>1. /\ w \in Renewal /\ renewal[w].stage = "replied" /\ jar' = CookiesAfter(w)
      /\ UNCHANGED <<account, faults>> /\ Advanced /\ Issued' = Issued
      /\ call \in [Call -> CallState] /\ renewal \in [Renewal -> RenewalState]
  BY AccountFacts DEF CallsRenewed, Renewal, SessionInv, SessionTypeOK
<1>2. jar' \in Cookies /\ jar'.refresh \in Issued' /\ (Lost => Cause)
  BY <1>1, CookiesStep
<1>3. CASE /\ call' = [c \in Call |-> IF c \in Waiting(t)
                         THEN [call[c] EXCEPT !.stage = "sent", !.sent = jar'] ELSE call[c]]
           /\ renewal' = [renewal EXCEPT ![w] = Quiet]
           /\ UNCHANGED <<logout, login, page>>
  <2>1. ASSUME NEW c \in Call, NEW j \in Cookies
        PROVE  LET d == [call[c] EXCEPT !.stage = "sent", !.sent = j]
               IN  d \in CallState /\ d.tokens = call[c].tokens /\ d.done = call[c].done
    BY <1>1 DEF CallState
  <2>2. ASSUME NEW c \in Call
        PROVE  /\ call'[c] \in CallState /\ call'[c].tokens = call[c].tokens
               /\ call'[c].done => call'[c].stage = "idle"
    <3>1. call[c].done => call[c].stage = "idle"
      BY DEF SessionInv, CarriedOutOnce
    <3>2. CASE c \in Waiting(t)
      <4>1. call[c].stage = "waiting" /\ ~call[c].done
        BY <3>1, <3>2 DEF Waiting
      <4>2. call'[c] = [call[c] EXCEPT !.stage = "sent", !.sent = jar']
        BY <1>3, <3>2
      <4> HIDE DEF w
      <4>3. /\ call'[c] \in CallState /\ call'[c].tokens = call[c].tokens
            /\ call'[c].done = call[c].done
        BY <1>2, <2>1, <4>2
      <4> QED BY <4>1, <4>3
    <3>3. CASE c \notin Waiting(t)
      BY <1>1, <1>3, <3>1, <3>3
    <3> QED BY <3>2, <3>3
  <2>3. /\ call' \in [Call -> CallState] /\ CarriedOutOnce'
        /\ \A c \in Call : call'[c].tokens \in Issued'
    <3>1. call' \in [Call -> CallState]
      <4>1. DOMAIN call' = Call /\ call' = [c \in Call |-> call'[c]]
        BY <1>3
      <4> QED BY <2>2, <4>1
    <3>2. CarriedOutOnce'
      BY <2>2 DEF CarriedOutOnce
    <3>3. \A c \in Call : call[c].tokens \in Issued
      BY DEF SessionInv, IssuedInv
    <3> QED BY <1>1, <2>2, <3>1, <3>2, <3>3
  <2>4. /\ renewal' \in [Renewal -> RenewalState]
        /\ \A v \in Renewal : renewal'[v] \in {renewal[v], Quiet}
    BY <1>1, <1>3, SessionTypes
  <2>5. SessionInv'
    BY <1>1, <1>2, <1>3, <2>3, <2>4, SessionTypes, AccountFacts, Parts, Assembled
  <2> QED BY <1>2, <2>5
<1>4. CASE Leave(t) /\ StartLogout(t, jar') /\ Go(t, "login")
  <2>1. logout' \in [Tab -> LogoutState] /\ page' \in [Tab -> PageState]
    BY <1>2, <1>4, LogoutStep, GoStep, Places DEF SessionInv
  <2>2. SessionInv'
    BY <1>1, <1>2, <1>4, <2>1, LeaveStep, Parts, Assembled
  <2> QED BY <1>2, <2>2
<1> QED BY <1>3, <1>4 DEF CallsRenewed

LEMMA PageRenewedStep ==
  ASSUME SessionInv, NEW t \in Tab, PageRenewed(t)
  PROVE  SessionInv' /\ (Lost => Cause)
<1> DEFINE w == <<t, "page">>
<1>1. /\ w \in Renewal /\ renewal[w].stage = "replied" /\ jar' = CookiesAfter(w)
      /\ UNCHANGED <<account, call, logout, login, faults>> /\ Advanced /\ Issued' = Issued
      /\ renewal' = [renewal EXCEPT ![w] = Quiet] /\ renewal \in [Renewal -> RenewalState]
  BY AccountFacts DEF PageRenewed, Renewal, SessionInv, SessionTypeOK
<1>2. jar' \in Cookies /\ jar'.refresh \in Issued' /\ (Lost => Cause)
  BY <1>1, CookiesStep
<1>3. /\ renewal' \in [Renewal -> RenewalState]
      /\ \A v \in Renewal : renewal'[v] \in {renewal[v], Quiet}
  BY <1>1, SessionTypes
<1>4. page' \in [Tab -> PageState]
  <2>1. page[t].return \in Place
    BY DEF SessionInv, SessionTypeOK, PageState
  <2> QED BY <2>1, GoStep, Places DEF PageRenewed, SessionInv
<1>5. SessionInv'
  BY <1>1, <1>2, <1>3, <1>4, SessionTypes, AccountFacts, Parts, Assembled
<1> QED BY <1>2, <1>5
LEMMA LogOutStep ==
  ASSUME SessionInv, NEW t \in Tab, LogOut(t)
  PROVE  SessionInv' /\ (Lost => Cause)
<1>1. Advanced /\ Issued' = Issued /\ UNCHANGED <<jar, call, renewal, login, page, faults>>
  BY AccountFacts DEF LogOut
<1>2. logout' \in [Tab -> LogoutState]
  BY LogoutStep DEF LogOut, SessionInv, SessionTypeOK
<1>3. SessionInv'
  BY <1>1, <1>2, Parts, Assembled
<1> QED BY <1>1, <1>3, NotLost

(* A logout takes the cookies when Go ended the sessions or knew none.     *)
LEMMA LoggedOutStep ==
  ASSUME SessionInv, NEW t \in Tab, LoggedOut(t)
  PROVE  SessionInv' /\ (Lost => Cause)
<1>1. PICK reached, seen \in BOOLEAN :
        /\ IF reached /\ seen THEN UNCHANGED faults ELSE Fault
        /\ account' = IF reached /\ {logout[t].sent.access, logout[t].sent.refresh} \cap account.live # {}
                      THEN [account EXCEPT !.live = {}] ELSE account
        /\ jar' = IF seen THEN NoCookies ELSE jar
  BY DEF LoggedOut
<1>2. Advanced /\ Issued' = Issued
  BY <1>1, AllEnd, AccountFacts
<1>3. faults' \in 0..MaxFaults
  BY <1>1, FaultStep DEF SessionInv, SessionTypeOK
<1>4. jar' \in Cookies /\ jar'.refresh \in Issued'
  BY <1>1, <1>2, SessionTypes, AccountFacts DEF SessionInv, SessionTypeOK, IssuedInv
<1>5. logout' \in [Tab -> LogoutState] /\ page' \in [Tab -> PageState]
  BY SessionTypes, GoStep, Places DEF LoggedOut, SessionInv, SessionTypeOK
<1>6. SessionInv'
  BY <1>2, <1>3, <1>4, <1>5, LeaveStep, Assembled DEF LoggedOut
<1>7. ASSUME Lost
      PROVE  Cause
  <2>1. CASE ~(reached /\ seen)
    BY <1>1, <2>1, FaultStep DEF Cause
  <2>2. CASE reached /\ seen
    <3>1. account'.live # {}
      BY <1>7 DEF Lost
    <3>2. logout[t].sent.refresh \notin account.live
      BY <1>1, <2>2, <3>1, AllEnd
    <3> QED BY <3>2 DEF Cause, LoggedOut
  <2> QED BY <2>1, <2>2
<1> QED BY <1>6, <1>7

LEMMA LogInStep ==
  ASSUME SessionInv, NEW t \in Tab, LogIn(t)
  PROVE  SessionInv' /\ (Lost => Cause)
<1>1. Advanced /\ Issued' = Issued /\ UNCHANGED <<jar, call, renewal, logout, page, faults>>
  BY AccountFacts DEF LogIn
<1>2. login' \in [Tab -> BOOLEAN]
  BY DEF LogIn, SessionInv, SessionTypeOK
<1>3. SessionInv'
  BY <1>1, <1>2, Parts, Assembled
<1> QED BY <1>1, <1>3, NotLost

(* The session that is opened has the next number. *)
LEMMA OpenedStep ==
  ASSUME SessionInv, NEW s \in Session, s = account.opened + 1,
         account' = [account EXCEPT !.live = @ \cup {s}, !.opened = s]
  PROVE  Advanced /\ Issued \subseteq Issued' /\ s \in Issued'
<1>1. /\ account \in Account /\ MaxLogins \in Nat /\ account.opened \in Nat
      /\ account.live \subseteq 1..account.opened
  BY AccountFacts, SessionAssumption DEF SessionInv, IssuedInv
<1>2. s \in 0..MaxLogins /\ account.live \cup {s} \subseteq Session
  BY <1>1, AccountFacts DEF Session
<1>3. account'.opened = s /\ account'.live = account.live \cup {s}
  BY <1>1 DEF Account
<1>4. account' \in Account
  BY <1>1, <1>2 DEF Account
<1> QED BY <1>1, <1>3, <1>4 DEF Advanced, Issued

LEMMA LoggedInStep ==
  ASSUME SessionInv, NEW t \in Tab, LoggedIn(t)
  PROVE  SessionInv' /\ (Lost => Cause)
<1> DEFINE s == account.opened + 1
           opened == account' = [account EXCEPT !.live = @ \cup {s}, !.opened = s]
<1>1. login' \in [Tab -> BOOLEAN] /\ UNCHANGED <<call, renewal, logout>>
  BY DEF LoggedIn, SessionInv, SessionTypeOK
<1>2. page' \in [Tab -> PageState]
  BY GoStep, Places DEF LoggedIn, SessionInv, SessionTypeOK
<1>3. faults' \in 0..MaxFaults
  BY FaultStep DEF LoggedIn, SessionInv, SessionTypeOK
<1>4. CASE s \in Session /\ opened /\ (jar' = Pair(s) \/ jar' = jar)
  <2>1. Advanced /\ Issued \subseteq Issued' /\ s \in Issued'
    BY <1>4, OpenedStep
  <2>2. jar' \in Cookies /\ jar'.refresh \in Issued' /\ ~Lost
    <3>1. CASE jar' = jar
      BY <2>1, <3>1, Parts, NotLost
    <3>2. CASE jar' = Pair(s)
      BY <1>4, <2>1, <3>2, SessionTypes DEF Lost
    <3> QED BY <1>4, <3>1, <3>2
  <2>3. SessionInv'
    BY <1>1, <1>2, <1>3, <2>1, <2>2, Parts, Assembled
  <2> QED BY <2>2, <2>3
<1>5. CASE UNCHANGED <<account, jar>>
  <2>1. Advanced /\ Issued' = Issued
    BY <1>5, AccountFacts
  <2>2. SessionInv'
    BY <1>1, <1>2, <1>3, <1>5, <2>1, Parts, Assembled
  <2> QED BY <1>5, <2>2, NotLost
<1> QED BY <1>4, <1>5 DEF LoggedIn

LEMMA VisitStep ==
  ASSUME SessionInv, NEW t \in Tab, NEW p \in Asked, Visit(t, p)
  PROVE  SessionInv' /\ (Lost => Cause)
<1>1. Advanced /\ Issued' = Issued /\ UNCHANGED <<jar, call, renewal, logout, login, faults>>
  BY AccountFacts DEF Visit
<1>2. page' \in [Tab -> PageState]
  BY GoStep, SessionAssumption DEF Visit, SessionInv
<1>3. SessionInv'
  BY <1>1, <1>2, Parts, Assembled
<1> QED BY <1>1, <1>3, NotLost

LEMMA ShowStep ==
  ASSUME SessionInv, NEW t \in Tab, Show(t)
  PROVE  SessionInv' /\ (Lost => Cause)
<1> DEFINE p == page[t].at
<1>1. /\ Advanced /\ Issued' = Issued /\ UNCHANGED <<account, jar, call, login>>
      /\ page[t] \in PageState /\ p \in Place
  BY AccountFacts DEF Show, SessionInv, SessionTypeOK, PageState
<1>2. PICK user \in BOOLEAN :
        /\ IF jar.access \in account.live /\ ~user THEN Fault ELSE UNCHANGED faults
        /\ page' = [page EXCEPT ![t] =
                      IF Admits(p, user) THEN [page[t] EXCEPT !.stage = "shown"]
                      ELSE IF Redirect(user) = "renew" THEN [At("renew") EXCEPT !.return = p]
                      ELSE At(Redirect(user))]
  BY DEF Show, SessionInv, SessionTypeOK
<1>3. faults' \in 0..MaxFaults
  BY <1>2, FaultStep DEF SessionInv, SessionTypeOK
<1>4. page' \in [Tab -> PageState]
  <2>1. [page[t] EXCEPT !.stage = "shown"] \in PageState
    BY <1>1 DEF PageState
  <2>2. [At("renew") EXCEPT !.return = p] \in PageState
    <3>1. At("renew") \in PageState
      BY Places
    <3> QED BY <1>1, <3>1 DEF PageState
  <2>3. Redirect(user) \in Place
    BY Places DEF Redirect
  <2>4. At(Redirect(user)) \in PageState
    BY <2>3, Places
  <2>5. PICK s \in PageState : page' = [page EXCEPT ![t] = s]
    BY <1>2, <2>1, <2>2, <2>4
  <2> QED BY <2>5 DEF SessionInv, SessionTypeOK
<1>5. /\ renewal' \in [Renewal -> RenewalState]
      /\ \A w \in Renewal : \/ renewal'[w] = renewal[w]
                            \/ renewal'[w].stage # "replied" /\ renewal'[w].sent \in Issued'
  <2> DEFINE s == [Quiet EXCEPT !.stage = "sent", !.sent = jar.refresh]
  <2>1. s \in RenewalState /\ s.stage = "sent" /\ s.sent = jar.refresh
    BY DEF SessionInv, SessionTypeOK, Quiet, RenewalState, Cookies
  <2>2. renewal' \in {renewal, [renewal EXCEPT ![<<t, "page">>] = s]}
    BY DEF Show
  <2> HIDE DEF s
  <2>3. \A w \in Renewal : renewal'[w] \in {renewal[w], s}
    BY <2>2 DEF SessionInv, SessionTypeOK
  <2>4. renewal' \in [Renewal -> RenewalState]
    BY <2>1, <2>2 DEF SessionInv, SessionTypeOK
  <2> QED BY <1>1, <2>1, <2>3, <2>4 DEF SessionInv, IssuedInv
<1>6. logout' \in [Tab -> LogoutState]
  BY SessionTypes DEF Show, SessionInv, SessionTypeOK
<1>7. SessionInv'
  BY <1>1, <1>3, <1>4, <1>5, <1>6, Parts, Assembled
<1> QED BY <1>1, <1>7, NotLost

LEMMA UseLinkStep ==
  ASSUME SessionInv, NEW t \in Tab, UseLink(t)
  PROVE  SessionInv' /\ (Lost => Cause)
<1>1. Advanced /\ Issued' = Issued /\ UNCHANGED <<jar, call, renewal, logout, login>>
  BY PasswordSet DEF UseLink
<1>2. page' \in [Tab -> PageState] /\ faults' \in 0..MaxFaults
  BY FaultStep, GoStep, Places DEF UseLink, SessionInv
<1>3. SessionInv'
  BY <1>1, <1>2, Parts, Assembled
<1> QED BY <1>1, <1>3, NotLost

LEMMA SessionsEndStep ==
  ASSUME SessionInv, SessionsEnd
  PROVE  SessionInv' /\ (Lost => Cause)
<1>1. UNCHANGED <<jar, call, renewal, logout, login, page>> /\ faults' \in 0..MaxFaults
  BY FaultStep DEF SessionsEnd
<1>2. account \in Account
  BY AccountFacts
<1>3. Advanced /\ Issued' = Issued
  <2>1. ASSUME NEW r \in Role, NEW m \in BOOLEAN,
               account' = [account EXCEPT !.role = r, !.must = m, !.live = {}]
        PROVE  Advanced /\ Issued' = Issued
    <3>1. account' = [role |-> r, must |-> m, live |-> {}, opened |-> account.opened]
      BY <1>2, <2>1 DEF Account
    <3> QED BY <3>1, EndStep
  <2>2. ASSUME NEW s \in account.live, account' = [account EXCEPT !.live = @ \ {s}]
        PROVE  Advanced /\ Issued' = Issued
    <3>1. /\ account' = [role |-> account.role, must |-> account.must,
                         live |-> account.live \ {s}, opened |-> account.opened]
          /\ account.role \in Role /\ account.must \in BOOLEAN
      BY <1>2, <2>2 DEF Account
    <3> QED BY <3>1, EndStep
  <2> QED BY <2>1, <2>2 DEF SessionsEnd
<1>4. SessionInv'
  BY <1>1, <1>3, Parts, Assembled
<1> QED BY <1>1, <1>4, NotLost

LEMMA DropCookieStep ==
  ASSUME SessionInv, DropCookie
  PROVE  SessionInv' /\ (Lost => Cause)
<1>1. /\ Advanced /\ Issued' = Issued /\ UNCHANGED <<account, call, renewal, logout, login, page>>
      /\ faults' \in 0..MaxFaults /\ faults' < faults
  BY FaultStep, AccountFacts DEF DropCookie
<1>2. jar' \in Cookies /\ jar'.refresh \in Issued'
  BY <1>1, SessionTypes, AccountFacts DEF DropCookie, SessionInv, SessionTypeOK, IssuedInv, Cookies
<1>3. SessionInv'
  BY <1>1, <1>2, Parts, Assembled
<1> QED BY <1>1, <1>3 DEF Cause

-----------------------------------------------------------------------------
LEMMA InitSession == SessionInit => SessionInv
<1> SUFFICES ASSUME SessionInit PROVE SessionInv
  OBVIOUS
<1>1. account \in Account /\ account.live = {} /\ MaxFaults \in Nat
  BY SessionAssumption DEF SessionInit, Account, Session
<1>2. SessionTypeOK
  BY <1>1, SessionTypes, Places DEF SessionInit, SessionTypeOK
<1>3. CarriedOutOnce
  BY SessionTypes DEF SessionInit, CarriedOutOnce
<1>4. IssuedInv
  BY <1>1, SessionTypes DEF SessionInit, IssuedInv, Issued
<1>5. AnswerInv
  BY SessionTypes DEF SessionInit, AnswerInv
<1> QED BY <1>2, <1>3, <1>4, <1>5 DEF SessionInv

LEMMA NextSession ==
  ASSUME SessionInv, [SessionNext]_sessionVars
  PROVE  SessionInv' /\ [Lost => Cause]_sessionVars
<1>1. CASE UNCHANGED sessionVars
  <2>1. UNCHANGED <<account, jar, call, renewal, logout, login, page, faults>>
    BY <1>1 DEF sessionVars
  <2>2. Advanced /\ Issued' = Issued
    BY <2>1, AccountFacts
  <2>3. SessionInv'
    BY <2>1, <2>2, Parts, Assembled
  <2> QED BY <1>1, <2>3
<1>2. ASSUME NEW c \in Call, NEW k \in {"read", "write"}, StartCall(c, k)
      PROVE  SessionInv' /\ (Lost => Cause)
  BY <1>2, SendStep DEF StartCall
<1>3. ASSUME NEW c \in Call, SubmitPassword(c)
      PROVE  SessionInv' /\ (Lost => Cause)
  BY <1>3, SendStep DEF SubmitPassword
<1>4. ASSUME NEW c \in Call, Accept(c) \/ Refuse(c) \/ Renewed(c) \/ Outage(c)
      PROVE  SessionInv' /\ (Lost => Cause)
  BY <1>4, AcceptStep, RefuseStep, RenewedStep, OutageStep
<1>5. ASSUME NEW w \in Renewal, RenewalAnswered(w)
      PROVE  SessionInv' /\ (Lost => Cause)
  BY <1>5, RenewalAnsweredStep
<1>6. ASSUME NEW t \in Tab, \/ CallsRenewed(t) \/ PageRenewed(t) \/ LogOut(t) \/ LoggedOut(t)
                            \/ LogIn(t) \/ LoggedIn(t) \/ Show(t) \/ UseLink(t)
      PROVE  SessionInv' /\ (Lost => Cause)
  BY <1>6, CallsRenewedStep, PageRenewedStep, LogOutStep, LoggedOutStep, LogInStep, LoggedInStep,
     ShowStep, UseLinkStep
<1>7. ASSUME NEW t \in Tab, NEW p \in Asked, Visit(t, p)
      PROVE  SessionInv' /\ (Lost => Cause)
  BY <1>7, VisitStep
<1>8. CASE SessionsEnd \/ DropCookie
  BY <1>8, SessionsEndStep, DropCookieStep
<1> QED BY <1>1, <1>2, <1>3, <1>4, <1>5, <1>6, <1>7, <1>8 DEF SessionNext

(* The invariant of the session, for any tabs, calls, roles, sessions and  *)
(* faults.                                                                 *)
THEOREM SessionInvariant == SessionSpec => []SessionInv
<1>1. SessionInv /\ [SessionNext]_sessionVars => SessionInv'
  BY NextSession
<1> QED BY <1>1, InitSession, PTL DEF SessionSpec

THEOREM SessionTypeCorrect == SessionSpec => []SessionTypeOK
BY SessionInvariant, PTL DEF SessionInv

(* What a call has carried out is never sent again. *)
THEOREM SessionCarriesOutOnce == SessionSpec => []CarriedOutOnce
BY SessionInvariant, PTL DEF SessionInv

(* A session that lives on leaves the browser for a fault, or because a    *)
(* token that was dead already was refused.                                *)
THEOREM SessionLostForCause == SessionSpec => LostForCause
<1>1. SessionInv /\ [SessionNext]_sessionVars => [Lost => Cause]_sessionVars
  BY NextSession
<1> QED BY <1>1, SessionInvariant, PTL DEF SessionSpec, LostForCause
=============================================================================

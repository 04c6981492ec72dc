--------------------------- MODULE MCCheckInForm ---------------------------
(* CheckInForm with lookups limited in number. *)
EXTENDS CheckInForm, FiniteSets, TLC

CONSTANT MaxLookups

Requests == {i \in Submission : sub[i] # Over}

(* The values of personal data of the form, the server and the submissions. *)
Values ==
  LET In(f) == {f.original} \cup (IF f.data = None THEN {} ELSE {f.data.value}) IN
  (In(form) \cup {stored[d] : d \in Doc} \cup UNION {In(sub[i].form) : i \in Requests}) \ {None}

(* The vehicle and the photo are tried out while no request is under way,  *)
(* and a file may be read while a lookup is: bounds the states, not what a *)
(* request may meet.  Two values meet one lookup or one submission; two of *)
(* each are about one value: whether a submission saves its change is its  *)
(* own affair, and whose data it carries no matter of values.              *)
Bound ==
  /\ Cardinality(lookups) <= MaxLookups
  /\ Cardinality(Values) <= 1 \/ Cardinality(lookups) + Cardinality(Requests) <= 1
  /\ lookups # {} \/ Requests # {} =>
       /\ form.vehicle
       /\ photo.camera = "off"
       /\ photo.reader # None => Requests = {}
Symmetry == Permutations(Doc) \cup Permutations(Value) \cup Permutations(Submission)
=============================================================================

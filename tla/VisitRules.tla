----------------------------- MODULE VisitRules -----------------------------
(***************************************************************************)
(* The data of a visit and what one desk operation does to it: the         *)
(* Visits row with its IntermittentLogs, the partial unique indexes of     *)
(* db/migrations, and the switch over operations in transition() of        *)
(* internal/httpapi/visits.go.  Shared by the abstract life cycle          *)
(* (VisitLifecycle) and by the concurrent desk (VisitDesk).                *)
(***************************************************************************)
EXTENDS Naturals

CONSTANTS
  Identity,  \* keyed hashes of identity documents (Visits.visitor_cedula)
  Visit,     \* ids the Visits sequence can hand out
  None       \* SQL NULL, or no value yet

ASSUME NoneAssumption == None \notin Identity /\ None \notin Visit

-----------------------------------------------------------------------------
Status == {"waiting", "active", "intermittent", "completed", "cancelled"}

(* Statuses the index visits_one_open_per_visitor covers. *)
OpenStatus == {"waiting", "active", "intermittent"}

Transition == {"admit", "checkout", "exit", "reentry", "cancel"}

(* A Visits row: stamps says which of entry_time and exit_time (set together
   with check_out_time) are not NULL; away counts the IntermittentLogs rows
   of the visit whose re_entry is NULL. *)
Row == [who    : Identity \cup {None},
        status : Status \cup {"none"},
        stamps : SUBSET {"entry", "exit"},
        away   : Nat]

NoRow == [who |-> None, status |-> "none", stamps |-> {}, away |-> 0]

(* Variant: the index forgets visitors who are out for a while. *)
IsOpenInsideOnly(row) ==
  row.status \in OpenStatus \ {"intermittent"} /\ "exit" \notin row.stamps

(* The predicate of the partial index visits_one_open_per_visitor. *)
IsOpen(row) == row.status \in OpenStatus /\ "exit" \notin row.stamps

-----------------------------------------------------------------------------
(* The row check-in inserts: entry_time is set only for an active visit. *)
Registered(i, status) ==
  [who    |-> i,
   status |-> status,
   stamps |-> IF status = "active" THEN {"entry"} ELSE {},
   away   |-> 0]

(* The status an operation expects to find. *)
Expected(op) ==
  CASE op \in {"admit", "cancel"}  -> "waiting"
    [] op \in {"checkout", "exit"} -> "active"
    [] op = "reentry"              -> "intermittent"

(* The status it leaves. *)
Target(op) ==
  CASE op \in {"admit", "reentry"} -> "active"
    [] op = "checkout"             -> "completed"
    [] op = "exit"                 -> "intermittent"
    [] op = "cancel"               -> "cancelled"

(* Variant: check-out also from outside the building. *)
PermitsLaxCheckout(op, row) ==
  /\ row.status = Expected(op) \/ (op = "checkout" /\ row.status = "intermittent")
  /\ "exit" \notin row.stamps

(* transition() goes on only if the status is the expected one and
   check_out_time is still NULL. *)
Permits(op, row) ==
  /\ row.status = Expected(op)
  /\ "exit" \notin row.stamps

(* The statement on IntermittentLogs succeeds: exit inserts a row under the
   index intermittent_one_open_per_visit, reentry must close exactly one. *)
LogsPermit(op, row) ==
  /\ op = "exit"    => row.away = 0
  /\ op = "reentry" => row.away = 1

(* The row after the operation's statements. *)
After(op, row) ==
  [row EXCEPT
     !.status = Target(op),
     !.stamps = @ \cup (CASE op = "admit"    -> {"entry"}
                          [] op = "checkout" -> {"exit"}
                          [] OTHER           -> {}),
     !.away   = CASE op = "exit"    -> @ + 1
                  [] op = "reentry" -> 0
                  [] OTHER          -> @]
=============================================================================

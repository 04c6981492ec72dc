--------------------------- MODULE VisitLifecycle ---------------------------
(***************************************************************************)
(* What the front desk promises, with every request taking one step: an    *)
(* identity has at most one open visit, a blocked visitor is not checked   *)
(* in, a visit moves only along the life cycle of VisitRules, and every    *)
(* change leaves its entry in the audit log.  VisitDesk shows that the     *)
(* handlers, which run as concurrent transactions, keep this promise.      *)
(***************************************************************************)
EXTENDS VisitRules

VARIABLES
  visitor,  \* visitor[i]: the Visitors row of identity i
  visit,    \* visit[v]: the Visits row with id v
  audit     \* audit[v]: action of the latest ActivityLogs row about visit v

vars == <<visitor, visit, audit>>

(* "absent": no row; otherwise the value of isBlocked. *)
VisitorState == {"absent", "allowed", "blocked"}

HasOpenVisit(i) == \E v \in Visit : visit[v].who = i /\ IsOpen(visit[v])

Init ==
  /\ visitor = [i \in Identity |-> "absent"]
  /\ visit = [v \in Visit |-> NoRow]
  /\ audit = [v \in Visit |-> "none"]

(* A visitor arrives, known or not, and is registered as active or waiting. *)
CheckIn(i, v, status) ==
  /\ visitor[i] # "blocked"
  /\ ~ HasOpenVisit(i)
  /\ visit[v] = NoRow
  /\ visitor' = [visitor EXCEPT ![i] = "allowed"]
  /\ visit' = [visit EXCEPT ![v] = Registered(i, status)]
  /\ audit' = [audit EXCEPT ![v] = "checkin"]

(* One of admit, checkout, exit, reentry and cancel. *)
Move(op, v) ==
  /\ Permits(op, visit[v])
  /\ LogsPermit(op, visit[v])
  /\ visit' = [visit EXCEPT ![v] = After(op, visit[v])]
  /\ audit' = [audit EXCEPT ![v] = op]
  /\ UNCHANGED visitor

(* An administrator blocks or unblocks a registered visitor. *)
SetBlocked(i, value) ==
  /\ visitor[i] # "absent"
  /\ visitor' = [visitor EXCEPT ![i] = value]
  /\ UNCHANGED <<visit, audit>>

Next ==
  \/ \E i \in Identity, v \in Visit, status \in {"active", "waiting"} :
        CheckIn(i, v, status)
  \/ \E op \in Transition, v \in Visit : Move(op, v)
  \/ \E i \in Identity, value \in {"allowed", "blocked"} : SetBlocked(i, value)

Spec == Init /\ [][Next]_vars
=============================================================================

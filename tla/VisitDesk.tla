------------------------------ MODULE VisitDesk ------------------------------
(***************************************************************************)
(* The front desk of server-go/internal/httpapi: checkIn and transition of *)
(* visits.go and the isBlocked edit of editVisitor in visitors.go, run by  *)
(* concurrent requests as PostgreSQL transactions at READ COMMITTED.       *)
(*                                                                         *)
(* visitor, visit and audit are the committed tables.  What a transaction  *)
(* has written stays in pend until it commits; held is the set of locks it *)
(* keeps until it ends: the advisory lock on the keyed hash, Visitors rows *)
(* and Visits rows.  A step is one statement with the Go code up to the    *)
(* next one.  The publication that follows a commit is module EventHub.    *)
(***************************************************************************)
EXTENDS VisitRules, FiniteSets

CONSTANT Session  \* requests the server handles at the same time

VARIABLES
  visitor,  \* as in VisitLifecycle
  visit,
  audit,
  pc,       \* pc[s]: how far the handler of request s has come
  req,      \* req[s]: the request
  pend,     \* pend[s]: its uncommitted writes
  held      \* held[s]: the locks its transaction holds

tables == <<visitor, visit, audit>>
vars == <<visitor, visit, audit, pc, req, pend, held>>

Lifecycle == INSTANCE VisitLifecycle
  WITH visitor <- visitor, visit <- visit, audit <- audit

-----------------------------------------------------------------------------
Hash(i)       == <<"hash", i>>      \* pg_advisory_xact_lock(hash of i)
VisitorRow(i) == <<"visitor", i>>   \* Visitors row, FOR UPDATE or just inserted
VisitRow(v)   == <<"visit", v>>     \* Visits row, FOR UPDATE
Lock == ({"hash", "visitor"} \X Identity) \cup ({"visit"} \X Visit)

Edit == {"allowed", "blocked"}      \* editVisitor sets isBlocked to this

(* data: the body carries valid visitorData for an unknown visitor. *)
CheckInRequest ==
  [op : {"checkin"}, who : Identity, status : {"active", "waiting"}, data : BOOLEAN]
TransitionRequest == [op : Transition, target : Visit]
EditRequest == [op : Edit, who : Identity]
NoRequest == [op |-> "none"]

(* The visitor state and the Visits row a transaction is going to leave. *)
Write == [visitor : {"kept", "allowed", "blocked"}, id : Visit \cup {None}, row : Row]
Writing(state, v, r) == [visitor |-> state, id |-> v, row |-> r]
NoWrite == Writing("kept", None, NoRow)

PC == {"idle", "begun", "hashed", "unknown", "known", "locked", "written",
       "conflict", "committed"}

TypeOK ==
  /\ visitor \in [Identity -> {"absent", "allowed", "blocked"}]
  /\ visit \in [Visit -> Row]
  /\ audit \in [Visit -> Transition \cup {"checkin", "none"}]
  /\ pc \in [Session -> PC]
  /\ req \in [Session ->
       CheckInRequest \cup TransitionRequest \cup EditRequest \cup {NoRequest}]
  /\ pend \in [Session -> Write]
  /\ held \in [Session -> SUBSET Lock]

Init ==
  /\ Lifecycle!Init
  /\ pc = [s \in Session |-> "idle"]
  /\ req = [s \in Session |-> NoRequest]
  /\ pend = [s \in Session |-> NoWrite]
  /\ held = [s \in Session |-> {}]

-----------------------------------------------------------------------------
(* No other transaction holds lock l. *)
Free(s, l) == \A t \in Session \ {s} : l \notin held[t]

(* Request s gets through to state p, taking locks L. *)
Advance(s, p, L) ==
  /\ pc' = [pc EXCEPT ![s] = p]
  /\ held' = [held EXCEPT ![s] = @ \cup L]
  /\ UNCHANGED <<visitor, visit, audit, req, pend>>

(* Variant: no deferred Rollback, the connection keeps its locks. *)
FinishWithoutRollback(s) ==
  /\ pc' = [pc EXCEPT ![s] = "idle"]
  /\ req' = [req EXCEPT ![s] = NoRequest]
  /\ pend' = [pend EXCEPT ![s] = NoWrite]
  /\ UNCHANGED <<visitor, visit, audit, held>>

(* Answer and end the transaction: the deferred Rollback drops what was not
   committed and every lock. *)
Finish(s) ==
  /\ pc' = [pc EXCEPT ![s] = "idle"]
  /\ req' = [req EXCEPT ![s] = NoRequest]
  /\ pend' = [pend EXCEPT ![s] = NoWrite]
  /\ held' = [held EXCEPT ![s] = {}]
  /\ UNCHANGED tables

(* Model bound: the Visits sequence still has an id for one more check-in. *)
IdsLeft ==
  Cardinality({s \in Session : req[s].op = "checkin"})
    < Cardinality({v \in Visit : visit[v] = NoRow})

(* A validated request begins its transaction. *)
Arrive(s) ==
  /\ pc[s] = "idle"
  /\ pc' = [pc EXCEPT ![s] = "begun"]
  /\ \/ /\ IdsLeft
        /\ \E r \in CheckInRequest : req' = [req EXCEPT ![s] = r]
     \/ \E r \in TransitionRequest : req' = [req EXCEPT ![s] = r]
     \/ \E r \in EditRequest : req' = [req EXCEPT ![s] = r]
  /\ UNCHANGED <<visitor, visit, audit, pend, held>>

-----------------------------------------------------------------------------
(* Variant: no advisory lock. *)
SkipLockHash(s) ==
  /\ pc[s] = "begun"
  /\ req[s].op = "checkin"
  /\ Advance(s, "hashed", {})

(* checkIn: SELECT pg_advisory_xact_lock. *)
LockHash(s) ==
  /\ pc[s] = "begun"
  /\ req[s].op = "checkin"
  /\ Free(s, Hash(req[s].who))
  /\ Advance(s, "hashed", {Hash(req[s].who)})

(* The handler is about to run LockVisitor: check-in under the advisory lock,
   editVisitor at once. *)
AtLockVisitor(s) ==
  \/ req[s].op = "checkin" /\ pc[s] = "hashed"
  \/ req[s].op \in Edit /\ pc[s] = "begun"

(* LockVisitor finds no row: check-in needs visitorData, an edit is a 404. *)
MissVisitor(s) ==
  /\ AtLockVisitor(s)
  /\ visitor[req[s].who] = "absent"
  /\ IF req[s].op = "checkin" /\ req[s].data
       THEN Advance(s, "unknown", {})
       ELSE Finish(s)

(* Variant: FindVisitor, a SELECT without FOR UPDATE. *)
ReadVisitor(s) ==
  /\ AtLockVisitor(s)
  /\ visitor[req[s].who] # "absent"
  /\ IF req[s].op = "checkin" /\ visitor[req[s].who] = "blocked"
       THEN Finish(s)
       ELSE Advance(s, "known", {})

(* LockVisitor returns the row, locked; check-in refuses a blocked visitor. *)
LockVisitor(s) ==
  /\ AtLockVisitor(s)
  /\ visitor[req[s].who] # "absent"
  /\ Free(s, VisitorRow(req[s].who))
  /\ IF req[s].op = "checkin" /\ visitor[req[s].who] = "blocked"
       THEN Finish(s)
       ELSE Advance(s, "known", {VisitorRow(req[s].who)})

(* INSERT INTO Visitors: the UNIQUE constraint on cedula waits for another
   uncommitted insert and fails (23505) on a committed row. *)
InsertVisitor(s) ==
  /\ pc[s] = "unknown"
  /\ \A t \in Session \ {s} : req[t].op = "checkin" /\ req[t].who = req[s].who
                                => pend[t].visitor = "kept"
  /\ IF visitor[req[s].who] # "absent"
       THEN Advance(s, "conflict", {})
       ELSE /\ pend' = [pend EXCEPT ![s] = Writing("allowed", None, NoRow)]
            /\ pc' = [pc EXCEPT ![s] = "known"]
            /\ held' = [held EXCEPT ![s] = @ \cup {VisitorRow(req[s].who)}]
            /\ UNCHANGED <<visitor, visit, audit, req>>

(* Another transaction has written, and not yet committed, a row that is or
   was in the index visits_one_open_per_visitor under identity i. *)
Unsettled(s, i) ==
  \E t \in Session \ {s} :
    /\ pend[t].id # None
    /\ \/ visit[pend[t].id].who = i /\ IsOpen(visit[pend[t].id])
       \/ pend[t].row.who = i /\ IsOpen(pend[t].row)

(* INSERT INTO Visits: the index makes it wait while a conflicting row is
   unsettled, then fail (23505) if an open visit is committed. *)
InsertVisit(s) ==
  /\ pc[s] = "known"
  /\ req[s].op = "checkin"
  /\ ~ Unsettled(s, req[s].who)
  /\ IF Lifecycle!HasOpenVisit(req[s].who)
       THEN Advance(s, "conflict", {})
       ELSE /\ \E v \in Visit :
                 /\ visit[v] = NoRow
                 /\ \A t \in Session : pend[t].id # v
                 /\ pend' = [pend EXCEPT ![s] =
                      Writing(pend[s].visitor, v,
                              Registered(req[s].who, req[s].status))]
            /\ pc' = [pc EXCEPT ![s] = "written"]
            /\ UNCHANGED <<visitor, visit, audit, req, held>>

(* visitError answers 409 OPEN_VISIT_EXISTS. *)
AnswerConflict(s) ==
  /\ pc[s] = "conflict"
  /\ Finish(s)

-----------------------------------------------------------------------------
(* Variant: FindVisit, a SELECT without FOR UPDATE. *)
ReadVisit(s) ==
  /\ pc[s] = "begun"
  /\ req[s].op \in Transition
  /\ LET v == req[s].target
     IN  IF visit[v] # NoRow /\ Permits(req[s].op, visit[v])
           THEN Advance(s, "locked", {})
           ELSE Finish(s)

(* transition: LockVisit, then the checks on the row just read; 404 when there
   is none, 409 when the operation does not fit it. *)
LockVisit(s) ==
  /\ pc[s] = "begun"
  /\ req[s].op \in Transition
  /\ LET v == req[s].target
     IN  \/ /\ visit[v] = NoRow
            /\ Finish(s)
         \/ /\ visit[v] # NoRow
            /\ Free(s, VisitRow(v))
            /\ IF Permits(req[s].op, visit[v])
                 THEN Advance(s, "locked", {VisitRow(v)})
                 ELSE Finish(s)

(* Variant: the audit row goes through the pool, outside the transaction. *)
WriteVisitAuditApart(s) ==
  /\ pc[s] = "locked"
  /\ LET v == req[s].target
     IN  /\ pend' = [pend EXCEPT
                     ![s] = Writing("kept", v, After(req[s].op, visit[v]))]
         /\ pc' = [pc EXCEPT ![s] = "written"]
         /\ audit' = [audit EXCEPT ![v] = req[s].op]
         /\ UNCHANGED <<visitor, visit, req, held>>

(* The statements on IntermittentLogs and Visits. *)
WriteVisit(s) ==
  /\ pc[s] = "locked"
  /\ LET v == req[s].target
     IN  IF LogsPermit(req[s].op, visit[v])
           THEN /\ pend' = [pend EXCEPT
                     ![s] = Writing("kept", v, After(req[s].op, visit[v]))]
                /\ pc' = [pc EXCEPT ![s] = "written"]
                /\ UNCHANGED <<visitor, visit, audit, req, held>>
           ELSE Finish(s)

(* editVisitor: UPDATE Visitors SET isBlocked. *)
WriteBlocked(s) ==
  /\ pc[s] = "known"
  /\ req[s].op \in Edit
  /\ pend' = [pend EXCEPT ![s] = Writing(req[s].op, None, NoRow)]
  /\ pc' = [pc EXCEPT ![s] = "written"]
  /\ UNCHANGED <<visitor, visit, audit, req, held>>

-----------------------------------------------------------------------------
(* COMMIT makes the writes and, with them, the audit row visible at once, and
   ends every lock. *)
Commit(s) ==
  /\ pc[s] = "written"
  /\ visitor' = IF pend[s].visitor = "kept" THEN visitor
                ELSE [visitor EXCEPT ![req[s].who] = pend[s].visitor]
  /\ visit' = IF pend[s].id = None THEN visit
              ELSE [visit EXCEPT ![pend[s].id] = pend[s].row]
  /\ audit' = IF pend[s].id = None THEN audit
              ELSE [audit EXCEPT ![pend[s].id] = req[s].op]
  /\ pc' = [pc EXCEPT ![s] = "committed"]
  /\ pend' = [pend EXCEPT ![s] = NoWrite]
  /\ held' = [held EXCEPT ![s] = {}]
  /\ UNCHANGED req

(* publish, and the answer with the row as it is now. *)
Announce(s) ==
  /\ pc[s] = "committed"
  /\ Finish(s)

(* The client goes away, a statement or the connection fails, or the server
   dies: the transaction is rolled back, or was committed unannounced. *)
Abort(s) ==
  /\ pc[s] # "idle"
  /\ Finish(s)

-----------------------------------------------------------------------------
(* The handler of s runs on to its next statement. *)
Serve(s) ==
  \/ LockHash(s) \/ MissVisitor(s) \/ LockVisitor(s) \/ InsertVisitor(s)
  \/ InsertVisit(s) \/ AnswerConflict(s)
  \/ LockVisit(s) \/ WriteVisit(s) \/ WriteBlocked(s)
  \/ Commit(s) \/ Announce(s)

Next == \E s \in Session : Arrive(s) \/ Serve(s) \/ Abort(s)

(* A handler that can run does run.  Strong fairness where it waits in
   PostgreSQL: lock queues are first come, first served, and a waiter is woken
   when the transaction it waits for ends. *)
Fairness == \A s \in Session : SF_vars(Serve(s))

Spec == Init /\ [][Next]_vars
FairSpec == Spec /\ Fairness

-----------------------------------------------------------------------------
(* An identity never has two open visits, whatever check-ins, departures and
   reentries of its visits run at the same time. *)
OneOpenVisit ==
  \A v, w \in Visit :
    /\ visit[v].status \in OpenStatus
    /\ visit[w].status \in OpenStatus
    /\ visit[v].who = visit[w].who
    => v = w

(* The parts of a visit that different statements write agree: a visitor is
   recorded outside exactly while the visit is intermittent, has left exactly
   when it is completed, and has entered before being inside or outside. *)
VisitCoherent ==
  \A v \in Visit :
    /\ visit[v].away = IF visit[v].status = "intermittent" THEN 1 ELSE 0
    /\ "exit" \in visit[v].stamps <=> visit[v].status = "completed"
    /\ visit[v].status \in {"active", "intermittent", "completed"}
         => "entry" \in visit[v].stamps

(* The status a visit has after the audited action. *)
Explains(action, row) ==
  CASE action = "checkin" -> row.status \in {"active", "waiting"}
    [] action = "none"    -> row = NoRow
    [] OTHER              -> row.status = Target(action)

(* The audit log is never ahead of the visits nor behind them: the last entry
   about a visit is the change that gave it its status. *)
AuditExplains == \A v \in Visit : Explains(audit[v], visit[v])

(* No visit appears for a visitor who is blocked at that moment, even when the
   block is committed while the check-in runs. *)
NoEntryWhileBlocked ==
  [][\A v \in Visit : visit[v] = NoRow /\ visit'[v] # NoRow
       => visitor[visit'[v].who] # "blocked"]_vars

(* A check-in is answered OPEN_VISIT_EXISTS only when its identity has an open
   visit: the advisory lock keeps a race between two first arrivals of one
   person from being reported as one. *)
ConflictIsReal ==
  [][\A s \in Session : pc[s] # "conflict" /\ pc'[s] = "conflict"
       => Lifecycle!HasOpenVisit(req[s].who)]_vars

(* The concurrent handlers implement the one-step-per-request life cycle. *)
ImplementsLifecycle == Lifecycle!Spec

(* Every request ends: no transaction waits for ever for another. *)
Answered == \A s \in Session : pc[s] # "idle" ~> pc[s] = "idle"
=============================================================================

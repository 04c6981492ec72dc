----------------------------- MODULE SubjectData -----------------------------
(***************************************************************************)
(* The personal data of one data subject, who has one identity document:   *)
(* check-in, editing, subject access, ARCO requests and cancellation       *)
(* (visits.go, visitors.go and privacy.go of internal/httpapi) and the     *)
(* retention of retention.go, run by concurrent transactions.              *)
(*                                                                         *)
(* The variables are the committed tables.  A step is one statement with   *)
(* the Go code up to the next one; what a transaction writes, it writes to *)
(* rows it has locked or that nobody else can see, so its writes are made  *)
(* in one step with COMMIT.  Transitions of a visit are one step here, as  *)
(* VisitDesk shows they may be.  A request comes in with its first         *)
(* statement; one that is refused changes nothing and ends in Abort.       *)
(* Blocking and photos are left out.                                       *)
(***************************************************************************)
EXTENDS Naturals, FiniteSets

CONSTANTS
  Request,  \* transactions at the same time
  Person,   \* ids of Visitors rows
  Visit,    \* ids of Visits rows
  Arco,     \* ids of ArcoRequests rows
  Subject,  \* the keyed hash of the identity document
  None,     \* SQL NULL
  Retains   \* Config.RetentionEnabled

(* The random reference that replaces the hash when Visitors row p is
   anonymised is drawn once for that row: it is named by p. *)
Key == Person \cup {Subject}

ASSUME SubjectAssumption ==
  /\ Subject \notin Person
  /\ None \notin Key
  /\ Person \cap Visit = {} /\ Person \cap Arco = {} /\ Visit \cap Arco = {}
  /\ Retains \in BOOLEAN

VARIABLES
  person,   \* person[p]: the Visitors row p, "named" if it carries the hash
  visit,    \* visit[v]: the Visits row v
  arco,     \* arco[a]: the ArcoRequests row a
  edited,   \* rows with old and new values in VisitorEditHistories
  indexed,  \* rows with VisitorSearchTokens
  logged,   \* the identity document is in a path of ActivityLogs
  recent,   \* rows whose updatedAt is not before the retention cutoff
  pc, op,   \* pc[r], op[r]: how far request r has come, and what it is
  held,     \* held[r]: the locks its transaction holds
  picked    \* picked[r]: Visitors rows the retention is going to delete

tables == <<person, visit, arco, edited, indexed, logged, recent>>
vars == <<tables, pc, op, held, picked>>

-----------------------------------------------------------------------------
VisitRow == [state : {"absent", "open", "closed", "cancelled", "purged"},
             of    : Person \cup {None},    \* visitor_id
             key   : Key \cup {None}]       \* visitor_cedula
ArcoRow == [state : {"absent", "pending", "resolved", "purged"},
            key   : Key \cup {None},        \* subjectCedulaHash
            notes : BOOLEAN]                \* resolutionNotes is not NULL
NoVisit(state) == [state |-> state, of |-> None, key |-> None]
NoArco(state) == [state |-> state, key |-> None, notes |-> FALSE]

Op == {"checkin", "edit", "access", "file", "cancel", "retain"}
PC == {"idle", "hashed", "unknown", "locked", "closed", "scrubbed",
       "visits", "requests", "visitors", "picked", "purged"}

Hash == <<"hash", Subject>>          \* advisory lock on the hash
Cleaning == <<"retention", Subject>> \* advisory lock 584038172
VisitorLock(p) == <<"visitor", p>>
VisitLock(v) == <<"visit", v>>
ArcoLock(a) == <<"arco", a>>
Lock == {Hash, Cleaning} \cup ({"visitor"} \X Person) \cup ({"visit"} \X Visit)
          \cup ({"arco"} \X Arco)

TypeOK ==
  /\ person \in [Person -> {"absent", "named", "anonymous", "purged"}]
  /\ visit \in [Visit -> VisitRow]
  /\ arco \in [Arco -> ArcoRow]
  /\ edited \subseteq Person
  /\ indexed \subseteq Person
  /\ logged \in {"no", "old", "recent"}
  /\ recent \subseteq Person \cup Visit \cup Arco
  /\ pc \in [Request -> PC]
  /\ op \in [Request -> Op \cup {"none"}]
  /\ held \in [Request -> SUBSET Lock]
  /\ picked \in [Request -> SUBSET Person]

Init ==
  /\ person = [p \in Person |-> "absent"]
  /\ visit = [v \in Visit |-> NoVisit("absent")]
  /\ arco = [a \in Arco |-> NoArco("absent")]
  /\ edited = {} /\ indexed = {} /\ logged = "no" /\ recent = {}
  /\ pc = [r \in Request |-> "idle"]
  /\ op = [r \in Request |-> "none"]
  /\ held = [r \in Request |-> {}]
  /\ picked = [r \in Request |-> {}]

-----------------------------------------------------------------------------
Free(l) == \A r \in Request : l \notin held[r]

At(r, o, p) == op[r] = o /\ pc[r] = p

(* Request r, which is o, gets to state p with locks L more, having written
   nothing. *)
Advance(r, o, p, L) ==
  /\ pc' = [pc EXCEPT ![r] = p]
  /\ op' = [op EXCEPT ![r] = o]
  /\ held' = [held EXCEPT ![r] = @ \cup L]
  /\ UNCHANGED <<tables, picked>>

(* The transaction of r ends, and its locks with it. *)
End(r) ==
  /\ pc' = [pc EXCEPT ![r] = "idle"]
  /\ op' = [op EXCEPT ![r] = "none"]
  /\ held' = [held EXCEPT ![r] = {}]
  /\ picked' = [picked EXCEPT ![r] = {}]

Rollback(r) == End(r) /\ UNCHANGED tables

Pending(ops) == Cardinality({r \in Request : op[r] \in ops})

(* Model bound: an insert that o makes finds an id that nobody else is about to
   take. *)
IdsLeft(o) ==
  /\ o = "checkin" =>
       Pending({"checkin"}) < Cardinality({v \in Visit : visit[v].state = "absent"})
  /\ o \in {"file", "cancel"} =>
       Pending({"file", "cancel"}) < Cardinality({a \in Arco : arco[a].state = "absent"})

(* Variant: arcoCreate does without the lock. *)
LockHashExceptFile(r) ==
  /\ pc[r] = "idle"
  /\ \E o \in {"checkin", "file", "cancel"} :
       /\ IdsLeft(o)
       /\ o = "file" \/ Free(Hash)
       /\ Advance(r, o, "hashed", IF o = "file" THEN {} ELSE {Hash})

(* SELECT pg_advisory_xact_lock, the first statement of check-in, of arcoCreate
   and of subjectCancel. *)
LockHash(r) ==
  /\ pc[r] = "idle"
  /\ Free(Hash)
  /\ \E o \in {"checkin", "file", "cancel"} :
       IdsLeft(o) /\ Advance(r, o, "hashed", {Hash})

(* The Visitors rows LockVisitor can return: the one that carries the hash. *)
Found == {p \in Person : person[p] = "named"}

(* LockVisitor, the first statement of editVisitor and of subjectAccess, and the
   next one of check-in and of subjectCancel. *)
LockVisitor(r) ==
  \E o \in {"checkin", "cancel", "edit", "access"}, p \in Found :
    /\ \/ o \in {"checkin", "cancel"} /\ At(r, o, "hashed")
       \/ o \in {"edit", "access"} /\ pc[r] = "idle"
    /\ Free(VisitorLock(p))
    /\ Advance(r, o, "locked", {VisitorLock(p)})

(* LockVisitor returns no row: a first visit. *)
MissVisitor(r) ==
  /\ At(r, "checkin", "hashed")
  /\ Found = {}
  /\ Advance(r, "checkin", "unknown", {})

(* The Visitors row r has locked. *)
Mine(r) == CHOOSE p \in Person : VisitorLock(p) \in held[r]

-----------------------------------------------------------------------------
(* checkIn: INSERT INTO Visits for row p, with its search tokens; refused by
   the index visits_one_open_per_visitor while there is an open visit.  new:
   the Visitors row, if it was inserted too. *)
Enter(p, new) ==
  /\ ~ \E v \in Visit : visit[v].state = "open" /\ visit[v].key = Subject
  /\ \E v \in Visit :
       /\ visit[v].state = "absent"
       /\ visit' = [visit EXCEPT ![v] = [state |-> "open", of |-> p, key |-> Subject]]
       /\ recent' = recent \cup new \cup {v}
  /\ indexed' = indexed \cup {p}

(* A known visitor: the Visitors row is locked, and not written. *)
CheckInKnown(r) ==
  /\ At(r, "checkin", "locked")
  /\ Enter(Mine(r), {})
  /\ End(r)
  /\ UNCHANGED <<person, arco, edited, logged>>

(* A first visit: INSERT INTO Visitors. *)
CheckInUnknown(r) ==
  /\ At(r, "checkin", "unknown")
  /\ \E p \in Person :
       /\ person[p] = "absent"
       /\ person' = [person EXCEPT ![p] = "named"]
       /\ Enter(p, {p})
  /\ End(r)
  /\ UNCHANGED <<arco, edited, logged>>

(* transition: check-out, or cancellation of a visit that waits. *)
CloseVisit(v) ==
  /\ visit[v].state = "open"
  /\ Free(VisitLock(v))
  /\ \E state \in {"closed", "cancelled"} : visit' = [visit EXCEPT ![v].state = state]
  /\ recent' = recent \cup {v}
  /\ UNCHANGED <<person, arco, edited, indexed, logged, pc, op, held, picked>>

(* editVisitor: the row, its history, its tokens and the audit row. *)
EditVisitor(r) ==
  /\ At(r, "edit", "locked")
  /\ edited' = edited \cup {Mine(r)}
  /\ indexed' = indexed \cup {Mine(r)}
  /\ recent' = recent \cup {Mine(r)}
  /\ logged' = "recent"
  /\ End(r)
  /\ UNCHANGED <<person, visit, arco>>

(* subjectAccess: the audit row has the document in its path. *)
SubjectAccess(r) ==
  /\ At(r, "access", "locked")
  /\ logged' = "recent"
  /\ End(r)
  /\ UNCHANGED <<person, visit, arco, edited, indexed, recent>>

(* arcoCreate, under the advisory lock; the path of an opposition has the
   document in it. *)
FileRequest(r) ==
  /\ At(r, "file", "hashed")
  /\ \E a \in Arco :
       /\ arco[a].state = "absent"
       /\ arco' = [arco EXCEPT
            ![a] = [state |-> "pending", key |-> Subject, notes |-> FALSE]]
       /\ recent' = recent \cup {a}
  /\ logged' \in {logged, "recent"}
  /\ End(r)
  /\ UNCHANGED <<person, visit, edited, indexed>>

(* Variant: notes are kept whatever the request is. *)
ResolveWithNotes(a) ==
  /\ arco[a].state \in {"pending", "resolved"}
  /\ Free(ArcoLock(a))
  /\ \E state \in {"pending", "resolved"}, notes \in BOOLEAN :
       arco' = [arco EXCEPT ![a].state = state, ![a].notes = notes]
  /\ recent' = recent \cup {a}
  /\ UNCHANGED <<person, visit, edited, indexed, logged, pc, op, held, picked>>

(* arcoStatus, one UPDATE: notes are kept for a request that still names its
   subject.  "pending" stands for in_progress too, "resolved" for rejected. *)
ResolveRequest(a) ==
  /\ arco[a].state \in {"pending", "resolved"}
  /\ Free(ArcoLock(a))
  /\ \E state \in {"pending", "resolved"}, notes \in BOOLEAN :
       arco' = [arco EXCEPT ![a].state = state,
                            ![a].notes = notes /\ arco[a].key = Subject]
  /\ recent' = recent \cup {a}
  /\ UNCHANGED <<person, visit, edited, indexed, logged, pc, op, held, picked>>

-----------------------------------------------------------------------------
(* subjectCancel: SELECT ... FROM Visits ... FOR UPDATE; an open visit is a 409. *)
LockVisits(r) ==
  /\ At(r, "cancel", "locked")
  /\ LET own == {v \in Visit : visit[v].of = Mine(r) \/ visit[v].key = Subject}
     IN  /\ \A v \in own : Free(VisitLock(v))
         /\ IF \E v \in own : visit[v].state = "open"
              THEN Rollback(r)
              ELSE Advance(r, "cancel", "closed", {VisitLock(v) : v \in own})

(* UPDATE ArcoRequests ... WHERE subjectCedulaHash: its rows are locked. *)
ScrubRequests(r) ==
  /\ At(r, "cancel", "closed")
  /\ LET own == {a \in Arco : arco[a].key = Subject}
     IN  /\ \A a \in own : Free(ArcoLock(a))
         /\ Advance(r, "cancel", "scrubbed", {ArcoLock(a) : a \in own})

(* The history, visits, requests, audit paths, tokens and the profile lose the
   subject, and a finished request records the cancellation. *)
Anonymise(r) ==
  /\ At(r, "cancel", "scrubbed")
  /\ LET p    == Mine(r)
         mine == {v \in Visit : VisitLock(v) \in held[r]}
         asks == {a \in Arco : ArcoLock(a) \in held[r]}
     IN  /\ person' = [person EXCEPT ![p] = "anonymous"]
         /\ edited' = edited \ {p}
         /\ indexed' = indexed \ {p}
         /\ visit' = [v \in Visit |-> IF v \in mine
                        THEN [visit[v] EXCEPT !.of = p, !.key = p] ELSE visit[v]]
         /\ \E own \in Arco :
              /\ arco[own].state = "absent"
              /\ arco' = [a \in Arco |->
                   IF a = own THEN [state |-> "resolved", key |-> p, notes |-> FALSE]
                   ELSE IF a \in asks THEN [arco[a] EXCEPT !.key = p, !.notes = FALSE]
                   ELSE arco[a]]
              /\ recent' = recent \cup {p, own} \cup mine \cup asks
  /\ logged' = "no"
  /\ End(r)

-----------------------------------------------------------------------------
(* Retention: pg_try_advisory_xact_lock; a second run gives up. *)
TryCleaning(r) ==
  /\ Retains
  /\ pc[r] = "idle"
  /\ Free(Cleaning)
  /\ Advance(r, "retain", "visits", {Cleaning})

(* DELETE FROM Visits: completed and old. *)
PurgeVisits(r) ==
  /\ At(r, "retain", "visits")
  /\ LET old == {v \in Visit : visit[v].state = "closed" /\ v \notin recent}
     IN  /\ \A v \in old : Free(VisitLock(v))
         /\ Advance(r, "retain", "requests", {VisitLock(v) : v \in old})

(* DELETE FROM ArcoRequests: completed or rejected, and old. *)
PurgeRequests(r) ==
  /\ At(r, "retain", "requests")
  /\ LET old == {a \in Arco : arco[a].state = "resolved" /\ a \notin recent}
     IN  /\ \A a \in old : Free(ArcoLock(a))
         /\ Advance(r, "retain", "visitors", {ArcoLock(a) : a \in old})

KeyOf(p) == IF person[p] = "named" THEN Subject ELSE p

(* A visit or an unfinished request, other than those r is deleting, refers to
   Visitors row p. *)
Referenced(r, p) ==
  \/ \E v \in Visit : /\ VisitLock(v) \notin held[r]
                      /\ visit[v].of = p \/ visit[v].key = KeyOf(p)
  \/ \E a \in Arco : arco[a].state = "pending" /\ arco[a].key = KeyOf(p)

(* DELETE FROM Visitors: the rows are picked on the statement's snapshot... *)
PickVisitors(r) ==
  /\ At(r, "retain", "visitors")
  /\ picked' = [picked EXCEPT ![r] =
       {p \in Person : /\ person[p] \in {"named", "anonymous"}
                       /\ p \notin recent
                       /\ ~ Referenced(r, p)}]
  /\ pc' = [pc EXCEPT ![r] = "picked"]
  /\ UNCHANGED <<tables, op, held>>

(* Variant: what was picked is deleted. *)
PurgePicked(r) ==
  /\ At(r, "retain", "picked")
  /\ \A p \in picked[r] : Free(VisitorLock(p))
  /\ Advance(r, "retain", "purged", {VisitorLock(p) : p \in picked[r]})

(* ...then waited for; a row that was written meanwhile is tested again, a row
   that was only locked is not. *)
PurgeVisitors(r) ==
  /\ At(r, "retain", "picked")
  /\ LET old == picked[r] \ recent
     IN  /\ \A p \in picked[r] : Free(VisitorLock(p))
         /\ \A v \in Visit : visit[v].of \in old => Free(VisitLock(v)) \/ VisitLock(v) \in held[r]
         /\ Advance(r, "retain", "purged", {VisitorLock(p) : p \in old})

(* COMMIT.  Search tokens go with their visitor (CASCADE), visits lose it (SET
   NULL), and the history has no foreign key.  Old audit rows go too, unless
   AuditRetentionDays is longer. *)
CommitRetention(r) ==
  /\ At(r, "retain", "purged")
  /\ LET gone == {p \in Person : VisitorLock(p) \in held[r]}
     IN  /\ person' = [p \in Person |-> IF p \in gone THEN "purged" ELSE person[p]]
         /\ indexed' = indexed \ gone
         /\ visit' = [v \in Visit |->
              IF VisitLock(v) \in held[r] THEN NoVisit("purged")
              ELSE IF visit[v].of \in gone THEN [visit[v] EXCEPT !.of = None]
              ELSE visit[v]]
  /\ arco' = [a \in Arco |-> IF ArcoLock(a) \in held[r] THEN NoArco("purged") ELSE arco[a]]
  /\ logged' \in {logged, IF logged = "old" THEN "no" ELSE logged}
  /\ End(r)
  /\ UNCHANGED <<edited, recent>>

-----------------------------------------------------------------------------
(* A statement, the connection, the client or the server fails, PostgreSQL ends
   a deadlock, or a condition that is not modelled refuses the request. *)
Abort(r) == pc[r] # "idle" /\ Rollback(r)

(* DataRetentionDays pass, longer than any transaction. *)
Age ==
  /\ \A r \in Request : pc[r] = "idle"
  /\ recent' = {}
  /\ logged' = IF logged = "recent" THEN "old" ELSE logged
  /\ UNCHANGED <<person, visit, arco, edited, indexed, pc, op, held, picked>>

Next ==
  \/ \E r \in Request :
       \/ LockHash(r) \/ LockVisitor(r) \/ MissVisitor(r)
       \/ CheckInKnown(r) \/ CheckInUnknown(r) \/ EditVisitor(r) \/ SubjectAccess(r)
       \/ FileRequest(r)
       \/ LockVisits(r) \/ ScrubRequests(r) \/ Anonymise(r)
       \/ TryCleaning(r) \/ PurgeVisits(r) \/ PurgeRequests(r) \/ PickVisitors(r)
       \/ PurgeVisitors(r) \/ CommitRetention(r)
       \/ Abort(r)
  \/ \E v \in Visit : CloseVisit(v)
  \/ \E a \in Arco : ResolveRequest(a)
  \/ Age

Spec == Init /\ [][Next]_vars

-----------------------------------------------------------------------------
(* What is left of the subject outside the history: rows with the hash, search
   tokens, and audit rows with the document. *)
Known ==
  \/ Found # {}
  \/ \E v \in Visit : visit[v].key = Subject
  \/ \E a \in Arco : arco[a].key = Subject
  \/ indexed # {}
  \/ logged # "no"

Cancels == \E p \in Person : person[p] = "named" /\ person'[p] = "anonymous"

(* A cancellation leaves nothing of its subject behind, whatever check-ins,
   edits, requests and accesses were under way; only the history of a row that
   the retention had deleted before may stay. *)
CancelForgets ==
  [][Cancels => /\ ~ Known'
                /\ \A p \in edited' : person'[p] = "purged"]_vars

(* A cancellation leaves no personal values in the history of changes. *)
CancelForgetsHistory == [][Cancels => edited' = {}]_vars

(* What was anonymised stays so: no late edit, check-in or resolution gives the
   row a name, tokens, history, an open visit or notes again. *)
StaysAnonymous ==
  /\ \A p \in Person : person[p] = "anonymous" =>
       /\ p \notin edited \cup indexed
       /\ \A v \in Visit : visit[v].of = p \/ visit[v].key = p
            => visit[v].state \in {"closed", "cancelled"} /\ visit[v].key = p
  /\ \A a \in Arco : arco[a].key \in Person => ~ arco[a].notes

(* The retention deletes nothing that was used within the retention period, no
   open visit and no open request, also when a request writes the row between
   the choice and the deletion. *)
PurgesOnlyOld ==
  [][/\ \A p \in Person : person[p] # "purged" /\ person'[p] = "purged" => p \notin recent
     /\ \A v \in Visit : visit[v].state # "purged" /\ visit'[v].state = "purged"
          => visit[v].state = "closed" /\ v \notin recent
     /\ \A a \in Arco : arco[a].state # "purged" /\ arco'[a].state = "purged"
          => arco[a].state = "resolved" /\ a \notin recent]_vars

(* The retention deletes no visitor to whom a visit refers. *)
PurgesOnlyUnreferenced ==
  [][\A p \in Person : person[p] # "purged" /\ person'[p] = "purged" =>
       \A v \in Visit : visit'[v].of # p /\ visit'[v].key # KeyOf(p)]_vars
=============================================================================

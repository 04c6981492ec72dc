--------------------------- MODULE VisitDeskProofs ---------------------------
(***************************************************************************)
(* Proofs about VisitDesk for any sets of sessions, identities and visits: *)
(* its types, its safety invariants, that no visit appears for a blocked   *)
(* visitor, and that it implements VisitLifecycle.                         *)
(*                                                                         *)
(* The inductive invariant IInv says, request by request, which locks its  *)
(* transaction holds and what the tables must look like for what it has    *)
(* read and written to be still good (Sound); that no lock has two         *)
(* holders; and that no two transactions write the same visit.             *)
(***************************************************************************)
EXTENDS VisitDesk, TLAPS

(* The locks of request s, by the point its handler has reached. *)
LocksOf(s) ==
  CASE pc[s] \in {"hashed", "unknown"} -> {Hash(req[s].who)}
    [] pc[s] = "locked" -> {VisitRow(req[s].target)}
    [] pc[s] \in {"known", "written"} /\ req[s].op = "checkin" ->
         {Hash(req[s].who), VisitorRow(req[s].who)}
    [] pc[s] \in {"known", "written"} /\ req[s].op \in Edit ->
         {VisitorRow(req[s].who)}
    [] pc[s] = "written" /\ req[s].op \in Transition -> {VisitRow(req[s].target)}
    [] OTHER -> {}

HoldsItsLocks(s) ==
  IF pc[s] = "conflict"
    THEN held[s] \in {{Hash(req[s].who)}, {Hash(req[s].who), VisitorRow(req[s].who)}}
    ELSE held[s] = LocksOf(s)

(* Which requests reach which points, and with which writes. *)
Phase(s) ==
  /\ pc[s] = "idle" => req[s] = NoRequest
  /\ pc[s] \in {"idle", "begun", "hashed", "unknown", "locked", "committed"}
       => pend[s] = NoWrite
  /\ pc[s] \in {"begun", "written"} => req[s] # NoRequest
  /\ pc[s] \in {"hashed", "unknown", "conflict"} => req[s].op = "checkin"
  /\ pc[s] = "known" => req[s].op \in Edit \cup {"checkin"}
  /\ pc[s] \in {"known", "conflict"} => pend[s].id = None
  /\ pc[s] = "locked" => req[s].op \in Transition

(* A check-in has found its visitor, or inserted the row, and not blocked. *)
VisitorSettled(s) ==
  \/ pend[s].visitor = "kept" /\ visitor[req[s].who] = "allowed"
  \/ pend[s].visitor = "allowed" /\ visitor[req[s].who] = "absent"

(* What request s relies on at commit is still so. *)
Sound(s) ==
  /\ pc[s] = "unknown" => visitor[req[s].who] = "absent"
  /\ pc[s] \in {"known", "written"} /\ req[s].op = "checkin" => VisitorSettled(s)
  /\ pc[s] \in {"known", "written"} /\ req[s].op \in Edit
       => visitor[req[s].who] # "absent"
  /\ pc[s] = "locked" => Permits(req[s].op, visit[req[s].target])
  /\ pc[s] = "written" /\ req[s].op = "checkin" =>
       /\ pend[s].id \in Visit
       /\ visit[pend[s].id] = NoRow
       /\ pend[s].row = Registered(req[s].who, req[s].status)
       /\ ~ Lifecycle!HasOpenVisit(req[s].who)
  /\ pc[s] = "written" /\ req[s].op \in Transition =>
       /\ pend[s].id = req[s].target
       /\ Permits(req[s].op, visit[req[s].target])
       /\ LogsPermit(req[s].op, visit[req[s].target])
       /\ pend[s].row = After(req[s].op, visit[req[s].target])
       /\ pend[s].visitor = "kept"
  /\ pc[s] = "written" /\ req[s].op \in Edit =>
       /\ pend[s].id = None
       /\ pend[s].visitor = req[s].op

LocksExclusive == \A s, t \in Session : s # t => held[s] \cap held[t] = {}

WritersApart ==
  \A s, t \in Session : s # t /\ pend[s].id # None => pend[s].id # pend[t].id

DeskInv ==
  /\ \A s \in Session : Phase(s) /\ HoldsItsLocks(s)
  /\ LocksExclusive
  /\ WritersApart
  /\ \A s \in Session : Sound(s)

TableInv == VisitCoherent /\ AuditExplains /\ OneOpenVisit

IInv == TypeOK /\ DeskInv /\ TableInv

-----------------------------------------------------------------------------
(* Rows keep their type through the statements of an operation. *)
LEMMA RegisteredType ==
  ASSUME NEW i \in Identity, NEW status \in {"active", "waiting"}
  PROVE  Registered(i, status) \in Row
BY DEF Registered, Row, Status

LEMMA AfterType ==
  ASSUME NEW op \in Transition, NEW row \in Row
  PROVE  /\ After(op, row) \in Row
         /\ After(op, row).who = row.who
         /\ After(op, row).status = Target(op)
<1> DEFINE stamps == row.stamps \cup (CASE op = "admit"    -> {"entry"}
                                      [] op = "checkout" -> {"exit"}
                                      [] OTHER           -> {})
           away == CASE op = "exit"    -> row.away + 1
                     [] op = "reentry" -> 0
                     [] OTHER          -> row.away
<1>1. stamps \in SUBSET {"entry", "exit"} /\ away \in Nat
  BY DEF Row
<1>2. Target(op) \in Status
  BY DEF Target, Transition, Status
<1>3. After(op, row) = [row EXCEPT !.status = Target(op), !.stamps = stamps,
                                   !.away = away]
  BY DEF After
<1> HIDE DEF stamps, away
<1>4. QED
  BY <1>1, <1>2, <1>3 DEF Row

(* An operation is allowed only on an open visit. *)
LEMMA PermitsOpen ==
  ASSUME NEW op \in Transition, NEW row \in Row, Permits(op, row)
  PROVE  IsOpen(row) /\ row # NoRow
BY DEF Permits, Expected, IsOpen, OpenStatus, Transition, NoRow

(* What a step of session s other than Commit leaves alone. *)
Elsewhere(s) ==
  \A t \in Session \ {s} :
    /\ pc'[t] = pc[t]
    /\ req'[t] = req[t]
    /\ pend'[t] = pend[t]
    /\ held'[t] = held[t]

LEMMA LocalSteps ==
  ASSUME TypeOK, NEW s \in Session, Arrive(s) \/ Serve(s) \/ Abort(s)
  PROVE  Elsewhere(s)
BY DEF TypeOK, Elsewhere, Arrive, Serve, Abort, Finish, Advance, LockHash,
       MissVisitor, LockVisitor, InsertVisitor, InsertVisit, AnswerConflict,
       LockVisit, WriteVisit, WriteBlocked, Commit, Announce, tables

LEMMA OnlyCommitWrites ==
  ASSUME NEW s \in Session, Arrive(s) \/ Serve(s) \/ Abort(s), ~ Commit(s)
  PROVE  UNCHANGED tables
BY DEF Arrive, Serve, Abort, Finish, Advance, LockHash, MissVisitor,
       LockVisitor, InsertVisitor, InsertVisit, AnswerConflict, LockVisit,
       WriteVisit, WriteBlocked, Announce, tables

-----------------------------------------------------------------------------
LEMMA NoWriteType == NoRow \in Row /\ NoWrite \in Write
BY DEF NoRow, Row, NoWrite, Writing, Write

LEMMA FinishType ==
  ASSUME TypeOK, NEW s \in Session, Finish(s)
  PROVE  TypeOK'
BY NoWriteType DEF TypeOK, Finish, tables, PC

LEMMA AdvanceType ==
  ASSUME TypeOK, NEW s \in Session, NEW p \in PC, NEW L \in SUBSET Lock,
         Advance(s, p, L)
  PROVE  TypeOK'
BY DEF TypeOK, Advance

(* The parts of a request that its kind guarantees. *)
LEMMA RequestParts ==
  ASSUME TypeOK, NEW s \in Session
  PROVE  /\ req[s].op \in Edit \cup {"checkin"} => req[s].who \in Identity
         /\ req[s].op = "checkin" => req[s].status \in {"active", "waiting"}
         /\ req[s].op \in Transition => req[s].target \in Visit
         /\ req[s] # NoRequest => req[s].op \in Edit \cup {"checkin"} \cup Transition
BY DEF TypeOK, CheckInRequest, TransitionRequest, EditRequest, NoRequest,
   Edit, Transition

(* Every step keeps the types. *)
LEMMA StepType ==
  ASSUME TypeOK, DeskInv, [Next]_vars
  PROVE  TypeOK'
<1> SUFFICES ASSUME NEW s \in Session, Arrive(s) \/ Serve(s) \/ Abort(s)
             PROVE  TypeOK'
  BY DEF Next, vars, TypeOK
<1> USE DEF PC
<1>p. /\ Phase(s) /\ HoldsItsLocks(s) /\ Sound(s)
      /\ req[s].op \in Edit \cup {"checkin"} => req[s].who \in Identity
      /\ req[s].op = "checkin" => req[s].status \in {"active", "waiting"}
      /\ req[s].op \in Transition => req[s].target \in Visit
  BY RequestParts DEF DeskInv
<1>1. CASE Arrive(s)
  BY <1>1 DEF Arrive, TypeOK
<1>2. CASE LockHash(s)
  <2>1. {Hash(req[s].who)} \in SUBSET Lock
    BY <1>p, <1>2 DEF LockHash, Hash, Lock
  <2>2. QED
    BY <2>1, <1>2, AdvanceType DEF LockHash
<1>3. CASE MissVisitor(s)
  BY <1>3, AdvanceType, FinishType DEF MissVisitor
<1>4. CASE LockVisitor(s)
  <2>1. {VisitorRow(req[s].who)} \in SUBSET Lock
    BY <1>p, <1>4 DEF LockVisitor, AtLockVisitor, VisitorRow, Lock
  <2>2. QED
    BY <2>1, <1>4, AdvanceType, FinishType DEF LockVisitor
<1>5. CASE InsertVisitor(s)
  <2>1. CASE visitor[req[s].who] # "absent"
    BY <2>1, <1>5, AdvanceType DEF InsertVisitor
  <2>2. CASE visitor[req[s].who] = "absent"
    <3>1. VisitorRow(req[s].who) \in Lock
      BY <1>p, <1>5 DEF InsertVisitor, Phase, VisitorRow, Lock
    <3>2. Writing("allowed", None, NoRow) \in Write
      BY NoWriteType DEF Writing, Write
    <3>3. held' \in [Session -> SUBSET Lock]
      BY <3>1, <2>2, <1>5 DEF InsertVisitor, TypeOK
    <3>4. QED
      BY <3>2, <3>3, <2>2, <1>5 DEF InsertVisitor, TypeOK
  <2>3. QED
    BY <2>1, <2>2
<1>6. CASE InsertVisit(s)
  <2>1. CASE Lifecycle!HasOpenVisit(req[s].who)
    BY <2>1, <1>6, AdvanceType DEF InsertVisit
  <2>2. CASE ~ Lifecycle!HasOpenVisit(req[s].who)
    <3>1. Registered(req[s].who, req[s].status) \in Row
      BY <1>p, <1>6, RegisteredType DEF InsertVisit
    <3>2. QED
      BY <3>1, <2>2, <1>6 DEF InsertVisit, TypeOK, Write, Writing
  <2>3. QED
    BY <2>1, <2>2
<1>7. CASE AnswerConflict(s)
  BY <1>7, FinishType DEF AnswerConflict
<1>8. CASE LockVisit(s)
  <2>1. {VisitRow(req[s].target)} \in SUBSET Lock
    BY <1>p, <1>8 DEF LockVisit, VisitRow, Lock
  <2>2. QED
    BY <2>1, <1>8, AdvanceType, FinishType DEF LockVisit
<1>9. CASE WriteVisit(s)
  <2>1. CASE LogsPermit(req[s].op, visit[req[s].target])
    <3>1. req[s].target \in Visit /\ req[s].op \in Transition
      BY <1>p, <1>9 DEF WriteVisit, Phase
    <3>2. After(req[s].op, visit[req[s].target]) \in Row
      BY <3>1, AfterType DEF TypeOK
    <3>3. QED
      BY <2>1, <3>1, <3>2, <1>9 DEF WriteVisit, TypeOK, Write, Writing
  <2>2. CASE ~ LogsPermit(req[s].op, visit[req[s].target])
    BY <2>2, <1>9, FinishType DEF WriteVisit
  <2>3. QED
    BY <2>1, <2>2
<1>10. CASE WriteBlocked(s)
  BY <1>10, NoWriteType DEF WriteBlocked, TypeOK, Write, Writing, Edit
<1>11. CASE Commit(s)
  <2>1. NoWrite \in Write
    BY NoWriteType
  <2>2. visitor' \in [Identity -> {"absent", "allowed", "blocked"}]
    BY <1>11 DEF Commit, TypeOK, Write
  <2>3. pend[s].row \in Row /\ pend[s].id \in Visit \cup {None}
    BY DEF TypeOK, Write
  <2>4. visit' \in [Visit -> Row]
    BY <2>3, <1>11 DEF Commit, TypeOK
  <2>5. pend[s].id # None => req[s].op \in Transition \cup {"checkin"}
    BY <1>p, <1>11, RequestParts DEF Commit, Phase, Sound
  <2>6. audit' \in [Visit -> Transition \cup {"checkin", "none"}]
    BY <2>5, <1>11 DEF Commit, TypeOK
  <2>7. QED
    BY <2>1, <2>2, <2>4, <2>6, <1>11 DEF Commit, TypeOK
<1>12. CASE Announce(s)
  BY <1>12, FinishType DEF Announce
<1>13. CASE Abort(s)
  BY <1>13, FinishType DEF Abort
<1>14. QED
  BY <1>1, <1>2, <1>3, <1>4, <1>5, <1>6, <1>7, <1>8, <1>9, <1>10, <1>11,
     <1>12, <1>13 DEF Serve

-----------------------------------------------------------------------------
(* A step of s that leaves the tables alone leaves the other requests sound. *)
LEMMA OthersKept ==
  ASSUME DeskInv, NEW s \in Session, Elsewhere(s), UNCHANGED tables,
         NEW t \in Session, t # s
  PROVE  Phase(t)' /\ HoldsItsLocks(t)' /\ Sound(t)'
<1>1. /\ pc'[t] = pc[t] /\ req'[t] = req[t] /\ pend'[t] = pend[t]
      /\ held'[t] = held[t] /\ visitor' = visitor /\ visit' = visit
  BY DEF Elsewhere, tables
<1>2. Phase(t) /\ HoldsItsLocks(t) /\ Sound(t)
  BY DEF DeskInv
<1>3. Phase(t)'
  BY <1>1, <1>2 DEF Phase
<1>4. HoldsItsLocks(t)'
  BY <1>1, <1>2 DEF HoldsItsLocks, LocksOf
<1>5. Sound(t)'
  BY <1>1, <1>2 DEF Sound, VisitorSettled, Lifecycle!HasOpenVisit
<1>6. QED
  BY <1>3, <1>4, <1>5

(* So what such a step must establish is about s alone. *)
LEMMA LocalInv ==
  ASSUME DeskInv, NEW s \in Session, Elsewhere(s), UNCHANGED tables,
         Phase(s)', HoldsItsLocks(s)', Sound(s)',
         \A t \in Session \ {s} : held'[s] \cap held[t] = {},
         pend'[s].id # None => \A t \in Session \ {s} : pend[t].id # pend'[s].id
  PROVE  DeskInv'
<1>1. \A t \in Session : Phase(t)' /\ HoldsItsLocks(t)' /\ Sound(t)'
  BY OthersKept
<1>2. LocksExclusive'
  BY DEF LocksExclusive, DeskInv, Elsewhere
<1>3. WritersApart'
  BY DEF WritersApart, DeskInv, Elsewhere
<1>4. QED
  BY <1>1, <1>2, <1>3 DEF DeskInv

(* Ending the transaction. *)
LEMMA FinishInv ==
  ASSUME TypeOK, DeskInv, NEW s \in Session, Finish(s), Elsewhere(s)
  PROVE  DeskInv'
<1>1. /\ pc'[s] = "idle" /\ req'[s] = NoRequest /\ pend'[s] = NoWrite
      /\ held'[s] = {} /\ UNCHANGED tables
  BY DEF Finish, TypeOK
<1>2. Phase(s)'
  BY <1>1 DEF Phase
<1>3. HoldsItsLocks(s)'
  BY <1>1 DEF HoldsItsLocks, LocksOf
<1>4. Sound(s)'
  BY <1>1 DEF Sound
<1>5. pend'[s].id = None
  BY <1>1 DEF NoWrite, Writing
<1>6. QED
  BY <1>1, <1>2, <1>3, <1>4, <1>5, LocalInv

(* Getting through to state p with one more lock at most. *)
LEMMA AdvanceInv ==
  ASSUME TypeOK, DeskInv, NEW s \in Session, NEW p, NEW L, Advance(s, p, L),
         Elsewhere(s), Phase(s)', HoldsItsLocks(s)', Sound(s)',
         \A l \in L : Free(s, l)
  PROVE  DeskInv'
<1>1. /\ pend'[s] = pend[s] /\ held'[s] = held[s] \cup L /\ UNCHANGED tables
  BY DEF Advance, TypeOK, tables
<1>2. \A t \in Session \ {s} : held'[s] \cap held[t] = {}
  BY <1>1 DEF DeskInv, LocksExclusive, Free
<1>3. pend'[s].id # None => \A t \in Session \ {s} : pend[t].id # pend'[s].id
  BY <1>1 DEF DeskInv, WritersApart
<1>4. QED
  BY <1>1, <1>2, <1>3, LocalInv

LEMMA ArriveInv ==
  ASSUME TypeOK, DeskInv, NEW s \in Session, Arrive(s)
  PROVE  DeskInv'
<1>1. /\ pc'[s] = "begun" /\ pend'[s] = pend[s] /\ held'[s] = held[s]
      /\ UNCHANGED tables
  BY DEF Arrive, TypeOK, tables
<1>2. req'[s] \in CheckInRequest \cup TransitionRequest \cup EditRequest
  BY DEF Arrive, TypeOK
<1>3. req'[s] # NoRequest
  BY <1>2 DEF CheckInRequest, TransitionRequest, EditRequest, NoRequest,
              Transition, Edit
<1>4. pend[s] = NoWrite /\ held[s] = {}
  BY DEF Arrive, DeskInv, Phase, HoldsItsLocks, LocksOf
<1>5. Phase(s)' /\ HoldsItsLocks(s)' /\ Sound(s)'
  BY <1>1, <1>3, <1>4 DEF Phase, HoldsItsLocks, LocksOf, Sound
<1>6. pend'[s].id = None
  BY <1>1, <1>4 DEF NoWrite, Writing
<1>7. Elsewhere(s)
  BY LocalSteps
<1>8. QED
  BY <1>1, <1>4, <1>5, <1>6, <1>7, LocalInv

LEMMA LockHashInv ==
  ASSUME TypeOK, DeskInv, NEW s \in Session, LockHash(s)
  PROVE  DeskInv'
<1>1. /\ Elsewhere(s)
      /\ Advance(s, "hashed", {Hash(req[s].who)})
      /\ pc[s] = "begun" /\ req[s].op = "checkin" /\ Free(s, Hash(req[s].who))
  BY LocalSteps DEF LockHash, Serve
<1>2. pend[s] = NoWrite /\ held[s] = {}
  BY <1>1 DEF DeskInv, Phase, HoldsItsLocks, LocksOf
<1>3. /\ pc'[s] = "hashed" /\ req'[s] = req[s] /\ pend'[s] = NoWrite
      /\ held'[s] = {Hash(req[s].who)}
  BY <1>1, <1>2 DEF Advance, TypeOK
<1>4. Phase(s)' /\ HoldsItsLocks(s)' /\ Sound(s)'
  BY <1>1, <1>3 DEF Phase, HoldsItsLocks, LocksOf, Sound
<1>5. QED
  BY <1>1, <1>4, AdvanceInv

LEMMA MissVisitorInv ==
  ASSUME TypeOK, DeskInv, NEW s \in Session, MissVisitor(s)
  PROVE  DeskInv'
<1>1. Elsewhere(s) /\ AtLockVisitor(s)
  BY LocalSteps DEF MissVisitor, Serve
<1>2. CASE Finish(s)
  BY <1>1, <1>2, FinishInv
<1>3. CASE Advance(s, "unknown", {}) /\ req[s].op = "checkin"
  <2>1. pc[s] = "hashed"
    BY <1>1, <1>3 DEF AtLockVisitor, Edit
  <2>2. pend[s] = NoWrite /\ held[s] = {Hash(req[s].who)}
    BY <2>1 DEF DeskInv, Phase, HoldsItsLocks, LocksOf
  <2>3. /\ pc'[s] = "unknown" /\ req'[s] = req[s] /\ pend'[s] = NoWrite
        /\ held'[s] = {Hash(req[s].who)} /\ visitor' = visitor
    BY <1>3, <2>2 DEF Advance, TypeOK
  <2>4. visitor[req[s].who] = "absent"
    BY DEF MissVisitor
  <2>5. Phase(s)' /\ HoldsItsLocks(s)' /\ Sound(s)'
    BY <1>3, <2>3, <2>4 DEF Phase, HoldsItsLocks, LocksOf, Sound
  <2>6. QED
    BY <1>1, <1>3, <2>5, AdvanceInv
<1>4. QED
  BY <1>2, <1>3 DEF MissVisitor

LEMMA LockVisitorInv ==
  ASSUME TypeOK, DeskInv, NEW s \in Session, LockVisitor(s)
  PROVE  DeskInv'
<1>1. /\ Elsewhere(s) /\ AtLockVisitor(s)
      /\ visitor[req[s].who] # "absent" /\ Free(s, VisitorRow(req[s].who))
  BY LocalSteps DEF LockVisitor, Serve
<1>2. CASE Finish(s)
  BY <1>1, <1>2, FinishInv
<1>3. CASE /\ Advance(s, "known", {VisitorRow(req[s].who)})
           /\ req[s].op = "checkin" => visitor[req[s].who] # "blocked"
  <2>1. /\ pend[s] = NoWrite
        /\ held[s] = IF req[s].op = "checkin" THEN {Hash(req[s].who)} ELSE {}
        /\ req[s].op \in Edit \cup {"checkin"}
    BY <1>1 DEF AtLockVisitor, DeskInv, Phase, HoldsItsLocks, LocksOf, Edit
  <2>2. /\ pc'[s] = "known" /\ req'[s] = req[s] /\ pend'[s] = NoWrite
        /\ held'[s] = held[s] \cup {VisitorRow(req[s].who)}
        /\ visitor' = visitor
    BY <1>3, <2>1 DEF Advance, TypeOK
  <2>3. visitor[req[s].who] \in {"absent", "allowed", "blocked"}
    BY <2>1, RequestParts DEF TypeOK
  <2>4. Phase(s)' /\ HoldsItsLocks(s)'
    BY <2>1, <2>2 DEF Phase, HoldsItsLocks, LocksOf, NoWrite, Writing, Edit
  <2>5. Sound(s)'
    BY <1>1, <1>3, <2>2, <2>3 DEF Sound, VisitorSettled, NoWrite, Writing
  <2>6. QED
    BY <1>1, <1>3, <2>4, <2>5, AdvanceInv
<1>4. QED
  BY <1>2, <1>3 DEF LockVisitor

(* A row that is not committed is locked by the check-in that inserts it. *)
LEMMA InsertVisitorInv ==
  ASSUME TypeOK, DeskInv, NEW s \in Session, InsertVisitor(s)
  PROVE  DeskInv'
<1>1. Elsewhere(s) /\ pc[s] = "unknown"
  BY LocalSteps DEF InsertVisitor, Serve
<1>2. /\ req[s].op = "checkin" /\ pend[s] = NoWrite /\ held[s] = {Hash(req[s].who)}
  BY <1>1 DEF DeskInv, Phase, HoldsItsLocks, LocksOf
<1>3. CASE visitor[req[s].who] # "absent"
  <2>1. Advance(s, "conflict", {})
    BY <1>3 DEF InsertVisitor
  <2>2. /\ pc'[s] = "conflict" /\ req'[s] = req[s] /\ pend'[s] = NoWrite
        /\ held'[s] = {Hash(req[s].who)}
    BY <1>2, <2>1 DEF Advance, TypeOK
  <2>3. Phase(s)' /\ HoldsItsLocks(s)' /\ Sound(s)'
    BY <1>2, <2>2 DEF Phase, HoldsItsLocks, LocksOf, Sound, NoWrite, Writing
  <2>4. QED
    BY <1>1, <2>1, <2>3, AdvanceInv
<1>4. CASE visitor[req[s].who] = "absent"
  <2>1. /\ pc'[s] = "known" /\ req'[s] = req[s]
        /\ pend'[s] = Writing("allowed", None, NoRow)
        /\ held'[s] = {Hash(req[s].who), VisitorRow(req[s].who)}
        /\ UNCHANGED tables
    BY <1>2, <1>4 DEF InsertVisitor, TypeOK, tables
  <2>2. Phase(s)' /\ HoldsItsLocks(s)'
    BY <1>2, <2>1 DEF Phase, HoldsItsLocks, LocksOf, Writing, Edit
  <2>3. Sound(s)'
    BY <1>2, <1>4, <2>1 DEF Sound, VisitorSettled, Writing, tables, Edit
  <2>4. ASSUME NEW t \in Session \ {s}
        PROVE  VisitorRow(req[s].who) \notin held[t]
    <3>1. SUFFICES ASSUME VisitorRow(req[s].who) \in held[t]
                   PROVE  FALSE
      OBVIOUS
    <3>2. HoldsItsLocks(t) /\ Sound(t) /\ Phase(t)
      BY DEF DeskInv
    <3>3. \/ Hash(req[s].who) \in held[t]
          \/ req[t].op \in Edit /\ pc[t] \in {"known", "written"}
               /\ req[t].who = req[s].who
      BY <3>1, <3>2 DEF HoldsItsLocks, LocksOf, Phase, Hash, VisitorRow, VisitRow
    <3>4. Hash(req[s].who) \notin held[t]
      BY <1>2 DEF DeskInv, LocksExclusive
    <3>5. QED
      BY <1>4, <3>2, <3>3, <3>4 DEF Sound
  <2>5. \A t \in Session \ {s} : held'[s] \cap held[t] = {}
    BY <1>2, <2>1, <2>4 DEF DeskInv, LocksExclusive
  <2>6. pend'[s].id = None
    BY <2>1 DEF Writing
  <2>7. QED
    BY <1>1, <2>1, <2>2, <2>3, <2>5, <2>6, LocalInv
<1>5. QED
  BY <1>3, <1>4

LEMMA InsertVisitInv ==
  ASSUME TypeOK, DeskInv, NEW s \in Session, InsertVisit(s)
  PROVE  DeskInv'
<1>1. Elsewhere(s) /\ pc[s] = "known" /\ req[s].op = "checkin"
  BY LocalSteps DEF InsertVisit, Serve
<1>2. /\ held[s] = {Hash(req[s].who), VisitorRow(req[s].who)}
      /\ pend[s].id = None /\ VisitorSettled(s)
  BY <1>1 DEF DeskInv, Phase, HoldsItsLocks, LocksOf, Sound, Edit
<1>3. CASE Lifecycle!HasOpenVisit(req[s].who)
  <2>1. Advance(s, "conflict", {})
    BY <1>3 DEF InsertVisit
  <2>2. /\ pc'[s] = "conflict" /\ req'[s] = req[s] /\ pend'[s] = pend[s]
        /\ held'[s] = held[s]
    BY <2>1 DEF Advance, TypeOK
  <2>3. Phase(s)' /\ HoldsItsLocks(s)' /\ Sound(s)'
    BY <1>1, <1>2, <2>2 DEF Phase, HoldsItsLocks, Sound
  <2>4. QED
    BY <1>1, <2>1, <2>3, AdvanceInv
<1>4. CASE ~ Lifecycle!HasOpenVisit(req[s].who)
  <2>1. PICK v \in Visit :
          /\ visit[v] = NoRow
          /\ \A t \in Session : pend[t].id # v
          /\ pend' = [pend EXCEPT ![s] =
               Writing(pend[s].visitor, v, Registered(req[s].who, req[s].status))]
    BY <1>4 DEF InsertVisit
  <2>2. pend'[s] = Writing(pend[s].visitor, v,
                           Registered(req[s].who, req[s].status))
    BY <2>1 DEF TypeOK
  <2>3. /\ pc'[s] = "written" /\ req'[s] = req[s] /\ held'[s] = held[s]
        /\ UNCHANGED tables
    BY <1>4 DEF InsertVisit, TypeOK, tables
  <2>4. Phase(s)'
    BY <1>1, <2>3 DEF Phase, NoRequest
  <2>5. HoldsItsLocks(s)'
    BY <1>1, <1>2, <2>3 DEF HoldsItsLocks, LocksOf, Edit, Transition
  <2>6. VisitorSettled(s)'
    BY <1>2, <2>2, <2>3 DEF VisitorSettled, Writing, tables
  <2>7. (~ Lifecycle!HasOpenVisit(req[s].who))'
    BY <1>4, <2>3 DEF Lifecycle!HasOpenVisit, tables
  <2>8. Sound(s)'
    BY <1>1, <2>1, <2>2, <2>3, <2>6, <2>7
       DEF Sound, Writing, Edit, Transition, tables
  <2>9. \A t \in Session \ {s} : held'[s] \cap held[t] = {}
    BY <2>3 DEF DeskInv, LocksExclusive
  <2>10. pend'[s].id = v
    BY <2>2 DEF Writing
  <2>11. QED
    BY <1>1, <2>1, <2>3, <2>4, <2>5, <2>8, <2>9, <2>10, LocalInv
<1>5. QED
  BY <1>3, <1>4

LEMMA LockVisitInv ==
  ASSUME TypeOK, DeskInv, NEW s \in Session, LockVisit(s)
  PROVE  DeskInv'
<1>1. Elsewhere(s) /\ pc[s] = "begun" /\ req[s].op \in Transition
  BY LocalSteps DEF LockVisit, Serve
<1>2. CASE Finish(s)
  BY <1>1, <1>2, FinishInv
<1>3. CASE /\ Advance(s, "locked", {VisitRow(req[s].target)})
           /\ Permits(req[s].op, visit[req[s].target])
           /\ Free(s, VisitRow(req[s].target))
  <2>1. pend[s] = NoWrite /\ held[s] = {}
    BY <1>1 DEF DeskInv, Phase, HoldsItsLocks, LocksOf
  <2>2. /\ pc'[s] = "locked" /\ req'[s] = req[s] /\ pend'[s] = NoWrite
        /\ held'[s] = {VisitRow(req[s].target)} /\ visit' = visit
    BY <1>3, <2>1 DEF Advance, TypeOK
  <2>3. Phase(s)' /\ HoldsItsLocks(s)' /\ Sound(s)'
    BY <1>1, <1>3, <2>2 DEF Phase, HoldsItsLocks, LocksOf, Sound
  <2>4. QED
    BY <1>1, <1>3, <2>3, AdvanceInv
<1>4. QED
  BY <1>2, <1>3 DEF LockVisit

(* Two transactions never write one visit: a transition holds the row's lock,
   and a check-in's row is not committed. *)
LEMMA WriteVisitInv ==
  ASSUME TypeOK, DeskInv, NEW s \in Session, WriteVisit(s)
  PROVE  DeskInv'
<1> DEFINE v == req[s].target
<1>1. Elsewhere(s) /\ pc[s] = "locked"
  BY LocalSteps DEF WriteVisit, Serve
<1>2. /\ req[s].op \in Transition /\ v \in Visit /\ held[s] = {VisitRow(v)}
      /\ Permits(req[s].op, visit[v])
  BY <1>1, RequestParts DEF DeskInv, Phase, HoldsItsLocks, LocksOf, Sound
<1>3. CASE ~ LogsPermit(req[s].op, visit[v])
  BY <1>1, <1>3, FinishInv DEF WriteVisit
<1>4. CASE LogsPermit(req[s].op, visit[v])
  <2>1. /\ pc'[s] = "written" /\ req'[s] = req[s] /\ held'[s] = held[s]
        /\ pend'[s] = Writing("kept", v, After(req[s].op, visit[v]))
        /\ UNCHANGED tables
    BY <1>4 DEF WriteVisit, TypeOK, tables
  <2>2. Phase(s)'
    BY <1>2, <2>1 DEF Phase, NoRequest, Transition
  <2>3. HoldsItsLocks(s)'
    BY <1>2, <2>1 DEF HoldsItsLocks, LocksOf, Edit, Transition
  <2>4. Sound(s)'
    BY <1>2, <1>4, <2>1 DEF Sound, Writing, Edit, Transition, tables
  <2>5. \A t \in Session \ {s} : held'[s] \cap held[t] = {}
    BY <2>1 DEF DeskInv, LocksExclusive
  <2>6. ASSUME NEW t \in Session \ {s}, pend[t].id = v
        PROVE  FALSE
    <3>1. Phase(t) /\ HoldsItsLocks(t) /\ Sound(t)
      BY DEF DeskInv
    <3>2. pc[t] = "written"
      BY <1>2, <2>6, <3>1, NoneAssumption DEF Phase, NoWrite, Writing, TypeOK, PC
    <3>3. CASE req[t].op \in Transition
      <4>1. VisitRow(v) \in held[t]
        BY <2>6, <3>1, <3>2, <3>3 DEF HoldsItsLocks, LocksOf, Sound, Edit, Transition
      <4>2. QED
        BY <4>1, <1>2 DEF DeskInv, LocksExclusive
    <3>4. CASE req[t].op = "checkin"
      <4>1. visit[v] = NoRow
        BY <2>6, <3>1, <3>2, <3>4 DEF Sound
      <4>2. QED
        BY <4>1, <1>2, PermitsOpen DEF TypeOK
    <3>5. CASE req[t].op \in Edit
      BY <1>2, <2>6, <3>1, <3>2, <3>5, NoneAssumption DEF Sound
    <3>6. QED
      BY <3>1, <3>2, <3>3, <3>4, <3>5, RequestParts DEF Phase
  <2>7. pend'[s].id = v
    BY <2>1 DEF Writing
  <2>8. QED
    BY <1>1, <2>1, <2>2, <2>3, <2>4, <2>5, <2>6, <2>7, LocalInv
<1>5. QED
  BY <1>3, <1>4

LEMMA WriteBlockedInv ==
  ASSUME TypeOK, DeskInv, NEW s \in Session, WriteBlocked(s)
  PROVE  DeskInv'
<1>1. Elsewhere(s) /\ pc[s] = "known" /\ req[s].op \in Edit
  BY LocalSteps DEF WriteBlocked, Serve
<1>2. /\ held[s] = {VisitorRow(req[s].who)} /\ visitor[req[s].who] # "absent"
  BY <1>1 DEF DeskInv, HoldsItsLocks, LocksOf, Sound, Edit
<1>3. /\ pc'[s] = "written" /\ req'[s] = req[s] /\ held'[s] = held[s]
      /\ pend'[s] = Writing(req[s].op, None, NoRow)
      /\ UNCHANGED tables
  BY DEF WriteBlocked, TypeOK, tables
<1>4. Phase(s)'
  BY <1>1, <1>3 DEF Phase, NoRequest, Edit
<1>5. HoldsItsLocks(s)'
  BY <1>1, <1>2, <1>3 DEF HoldsItsLocks, LocksOf, Edit, Transition
<1>6. Sound(s)'
  BY <1>1, <1>2, <1>3 DEF Sound, Writing, Edit, Transition, tables
<1>7. \A t \in Session \ {s} : held'[s] \cap held[t] = {}
  BY <1>3 DEF DeskInv, LocksExclusive
<1>8. pend'[s].id = None
  BY <1>3 DEF Writing
<1>9. QED
  BY <1>1, <1>3, <1>4, <1>5, <1>6, <1>7, <1>8, LocalInv

-----------------------------------------------------------------------------
(* Committing is the request's step of the abstract life cycle. *)
LEMMA CommitCheckIn ==
  ASSUME TypeOK, DeskInv, NEW s \in Session, Commit(s), req[s].op = "checkin"
  PROVE  Lifecycle!CheckIn(req[s].who, pend[s].id, req[s].status)
<1>1. /\ req[s].who \in Identity /\ VisitorSettled(s) /\ pend[s].id \in Visit
      /\ visit[pend[s].id] = NoRow
      /\ pend[s].row = Registered(req[s].who, req[s].status)
      /\ ~ Lifecycle!HasOpenVisit(req[s].who)
  BY RequestParts DEF Commit, DeskInv, Sound
<1>2. pend[s].id # None
  BY <1>1, NoneAssumption
<1>3. visitor' = [visitor EXCEPT ![req[s].who] = "allowed"]
  BY <1>1 DEF Commit, VisitorSettled, TypeOK
<1>4. visitor[req[s].who] # "blocked"
  BY <1>1 DEF VisitorSettled
<1>5. QED
  BY <1>1, <1>2, <1>3, <1>4
     DEF Commit, Lifecycle!CheckIn, Registered, Lifecycle!Registered,
         NoRow, Lifecycle!NoRow

LEMMA CommitTransition ==
  ASSUME TypeOK, DeskInv, NEW s \in Session, Commit(s), req[s].op \in Transition
  PROVE  /\ Lifecycle!Move(req[s].op, pend[s].id)
         /\ pend[s].id = req[s].target
<1>1. /\ req[s].target \in Visit /\ pend[s].id = req[s].target
      /\ Permits(req[s].op, visit[req[s].target])
      /\ LogsPermit(req[s].op, visit[req[s].target])
      /\ pend[s].row = After(req[s].op, visit[req[s].target])
      /\ pend[s].visitor = "kept"
  BY RequestParts DEF Commit, DeskInv, Sound
<1>2. pend[s].id # None
  BY <1>1, NoneAssumption
<1>3. QED
  BY <1>1, <1>2
     DEF Commit, Lifecycle!Move, Permits, Lifecycle!Permits, Expected,
         Lifecycle!Expected, LogsPermit, Lifecycle!LogsPermit, After,
         Lifecycle!After, Target, Lifecycle!Target

LEMMA CommitEdit ==
  ASSUME TypeOK, DeskInv, NEW s \in Session, Commit(s), req[s].op \in Edit
  PROVE  /\ Lifecycle!SetBlocked(req[s].who, req[s].op)
         /\ pend[s].id = None
BY DEF Commit, DeskInv, Sound, Edit, Lifecycle!SetBlocked

(* Only these three kinds of request commit. *)
LEMMA CommitKinds ==
  ASSUME TypeOK, DeskInv, NEW s \in Session, Commit(s)
  PROVE  req[s].op = "checkin" \/ req[s].op \in Transition \/ req[s].op \in Edit
BY RequestParts DEF Commit, DeskInv, Phase

-----------------------------------------------------------------------------
(* The locks a request holds once it has what it needs. *)
LEMMA LocksHeld ==
  ASSUME DeskInv, NEW s \in Session
  PROVE  /\ pc[s] \in {"known", "written"} /\ req[s].op = "checkin" =>
              Hash(req[s].who) \in held[s] /\ VisitorRow(req[s].who) \in held[s]
         /\ pc[s] \in {"known", "written"} /\ req[s].op \in Edit =>
              VisitorRow(req[s].who) \in held[s]
         /\ pc[s] \in {"locked", "written"} /\ req[s].op \in Transition =>
              VisitRow(req[s].target) \in held[s]
<1>1. HoldsItsLocks(s)
  BY DEF DeskInv
<1>2. CASE pc[s] \in {"known", "written"} /\ req[s].op = "checkin"
  BY <1>1, <1>2 DEF HoldsItsLocks, LocksOf, Edit, Transition
<1>3. CASE pc[s] \in {"known", "written"} /\ req[s].op \in Edit
  BY <1>1, <1>3 DEF HoldsItsLocks, LocksOf, Edit, Transition
<1>4. CASE pc[s] \in {"locked", "written"} /\ req[s].op \in Transition
  BY <1>1, <1>4 DEF HoldsItsLocks, LocksOf, Edit, Transition
<1>5. QED
  BY <1>2, <1>3, <1>4

(* What another request relies on survives a commit, by the locks. *)
LEMMA CommitKeepsVisitor ==
  ASSUME TypeOK, DeskInv, NEW s \in Session, Commit(s),
         NEW t \in Session, t # s, pc[t] \in {"known", "written"},
         req[t].op \in Edit \cup {"checkin"}
  PROVE  visitor'[req[t].who] = visitor[req[t].who]
<1>1. CASE req[s].op \in Transition
  BY <1>1, CommitTransition DEF Lifecycle!Move
<1>2. CASE req[s].op \in Edit \cup {"checkin"}
  <2>1. VisitorRow(req[s].who) \in held[s] /\ VisitorRow(req[t].who) \in held[t]
    BY <1>2, LocksHeld DEF Commit
  <2>2. req[s].who # req[t].who
    BY <2>1 DEF DeskInv, LocksExclusive
  <2>3. QED
    BY <2>2, RequestParts DEF Commit, TypeOK
<1>3. QED
  BY <1>1, <1>2, CommitKinds

(* A visitor who is unknown stays so while a check-in holds the hash: an   *)
(* edit needs a row, and another check-in of the same document waits.      *)
LEMMA CommitKeepsUnknown ==
  ASSUME TypeOK, DeskInv, NEW s \in Session, Commit(s),
         NEW t \in Session, t # s, pc[t] = "unknown"
  PROVE  visitor'[req[t].who] = "absent"
<1>1. Phase(t) /\ HoldsItsLocks(t) /\ Sound(t) /\ Sound(s) /\ pc[s] = "written"
  BY DEF DeskInv, Commit
<1>2. /\ req[t].op = "checkin" /\ visitor[req[t].who] = "absent"
      /\ Hash(req[t].who) \in held[t]
  BY <1>1 DEF Phase, Sound, HoldsItsLocks, LocksOf
<1>3. CASE req[s].op \in Transition
  BY <1>2, <1>3, CommitTransition DEF Lifecycle!Move
<1>4. CASE req[s].op \in Edit \cup {"checkin"}
  <2>1. req[s].who # req[t].who
    <3>1. CASE req[s].op \in Edit
      BY <1>1, <1>2, <3>1 DEF Sound
    <3>2. CASE req[s].op = "checkin"
      <4>1. Hash(req[s].who) \in held[s]
        BY <1>1, <3>2, LocksHeld
      <4>2. QED
        BY <1>2, <4>1 DEF DeskInv, LocksExclusive
    <3>3. QED
      BY <1>4, <3>1, <3>2
  <2>2. QED
    BY <1>2, <2>1 DEF Commit, TypeOK
<1>5. QED
  BY <1>3, <1>4, CommitKinds

LEMMA CommitKeepsTarget ==
  ASSUME TypeOK, DeskInv, NEW s \in Session, Commit(s),
         NEW t \in Session, t # s, pc[t] \in {"locked", "written"},
         req[t].op \in Transition
  PROVE  visit'[req[t].target] = visit[req[t].target]
<1>1. /\ req[t].target \in Visit /\ VisitRow(req[t].target) \in held[t]
      /\ Permits(req[t].op, visit[req[t].target])
  BY RequestParts, LocksHeld DEF DeskInv, Sound
<1>2. CASE req[s].op = "checkin"
  <2>1. pend[s].id \in Visit /\ visit[pend[s].id] = NoRow
    BY <1>2 DEF Commit, DeskInv, Sound
  <2>2. pend[s].id # req[t].target
    BY <1>1, <2>1, PermitsOpen DEF TypeOK
  <2>3. QED
    BY <1>1, <2>2 DEF Commit, TypeOK
<1>3. CASE req[s].op \in Transition
  <2>1. VisitRow(req[s].target) \in held[s]
    BY <1>3, LocksHeld DEF Commit
  <2>2. pend[s].id # req[t].target
    BY <1>1, <1>3, <2>1, CommitTransition DEF DeskInv, LocksExclusive
  <2>3. QED
    BY <1>1, <2>2 DEF Commit, TypeOK
<1>4. CASE req[s].op \in Edit
  BY <1>4, CommitEdit DEF Lifecycle!SetBlocked
<1>5. QED
  BY <1>2, <1>3, <1>4, CommitKinds

LEMMA CommitKeepsIndex ==
  ASSUME TypeOK, DeskInv, NEW s \in Session, Commit(s),
         NEW t \in Session, t # s, pc[t] = "written", req[t].op = "checkin"
  PROVE  /\ visit'[pend[t].id] = visit[pend[t].id]
         /\ \A v \in Visit : ~ (visit'[v].who = req[t].who /\ IsOpen(visit'[v]))
<1>1. /\ pend[t].id \in Visit /\ pend[t].id # None
      /\ ~ Lifecycle!HasOpenVisit(req[t].who)
      /\ Hash(req[t].who) \in held[t]
  BY LocksHeld, NoneAssumption DEF DeskInv, Sound
<1>2. pend[s].id # pend[t].id
  BY <1>1 DEF DeskInv, WritersApart
<1>3. visit'[pend[t].id] = visit[pend[t].id]
  BY <1>1, <1>2 DEF Commit, TypeOK
<1>4. ASSUME NEW v \in Visit, visit'[v].who = req[t].who, IsOpen(visit'[v])
      PROVE  FALSE
  <2>1. CASE visit'[v] = visit[v]
    BY <1>1, <1>4, <2>1 DEF Lifecycle!HasOpenVisit, IsOpen, Lifecycle!IsOpen,
                            OpenStatus, Lifecycle!OpenStatus
  <2>2. CASE visit'[v] # visit[v]
    <3>1. v = pend[s].id /\ visit'[v] = pend[s].row
      BY <2>2 DEF Commit, TypeOK
    <3>2. CASE req[s].op = "checkin"
      <4>1. visit'[v].who = req[s].who
        <5>1. pend[s].row = Registered(req[s].who, req[s].status)
          BY <3>2 DEF Commit, DeskInv, Sound
        <5>2. QED
          BY <3>1, <5>1 DEF Registered
      <4>2. Hash(req[s].who) \in held[s]
        BY <3>2, LocksHeld DEF Commit
      <4>3. QED
        BY <1>1, <1>4, <4>1, <4>2 DEF DeskInv, LocksExclusive
    <3>3. CASE req[s].op \in Transition
      <4>1. /\ Permits(req[s].op, visit[v]) /\ visit[v] \in Row
            /\ visit'[v] = After(req[s].op, visit[v])
        BY <3>1, <3>3, CommitTransition DEF Commit, DeskInv, Sound, TypeOK
      <4>2. visit[v].who = req[t].who /\ IsOpen(visit[v])
        BY <1>4, <3>3, <4>1, PermitsOpen, AfterType
      <4>3. QED
        BY <1>1, <4>2 DEF Lifecycle!HasOpenVisit, IsOpen, Lifecycle!IsOpen,
                          OpenStatus, Lifecycle!OpenStatus
    <3>4. CASE req[s].op \in Edit
      BY <2>2, <3>4, CommitEdit DEF Lifecycle!SetBlocked
    <3>5. QED
      BY <3>2, <3>3, <3>4, CommitKinds
  <2>3. QED
    BY <2>1, <2>2
<1>5. QED
  BY <1>3, <1>4

LEMMA CommitInv ==
  ASSUME TypeOK, DeskInv, NEW s \in Session, Commit(s)
  PROVE  DeskInv'
<1>1. Elsewhere(s)
  BY LocalSteps DEF Serve
<1>2. /\ pc'[s] = "committed" /\ req'[s] = req[s] /\ pend'[s] = NoWrite
      /\ held'[s] = {}
  BY DEF Commit, TypeOK
<1>3. Phase(s)' /\ HoldsItsLocks(s)' /\ Sound(s)'
  BY <1>2 DEF Phase, HoldsItsLocks, LocksOf, Sound
<1>4. ASSUME NEW t \in Session, t # s
      PROVE  Phase(t)' /\ HoldsItsLocks(t)' /\ Sound(t)'
  <2>1. /\ pc'[t] = pc[t] /\ req'[t] = req[t] /\ pend'[t] = pend[t]
        /\ held'[t] = held[t]
    BY <1>1, <1>4 DEF Elsewhere
  <2>2. Phase(t) /\ HoldsItsLocks(t) /\ Sound(t)
    BY DEF DeskInv
  <2>3. Phase(t)'
    BY <2>1, <2>2 DEF Phase
  <2>4. HoldsItsLocks(t)'
    BY <2>1, <2>2 DEF HoldsItsLocks, LocksOf
  <2>5. pc[t] \in {"known", "written"} /\ req[t].op = "checkin"
          => VisitorSettled(t)'
    BY <1>4, <2>1, <2>2, CommitKeepsVisitor DEF Sound, VisitorSettled
  <2>6. pc[t] \in {"known", "written"} /\ req[t].op \in Edit
          => visitor'[req[t].who] # "absent"
    BY <1>4, <2>2, CommitKeepsVisitor DEF Sound
  <2>7. pc[t] \in {"locked", "written"} /\ req[t].op \in Transition
          => visit'[req[t].target] = visit[req[t].target]
    BY <1>4, CommitKeepsTarget
  <2>8. pc[t] = "locked" => req[t].op \in Transition
    BY <2>2 DEF Phase
  <2>9. pc[t] = "written" /\ req[t].op = "checkin" =>
          /\ visit'[pend[t].id] = visit[pend[t].id]
          /\ \A v \in Visit : ~ (visit'[v].who = req[t].who /\ IsOpen(visit'[v]))
    BY <1>4, CommitKeepsIndex
  <2>10. (pc[t] = "written" /\ req[t].op = "checkin"
            => ~ Lifecycle!HasOpenVisit(req[t].who))'
    BY <2>1, <2>9 DEF Lifecycle!HasOpenVisit, IsOpen, Lifecycle!IsOpen,
                      OpenStatus, Lifecycle!OpenStatus
  <2>11. pc[t] = "unknown" => visitor'[req[t].who] = "absent"
    BY <1>4, CommitKeepsUnknown
  <2>12. Sound(t)'
    BY <2>1, <2>2, <2>5, <2>6, <2>7, <2>8, <2>9, <2>10, <2>11 DEF Sound
  <2>13. QED
    BY <2>3, <2>4, <2>12
<1>5. LocksExclusive'
  BY <1>1, <1>2 DEF DeskInv, LocksExclusive, Elsewhere
<1>6. WritersApart'
  BY <1>1, <1>2 DEF DeskInv, WritersApart, Elsewhere, NoWrite, Writing
<1>7. QED
  BY <1>3, <1>4, <1>5, <1>6 DEF DeskInv

(* Every step keeps the invariant of the transactions. *)
LEMMA StepDesk ==
  ASSUME TypeOK, DeskInv, [Next]_vars
  PROVE  DeskInv'
<1>1. CASE UNCHANGED vars
  <2>1. ASSUME NEW t \in Session
        PROVE  Phase(t)' /\ HoldsItsLocks(t)'
    <3>1. Phase(t) /\ HoldsItsLocks(t)
      BY DEF DeskInv
    <3>2. pc' = pc /\ req' = req /\ pend' = pend /\ held' = held
      BY <1>1 DEF vars
    <3>3. Phase(t)'
      BY <3>1, <3>2 DEF Phase
    <3>4. HoldsItsLocks(t)'
      BY <3>1, <3>2 DEF HoldsItsLocks, LocksOf
    <3>5. QED
      BY <3>3, <3>4
  <2>2. ASSUME NEW t \in Session
        PROVE  Sound(t)'
    <3>1. Sound(t)
      BY DEF DeskInv
    <3>2. visitor' = visitor /\ visit' = visit /\ pc' = pc /\ req' = req /\ pend' = pend
      BY <1>1 DEF vars
    <3>3. \A i : Lifecycle!HasOpenVisit(i)' <=> Lifecycle!HasOpenVisit(i)
      BY <3>2 DEF Lifecycle!HasOpenVisit
    <3>4. QED
      BY <3>1, <3>2, <3>3 DEF Sound, VisitorSettled
  <2>3. QED
    BY <1>1, <2>1, <2>2 DEF vars, DeskInv, LocksExclusive, WritersApart
<1>2. ASSUME NEW s \in Session, Arrive(s)
      PROVE  DeskInv'
  BY <1>2, ArriveInv
<1>3. ASSUME NEW s \in Session, Serve(s)
      PROVE  DeskInv'
  <2>1. Elsewhere(s)
    BY <1>3, LocalSteps
  <2>2. CASE AnswerConflict(s) \/ Announce(s)
    BY <2>1, <2>2, FinishInv DEF AnswerConflict, Announce
  <2>3. QED
    BY <1>3, <2>2, LockHashInv, MissVisitorInv, LockVisitorInv,
       InsertVisitorInv, InsertVisitInv, LockVisitInv, WriteVisitInv,
       WriteBlockedInv, CommitInv DEF Serve
<1>4. ASSUME NEW s \in Session, Abort(s)
      PROVE  DeskInv'
  BY <1>4, LocalSteps, FinishInv DEF Abort
<1>5. QED
  BY <1>1, <1>2, <1>3, <1>4 DEF Next

-----------------------------------------------------------------------------
(* The steps of the abstract life cycle keep the invariants of the tables. *)
LEMMA CheckInTables ==
  ASSUME TypeOK, TableInv, NEW i \in Identity, NEW v \in Visit,
         NEW status \in {"active", "waiting"}, Lifecycle!CheckIn(i, v, status)
  PROVE  TableInv'
<1>1. /\ visit' = [visit EXCEPT ![v] = Registered(i, status)]
      /\ audit' = [audit EXCEPT ![v] = "checkin"]
      /\ \A w \in Visit : visit[w].who = i => ~ IsOpen(visit[w])
  BY DEF Lifecycle!CheckIn, Lifecycle!HasOpenVisit, IsOpen, Lifecycle!IsOpen,
         OpenStatus, Lifecycle!OpenStatus, Registered, Lifecycle!Registered
<1>2. /\ Registered(i, status).who = i
      /\ Registered(i, status).status = status
      /\ Registered(i, status).away = 0
      /\ Registered(i, status).stamps = IF status = "active" THEN {"entry"} ELSE {}
  BY DEF Registered
<1>3. VisitCoherent'
  BY <1>1, <1>2 DEF VisitCoherent, TableInv, TypeOK
<1>4. AuditExplains'
  BY <1>1, <1>2 DEF AuditExplains, Explains, TableInv, TypeOK
<1>5. \A w \in Visit : visit[w].status \in OpenStatus => IsOpen(visit[w])
  BY DEF TableInv, VisitCoherent, IsOpen, OpenStatus
<1>6. OneOpenVisit'
  BY <1>1, <1>2, <1>5 DEF OneOpenVisit, TableInv, TypeOK
<1>7. QED
  BY <1>3, <1>4, <1>6 DEF TableInv

LEMMA MoveTables ==
  ASSUME TypeOK, TableInv, NEW op \in Transition, NEW v \in Visit,
         Lifecycle!Move(op, v)
  PROVE  TableInv'
<1> DEFINE new == After(op, visit[v])
<1>1. /\ visit' = [visit EXCEPT ![v] = new]
      /\ audit' = [audit EXCEPT ![v] = op]
      /\ Permits(op, visit[v]) /\ LogsPermit(op, visit[v])
      /\ visit[v] \in Row
  BY DEF TypeOK, Lifecycle!Move, Permits, Lifecycle!Permits, Expected,
         Lifecycle!Expected, LogsPermit, Lifecycle!LogsPermit, After,
         Lifecycle!After, Target, Lifecycle!Target
<1>2. new \in Row /\ new.who = visit[v].who /\ new.status = Target(op)
  BY <1>1, AfterType
<1>3. /\ new.stamps = visit[v].stamps \cup (CASE op = "admit"    -> {"entry"}
                                             [] op = "checkout" -> {"exit"}
                                             [] OTHER           -> {})
      /\ new.away = CASE op = "exit"    -> visit[v].away + 1
                      [] op = "reentry" -> 0
                      [] OTHER          -> visit[v].away
  BY <1>1 DEF After, Row
<1>4. /\ visit[v].status = Expected(op) /\ "exit" \notin visit[v].stamps
      /\ op = "exit" => visit[v].away = 0
      /\ op = "reentry" => visit[v].away = 1
  BY <1>1 DEF Permits, LogsPermit
<1>5. /\ visit[v].away = IF visit[v].status = "intermittent" THEN 1 ELSE 0
      /\ visit[v].status \in {"active", "intermittent", "completed"}
           => "entry" \in visit[v].stamps
  BY DEF TableInv, VisitCoherent
<1> HIDE DEF new
<1>6. /\ new.away = IF new.status = "intermittent" THEN 1 ELSE 0
      /\ "exit" \in new.stamps <=> new.status = "completed"
      /\ new.status \in {"active", "intermittent", "completed"}
           => "entry" \in new.stamps
  <2>1. CASE op = "admit"
    BY <2>1, <1>2, <1>3, <1>4, <1>5 DEF Target, Expected
  <2>2. CASE op = "checkout"
    BY <2>2, <1>2, <1>3, <1>4, <1>5 DEF Target, Expected
  <2>3. CASE op = "exit"
    BY <2>3, <1>2, <1>3, <1>4, <1>5 DEF Target, Expected
  <2>4. CASE op = "reentry"
    BY <2>4, <1>2, <1>3, <1>4, <1>5 DEF Target, Expected
  <2>5. CASE op = "cancel"
    BY <2>5, <1>2, <1>3, <1>4, <1>5 DEF Target, Expected
  <2>6. QED
    BY <2>1, <2>2, <2>3, <2>4, <2>5 DEF Transition
<1>7. VisitCoherent'
  BY <1>1, <1>6 DEF VisitCoherent, TableInv, TypeOK
<1>8. Explains(op, new)
  BY <1>2 DEF Explains, Transition
<1>9. AuditExplains'
  BY <1>1, <1>8 DEF AuditExplains, TableInv, TypeOK
<1>10. visit[v].status \in OpenStatus
  BY <1>1, PermitsOpen DEF IsOpen
<1>11. OneOpenVisit'
  BY <1>1, <1>2, <1>10 DEF OneOpenVisit, TableInv, TypeOK
<1>12. QED
  BY <1>7, <1>9, <1>11 DEF TableInv

LEMMA SameTables ==
  ASSUME TableInv, visit' = visit, audit' = audit
  PROVE  TableInv'
BY DEF TableInv, VisitCoherent, AuditExplains, OneOpenVisit

(* Each step is a step of the life cycle or leaves the tables alone. *)
LEMMA StepRefines ==
  ASSUME TypeOK, DeskInv, [Next]_vars
  PROVE  \/ \E i \in Identity, v \in Visit, status \in {"active", "waiting"} :
               Lifecycle!CheckIn(i, v, status)
         \/ \E op \in Transition, v \in Visit : Lifecycle!Move(op, v)
         \/ \E i \in Identity, value \in Edit : Lifecycle!SetBlocked(i, value)
         \/ UNCHANGED tables
<1>1. CASE UNCHANGED vars
  BY <1>1 DEF vars, tables
<1>2. ASSUME NEW s \in Session, Commit(s)
      PROVE  \/ \E i \in Identity, v \in Visit, status \in {"active", "waiting"} :
                   Lifecycle!CheckIn(i, v, status)
             \/ \E op \in Transition, v \in Visit : Lifecycle!Move(op, v)
             \/ \E i \in Identity, value \in Edit : Lifecycle!SetBlocked(i, value)
  <2>1. CASE req[s].op = "checkin"
    <3>1. /\ req[s].who \in Identity /\ req[s].status \in {"active", "waiting"}
          /\ pend[s].id \in Visit
      BY <1>2, <2>1, RequestParts DEF Commit, DeskInv, Sound
    <3>2. QED
      BY <1>2, <2>1, <3>1, CommitCheckIn
  <2>2. CASE req[s].op \in Transition
    BY <1>2, <2>2, CommitTransition, RequestParts
  <2>3. CASE req[s].op \in Edit
    BY <1>2, <2>3, CommitEdit, RequestParts
  <2>4. QED
    BY <1>2, <2>1, <2>2, <2>3, CommitKinds
<1>3. ASSUME NEW s \in Session, Arrive(s) \/ Serve(s) \/ Abort(s), ~ Commit(s)
      PROVE  UNCHANGED tables
  BY <1>3, OnlyCommitWrites
<1>4. QED
  BY <1>1, <1>2, <1>3 DEF Next

LEMMA StepTables ==
  ASSUME TypeOK, DeskInv, TableInv, [Next]_vars
  PROVE  TableInv'
<1>1. CASE \E i \in Identity, v \in Visit, status \in {"active", "waiting"} :
             Lifecycle!CheckIn(i, v, status)
  BY <1>1, CheckInTables
<1>2. CASE \E op \in Transition, v \in Visit : Lifecycle!Move(op, v)
  BY <1>2, MoveTables
<1>3. CASE \E i \in Identity, value \in Edit : Lifecycle!SetBlocked(i, value)
  BY <1>3, SameTables DEF Lifecycle!SetBlocked
<1>4. CASE UNCHANGED tables
  BY <1>4, SameTables DEF tables
<1>5. QED
  BY <1>1, <1>2, <1>3, <1>4, StepRefines

-----------------------------------------------------------------------------
LEMMA InitInv == Init => IInv
<1> SUFFICES ASSUME Init
             PROVE  IInv
  OBVIOUS
<1>1. /\ visitor = [i \in Identity |-> "absent"]
      /\ visit = [v \in Visit |-> NoRow]
      /\ audit = [v \in Visit |-> "none"]
  BY DEF Init, Lifecycle!Init, NoRow, Lifecycle!NoRow
<1>2. TypeOK
  BY <1>1, NoWriteType DEF Init, TypeOK, PC
<1>3. DeskInv
  <2>1. \A s \in Session : /\ pc[s] = "idle" /\ req[s] = NoRequest
                            /\ pend[s] = NoWrite /\ held[s] = {}
    BY DEF Init
  <2>2. \A s \in Session : Phase(s) /\ HoldsItsLocks(s) /\ Sound(s)
    BY <2>1 DEF Phase, HoldsItsLocks, LocksOf, Sound
  <2>3. QED
    BY <2>1, <2>2 DEF DeskInv, LocksExclusive, WritersApart, NoWrite, Writing
<1>4. TableInv
  BY <1>1 DEF TableInv, VisitCoherent, AuditExplains, Explains, OneOpenVisit,
              NoRow, OpenStatus
<1>5. QED
  BY <1>2, <1>3, <1>4 DEF IInv

(* The inductive invariant holds in every reachable state. *)
THEOREM DeskInvariant == Spec => []IInv
<1>1. IInv /\ [Next]_vars => IInv'
  BY StepType, StepDesk, StepTables DEF IInv
<1>2. QED
  BY InitInv, <1>1, PTL DEF Spec

(* Tables, requests, uncommitted writes and locks keep their types. *)
THEOREM DeskTypeCorrect == Spec => []TypeOK
BY DeskInvariant, PTL DEF IInv

(* However many check-ins, departures and reentries run at once, no identity
   ever has two open visits. *)
THEOREM AtMostOneOpenVisit == Spec => []OneOpenVisit
BY DeskInvariant, PTL DEF IInv, TableInv

(* Status, time stamps and temporary exits of every visit agree. *)
THEOREM VisitsCoherent == Spec => []VisitCoherent
BY DeskInvariant, PTL DEF IInv, TableInv

(* The last audit entry of a visit always explains its status. *)
THEOREM AuditTrailExplains == Spec => []AuditExplains
BY DeskInvariant, PTL DEF IInv, TableInv

(* A visitor who is blocked when a check-in commits gets no visit. *)
THEOREM BlockedStaysOut == Spec => NoEntryWhileBlocked
<1>1. ASSUME IInv, [Next]_vars, NEW v \in Visit, visit[v] = NoRow, visit'[v] # NoRow
      PROVE  visitor[visit'[v].who] # "blocked"
  <2>1. CASE \E i \in Identity, w \in Visit, status \in {"active", "waiting"} :
               Lifecycle!CheckIn(i, w, status)
    <3>1. PICK i \in Identity, w \in Visit, status \in {"active", "waiting"} :
            Lifecycle!CheckIn(i, w, status)
      BY <2>1
    <3>2. /\ visitor[i] # "blocked"
          /\ visit' = [visit EXCEPT ![w] = Registered(i, status)]
      BY <3>1 DEF Lifecycle!CheckIn, Registered, Lifecycle!Registered
    <3>3. visit'[v].who = i
      BY <1>1, <3>2 DEF IInv, TypeOK, Registered
    <3>4. QED
      BY <3>2, <3>3
  <2>2. CASE \E op \in Transition, w \in Visit : Lifecycle!Move(op, w)
    <3>1. PICK op \in Transition, w \in Visit : Lifecycle!Move(op, w)
      BY <2>2
    <3>2. Permits(op, visit[w]) /\ visit[w] \in Row
      BY <1>1, <3>1 DEF IInv, TypeOK, Lifecycle!Move, Permits, Lifecycle!Permits,
                  Expected, Lifecycle!Expected
    <3>3. w # v
      BY <1>1, <3>2, PermitsOpen
    <3>4. QED
      BY <1>1, <3>1, <3>3 DEF IInv, TypeOK, Lifecycle!Move
  <2>3. CASE \E i \in Identity, value \in Edit : Lifecycle!SetBlocked(i, value)
    BY <1>1, <2>3 DEF Lifecycle!SetBlocked
  <2>4. CASE UNCHANGED tables
    BY <1>1, <2>4 DEF tables
  <2>5. QED
    BY <1>1, <2>1, <2>2, <2>3, <2>4, StepRefines DEF IInv
<1>2. IInv /\ [Next]_vars =>
        [\A v \in Visit : visit[v] = NoRow /\ visit'[v] # NoRow
           => visitor[visit'[v].who] # "blocked"]_vars
  BY <1>1
<1>3. QED
  BY <1>2, DeskInvariant, PTL DEF Spec, NoEntryWhileBlocked

(* A check-in is answered OPEN_VISIT_EXISTS only for an open visit.  The    *)
(* other way to that answer, a row of the visitor that appears after        *)
(* LockVisitor found none, is closed by the lock on the hash.               *)
THEOREM ConflictsAreReal == Spec => ConflictIsReal
<1>1. ASSUME IInv, NEW s \in Session, Arrive(s) \/ Serve(s) \/ Abort(s),
             NEW t \in Session, pc[t] # "conflict", pc'[t] = "conflict"
      PROVE  Lifecycle!HasOpenVisit(req[t].who)
  <2>1. s = t
    BY <1>1, LocalSteps DEF IInv, Elsewhere
  <2>2. Sound(s) /\ pc \in [Session -> PC]
    BY <1>1 DEF IInv, DeskInv, TypeOK
  <2>3. CASE InsertVisitor(s)
    BY <1>1, <2>1, <2>2, <2>3 DEF InsertVisitor, Sound
  <2>4. CASE InsertVisit(s)
    BY <1>1, <2>1, <2>2, <2>4 DEF InsertVisit
  <2>5. CASE ~ InsertVisitor(s) /\ ~ InsertVisit(s)
    BY <1>1, <2>1, <2>2, <2>5
       DEF Arrive, Serve, Abort, Finish, Advance, LockHash, MissVisitor, LockVisitor,
           AnswerConflict, LockVisit, WriteVisit, WriteBlocked, Commit, Announce
  <2>6. QED
    BY <2>3, <2>4, <2>5
<1>2. IInv /\ [Next]_vars =>
        [\A s \in Session : pc[s] # "conflict" /\ pc'[s] = "conflict"
           => Lifecycle!HasOpenVisit(req[s].who)]_vars
  BY <1>1 DEF Next
<1>3. QED
  BY <1>2, DeskInvariant, PTL DEF Spec, ConflictIsReal

(* The handlers, as interleaved transactions, implement the life cycle in
   which each request is one step. *)
THEOREM DeskImplementsLifecycle == Spec => ImplementsLifecycle
<1>1. Init => Lifecycle!Init
  BY DEF Init
<1>2. IInv /\ [Next]_vars => [Lifecycle!Next]_(Lifecycle!vars)
  BY StepRefines DEF IInv, Lifecycle!Next, Lifecycle!vars, Transition,
     Lifecycle!Transition, Edit, tables
<1>3. QED
  BY <1>1, <1>2, DeskInvariant, PTL DEF Spec, ImplementsLifecycle, Lifecycle!Spec
=============================================================================

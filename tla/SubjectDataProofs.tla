-------------------------- MODULE SubjectDataProofs --------------------------
(***************************************************************************)
(* Proofs about the personal data of a subject, for any transactions and   *)
(* rows.  SubjectInv is inductive: it says which locks a transaction holds *)
(* at each of its statements, and what those locks keep true until COMMIT: *)
(* the hash, that no visit or request of the subject appears; the locked   *)
(* row, that it still carries the hash; the rows to be deleted, that       *)
(* nobody has used them since.                                             *)
(***************************************************************************)
EXTENDS SubjectData, TLAPS

-----------------------------------------------------------------------------
(* The inductive invariant.                                                *)

(* No lock has two holders. *)
Mutex ==
  \A r, q \in Request : \A l \in Lock : l \in held[r] /\ l \in held[q] => r = q

(* r is between the advisory lock and the end of its transaction. *)
UnderHash(r) ==
  \/ pc[r] \in {"hashed", "unknown", "closed", "scrubbed"}
  \/ pc[r] = "locked" /\ op[r] \in {"checkin", "cancel"}

(* r holds the one Visitors row that carries the hash. *)
HasVisitor(r) ==
  \E p \in Found : \A q \in Person : VisitorLock(q) \in held[r] <=> q = p

(* r holds every visit of the subject, and every request. *)
HasVisits(r) ==
  \A v \in Visit, p \in Person :
    /\ VisitorLock(p) \in held[r]
    /\ visit[v].of = p \/ visit[v].key = Subject
    => VisitLock(v) \in held[r]
HasRequests(r) == \A a \in Arco : arco[a].key = Subject => ArcoLock(a) \in held[r]

(* What the retention r has locked may still be deleted. *)
Old(r) ==
  /\ \A p \in Person : VisitorLock(p) \in held[r] => person[p] # "absent" /\ p \notin recent
  /\ \A v \in Visit : VisitLock(v) \in held[r] => visit[v].state = "closed" /\ v \notin recent
  /\ \A a \in Arco : ArcoLock(a) \in held[r] => arco[a].state = "resolved" /\ a \notin recent

Sound(r) ==
  /\ pc[r] = "idle" => held[r] = {}
  /\ UnderHash(r) => Hash \in held[r]
  /\ pc[r] \in {"hashed", "unknown"} => \A p \in Person : VisitorLock(p) \notin held[r]
  /\ pc[r] = "unknown" => Found = {}
  /\ pc[r] \in {"locked", "closed", "scrubbed"} => HasVisitor(r)
  /\ pc[r] \in {"closed", "scrubbed"} => HasVisits(r)
  /\ pc[r] = "scrubbed" => HasRequests(r)
  /\ \A v \in Visit : VisitLock(v) \in held[r] => visit[v].state \in {"closed", "cancelled"}
  /\ op[r] = "retain" => Old(r)
  /\ \A p \in picked[r] : person[p] # "absent"

(* The tables: one row carries the hash, and what refers to a person.      *)
Rows ==
  /\ \A p, q \in Found : p = q
  /\ \A v \in Visit : visit[v].state \in {"absent", "purged"} => visit[v].of = None /\ visit[v].key = None
  /\ \A v \in Visit : visit[v].key \in Person => person[visit[v].key] \in {"anonymous", "purged"}
  /\ indexed \subseteq Found
  /\ \A p \in edited : person[p] \in {"named", "purged"}
  /\ StaysAnonymous

SubjectInv == TypeOK /\ Mutex /\ Rows /\ \A r \in Request : Sound(r)

-----------------------------------------------------------------------------
(* Locks.                                                                  *)

LEMMA LocksDiffer ==
  /\ Hash # Cleaning
  /\ Hash \in Lock /\ Cleaning \in Lock
  /\ \A p \in Person : VisitorLock(p) \in Lock /\ VisitorLock(p) \notin {Hash, Cleaning}
  /\ \A v \in Visit : VisitLock(v) \in Lock /\ VisitLock(v) \notin {Hash, Cleaning}
  /\ \A a \in Arco : ArcoLock(a) \in Lock /\ ArcoLock(a) \notin {Hash, Cleaning}
  /\ \A p, q \in Person : VisitorLock(p) = VisitorLock(q) => p = q
  /\ \A v, w \in Visit : VisitLock(v) = VisitLock(w) => v = w
  /\ \A a, b \in Arco : ArcoLock(a) = ArcoLock(b) => a = b
  /\ \A p \in Person, v \in Visit : VisitorLock(p) # VisitLock(v)
  /\ \A p \in Person, a \in Arco : VisitorLock(p) # ArcoLock(a)
  /\ \A v \in Visit, a \in Arco : VisitLock(v) # ArcoLock(a)
BY DEF Hash, Cleaning, VisitorLock, VisitLock, ArcoLock, Lock

(* The row a request has locked. *)
LEMMA MineIsNamed ==
  ASSUME NEW r \in Request, HasVisitor(r)
  PROVE  /\ Mine(r) \in Found
         /\ \A q \in Person : VisitorLock(q) \in held[r] <=> q = Mine(r)
BY DEF HasVisitor, Mine, Found

(* A step that writes nothing and takes free locks disturbs nobody else.   *)
LEMMA AdvanceStep ==
  ASSUME SubjectInv, NEW r \in Request, NEW o \in Op, NEW p \in PC, NEW L \in SUBSET Lock,
         Advance(r, o, p, L), \A l \in L : Free(l)
  PROVE  /\ TypeOK' /\ Mutex' /\ Rows'
         /\ \A q \in Request : q # r => Sound(q)'
         /\ held'[r] = held[r] \cup L /\ pc'[r] = p /\ op'[r] = o /\ picked'[r] = picked[r]
<1>1. TypeOK' /\ held'[r] = held[r] \cup L /\ pc'[r] = p /\ op'[r] = o
  BY DEF SubjectInv, TypeOK, Advance, tables
<1>2. \A q \in Request : q # r => held'[q] = held[q] /\ pc'[q] = pc[q] /\ op'[q] = op[q]
  BY DEF SubjectInv, TypeOK, Advance
<1>3. Mutex'
  BY <1>1, <1>2 DEF SubjectInv, Mutex, Free
<1>4. Rows'
  BY DEF SubjectInv, Rows, StaysAnonymous, Advance, tables, Found
<1>5. ASSUME NEW q \in Request, q # r PROVE Sound(q)'
  BY <1>2, <1>5 DEF SubjectInv, Sound, UnderHash, HasVisitor, HasVisits, HasRequests, Old, Found, Advance, tables
<1> QED BY <1>1, <1>3, <1>4, <1>5 DEF Advance

(* The end of a transaction. *)
LEMMA EndStep ==
  ASSUME SubjectInv, NEW r \in Request, End(r)
  PROVE  /\ pc' \in [Request -> PC] /\ op' \in [Request -> Op \cup {"none"}]
         /\ held' \in [Request -> SUBSET Lock] /\ picked' \in [Request -> SUBSET Person]
         /\ Mutex' /\ Sound(r)'
         /\ \A q \in Request : q # r => /\ held'[q] = held[q] /\ pc'[q] = pc[q]
                                        /\ op'[q] = op[q] /\ picked'[q] = picked[q]
<1>1. /\ pc' \in [Request -> PC] /\ op' \in [Request -> Op \cup {"none"}]
      /\ held' \in [Request -> SUBSET Lock] /\ picked' \in [Request -> SUBSET Person]
  BY DEF SubjectInv, TypeOK, End, PC
<1>2. pc'[r] = "idle" /\ op'[r] = "none" /\ held'[r] = {} /\ picked'[r] = {}
  BY DEF SubjectInv, TypeOK, End
<1>3. \A q \in Request : q # r => /\ held'[q] = held[q] /\ pc'[q] = pc[q]
                                  /\ op'[q] = op[q] /\ picked'[q] = picked[q]
  BY DEF SubjectInv, TypeOK, End
<1>4. Mutex'
  BY <1>2, <1>3 DEF SubjectInv, Mutex
<1>5. Sound(r)'
  BY <1>2 DEF Sound, UnderHash
<1> QED BY <1>1, <1>3, <1>4, <1>5

LEMMA RollbackStep ==
  ASSUME SubjectInv, NEW r \in Request, Rollback(r)
  PROVE  SubjectInv'
<1>1. End(r) /\ UNCHANGED tables
  BY DEF Rollback
<1>2. TypeOK'
  BY <1>1, EndStep DEF SubjectInv, TypeOK, tables
<1>3. Rows'
  BY <1>1 DEF SubjectInv, Rows, StaysAnonymous, tables, Found
<1>4. ASSUME NEW q \in Request, q # r PROVE Sound(q)'
  BY <1>1, <1>4, EndStep DEF SubjectInv, Sound, UnderHash, HasVisitor, HasVisits, HasRequests, Old, Found, tables
<1> QED BY <1>1, <1>2, <1>3, <1>4, EndStep DEF SubjectInv

-----------------------------------------------------------------------------
LEMMA InitSubject == Init => SubjectInv
<1> SUFFICES ASSUME Init PROVE SubjectInv
  OBVIOUS
<1>1. TypeOK
  BY DEF Init, TypeOK, VisitRow, ArcoRow, NoVisit, NoArco, PC
<1>2. Mutex
  BY DEF Init, Mutex
<1>3. Rows
  BY SubjectAssumption DEF Init, Rows, StaysAnonymous, Found, NoVisit, NoArco, Key
<1>4. \A r \in Request : Sound(r)
  BY DEF Init, Sound, UnderHash
<1> QED BY <1>1, <1>2, <1>3, <1>4 DEF SubjectInv

-----------------------------------------------------------------------------
(* The statements that only lock.                                          *)

LEMMA LockHashStep ==
  ASSUME SubjectInv, NEW r \in Request, LockHash(r)
  PROVE  SubjectInv'
<1>1. PICK o \in {"checkin", "file", "cancel"} : Advance(r, o, "hashed", {Hash})
  BY DEF LockHash
<1>2. Free(Hash) /\ pc[r] = "idle" /\ held[r] = {}
  BY DEF LockHash, SubjectInv, Sound
<1>3. o \in Op /\ "hashed" \in PC /\ {Hash} \in SUBSET Lock
  BY LocksDiffer DEF Op, PC
<1>4. /\ TypeOK' /\ Mutex' /\ Rows'
      /\ \A q \in Request : q # r => Sound(q)'
      /\ held'[r] = {Hash} /\ pc'[r] = "hashed" /\ op'[r] = o /\ picked'[r] = picked[r]
  BY <1>1, <1>2, <1>3, AdvanceStep
<1>5. Sound(r)'
  BY <1>1, <1>4, LocksDiffer DEF Sound, UnderHash, SubjectInv, Advance, tables
<1> QED BY <1>4, <1>5 DEF SubjectInv

LEMMA LockVisitorStep ==
  ASSUME SubjectInv, NEW r \in Request, LockVisitor(r)
  PROVE  SubjectInv'
<1>1. PICK o \in {"checkin", "cancel", "edit", "access"}, p \in Found :
        /\ \/ o \in {"checkin", "cancel"} /\ At(r, o, "hashed")
           \/ o \in {"edit", "access"} /\ pc[r] = "idle"
        /\ Free(VisitorLock(p))
        /\ Advance(r, o, "locked", {VisitorLock(p)})
  BY DEF LockVisitor
<1>2. p \in Person /\ o \in Op /\ "locked" \in PC /\ {VisitorLock(p)} \in SUBSET Lock
  BY LocksDiffer DEF Op, PC, Found
<1>3. /\ TypeOK' /\ Mutex' /\ Rows'
      /\ \A q \in Request : q # r => Sound(q)'
      /\ held'[r] = held[r] \cup {VisitorLock(p)} /\ pc'[r] = "locked" /\ op'[r] = o
      /\ picked'[r] = picked[r]
  BY <1>1, <1>2, AdvanceStep
<1>4. /\ \A q \in Person : VisitorLock(q) \notin held[r]
      /\ \A v \in Visit : VisitLock(v) \in held[r] => visit[v].state \in {"closed", "cancelled"}
      /\ \A q \in picked[r] : person[q] # "absent"
      /\ o \in {"checkin", "cancel"} => Hash \in held[r]
  BY <1>1 DEF SubjectInv, Sound, UnderHash, At
<1>5. UNCHANGED tables
  BY <1>1 DEF Advance
<1>6. HasVisitor(r)'
  BY <1>2, <1>3, <1>4, <1>5, LocksDiffer DEF HasVisitor, Found, tables
<1>7. Sound(r)'
  BY <1>2, <1>3, <1>4, <1>5, <1>6, LocksDiffer DEF Sound, UnderHash, tables
<1> QED BY <1>3, <1>7 DEF SubjectInv

LEMMA MissVisitorStep ==
  ASSUME SubjectInv, NEW r \in Request, MissVisitor(r)
  PROVE  SubjectInv'
<1>1. /\ Advance(r, "checkin", "unknown", {})
      /\ At(r, "checkin", "hashed") /\ Found = {}
  BY DEF MissVisitor
<1>2. "checkin" \in Op /\ "unknown" \in PC /\ {} \in SUBSET Lock
  BY DEF Op, PC
<1>3. /\ TypeOK' /\ Mutex' /\ Rows'
      /\ \A q \in Request : q # r => Sound(q)'
      /\ held'[r] = held[r] \cup {} /\ pc'[r] = "unknown" /\ op'[r] = "checkin"
      /\ picked'[r] = picked[r]
  BY <1>1, <1>2, AdvanceStep
<1>4. Sound(r)'
  BY <1>1, <1>3 DEF Sound, UnderHash, SubjectInv, Advance, At, tables, Found
<1> QED BY <1>3, <1>4 DEF SubjectInv

LEMMA LockVisitsStep ==
  ASSUME SubjectInv, NEW r \in Request, LockVisits(r)
  PROVE  SubjectInv'
<1> DEFINE own == {v \in Visit : visit[v].of = Mine(r) \/ visit[v].key = Subject}
           L == {VisitLock(v) : v \in own}
<1>1. /\ At(r, "cancel", "locked") /\ \A v \in own : Free(VisitLock(v))
      /\ \/ Rollback(r)
         \/ (~ \E v \in own : visit[v].state = "open") /\ Advance(r, "cancel", "closed", L)
  BY DEF LockVisits
<1>2. CASE (~ \E v \in own : visit[v].state = "open") /\ Advance(r, "cancel", "closed", L)
  <2>1. "cancel" \in Op /\ "closed" \in PC /\ L \in SUBSET Lock /\ \A l \in L : Free(l)
    BY <1>1, LocksDiffer DEF Op, PC
  <2>2. /\ TypeOK' /\ Mutex' /\ Rows'
        /\ \A q \in Request : q # r => Sound(q)'
        /\ held'[r] = held[r] \cup L /\ pc'[r] = "closed" /\ op'[r] = "cancel"
        /\ picked'[r] = picked[r]
    BY <1>2, <2>1, AdvanceStep
  <2>3. /\ Mine(r) \in Found /\ Mine(r) \in Person /\ Hash \in held[r]
        /\ \A q \in Person : VisitorLock(q) \in held[r] <=> q = Mine(r)
    BY <1>1, MineIsNamed DEF SubjectInv, Sound, At, UnderHash, Found
  <2>4. UNCHANGED tables
    BY <1>2 DEF Advance
  <2>5. \A q \in Person : VisitorLock(q) \in held'[r] <=> q = Mine(r)
    BY <2>2, <2>3, LocksDiffer
  <2>6. HasVisitor(r)'
    BY <2>3, <2>4, <2>5 DEF HasVisitor, Found, tables
  <2>7. HasVisits(r)'
    BY <2>2, <2>4, <2>5 DEF HasVisits, tables
  <2>8. \A v \in own : visit[v].state \in {"closed", "cancelled"}
    <3>1. None # Subject /\ None # Mine(r)
      BY <2>3, SubjectAssumption DEF Key
    <3>2. \A v \in own : visit[v].state \notin {"absent", "purged"}
      BY <3>1 DEF SubjectInv, Rows
    <3>3. \A v \in own : visit[v].state \in {"absent", "open", "closed", "cancelled", "purged"}
      BY DEF SubjectInv, TypeOK, VisitRow
    <3> QED BY <1>2, <3>2, <3>3
  <2>9. \A v \in Visit : VisitLock(v) \in held'[r] => visit[v].state \in {"closed", "cancelled"}
    <3>1. \A v \in Visit : VisitLock(v) \in L => v \in own
      BY LocksDiffer
    <3>2. \A v \in Visit : VisitLock(v) \in held[r] => visit[v].state \in {"closed", "cancelled"}
      BY DEF SubjectInv, Sound
    <3> QED BY <2>2, <2>8, <3>1, <3>2
  <2>10. Sound(r)'
    BY <2>2, <2>3, <2>4, <2>6, <2>7, <2>9 DEF Sound, UnderHash, SubjectInv, tables
  <2> QED BY <2>2, <2>10 DEF SubjectInv
<1> QED BY <1>1, <1>2, RollbackStep

LEMMA ScrubRequestsStep ==
  ASSUME SubjectInv, NEW r \in Request, ScrubRequests(r)
  PROVE  SubjectInv'
<1> DEFINE own == {a \in Arco : arco[a].key = Subject}
           L == {ArcoLock(a) : a \in own}
<1>1. /\ At(r, "cancel", "closed") /\ \A a \in own : Free(ArcoLock(a))
      /\ Advance(r, "cancel", "scrubbed", L)
  BY DEF ScrubRequests
<1>2. "cancel" \in Op /\ "scrubbed" \in PC /\ L \in SUBSET Lock /\ \A l \in L : Free(l)
  BY <1>1, LocksDiffer DEF Op, PC
<1>3. /\ TypeOK' /\ Mutex' /\ Rows'
      /\ \A q \in Request : q # r => Sound(q)'
      /\ held'[r] = held[r] \cup L /\ pc'[r] = "scrubbed" /\ op'[r] = "cancel"
      /\ picked'[r] = picked[r]
  BY <1>1, <1>2, AdvanceStep
<1>4. UNCHANGED tables
  BY <1>1 DEF Advance
<1>5. /\ \A q \in Person : VisitorLock(q) \in held'[r] <=> VisitorLock(q) \in held[r]
      /\ \A v \in Visit : VisitLock(v) \in held'[r] <=> VisitLock(v) \in held[r]
  BY <1>3, LocksDiffer
<1>6. HasVisitor(r) /\ HasVisits(r) /\ Hash \in held[r]
  BY <1>1 DEF SubjectInv, Sound, At, UnderHash
<1>7. HasVisitor(r)' /\ HasVisits(r)'
  BY <1>4, <1>5, <1>6 DEF HasVisitor, HasVisits, Found, tables
<1>8. HasRequests(r)'
  BY <1>3, <1>4 DEF HasRequests, tables
<1>9. Sound(r)'
  BY <1>3, <1>4, <1>5, <1>6, <1>7, <1>8 DEF Sound, UnderHash, SubjectInv, tables
<1> QED BY <1>3, <1>9 DEF SubjectInv

LEMMA TryCleaningStep ==
  ASSUME SubjectInv, NEW r \in Request, TryCleaning(r)
  PROVE  SubjectInv'
<1>1. /\ pc[r] = "idle" /\ held[r] = {} /\ Free(Cleaning)
      /\ Advance(r, "retain", "visits", {Cleaning})
  BY DEF TryCleaning, SubjectInv, Sound
<1>2. "retain" \in Op /\ "visits" \in PC /\ {Cleaning} \in SUBSET Lock
  BY LocksDiffer DEF Op, PC
<1>3. /\ TypeOK' /\ Mutex' /\ Rows'
      /\ \A q \in Request : q # r => Sound(q)'
      /\ held'[r] = {Cleaning} /\ pc'[r] = "visits" /\ op'[r] = "retain"
      /\ picked'[r] = picked[r]
  BY <1>1, <1>2, AdvanceStep
<1>4. Sound(r)'
  BY <1>1, <1>3, LocksDiffer DEF Sound, UnderHash, Old, SubjectInv, Advance, tables
<1> QED BY <1>3, <1>4 DEF SubjectInv

LEMMA PurgeVisitsStep ==
  ASSUME SubjectInv, NEW r \in Request, PurgeVisits(r)
  PROVE  SubjectInv'
<1> DEFINE old == {v \in Visit : visit[v].state = "closed" /\ v \notin recent}
           L == {VisitLock(v) : v \in old}
<1>1. /\ At(r, "retain", "visits") /\ \A v \in old : Free(VisitLock(v))
      /\ Advance(r, "retain", "requests", L)
  BY DEF PurgeVisits
<1>2. "retain" \in Op /\ "requests" \in PC /\ L \in SUBSET Lock /\ \A l \in L : Free(l)
  BY <1>1, LocksDiffer DEF Op, PC
<1>3. /\ TypeOK' /\ Mutex' /\ Rows'
      /\ \A q \in Request : q # r => Sound(q)'
      /\ held'[r] = held[r] \cup L /\ pc'[r] = "requests" /\ op'[r] = "retain"
      /\ picked'[r] = picked[r]
  BY <1>1, <1>2, AdvanceStep
<1>4. /\ \A v \in Visit : VisitLock(v) \in L => v \in old
      /\ \A p \in Person : VisitorLock(p) \notin L
      /\ \A a \in Arco : ArcoLock(a) \notin L
  BY LocksDiffer
<1>5. Old(r) /\ \A p \in picked[r] : person[p] # "absent"
  BY <1>1 DEF SubjectInv, Sound, At
<1>6. UNCHANGED tables
  BY <1>1 DEF Advance
<1>7. Old(r)'
  BY <1>3, <1>4, <1>5, <1>6 DEF Old, tables
<1>8. Sound(r)'
  BY <1>3, <1>5, <1>6, <1>7 DEF Sound, UnderHash, Old, tables
<1> QED BY <1>3, <1>8 DEF SubjectInv

LEMMA PurgeRequestsStep ==
  ASSUME SubjectInv, NEW r \in Request, PurgeRequests(r)
  PROVE  SubjectInv'
<1> DEFINE old == {a \in Arco : arco[a].state = "resolved" /\ a \notin recent}
           L == {ArcoLock(a) : a \in old}
<1>1. /\ At(r, "retain", "requests") /\ \A a \in old : Free(ArcoLock(a))
      /\ Advance(r, "retain", "visitors", L)
  BY DEF PurgeRequests
<1>2. "retain" \in Op /\ "visitors" \in PC /\ L \in SUBSET Lock /\ \A l \in L : Free(l)
  BY <1>1, LocksDiffer DEF Op, PC
<1>3. /\ TypeOK' /\ Mutex' /\ Rows'
      /\ \A q \in Request : q # r => Sound(q)'
      /\ held'[r] = held[r] \cup L /\ pc'[r] = "visitors" /\ op'[r] = "retain"
      /\ picked'[r] = picked[r]
  BY <1>1, <1>2, AdvanceStep
<1>4. /\ \A a \in Arco : ArcoLock(a) \in L => a \in old
      /\ \A p \in Person : VisitorLock(p) \notin L
      /\ \A v \in Visit : VisitLock(v) \notin L
  BY LocksDiffer
<1>5. Old(r) /\ \A p \in picked[r] : person[p] # "absent"
  BY <1>1 DEF SubjectInv, Sound, At
<1>6. UNCHANGED tables
  BY <1>1 DEF Advance
<1>7. Old(r)'
  BY <1>3, <1>4, <1>5, <1>6 DEF Old, tables
<1>8. Sound(r)'
  BY <1>3, <1>5, <1>6, <1>7 DEF Sound, UnderHash, Old, tables
<1> QED BY <1>3, <1>8 DEF SubjectInv

LEMMA PickVisitorsStep ==
  ASSUME SubjectInv, NEW r \in Request, PickVisitors(r)
  PROVE  SubjectInv'
<1> DEFINE old == {p \in Person : /\ person[p] \in {"named", "anonymous"}
                                  /\ p \notin recent
                                  /\ ~ Referenced(r, p)}
<1>1. /\ picked' = [picked EXCEPT ![r] = old] /\ pc' = [pc EXCEPT ![r] = "picked"]
      /\ UNCHANGED <<tables, op, held>> /\ op[r] = "retain"
  BY DEF PickVisitors, At
<1>2. TypeOK'
  BY <1>1 DEF SubjectInv, TypeOK, tables, PC
<1>3. Mutex' /\ Rows'
  BY <1>1 DEF SubjectInv, Mutex, Rows, StaysAnonymous, tables, Found
<1>4. /\ pc'[r] = "picked" /\ picked'[r] = old
      /\ \A q \in Request : q # r => pc'[q] = pc[q] /\ picked'[q] = picked[q]
  BY <1>1 DEF SubjectInv, TypeOK
<1>5. Sound(r)'
  BY <1>1, <1>4 DEF SubjectInv, Sound, UnderHash, Old, tables
<1>6. ASSUME NEW q \in Request, q # r PROVE Sound(q)'
  BY <1>1, <1>4, <1>6 DEF SubjectInv, Sound, UnderHash, HasVisitor, HasVisits, HasRequests, Old, Found, tables
<1> QED BY <1>2, <1>3, <1>5, <1>6 DEF SubjectInv

LEMMA PurgeVisitorsStep ==
  ASSUME SubjectInv, NEW r \in Request, PurgeVisitors(r)
  PROVE  SubjectInv'
<1> DEFINE old == picked[r] \ recent
           L == {VisitorLock(p) : p \in old}
<1>1. /\ At(r, "retain", "picked") /\ \A p \in picked[r] : Free(VisitorLock(p))
      /\ Advance(r, "retain", "purged", L)
  BY DEF PurgeVisitors
<1>2. old \subseteq Person
  BY DEF SubjectInv, TypeOK
<1>3. "retain" \in Op /\ "purged" \in PC /\ L \in SUBSET Lock /\ \A l \in L : Free(l)
  BY <1>1, <1>2, LocksDiffer DEF Op, PC
<1>4. /\ TypeOK' /\ Mutex' /\ Rows'
      /\ \A q \in Request : q # r => Sound(q)'
      /\ held'[r] = held[r] \cup L /\ pc'[r] = "purged" /\ op'[r] = "retain"
      /\ picked'[r] = picked[r]
  BY <1>1, <1>3, AdvanceStep
<1>5. /\ \A p \in Person : VisitorLock(p) \in L => p \in old
      /\ \A a \in Arco : ArcoLock(a) \notin L
      /\ \A v \in Visit : VisitLock(v) \notin L
  BY <1>2, LocksDiffer
<1>6. Old(r) /\ \A p \in picked[r] : person[p] # "absent"
  BY <1>1 DEF SubjectInv, Sound, At
<1>7. UNCHANGED tables
  BY <1>1 DEF Advance
<1>8. Old(r)'
  BY <1>4, <1>5, <1>6, <1>7 DEF Old, tables
<1>9. Sound(r)'
  BY <1>4, <1>6, <1>7, <1>8 DEF Sound, UnderHash, Old, tables
<1> QED BY <1>4, <1>9 DEF SubjectInv

-----------------------------------------------------------------------------
(* The statements that write.                                              *)

(* A visit entered under the hash for the row that carries it.             *)
LEMMA CheckInKnownStep ==
  ASSUME SubjectInv, NEW r \in Request, CheckInKnown(r)
  PROVE  SubjectInv'
<1> DEFINE p == Mine(r)
<1>1. /\ At(r, "checkin", "locked") /\ Enter(p, {}) /\ End(r)
      /\ UNCHANGED <<person, arco, edited, logged>>
  BY DEF CheckInKnown
<1>2. p \in Person /\ person[p] = "named" /\ p \in Found /\ Hash \in held[r]
  BY <1>1, MineIsNamed DEF SubjectInv, Sound, At, UnderHash, Found
<1>3. PICK v \in Visit :
        /\ visit[v].state = "absent"
        /\ visit' = [visit EXCEPT ![v] = [state |-> "open", of |-> p, key |-> Subject]]
        /\ recent' = recent \cup {} \cup {v}
  BY <1>1 DEF Enter
<1>4. indexed' = indexed \cup {p} /\ Found' = Found
  BY <1>1 DEF Enter, Found
<1>5. /\ visit'[v] = [state |-> "open", of |-> p, key |-> Subject]
      /\ \A w \in Visit : w # v => visit'[w] = visit[w]
  BY <1>3 DEF SubjectInv, TypeOK
<1>6. TypeOK'
  <2>1. visit' \in [Visit -> VisitRow]
    BY <1>2, <1>3 DEF SubjectInv, TypeOK, VisitRow, Key
  <2> QED BY <1>1, <1>2, <1>3, <1>4, <2>1, EndStep DEF SubjectInv, TypeOK
<1>7. Rows'
  <2>1. StaysAnonymous'
    BY <1>1, <1>2, <1>4, <1>5, SubjectAssumption DEF SubjectInv, Rows, StaysAnonymous
  <2> QED BY <1>1, <1>2, <1>4, <1>5, <2>1, SubjectAssumption DEF SubjectInv, Rows
<1>8. ASSUME NEW q \in Request, q # r PROVE Sound(q)'
  <2>1. held'[q] = held[q] /\ pc'[q] = pc[q] /\ op'[q] = op[q] /\ picked'[q] = picked[q]
    BY <1>1, <1>8, EndStep
  <2>2. Sound(q) /\ Hash \notin held[q] /\ ~ UnderHash(q)
    BY <1>2, <1>8, LocksDiffer DEF SubjectInv, Mutex, Sound
  <2>3. VisitLock(v) \notin held[q]
    BY <1>3, <2>2 DEF Sound
  <2>4. Old(q) => Old(q)'
    BY <1>1, <1>3, <1>5, <2>1, <2>3, SubjectAssumption DEF Old
  <2>5. HasVisitor(q) => HasVisitor(q)'
    BY <1>4, <2>1 DEF HasVisitor
  <2> QED BY <1>1, <1>4, <1>5, <2>1, <2>2, <2>3, <2>4, <2>5 DEF Sound, UnderHash
<1> QED BY <1>1, <1>6, <1>7, <1>8, EndStep DEF SubjectInv

(* The same for a new row: nobody else is between the lock and COMMIT.     *)
LEMMA CheckInUnknownStep ==
  ASSUME SubjectInv, NEW r \in Request, CheckInUnknown(r)
  PROVE  SubjectInv'
<1>1. /\ At(r, "checkin", "unknown") /\ End(r)
      /\ UNCHANGED <<arco, edited, logged>> /\ Hash \in held[r] /\ Found = {}
  BY DEF CheckInUnknown, SubjectInv, Sound, UnderHash, At
<1>2. PICK p \in Person :
        /\ person[p] = "absent"
        /\ person' = [person EXCEPT ![p] = "named"]
        /\ Enter(p, {p})
  BY DEF CheckInUnknown
<1>3. PICK v \in Visit :
        /\ visit[v].state = "absent"
        /\ visit' = [visit EXCEPT ![v] = [state |-> "open", of |-> p, key |-> Subject]]
        /\ recent' = recent \cup {p} \cup {v}
  BY <1>2 DEF Enter
<1>4. /\ person'[p] = "named" /\ \A q \in Person : q # p => person'[q] = person[q]
      /\ indexed' = indexed \cup {p} /\ Found' = {p}
  BY <1>1, <1>2 DEF Enter, Found, SubjectInv, TypeOK
<1>5. /\ visit'[v] = [state |-> "open", of |-> p, key |-> Subject]
      /\ \A w \in Visit : w # v => visit'[w] = visit[w]
  BY <1>3 DEF SubjectInv, TypeOK
<1>6. TypeOK'
  <2>1. visit' \in [Visit -> VisitRow]
    BY <1>3 DEF SubjectInv, TypeOK, VisitRow, Key
  <2>2. person' \in [Person -> {"absent", "named", "anonymous", "purged"}]
    BY <1>2 DEF SubjectInv, TypeOK
  <2> QED BY <1>1, <1>2, <1>3, <1>4, <2>1, <2>2, EndStep DEF SubjectInv, TypeOK
<1>7. Rows'
  <2>1. StaysAnonymous'
    BY <1>1, <1>4, <1>5, SubjectAssumption DEF SubjectInv, Rows, StaysAnonymous
  <2>2. edited \subseteq Person /\ \A q \in edited : person'[q] \in {"named", "purged"}
    BY <1>2, <1>4 DEF SubjectInv, Rows, TypeOK
  <2>3. \A w \in Visit : visit'[w].key \in Person => person'[visit'[w].key] \in {"anonymous", "purged"}
    BY <1>2, <1>4, <1>5, SubjectAssumption DEF SubjectInv, Rows
  <2> QED BY <1>1, <1>4, <1>5, <2>1, <2>2, <2>3 DEF SubjectInv, Rows
<1>8. ASSUME NEW q \in Request, q # r PROVE Sound(q)'
  <2>1. held'[q] = held[q] /\ pc'[q] = pc[q] /\ op'[q] = op[q] /\ picked'[q] = picked[q]
    BY <1>1, <1>8, EndStep
  <2>2. Sound(q) /\ ~ UnderHash(q) /\ ~ HasVisitor(q)
    BY <1>1, <1>8, LocksDiffer DEF SubjectInv, Mutex, Sound, HasVisitor
  <2>3. VisitLock(v) \notin held[q]
    BY <1>3, <2>2 DEF Sound
  <2>4. Old(q) => Old(q)'
    BY <1>1, <1>2, <1>3, <1>4, <1>5, <2>1, <2>3, SubjectAssumption DEF Old
  <2>5. \A s \in picked[q] : s \in Person /\ person'[s] # "absent"
    BY <1>4, <2>2 DEF SubjectInv, TypeOK, Sound
  <2> QED BY <1>5, <2>1, <2>2, <2>3, <2>4, <2>5 DEF Sound, UnderHash
<1> QED BY <1>1, <1>6, <1>7, <1>8, EndStep DEF SubjectInv

LEMMA EditVisitorStep ==
  ASSUME SubjectInv, NEW r \in Request, EditVisitor(r)
  PROVE  SubjectInv'
<1> DEFINE p == Mine(r)
<1>1. /\ At(r, "edit", "locked") /\ End(r) /\ UNCHANGED <<person, visit, arco>>
      /\ edited' = edited \cup {p} /\ indexed' = indexed \cup {p} /\ recent' = recent \cup {p}
      /\ logged' = "recent"
  BY DEF EditVisitor
<1>2. p \in Person /\ person[p] = "named" /\ p \in Found /\ VisitorLock(p) \in held[r]
  BY <1>1, MineIsNamed DEF SubjectInv, Sound, At, Found
<1>3. TypeOK'
  BY <1>1, <1>2, EndStep DEF SubjectInv, TypeOK
<1>4. Rows'
  BY <1>1, <1>2 DEF SubjectInv, Rows, StaysAnonymous, Found
<1>5. ASSUME NEW q \in Request, q # r PROVE Sound(q)'
  <2>1. held'[q] = held[q] /\ pc'[q] = pc[q] /\ op'[q] = op[q] /\ picked'[q] = picked[q]
    BY <1>1, <1>5, EndStep
  <2>2. VisitorLock(p) \notin held[q]
    BY <1>2, <1>5, LocksDiffer DEF SubjectInv, Mutex
  <2>3. Old(q) => Old(q)'
    BY <1>1, <1>2, <2>1, <2>2, SubjectAssumption DEF Old
  <2> QED BY <1>1, <2>1, <2>3 DEF SubjectInv, Sound, UnderHash, HasVisitor, HasVisits, HasRequests, Found
<1> QED BY <1>1, <1>3, <1>4, <1>5, EndStep DEF SubjectInv

LEMMA SubjectAccessStep ==
  ASSUME SubjectInv, NEW r \in Request, SubjectAccess(r)
  PROVE  SubjectInv'
<1>1. End(r) /\ UNCHANGED <<person, visit, arco, edited, indexed, recent>> /\ logged' = "recent"
  BY DEF SubjectAccess
<1>2. TypeOK'
  BY <1>1, EndStep DEF SubjectInv, TypeOK
<1>3. Rows'
  BY <1>1 DEF SubjectInv, Rows, StaysAnonymous, Found
<1>4. ASSUME NEW q \in Request, q # r PROVE Sound(q)'
  BY <1>1, <1>4, EndStep DEF SubjectInv, Sound, UnderHash, HasVisitor, HasVisits, HasRequests, Old, Found
<1> QED BY <1>1, <1>2, <1>3, <1>4, EndStep DEF SubjectInv

LEMMA FileRequestStep ==
  ASSUME SubjectInv, NEW r \in Request, FileRequest(r)
  PROVE  SubjectInv'
<1>1. /\ At(r, "file", "hashed") /\ End(r) /\ UNCHANGED <<person, visit, edited, indexed>>
      /\ logged' \in {logged, "recent"} /\ Hash \in held[r]
  BY DEF FileRequest, SubjectInv, Sound, UnderHash, At
<1>2. PICK a \in Arco :
        /\ arco[a].state = "absent"
        /\ arco' = [arco EXCEPT ![a] = [state |-> "pending", key |-> Subject, notes |-> FALSE]]
        /\ recent' = recent \cup {a}
  BY DEF FileRequest
<1>3. /\ arco'[a] = [state |-> "pending", key |-> Subject, notes |-> FALSE]
      /\ \A b \in Arco : b # a => arco'[b] = arco[b]
  BY <1>2 DEF SubjectInv, TypeOK
<1>4. TypeOK'
  <2>1. arco' \in [Arco -> ArcoRow]
    BY <1>2 DEF SubjectInv, TypeOK, ArcoRow, Key
  <2> QED BY <1>1, <1>2, <2>1, EndStep DEF SubjectInv, TypeOK
<1>5. Rows'
  BY <1>1, <1>3 DEF SubjectInv, Rows, StaysAnonymous, Found
<1>6. ASSUME NEW q \in Request, q # r PROVE Sound(q)'
  <2>1. held'[q] = held[q] /\ pc'[q] = pc[q] /\ op'[q] = op[q] /\ picked'[q] = picked[q]
    BY <1>1, <1>6, EndStep
  <2>2. Sound(q) /\ ~ UnderHash(q)
    BY <1>1, <1>6, LocksDiffer DEF SubjectInv, Mutex, Sound
  <2>3. Old(q) => Old(q)'
    BY <1>1, <1>2, <1>3, <2>1, SubjectAssumption DEF Old
  <2> QED BY <1>1, <2>1, <2>2, <2>3 DEF Sound, UnderHash, HasVisitor, Found
<1> QED BY <1>1, <1>4, <1>5, <1>6, EndStep DEF SubjectInv

(* Steps outside the transactions: they write rows that are not locked.    *)
LEMMA CloseVisitStep ==
  ASSUME SubjectInv, NEW v \in Visit, CloseVisit(v)
  PROVE  SubjectInv'
<1>1. /\ visit[v].state = "open" /\ Free(VisitLock(v)) /\ recent' = recent \cup {v}
      /\ UNCHANGED <<person, arco, edited, indexed, logged, pc, op, held, picked>>
  BY DEF CloseVisit
<1>2. PICK state \in {"closed", "cancelled"} : visit' = [visit EXCEPT ![v].state = state]
  BY DEF CloseVisit
<1>3. /\ visit'[v].state = state /\ visit'[v].of = visit[v].of /\ visit'[v].key = visit[v].key
      /\ \A w \in Visit : w # v => visit'[w] = visit[w]
  BY <1>2 DEF SubjectInv, TypeOK, VisitRow
<1>4. TypeOK'
  <2>1. visit' \in [Visit -> VisitRow]
    BY <1>2 DEF SubjectInv, TypeOK, VisitRow
  <2> QED BY <1>1, <2>1 DEF SubjectInv, TypeOK
<1>5. Mutex'
  BY <1>1 DEF SubjectInv, Mutex
<1>6. Rows'
  <2>1. \A w \in Visit : visit'[w].of = visit[w].of /\ visit'[w].key = visit[w].key
    BY <1>3
  <2> QED BY <1>1, <1>3, <2>1 DEF SubjectInv, Rows, StaysAnonymous, Found
<1>7. ASSUME NEW q \in Request PROVE Sound(q)'
  <2>1. VisitLock(v) \notin held[q] /\ Sound(q)
    BY <1>1 DEF Free, SubjectInv
  <2>2. Old(q) => Old(q)'
    BY <1>1, <1>3, <2>1, SubjectAssumption DEF Old
  <2>3. HasVisits(q) => HasVisits(q)'
    BY <1>1, <1>3 DEF HasVisits
  <2> QED BY <1>1, <1>3, <2>1, <2>2, <2>3 DEF Sound, UnderHash, HasVisitor, HasRequests, Found
<1> QED BY <1>4, <1>5, <1>6, <1>7 DEF SubjectInv

LEMMA ResolveRequestStep ==
  ASSUME SubjectInv, NEW a \in Arco, ResolveRequest(a)
  PROVE  SubjectInv'
<1>1. /\ arco[a].state \in {"pending", "resolved"} /\ Free(ArcoLock(a)) /\ recent' = recent \cup {a}
      /\ UNCHANGED <<person, visit, edited, indexed, logged, pc, op, held, picked>>
  BY DEF ResolveRequest
<1>2. PICK state \in {"pending", "resolved"}, notes \in BOOLEAN :
        arco' = [arco EXCEPT ![a].state = state, ![a].notes = notes /\ arco[a].key = Subject]
  BY DEF ResolveRequest
<1> DEFINE kept == notes /\ arco[a].key = Subject
<1>3. kept \in BOOLEAN /\ (kept => arco[a].key = Subject)
  OBVIOUS
<1>4. arco' = [arco EXCEPT ![a].state = state, ![a].notes = kept]
  BY <1>2
<1> HIDE DEF kept
<1>5. /\ arco'[a].key = arco[a].key /\ arco'[a].notes = kept
      /\ \A b \in Arco : b # a => arco'[b] = arco[b]
  BY <1>4 DEF SubjectInv, TypeOK, ArcoRow
<1>6. TypeOK'
  <2>1. arco \in [Arco -> ArcoRow]
    BY DEF SubjectInv, TypeOK
  <2>2. [arco[a] EXCEPT !.state = state, !.notes = kept] \in ArcoRow
    BY <1>3, <2>1 DEF ArcoRow
  <2>3. arco' = [arco EXCEPT ![a] = [arco[a] EXCEPT !.state = state, !.notes = kept]]
    BY <1>4
  <2>4. arco' \in [Arco -> ArcoRow]
    BY <2>1, <2>2, <2>3
  <2> QED BY <1>1, <2>4 DEF SubjectInv, TypeOK
<1>7. Mutex'
  BY <1>1 DEF SubjectInv, Mutex
<1>8. Rows'
  <2>1. \A b \in Arco : arco'[b].key \in Person => ~ arco'[b].notes
    BY <1>3, <1>5, SubjectAssumption DEF SubjectInv, Rows, StaysAnonymous
  <2> QED BY <1>1, <2>1 DEF SubjectInv, Rows, StaysAnonymous, Found
<1>9. ASSUME NEW q \in Request PROVE Sound(q)'
  <2>1. ArcoLock(a) \notin held[q] /\ Sound(q)
    BY <1>1 DEF Free, SubjectInv
  <2>2. Old(q) => Old(q)'
    BY <1>1, <1>5, <2>1, SubjectAssumption DEF Old
  <2>3. HasRequests(q) => HasRequests(q)'
    BY <1>1, <1>5 DEF HasRequests
  <2> QED BY <1>1, <2>1, <2>2, <2>3 DEF Sound, UnderHash, HasVisitor, HasVisits, Found
<1> QED BY <1>6, <1>7, <1>8, <1>9 DEF SubjectInv

(* The cancellation: it holds all that names the subject, and nobody else is
   between the lock and COMMIT or holds the Visitors row. *)
LEMMA AnonymiseStep ==
  ASSUME SubjectInv, NEW r \in Request, Anonymise(r)
  PROVE  /\ SubjectInv'
         /\ ~ Known'
         /\ \A q \in edited' : person'[q] = "purged"
<1> DEFINE p    == Mine(r)
           mine == {v \in Visit : VisitLock(v) \in held[r]}
           asks == {a \in Arco : ArcoLock(a) \in held[r]}
<1>1. /\ At(r, "cancel", "scrubbed") /\ End(r)
      /\ person' = [person EXCEPT ![p] = "anonymous"]
      /\ edited' = edited \ {p} /\ indexed' = indexed \ {p} /\ logged' = "no"
      /\ visit' = [v \in Visit |-> IF v \in mine
                     THEN [visit[v] EXCEPT !.of = p, !.key = p] ELSE visit[v]]
  BY DEF Anonymise
<1>2. PICK own \in Arco :
        /\ arco[own].state = "absent"
        /\ arco' = [a \in Arco |->
             IF a = own THEN [state |-> "resolved", key |-> p, notes |-> FALSE]
               ELSE IF a \in asks THEN [arco[a] EXCEPT !.key = p, !.notes = FALSE]
               ELSE arco[a]]
        /\ recent' = recent \cup {p, own} \cup mine \cup asks
  BY DEF Anonymise
<1>3. /\ Sound(r) /\ HasVisitor(r) /\ HasVisits(r) /\ HasRequests(r) /\ Hash \in held[r]
      /\ p \in Person /\ person[p] = "named" /\ Found = {p} /\ VisitorLock(p) \in held[r]
  <2>1. Sound(r) /\ HasVisitor(r) /\ HasVisits(r) /\ HasRequests(r) /\ Hash \in held[r]
    BY <1>1 DEF SubjectInv, Sound, UnderHash, At
  <2> QED BY <2>1, MineIsNamed DEF SubjectInv, Rows, Found
<1> HIDE DEF p
<1>4. /\ person'[p] = "anonymous" /\ \A q \in Person : q # p => person'[q] = person[q]
      /\ Found' = {}
  BY <1>1, <1>3 DEF SubjectInv, TypeOK, Found
<1>5. /\ \A v \in mine : /\ visit'[v].of = p /\ visit'[v].key = p
                         /\ visit'[v].state = visit[v].state
                         /\ visit[v].state \in {"closed", "cancelled"}
      /\ \A v \in Visit : v \notin mine => /\ visit'[v] = visit[v]
                                           /\ visit[v].of # p /\ visit[v].key # Subject
                                           /\ visit[v].key # p
  <2>1. ASSUME NEW v \in mine
        PROVE  /\ visit'[v].of = p /\ visit'[v].key = p /\ visit'[v].state = visit[v].state
               /\ visit[v].state \in {"closed", "cancelled"}
    <3>1. visit'[v] = [visit[v] EXCEPT !.of = p, !.key = p] /\ visit[v] \in VisitRow
      BY <1>1 DEF SubjectInv, TypeOK
    <3> QED BY <1>3, <3>1 DEF VisitRow, Sound
  <2>2. ASSUME NEW v \in Visit, v \notin mine
        PROVE  /\ visit'[v] = visit[v] /\ visit[v].of # p /\ visit[v].key # Subject
               /\ visit[v].key # p
    BY <1>1, <1>3, <2>2 DEF HasVisits, SubjectInv, Rows
  <2> QED BY <2>1, <2>2
<1>6. /\ arco'[own] = [state |-> "resolved", key |-> p, notes |-> FALSE]
      /\ \A a \in asks : arco'[a].key = p /\ ~ arco'[a].notes
      /\ \A a \in Arco : a # own /\ a \notin asks => arco'[a] = arco[a] /\ arco[a].key # Subject
      /\ arco' \in [Arco -> ArcoRow]
  <2>1. ASSUME NEW a \in Arco, a # own, a \in asks
        PROVE  arco'[a].key = p /\ ~ arco'[a].notes /\ arco'[a] \in ArcoRow
    <3>1. arco'[a] = [arco[a] EXCEPT !.key = p, !.notes = FALSE] /\ arco[a] \in ArcoRow
      BY <1>2, <2>1 DEF SubjectInv, TypeOK
    <3> QED BY <1>3, <3>1 DEF ArcoRow, Key
  <2>2. ASSUME NEW a \in Arco, a # own, a \notin asks
        PROVE  arco'[a] = arco[a] /\ arco[a].key # Subject /\ arco'[a] \in ArcoRow
    <3>1. arco'[a] = arco[a] /\ arco[a] \in ArcoRow
      BY <1>2, <2>2 DEF SubjectInv, TypeOK
    <3> QED BY <1>3, <2>2, <3>1 DEF HasRequests
  <2>3. /\ arco'[own] = [state |-> "resolved", key |-> p, notes |-> FALSE]
        /\ arco'[own] \in ArcoRow
    <3>1. arco'[own] = [state |-> "resolved", key |-> p, notes |-> FALSE]
      BY <1>2
    <3> QED BY <1>3, <3>1 DEF ArcoRow, Key
  <2>4. /\ arco' = [a \in Arco |-> arco'[a]]
        /\ \A a \in Arco : arco'[a] \in ArcoRow
    BY <1>2, <2>1, <2>2, <2>3
  <2> QED BY <2>1, <2>2, <2>3, <2>4
<1>7. TypeOK'
  <2>1. person' \in [Person -> {"absent", "named", "anonymous", "purged"}]
    BY <1>1, <1>3 DEF SubjectInv, TypeOK
  <2>2. visit' \in [Visit -> VisitRow]
    <3>1. \A v \in Visit : visit'[v] \in VisitRow
      <4>1. \A v \in Visit : visit[v] \in VisitRow
        BY DEF SubjectInv, TypeOK
      <4>2. \A v \in Visit : [visit[v] EXCEPT !.of = p, !.key = p] \in VisitRow
        BY <1>3, <4>1 DEF VisitRow, Key
      <4> QED BY <1>1, <4>1, <4>2
    <3> QED BY <1>1, <3>1
  <2>3. recent' \subseteq Person \cup Visit \cup Arco
    BY <1>2, <1>3 DEF SubjectInv, TypeOK
  <2> QED BY <1>1, <1>6, <2>1, <2>2, <2>3, EndStep DEF SubjectInv, TypeOK
<1>8. Rows'
  <2>1. indexed' = {} /\ \A q \in edited' : q \in Person /\ person'[q] = "purged"
    BY <1>1, <1>3, <1>4 DEF SubjectInv, Rows, TypeOK, Found
  <2>2. \A v \in Visit : visit'[v].key \in Person => person'[visit'[v].key] \in {"anonymous", "purged"}
    BY <1>3, <1>4, <1>5 DEF SubjectInv, Rows
  <2>3. \A v \in Visit : visit'[v].state \in {"absent", "purged"}
                           => visit'[v].of = None /\ visit'[v].key = None
    BY <1>5 DEF SubjectInv, Rows
  <2>4. \A q \in Person : person'[q] = "anonymous" =>
          /\ q \notin edited' \cup indexed'
          /\ \A v \in Visit : visit'[v].of = q \/ visit'[v].key = q
               => visit'[v].state \in {"closed", "cancelled"} /\ visit'[v].key = q
    BY <1>4, <1>5, <2>1 DEF SubjectInv, Rows, StaysAnonymous
  <2>5. \A a \in Arco : arco'[a].key \in Person => ~ arco'[a].notes
    BY <1>6 DEF SubjectInv, Rows, StaysAnonymous
  <2> QED BY <1>4, <2>1, <2>2, <2>3, <2>4, <2>5 DEF Rows, StaysAnonymous
<1>9. ASSUME NEW q \in Request, q # r PROVE Sound(q)'
  <2>1. held'[q] = held[q] /\ pc'[q] = pc[q] /\ op'[q] = op[q] /\ picked'[q] = picked[q]
    BY <1>1, <1>9, EndStep
  <2>2. /\ Sound(q) /\ ~ UnderHash(q) /\ VisitorLock(p) \notin held[q]
        /\ \A v \in mine : VisitLock(v) \notin held[q]
        /\ \A a \in asks : ArcoLock(a) \notin held[q]
    BY <1>3, <1>9, LocksDiffer DEF SubjectInv, Mutex, Sound
  <2>3. ~ HasVisitor(q)
    BY <1>3, <2>2 DEF HasVisitor
  <2>4. Old(q) => Old(q)'
    <3> SUFFICES ASSUME Old(q) PROVE Old(q)'
      OBVIOUS
    <3>1. ASSUME NEW s \in Person, VisitorLock(s) \in held[q]
          PROVE  person'[s] # "absent" /\ s \notin recent'
      BY <1>2, <1>3, <1>4, <2>2, <3>1, SubjectAssumption DEF Old
    <3>2. ASSUME NEW v \in Visit, VisitLock(v) \in held[q]
          PROVE  visit'[v].state = "closed" /\ v \notin recent'
      BY <1>2, <1>3, <1>5, <2>2, <3>2, SubjectAssumption DEF Old
    <3>3. ASSUME NEW a \in Arco, ArcoLock(a) \in held[q]
          PROVE  arco'[a].state = "resolved" /\ a \notin recent'
      BY <1>2, <1>3, <1>6, <2>2, <3>3, SubjectAssumption DEF Old
    <3> QED BY <2>1, <3>1, <3>2, <3>3 DEF Old
  <2>5. \A v \in Visit : VisitLock(v) \in held[q] => visit'[v].state \in {"closed", "cancelled"}
    BY <1>5, <2>2 DEF Sound
  <2>6. \A s \in picked[q] : s \in Person /\ person'[s] # "absent"
    BY <1>4, <2>2 DEF SubjectInv, TypeOK, Sound
  <2> QED BY <2>1, <2>2, <2>3, <2>4, <2>5, <2>6 DEF Sound, UnderHash
<1>10. SubjectInv'
  BY <1>1, <1>7, <1>8, <1>9, EndStep DEF SubjectInv
<1>11. ~ Known'
  <2>1. p # Subject
    BY <1>3, SubjectAssumption
  <2>2. indexed' = {}
    BY <1>4, <1>8 DEF Rows
  <2>3. \A v \in Visit : visit'[v].key # Subject
    BY <1>5, <2>1
  <2>4. \A a \in Arco : arco'[a].key # Subject
    BY <1>6, <2>1
  <2> QED BY <1>1, <1>4, <2>2, <2>3, <2>4 DEF Known
<1>12. \A q \in edited' : person'[q] = "purged"
  BY <1>1, <1>3, <1>4 DEF SubjectInv, Rows, TypeOK, Found
<1> QED BY <1>10, <1>11, <1>12

(* The retention deletes what it has locked.                               *)
LEMMA CommitRetentionStep ==
  ASSUME SubjectInv, NEW r \in Request, CommitRetention(r)
  PROVE  SubjectInv'
<1> DEFINE gone == {p \in Person : VisitorLock(p) \in held[r]}
<1>1. /\ At(r, "retain", "purged") /\ End(r) /\ UNCHANGED <<edited, recent>>
      /\ person' = [p \in Person |-> IF p \in gone THEN "purged" ELSE person[p]]
      /\ indexed' = indexed \ gone
      /\ visit' = [v \in Visit |->
           IF VisitLock(v) \in held[r] THEN NoVisit("purged")
             ELSE IF visit[v].of \in gone THEN [visit[v] EXCEPT !.of = None]
             ELSE visit[v]]
      /\ arco' = [a \in Arco |-> IF ArcoLock(a) \in held[r] THEN NoArco("purged") ELSE arco[a]]
      /\ logged' \in {"no", "old", "recent"}
  BY DEF CommitRetention, SubjectInv, TypeOK
<1>2. /\ \A p \in gone : person'[p] = "purged"
      /\ \A p \in Person : p \notin gone => person'[p] = person[p]
      /\ Found' = Found \ gone
  BY <1>1 DEF Found
<1>3. ASSUME NEW v \in Visit, VisitLock(v) \in held[r]
      PROVE  visit'[v] = NoVisit("purged")
  BY <1>1, <1>3 DEF NoVisit
<1>4. ASSUME NEW v \in Visit, VisitLock(v) \notin held[r]
      PROVE  /\ visit'[v].state = visit[v].state /\ visit'[v].key = visit[v].key
             /\ visit'[v].of = visit[v].of \/ visit'[v].of = None
             /\ visit'[v] \in VisitRow
  <2>1. \/ visit'[v] = [visit[v] EXCEPT !.of = None]
        \/ visit'[v] = visit[v]
    BY <1>1, <1>4
  <2>2. visit[v] \in VisitRow
    BY DEF SubjectInv, TypeOK
  <2> QED BY <2>1, <2>2 DEF VisitRow
<1>5. \A a \in Arco : IF ArcoLock(a) \in held[r] THEN arco'[a] = NoArco("purged")
                                                 ELSE arco'[a] = arco[a]
  BY <1>1
<1>6. TypeOK'
  <2>1. person' \in [Person -> {"absent", "named", "anonymous", "purged"}]
    BY <1>1 DEF SubjectInv, TypeOK
  <2>2. visit' \in [Visit -> VisitRow]
    <3>1. \A v \in Visit : visit'[v] \in VisitRow
      BY <1>3, <1>4 DEF NoVisit, VisitRow
    <3> QED BY <1>1, <3>1
  <2>3. arco' \in [Arco -> ArcoRow]
    BY <1>1 DEF SubjectInv, TypeOK, NoArco, ArcoRow
  <2> QED BY <1>1, <2>1, <2>2, <2>3, EndStep DEF SubjectInv, TypeOK
<1>7. None \notin Person /\ None # Subject
  BY SubjectAssumption DEF Key
<1>8. Rows'
  <2>1. \A v \in Visit : visit'[v].state \in {"absent", "purged"}
                           => visit'[v].of = None /\ visit'[v].key = None
    BY <1>3, <1>4 DEF SubjectInv, Rows, NoVisit
  <2>2. \A v \in Visit : visit'[v].key \in Person => person'[visit'[v].key] \in {"anonymous", "purged"}
    BY <1>2, <1>3, <1>4, <1>7 DEF SubjectInv, Rows, NoVisit
  <2>3. \A q \in Person : person'[q] = "anonymous" =>
          /\ q \notin edited' \cup indexed'
          /\ \A v \in Visit : visit'[v].of = q \/ visit'[v].key = q
               => visit'[v].state \in {"closed", "cancelled"} /\ visit'[v].key = q
    <3> SUFFICES ASSUME NEW q \in Person, person'[q] = "anonymous"
                 PROVE  /\ q \notin edited' \cup indexed'
                        /\ \A v \in Visit : visit'[v].of = q \/ visit'[v].key = q
                             => visit'[v].state \in {"closed", "cancelled"} /\ visit'[v].key = q
      OBVIOUS
    <3>1. person[q] = "anonymous"
      BY <1>2
    <3>2. q \notin edited' \cup indexed'
      BY <1>1, <3>1 DEF SubjectInv, Rows, StaysAnonymous
    <3>3. ASSUME NEW v \in Visit, visit'[v].of = q \/ visit'[v].key = q
          PROVE  visit'[v].state \in {"closed", "cancelled"} /\ visit'[v].key = q
      <4>1. VisitLock(v) \notin held[r]
        BY <1>3, <1>7, <3>3 DEF NoVisit
      <4>2. visit[v].of = q \/ visit[v].key = q
        BY <1>4, <1>7, <3>3, <4>1
      <4> QED BY <1>4, <3>1, <4>1, <4>2 DEF SubjectInv, Rows, StaysAnonymous
    <3> QED BY <3>2, <3>3
  <2>4. \A a \in Arco : arco'[a].key \in Person => ~ arco'[a].notes
    BY <1>5, <1>7 DEF SubjectInv, Rows, StaysAnonymous, NoArco
  <2>5. indexed' \subseteq Found' /\ \A p, q \in Found' : p = q
    BY <1>1, <1>2 DEF SubjectInv, Rows
  <2>6. \A q \in edited' : person'[q] \in {"named", "purged"}
    BY <1>1, <1>2 DEF SubjectInv, Rows, TypeOK
  <2> QED BY <2>1, <2>2, <2>3, <2>4, <2>5, <2>6 DEF Rows, StaysAnonymous
<1>9. ASSUME NEW q \in Request, q # r PROVE Sound(q)'
  <2>1. held'[q] = held[q] /\ pc'[q] = pc[q] /\ op'[q] = op[q] /\ picked'[q] = picked[q]
    BY <1>1, <1>9, EndStep
  <2>2. /\ Sound(q)
        /\ \A p \in gone : VisitorLock(p) \notin held[q]
        /\ \A v \in Visit : VisitLock(v) \in held[q] => VisitLock(v) \notin held[r]
        /\ \A a \in Arco : ArcoLock(a) \in held[q] => ArcoLock(a) \notin held[r]
    BY <1>9, LocksDiffer DEF SubjectInv, Mutex
  <2>3. HasVisitor(q) => HasVisitor(q)'
    BY <1>2, <2>1, <2>2 DEF HasVisitor, Found
  <2>4. HasVisits(q) => HasVisits(q)'
    BY <1>3, <1>4, <1>7, <2>1 DEF HasVisits, NoVisit
  <2>5. HasRequests(q) => HasRequests(q)'
    BY <1>5, <1>7, <2>1 DEF HasRequests, NoArco
  <2>6. Old(q) => Old(q)'
    BY <1>1, <1>2, <1>4, <1>5, <2>1, <2>2 DEF Old
  <2>7. \A v \in Visit : VisitLock(v) \in held[q] => visit'[v].state \in {"closed", "cancelled"}
    BY <1>4, <2>2 DEF Sound
  <2>8. \A s \in picked[q] : s \in Person /\ person'[s] # "absent"
    BY <1>2, <2>2 DEF SubjectInv, TypeOK, Sound
  <2> QED BY <1>2, <2>1, <2>2, <2>3, <2>4, <2>5, <2>6, <2>7, <2>8 DEF Sound, UnderHash
<1> QED BY <1>1, <1>6, <1>8, <1>9, EndStep DEF SubjectInv

LEMMA AgeStep ==
  ASSUME SubjectInv, Age
  PROVE  SubjectInv'
<1>1. /\ recent' = {} /\ logged' \in {"no", "old", "recent"}
      /\ \A r \in Request : pc[r] = "idle"
      /\ UNCHANGED <<person, visit, arco, edited, indexed, pc, op, held, picked>>
  BY DEF Age, SubjectInv, TypeOK
<1>2. TypeOK'
  BY <1>1 DEF SubjectInv, TypeOK
<1>3. Mutex' /\ Rows'
  BY <1>1 DEF SubjectInv, Mutex, Rows, StaysAnonymous, Found
<1>4. ASSUME NEW q \in Request PROVE Sound(q)'
  BY <1>1 DEF SubjectInv, Sound, UnderHash, Old
<1> QED BY <1>2, <1>3, <1>4 DEF SubjectInv

-----------------------------------------------------------------------------
LEMMA NextSubject == SubjectInv /\ [Next]_vars => SubjectInv'
<1> SUFFICES ASSUME SubjectInv, [Next]_vars PROVE SubjectInv'
  OBVIOUS
<1>1. ASSUME NEW r \in Request,
             \/ LockHash(r) \/ LockVisitor(r) \/ MissVisitor(r)
             \/ LockVisits(r) \/ ScrubRequests(r)
             \/ TryCleaning(r) \/ PurgeVisits(r) \/ PurgeRequests(r) \/ PickVisitors(r)
             \/ PurgeVisitors(r)
      PROVE  SubjectInv'
  BY <1>1, LockHashStep, LockVisitorStep, MissVisitorStep, LockVisitsStep, ScrubRequestsStep,
     TryCleaningStep, PurgeVisitsStep, PurgeRequestsStep, PickVisitorsStep, PurgeVisitorsStep
<1>2. ASSUME NEW r \in Request,
             \/ CheckInKnown(r) \/ CheckInUnknown(r) \/ EditVisitor(r) \/ SubjectAccess(r)
             \/ FileRequest(r) \/ Anonymise(r) \/ CommitRetention(r) \/ Abort(r)
      PROVE  SubjectInv'
  BY <1>2, CheckInKnownStep, CheckInUnknownStep, EditVisitorStep, SubjectAccessStep,
     FileRequestStep, AnonymiseStep, CommitRetentionStep, RollbackStep DEF Abort
<1>3. ASSUME NEW v \in Visit, CloseVisit(v) PROVE SubjectInv'
  BY <1>3, CloseVisitStep
<1>4. ASSUME NEW a \in Arco, ResolveRequest(a) PROVE SubjectInv'
  BY <1>4, ResolveRequestStep
<1>5. CASE UNCHANGED vars
  <2>1. TypeOK' /\ Mutex' /\ Rows'
    BY <1>5 DEF SubjectInv, TypeOK, Mutex, Rows, StaysAnonymous, Found, vars, tables
  <2>2. ASSUME NEW q \in Request PROVE Sound(q)'
    BY <1>5 DEF SubjectInv, Sound, UnderHash, HasVisitor, HasVisits, HasRequests, Old, Found,
                vars, tables
  <2> QED BY <2>1, <2>2 DEF SubjectInv
<1> QED BY <1>1, <1>2, <1>3, <1>4, <1>5, AgeStep DEF Next

(* The inductive invariant holds in every state: each transaction of check-in,
   editing, requests, cancellation and retention keeps what the locks of the
   others promise them. *)
THEOREM SubjectInvariant == Spec => []SubjectInv
<1>1. Init => SubjectInv
  BY InitSubject
<1>2. SubjectInv /\ [Next]_vars => SubjectInv'
  BY NextSubject
<1> QED BY <1>1, <1>2, PTL DEF Spec

(* The variables keep their types.                                         *)
THEOREM SubjectTypeCorrect == Spec => []TypeOK
<1>1. SubjectInv => TypeOK
  BY DEF SubjectInv
<1> QED BY <1>1, SubjectInvariant, PTL

(* What subjectCancel anonymised never gets a name, tokens, history, an open
   visit or notes again. *)
THEOREM AnonymousForGood == Spec => []StaysAnonymous
<1>1. SubjectInv => StaysAnonymous
  BY DEF SubjectInv, Rows
<1> QED BY <1>1, SubjectInvariant, PTL

(* subjectCancel leaves nothing of its subject behind, whatever transactions
   were under way. *)
THEOREM CancellationForgets == Spec => CancelForgets
<1> DEFINE Forgets == Cancels => ~ Known' /\ \A p \in edited' : person'[p] = "purged"
<1>1. SubjectInv /\ [Next]_vars => [Forgets]_vars
  <2> SUFFICES ASSUME SubjectInv, Next, Cancels
               PROVE  ~ Known' /\ \A p \in edited' : person'[p] = "purged"
    BY DEF Forgets
  <2>1. PICK p \in Person : person[p] = "named" /\ person'[p] = "anonymous"
    BY DEF Cancels
  <2>2. person' # person
    BY <2>1
  <2>3. \E r \in Request : CheckInUnknown(r) \/ Anonymise(r) \/ CommitRetention(r)
    BY <2>2 DEF Next, LockHash, LockVisitor, MissVisitor, CheckInKnown, EditVisitor,
         SubjectAccess, FileRequest, LockVisits, ScrubRequests, TryCleaning, PurgeVisits,
         PurgeRequests, PickVisitors, PurgeVisitors, Abort, Rollback, Advance, CloseVisit,
         ResolveRequest, Age, tables
  <2>4. ASSUME NEW r \in Request, CheckInUnknown(r) PROVE FALSE
    BY <2>1, <2>4 DEF CheckInUnknown, SubjectInv, TypeOK
  <2>5. ASSUME NEW r \in Request, CommitRetention(r) PROVE FALSE
    BY <2>1, <2>5 DEF CommitRetention, SubjectInv, TypeOK
  <2> QED BY <2>3, <2>4, <2>5, AnonymiseStep
<1> QED BY <1>1, SubjectInvariant, PTL DEF Spec, CancelForgets, Forgets

(* The retention deletes no row that was used within the retention period, no
   open visit and no open request. *)
THEOREM RetentionPurgesOld == Spec => PurgesOnlyOld
<1> DEFINE Purge ==
      /\ \A p \in Person : person[p] # "purged" /\ person'[p] = "purged" => p \notin recent
      /\ \A v \in Visit : visit[v].state # "purged" /\ visit'[v].state = "purged"
           => visit[v].state = "closed" /\ v \notin recent
      /\ \A a \in Arco : arco[a].state # "purged" /\ arco'[a].state = "purged"
           => arco[a].state = "resolved" /\ a \notin recent
<1>1. ASSUME SubjectInv, NEW r \in Request, CommitRetention(r) PROVE Purge
  <2>1. Old(r)
    BY <1>1 DEF CommitRetention, At, SubjectInv, Sound
  <2>2. ASSUME NEW p \in Person, person[p] # "purged", person'[p] = "purged"
        PROVE  p \notin recent
    BY <1>1, <2>1, <2>2 DEF CommitRetention, Old
  <2>3. ASSUME NEW v \in Visit, visit[v].state # "purged", visit'[v].state = "purged"
        PROVE  visit[v].state = "closed" /\ v \notin recent
    <3>1. VisitLock(v) \notin held[r] => visit'[v].state = visit[v].state
      <4>1. visit[v] \in VisitRow
        BY <1>1 DEF SubjectInv, TypeOK
      <4> QED BY <1>1, <4>1 DEF CommitRetention, VisitRow
    <3> QED BY <2>1, <2>3, <3>1 DEF Old
  <2>4. ASSUME NEW a \in Arco, arco[a].state # "purged", arco'[a].state = "purged"
        PROVE  arco[a].state = "resolved" /\ a \notin recent
    BY <1>1, <2>1, <2>4 DEF CommitRetention, Old
  <2> QED BY <2>2, <2>3, <2>4
<1>2. ASSUME SubjectInv, NEW r \in Request, Anonymise(r) PROVE Purge
  <2>1. \A p \in Person : person'[p] = person[p] \/ person'[p] = "anonymous"
    BY <1>2 DEF Anonymise, SubjectInv, TypeOK
  <2>2. ASSUME NEW v \in Visit PROVE visit'[v].state = visit[v].state
    <3>1. visit[v] \in VisitRow
      BY <1>2 DEF SubjectInv, TypeOK
    <3> QED BY <1>2, <3>1 DEF Anonymise, VisitRow
  <2>3. ASSUME NEW a \in Arco PROVE arco'[a].state = arco[a].state \/ arco'[a].state = "resolved"
    <3>1. arco[a] \in ArcoRow
      BY <1>2 DEF SubjectInv, TypeOK
    <3>2. PICK p, own, asks :
            arco'[a] = IF a = own THEN [state |-> "resolved", key |-> p, notes |-> FALSE]
                       ELSE IF a \in asks THEN [arco[a] EXCEPT !.key = p, !.notes = FALSE]
                       ELSE arco[a]
      BY <1>2, Zenon DEF Anonymise
    <3> QED BY <3>1, <3>2 DEF ArcoRow
  <2> QED BY <2>1, <2>2, <2>3
<1>3. ASSUME SubjectInv, NEW r \in Request, CheckInKnown(r) \/ CheckInUnknown(r) PROVE Purge
  BY <1>3 DEF CheckInKnown, CheckInUnknown, Enter, SubjectInv, TypeOK
<1>4. ASSUME SubjectInv, NEW r \in Request, FileRequest(r) PROVE Purge
  BY <1>4 DEF FileRequest, SubjectInv, TypeOK
<1>5. ASSUME SubjectInv, NEW v \in Visit, CloseVisit(v) PROVE Purge
  BY <1>5 DEF CloseVisit, SubjectInv, TypeOK, VisitRow
<1>6. ASSUME SubjectInv, NEW a \in Arco, ResolveRequest(a) PROVE Purge
  BY <1>6 DEF ResolveRequest, SubjectInv, TypeOK, ArcoRow
<1>7. ASSUME UNCHANGED <<person, visit, arco>> PROVE Purge
  BY <1>7
<1>8. SubjectInv /\ [Next]_vars => [Purge]_vars
  <2> SUFFICES ASSUME SubjectInv, Next PROVE Purge
    OBVIOUS
  <2>1. ASSUME NEW r \in Request,
               \/ LockHash(r) \/ LockVisitor(r) \/ MissVisitor(r) \/ EditVisitor(r)
               \/ SubjectAccess(r) \/ LockVisits(r) \/ ScrubRequests(r) \/ TryCleaning(r)
               \/ PurgeVisits(r) \/ PurgeRequests(r) \/ PickVisitors(r) \/ PurgeVisitors(r)
               \/ Abort(r)
        PROVE  UNCHANGED <<person, visit, arco>>
    BY <2>1 DEF LockHash, LockVisitor, MissVisitor, EditVisitor, SubjectAccess, LockVisits,
         ScrubRequests, TryCleaning, PurgeVisits, PurgeRequests, PickVisitors, PurgeVisitors,
         Abort, Rollback, Advance, tables
  <2>2. Age => UNCHANGED <<person, visit, arco>>
    BY DEF Age
  <2> QED BY <1>1, <1>2, <1>3, <1>4, <1>5, <1>6, <1>7, <2>1, <2>2 DEF Next
<1> QED BY <1>8, SubjectInvariant, PTL DEF Spec, PurgesOnlyOld, Purge
=============================================================================

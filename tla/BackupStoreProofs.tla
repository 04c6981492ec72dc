-------------------------- MODULE BackupStoreProofs --------------------------
(***************************************************************************)
(* Proofs about the backup store, for any processes, copies and limits.    *)
(* StoreInv is inductive: whoever works on the files has made the lock     *)
(* file, so what it read of them is still so; and prune takes the newest   *)
(* of its copies first, so that what stays above the others is never       *)
(* touched.                                                                *)
(***************************************************************************)
EXTENDS BackupStore, FiniteSetTheorems, TLAPS

-----------------------------------------------------------------------------
(* The inductive invariant.                                                *)

Removing == {"pruning", "undescribing", "unkeying"}
Inside == {"locked", "described", "stored", "keyed", "done"} \cup Removing
Reporting == {"report", "writing", "renaming"}

(* The complete automated copies newer than n, and the passwords. *)
Newer(n) == {m \in Automated : m > n /\ secret[m] = "whole"}
Keys(n) == {m \in Copy : m > n /\ secret[m] = "whole"}

(* Copy c is there with its password, or has been pruned. *)
Good(c) ==
  /\ c \in Copy
  /\ \/ c \in Listed /\ c \in meta /\ secret[c] = "whole"
     \/ Cardinality(Keys(c)) >= Keep

(* Copies that have no name yet leave no file, and no two jobs share one. *)
Fresh == \A n \in Copy : n > made => archive[n] = "absent" /\ secret[n] = "absent"
Distinct ==
  \A p, q \in Process : p # q => job[p].copy = 0 \/ job[p].copy # job[q].copy

(* What p knows of the copy it is making. *)
Making(p) ==
  LET n == job[p].copy
  IN  /\ n <= made
      /\ pc[p] \in {"described", "stored", "keyed", "audit"} => n \in Copy
      /\ pc[p] = "done" /\ job[p].op = "create" /\ ~job[p].failed => n \in Copy
      /\ pc[p] = "described" => archive[n] = "absent" /\ n \in meta /\ job[p].op # "read"
      /\ pc[p] \in {"described", "stored"} => secret[n] = "absent"
      /\ pc[p] \in {"stored", "keyed"} => archive[n] # "absent" /\ job[p].op = "managed"
      /\ pc[p] = "keyed" /\ secret[n] = "whole" => job[p].named = n
      /\ job[p].op = "create" /\ n \in Copy => secret[n] = "absent"

(* What p knows of the copies it removes. *)
Pruning(p) ==
  /\ pc[p] \in {"audit", "undo"} => job[p].op = "create"
  /\ pc[p] \in Removing => job[p].op \in {"managed", "create"}
  /\ pc[p] = "unkeying" => job[p].op = "managed"
  /\ pc[p] \in {"undo"} \cup Removing /\ job[p].op = "create"
       => job[p].failed /\ job[p].doomed \subseteq {job[p].copy}
  /\ pc[p] \in Removing /\ job[p].op = "managed" =>
       \A n \in job[p].doomed : secret[n] # "absent" /\ Cardinality(Newer(n)) >= Keep
  /\ pc[p] = "undescribing" =>
       \A n \in job[p].doomed : (\A m \in job[p].doomed : m <= n) => archive[n] = "absent"

(* What p reports. *)
Reports(p) ==
  /\ pc[p] \in Reporting => job[p].op = "managed"
  /\ pc[p] \in Removing \cup Reporting \cup {"done"} /\ job[p].op = "managed" /\ ~job[p].failed
       => Good(job[p].named)

Holds(p) == pc[p] \in Inside => lock = p

StatusGood ==
  /\ status.successful => Good(status.copy)
  /\ tmp # None /\ tmp.successful => Good(tmp.copy)

StoreInv ==
  /\ TypeOK /\ ListedIsDescribed /\ Fresh /\ Distinct /\ StatusGood
  /\ \A p \in Process : Holds(p) /\ Making(p) /\ Pruning(p) /\ Reports(p)

-----------------------------------------------------------------------------
(* Counting.                                                               *)

LEMMA CountGrows ==
  ASSUME NEW S \in SUBSET Copy, NEW T \in SUBSET S, Cardinality(T) >= Keep
  PROVE  Cardinality(S) >= Keep
<1>1. IsFiniteSet(Copy) /\ IsFiniteSet(S) /\ IsFiniteSet(T)
  <2>1. MaxCopies \in Int /\ 1 \in Int
    BY StoreAssumption
  <2>2. IsFiniteSet(Copy)
    BY <2>1, FS_Interval DEF Copy
  <2> QED BY <2>2, FS_Subset
<1>2. Cardinality(T) <= Cardinality(S) /\ Cardinality(S) \in Nat /\ Cardinality(T) \in Nat
  BY <1>1, FS_Subset, FS_CardinalityType
<1> QED BY <1>2, StoreAssumption

LEMMA NewerCounts ==
  ASSUME TypeOK, NEW n \in Copy, Cardinality(Newer(n)) >= Keep
  PROVE  /\ Cardinality(Keys(n)) >= Keep
         /\ Cardinality({m \in Automated : m > n}) >= Keep
BY CountGrows DEF Newer, Keys, Automated, Listed

(* Files that are there stay good; those of copy n stop to count when n goes,
   but as many newer ones stay. *)
LEMMA GoodStays ==
  ASSUME TypeOK, TypeOK', NEW c, Good(c),
         Keys(c) \subseteq Keys(c)' \/ \E n \in Copy : n > c /\ Cardinality(Keys(n)) >= Keep
                                                       /\ Keys(n) \subseteq Keys(n)',
         \/ c \in Listed /\ c \in meta /\ secret[c] = "whole"
              => c \in Listed' /\ c \in meta' /\ secret'[c] = "whole"
         \/ Cardinality(Keys(c)') >= Keep
  PROVE  Good(c)'
<1>1. c \in Copy /\ Keys(c)' \in SUBSET Copy
  BY DEF Good, Keys
<1>2. Cardinality(Keys(c)) >= Keep => Cardinality(Keys(c)') >= Keep
  <2>1. CASE Keys(c) \subseteq Keys(c)'
    BY <1>1, <2>1, CountGrows
  <2>2. ASSUME NEW n \in Copy, n > c, Cardinality(Keys(n)) >= Keep, Keys(n) \subseteq Keys(n)'
        PROVE  Cardinality(Keys(c)') >= Keep
    <3>1. Keys(n) \subseteq Keys(c)'
      BY <1>1, <2>2, StoreAssumption DEF Keys, Copy
    <3> QED BY <1>1, <2>2, <3>1, CountGrows
  <2> QED BY <2>1, <2>2
<1> QED BY <1>1, <1>2 DEF Good

-----------------------------------------------------------------------------
(* Steps that leave the files alone.                                       *)
LEMMA QuietStep ==
  ASSUME StoreInv, TypeOK', NEW p \in Process,
         UNCHANGED <<files, made>>,
         \A q \in Process : q # p => /\ pc'[q] = pc[q] /\ job'[q] = job[q]
                                     /\ lock = q => lock' = q,
         job'[p].copy \in {0, job[p].copy},
         Holds(p)', Making(p)', Pruning(p)', Reports(p)', StatusGood'
  PROVE  StoreInv'
<1>1. ListedIsDescribed' /\ Fresh'
  BY DEF StoreInv, ListedIsDescribed, Listed, Fresh, files
<1>2. Distinct'
  BY DEF StoreInv, Distinct
<1>3. ASSUME NEW q \in Process, q # p
      PROVE  Holds(q)' /\ Making(q)' /\ Pruning(q)' /\ Reports(q)'
  <2>1. pc'[q] = pc[q] /\ job'[q] = job[q] /\ UNCHANGED <<archive, meta, secret, made>>
    BY <1>3 DEF files
  <2>2. Holds(q)' /\ Making(q)'
    BY <1>3, <2>1 DEF StoreInv, Holds, Making
  <2>3. Pruning(q)'
    BY <2>1 DEF StoreInv, Pruning, Newer, Automated, Listed
  <2>4. Reports(q)'
    BY <2>1 DEF StoreInv, Reports, Good, Keys, Listed
  <2> QED BY <2>2, <2>3, <2>4
<1> QED BY <1>1, <1>2, <1>3 DEF StoreInv

(* ... and the status file, too. *)
LEMMA StatusStays ==
  ASSUME StoreInv, UNCHANGED <<files, status, tmp>>
  PROVE  StatusGood'
BY DEF StoreInv, StatusGood, Good, Keys, Listed, files

LEMMA JobIsTyped ==
  ASSUME TypeOK, NEW p \in Process
  PROVE  /\ job[p] \in Job /\ pc[p] \in PC
         /\ job[p].op \in Op /\ job[p].run \in 0..MaxRuns /\ job[p].copy \in 0..MaxCopies
         /\ job[p].failed \in BOOLEAN /\ job[p].doomed \in SUBSET Copy
         /\ job[p].named \in 0..MaxCopies /\ job[p].last \in 0..MaxRuns
BY DEF TypeOK, Job

(* A step that only moves p on, or ends its work. *)
LEMMA MoveStep ==
  ASSUME TypeOK, NEW p \in Process, NEW s \in PC, Goto(p, s)
  PROVE  /\ pc' \in [Process -> PC] /\ pc'[p] = s
         /\ \A q \in Process : q # p => pc'[q] = pc[q]
BY DEF TypeOK, Goto

LEMMA EndStep ==
  ASSUME TypeOK, NEW p \in Process, End(p), made' \in 0..MaxCopies
  PROVE  /\ pc' \in [Process -> PC] /\ pc'[p] = "idle"
         /\ job' \in [Process -> Job] /\ job'[p] = NoJob
         /\ \A q \in Process : q # p => pc'[q] = pc[q] /\ job'[q] = job[q]
         /\ Holds(p)' /\ Making(p)' /\ Pruning(p)' /\ Reports(p)'
<1>1. "idle" \in PC /\ NoJob \in Job
  BY StoreAssumption DEF PC, NoJob, Job, Op
<1>2. /\ pc' \in [Process -> PC] /\ pc'[p] = "idle"
      /\ job' \in [Process -> Job] /\ job'[p] = NoJob
      /\ \A q \in Process : q # p => pc'[q] = pc[q] /\ job'[q] = job[q]
  BY <1>1 DEF TypeOK, End, Goto
<1>3. Holds(p)' /\ Pruning(p)' /\ Reports(p)'
  BY <1>2 DEF Holds, Pruning, Reports, Inside, Removing, Reporting
<1>4. NoJob.copy = 0 /\ NoJob.op = "read"
  BY DEF NoJob
<1>5. Making(p)'
  BY <1>2, <1>4, StoreAssumption DEF Making, Copy
<1> QED BY <1>2, <1>3, <1>5

LEMMA FailStep ==
  ASSUME TypeOK, NEW p \in Process, NEW s \in PC, FailTo(p, s)
  PROVE  /\ pc' \in [Process -> PC] /\ pc'[p] = s
         /\ job' \in [Process -> Job] /\ job'[p].failed
         /\ job'[p].op = job[p].op /\ job'[p].copy = job[p].copy /\ job'[p].named = job[p].named
         /\ job'[p].doomed = job[p].doomed
         /\ \A q \in Process : q # p => pc'[q] = pc[q] /\ job'[q] = job[q]
<1>1. pc' \in [Process -> PC] /\ pc'[p] = s /\ \A q \in Process : q # p => pc'[q] = pc[q]
  BY MoveStep DEF FailTo
<1>2. job' = [job EXCEPT ![p].failed = TRUE] /\ job \in [Process -> Job]
  BY DEF FailTo, TypeOK
<1>3. job'[p] = [job[p] EXCEPT !.failed = TRUE] /\ job[p] \in Job
  BY <1>2
<1> QED BY <1>1, <1>2, <1>3 DEF Job

-----------------------------------------------------------------------------
(* The quiet steps.                                                        *)

LEMMA BeginStep ==
  ASSUME StoreInv, NEW p \in Process, Begin(p)
  PROVE  StoreInv'
<1>1. PICK op \in Op : job' = [job EXCEPT ![p] = [NoJob EXCEPT !.op = op, !.run = runs + 1]]
  BY DEF Begin
<1>2. /\ At(p, "idle") /\ runs < MaxRuns /\ runs' = runs + 1 /\ Goto(p, "start")
      /\ UNCHANGED <<lock, files, status, tmp, made>> /\ "start" \in PC /\ TypeOK
  BY DEF Begin, PC, StoreInv
<1>3. /\ job'[p] = [NoJob EXCEPT !.op = op, !.run = runs + 1] /\ job'[p] \in Job
      /\ job' \in [Process -> Job] /\ runs' \in 0..MaxRuns
      /\ \A q \in Process : q # p => job'[q] = job[q]
  <2>1. runs' \in 0..MaxRuns
    BY <1>2, StoreAssumption DEF TypeOK
  <2>2. [NoJob EXCEPT !.op = op, !.run = runs + 1] \in Job
    <3>1. NoJob \in Job
      BY StoreAssumption DEF NoJob, Job, Op
    <3>2. \A n \in 0..MaxRuns : [NoJob EXCEPT !.op = op, !.run = n] \in Job
      BY <3>1 DEF Job
    <3> QED BY <1>2, <2>1, <3>2
  <2> QED BY <1>1, <1>2, <2>1, <2>2 DEF TypeOK
<1>4. pc' \in [Process -> PC] /\ pc'[p] = "start" /\ \A q \in Process : q # p => pc'[q] = pc[q]
  BY <1>2, MoveStep
<1>5. TypeOK'
  BY <1>2, <1>3, <1>4 DEF TypeOK, files
<1>6. job'[p].copy = 0 /\ job'[p].op = op
  BY <1>3 DEF NoJob
<1>7. Holds(p)' /\ Making(p)' /\ Pruning(p)' /\ Reports(p)'
  BY <1>2, <1>4, <1>5, <1>6, StoreAssumption
     DEF Holds, Making, Pruning, Reports, Inside, Removing, Reporting, TypeOK, Copy
<1> QED BY <1>2, <1>3, <1>4, <1>5, <1>6, <1>7, QuietStep, StatusStays

LEMMA LockStep ==
  ASSUME StoreInv, NEW p \in Process, Lock(p)
  PROVE  StoreInv'
<1> DEFINE s == IF At(p, "undo") THEN "pruning" ELSE "locked"
<1>1. /\ At(p, "start") \/ At(p, "undo")
      /\ lock = None /\ lock' = p /\ Goto(p, s)
      /\ UNCHANGED <<files, status, tmp, made, runs, job>> /\ s \in PC /\ TypeOK
  BY DEF Lock, PC, StoreInv
<1>2. pc' \in [Process -> PC] /\ pc'[p] = s /\ \A q \in Process : q # p => pc'[q] = pc[q]
  BY <1>1, MoveStep
<1>3. TypeOK'
  BY <1>1, <1>2 DEF TypeOK, files
<1>4. Holds(p)' /\ Making(p)' /\ Pruning(p)' /\ Reports(p)'
  BY <1>1, <1>2 DEF StoreInv, Holds, Making, Pruning, Reports, Inside, Removing, Reporting, At, files
<1> QED BY <1>1, <1>2, <1>3, <1>4, StoreAssumption, QuietStep, StatusStays

LEMMA LockFailsStep ==
  ASSUME StoreInv, NEW p \in Process, LockFails(p)
  PROVE  StoreInv'
<1>1. /\ At(p, "start") \/ At(p, "undo")
      /\ UNCHANGED <<lock, files, status, tmp, made, runs>> /\ "report" \in PC /\ TypeOK
      /\ \/ job[p].op = "managed" /\ FailTo(p, "report")
         \/ End(p)
  BY DEF LockFails, PC, StoreInv
<1>2. CASE job[p].op = "managed" /\ FailTo(p, "report")
  <2>1. TypeOK'
    BY <1>1, <1>2, FailStep DEF TypeOK, files
  <2>2. Holds(p)' /\ Making(p)' /\ Pruning(p)' /\ Reports(p)'
    BY <1>1, <1>2, FailStep DEF StoreInv, Holds, Making, Pruning, Reports, Inside, Removing, Reporting, files
  <2> QED BY <1>1, <1>2, <2>1, <2>2, FailStep, QuietStep, StatusStays
<1>3. CASE End(p)
  <2>1. TypeOK'
    BY <1>1, <1>3, EndStep DEF TypeOK, files
  <2> QED BY <1>1, <1>3, <2>1, EndStep, QuietStep, StatusStays DEF NoJob, TypeOK
<1> QED BY <1>1, <1>2, <1>3

(* A process inside meets an error, and skips to the release of the lock.  *)
LEMMA SkipStep ==
  ASSUME StoreInv, NEW p \in Process, pc[p] \in Inside, FailTo(p, "done"),
         UNCHANGED <<lock, files, status, tmp, made, runs>>
  PROVE  StoreInv'
<1>1. "done" \in PC /\ TypeOK
  BY DEF PC, StoreInv
<1>2. TypeOK'
  BY <1>1, FailStep DEF TypeOK, files
<1>3. Holds(p)' /\ Making(p)' /\ Pruning(p)' /\ Reports(p)'
  BY <1>1, FailStep DEF StoreInv, Holds, Making, Pruning, Reports, Inside, Removing, Reporting, files
<1> QED BY <1>1, <1>2, <1>3, FailStep, QuietStep, StatusStays

LEMMA ReadCopyStep ==
  ASSUME StoreInv, NEW p \in Process, ReadCopy(p)
  PROVE  StoreInv'
<1>1. /\ At(p, "locked") /\ job[p].op = "read" /\ Goto(p, "done")
      /\ UNCHANGED <<lock, files, status, tmp, made, runs, job>> /\ "done" \in PC /\ TypeOK
  BY DEF ReadCopy, PC, StoreInv
<1>2. pc' \in [Process -> PC] /\ pc'[p] = "done" /\ \A q \in Process : q # p => pc'[q] = pc[q]
  BY <1>1, MoveStep
<1>3. TypeOK'
  BY <1>1, <1>2 DEF TypeOK, files
<1>4. Holds(p)' /\ Making(p)' /\ Pruning(p)' /\ Reports(p)'
  BY <1>1, <1>2 DEF StoreInv, Holds, Making, Pruning, Reports, Inside, Removing, Reporting, At, files
<1> QED BY <1>1, <1>2, <1>3, <1>4, QuietStep, StatusStays

(* What prune reads under the lock is complete. *)
LEMMA PruneStep ==
  ASSUME StoreInv, NEW p \in Process, Prune(p)
  PROVE  StoreInv'
<1> DEFINE doomed == Excess(Automated)
<1>1. /\ At(p, "keyed") /\ secret[job[p].copy] = "whole" /\ \A n \in Automated : Complete(n)
      /\ job' = [job EXCEPT ![p].doomed = doomed] /\ Goto(p, "pruning")
      /\ UNCHANGED <<lock, files, status, tmp, made, runs>> /\ "pruning" \in PC /\ TypeOK
  BY DEF Prune, PC, StoreInv
<1>2. doomed \in SUBSET Copy /\ doomed \subseteq Automated
  BY DEF Excess, Automated, Listed
<1>3. pc' \in [Process -> PC] /\ pc'[p] = "pruning" /\ \A q \in Process : q # p => pc'[q] = pc[q]
  BY <1>1, MoveStep
<1> HIDE DEF doomed
<1>4. /\ job' \in [Process -> Job] /\ job'[p].doomed = doomed /\ job'[p].op = job[p].op
      /\ job'[p].copy = job[p].copy /\ job'[p].named = job[p].named
      /\ job'[p].failed = job[p].failed
      /\ \A q \in Process : q # p => job'[q] = job[q]
  <2>1. job'[p] = [job[p] EXCEPT !.doomed = doomed] /\ job[p] \in Job
    BY <1>1 DEF TypeOK
  <2> QED BY <1>1, <1>2, <2>1 DEF Job, TypeOK
<1>5. TypeOK'
  BY <1>1, <1>3, <1>4 DEF TypeOK, files
<1>6. \A n \in doomed : secret[n] # "absent" /\ Cardinality(Newer(n)) >= Keep
  <2>1. ASSUME NEW n \in doomed PROVE Newer(n) = {m \in Automated : m > n}
    BY <1>1 DEF Newer, Complete
  <2> QED BY <1>2, <2>1 DEF doomed, Excess, Automated
<1>7. Good(job[p].copy) /\ job[p].op = "managed" /\ job[p].named = job[p].copy /\ lock = p
  BY <1>1 DEF StoreInv, Making, Holds, Inside, At, Good, ListedIsDescribed, Listed
<1>8. Good(job[p].copy)'
  BY <1>1, <1>4, <1>7 DEF Good, Keys, Listed, files
<1>9. Holds(p)' /\ Making(p)' /\ Reports(p)'
  BY <1>1, <1>3, <1>4, <1>7, <1>8 DEF StoreInv, Holds, Making, Reports, Removing, Reporting, At, files
<1>10. Pruning(p)'
  BY <1>1, <1>3, <1>4, <1>6, <1>7 DEF Pruning, Removing, Newer, Automated, Listed, files
<1> QED BY <1>1, <1>3, <1>4, <1>5, <1>9, <1>10, QuietStep, StatusStays

LEMMA PrunedStep ==
  ASSUME StoreInv, NEW p \in Process, Pruned(p)
  PROVE  StoreInv'
<1>1. /\ At(p, "pruning") /\ Goto(p, "done")
      /\ UNCHANGED <<lock, files, status, tmp, made, runs, job>> /\ "done" \in PC /\ TypeOK
  BY DEF Pruned, PC, StoreInv
<1>2. pc' \in [Process -> PC] /\ pc'[p] = "done" /\ \A q \in Process : q # p => pc'[q] = pc[q]
  BY <1>1, MoveStep
<1>3. TypeOK'
  BY <1>1, <1>2 DEF TypeOK, files
<1>4. Holds(p)' /\ Making(p)' /\ Pruning(p)' /\ Reports(p)'
  BY <1>1, <1>2 DEF StoreInv, Holds, Making, Pruning, Reports, Good, Keys, Listed, Inside, Removing, Reporting, At, files
<1> QED BY <1>1, <1>2, <1>3, <1>4, QuietStep, StatusStays

LEMMA UnlockStep ==
  ASSUME StoreInv, NEW p \in Process, Unlock(p)
  PROVE  StoreInv'
<1>1. /\ At(p, "done") /\ lock' = None /\ lock = p
      /\ UNCHANGED <<files, status, tmp, made, runs>> /\ TypeOK
      /\ {"report", "audit"} \subseteq PC
      /\ \/ job[p].op = "managed" /\ Goto(p, "report") /\ UNCHANGED job
         \/ job[p].op = "create" /\ ~job[p].failed /\ Goto(p, "audit") /\ UNCHANGED job
         \/ End(p)
  BY DEF Unlock, PC, StoreInv, Holds, Inside, At
<1>2. ASSUME NEW s \in {"report", "audit"}, Goto(p, s), UNCHANGED job,
             \/ s = "report" /\ job[p].op = "managed"
             \/ s = "audit" /\ job[p].op = "create" /\ ~job[p].failed
      PROVE  StoreInv'
  <2>1. pc' \in [Process -> PC] /\ pc'[p] = s /\ \A q \in Process : q # p => pc'[q] = pc[q]
    BY <1>1, <1>2, MoveStep
  <2>2. TypeOK'
    BY <1>1, <1>2, <2>1 DEF TypeOK, files
  <2>3. Holds(p)' /\ Making(p)' /\ Pruning(p)' /\ Reports(p)'
    BY <1>1, <1>2, <2>1 DEF StoreInv, Holds, Making, Pruning, Reports, Good, Keys, Listed,
       Inside, Removing, Reporting, At, files
  <2> QED BY <1>1, <1>2, <2>1, <2>2, <2>3, QuietStep, StatusStays
<1>3. CASE End(p)
  <2>1. TypeOK'
    BY <1>1, <1>3, EndStep DEF TypeOK, files
  <2> QED BY <1>1, <1>3, <2>1, EndStep, QuietStep, StatusStays DEF NoJob, TypeOK
<1> QED BY <1>1, <1>2, <1>3

LEMMA AuditedStep ==
  ASSUME StoreInv, NEW p \in Process, Audited(p)
  PROVE  StoreInv'
<1>1. End(p) /\ UNCHANGED <<lock, files, status, tmp, made, runs>> /\ TypeOK
  BY DEF Audited, StoreInv
<1>2. TypeOK'
  BY <1>1, EndStep DEF TypeOK, files
<1> QED BY <1>1, <1>2, EndStep, QuietStep, StatusStays DEF NoJob, TypeOK

LEMMA AuditFailsStep ==
  ASSUME StoreInv, NEW p \in Process, AuditFails(p)
  PROVE  StoreInv'
<1> DEFINE n == job[p].copy
<1>1. /\ At(p, "audit") /\ Goto(p, "undo")
      /\ job' = [job EXCEPT ![p].failed = TRUE, ![p].doomed = {n}]
      /\ UNCHANGED <<lock, files, status, tmp, made, runs>> /\ "undo" \in PC /\ TypeOK
  BY DEF AuditFails, PC, StoreInv
<1>2. n \in Copy
  BY <1>1 DEF StoreInv, Making, At
<1>3. pc' \in [Process -> PC] /\ pc'[p] = "undo" /\ \A q \in Process : q # p => pc'[q] = pc[q]
  BY <1>1, MoveStep
<1>4. /\ job' \in [Process -> Job] /\ job'[p].doomed = {n} /\ job'[p].failed
      /\ job'[p].op = job[p].op /\ job'[p].copy = n
      /\ \A q \in Process : q # p => job'[q] = job[q]
  <2>1. job'[p] = [job[p] EXCEPT !.failed = TRUE, !.doomed = {n}] /\ job[p] \in Job
    BY <1>1 DEF TypeOK
  <2> QED BY <1>1, <1>2, <2>1 DEF Job, TypeOK
<1>5. TypeOK'
  BY <1>1, <1>3, <1>4 DEF TypeOK, files
<1>6. Holds(p)' /\ Making(p)' /\ Pruning(p)' /\ Reports(p)'
  BY <1>1, <1>2, <1>3, <1>4
     DEF StoreInv, Holds, Making, Pruning, Reports, Inside, Removing, Reporting, At, files
<1> QED BY <1>1, <1>3, <1>4, <1>5, <1>6, QuietStep, StatusStays

LEMMA ReadStatusStep ==
  ASSUME StoreInv, NEW p \in Process, ReadStatus(p)
  PROVE  StoreInv'
<1> DEFINE last == IF job[p].failed THEN status.last ELSE job[p].run
<1>1. /\ At(p, "report") /\ Goto(p, "writing") /\ job' = [job EXCEPT ![p].last = last]
      /\ UNCHANGED <<lock, files, status, tmp, made, runs>> /\ "writing" \in PC /\ TypeOK
  BY DEF ReadStatus, PC, StoreInv
<1>2. last \in 0..MaxRuns
  BY <1>1, JobIsTyped DEF TypeOK, Status
<1>3. pc' \in [Process -> PC] /\ pc'[p] = "writing" /\ \A q \in Process : q # p => pc'[q] = pc[q]
  BY <1>1, MoveStep
<1> HIDE DEF last
<1>4. /\ job' \in [Process -> Job] /\ job'[p].failed = job[p].failed /\ job'[p].op = job[p].op
      /\ job'[p].copy = job[p].copy /\ job'[p].named = job[p].named
      /\ \A q \in Process : q # p => job'[q] = job[q]
  <2>1. job'[p] = [job[p] EXCEPT !.last = last] /\ job[p] \in Job
    BY <1>1 DEF TypeOK
  <2> QED BY <1>1, <1>2, <2>1 DEF Job, TypeOK
<1>5. TypeOK'
  BY <1>1, <1>3, <1>4 DEF TypeOK, files
<1>6. Holds(p)' /\ Making(p)' /\ Pruning(p)'
  BY <1>1, <1>3, <1>4
     DEF StoreInv, Holds, Making, Pruning, Inside, Removing, At, files
<1>7. Reports(p)'
  <2>1. job[p].op = "managed" /\ (~job[p].failed => Good(job[p].named))
    BY <1>1 DEF StoreInv, Reports, Reporting, At
  <2>2. UNCHANGED <<archive, meta, secret>>
    BY <1>1 DEF files
  <2>3. ~job'[p].failed => Good(job[p].named)'
    BY <1>4, <2>1, <2>2 DEF Good, Keys, Listed
  <2> QED BY <1>4, <2>1, <2>3 DEF Reports
<1> QED BY <1>1, <1>3, <1>4, <1>5, <1>6, <1>7, QuietStep, StatusStays

LEMMA WriteStatusStep ==
  ASSUME StoreInv, NEW p \in Process, WriteStatus(p)
  PROVE  StoreInv'
<1> DEFINE s == [successful |-> ~job[p].failed, copy |-> job[p].named, last |-> job[p].last]
<1>1. /\ At(p, "writing") /\ tmp' = s /\ Goto(p, "renaming")
      /\ UNCHANGED <<lock, files, status, made, runs, job>> /\ "renaming" \in PC /\ TypeOK
  BY DEF WriteStatus, PC, StoreInv
<1>2. s \in Status
  BY <1>1, JobIsTyped DEF Status
<1>3. pc' \in [Process -> PC] /\ pc'[p] = "renaming" /\ \A q \in Process : q # p => pc'[q] = pc[q]
  BY <1>1, MoveStep
<1>4. TypeOK'
  BY <1>1, <1>2, <1>3 DEF TypeOK, files
<1>5. Holds(p)' /\ Making(p)' /\ Pruning(p)' /\ Reports(p)'
  BY <1>1, <1>3
     DEF StoreInv, Holds, Making, Pruning, Reports, Good, Keys, Listed, Inside, Removing,
         Reporting, At, files
<1>6. StatusGood'
  <2>1. ~job[p].failed => Good(job[p].named)
    BY <1>1 DEF StoreInv, Reports, Reporting, At
  <2>2. s.successful => Good(s.copy)
    BY <2>1
  <2>3. \A c : Good(c) => Good(c)'
    BY <1>1 DEF Good, Keys, Listed, files
  <2> QED BY <1>1, <2>2, <2>3 DEF StoreInv, StatusGood
<1> QED BY <1>1, <1>3, <1>4, <1>5, <1>6, QuietStep

LEMMA RenameStatusStep ==
  ASSUME StoreInv, NEW p \in Process, RenameStatus(p)
  PROVE  StoreInv'
<1>1. /\ status' = IF tmp = None THEN status ELSE tmp
      /\ tmp' = None /\ End(p) /\ UNCHANGED <<lock, files, made, runs>> /\ TypeOK
  BY DEF RenameStatus, StoreInv
<1>2. TypeOK'
  BY <1>1, EndStep DEF TypeOK, files
<1>3. StatusGood'
  <2>1. \A c : Good(c) => Good(c)'
    BY <1>1 DEF Good, Keys, Listed, files
  <2> QED BY <1>1, <2>1 DEF StoreInv, StatusGood
<1> QED BY <1>1, <1>2, <1>3, EndStep, QuietStep DEF NoJob, TypeOK

LEMMA CrashStep ==
  ASSUME StoreInv, NEW p \in Process, Crash(p)
  PROVE  StoreInv'
<1>1. /\ lock' = IF lock = p THEN Stale ELSE lock
      /\ End(p) /\ UNCHANGED <<files, status, tmp, made, runs>> /\ TypeOK
  BY DEF Crash, StoreInv
<1>2. TypeOK'
  BY <1>1, EndStep DEF TypeOK, files
<1> QED BY <1>1, <1>2, EndStep, QuietStep, StatusStays DEF NoJob, TypeOK

LEMMA ClearLockStep ==
  ASSUME StoreInv, ClearLock
  PROVE  StoreInv'
<1>1. /\ lock' = None /\ \A p \in Process : pc[p] = "idle"
      /\ UNCHANGED <<files, status, tmp, made, runs, pc, job>> /\ TypeOK
  BY DEF ClearLock, At, StoreInv
<1>2. TypeOK' /\ StatusGood'
  BY <1>1, StatusStays DEF TypeOK, files
<1>3. ListedIsDescribed' /\ Fresh' /\ Distinct'
  BY <1>1 DEF StoreInv, ListedIsDescribed, Listed, Fresh, Distinct, files
<1>4. ASSUME NEW p \in Process PROVE Holds(p)' /\ Making(p)' /\ Pruning(p)' /\ Reports(p)'
  BY <1>1 DEF StoreInv, Holds, Making, Pruning, Reports, Inside, Removing, Reporting, files
<1> QED BY <1>2, <1>3, <1>4 DEF StoreInv

-----------------------------------------------------------------------------
(* Steps that change a file: nobody else is inside.                        *)
LEMMA WriterStep ==
  ASSUME StoreInv, TypeOK', NEW p \in Process, pc[p] \in Inside,
         UNCHANGED <<lock, status, tmp>>, made <= made',
         \A q \in Process : q # p => pc'[q] = pc[q] /\ job'[q] = job[q],
         \A n \in Copy : secret[n] = "absent" => secret'[n] = "absent" \/ n = job[p].copy,
         \A c : Good(c) => Good(c)',
         ListedIsDescribed', Fresh', Distinct', Making(p)', Pruning(p)', Reports(p)'
  PROVE  StoreInv'
<1>1. lock = p /\ Holds(p)'
  BY DEF StoreInv, Holds
<1>2. StatusGood'
  BY DEF StoreInv, StatusGood
<1>3. ASSUME NEW q \in Process, q # p
      PROVE  Holds(q)' /\ Making(q)' /\ Pruning(q)' /\ Reports(q)'
  <2>1. /\ pc[q] \notin Inside /\ pc'[q] = pc[q] /\ job'[q] = job[q]
        /\ Making(q) /\ Pruning(q) /\ Reports(q)
    BY <1>1, <1>3 DEF StoreInv, Holds
  <2>2. job[q].copy \in Copy => job[q].copy # job[p].copy
    BY <1>3 DEF StoreInv, Distinct, Copy
  <2>3. made \in Nat /\ made' \in Nat /\ job[q].copy \in Nat
    BY JobIsTyped, StoreAssumption DEF StoreInv, TypeOK
  <2>4. Making(q)'
    BY <2>1, <2>2, <2>3 DEF Making, Inside
  <2>5. Reports(q)'
    BY <2>1 DEF Reports, Inside
  <2>6. Holds(q)' /\ Pruning(q)'
    BY <2>1 DEF Holds, Pruning, Inside, Removing
  <2> QED BY <2>4, <2>5, <2>6
<1> QED BY <1>1, <1>2, <1>3 DEF StoreInv

LEMMA StoreMetaStep ==
  ASSUME StoreInv, NEW p \in Process, StoreMeta(p)
  PROVE  StoreInv'
<1> DEFINE n == made + 1
<1>1. /\ At(p, "locked") /\ job[p].op # "read" /\ made < MaxCopies /\ made' = n
      /\ meta' = meta \cup {n} /\ job' = [job EXCEPT ![p].copy = n] /\ Goto(p, "described")
      /\ UNCHANGED <<lock, archive, secret, status, tmp, runs>> /\ "described" \in PC /\ TypeOK
  BY DEF StoreMeta, PC, StoreInv
<1>2. n \in Copy /\ n \in 0..MaxCopies /\ made \in Nat /\ n > made
  BY <1>1, StoreAssumption DEF TypeOK, Copy
<1>3. archive[n] = "absent" /\ secret[n] = "absent"
  BY <1>2 DEF StoreInv, Fresh
<1>4. pc' \in [Process -> PC] /\ pc'[p] = "described" /\ \A q \in Process : q # p => pc'[q] = pc[q]
  BY <1>1, MoveStep
<1> HIDE DEF n
<1>5. /\ job' \in [Process -> Job] /\ job'[p].copy = n /\ job'[p].op = job[p].op
      /\ \A q \in Process : q # p => job'[q] = job[q]
  <2>1. job'[p] = [job[p] EXCEPT !.copy = n] /\ job[p] \in Job
    BY <1>1 DEF TypeOK
  <2> QED BY <1>1, <1>2, <2>1 DEF Job, TypeOK
<1>6. TypeOK'
  BY <1>1, <1>2, <1>4, <1>5 DEF TypeOK
<1>7. \A c : Good(c) => Good(c)'
  BY <1>1 DEF Good, Keys, Listed
<1>8. ListedIsDescribed'
  BY <1>1 DEF StoreInv, ListedIsDescribed, Listed
<1>9. Fresh'
  BY <1>1, <1>2 DEF StoreInv, Fresh, Copy, n
<1>10. Distinct'
  <2>1. \A q \in Process : q # p => job'[q].copy # n
    BY <1>2, <1>5, JobIsTyped DEF StoreInv, Making
  <2> QED BY <1>5, <2>1 DEF StoreInv, Distinct
<1>11. Making(p)' /\ Pruning(p)' /\ Reports(p)'
  BY <1>1, <1>2, <1>3, <1>4, <1>5 DEF Making, Pruning, Reports, Removing, Reporting
<1>12. made <= made' /\ pc[p] \in Inside
  BY <1>1, <1>2 DEF Inside, At
<1> QED BY <1>1, <1>4, <1>5, <1>6, <1>7, <1>8, <1>9, <1>10, <1>11, <1>12, WriterStep

LEMMA StoreArchiveStep ==
  ASSUME StoreInv, NEW p \in Process, StoreArchive(p)
  PROVE  StoreInv'
<1> DEFINE n == job[p].copy
           s == IF job[p].op = "managed" THEN "stored" ELSE "done"
<1>1. /\ At(p, "described") /\ archive' = [archive EXCEPT ![n] = "whole"] /\ Goto(p, s)
      /\ UNCHANGED <<lock, meta, secret, status, tmp, made, runs, job>> /\ s \in PC /\ TypeOK
  BY DEF StoreArchive, PC, StoreInv
<1>2. n \in Copy /\ n \in meta /\ secret[n] = "absent" /\ job[p].op # "read" /\ n <= made
  BY <1>1 DEF StoreInv, Making, At
<1>3. pc' \in [Process -> PC] /\ pc'[p] = s /\ \A q \in Process : q # p => pc'[q] = pc[q]
  BY <1>1, MoveStep
<1>4. archive' \in [Copy -> {"absent", "whole", "damaged"}] /\ archive'[n] = "whole"
      /\ \A m \in Copy : m # n => archive'[m] = archive[m]
  BY <1>1, <1>2 DEF TypeOK
<1>5. TypeOK'
  BY <1>1, <1>3, <1>4 DEF TypeOK
<1>6. \A c : Good(c) => Good(c)'
  BY <1>1, <1>4 DEF Good, Keys, Listed
<1>7. ListedIsDescribed'
  BY <1>1, <1>2, <1>4 DEF StoreInv, ListedIsDescribed, Listed
<1>8. made \in Nat /\ n \in Nat
  BY <1>1, <1>2, StoreAssumption DEF TypeOK, Copy
<1>9. Fresh'
  BY <1>1, <1>2, <1>4, <1>8 DEF StoreInv, Fresh, Copy
<1>10. Distinct'
  BY <1>1 DEF StoreInv, Distinct
<1>11. Making(p)' /\ Pruning(p)' /\ Reports(p)'
  BY <1>1, <1>2, <1>3, <1>4 DEF Making, Pruning, Reports, Removing, Reporting
<1>12. made <= made' /\ pc[p] \in Inside
  BY <1>1, <1>8 DEF Inside, At
<1> QED BY <1>1, <1>3, <1>5, <1>6, <1>7, <1>9, <1>10, <1>11, <1>12, WriterStep

LEMMA StoreFailsStep ==
  ASSUME StoreInv, NEW p \in Process, StoreFails(p)
  PROVE  StoreInv'
<1> DEFINE n == job[p].copy
<1>1. /\ At(p, "described") /\ meta' = meta \ {n} /\ FailTo(p, "done")
      /\ UNCHANGED <<lock, archive, secret, status, tmp, made, runs>> /\ "done" \in PC /\ TypeOK
  BY DEF StoreFails, PC, StoreInv
<1>2. n \in Copy /\ archive[n] = "absent" /\ secret[n] = "absent" /\ n <= made
  BY <1>1 DEF StoreInv, Making, At
<1>3. TypeOK'
  BY <1>1, FailStep DEF TypeOK
<1>4. \A c : Good(c) => Good(c)'
  BY <1>1, <1>2 DEF Good, Keys, Listed
<1>5. ListedIsDescribed' /\ Fresh'
  BY <1>1, <1>2 DEF StoreInv, ListedIsDescribed, Listed, Fresh
<1>6. Distinct'
  BY <1>1, FailStep DEF StoreInv, Distinct
<1>7. Making(p)' /\ Pruning(p)' /\ Reports(p)'
  BY <1>1, <1>2, FailStep DEF Making, Pruning, Reports, Removing, Reporting
<1>8. made <= made' /\ pc[p] \in Inside
  BY <1>1, StoreAssumption DEF Inside, At, TypeOK
<1> QED BY <1>1, <1>3, <1>4, <1>5, <1>6, <1>7, <1>8, FailStep, WriterStep

LEMMA OpenSecretStep ==
  ASSUME StoreInv, NEW p \in Process, OpenSecret(p)
  PROVE  StoreInv'
<1> DEFINE n == job[p].copy
<1>1. /\ At(p, "stored") /\ secret' = [secret EXCEPT ![n] = "torn"] /\ Goto(p, "keyed")
      /\ UNCHANGED <<lock, archive, meta, status, tmp, made, runs, job>> /\ "keyed" \in PC /\ TypeOK
  BY DEF OpenSecret, PC, StoreInv
<1>2. n \in Copy /\ archive[n] # "absent" /\ secret[n] = "absent" /\ job[p].op = "managed" /\ n <= made
  BY <1>1 DEF StoreInv, Making, At
<1>3. pc' \in [Process -> PC] /\ pc'[p] = "keyed" /\ \A q \in Process : q # p => pc'[q] = pc[q]
  BY <1>1, MoveStep
<1>4. secret' \in [Copy -> {"absent", "torn", "whole"}] /\ secret'[n] = "torn"
      /\ \A m \in Copy : m # n => secret'[m] = secret[m]
  BY <1>1, <1>2 DEF TypeOK
<1>5. TypeOK'
  BY <1>1, <1>3, <1>4 DEF TypeOK
<1>6. \A c : Good(c) => Good(c)'
  <2>1. \A c : Keys(c)' = Keys(c)
    BY <1>2, <1>4 DEF Keys
  <2> QED BY <1>1, <1>2, <1>4, <2>1 DEF Good, Listed
<1>7. ListedIsDescribed' /\ Distinct'
  BY <1>1 DEF StoreInv, ListedIsDescribed, Listed, Distinct
<1>8. made \in Nat /\ n \in Nat
  BY <1>1, <1>2, StoreAssumption DEF TypeOK, Copy
<1>9. Fresh'
  BY <1>1, <1>2, <1>4, <1>8 DEF StoreInv, Fresh, Copy
<1>10. Making(p)' /\ Pruning(p)' /\ Reports(p)'
  BY <1>1, <1>2, <1>3, <1>4 DEF Making, Pruning, Reports, Removing, Reporting
<1>11. made <= made' /\ pc[p] \in Inside
  BY <1>1, <1>8 DEF Inside, At
<1> QED BY <1>1, <1>3, <1>4, <1>5, <1>6, <1>7, <1>9, <1>10, <1>11, WriterStep

LEMMA KeepSecretStep ==
  ASSUME StoreInv, NEW p \in Process, KeepSecret(p)
  PROVE  StoreInv'
<1> DEFINE n == job[p].copy
<1>1. /\ At(p, "keyed") /\ secret[n] = "torn" /\ secret' = [secret EXCEPT ![n] = "whole"]
      /\ job' = [job EXCEPT ![p].named = n]
      /\ UNCHANGED <<lock, archive, meta, status, tmp, made, runs, pc>> /\ TypeOK
  BY DEF KeepSecret, StoreInv
<1>2. n \in Copy /\ archive[n] # "absent" /\ job[p].op = "managed" /\ n <= made
  BY <1>1 DEF StoreInv, Making, At
<1>3. /\ job' \in [Process -> Job] /\ job'[p].named = n /\ job'[p].copy = n
      /\ job'[p].op = job[p].op
      /\ \A q \in Process : q # p => job'[q] = job[q]
  <2>1. job'[p] = [job[p] EXCEPT !.named = n] /\ job[p] \in Job /\ n \in 0..MaxCopies
    BY <1>1, JobIsTyped DEF TypeOK
  <2> QED BY <1>1, <2>1 DEF Job, TypeOK
<1>4. secret' \in [Copy -> {"absent", "torn", "whole"}] /\ secret'[n] = "whole"
      /\ \A m \in Copy : m # n => secret'[m] = secret[m]
  BY <1>1, <1>2 DEF TypeOK
<1>5. TypeOK'
  BY <1>1, <1>3, <1>4 DEF TypeOK
<1>6. \A c : Good(c) => Good(c)'
  <2>1. ASSUME NEW c, Good(c) PROVE Good(c)'
    <3>1. Keys(c) \subseteq Keys(c)'
      BY <1>1, <1>2, <1>4 DEF Keys
    <3>2. c \in Listed /\ c \in meta /\ secret[c] = "whole"
            => c \in Listed' /\ c \in meta' /\ secret'[c] = "whole"
      BY <1>1, <1>4 DEF Listed
    <3> QED BY <1>1, <1>5, <2>1, <3>1, <3>2, GoodStays
  <2> QED BY <2>1
<1>7. ListedIsDescribed' /\ Distinct'
  BY <1>1, <1>3 DEF StoreInv, ListedIsDescribed, Listed, Distinct
<1>8. made \in Nat /\ n \in Nat
  BY <1>1, <1>2, StoreAssumption DEF TypeOK, Copy
<1>9. Fresh'
  BY <1>1, <1>2, <1>4, <1>8 DEF StoreInv, Fresh, Copy
<1>10. Making(p)' /\ Pruning(p)' /\ Reports(p)'
  BY <1>1, <1>2, <1>3, <1>4 DEF Making, Pruning, Reports, Removing, Reporting, At
<1>11. made <= made' /\ pc[p] \in Inside
  BY <1>1, <1>8 DEF Inside, At
<1>12. \A m \in Copy : secret[m] = "absent" => secret'[m] = "absent" \/ m = job[p].copy
  BY <1>4
<1> QED BY <1>1, <1>3, <1>5, <1>6, <1>7, <1>9, <1>10, <1>11, <1>12, WriterStep

(* What every removal finds: the newest of its copies, and what is above it. *)
LEMMA NextRemoved ==
  ASSUME StoreInv, NEW p \in Process, pc[p] \in Removing,
         NEW n \in job[p].doomed, \A m \in job[p].doomed : m <= n
  PROVE  /\ n \in Copy /\ \A k \in job[p].doomed : k \in Copy /\ (k # n => k < n)
         /\ \/ /\ job[p].op = "managed" /\ secret[n] # "absent" /\ Cardinality(Newer(n)) >= Keep
               /\ Cardinality(Keys(n)) >= Keep
            \/ /\ job[p].op = "create" /\ n = job[p].copy /\ secret[n] = "absent"
               /\ job[p].doomed = {n}
<1>1. TypeOK /\ job[p].doomed \in SUBSET Copy /\ n \in Copy
  BY JobIsTyped DEF StoreInv
<1>2. \A k \in job[p].doomed : k \in Copy /\ (k # n => k < n)
  BY <1>1, StoreAssumption DEF Copy
<1>3. CASE job[p].op = "managed"
  BY <1>1, <1>2, <1>3, NewerCounts DEF StoreInv, Pruning
<1>4. CASE job[p].op = "create"
  BY <1>1, <1>2, <1>4 DEF StoreInv, Pruning, Making
<1> QED BY <1>2, <1>1, <1>3, <1>4 DEF StoreInv, Pruning

LEMMA RemoveArchiveStep ==
  ASSUME StoreInv, NEW p \in Process, RemoveArchive(p)
  PROVE  StoreInv'
<1>1. PICK n \in job[p].doomed :
        (\A m \in job[p].doomed : m <= n) /\ archive' = [archive EXCEPT ![n] = "absent"]
  BY DEF RemoveArchive
<1>2. /\ pc[p] = "pruning" /\ Goto(p, "undescribing")
      /\ UNCHANGED <<lock, meta, secret, status, tmp, made, runs, job>>
      /\ "undescribing" \in PC /\ TypeOK
  BY DEF RemoveArchive, PC, StoreInv, At
<1>3. /\ n \in Copy /\ \A k \in job[p].doomed : k \in Copy /\ (k # n => k < n)
      /\ \/ /\ job[p].op = "managed" /\ secret[n] # "absent" /\ Cardinality(Newer(n)) >= Keep
            /\ Cardinality(Keys(n)) >= Keep
         \/ /\ job[p].op = "create" /\ n = job[p].copy /\ secret[n] = "absent"
            /\ job[p].doomed = {n}
  BY <1>1, <1>2, NextRemoved DEF Removing
<1>4. pc' \in [Process -> PC] /\ pc'[p] = "undescribing" /\ \A q \in Process : q # p => pc'[q] = pc[q]
  BY <1>2, MoveStep
<1>5. archive' \in [Copy -> {"absent", "whole", "damaged"}] /\ archive'[n] = "absent"
      /\ \A m \in Copy : m # n => archive'[m] = archive[m]
  BY <1>1, <1>2, <1>3 DEF TypeOK
<1>6. TypeOK'
  BY <1>2, <1>4, <1>5 DEF TypeOK
<1>7. \A c : Good(c) => Good(c)'
  BY <1>2, <1>3, <1>5 DEF Good, Keys, Listed
<1>8. ListedIsDescribed' /\ Fresh' /\ Distinct'
  BY <1>2, <1>5 DEF StoreInv, ListedIsDescribed, Listed, Fresh, Distinct
<1>9. Making(p)'
  BY <1>2, <1>4 DEF StoreInv, Making
<1>10. ASSUME job[p].op = "managed", NEW k \in job[p].doomed
       PROVE  secret[k] # "absent" /\ Cardinality(Newer(k)') >= Keep
  <2>1. secret[k] # "absent" /\ k \in Copy
    BY <1>2, <1>3, <1>10 DEF StoreInv, Pruning, Removing
  <2>2. Newer(n) \subseteq Newer(k)'
    <3>1. ASSUME NEW m \in Newer(n) PROVE m \in Newer(k)'
      <4>1. m \in Copy /\ m > n /\ m > k /\ archive'[m] = archive[m]
        BY <1>3, <1>5, <1>10, <3>1, StoreAssumption DEF Newer, Automated, Listed, Copy
      <4> QED BY <1>2, <3>1, <4>1 DEF Newer, Automated, Listed
    <3> QED BY <3>1
  <2>3. Newer(k)' \in SUBSET Copy /\ Newer(n) \in SUBSET Newer(k)'
    BY <2>2 DEF Newer, Automated, Listed
  <2>4. Cardinality(Newer(n)) >= Keep
    BY <1>3, <1>10
  <2> QED BY <2>1, <2>3, <2>4, CountGrows
<1>11. Pruning(p)'
  <2>1. \A k \in job[p].doomed : (\A m \in job[p].doomed : m <= k) => archive'[k] = "absent"
    BY <1>1, <1>3, <1>5, StoreAssumption DEF Copy
  <2>2. job[p].op = "managed" =>
          \A k \in job[p].doomed : secret[k] # "absent" /\ Cardinality(Newer(k)') >= Keep
    BY <1>10
  <2>3. /\ job[p].op \in {"managed", "create"}
        /\ job[p].op = "create" => job[p].failed /\ job[p].doomed \subseteq {job[p].copy}
    BY <1>2 DEF StoreInv, Pruning, Removing
  <2> QED BY <1>2, <1>4, <2>1, <2>2, <2>3 DEF Pruning, Removing
<1>12. Reports(p)'
  BY <1>2, <1>4, <1>7 DEF StoreInv, Reports, Removing, Reporting
<1>13. made <= made' /\ pc[p] \in Inside
  BY <1>2, StoreAssumption DEF Inside, Removing, TypeOK
<1> QED BY <1>2, <1>4, <1>6, <1>7, <1>8, <1>9, <1>11, <1>12, <1>13, WriterStep

LEMMA RemoveMetaStep ==
  ASSUME StoreInv, NEW p \in Process, RemoveMeta(p)
  PROVE  StoreInv'
<1> DEFINE s == IF job[p].op = "managed" THEN "unkeying" ELSE "pruning"
<1>1. PICK n \in job[p].doomed :
        /\ \A m \in job[p].doomed : m <= n
        /\ meta' = meta \ {n}
        /\ job' = [job EXCEPT ![p].doomed =
                     IF job[p].op = "managed" THEN @ ELSE @ \ {n}]
  BY DEF RemoveMeta
<1> DEFINE left == IF job[p].op = "managed" THEN job[p].doomed ELSE job[p].doomed \ {n}
<1>2. /\ pc[p] = "undescribing" /\ Goto(p, s)
      /\ UNCHANGED <<lock, archive, secret, status, tmp, made, runs>> /\ s \in PC /\ TypeOK
  BY DEF RemoveMeta, PC, StoreInv, At
<1>3. n \in Copy /\ archive[n] = "absent" /\ left \in SUBSET Copy /\ left \subseteq job[p].doomed
  BY <1>1, <1>2, NextRemoved, JobIsTyped DEF StoreInv, Pruning, Removing
<1>4. pc' \in [Process -> PC] /\ pc'[p] = s /\ \A q \in Process : q # p => pc'[q] = pc[q]
  BY <1>2, MoveStep
<1>5. job'[p] = [job[p] EXCEPT !.doomed = left] /\ job[p] \in Job
  BY <1>1, <1>2 DEF TypeOK
<1> HIDE DEF left
<1>6. /\ job' \in [Process -> Job] /\ job'[p].doomed = left /\ job'[p].op = job[p].op
      /\ job'[p].copy = job[p].copy /\ job'[p].named = job[p].named
      /\ job'[p].failed = job[p].failed
      /\ \A q \in Process : q # p => job'[q] = job[q]
  <2>1. job'[p] \in Job
    BY <1>3, <1>5 DEF Job
  <2>2. job' \in [Process -> Job] /\ \A q \in Process : q # p => job'[q] = job[q]
    BY <1>1, <1>2, <2>1 DEF TypeOK
  <2> QED BY <1>5, <2>2 DEF Job
<1>7. TypeOK'
  BY <1>1, <1>2, <1>4, <1>6 DEF TypeOK
<1>8. \A c : Good(c) => Good(c)'
  BY <1>1, <1>2, <1>3 DEF Good, Keys, Listed
<1>9. ListedIsDescribed' /\ Fresh' /\ Distinct'
  BY <1>1, <1>2, <1>3, <1>6 DEF StoreInv, ListedIsDescribed, Listed, Fresh, Distinct
<1>10. Making(p)'
  BY <1>2, <1>4, <1>6 DEF StoreInv, Making
<1>11. Pruning(p)'
  BY <1>2, <1>3, <1>4, <1>6 DEF StoreInv, Pruning, Removing, Newer, Automated, Listed
<1>12. Reports(p)'
  BY <1>2, <1>4, <1>6, <1>8 DEF StoreInv, Reports, Removing, Reporting
<1>13. made <= made' /\ pc[p] \in Inside
  BY <1>2, StoreAssumption DEF Inside, Removing, TypeOK
<1> QED BY <1>2, <1>4, <1>6, <1>7, <1>8, <1>9, <1>10, <1>11, <1>12, <1>13, WriterStep

LEMMA RemoveSecretStep ==
  ASSUME StoreInv, NEW p \in Process, RemoveSecret(p)
  PROVE  StoreInv'
<1>1. PICK n \in job[p].doomed :
        /\ \A m \in job[p].doomed : m <= n
        /\ secret' = [secret EXCEPT ![n] = "absent"]
        /\ job' = [job EXCEPT ![p].doomed = @ \ {n}]
  BY DEF RemoveSecret
<1> DEFINE left == job[p].doomed \ {n}
<1>2. /\ pc[p] = "unkeying" /\ Goto(p, "pruning")
      /\ UNCHANGED <<lock, archive, meta, status, tmp, made, runs>> /\ "pruning" \in PC /\ TypeOK
      /\ job[p].op = "managed"
  BY DEF RemoveSecret, PC, StoreInv, At, Pruning
<1>3. /\ n \in Copy /\ \A k \in left : k \in Copy /\ k < n
      /\ Cardinality(Newer(n)) >= Keep /\ Cardinality(Keys(n)) >= Keep
  BY <1>1, <1>2, NextRemoved DEF Removing
<1>4. pc' \in [Process -> PC] /\ pc'[p] = "pruning" /\ \A q \in Process : q # p => pc'[q] = pc[q]
  BY <1>2, MoveStep
<1>5. job'[p] = [job[p] EXCEPT !.doomed = left] /\ job[p] \in Job /\ left \in SUBSET Copy
  BY <1>1, <1>2, <1>3 DEF TypeOK
<1>6. /\ job' \in [Process -> Job] /\ job'[p].doomed = left /\ job'[p].op = job[p].op
      /\ job'[p].copy = job[p].copy /\ job'[p].named = job[p].named
      /\ job'[p].failed = job[p].failed
      /\ \A q \in Process : q # p => job'[q] = job[q]
  <2> HIDE DEF left
  <2>1. job'[p] \in Job
    BY <1>5 DEF Job
  <2>2. job' \in [Process -> Job] /\ \A q \in Process : q # p => job'[q] = job[q]
    BY <1>1, <1>2, <2>1 DEF TypeOK
  <2> QED BY <1>5, <2>2 DEF Job
<1>7. secret' \in [Copy -> {"absent", "torn", "whole"}] /\ secret'[n] = "absent"
      /\ \A m \in Copy : m # n => secret'[m] = secret[m]
  BY <1>1, <1>2, <1>3 DEF TypeOK
<1>8. TypeOK'
  BY <1>2, <1>4, <1>6, <1>7 DEF TypeOK
<1>9. Keys(n) \subseteq Keys(n)'
  BY <1>3, <1>7, StoreAssumption DEF Keys, Copy
<1>10. ASSUME NEW c, Good(c) PROVE Good(c)'
  <2>1. c \in Copy
    BY <1>10 DEF Good
  <2>2. Keys(c) \subseteq Keys(c)' \/ n > c
    BY <1>3, <1>7, <2>1, StoreAssumption DEF Keys, Copy
  <2>3. CASE c = n
    <3>1. Keys(n)' \in SUBSET Copy
      BY DEF Keys
    <3>2. Cardinality(Keys(n)') >= Keep
      BY <1>3, <1>9, <3>1, CountGrows
    <3> QED BY <1>3, <2>3, <3>2 DEF Good
  <2>4. CASE c # n
    <3>1. c \in Listed /\ c \in meta /\ secret[c] = "whole"
            => c \in Listed' /\ c \in meta' /\ secret'[c] = "whole"
      BY <1>2, <1>7, <2>1, <2>4 DEF Listed
    <3> QED BY <1>2, <1>3, <1>8, <1>9, <1>10, <2>2, <3>1, GoodStays
  <2> QED BY <2>3, <2>4
<1>11. ListedIsDescribed' /\ Fresh' /\ Distinct'
  BY <1>2, <1>6, <1>7 DEF StoreInv, ListedIsDescribed, Listed, Fresh, Distinct
<1>12. Making(p)'
  BY <1>2, <1>4, <1>6 DEF StoreInv, Making
<1>13. ASSUME NEW k \in left
       PROVE  secret'[k] # "absent" /\ Cardinality(Newer(k)') >= Keep
  <2>1. secret'[k] # "absent" /\ k \in Copy
    BY <1>2, <1>3, <1>7, StoreAssumption DEF StoreInv, Pruning, Removing, Copy
  <2>2. Newer(n) \subseteq Newer(k)'
    <3>1. ASSUME NEW m \in Newer(n) PROVE m \in Newer(k)'
      <4>1. m \in Copy /\ m > n /\ m > k /\ secret'[m] = secret[m]
        BY <1>3, <1>7, <3>1, StoreAssumption DEF Newer, Automated, Listed, Copy
      <4> QED BY <1>2, <3>1, <4>1 DEF Newer, Automated, Listed
    <3> QED BY <3>1
  <2>3. Newer(k)' \in SUBSET Copy /\ Newer(n) \in SUBSET Newer(k)'
    BY <2>2 DEF Newer, Automated, Listed
  <2> QED BY <1>3, <2>1, <2>3, CountGrows
<1>14. Pruning(p)'
  BY <1>2, <1>4, <1>6, <1>13 DEF Pruning, Removing
<1>15. Reports(p)'
  BY <1>2, <1>4, <1>6, <1>10 DEF StoreInv, Reports, Removing, Reporting
<1>16. made <= made' /\ pc[p] \in Inside
  BY <1>2, StoreAssumption DEF Inside, Removing, TypeOK
<1>17. \A m \in Copy : secret[m] = "absent" => secret'[m] = "absent" \/ m = job[p].copy
  BY <1>7
<1> QED BY <1>2, <1>4, <1>6, <1>8, <1>10, <1>11, <1>12, <1>14, <1>15, <1>16, <1>17, WriterStep

(* A damaged archive is still listed.                                      *)
LEMMA DamageStep ==
  ASSUME StoreInv, NEW n \in Copy, Damage(n)
  PROVE  StoreInv'
<1>1. /\ archive[n] = "whole" /\ archive' = [archive EXCEPT ![n] = "damaged"]
      /\ UNCHANGED <<lock, meta, secret, status, tmp, made, runs, pc, job>> /\ TypeOK
  BY DEF Damage, StoreInv
<1>2. /\ archive' \in [Copy -> {"absent", "whole", "damaged"}]
      /\ \A m \in Copy : archive'[m] = "absent" <=> archive[m] = "absent"
  BY <1>1 DEF TypeOK
<1>3. TypeOK'
  BY <1>1, <1>2 DEF TypeOK
<1>4. Listed' = Listed
  BY <1>2 DEF Listed
<1>5. /\ Automated' = Automated /\ \A c : Good(c)' <=> Good(c)
      /\ \A c : Newer(c)' = Newer(c)
  BY <1>1, <1>4 DEF Automated, Good, Keys, Newer
<1>6. ListedIsDescribed' /\ Fresh' /\ Distinct' /\ StatusGood'
  BY <1>1, <1>2, <1>4, <1>5 DEF StoreInv, ListedIsDescribed, Fresh, Distinct, StatusGood
<1>7. ASSUME NEW p \in Process PROVE Holds(p)' /\ Making(p)' /\ Pruning(p)' /\ Reports(p)'
  <2>1. Holds(p)' /\ Reports(p)'
    BY <1>1, <1>5 DEF StoreInv, Holds, Reports
  <2>2. Making(p)'
    BY <1>1, <1>2 DEF StoreInv, Making
  <2>3. job[p].doomed \in SUBSET Copy
    BY <1>1, JobIsTyped
  <2>4. Pruning(p)'
    BY <1>1, <1>2, <1>5, <2>3 DEF StoreInv, Pruning
  <2> QED BY <2>1, <2>2, <2>4
<1> QED BY <1>3, <1>6, <1>7 DEF StoreInv

-----------------------------------------------------------------------------
LEMMA InitStore == Init => StoreInv
<1> SUFFICES ASSUME Init PROVE StoreInv
  OBVIOUS
<1>1. NoJob \in Job /\ NoJob.copy = 0 /\ NoJob.op = "read" /\ NoStatus \in Status /\ ~NoStatus.successful
  BY StoreAssumption DEF NoJob, Job, Op, NoStatus, Status
<1>2. TypeOK
  BY <1>1, StoreAssumption DEF Init, TypeOK, PC
<1>3. ListedIsDescribed /\ Fresh
  BY DEF Init, ListedIsDescribed, Listed, Fresh
<1>4. Distinct /\ StatusGood
  BY <1>1 DEF Init, Distinct, StatusGood
<1>5. ASSUME NEW p \in Process PROVE Holds(p) /\ Making(p) /\ Pruning(p) /\ Reports(p)
  BY <1>1, StoreAssumption
     DEF Init, Holds, Making, Pruning, Reports, Inside, Removing, Reporting, Copy
<1> QED BY <1>2, <1>3, <1>4, <1>5 DEF StoreInv

LEMMA NextStore == StoreInv /\ [Next]_vars => StoreInv'
<1> SUFFICES ASSUME StoreInv, [Next]_vars PROVE StoreInv'
  OBVIOUS
<1>1. ASSUME NEW p \in Process, DumpFails(p) \/ KeepFails(p) \/ PruneFails(p) \/ RemoveFails(p)
      PROVE  StoreInv'
  BY <1>1, SkipStep DEF DumpFails, KeepFails, PruneFails, RemoveFails, At, Inside, Removing
<1>2. ASSUME NEW p \in Process,
             \/ Begin(p) \/ Lock(p) \/ LockFails(p) \/ ReadCopy(p) \/ Prune(p) \/ Pruned(p)
             \/ Unlock(p) \/ Audited(p) \/ AuditFails(p)
             \/ ReadStatus(p) \/ WriteStatus(p) \/ RenameStatus(p) \/ Crash(p)
      PROVE  StoreInv'
  BY <1>2, BeginStep, LockStep, LockFailsStep, ReadCopyStep, PruneStep, PrunedStep, UnlockStep,
     AuditedStep, AuditFailsStep, ReadStatusStep, WriteStatusStep, RenameStatusStep, CrashStep
<1>3. ASSUME NEW p \in Process,
             \/ StoreMeta(p) \/ StoreArchive(p) \/ StoreFails(p) \/ OpenSecret(p) \/ KeepSecret(p)
             \/ RemoveArchive(p) \/ RemoveMeta(p) \/ RemoveSecret(p)
      PROVE  StoreInv'
  BY <1>3, StoreMetaStep, StoreArchiveStep, StoreFailsStep, OpenSecretStep, KeepSecretStep,
     RemoveArchiveStep, RemoveMetaStep, RemoveSecretStep
<1>4. CASE UNCHANGED vars
  <2>1. UNCHANGED <<lock, archive, meta, secret, status, tmp, made, runs, pc, job>>
    BY <1>4 DEF vars, files
  <2>2. TypeOK' /\ ListedIsDescribed' /\ Fresh' /\ Distinct' /\ StatusGood'
    BY <2>1 DEF StoreInv, TypeOK, ListedIsDescribed, Listed, Fresh, Distinct, StatusGood, Good, Keys
  <2>3. ASSUME NEW p \in Process PROVE Holds(p)' /\ Making(p)' /\ Pruning(p)' /\ Reports(p)'
    <3>1. Holds(p)' /\ Making(p)' /\ Reports(p)'
      BY <2>1 DEF StoreInv, Holds, Making, Reports, Good, Keys, Listed
    <3>2. Pruning(p)'
      BY <2>1 DEF StoreInv, Pruning, Newer, Automated, Listed
    <3> QED BY <3>1, <3>2
  <2> QED BY <2>2, <2>3 DEF StoreInv
<1> QED BY <1>1, <1>2, <1>3, <1>4, ClearLockStep, DamageStep DEF Next

(* The inductive invariant holds in every state, wherever processes die: only
   the one that made .backup.lock changes a file. *)
THEOREM StoreInvariant == Spec => []StoreInv
<1>1. Init => StoreInv
  BY InitStore
<1>2. StoreInv /\ [Next]_vars => StoreInv'
  BY NextStore
<1> QED BY <1>1, <1>2, PTL DEF Spec

(* The variables keep their types.                                         *)
THEOREM StoreTypeCorrect == Spec => []TypeOK
<1>1. StoreInv => TypeOK
  BY DEF StoreInv
<1> QED BY <1>1, StoreInvariant, PTL

(* writeVersioned and remove: a copy that List shows has its metadata.     *)
THEOREM ListedHasMetadata == Spec => []ListedIsDescribed
<1>1. StoreInv => ListedIsDescribed
  BY DEF StoreInv
<1> QED BY <1>1, StoreInvariant, PTL

(* writeStatus: the copy a successful status names can be restored, unless the
   disk damaged it or as many newer ones as are kept took its place. *)
THEOREM StatusNamesRestorable == Spec => []StatusIsRestorable
<1>1. StoreInv => StatusIsRestorable
  <2> SUFFICES ASSUME StoreInv, status.successful
               PROVE  /\ status.copy \in Copy
                      /\ \/ Complete(status.copy)
                         \/ archive[status.copy] = "damaged"
                         \/ Cardinality({n \in Copy : n > status.copy /\ secret[n] = "whole"}) >= Keep
    BY DEF StatusIsRestorable
  <2>1. Good(status.copy)
    BY DEF StoreInv, StatusGood
  <2> QED BY <2>1 DEF Good, Listed, Complete, Keys, StoreInv, TypeOK
<1> QED BY <1>1, StoreInvariant, PTL

(* prune and remove: an automated copy goes only if there are as many newer ones
   as are kept, a manual one only at the hands of the process that made it. *)
THEOREM PruneKeepsNewest == Spec => KeepsNewest
<1> DEFINE Kept ==
      \A n \in Copy :
        archive[n] # "absent" /\ archive'[n] = "absent" =>
          \/ secret[n] # "absent" /\ Cardinality({m \in Automated : m > n}) >= Keep
          \/ \E p \in Process : job[p].op = "create" /\ job[p].copy = n /\ At(p, "pruning")
<1>1. ASSUME StoreInv, NEW p \in Process, RemoveArchive(p) PROVE Kept
  <2>1. PICK n \in job[p].doomed :
          (\A m \in job[p].doomed : m <= n) /\ archive' = [archive EXCEPT ![n] = "absent"]
    BY <1>1 DEF RemoveArchive
  <2>2. pc[p] = "pruning"
    BY <1>1 DEF RemoveArchive, At
  <2>3. n \in Copy /\ \/ secret[n] # "absent" /\ Cardinality(Newer(n)) >= Keep
                      \/ job[p].op = "create" /\ n = job[p].copy
    BY <1>1, <2>1, <2>2, NextRemoved DEF Removing
  <2>4. Cardinality(Newer(n)) >= Keep => Cardinality({m \in Automated : m > n}) >= Keep
    BY <1>1, <2>3, NewerCounts DEF StoreInv
  <2>5. \A k \in Copy : k # n => archive'[k] = archive[k]
    BY <1>1, <2>1 DEF StoreInv, TypeOK
  <2> QED BY <2>2, <2>3, <2>4, <2>5 DEF At
<1>2. ASSUME StoreInv, NEW p \in Process, StoreArchive(p) PROVE Kept
  BY <1>2 DEF StoreArchive, StoreInv, TypeOK
<1>3. ASSUME StoreInv, NEW n \in Copy, Damage(n) PROVE Kept
  BY <1>3 DEF Damage, StoreInv, TypeOK
<1>4. ASSUME archive' = archive PROVE Kept
  BY <1>4
<1>5. ASSUME NEW p \in Process,
             \/ Begin(p) \/ Lock(p) \/ LockFails(p) \/ ReadCopy(p) \/ StoreMeta(p) \/ DumpFails(p)
             \/ StoreFails(p) \/ OpenSecret(p) \/ KeepSecret(p) \/ KeepFails(p)
             \/ Prune(p) \/ PruneFails(p) \/ RemoveMeta(p) \/ RemoveSecret(p) \/ RemoveFails(p)
             \/ Pruned(p) \/ Unlock(p) \/ Audited(p) \/ AuditFails(p)
             \/ ReadStatus(p) \/ WriteStatus(p) \/ RenameStatus(p) \/ Crash(p)
      PROVE  archive' = archive
  BY <1>5 DEF Begin, Lock, LockFails, ReadCopy, StoreMeta, DumpFails, StoreFails, OpenSecret,
       KeepSecret, KeepFails, Prune, PruneFails, RemoveMeta, RemoveSecret, RemoveFails, Pruned,
       Unlock, Audited, AuditFails, ReadStatus, WriteStatus, RenameStatus, Crash, files
<1>6. ClearLock => archive' = archive
  BY DEF ClearLock, files
<1>7. StoreInv /\ [Next]_vars => [Kept]_vars
  BY <1>1, <1>2, <1>3, <1>4, <1>5, <1>6 DEF Next
<1> QED BY <1>7, StoreInvariant, PTL DEF Spec, KeepsNewest, Kept
=============================================================================

---------------------------- MODULE BackupStore ----------------------------
(***************************************************************************)
(* The files a backup leaves: Managed, Create, Remove, PrepareFile, prune  *)
(* and writeStatus of internal/backup, run by processes of their own (the  *)
(* timer's, an operator's, the API's) that share two directories and       *)
(* exclude each other with the file .backup.lock.  Every step is one       *)
(* change of a directory; a process may die between any two.               *)
(*                                                                         *)
(* Copies are numbered in the order of their dates, attempts in the order  *)
(* in which they start.                                                    *)
(***************************************************************************)
EXTENDS Naturals, FiniteSets

CONSTANTS
  Process,     \* processes running at a time
  None,        \* no process
  Stale,       \* a lock file whose process is dead
  Keep,        \* automated copies kept: 30
  MaxCopies,   \* model bound: copies made
  MaxRuns      \* model bound: attempts

ASSUME StoreAssumption ==
  /\ None \notin Process /\ Stale \notin Process /\ None # Stale
  /\ Keep \in Nat \ {0} /\ MaxCopies \in Nat /\ MaxRuns \in Nat

Copy == 1..MaxCopies
Run == 1..MaxRuns

VARIABLES
  lock,      \* who made .backup.lock
  archive,   \* archive[n]: the file of copy n
  meta,      \* copies whose metadata file is there
  secret,    \* secret[n]: the file with the password of copy n
  status,    \* backup-status.json
  tmp,       \* backup-status.json.tmp
  made,      \* copies named so far
  runs,      \* attempts so far
  pc,        \* pc[p]: the step process p is at
  job        \* job[p]: what it does

files == <<archive, meta, secret>>
vars == <<lock, archive, meta, secret, status, tmp, made, runs, pc, job>>

(* Status: copy is the archive it names, last is LastSuccessfulAt. *)
Status == [successful : BOOLEAN, copy : 0..MaxCopies, last : 0..MaxRuns]
NoStatus == [successful |-> FALSE, copy |-> 0, last |-> 0]

Op == {"managed", "create", "read"}
(* named and last are the fields Archive and LastSuccessfulAt of its status. *)
Job == [op : Op, run : 0..MaxRuns, copy : 0..MaxCopies, failed : BOOLEAN,
        doomed : SUBSET Copy, named : 0..MaxCopies, last : 0..MaxRuns]
NoJob == [op |-> "read", run |-> 0, copy |-> 0, failed |-> FALSE,
          doomed |-> {}, named |-> 0, last |-> 0]

PC == {"idle", "start", "locked", "described", "stored", "keyed", "pruning",
       "undescribing", "unkeying", "done", "audit", "undo", "report", "writing", "renaming"}

TypeOK ==
  /\ lock \in Process \cup {None, Stale}
  /\ archive \in [Copy -> {"absent", "whole", "damaged"}]
  /\ meta \subseteq Copy
  /\ secret \in [Copy -> {"absent", "torn", "whole"}]
  /\ status \in Status
  /\ tmp \in Status \cup {None}
  /\ made \in 0..MaxCopies
  /\ runs \in 0..MaxRuns
  /\ pc \in [Process -> PC]
  /\ job \in [Process -> Job]

Init ==
  /\ lock = None
  /\ archive = [n \in Copy |-> "absent"]
  /\ meta = {}
  /\ secret = [n \in Copy |-> "absent"]
  /\ status = NoStatus
  /\ tmp = None
  /\ made = 0
  /\ runs = 0
  /\ pc = [p \in Process |-> "idle"]
  /\ job = [p \in Process |-> NoJob]

At(p, step) == pc[p] = step
Goto(p, step) == pc' = [pc EXCEPT ![p] = step]

(* A process that meets an error skips to the release of the lock. *)
FailTo(p, step) ==
  /\ Goto(p, step)
  /\ job' = [job EXCEPT ![p].failed = TRUE]

End(p) ==
  /\ Goto(p, "idle")
  /\ job' = [job EXCEPT ![p] = NoJob]

-----------------------------------------------------------------------------
Begin(p) ==
  /\ At(p, "idle")
  /\ runs < MaxRuns
  /\ runs' = runs + 1
  /\ Goto(p, "start")
  /\ \E op \in Op : job' = [job EXCEPT ![p] = [NoJob EXCEPT !.op = op, !.run = runs + 1]]
  /\ UNCHANGED <<lock, files, status, tmp, made>>

(* lock: the file is created exclusively. *)
Lock(p) ==
  /\ At(p, "start") \/ At(p, "undo")
  /\ lock = None
  /\ lock' = p
  /\ Goto(p, IF At(p, "undo") THEN "pruning" ELSE "locked")
  /\ UNCHANGED <<files, status, tmp, made, runs, job>>

(* Managed reports every failure, that of the lock too. *)
LockFails(p) ==
  /\ At(p, "start") \/ At(p, "undo")
  /\ lock # None
  /\ IF job[p].op = "managed" THEN FailTo(p, "report") ELSE End(p)
  /\ UNCHANGED <<lock, files, status, tmp, made, runs>>

(* PrepareFile and RestorePrepared only read the copy. *)
ReadCopy(p) ==
  /\ At(p, "locked")
  /\ job[p].op = "read"
  /\ Goto(p, "done")
  /\ UNCHANGED <<lock, files, status, tmp, made, runs, job>>

(* Variant: the archive is renamed before its metadata. *)
StoreArchiveFirst(p) ==
  /\ At(p, "locked")
  /\ job[p].op # "read"
  /\ made < MaxCopies
  /\ made' = made + 1
  /\ archive' = [archive EXCEPT ![made + 1] = "whole"]
  /\ job' = [job EXCEPT ![p].copy = made + 1]
  /\ Goto(p, "described")
  /\ UNCHANGED <<lock, meta, secret, status, tmp, runs>>

(* writeVersioned: pg_dump fills a partial file, and the metadata is renamed
   into place first. *)
StoreMeta(p) ==
  /\ At(p, "locked")
  /\ job[p].op # "read"
  /\ made < MaxCopies
  /\ made' = made + 1
  /\ meta' = meta \cup {made + 1}
  /\ job' = [job EXCEPT ![p].copy = made + 1]
  /\ Goto(p, "described")
  /\ UNCHANGED <<lock, archive, secret, status, tmp, runs>>

(* pg_dump, the verification or the metadata fail; partial files are removed. *)
DumpFails(p) ==
  /\ At(p, "locked")
  /\ job[p].op # "read"
  /\ FailTo(p, "done")
  /\ UNCHANGED <<lock, files, status, tmp, made, runs>>

(* Variant: the archive is written where it is listed. *)
StoreInPlace(p) ==
  /\ At(p, "described")
  /\ archive' = [archive EXCEPT ![job[p].copy] = "partial"]
  /\ Goto(p, IF job[p].op = "managed" THEN "stored" ELSE "done")
  /\ UNCHANGED <<lock, meta, secret, status, tmp, made, runs, job>>

(* Then the archive. *)
StoreArchive(p) ==
  /\ At(p, "described")
  /\ archive' = [archive EXCEPT ![job[p].copy] = "whole"]
  /\ Goto(p, IF job[p].op = "managed" THEN "stored" ELSE "done")
  /\ UNCHANGED <<lock, meta, secret, status, tmp, made, runs, job>>

(* That rename fails, and the metadata is removed again. *)
StoreFails(p) ==
  /\ At(p, "described")
  /\ meta' = meta \ {job[p].copy}
  /\ FailTo(p, "done")
  /\ UNCHANGED <<lock, archive, secret, status, tmp, made, runs>>

(* Managed writes the password of a copy it has read back ... *)
OpenSecret(p) ==
  /\ At(p, "stored")
  /\ archive[job[p].copy] = "whole"
  /\ secret' = [secret EXCEPT ![job[p].copy] = "torn"]
  /\ Goto(p, "keyed")
  /\ UNCHANGED <<lock, archive, meta, status, tmp, made, runs, job>>

KeepSecret(p) ==
  /\ At(p, "keyed")
  /\ secret[job[p].copy] = "torn"
  /\ secret' = [secret EXCEPT ![job[p].copy] = "whole"]
  /\ job' = [job EXCEPT ![p].named = job[p].copy]
  /\ UNCHANGED <<lock, archive, meta, status, tmp, made, runs, pc>>

(* Variant: the error is ignored. *)
KeepIgnored(p) ==
  /\ \/ At(p, "stored")
     \/ At(p, "keyed") /\ secret[job[p].copy] = "torn"
  /\ Goto(p, "done")
  /\ UNCHANGED <<lock, files, status, tmp, made, runs, job>>

(* ... unless it cannot be read back, or the disk is full. *)
KeepFails(p) ==
  /\ \/ At(p, "stored")
     \/ At(p, "keyed") /\ secret[job[p].copy] = "torn"
  /\ FailTo(p, "done")
  /\ UNCHANGED <<lock, files, status, tmp, made, runs>>

-----------------------------------------------------------------------------
(* The copies List returns, and those of them that are automated. *)
Listed == {n \in Copy : archive[n] # "absent"}
Automated == {n \in Listed : secret[n] # "absent"}
Complete(n) == archive[n] = "whole" /\ n \in meta /\ secret[n] = "whole"

(* What is left of S without its Keep newest. *)
Excess(S) == {n \in S : Cardinality({m \in S : m > n}) >= Keep}

(* Variant: every listed copy counts and every one may go. *)
PruneListed(p) ==
  /\ At(p, "keyed")
  /\ secret[job[p].copy] = "whole"
  /\ job' = [job EXCEPT ![p].doomed = Excess(Listed)]
  /\ Goto(p, "pruning")
  /\ UNCHANGED <<lock, files, status, tmp, made, runs>>

(* prune reads every automated copy, and goes on if they are all complete. *)
Prune(p) ==
  /\ At(p, "keyed")
  /\ secret[job[p].copy] = "whole"
  /\ \A n \in Automated : Complete(n)
  /\ job' = [job EXCEPT ![p].doomed = Excess(Automated)]
  /\ Goto(p, "pruning")
  /\ UNCHANGED <<lock, files, status, tmp, made, runs>>

(* It stops at one that is not: the attempt has failed, although its copy is
   complete. *)
PruneFails(p) ==
  /\ At(p, "keyed")
  /\ secret[job[p].copy] = "whole"
  /\ FailTo(p, "done")
  /\ UNCHANGED <<lock, files, status, tmp, made, runs>>

(* remove takes the archive away first, then its metadata; prune goes on with
   the password. *)
RemoveArchive(p) ==
  /\ At(p, "pruning")
  /\ \E n \in job[p].doomed :
       /\ \A m \in job[p].doomed : m <= n
       /\ archive' = [archive EXCEPT ![n] = "absent"]
  /\ Goto(p, "undescribing")
  /\ UNCHANGED <<lock, meta, secret, status, tmp, made, runs, job>>

RemoveMeta(p) ==
  /\ At(p, "undescribing")
  /\ \E n \in job[p].doomed :
       /\ \A m \in job[p].doomed : m <= n
       /\ meta' = meta \ {n}
       /\ job' = [job EXCEPT ![p].doomed =
                    IF job[p].op = "managed" THEN @ ELSE @ \ {n}]
  /\ Goto(p, IF job[p].op = "managed" THEN "unkeying" ELSE "pruning")
  /\ UNCHANGED <<lock, archive, secret, status, tmp, made, runs>>

RemoveSecret(p) ==
  /\ At(p, "unkeying")
  /\ \E n \in job[p].doomed :
       /\ \A m \in job[p].doomed : m <= n
       /\ secret' = [secret EXCEPT ![n] = "absent"]
       /\ job' = [job EXCEPT ![p].doomed = @ \ {n}]
  /\ Goto(p, "pruning")
  /\ UNCHANGED <<lock, archive, meta, status, tmp, made, runs>>

(* A file cannot be removed: what is left stays. *)
RemoveFails(p) ==
  /\ pc[p] \in {"pruning", "undescribing", "unkeying"}
  /\ job[p].doomed # {}
  /\ FailTo(p, "done")
  /\ UNCHANGED <<lock, files, status, tmp, made, runs>>

Pruned(p) ==
  /\ At(p, "pruning")
  /\ job[p].doomed = {}
  /\ Goto(p, "done")
  /\ UNCHANGED <<lock, files, status, tmp, made, runs, job>>

-----------------------------------------------------------------------------
(* unlock runs before the status is written, whose defer came first. *)
Unlock(p) ==
  /\ At(p, "done")
  /\ lock' = None
  /\ \/ job[p].op = "managed" /\ Goto(p, "report") /\ UNCHANGED job
     \/ job[p].op = "create" /\ ~job[p].failed /\ Goto(p, "audit") /\ UNCHANGED job
     \/ job[p].op = "create" /\ job[p].failed /\ End(p)
     \/ job[p].op = "read" /\ End(p)
  /\ UNCHANGED <<files, status, tmp, made, runs>>

(* createBackup writes its audit row, and takes the copy back if it cannot. *)
Audited(p) ==
  /\ At(p, "audit")
  /\ End(p)
  /\ UNCHANGED <<lock, files, status, tmp, made, runs>>

AuditFails(p) ==
  /\ At(p, "audit")
  /\ Goto(p, "undo")
  /\ job' = [job EXCEPT ![p].failed = TRUE, ![p].doomed = {job[p].copy}]
  /\ UNCHANGED <<lock, files, status, tmp, made, runs>>

(* writeStatus: a failed attempt carries the last success over, ... *)
ReadStatus(p) ==
  /\ At(p, "report")
  /\ job' = [job EXCEPT ![p].last = IF job[p].failed THEN status.last ELSE job[p].run]
  /\ Goto(p, "writing")
  /\ UNCHANGED <<lock, files, status, tmp, made, runs>>

WriteStatus(p) ==
  /\ At(p, "writing")
  /\ tmp' = [successful |-> ~job[p].failed, copy |-> job[p].named, last |-> job[p].last]
  /\ Goto(p, "renaming")
  /\ UNCHANGED <<lock, files, status, made, runs, job>>

(* ... and the temporary file, whoever wrote it, becomes the status. *)
RenameStatus(p) ==
  /\ At(p, "renaming")
  /\ status' = IF tmp = None THEN status ELSE tmp
  /\ tmp' = None
  /\ End(p)
  /\ UNCHANGED <<lock, files, made, runs>>

(* The process dies; the lock file stays. *)
Crash(p) ==
  /\ ~At(p, "idle")
  /\ lock' = IF lock = p THEN Stale ELSE lock
  /\ End(p)
  /\ UNCHANGED <<files, status, tmp, made, runs>>

(* An operator removes the lock file when no operation is active. *)
ClearLock ==
  /\ lock = Stale
  /\ \A p \in Process : At(p, "idle")
  /\ lock' = None
  /\ UNCHANGED <<files, status, tmp, made, runs, pc, job>>

(* The disk damages an archive. *)
Damage(n) ==
  /\ archive[n] = "whole"
  /\ archive' = [archive EXCEPT ![n] = "damaged"]
  /\ UNCHANGED <<lock, meta, secret, status, tmp, made, runs, pc, job>>

Next ==
  \/ \E p \in Process :
       \/ Begin(p) \/ Lock(p) \/ LockFails(p) \/ ReadCopy(p)
       \/ StoreMeta(p) \/ DumpFails(p) \/ StoreArchive(p) \/ StoreFails(p)
       \/ OpenSecret(p) \/ KeepSecret(p) \/ KeepFails(p)
       \/ Prune(p) \/ PruneFails(p) \/ RemoveArchive(p) \/ RemoveMeta(p)
       \/ RemoveSecret(p) \/ RemoveFails(p) \/ Pruned(p)
       \/ Unlock(p) \/ Audited(p) \/ AuditFails(p)
       \/ ReadStatus(p) \/ WriteStatus(p) \/ RenameStatus(p) \/ Crash(p)
  \/ ClearLock
  \/ \E n \in Copy : Damage(n)

Spec == Init /\ [][Next]_vars

-----------------------------------------------------------------------------
(* A copy that List shows has its metadata, wherever a process died. *)
ListedIsDescribed == \A n \in Listed : n \in meta

(* The copy a successful status names can be restored, unless the disk damaged
   it or as many newer ones as are kept took its place. *)
StatusIsRestorable ==
  status.successful =>
    /\ status.copy \in Copy
    /\ \/ Complete(status.copy)
       \/ archive[status.copy] = "damaged"
       \/ Cardinality({n \in Copy : n > status.copy /\ secret[n] = "whole"}) >= Keep

(* An automated copy goes only if there are as many newer ones as are kept, and a
   manual one only at the hands of the process that made it. *)
KeepsNewest ==
  [][\A n \in Copy :
       archive[n] # "absent" /\ archive'[n] = "absent" =>
         \/ secret[n] # "absent" /\ Cardinality({m \in Automated : m > n}) >= Keep
         \/ \E p \in Process : job[p].op = "create" /\ job[p].copy = n /\ At(p, "pruning")]_vars

(* A failed attempt preserves the date of the last success, as
   managed_test.go:121 (TestFailedAttemptPreservesLastSuccessfulDate) says. *)
FailurePreservesLastSuccess ==
  [][~status'.successful => status'.last >= status.last]_vars
=============================================================================

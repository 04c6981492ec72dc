------------------------------ MODULE Restore ------------------------------
(***************************************************************************)
(* Restoring a database and the sessions of before: restoreReader of       *)
(* internal/backup/backup.go, run by the maintenance command (the          *)
(* application is stopped; a staging database is restored, migrated,       *)
(* checked and archived again first) or, in the test environment, by the   *)
(* API, which goes on serving.                                             *)
(*                                                                         *)
(* A database is its accounts, each with its tokenVersion, the next id of  *)
(* its sequence and whether its schema is the current one.  One session is *)
(* followed, any one: what holds for it holds for all.                     *)
(***************************************************************************)
EXTENDS Integers

CONSTANTS
  None,
  Online,       \* restored by the API, rather than by the command
  MaxVersion,   \* the largest integer: 2147483647
  MaxAccounts,  \* model bound: ids
  MaxRestores   \* model bound: restores

ASSUME RestoreAssumption ==
  /\ Online \in BOOLEAN
  /\ MaxVersion \in Nat /\ MaxVersion > 1
  /\ None \notin 0..MaxVersion
  /\ MaxAccounts \in Nat \ {0}
  /\ MaxRestores \in Nat
  /\ None \notin 0..MaxVersion

Account == 1..MaxAccounts
Root == 1

VARIABLES
  target,    \* the database of the application
  stage,     \* the staging database
  archive,   \* the backup to be restored
  prepared,  \* the archive made of the staging database
  session,   \* a session: whose, of which version, begun after which restore
  epoch,     \* restores of the target so far
  pc,        \* where the restore is
  highest    \* the highest tokenVersion it has read

vars == <<target, stage, archive, prepared, session, epoch, pc, highest>>

Database == [version : [Account -> 0..MaxVersion \cup {None}],
             next : 1..MaxAccounts + 1, current : BOOLEAN]
Session == [account : Account, version : 0..MaxVersion, epoch : 0..MaxRestores]

New == [version |-> [a \in Account |-> IF a = Root THEN 0 ELSE None],
        next |-> Root + 1, current |-> TRUE]

TypeOK ==
  /\ target \in Database /\ stage \in Database
  /\ archive \in Database /\ prepared \in Database
  /\ session \in Session \cup {None}
  /\ epoch \in 0..MaxRestores
  /\ pc \in {"idle", "reading stage", "restoring stage", "migrating", "archiving",
             "reading target", "restoring target"}
  /\ highest \in 0..MaxVersion

(* The archive may be of an earlier release. *)
Init ==
  /\ target = New /\ stage = New /\ prepared = New
  /\ archive \in {New, [New EXCEPT !.current = FALSE]}
  /\ session = None
  /\ epoch = 0
  /\ pc = "idle"
  /\ highest = 0

-----------------------------------------------------------------------------
(* The application runs beside a restore only if that is the API's. *)
Serving == Online \/ pc = "idle"

Exists(a) == target.version[a] # None

(* createUser: the id is the sequence's, the version the column's default. *)
CreateUser ==
  /\ Serving
  /\ target.next \in Account
  /\ target' = [target EXCEPT !.version[target.next] = 0, !.next = @ + 1]
  /\ UNCHANGED <<stage, archive, prepared, session, epoch, pc, highest>>

(* deleteUser spares the root. *)
DeleteUser(a) ==
  /\ Serving
  /\ Exists(a)
  /\ a # Root
  /\ target' = [target EXCEPT !.version[a] = None]
  /\ UNCHANGED <<stage, archive, prepared, session, epoch, pc, highest>>

LogIn(a) ==
  /\ Serving
  /\ Exists(a)
  /\ session = None
  /\ session' = [account |-> a, version |-> target.version[a], epoch |-> epoch]
  /\ UNCHANGED <<target, stage, archive, prepared, epoch, pc, highest>>

(* logout and everything else that adds one to the version. *)
EndSessions(a) ==
  /\ Serving
  /\ Exists(a)
  /\ target.version[a] < MaxVersion
  /\ target' = [target EXCEPT !.version[a] = @ + 1]
  /\ UNCHANGED <<stage, archive, prepared, session, epoch, pc, highest>>

(* A backup of the target, by whatever command. *)
TakeBackup ==
  /\ pc = "idle"
  /\ archive' = target
  /\ UNCHANGED <<target, stage, prepared, session, epoch, pc, highest>>

-----------------------------------------------------------------------------
(* ops restore begins with the staging database, the API with its own. *)
Begin ==
  /\ pc = "idle"
  /\ epoch < MaxRestores
  /\ pc' = IF Online THEN "reading target" ELSE "reading stage"
  /\ UNCHANGED <<target, stage, archive, prepared, session, epoch, highest>>

(* v is the highest version of a database; 0 if it has no account. *)
IsHighest(d, v) ==
  /\ \A a \in Account : d.version[a] # None => d.version[a] <= v
  /\ v = 0 \/ \E a \in Account : d.version[a] = v

(* Variant: the database that is replaced is not looked at. *)
ReadNothing(d) ==
  \E v \in 0..MaxVersion - 2 : IsHighest(d, v) /\ highest' = 0

(* restoreReader reads the accounts before it prepares the SQL, and refuses a
   database whose versions are exhausted. *)
ReadHighest(d) ==
  \E v \in 0..MaxVersion - 2 : IsHighest(d, v) /\ highest' = v

(* Variant: the last version is taken to be restorable. *)
RestorableToTheLast(copy) ==
  \A a \in Account : copy.version[a] # None => copy.version[a] <= MaxVersion

(* The transaction replaces the schema, refuses exhausted versions and raises
   all of them. *)
Restorable(copy) ==
  \A a \in Account : copy.version[a] # None => copy.version[a] < MaxVersion - 1
Replaced(copy) ==
  [copy EXCEPT !.version = [a \in Account |->
     IF @[a] = None THEN None ELSE (IF @[a] > highest THEN @[a] ELSE highest) + 1]]

ReadStage ==
  /\ pc = "reading stage"
  /\ ReadHighest(stage)
  /\ pc' = "restoring stage"
  /\ UNCHANGED <<target, stage, archive, prepared, session, epoch>>

RestoreStage ==
  /\ pc = "restoring stage"
  /\ Restorable(archive)
  /\ stage' = Replaced(archive)
  /\ pc' = "migrating"
  /\ UNCHANGED <<target, archive, prepared, session, epoch, highest>>

(* Variant: a restored database is taken as it is. *)
SkipMigration ==
  /\ pc = "migrating"
  /\ pc' = "archiving"
  /\ UNCHANGED <<target, stage, archive, prepared, session, epoch, highest>>

(* Preflight, Adopt, Migrate, the rebuilds and Check. *)
MigrateStage ==
  /\ pc = "migrating"
  /\ stage' = [stage EXCEPT !.current = TRUE]
  /\ pc' = "archiving"
  /\ UNCHANGED <<target, archive, prepared, session, epoch, highest>>

(* The checked database is archived again, and that archive is restored. *)
Rearchive ==
  /\ pc = "archiving"
  /\ prepared' = stage
  /\ pc' = "reading target"
  /\ UNCHANGED <<target, stage, archive, session, epoch, highest>>

ReadTarget ==
  /\ pc = "reading target"
  /\ ReadHighest(target)
  /\ pc' = "restoring target"
  /\ UNCHANGED <<target, stage, archive, prepared, session, epoch>>

Applied == IF Online THEN archive ELSE prepared

RestoreTarget ==
  /\ pc = "restoring target"
  /\ Restorable(Applied)
  /\ target' = Replaced(Applied)
  /\ epoch' = epoch + 1
  /\ pc' = "idle"
  /\ UNCHANGED <<stage, archive, prepared, session, highest>>

(* A step fails, or the process dies: its transaction is rolled back. *)
Abort ==
  /\ pc # "idle"
  /\ pc' = "idle"
  /\ UNCHANGED <<target, stage, archive, prepared, session, epoch, highest>>

Next ==
  \/ CreateUser
  \/ \E a \in Account : DeleteUser(a) \/ LogIn(a) \/ EndSessions(a)
  \/ TakeBackup
  \/ Begin \/ ReadStage \/ RestoreStage \/ MigrateStage \/ Rearchive
  \/ ReadTarget \/ RestoreTarget \/ Abort

Spec == Init /\ [][Next]_vars

-----------------------------------------------------------------------------
(* validateToken accepts the session. *)
Accepted == session # None /\ target.version[session.account] = session.version

(* A session the API accepts when the application is stopped is not accepted
   once the database is restored. *)
OpenSessionsEnd ==
  [][epoch' # epoch /\ Accepted => ~Accepted']_vars

(* The application never runs on a schema that was not migrated and checked, as
   operations.go:204 says of legacy snapshots. *)
TargetIsCurrent == ~Online => target.current

(* After a restore no earlier session is valid, as docs/API.md:23 says. *)
NoSessionSurvives ==
  Accepted => session.epoch = epoch
=============================================================================

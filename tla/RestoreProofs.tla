--------------------------- MODULE RestoreProofs ---------------------------
(***************************************************************************)
(* Proofs about the restore, for any accounts, versions and number of      *)
(* restores.  RestoreInv says what a restore has reached at each of its    *)
(* steps: while the application is stopped the versions it has read are    *)
(* still the target's, and what it is going to apply is migrated.          *)
(***************************************************************************)
EXTENDS Restore, TLAPS

(* What the steps so far have established. *)
Reached ==
  /\ pc # "idle" => epoch < MaxRestores
  /\ pc \in {"restoring stage", "restoring target"} => highest < MaxVersion - 1
  /\ ~Online =>
       /\ target.current
       /\ pc = "archiving" => stage.current
       /\ pc \in {"reading target", "restoring target"} => prepared.current
       /\ pc = "restoring target" =>
            \A a \in Account : target.version[a] # None => target.version[a] <= highest

RestoreInv == TypeOK /\ Reached

USE DEF Account

(* Raising a copy to be restored keeps it a database. *)
LEMMA ReplacedType ==
  ASSUME NEW copy \in Database, Restorable(copy), highest \in 0..MaxVersion,
         highest < MaxVersion - 1
  PROVE  /\ Replaced(copy) \in Database
         /\ Replaced(copy).current = copy.current
<1>1. ASSUME NEW a \in Account
      PROVE  (IF copy.version[a] = None THEN None
              ELSE (IF copy.version[a] > highest THEN copy.version[a] ELSE highest) + 1)
               \in 0..MaxVersion \cup {None}
  <2>1. CASE copy.version[a] = None
    BY <2>1
  <2>2. CASE copy.version[a] # None
    <3>1. copy.version[a] \in 0..MaxVersion /\ copy.version[a] < MaxVersion - 1
      BY <2>2 DEF Database, Restorable
    <3> QED BY <3>1, <2>2, RestoreAssumption
  <2> QED BY <2>1, <2>2
<1> QED BY <1>1 DEF Replaced, Database

(* Every account of a restored database is above the versions read. *)
LEMMA ReplacedAbove ==
  ASSUME NEW copy \in Database, highest \in 0..MaxVersion, NEW a \in Account,
         Replaced(copy).version[a] # None
  PROVE  Replaced(copy).version[a] > highest
<1>1. copy.version[a] # None /\ copy.version[a] \in 0..MaxVersion
  BY DEF Replaced, Database
<1>2. Replaced(copy).version[a] =
        (IF copy.version[a] > highest THEN copy.version[a] ELSE highest) + 1
  BY <1>1 DEF Replaced, Database
<1> QED BY <1>1, <1>2, RestoreAssumption

LEMMA NewType == New \in Database /\ [New EXCEPT !.current = FALSE] \in Database /\ New.current
<1>1. 0 \in 0..MaxVersion /\ Root \in Account /\ Root + 1 \in 1..MaxAccounts + 1
  BY RestoreAssumption DEF Root
<1> QED BY <1>1 DEF New, Database

LEMMA InitRestore == Init => RestoreInv
<1> SUFFICES ASSUME Init PROVE RestoreInv
  OBVIOUS
<1>1. 0 \in 0..MaxVersion /\ 0 \in 0..MaxRestores
  BY RestoreAssumption
<1>2. TypeOK
  BY <1>1, NewType DEF Init, TypeOK
<1>3. Reached
  BY NewType DEF Init, Reached
<1> QED BY <1>2, <1>3 DEF RestoreInv

-----------------------------------------------------------------------------
(* The application's steps.                                                *)

LEMMA CreateStep ==
  ASSUME RestoreInv, CreateUser
  PROVE  RestoreInv'
<1>1. target.next + 1 \in 1..MaxAccounts + 1 /\ 0 \in 0..MaxVersion
  BY RestoreAssumption DEF CreateUser
<1>2. target' \in Database /\ target'.current = target.current
  BY <1>1 DEF RestoreInv, TypeOK, CreateUser, Database
<1> QED BY <1>2 DEF RestoreInv, TypeOK, Reached, CreateUser, Serving

LEMMA DeleteStep ==
  ASSUME RestoreInv, NEW a \in Account, DeleteUser(a)
  PROVE  RestoreInv'
<1>1. target' \in Database /\ target'.current = target.current
  BY RestoreAssumption DEF RestoreInv, TypeOK, DeleteUser, Database
<1> QED BY <1>1 DEF RestoreInv, TypeOK, Reached, DeleteUser, Serving

LEMMA LogInStep ==
  ASSUME RestoreInv, NEW a \in Account, LogIn(a)
  PROVE  RestoreInv'
<1>1. target.version[a] \in 0..MaxVersion
  BY DEF RestoreInv, TypeOK, LogIn, Exists, Database
<1>2. session' \in Session
  BY <1>1 DEF LogIn, Session, RestoreInv, TypeOK
<1> QED BY <1>2 DEF RestoreInv, TypeOK, Reached, LogIn, Serving

LEMMA EndSessionsStep ==
  ASSUME RestoreInv, NEW a \in Account, EndSessions(a)
  PROVE  RestoreInv'
<1>1. target.version[a] \in 0..MaxVersion /\ target.version[a] < MaxVersion
  BY DEF RestoreInv, TypeOK, EndSessions, Exists, Database
<1>3. target.version[a] + 1 \in 0..MaxVersion
  BY <1>1, RestoreAssumption
<1>2. target' \in Database /\ target'.current = target.current
  BY <1>3 DEF RestoreInv, TypeOK, EndSessions, Database
<1> QED BY <1>2 DEF RestoreInv, TypeOK, Reached, EndSessions, Serving

-----------------------------------------------------------------------------
(* The steps of the restore.                                               *)

LEMMA ReadStageStep ==
  ASSUME RestoreInv, ReadStage
  PROVE  RestoreInv'
<1>1. PICK v \in 0..MaxVersion - 2 : highest' = v
  BY DEF ReadStage, ReadHighest
<1>2. highest' \in 0..MaxVersion /\ highest' < MaxVersion - 1
  BY <1>1, RestoreAssumption
<1> QED BY <1>2 DEF RestoreInv, TypeOK, Reached, ReadStage

LEMMA RestoreStageStep ==
  ASSUME RestoreInv, RestoreStage
  PROVE  RestoreInv'
<1>1. stage' \in Database
  BY ReplacedType DEF RestoreInv, TypeOK, Reached, RestoreStage
<1> QED BY <1>1 DEF RestoreInv, TypeOK, Reached, RestoreStage

LEMMA MigrateStep ==
  ASSUME RestoreInv, MigrateStage
  PROVE  RestoreInv'
<1>1. stage' \in Database /\ stage'.current
  BY DEF RestoreInv, TypeOK, MigrateStage, Database
<1> QED BY <1>1 DEF RestoreInv, TypeOK, Reached, MigrateStage

LEMMA ReadTargetStep ==
  ASSUME RestoreInv, ReadTarget
  PROVE  RestoreInv'
<1>1. PICK v \in 0..MaxVersion - 2 : IsHighest(target, v) /\ highest' = v
  BY DEF ReadTarget, ReadHighest
<1>2. highest' \in 0..MaxVersion /\ highest' < MaxVersion - 1
  BY <1>1, RestoreAssumption
<1>3. \A a \in Account : target.version[a] # None => target.version[a] <= highest'
  BY <1>1 DEF IsHighest
<1> QED BY <1>2, <1>3 DEF RestoreInv, TypeOK, Reached, ReadTarget

LEMMA RestoreTargetStep ==
  ASSUME RestoreInv, RestoreTarget
  PROVE  RestoreInv'
<1>1. Applied \in Database /\ (~Online => Applied.current)
  BY DEF RestoreInv, TypeOK, Reached, RestoreTarget, Applied
<1>2. target' \in Database /\ target'.current = Applied.current
  BY <1>1, ReplacedType DEF RestoreInv, TypeOK, Reached, RestoreTarget
<1>3. epoch' \in 0..MaxRestores
  <2>1. epoch \in 0..MaxRestores /\ epoch < MaxRestores /\ epoch' = epoch + 1
    BY DEF RestoreInv, TypeOK, Reached, RestoreTarget
  <2> QED BY <2>1, RestoreAssumption
<1> QED BY <1>1, <1>2, <1>3 DEF RestoreInv, TypeOK, Reached, RestoreTarget

-----------------------------------------------------------------------------
LEMMA NextRestore == RestoreInv /\ [Next]_vars => RestoreInv'
<1> SUFFICES ASSUME RestoreInv, [Next]_vars PROVE RestoreInv'
  OBVIOUS
<1>1. CASE UNCHANGED vars
  BY <1>1 DEF RestoreInv, TypeOK, Reached, vars
<1>2. CASE CreateUser
  BY <1>2, CreateStep
<1>3. ASSUME NEW a \in Account, DeleteUser(a) \/ LogIn(a) \/ EndSessions(a)
      PROVE  RestoreInv'
  BY <1>3, DeleteStep, LogInStep, EndSessionsStep
<1>4. CASE TakeBackup
  BY <1>4 DEF RestoreInv, TypeOK, Reached, TakeBackup
<1>5. CASE Begin
  BY <1>5, RestoreAssumption DEF RestoreInv, TypeOK, Reached, Begin
<1>6. CASE ReadStage \/ RestoreStage \/ MigrateStage
  BY <1>6, ReadStageStep, RestoreStageStep, MigrateStep
<1>7. CASE Rearchive
  BY <1>7 DEF RestoreInv, TypeOK, Reached, Rearchive
<1>8. CASE ReadTarget \/ RestoreTarget
  BY <1>8, ReadTargetStep, RestoreTargetStep
<1>9. CASE Abort
  BY <1>9 DEF RestoreInv, TypeOK, Reached, Abort
<1> QED BY <1>1, <1>2, <1>3, <1>4, <1>5, <1>6, <1>7, <1>8, <1>9 DEF Next

(* What is reached at each step of a restore. *)
THEOREM RestoreInvariant == Spec => []RestoreInv
BY InitRestore, NextRestore, PTL DEF Spec

(* TypeOK: in particular no step takes a version past the largest integer. *)
THEOREM RestoreTypeCorrect == Spec => []TypeOK
<1>1. RestoreInv => TypeOK
  BY DEF RestoreInv
<1> QED BY <1>1, RestoreInvariant, PTL

(* TargetIsCurrent: the maintenance command never leaves the application a *)
(* schema that was not migrated and checked, wherever it fails.            *)
THEOREM TargetStaysCurrent == Spec => []TargetIsCurrent
<1>1. RestoreInv => TargetIsCurrent
  BY DEF RestoreInv, Reached, TargetIsCurrent
<1> QED BY <1>1, RestoreInvariant, PTL

(* OpenSessionsEnd: a session that the API accepts at the moment the       *)
(* maintenance command replaces the database is not accepted right after   *)
(* it, whatever accounts and versions the archive has. Sessions that were  *)
(* not accepted at that moment any more are not spoken of.                 *)
THEOREM CommandEndsSessions ==
  ASSUME ~Online
  PROVE  Spec => OpenSessionsEnd
<1>1. RestoreInv /\ [Next]_vars => [epoch' # epoch /\ Accepted => ~Accepted']_vars
  <2> SUFFICES ASSUME RestoreInv, [Next]_vars, epoch' # epoch, Accepted, Accepted'
               PROVE  FALSE
    OBVIOUS
  <2>1. RestoreTarget
    BY DEF Next, vars, CreateUser, DeleteUser, LogIn, EndSessions, TakeBackup, Begin, ReadStage,
           RestoreStage, MigrateStage, Rearchive, ReadTarget, Abort
  <2> DEFINE a == session.account
  <2>2. a \in Account /\ session.version \in 0..MaxVersion
    BY DEF RestoreInv, TypeOK, Session, Accepted
  <2>3. target.version[a] = session.version /\ target'.version[a] = session.version
    BY <2>1 DEF Accepted, RestoreTarget
  <2>4. session.version # None
    BY <2>2, RestoreAssumption
  <2>5. session.version <= highest
    BY <2>1, <2>2, <2>3, <2>4 DEF RestoreInv, Reached, RestoreTarget
  <2>6. Applied \in Database /\ highest \in 0..MaxVersion
    BY DEF RestoreInv, TypeOK, Applied
  <2>7. target'.version[a] > highest
    BY <2>1, <2>2, <2>3, <2>4, <2>6, ReplacedAbove DEF RestoreTarget
  <2> QED BY <2>2, <2>3, <2>5, <2>6, <2>7, RestoreAssumption
<1> QED BY <1>1, RestoreInvariant, PTL DEF Spec, OpenSessionsEnd
=============================================================================

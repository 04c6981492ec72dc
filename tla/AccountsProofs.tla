--------------------------- MODULE AccountsProofs ---------------------------
(***************************************************************************)
(* Proofs about Accounts for any sets of requests, passwords and links and *)
(* any limits: its types, its safety invariants and its action properties. *)
(*                                                                         *)
(* The inductive invariant IInv adds what a handler may still assume of    *)
(* what it has read: a row read under the lock is the row (Locked), and a  *)
(* password proven or version read earlier is the row's as long as the     *)
(* version is (Proven).  Versions never decrease, so a session whose       *)
(* version is the row's was never ended in between.  With that every step  *)
(* is one of AccountLifecycle, or changes nothing that it sees.            *)
(***************************************************************************)
EXTENDS Accounts, TLAPS

Phase(r) ==
  /\ pc[r] = "idle" => req[r] = NoRequest
  /\ pc[r] # "idle" => req[r] \in Asked
  /\ pc[r] = "locked" => req[r].op \in {"login", "update", "delete"}
  /\ pc[r] = "admitted" => req[r].op \in {"refresh", "logout", "change"}
  /\ pc[r] = "proven" => req[r].op \in {"change", "rootreset"}
  /\ pc[r] \in {"found", "saved", "unsent"} => req[r].op = "forgot"
  /\ req[r].op \in {"refresh", "logout", "change"} => req[r].token \in issued
  /\ req[r].op = "delete" => ~ IsRoot

(* What was read under the lock of the row is still the row. *)
Locked(r) ==
  /\ pc[r] = "locked" <=> holder = r
  /\ pc[r] = "locked" => user # None
  /\ pc[r] = "locked" /\ req[r].op = "login"
       => seen[r] = user /\ user.lockout # "running"

(* A row with the version of a token, or of a row read before, has the password
   that went with it. *)
Succeeds(row, version, password) ==
  /\ version <= row.version
  /\ version = row.version => password = row.password

TokenInv == user # None => \A t \in issued : Succeeds(user, t.version, t.secret)

Proven(r) ==
  pc[r] = "proven" =>
    /\ seen[r] # None
    /\ user # None => Succeeds(user, seen[r].version, seen[r].password)
    /\ req[r].op = "change" => req[r].token.version <= seen[r].version

(* The link of a pending mail was drawn by its request, and has not been
   reported as mailed. *)
Pending(r) ==
  pc[r] \in {"saved", "unsent"} => fate[req[r].link] \notin {"fresh", "mailed"}
LinksApart ==
  \A r, s \in Request :
    /\ r # s
    /\ pc[r] \in {"saved", "unsent"}
    /\ pc[s] \in {"saved", "unsent"}
    => req[r].link # req[s].link

(* A lockout begins with the last attempt allowed. *)
LockoutReached ==
  user # None /\ user.lockout # "none" => user.attempts = MaxAttempts

(* The link of the account was drawn. *)
LinkDrawn == user # None /\ user.link # None => fate[user.link] # "fresh"

AccountInv ==
  /\ \A r \in Request : Phase(r) /\ Locked(r) /\ Proven(r) /\ Pending(r)
  /\ LinksApart
  /\ TokenInv
  /\ LockoutReached
  /\ LinkDrawn

IInv == TypeOK /\ AccountInv /\ LockoutCounts /\ LinkSingleUse

-----------------------------------------------------------------------------
(* Bumped raises the version, unless it is the largest, and nothing else. *)
LEMMA BumpedRow ==
  ASSUME NEW row \in Row
  PROVE  /\ Bumped(row) \in Row
         /\ Bumped(row) # None
         /\ Bumped(row).version >= row.version
         /\ row.version < MaxVersion => Bumped(row).version = row.version + 1
         /\ row.version >= MaxVersion => Bumped(row) = row
         /\ Bumped(row).password = row.password
         /\ Bumped(row).mustChange = row.mustChange
         /\ Bumped(row).attempts = row.attempts
         /\ Bumped(row).lockout = row.lockout
         /\ Bumped(row).link = row.link
BY AccountAssumption, NoneIsNoRow DEF Bumped, Row

LEMMA Zero == 0 \in 0..MaxAttempts
BY AccountAssumption

(* A new password comes with a new version, and clears the rest. *)
LEMMA NewPasswordRow ==
  ASSUME user \in Row, user.version < MaxVersion, NEW p \in Password, NEW b \in BOOLEAN
  PROVE  /\ WithPassword(p, b) \in Row
         /\ WithPassword(p, b) # None
         /\ WithPassword(p, b).version = user.version + 1
         /\ WithPassword(p, b).attempts = 0
         /\ WithPassword(p, b).lockout = "none"
         /\ WithPassword(p, b).link = None
<1>1. /\ Bumped(user) \in Row
      /\ Bumped(user).version = user.version + 1
  BY BumpedRow
<1>2. ASSUME NEW row \in Row
      PROVE  LET new == [row EXCEPT !.password = p, !.mustChange = b, !.attempts = 0,
                                    !.lockout = "none", !.link = None]
             IN  /\ new \in Row
                 /\ new.version = row.version
                 /\ new.attempts = 0
                 /\ new.lockout = "none"
                 /\ new.link = None
  BY Zero DEF Row
<1> QED
  BY <1>1, <1>2, NoneIsNoRow DEF WithPassword

LEMMA NewPasswordSet ==
  ASSUME user \in Row, user.version < MaxVersion, NEW p \in Password, NEW b \in BOOLEAN
  PROVE  WithPassword(p, b).password = p /\ WithPassword(p, b).mustChange = b
<1>1. Bumped(user) \in Row
  BY BumpedRow
<1>2. ASSUME NEW row \in Row
      PROVE  LET new == [row EXCEPT !.password = p, !.mustChange = b, !.attempts = 0,
                                    !.lockout = "none", !.link = None]
             IN  new.password = p /\ new.mustChange = b
  BY DEF Row
<1> QED
  BY <1>1, <1>2 DEF WithPassword

(* What a login leaves in the row: the counters, and nothing else. *)
LEMMA CountedRow ==
  ASSUME user \in Row, NEW n \in 0..MaxAttempts, NEW s \in {"none", "running", "over"}
  PROVE  LET row == [user EXCEPT !.attempts = n, !.lockout = s]
         IN  /\ row \in Row
             /\ row # None
             /\ row.version = user.version
             /\ row.password = user.password
             /\ row.mustChange = user.mustChange
             /\ row.attempts = n
             /\ row.lockout = s
             /\ row.link = user.link
BY AccountAssumption, NoneIsNoRow DEF Row

LEMMA CountRange ==
  ASSUME NEW row \in Row
  PROVE  CountsTo(row) \subseteq 1..MaxAttempts
BY AccountAssumption DEF CountsTo, Row

(* The parts of a request. *)
LEMMA AskedParts ==
  ASSUME NEW q \in Asked
  PROVE  /\ q # NoRequest
         /\ q.op \in {"login", "update", "delete", "refresh", "logout", "change",
                     "rootreset", "forgot"}
         /\ q.op \in {"refresh", "logout", "change"} => q.token \in Token
         /\ q.op \in {"login", "change"} => q.current \in Password
         /\ q.op \in {"change", "rootreset"} => q.new \in Password
         /\ q.op = "forgot" => q.link \in Link
BY DEF Asked, NoRequest

-----------------------------------------------------------------------------
(* Every step keeps the types. *)
LEMMA TypeStep ==
  ASSUME IInv, [Next]_vars
  PROVE  TypeOK'
<1> USE DEF TypeOK, IInv
<1>1. ASSUME NEW r \in Request, Finish(r)
      PROVE  /\ pc' \in [Request -> PC]
             /\ req' \in [Request -> Asked \cup {NoRequest}]
             /\ seen' \in [Request -> Row \cup {None}]
             /\ holder' \in Request \cup {None}
  BY <1>1 DEF Finish, PC
<1>2. ASSUME NEW r \in Request, NEW q \in Asked, NEW p \in PC, NEW row \in Row \cup {None},
             Begin(r, q, p, row), holder' \in Request \cup {None}
      PROVE  TypeOK'
  BY <1>2 DEF Begin
<1>3. CASE UNCHANGED vars
  BY <1>3 DEF vars
<1>4. ASSUME NEW r \in Request, LockUser(r)
      PROVE  TypeOK'
  BY <1>2, <1>4 DEF LockUser, PC
<1>5. ASSUME NEW r \in Request, LogIn(r)
      PROVE  TypeOK'
  <2>1. seen[r] \in Row /\ user \in Row
    BY <1>5 DEF LogIn, AccountInv, Locked, Phase
  <2>2. user' \in Row
    BY <1>5, <2>1, Zero DEF LogIn, Row
  <2>3. issued' \subseteq Token
    BY <1>5, <2>1 DEF LogIn, Row, Token
  <2> QED
    BY <1>1, <1>5, <2>2, <2>3, AccountAssumption DEF LogIn
<1>6. ASSUME NEW r \in Request, RejectPassword(r)
      PROVE  TypeOK'
  <2>1. seen[r] = user /\ user \in Row /\ user.lockout # "running"
    BY <1>6 DEF RejectPassword, AccountInv, Locked
  <2>2. user' \in Row
    <3>1. PICK n \in CountsTo(user) :
            user' = [user EXCEPT !.attempts = n,
                                 !.lockout = IF n >= MaxAttempts THEN "running" ELSE "none"]
      BY <1>6, <2>1 DEF RejectPassword
    <3>2. n \in 0..MaxAttempts
      BY <2>1, <3>1, CountRange
    <3> QED
      BY <2>1, <3>1, <3>2 DEF Row
  <2>3. guesses < MaxAttempts
    BY <2>1, NoneIsNoRow, AccountAssumption DEF LockoutCounts, Row
  <2> QED
    BY <1>1, <1>6, <2>2, <2>3, AccountAssumption DEF RejectPassword
<1>7. ASSUME NEW r \in Request, UpdateUser(r) \/ DeleteUser(r)
      PROVE  TypeOK'
  <2>1. user \in Row
    BY <1>7 DEF UpdateUser, DeleteUser, AccountInv, Locked
  <2> QED
    BY <1>1, <1>7, <2>1, BumpedRow DEF UpdateUser, DeleteUser
<1>8. ASSUME NEW r \in Request, ValidateToken(r) \/ FindUserByID(r) \/ FindUser(r)
      PROVE  TypeOK'
  BY <1>2, <1>8 DEF ValidateToken, FindUserByID, FindUser, PC
<1>9. ASSUME NEW r \in Request, Refresh(r) \/ LogOut(r)
      PROVE  TypeOK'
  <2>1. req[r].token \in Token
    BY <1>9, AskedParts DEF Refresh, LogOut, AccountInv, Phase
  <2>2. user # None => Bumped(user) \in Row
    BY BumpedRow
  <2> QED
    BY <1>1, <1>9, <2>1, <2>2 DEF Refresh, LogOut, Current
<1>10. ASSUME NEW r \in Request, ProvePassword(r)
       PROVE  TypeOK'
  BY <1>10 DEF ProvePassword, PC
<1>11. ASSUME NEW r \in Request, ChangePassword(r)
       PROVE  TypeOK'
  <2>1. req[r].new \in Password
    BY <1>11, AskedParts DEF ChangePassword, AccountInv, Phase
  <2>2. user' \in Row \cup {None}
    <3>1. CASE Replaces(r) /\ user.version < MaxVersion
      <4>1. user \in Row /\ (req[r].op = "rootreset") \in BOOLEAN
        BY <3>1 DEF Replaces
      <4> QED
        BY <1>11, <2>1, <3>1, <4>1, NewPasswordRow DEF ChangePassword
    <3> QED
      BY <1>11, <3>1 DEF ChangePassword
  <2> QED
    BY <1>1, <1>11, <2>2, AccountAssumption DEF ChangePassword
<1>12. ASSUME NEW r \in Request, SaveResetToken(r)
       PROVE  TypeOK'
  <2>1. req[r].link \in Link
    BY <1>12, AskedParts DEF SaveResetToken, AccountInv, Phase
  <2> QED
    BY <1>12, <2>1 DEF SaveResetToken, Row, PC, Fate
<1>13. ASSUME NEW r \in Request, MailSent(r) \/ MailFailed(r)
       PROVE  TypeOK'
  BY <1>1, <1>13 DEF MailSent, MailFailed, PC, Fate
<1>14. ASSUME NEW r \in Request, WithdrawLink(r)
       PROVE  TypeOK'
  <2>1. user' \in Row \cup {None}
    BY <1>14 DEF WithdrawLink, Row
  <2> QED
    BY <1>1, <1>14, <2>1 DEF WithdrawLink
<1>15. ASSUME NEW r \in Request, Abort(r)
       PROVE  TypeOK'
  BY <1>1, <1>15 DEF Abort
<1>16. CASE ConsumeResetToken
  <2>1. user' \in Row
    BY <1>16, NewPasswordRow DEF ConsumeResetToken
  <2> QED
    BY <1>16, <2>1, Zero DEF ConsumeResetToken, Fate
<1>17. CASE LockoutEnds
  BY <1>17, AccountAssumption DEF LockoutEnds, Row
<1>18. CASE LinkExpires
  BY <1>18 DEF LinkExpires, Fate
<1> QED
  BY <1>3, <1>4, <1>5, <1>6, <1>7, <1>8, <1>9, <1>10, <1>11, <1>12, <1>13, <1>14,
     <1>15, <1>16, <1>17, <1>18 DEF Next

-----------------------------------------------------------------------------
(* The steps of request r. *)
HandlerStep(r) ==
  \/ LockUser(r) \/ LogIn(r) \/ RejectPassword(r) \/ UpdateUser(r) \/ DeleteUser(r)
  \/ ValidateToken(r) \/ Refresh(r) \/ LogOut(r) \/ ProvePassword(r)
  \/ FindUserByID(r) \/ ChangePassword(r)
  \/ FindUser(r) \/ SaveResetToken(r) \/ MailSent(r) \/ MailFailed(r) \/ WithdrawLink(r)
  \/ Abort(r)

(* A step of one request leaves the others where they are, and the row alone if
   one of them holds it. *)
LEMMA OthersKept ==
  ASSUME IInv, NEW r \in Request, HandlerStep(r), NEW t \in Request, t # r
  PROVE  /\ pc'[t] = pc[t] /\ req'[t] = req[t] /\ seen'[t] = seen[t]
         /\ issued \subseteq issued'
         /\ holder = t <=> holder' = t
         /\ holder = t => user' = user
<1> USE DEF IInv, TypeOK
<1>1. None # t /\ (pc[r] = "locked" => holder = r)
  BY AccountAssumption DEF AccountInv, Locked
<1>2. CASE LockUser(r)
  BY <1>1, <1>2 DEF LockUser, Begin
<1>3. CASE LogIn(r) \/ RejectPassword(r) \/ UpdateUser(r) \/ DeleteUser(r)
  BY <1>1, <1>3 DEF LogIn, RejectPassword, UpdateUser, DeleteUser, Finish
<1>4. CASE ValidateToken(r) \/ FindUserByID(r) \/ FindUser(r)
  BY <1>1, <1>4 DEF ValidateToken, FindUserByID, FindUser, Begin
<1>5. CASE Refresh(r) \/ LogOut(r) \/ ChangePassword(r) \/ WithdrawLink(r)
  BY <1>1, <1>5 DEF Refresh, LogOut, ChangePassword, WithdrawLink, Finish
<1>6. CASE ProvePassword(r) \/ SaveResetToken(r) \/ MailFailed(r)
  BY <1>1, <1>6 DEF ProvePassword, SaveResetToken, MailFailed
<1>7. CASE MailSent(r) \/ Abort(r)
  BY <1>1, <1>7 DEF MailSent, Abort, Finish
<1> QED
  BY <1>2, <1>3, <1>4, <1>5, <1>6, <1>7 DEF HandlerStep

(* Where a step takes its own request. *)
LEMMA OwnPhase ==
  ASSUME IInv, TypeOK', NEW r \in Request, HandlerStep(r)
  PROVE  Phase(r)' /\ Locked(r)'
<1> USE DEF IInv, TypeOK
<1>0. /\ r # None
      /\ Phase(r) /\ Locked(r)
      /\ \A q \in Asked : q # NoRequest
  BY AccountAssumption, AskedParts DEF AccountInv
<1>1. ASSUME Finish(r)
      PROVE  Phase(r)' /\ Locked(r)'
  BY <1>0, <1>1 DEF Finish, Phase, Locked, NoRequest
<1>2. CASE LockUser(r)
  <2>1. PICK q \in Asked : /\ q.op \in {"login", "update", "delete"}
                          /\ ~ Refused(q)
                          /\ Begin(r, q, "locked", user)
    BY <1>2 DEF LockUser
  <2> QED
    BY <1>0, <1>2, <2>1 DEF LockUser, Begin, Phase, Locked, Refused
<1>3. CASE ValidateToken(r)
  BY <1>0, <1>3 DEF ValidateToken, Begin, Phase, Locked
<1>4. CASE FindUserByID(r) \/ FindUser(r)
  BY <1>0, <1>4 DEF FindUserByID, FindUser, Begin, Phase, Locked
<1>5. CASE ProvePassword(r) \/ SaveResetToken(r) \/ MailFailed(r)
  BY <1>0, <1>5 DEF ProvePassword, SaveResetToken, MailFailed, Phase, Locked
<1>6. CASE LogIn(r) \/ RejectPassword(r) \/ UpdateUser(r) \/ DeleteUser(r)
  BY <1>1, <1>6 DEF LogIn, RejectPassword, UpdateUser, DeleteUser
<1>7. CASE Refresh(r) \/ LogOut(r) \/ ChangePassword(r) \/ WithdrawLink(r) \/ MailSent(r) \/ Abort(r)
  BY <1>1, <1>7 DEF Refresh, LogOut, ChangePassword, WithdrawLink, MailSent, Abort
<1> QED
  BY <1>2, <1>3, <1>4, <1>5, <1>6, <1>7 DEF HandlerStep

(* Steps nobody's handler takes leave every handler where it is. *)
LEMMA QuietSteps ==
  ASSUME ConsumeResetToken \/ LockoutEnds \/ LinkExpires \/ UNCHANGED vars
  PROVE  UNCHANGED <<holder, pc, req, seen, issued>>
BY DEF ConsumeResetToken, LockoutEnds, LinkExpires, vars

LEMMA PhaseStep ==
  ASSUME IInv, [Next]_vars, TypeOK', NEW t \in Request
  PROVE  Phase(t)' /\ Locked(t)'
<1>1. CASE \E r \in Request : HandlerStep(r)
  <2>1. PICK r \in Request : HandlerStep(r)
    BY <1>1
  <2>2. CASE t = r
    BY <2>1, <2>2, OwnPhase
  <2>3. CASE t # r
    BY <2>1, <2>3, OthersKept DEF Phase, Locked, IInv, AccountInv
  <2> QED
    BY <2>2, <2>3
<1>2. CASE ConsumeResetToken \/ LockoutEnds \/ LinkExpires \/ UNCHANGED vars
  <2>1. /\ holder' = holder /\ pc' = pc /\ req' = req
        /\ seen' = seen /\ issued' = issued
    BY <1>2, QuietSteps
  <2>2. Phase(t)'
    BY <2>1 DEF Phase, IInv, AccountInv
  <2>0. Locked(t)
    BY DEF IInv, AccountInv
  <2>3. CASE ConsumeResetToken
    BY <2>0, <2>1, <2>2, <2>3, AccountAssumption DEF ConsumeResetToken, Locked
  <2>4. CASE LockoutEnds
    <3>1. user' # None
      BY <2>4, NoneIsNoRow DEF LockoutEnds, IInv, TypeOK, Row
    <3> QED
      BY <2>0, <2>1, <2>2, <2>4, <3>1 DEF LockoutEnds, Locked
  <2>5. CASE LinkExpires \/ UNCHANGED vars
    BY <2>0, <2>1, <2>2, <2>5 DEF LinkExpires, vars, Locked
  <2> QED
    BY <1>2, <2>2, <2>3, <2>4, <2>5
<1> QED
  BY <1>1, <1>2 DEF Next, HandlerStep

-----------------------------------------------------------------------------
(* How a step may change the row: it deletes it, or keeps its version and its
   password, or gives it the next version. *)
LEMMA RowSteps ==
  ASSUME IInv, [Next]_vars, user # None, user' # None
  PROVE  \/ user'.version = user.version /\ user'.password = user.password
         \/ user'.version = user.version + 1
<1> USE DEF IInv, TypeOK
<1>0. user \in Row /\ MaxVersion \in Nat
  BY AccountAssumption
<1>1. CASE user' = user
  BY <1>1
<1>2. ASSUME NEW r \in Request, LogIn(r) \/ RejectPassword(r) \/ SaveResetToken(r) \/ WithdrawLink(r)
      PROVE  user'.version = user.version /\ user'.password = user.password
  BY <1>0, <1>2 DEF LogIn, RejectPassword, SaveResetToken, WithdrawLink, Row
<1>3. ASSUME NEW r \in Request, UpdateUser(r) \/ DeleteUser(r) \/ LogOut(r)
      PROVE  \/ user'.version = user.version /\ user'.password = user.password
             \/ user'.version = user.version + 1
  BY <1>0, <1>3, BumpedRow DEF UpdateUser, DeleteUser, LogOut, Row
<1>4. ASSUME NEW r \in Request, ChangePassword(r), user' # user
      PROVE  user'.version = user.version + 1
  <2>1. req[r].new \in Password /\ (req[r].op = "rootreset") \in BOOLEAN
    BY <1>4, AskedParts DEF ChangePassword, AccountInv, Phase
  <2> QED
    BY <1>0, <1>4, <2>1, NewPasswordRow DEF ChangePassword
<1>5. CASE ConsumeResetToken
  BY <1>0, <1>5, NewPasswordRow DEF ConsumeResetToken
<1>6. CASE LockoutEnds
  BY <1>0, <1>6 DEF LockoutEnds, Row
<1>7. \/ user' = user
      \/ \E r \in Request : \/ LogIn(r) \/ RejectPassword(r) \/ SaveResetToken(r)
                            \/ WithdrawLink(r) \/ UpdateUser(r) \/ DeleteUser(r)
                            \/ LogOut(r) \/ ChangePassword(r)
      \/ ConsumeResetToken
      \/ LockoutEnds
  BY DEF Next, vars, LockUser, Begin, ValidateToken, Refresh, ProvePassword, FindUserByID,
         FindUser, MailSent, MailFailed, Abort, LinkExpires
<1> QED
  BY <1>1, <1>2, <1>3, <1>4, <1>5, <1>6, <1>7

(* Once deleted, the row does not come back. *)
LEMMA DeletedStays ==
  ASSUME IInv, [Next]_vars, user = None
  PROVE  user' = None
BY AccountAssumption
   DEF IInv, TypeOK, AccountInv, Locked, Next, vars, LockUser, LogIn, RejectPassword,
       UpdateUser, DeleteUser, ValidateToken, Refresh, LogOut, ProvePassword, FindUserByID,
       ChangePassword, Replaces, FindUser, SaveResetToken, MailSent, MailFailed, WithdrawLink,
       Abort, ConsumeResetToken, LockoutEnds, LinkExpires, Begin, Current

(* What holds of an earlier row with regard to the row now holds of it with
   regard to the row after any step. *)
LEMMA StillSucceeds ==
  ASSUME IInv, [Next]_vars, user # None, user' # None, TypeOK',
         NEW version \in Nat, NEW password, Succeeds(user, version, password)
  PROVE  Succeeds(user', version, password)
<1>1. user.version \in Nat /\ user'.version \in Nat
  BY AccountAssumption DEF IInv, TypeOK, Row
<1> QED
  BY <1>1, RowSteps DEF Succeeds

(* New tokens carry the version and the password of the row, or are copies. *)
LEMMA TokenStep ==
  ASSUME IInv, [Next]_vars, TypeOK'
  PROVE  TokenInv'
<1> SUFFICES ASSUME user' # None, NEW t \in issued'
             PROVE  Succeeds(user', t.version, t.secret)
  BY DEF TokenInv
<1>1. user # None /\ t.version \in Nat
  BY DeletedStays, AccountAssumption DEF TypeOK, Token
<1>2. CASE t \in issued
  BY <1>1, <1>2, StillSucceeds DEF IInv, AccountInv, TokenInv
<1>3. CASE t \notin issued
  <2>1. PICK r \in Request : LogIn(r) \/ Refresh(r)
    BY <1>3 DEF Next, vars, LockUser, Begin, ValidateToken, RejectPassword, UpdateUser,
       DeleteUser, LogOut, ProvePassword, FindUserByID, ChangePassword, FindUser,
       SaveResetToken, MailSent, MailFailed, WithdrawLink, Abort, ConsumeResetToken,
       LockoutEnds, LinkExpires
  <2>2. CASE Refresh(r)
    BY <1>3, <2>2 DEF Refresh, IInv, AccountInv, Phase
  <2>3. CASE LogIn(r)
    <3>1. seen[r] = user
      BY <2>3 DEF LogIn, IInv, AccountInv, Locked
    <3>2. t = [version |-> user.version, secret |-> user.password]
      BY <1>3, <2>3, <3>1 DEF LogIn
    <3>3. user'.version = user.version /\ user'.password = user.password
      BY <1>1, <2>3 DEF LogIn, IInv, TypeOK, Row
    <3>4. user.version \in Nat
      BY <1>1, AccountAssumption DEF IInv, TypeOK, Row
    <3> QED
      BY <3>2, <3>3, <3>4 DEF Succeeds
  <2> QED
    BY <2>1, <2>2, <2>3
<1> QED
  BY <1>2, <1>3

(* What a handler has read stays good for the WHERE of its statement. *)
LEMMA ProvenStep ==
  ASSUME IInv, [Next]_vars, TypeOK', NEW t \in Request
  PROVE  Proven(t)'
<1> USE DEF IInv, TypeOK
<1> SUFFICES ASSUME pc'[t] = "proven"
             PROVE  /\ seen'[t] # None
                    /\ user' # None => Succeeds(user', seen'[t].version, seen'[t].password)
                    /\ req'[t].op = "change" => req'[t].token.version <= seen'[t].version
  BY DEF Proven
<1>1. CASE pc[t] = "proven" /\ seen'[t] = seen[t] /\ req'[t] = req[t]
  <2>1. /\ seen[t] \in Row
        /\ user # None => Succeeds(user, seen[t].version, seen[t].password)
        /\ req[t].op = "change" => req[t].token.version <= seen[t].version
    BY <1>1 DEF AccountInv, Proven
  <2>2. seen[t].version \in Nat
    BY <2>1, AccountAssumption DEF Row
  <2> QED
    <3>1. user' # None => user # None
      BY DeletedStays
    <3>2. user' # None => Succeeds(user', seen[t].version, seen[t].password)
      BY <2>1, <2>2, <3>1, StillSucceeds
    <3> QED
      BY <1>1, <2>1, <3>2, NoneIsNoRow
<1>2. CASE ProvePassword(t)
  <2>1. /\ user \in Row /\ user' = user /\ seen'[t] = user /\ req'[t] = req[t]
        /\ req[t].op = "change"
    BY <1>2 DEF ProvePassword
  <2>2. req[t].token \in issued
    BY <2>1 DEF AccountInv, Phase
  <2>3. req[t].token.version <= user.version
    BY <2>1, <2>2, NoneIsNoRow DEF AccountInv, TokenInv, Succeeds
  <2> QED
    BY <2>1, <2>3, NoneIsNoRow, AccountAssumption DEF Succeeds, Row
<1>3. CASE FindUserByID(t)
  <2>1. /\ user \in Row /\ user' = user /\ seen'[t] = user
        /\ req'[t].op = "rootreset"
    BY <1>3 DEF FindUserByID, Begin
  <2> QED
    BY <2>1, NoneIsNoRow, AccountAssumption DEF Succeeds, Row
<1>4. CASE \E r \in Request : HandlerStep(r)
  <2>1. PICK r \in Request : HandlerStep(r)
    BY <1>4
  <2>2. CASE t # r
    BY <1>1, <2>1, <2>2, OthersKept
  <2>3. CASE t = r
    BY <1>2, <1>3, <2>1, <2>3
       DEF HandlerStep, LockUser, LogIn, RejectPassword, UpdateUser, DeleteUser,
           ValidateToken, Refresh, LogOut, ChangePassword, FindUser, SaveResetToken,
           MailSent, MailFailed, WithdrawLink, Abort, Begin, Finish
  <2> QED
    BY <2>2, <2>3
<1>5. CASE ConsumeResetToken \/ LockoutEnds \/ LinkExpires \/ UNCHANGED vars
  BY <1>1, <1>5, QuietSteps
<1> QED
  BY <1>4, <1>5 DEF Next, HandlerStep

(* Requests draw different links, and a link counts as mailed only once its
   request is over. *)
LEMMA PendingStep ==
  ASSUME IInv, [Next]_vars, TypeOK'
  PROVE  (\A r \in Request : Pending(r))' /\ LinksApart'
<1> USE DEF IInv, TypeOK
<1>0. /\ \A r \in Request : Pending(r)
      /\ LinksApart
      /\ \A r \in Request : pc[r] \in {"found", "saved", "unsent"} => req[r].link \in Link
  BY AskedParts DEF AccountInv, Phase
<1>1. CASE \E r \in Request : SaveResetToken(r)
  BY <1>0, <1>1 DEF SaveResetToken, Pending, LinksApart
<1>2. CASE \E r \in Request : MailSent(r)
  BY <1>0, <1>2 DEF MailSent, Finish, Pending, LinksApart
<1>3. CASE \E r \in Request : MailFailed(r)
  BY <1>0, <1>3 DEF MailFailed, Pending, LinksApart
<1>4. CASE ConsumeResetToken
  BY <1>0, <1>4 DEF ConsumeResetToken, Pending, LinksApart
<1>5. CASE LinkExpires
  BY <1>0, <1>5 DEF LinkExpires, Pending, LinksApart
<1>6. CASE /\ fate' = fate
           /\ \A r \in Request : pc'[r] \in {"saved", "unsent"}
                                  => pc[r] = pc'[r] /\ req[r] = req'[r]
  BY <1>0, <1>6 DEF Pending, LinksApart
<1>7. ASSUME NEW r \in Request,
             LockUser(r) \/ ValidateToken(r) \/ FindUserByID(r) \/ FindUser(r)
      PROVE  /\ fate' = fate
             /\ \A t \in Request : pc'[t] \in {"saved", "unsent"}
                                    => pc[t] = pc'[t] /\ req[t] = req'[t]
  BY <1>7 DEF LockUser, ValidateToken, FindUserByID, FindUser, Begin
<1>8. ASSUME NEW r \in Request,
             \/ LogIn(r) \/ RejectPassword(r) \/ UpdateUser(r) \/ DeleteUser(r) \/ Refresh(r)
             \/ LogOut(r) \/ ProvePassword(r) \/ ChangePassword(r) \/ WithdrawLink(r) \/ Abort(r)
      PROVE  /\ fate' = fate
             /\ \A t \in Request : pc'[t] \in {"saved", "unsent"}
                                    => pc[t] = pc'[t] /\ req[t] = req'[t]
  BY <1>8 DEF LogIn, RejectPassword, UpdateUser, DeleteUser, Refresh, LogOut, ProvePassword,
              ChangePassword, WithdrawLink, Abort, Finish
<1>9. CASE LockoutEnds \/ UNCHANGED vars
  BY <1>6, <1>9 DEF LockoutEnds, vars
<1> QED
  BY <1>1, <1>2, <1>3, <1>4, <1>5, <1>6, <1>7, <1>8, <1>9 DEF Next

(* The count of failures follows the wrong passwords tried. *)
LEMMA LockoutStep ==
  ASSUME IInv, [Next]_vars, TypeOK'
  PROVE  LockoutCounts' /\ LockoutReached'
<1> USE DEF IInv, TypeOK
<1> SUFFICES ASSUME user' # None
             PROVE  /\ user'.lockout = "none"
                         => guesses' = user'.attempts /\ guesses' < MaxAttempts
                    /\ user'.lockout = "over" => guesses' = 0
                    /\ user'.lockout # "none" => user'.attempts = MaxAttempts
  BY DEF LockoutCounts, LockoutReached
<1>0. user \in Row /\ user # None
  BY DeletedStays
<1>1. CASE user' = user /\ guesses' = guesses
  BY <1>0, <1>1 DEF LockoutCounts, LockoutReached, AccountInv
<1>2. ASSUME NEW r \in Request, LogIn(r)
      PROVE  user'.lockout = "none" /\ user'.attempts = 0 /\ guesses' = 0
  BY <1>0, <1>2 DEF LogIn, Row
<1>3. ASSUME NEW r \in Request, RejectPassword(r)
      PROVE  /\ user'.lockout = "none"
                  => guesses' = user'.attempts /\ guesses' < MaxAttempts
             /\ user'.lockout # "none"
                  => user'.lockout = "running" /\ user'.attempts = MaxAttempts
  <2>1. seen[r] = user /\ user.lockout # "running" /\ guesses' = guesses + 1
    BY <1>3 DEF RejectPassword, AccountInv, Locked
  <2>2. PICK n \in CountsTo(user) :
          user' = [user EXCEPT !.attempts = n,
                               !.lockout = IF n >= MaxAttempts THEN "running" ELSE "none"]
    BY <1>3, <2>1 DEF RejectPassword
  <2>3. /\ user'.attempts = n
        /\ user'.lockout = IF n >= MaxAttempts THEN "running" ELSE "none"
        /\ n \in 1..MaxAttempts /\ MaxAttempts \in Nat
    BY <1>0, <2>2, CountRange, AccountAssumption DEF Row
  <2>4. CASE user.lockout = "none"
    <3>1. guesses = user.attempts /\ guesses < MaxAttempts
      BY <1>0, <2>4 DEF LockoutCounts
    <3>2. n = guesses + 1
      BY <2>2, <2>4, <3>1 DEF CountsTo
    <3> QED
      BY <2>1, <2>3, <3>1, <3>2, AccountAssumption
  <2>5. CASE user.lockout = "over"
    <3>1. guesses = 0 /\ guesses' = 1 /\ user.attempts = MaxAttempts
      BY <1>0, <2>1, <2>5 DEF LockoutCounts, LockoutReached, AccountInv
    <3>2. n \in {1, MaxAttempts}
      BY <2>2, <3>1, AccountAssumption DEF CountsTo
    <3> QED
      BY <2>3, <3>1, <3>2
  <2> QED
    BY <1>0, <2>1, <2>4, <2>5 DEF Row
<1>4. ASSUME NEW r \in Request, UpdateUser(r) \/ LogOut(r)
      PROVE  user'.lockout = user.lockout /\ user'.attempts = user.attempts /\ guesses' = guesses
  BY <1>0, <1>4, BumpedRow DEF UpdateUser, LogOut
<1>5. ASSUME NEW r \in Request, ChangePassword(r), ~ (user' = user /\ guesses' = guesses)
      PROVE  user'.lockout = "none" /\ user'.attempts = 0 /\ guesses' = 0
  <2>1. req[r].new \in Password /\ (req[r].op = "rootreset") \in BOOLEAN
    BY <1>5, AskedParts DEF ChangePassword, AccountInv, Phase
  <2> QED
    BY <1>0, <1>5, <2>1, NewPasswordRow DEF ChangePassword
<1>6. CASE ConsumeResetToken
  <2>1. user'.lockout = "none" /\ user'.attempts = 0 /\ guesses' = 0
    BY <1>0, <1>6, NewPasswordRow DEF ConsumeResetToken
  <2> QED
    BY <2>1, AccountAssumption
<1>7. CASE LockoutEnds
  BY <1>0, <1>7 DEF LockoutEnds, Row, LockoutReached, AccountInv
<1>8. ASSUME NEW r \in Request, SaveResetToken(r) \/ WithdrawLink(r)
      PROVE  user'.lockout = user.lockout /\ user'.attempts = user.attempts /\ guesses' = guesses
  BY <1>0, <1>8 DEF SaveResetToken, WithdrawLink, Row
<1>9. ASSUME NEW r \in Request, DeleteUser(r)
      PROVE  FALSE
  BY <1>9 DEF DeleteUser
<1>10. \/ user' = user /\ guesses' = guesses
       \/ \E r \in Request : \/ LogIn(r) \/ RejectPassword(r) \/ SaveResetToken(r)
                             \/ WithdrawLink(r) \/ UpdateUser(r) \/ DeleteUser(r)
                             \/ LogOut(r) \/ ChangePassword(r)
       \/ ConsumeResetToken
       \/ LockoutEnds
  BY DEF Next, vars, LockUser, Begin, ValidateToken, Refresh, ProvePassword, FindUserByID,
         FindUser, MailSent, MailFailed, Abort, LinkExpires
<1> QED
  BY <1>0, <1>1, <1>2, <1>3, <1>4, <1>5, <1>6, <1>7, <1>8, <1>9, <1>10, AccountAssumption
     DEF LockoutCounts, LockoutReached, AccountInv

(* A used link is out of the row, and only a fresh one comes in. *)
LEMMA LinkStep ==
  ASSUME IInv, [Next]_vars, TypeOK'
  PROVE  LinkSingleUse' /\ LinkDrawn'
<1> USE DEF IInv, TypeOK
<1> SUFFICES ASSUME user' # None, user'.link # None
             PROVE  fate'[user'.link] \notin {"used", "fresh"}
  BY DEF LinkSingleUse, LinkDrawn
<1>0. /\ user \in Row /\ user' \in Row /\ user # None
      /\ user.link # None => fate[user.link] \notin {"used", "fresh"}
  BY DeletedStays DEF LinkSingleUse, LinkDrawn, AccountInv
<1>1. CASE user'.link = user.link /\ fate' = fate
  BY <1>0, <1>1
<1>2. ASSUME NEW r \in Request,
             \/ LogIn(r) \/ RejectPassword(r) \/ UpdateUser(r) \/ DeleteUser(r) \/ LogOut(r)
      PROVE  user'.link = user.link /\ fate' = fate
  <2>1. Bumped(user).link = user.link
    BY <1>0, BumpedRow
  <2> QED
    BY <1>0, <1>2, <2>1 DEF LogIn, RejectPassword, UpdateUser, DeleteUser, LogOut, Row
<1>3. ASSUME NEW r \in Request, ChangePassword(r)
      PROVE  user'.link = user.link /\ fate' = fate
  <2>1. req[r].new \in Password /\ (req[r].op = "rootreset") \in BOOLEAN
    BY <1>3, AskedParts DEF ChangePassword, AccountInv, Phase
  <2>2. CASE user' = user
    BY <1>3, <2>2 DEF ChangePassword
  <2>3. CASE user' # user
    <3>1. user.version < MaxVersion /\ user' = WithPassword(req[r].new, req[r].op = "rootreset")
      BY <1>3, <2>3 DEF ChangePassword
    <3>2. user'.link = None
      BY <1>0, <2>1, <3>1, NewPasswordRow
    <3> QED
      BY <3>2
  <2> QED
    BY <2>2, <2>3
<1>4. ASSUME NEW r \in Request, SaveResetToken(r)
      PROVE  fate'[user'.link] \notin {"used", "fresh"}
  BY <1>0, <1>4 DEF SaveResetToken, Row
<1>5. ASSUME NEW r \in Request, MailSent(r)
      PROVE  fate'[user'.link] \notin {"used", "fresh"}
  BY <1>0, <1>5 DEF MailSent, Row
<1>6. ASSUME NEW r \in Request, WithdrawLink(r)
      PROVE  user'.link = user.link /\ fate' = fate
  BY <1>0, <1>6 DEF WithdrawLink, Row
<1>7. CASE ConsumeResetToken
  BY <1>0, <1>7, NewPasswordRow DEF ConsumeResetToken
<1>8. CASE LockoutEnds
  BY <1>0, <1>1, <1>8 DEF LockoutEnds, Row
<1>9. CASE LinkExpires
  BY <1>0, <1>9 DEF LinkExpires, Row
<1>10. \/ user' = user /\ fate' = fate
       \/ \E r \in Request : \/ LogIn(r) \/ RejectPassword(r) \/ SaveResetToken(r)
                             \/ WithdrawLink(r) \/ UpdateUser(r) \/ DeleteUser(r)
                             \/ LogOut(r) \/ ChangePassword(r) \/ MailSent(r)
       \/ ConsumeResetToken
       \/ LockoutEnds
       \/ LinkExpires
  BY DEF Next, vars, LockUser, Begin, ValidateToken, Refresh, ProvePassword, FindUserByID,
         FindUser, MailFailed, Abort
<1> QED
  BY <1>1, <1>2, <1>3, <1>4, <1>5, <1>6, <1>7, <1>8, <1>9, <1>10

-----------------------------------------------------------------------------
LEMMA InitInv == Init => IInv
<1> SUFFICES ASSUME Init
             PROVE  IInv
  OBVIOUS
<1>1. PICK p \in Password :
        user = [password |-> p, version |-> 0, mustChange |-> TRUE,
                attempts |-> 0, lockout |-> "none", link |-> None]
  BY DEF Init
<1>2. user \in Row
  BY <1>1, Zero, AccountAssumption DEF Row
<1>3. TypeOK
  BY <1>2, Zero DEF Init, TypeOK, PC, Fate, Token
<1>4. LockoutCounts /\ LinkSingleUse /\ LockoutReached /\ LinkDrawn
  BY <1>1, AccountAssumption DEF Init, LockoutCounts, LinkSingleUse, LockoutReached, LinkDrawn
<1>5. \A r \in Request : Phase(r) /\ Locked(r) /\ Proven(r) /\ Pending(r)
  BY AccountAssumption DEF Init, Phase, Locked, Proven, Pending, NoRequest
<1>6. LinksApart /\ TokenInv
  BY DEF Init, LinksApart, TokenInv
<1> QED
  BY <1>3, <1>4, <1>5, <1>6 DEF IInv, AccountInv

LEMMA StepInv == IInv /\ [Next]_vars => IInv'
<1> SUFFICES ASSUME IInv, [Next]_vars
             PROVE  IInv'
  OBVIOUS
<1>1. TypeOK'
  BY TypeStep
<1>2. (\A r \in Request : Phase(r) /\ Locked(r) /\ Proven(r))'
  BY <1>1, PhaseStep, ProvenStep
<1>3. (\A r \in Request : Pending(r))' /\ LinksApart'
  BY <1>1, PendingStep
<1>4. TokenInv' /\ LockoutCounts' /\ LockoutReached' /\ LinkSingleUse' /\ LinkDrawn'
  BY <1>1, TokenStep, LockoutStep, LinkStep
<1> QED
  BY <1>1, <1>2, <1>3, <1>4 DEF IInv, AccountInv

(* The inductive invariant of the account, for any number of requests. *)
THEOREM AccountInvariant == Spec => []IInv
<1>1. Init => IInv
  BY InitInv
<1>2. IInv /\ [Next]_vars => IInv'
  BY StepInv
<1> QED
  BY <1>1, <1>2, PTL DEF Spec

(* Every variable of Accounts keeps its type. *)
THEOREM AccountTypeCorrect == Spec => []TypeOK
BY AccountInvariant, PTL DEF IInv

(* No token is accepted for an account whose password has been replaced since
   its session was opened (validateToken, tokens). *)
THEOREM SessionsFollowPassword == Spec => []SessionsMatchPassword
<1>1. IInv => SessionsMatchPassword
  BY DEF IInv, AccountInv, TokenInv, Succeeds, SessionsMatchPassword, Current
<1> QED
  BY <1>1, AccountInvariant, PTL

(* Concurrent logins lose no failed attempt (login, LockUser). *)
THEOREM LockoutIsExact == Spec => []LockoutCounts
BY AccountInvariant, PTL DEF IInv

(* A reset link is good for one password (ConsumeResetToken). *)
THEOREM ResetLinkOnce == Spec => []LinkSingleUse
BY AccountInvariant, PTL DEF IInv

-----------------------------------------------------------------------------
(* A request that is over after a step was served by that step. *)
LEMMA ServedByItsStep ==
  ASSUME IInv, [Next]_vars, NEW t \in Request, pc[t] # "idle", req'[t] = NoRequest
  PROVE  HandlerStep(t)
<1>1. req[t] # NoRequest
  BY AskedParts DEF IInv, AccountInv, Phase
<1>2. CASE \E r \in Request : HandlerStep(r)
  BY <1>1, <1>2, OthersKept
<1>3. CASE ConsumeResetToken \/ LockoutEnds \/ LinkExpires \/ UNCHANGED vars
  BY <1>1, <1>3, QuietSteps
<1> QED
  BY <1>2, <1>3 DEF Next, HandlerStep

(* logout and changePassword act only for a session that is still current
   (the WHERE on tokenVersion). *)
THEOREM OnlyCurrentSessionsAct == Spec => EndedSessionChangesNothing
<1>1. IInv /\ [Next]_vars =>
        [\A r \in Request :
           /\ req[r].op \in {"logout", "change"}
           /\ req'[r] = NoRequest
           /\ user' # user
           => Current(req[r].token)]_vars
  <2> SUFFICES ASSUME IInv, [Next]_vars, NEW r \in Request,
                      req[r].op \in {"logout", "change"},
                      req'[r] = NoRequest, user' # user
               PROVE  Current(req[r].token)
    OBVIOUS
  <2>1. pc[r] # "idle"
    BY DEF IInv, AccountInv, Phase, NoRequest
  <2>2. HandlerStep(r)
    BY <2>1, ServedByItsStep
  <2>3. LogOut(r) \/ ChangePassword(r)
    BY <2>1, <2>2
       DEF HandlerStep, LockUser, Begin, LogIn, RejectPassword, UpdateUser, DeleteUser,
           ValidateToken, Refresh, ProvePassword, FindUserByID, FindUser, SaveResetToken,
           MailSent, MailFailed, WithdrawLink, Abort, IInv, AccountInv, Phase
  <2>4. req[r].op = "change" \/ LogOut(r)
    BY <2>3 DEF ChangePassword, IInv, AccountInv, Phase
  <2> QED
    BY <2>3, <2>4 DEF LogOut, ChangePassword, Replaces, Current
<1> QED
  BY <1>1, AccountInvariant, PTL DEF Spec, EndedSessionChangesNothing

(* The condition on tokenVersion makes the check of the current password and
   the write one decision (changePassword, rootResetPassword). *)
THEOREM PasswordNeverLost == Spec => NoLostPassword
<1>1. IInv /\ [Next]_vars =>
        [\A r \in Request :
           /\ pc[r] = "proven"
           /\ req'[r] = NoRequest
           /\ user' # user
           => seen[r].password = user.password /\ seen[r].version = user.version]_vars
  <2> SUFFICES ASSUME IInv, [Next]_vars, NEW r \in Request,
                      pc[r] = "proven", req'[r] = NoRequest, user' # user
               PROVE  seen[r].password = user.password /\ seen[r].version = user.version
    OBVIOUS
  <2>1. HandlerStep(r)
    BY ServedByItsStep
  <2>2. ChangePassword(r)
    BY <2>1
       DEF HandlerStep, LockUser, Begin, LogIn, RejectPassword, UpdateUser, DeleteUser,
           ValidateToken, Refresh, LogOut, ProvePassword, FindUserByID, FindUser,
           SaveResetToken, MailSent, MailFailed, WithdrawLink, Abort
  <2>3. Replaces(r) /\ user # None
    BY <2>2 DEF ChangePassword, Replaces
  <2>4. /\ seen[r] \in Row /\ user \in Row
        /\ Succeeds(user, seen[r].version, seen[r].password)
        /\ req[r].op = "change" => req[r].token.version <= seen[r].version
    BY <2>3 DEF IInv, TypeOK, AccountInv, Proven
  <2>5. seen[r].version = user.version
    BY <2>3, <2>4, AccountAssumption DEF Replaces, Succeeds, Row
  <2> QED
    BY <2>4, <2>5 DEF Succeeds
<1> QED
  BY <1>1, AccountInvariant, PTL DEF Spec, NoLostPassword

(* A mail that fails withdraws only its own link (forgotPassword). *)
THEOREM MailedLinkIsSafe == Spec => MailedLinkStands
<1>1. IInv /\ TypeOK' /\ [Next]_vars =>
        [/\ user # None /\ user' # None
         /\ user.link # None /\ fate[user.link] = "mailed"
         /\ user'.link = None
         => user'.version > user.version]_vars
  <2> SUFFICES ASSUME IInv, TypeOK', [Next]_vars, user # None, user' # None,
                      user.link # None, fate[user.link] = "mailed", user'.link = None
               PROVE  user'.version > user.version
    OBVIOUS
  <2>0. user \in Row /\ user' \in Row /\ user.version \in Nat /\ user.link \in Link
    BY AccountAssumption DEF IInv, TypeOK, Row
  <2>1. user' # user
    OBVIOUS
  <2>2. ASSUME NEW r \in Request,
               \/ LogIn(r) \/ RejectPassword(r) \/ UpdateUser(r) \/ DeleteUser(r) \/ LogOut(r)
        PROVE  user'.link = user.link
    <3>1. Bumped(user).link = user.link
      BY <2>0, BumpedRow
    <3> QED
      BY <2>0, <2>2, <3>1 DEF LogIn, RejectPassword, UpdateUser, DeleteUser, LogOut, Row
  <2>3. ASSUME NEW r \in Request, ChangePassword(r)
        PROVE  user'.version = user.version + 1
    <3>1. req[r].new \in Password /\ (req[r].op = "rootreset") \in BOOLEAN
      BY <2>3, AskedParts DEF ChangePassword, IInv, AccountInv, Phase
    <3> QED
      BY <2>0, <2>1, <2>3, <3>1, NewPasswordRow DEF ChangePassword
  <2>4. ASSUME NEW r \in Request, SaveResetToken(r)
        PROVE  FALSE
    <3>1. req[r].link \in Link
      BY <2>4, AskedParts DEF SaveResetToken, IInv, TypeOK, AccountInv, Phase
    <3> QED
      BY <2>0, <2>4, <3>1, AccountAssumption DEF SaveResetToken, Row
  <2>5. ASSUME NEW r \in Request, WithdrawLink(r)
        PROVE  FALSE
    <3>1. fate[req[r].link] # "mailed"
      BY <2>5 DEF WithdrawLink, IInv, AccountInv, Pending
    <3> QED
      BY <2>1, <2>5, <3>1 DEF WithdrawLink
  <2>6. CASE ConsumeResetToken
    <3>1. PICK p \in Password : user' = WithPassword(p, FALSE)
      BY <2>6 DEF ConsumeResetToken
    <3>2. user'.version = user.version + 1
      BY <2>0, <2>6, <3>1, NewPasswordRow DEF ConsumeResetToken
    <3> QED
      BY <2>0, <3>2
  <2>7. CASE LockoutEnds
    BY <2>0, <2>7 DEF LockoutEnds, Row
  <2>8. \/ \E r \in Request : \/ LogIn(r) \/ RejectPassword(r) \/ SaveResetToken(r)
                              \/ WithdrawLink(r) \/ UpdateUser(r) \/ DeleteUser(r)
                              \/ LogOut(r) \/ ChangePassword(r)
        \/ ConsumeResetToken
        \/ LockoutEnds
    BY <2>1 DEF Next, vars, LockUser, Begin, ValidateToken, Refresh, ProvePassword,
         FindUserByID, FindUser, MailSent, MailFailed, Abort, LinkExpires
  <2> QED
    BY <2>0, <2>2, <2>3, <2>4, <2>5, <2>6, <2>7, <2>8
<1>2. IInv => TypeOK
  BY DEF IInv
<1> QED
  BY <1>1, <1>2, AccountInvariant, PTL DEF Spec, MailedLinkStands

-----------------------------------------------------------------------------
(* The refinement: what AccountLifecycle sees of a step.                   *)

(* The sessions of the account that are still accepted. *)
Accepted == {t.secret : t \in {x \in issued : Current(x)}}

LEMMA RowFacts ==
  ASSUME TypeOK, user # None
  PROVE  /\ user \in Row
         /\ user.version \in Nat
         /\ user.password \in Password
         /\ user.password # None
         /\ user.mustChange \in BOOLEAN
         /\ user.link \in Link \cup {None}
BY AccountAssumption DEF TypeOK, Row

(* Sessions last while the version does; a new version leaves none. *)
LEMMA KeepsSessions ==
  ASSUME user # None, user' # None, user'.version = user.version, issued' = issued
  PROVE  Accepted' = Accepted
BY DEF Accepted, Current

LEMMA EndsSessions ==
  ASSUME IInv, user # None, user' # None, user'.version = user.version + 1, issued' = issued
  PROVE  Accepted' = {}
<1>1. ASSUME NEW t \in issued'
      PROVE  ~ Current(t)'
  <2>1. t.version <= user.version /\ t.version \in Nat /\ user.version \in Nat
    BY <1>1, RowFacts, AccountAssumption
       DEF IInv, AccountInv, TokenInv, Succeeds, TypeOK, Token
  <2> QED
    BY <2>1 DEF Current
<1> QED
  BY <1>1 DEF Accepted

LEMMA DeletedHasNone ==
  ASSUME user = None
  PROVE  Accepted = {}
BY DEF Accepted, Current

(* Steps that leave alone the row, the tokens and the histories. *)
LEMMA SameAccount ==
  ASSUME UNCHANGED <<user, issued, fate, guesses>>
  PROVE  UNCHANGED Abstract!vars
BY DEF Abstract!vars, Current

LEMMA LogInRefines ==
  ASSUME IInv, NEW r \in Request, LogIn(r)
  PROVE  Abstract!LogIn
<1>1. user # None /\ seen[r] = user /\ user.lockout # "running"
  BY DEF LogIn, IInv, AccountInv, Locked
<1>2. user \in Row /\ user.password # None
  BY <1>1, RowFacts DEF IInv
<1>3. user' = [user EXCEPT !.attempts = 0, !.lockout = "none"]
  BY DEF LogIn
<1>4. /\ user' # None
      /\ user'.version = user.version
      /\ user'.password = user.password
      /\ user'.mustChange = user.mustChange
      /\ user'.lockout = "none"
      /\ user'.link = user.link
  BY <1>2, <1>3, Zero, CountedRow
<1>5. Accepted' = Accepted \cup {user.password}
  <2>1. issued' = issued \cup {[version |-> user.version, secret |-> user.password]}
    BY <1>1 DEF LogIn
  <2>2. \A x : Current(x)' <=> Current(x)
    BY <1>1, <1>4 DEF Current
  <2>3. Current([version |-> user.version, secret |-> user.password])
    BY <1>1 DEF Current
  <2> QED
    BY <2>1, <2>2, <2>3 DEF Accepted
<1>6. guesses' = 0 /\ fate' = fate
  BY DEF LogIn
<1> QED
  BY <1>1, <1>2, <1>4, <1>5, <1>6 DEF Abstract!LogIn, Accepted

LEMMA GuessRefines ==
  ASSUME IInv, NEW r \in Request, RejectPassword(r)
  PROVE  Abstract!Guess
<1>1. user # None /\ seen[r] = user /\ user.lockout # "running"
  BY DEF RejectPassword, IInv, AccountInv, Locked
<1>2. user \in Row /\ user.password # None
  BY <1>1, RowFacts DEF IInv
<1>3. PICK n \in CountsTo(user) :
        user' = [user EXCEPT !.attempts = n,
                             !.lockout = IF n >= MaxAttempts THEN "running" ELSE "none"]
  BY <1>1 DEF RejectPassword
<1>4. n \in 1..MaxAttempts /\ MaxAttempts \in Nat
  BY <1>2, CountRange, AccountAssumption
<1>5. /\ user' # None
      /\ user'.version = user.version
      /\ user'.password = user.password
      /\ user'.mustChange = user.mustChange
      /\ user'.lockout = IF n >= MaxAttempts THEN "running" ELSE "none"
      /\ user'.link = user.link
  <2>1. n \in 0..MaxAttempts
    BY <1>4
  <2>2. PICK status \in {"none", "running", "over"} :
          status = IF n >= MaxAttempts THEN "running" ELSE "none"
    OBVIOUS
  <2>3. user' = [user EXCEPT !.attempts = n, !.lockout = status]
    BY <1>3, <2>2
  <2>4. user' \in Row
    BY <1>2, <2>1, <2>2, <2>3 DEF Row
  <2> QED
    BY <1>2, <2>2, <2>3, <2>4, NoneIsNoRow DEF Row
<1>6. issued' = issued /\ fate' = fate /\ guesses' = guesses + 1
  BY DEF RejectPassword
<1>7. \/ n = guesses + 1
      \/ user.lockout = "over" /\ guesses = 0 /\ n \in {1, MaxAttempts}
  <2>1. CASE user.lockout = "none"
    BY <1>1, <1>2, <1>3, <2>1, AccountAssumption DEF IInv, LockoutCounts, CountsTo, Row
  <2>2. CASE user.lockout = "over"
    BY <1>1, <1>2, <1>3, <2>2, AccountAssumption
       DEF IInv, AccountInv, LockoutCounts, LockoutReached, CountsTo, Row
  <2> QED
    BY <1>1, <1>2, <2>1, <2>2 DEF Row
<1>8. \/ user'.lockout = IF guesses' >= MaxAttempts THEN "running" ELSE "none"
      \/ user.lockout = "over" /\ user'.lockout = "running"
  BY <1>4, <1>5, <1>6, <1>7
<1>9. Accepted' = Accepted
  BY <1>1, <1>5, <1>6, KeepsSessions
<1> QED
  BY <1>1, <1>2, <1>5, <1>6, <1>8, <1>9 DEF Abstract!Guess, Accepted

LEMMA EndRefines ==
  ASSUME IInv, user # None, user' = Bumped(user), UNCHANGED <<issued, fate, guesses>>
  PROVE  Abstract!EndSessions \/ UNCHANGED Abstract!vars
<1>1. user \in Row /\ user.password # None
  BY RowFacts DEF IInv
<1>2. CASE user.version < MaxVersion
  <2>1. /\ user' # None
        /\ user'.version = user.version + 1
        /\ user'.password = user.password
        /\ user'.mustChange = user.mustChange
        /\ user'.lockout = user.lockout
        /\ user'.link = user.link
    BY <1>1, <1>2, BumpedRow
  <2>2. Accepted' = {}
    BY <2>1, EndsSessions
  <2> QED
    BY <1>1, <2>1, <2>2 DEF Abstract!EndSessions, Accepted
<1>3. CASE ~ user.version < MaxVersion
  BY <1>3, SameAccount DEF Bumped
<1> QED
  BY <1>2, <1>3

(* A new password, by whatever way. *)
LEMMA PasswordRefines ==
  ASSUME IInv, user # None, user.version < MaxVersion,
         NEW p \in Password, NEW b \in BOOLEAN, user' = WithPassword(p, b),
         issued' = issued, guesses' = 0
  PROVE  Abstract!Becomes(p, b)
<1>1. user \in Row
  BY RowFacts DEF IInv
<1>2. /\ user' # None
      /\ user'.version = user.version + 1
      /\ user'.lockout = "none"
      /\ user'.link = None
  BY <1>1, NewPasswordRow
<1>3. user'.password = p /\ user'.mustChange = b
  BY <1>1, NewPasswordSet
<1>4. Accepted' = {}
  BY <1>2, EndsSessions
<1> QED
  BY <1>2, <1>3, <1>4 DEF Abstract!Becomes, Accepted

LEMMA ChangeRefines ==
  ASSUME IInv, NEW r \in Request, ChangePassword(r)
  PROVE  \/ \E p \in Password : Abstract!ChangePassword(p) \/ Abstract!RootReset(p)
         \/ UNCHANGED Abstract!vars
<1>1. CASE ~ (Replaces(r) /\ user.version < MaxVersion)
  BY <1>1, SameAccount DEF ChangePassword
<1>2. CASE Replaces(r) /\ user.version < MaxVersion
  <2>1. /\ user # None
        /\ user' = WithPassword(req[r].new, req[r].op = "rootreset")
        /\ guesses' = 0 /\ issued' = issued /\ fate' = fate
    BY <1>2 DEF ChangePassword, Replaces
  <2>2. /\ req[r].new \in Password
        /\ req[r].op \in {"change", "rootreset"}
        /\ req[r].op = "change" => req[r].token \in issued
    BY AskedParts DEF ChangePassword, IInv, AccountInv, Phase
  <2>3. user.password # None
    BY <2>1, RowFacts DEF IInv
  <2>4. CASE req[r].op = "change"
    <3>1. Abstract!Becomes(req[r].new, FALSE)
      BY <1>2, <2>1, <2>2, <2>4, PasswordRefines
    <3>2. Current(req[r].token)
      BY <1>2, <2>1, <2>4 DEF Replaces, Current
    <3>3. Accepted # {}
      BY <2>2, <2>4, <3>2 DEF Accepted
    <3> QED
      BY <2>1, <2>2, <3>1, <3>3 DEF Abstract!ChangePassword, Accepted
  <2>5. CASE req[r].op = "rootreset"
    <3>1. Abstract!Becomes(req[r].new, TRUE)
      BY <1>2, <2>1, <2>2, <2>5, PasswordRefines
    <3> QED
      BY <2>1, <2>2, <2>3, <3>1 DEF Abstract!RootReset
  <2> QED
    BY <2>2, <2>4, <2>5
<1> QED
  BY <1>1, <1>2

LEMMA DeleteRefines ==
  ASSUME IInv, NEW r \in Request, DeleteUser(r)
  PROVE  Abstract!Delete
<1>1. user # None /\ ~ IsRoot
  BY DEF DeleteUser, IInv, AccountInv, Locked, Phase
<1>2. user.password # None
  BY <1>1, RowFacts DEF IInv
<1>3. user' = None /\ fate' = fate
  BY DEF DeleteUser
<1>4. Accepted' = {}
  BY <1>3 DEF Accepted, Current
<1> QED
  BY <1>1, <1>2, <1>3, <1>4 DEF Abstract!Delete, Accepted
LEMMA ResetRefines ==
  ASSUME IInv, ConsumeResetToken
  PROVE  \E p \in Password : Abstract!UseLink(p)
<1>1. /\ user # None /\ user.link # None /\ user.version < MaxVersion
      /\ issued' = issued /\ guesses' = 0
      /\ fate' = [fate EXCEPT ![user.link] = "used"]
  BY DEF ConsumeResetToken
<1>2. fate[user.link] \in {"drawn", "mailed"}
  <2>1. user.link \in Link /\ fate \in [Link -> Fate]
    BY <1>1, RowFacts DEF IInv, TypeOK
  <2> QED
    BY <1>1, <2>1 DEF ConsumeResetToken, IInv, AccountInv, LinkSingleUse, LinkDrawn, Fate
<1>3. PICK p \in Password : user' = WithPassword(p, FALSE)
  BY DEF ConsumeResetToken
<1>4. Abstract!Becomes(p, FALSE)
  BY <1>1, <1>3, PasswordRefines
<1> QED
  BY <1>1, <1>2, <1>4 DEF Abstract!UseLink

LEMMA LockoutEndRefines ==
  ASSUME IInv, LockoutEnds
  PROVE  Abstract!LockoutEnds
<1>1. user # None /\ user.lockout = "running" /\ user \in Row
  BY RowFacts DEF LockoutEnds, IInv
<1>2. /\ user' # None
      /\ user'.version = user.version
      /\ user'.password = user.password
      /\ user'.mustChange = user.mustChange
      /\ user'.lockout = "over"
      /\ user'.link = user.link
  BY <1>1, NoneIsNoRow DEF LockoutEnds, Row
<1>3. issued' = issued /\ fate' = fate /\ guesses' = 0
  BY DEF LockoutEnds
<1>4. Accepted' = Accepted
  BY <1>1, <1>2, <1>3, KeepsSessions
<1> QED
  BY <1>1, <1>2, <1>3, <1>4 DEF Abstract!LockoutEnds, Accepted

LEMMA ExpireRefines ==
  ASSUME IInv, LinkExpires
  PROVE  Abstract!Expire
<1>1. /\ user # None /\ user.link # None
      /\ fate' = [fate EXCEPT ![user.link] = "expired"]
      /\ UNCHANGED <<user, issued, guesses>>
  BY DEF LinkExpires
<1>2. Accepted' = Accepted
  BY <1>1 DEF Accepted, Current
<1> QED
  BY <1>1, <1>2 DEF Abstract!Expire, Accepted

(* The row with another link, or none. *)
LEMMA LinkRow ==
  ASSUME NEW row \in Row, NEW l \in Link \cup {None}
  PROVE  LET new == [row EXCEPT !.link = l]
         IN  /\ new # None
             /\ new.version = row.version
             /\ new.password = row.password
             /\ new.mustChange = row.mustChange
             /\ new.lockout = row.lockout
             /\ new.link = l
BY NoneIsNoRow DEF Row

LEMMA DrawRefines ==
  ASSUME IInv, NEW r \in Request, SaveResetToken(r)
  PROVE  \E l \in Link : Abstract!Draw(l)
<1>1. req[r].link \in Link
  BY AskedParts DEF SaveResetToken, IInv, AccountInv, Phase
<1>2. /\ fate[req[r].link] = "fresh"
      /\ fate' = [fate EXCEPT ![req[r].link] = "drawn"]
      /\ issued' = issued /\ guesses' = guesses
  BY DEF SaveResetToken
<1>3. CASE user = None
  <2>1. user' = None
    BY <1>3 DEF SaveResetToken
  <2>2. Accepted' = {} /\ Accepted = {}
    BY <1>3, <2>1 DEF Accepted, Current
  <2> QED
    BY <1>1, <1>2, <1>3, <2>1, <2>2 DEF Abstract!Draw, Accepted
<1>4. CASE user # None
  <2>1. user \in Row /\ user.password # None
    BY <1>4, RowFacts DEF IInv
  <2>2. /\ user' # None
        /\ user'.version = user.version
        /\ user'.password = user.password
        /\ user'.mustChange = user.mustChange
        /\ user'.lockout = user.lockout
        /\ user'.link = req[r].link
    BY <1>1, <1>4, <2>1, LinkRow DEF SaveResetToken
  <2>3. Accepted' = Accepted
    BY <1>2, <1>4, <2>2, KeepsSessions
  <2> QED
    BY <1>1, <1>2, <1>4, <2>1, <2>2, <2>3 DEF Abstract!Draw, Accepted
<1> QED
  BY <1>3, <1>4

LEMMA MailRefines ==
  ASSUME IInv, NEW r \in Request, MailSent(r)
  PROVE  (\E l \in Link : Abstract!Mail(l)) \/ UNCHANGED Abstract!vars
<1>1. req[r].link \in Link /\ fate \in [Link -> Fate]
  BY AskedParts DEF MailSent, IInv, TypeOK, AccountInv, Phase
<1>2. UNCHANGED <<user, issued, guesses>>
  BY DEF MailSent
<1>3. CASE fate[req[r].link] = "drawn"
  <2>1. fate' = [fate EXCEPT ![req[r].link] = "mailed"]
    BY <1>1, <1>3 DEF MailSent
  <2>2. Accepted' = Accepted
    BY <1>2 DEF Accepted, Current
  <2> QED
    BY <1>1, <1>2, <1>3, <2>1, <2>2 DEF Abstract!Mail, Accepted
<1>4. CASE fate[req[r].link] # "drawn"
  <2>1. fate' = fate
    BY <1>1, <1>4 DEF MailSent
  <2> QED
    BY <1>2, <2>1, SameAccount
<1> QED
  BY <1>3, <1>4

LEMMA WithdrawRefines ==
  ASSUME IInv, NEW r \in Request, WithdrawLink(r)
  PROVE  Abstract!Withdraw \/ UNCHANGED Abstract!vars
<1>1. UNCHANGED <<issued, fate, guesses>>
  BY DEF WithdrawLink
<1>2. CASE ~ (user # None /\ user.link = req[r].link)
  BY <1>1, <1>2, SameAccount DEF WithdrawLink
<1>3. CASE user # None /\ user.link = req[r].link
  <2>1. user \in Row /\ user.password # None
    BY <1>3, RowFacts DEF IInv
  <2>2. user.link # None /\ fate[user.link] # "mailed"
    <3>1. req[r].link \in Link /\ fate[req[r].link] # "mailed"
      BY AskedParts DEF WithdrawLink, IInv, AccountInv, Phase, Pending
    <3> QED
      BY <1>3, <3>1, AccountAssumption
  <2>3. /\ user' # None
        /\ user'.version = user.version
        /\ user'.password = user.password
        /\ user'.mustChange = user.mustChange
        /\ user'.lockout = user.lockout
        /\ user'.link = None
    BY <1>3, <2>1, LinkRow DEF WithdrawLink
  <2>4. Accepted' = Accepted
    BY <1>1, <1>3, <2>3, KeepsSessions
  <2> QED
    BY <1>1, <1>3, <2>1, <2>2, <2>3, <2>4 DEF Abstract!Withdraw, Accepted
<1> QED
  BY <1>2, <1>3

LEMMA StepRefines ==
  ASSUME IInv, [Next]_vars
  PROVE  [Abstract!Next]_(Abstract!vars)
<1>1. ASSUME UNCHANGED <<user, issued, fate, guesses>>
      PROVE  UNCHANGED Abstract!vars
  BY <1>1, SameAccount
<1>2. ASSUME NEW r \in Request,
             \/ LockUser(r) \/ ValidateToken(r) \/ ProvePassword(r) \/ FindUserByID(r)
             \/ FindUser(r) \/ MailFailed(r) \/ Abort(r)
      PROVE  UNCHANGED Abstract!vars
  BY <1>1, <1>2 DEF LockUser, ValidateToken, ProvePassword, FindUserByID, FindUser,
                    MailFailed, Abort, Begin
<1>3. ASSUME NEW r \in Request, Refresh(r)
      PROVE  UNCHANGED Abstract!vars
  <2>1. req[r].token \in issued
    BY <1>3 DEF Refresh, IInv, AccountInv, Phase
  <2> QED
    BY <1>1, <1>3, <2>1 DEF Refresh
<1>4. ASSUME NEW r \in Request, UpdateUser(r)
      PROVE  Abstract!EndSessions \/ UNCHANGED Abstract!vars
  <2>1. user # None
    BY <1>4 DEF UpdateUser, IInv, AccountInv, Locked
  <2> QED
    BY <1>4, <2>1, EndRefines DEF UpdateUser
<1>5. ASSUME NEW r \in Request, LogOut(r)
      PROVE  Abstract!EndSessions \/ UNCHANGED Abstract!vars
  BY <1>1, <1>5, EndRefines DEF LogOut, Current
<1>6. CASE \E r \in Request : LogIn(r)
  BY <1>6, LogInRefines DEF Abstract!Next
<1>7. CASE \E r \in Request : RejectPassword(r)
  BY <1>7, GuessRefines DEF Abstract!Next
<1>8. CASE \E r \in Request : UpdateUser(r) \/ LogOut(r)
  BY <1>4, <1>5, <1>8 DEF Abstract!Next
<1>9. CASE \E r \in Request : DeleteUser(r)
  BY <1>9, DeleteRefines DEF Abstract!Next
<1>10. CASE \E r \in Request : ChangePassword(r)
  BY <1>10, ChangeRefines DEF Abstract!Next
<1>11. CASE \E r \in Request : SaveResetToken(r)
  BY <1>11, DrawRefines DEF Abstract!Next
<1>12. CASE \E r \in Request : MailSent(r)
  BY <1>12, MailRefines DEF Abstract!Next
<1>13. CASE \E r \in Request : WithdrawLink(r)
  BY <1>13, WithdrawRefines DEF Abstract!Next
<1>14. CASE ConsumeResetToken
  BY <1>14, ResetRefines DEF Abstract!Next
<1>15. CASE LockoutEnds
  BY <1>15, LockoutEndRefines DEF Abstract!Next
<1>16. CASE LinkExpires
  BY <1>16, ExpireRefines DEF Abstract!Next
<1>17. CASE UNCHANGED vars
  BY <1>1, <1>17 DEF vars
<1> QED
  BY <1>2, <1>3, <1>6, <1>7, <1>8, <1>9, <1>10, <1>11, <1>12, <1>13, <1>14, <1>15, <1>16,
     <1>17 DEF Next

LEMMA InitRefines == Init => Abstract!Init
<1> SUFFICES ASSUME Init
             PROVE  Abstract!Init
  OBVIOUS
<1>1. PICK p \in Password :
        user = [password |-> p, version |-> 0, mustChange |-> TRUE,
                attempts |-> 0, lockout |-> "none", link |-> None]
  BY DEF Init
<1>2. user # None
  <2>1. user \in Row
    BY <1>1, Zero, AccountAssumption DEF Row
  <2> QED
    BY <2>1, NoneIsNoRow
<1>3. issued = {} /\ guesses = 0 /\ fate = [l \in Link |-> "fresh"]
  BY DEF Init
<1> QED
  BY <1>1, <1>2, <1>3 DEF Abstract!Init

(* The handlers of an account, which interleave and act on rows they read
   before, implement the account in which each request is one step. *)
THEOREM AccountImplementsLifecycle == Spec => ImplementsAccount
<1>1. Init => Abstract!Init
  BY InitRefines
<1>2. IInv /\ [Next]_vars => [Abstract!Next]_(Abstract!vars)
  BY StepRefines
<1> QED
  BY <1>1, <1>2, AccountInvariant, PTL DEF Spec, ImplementsAccount, Abstract!Spec
=============================================================================

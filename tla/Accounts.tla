------------------------------ MODULE Accounts ------------------------------
(***************************************************************************)
(* One account of server-go: its Users row and the handlers of             *)
(* internal/httpapi/auth.go and users.go that read and write it, run by    *)
(* concurrent requests.  Accounts do not interact: a handler touches one   *)
(* row, and an id is drawn once (of restores see module Restore).          *)
(*                                                                         *)
(* A step is one statement with the Go code up to the next one.  A request *)
(* comes in with its first statement; one that is refused changes nothing  *)
(* and is no step.  An UPDATE not preceded by a locking SELECT is one step *)
(* with its COMMIT: it waits for the holder of the row, evaluates WHERE on *)
(* the committed row, and nobody sees the row in between.  Tokens do not   *)
(* expire here: an expired one is a request that is not made.              *)
(***************************************************************************)
EXTENDS Naturals

CONSTANTS
  Request,      \* requests the server handles at the same time
  Password,     \* passwords that satisfy the policy
  Link,         \* password reset links (resetToken) that can be drawn
  None,         \* SQL NULL, no row, or nothing
  MaxAttempts,  \* Config.MaxLoginAttempts
  MaxVersion,   \* largest tokenVersion: 2147483647 in the code
  IsRoot        \* the account has role root

ASSUME AccountAssumption ==
  /\ None \notin Request /\ None \notin Link /\ None \notin Password
  /\ MaxAttempts \in Nat \ {0}
  /\ MaxVersion \in Nat
  /\ IsRoot \in BOOLEAN

VARIABLES
  user,     \* the committed Users row, None once deleted
  holder,   \* the request that holds the row FOR UPDATE
  pc,       \* pc[r]: how far the handler of request r has come
  req,      \* req[r]: the request
  seen,     \* seen[r]: the Users row as the handler read it
  issued,   \* the session tokens clients hold
  fate,     \* fate[l]: what became of reset link l
  guesses   \* wrong passwords tried since the lockout counter last restarted

vars == <<user, holder, pc, req, seen, issued, fate, guesses>>

-----------------------------------------------------------------------------
(* lockout: lockedUntil is NULL, in the future, or past.  attempts counts no
   further than MaxAttempts, which is all it is compared with. *)
Row == [password   : Password,
        version    : 0..MaxVersion,
        mustChange : BOOLEAN,
        attempts   : 0..MaxAttempts,
        lockout    : {"none", "running", "over"},
        link       : Link \cup {None}]

ASSUME NoneIsNoRow == None \notin Row

(* The claims of a token that matter here: tokenVersion, and (not in the token)
   the password the session was opened with. *)
Token == [version : 0..MaxVersion, secret : Password]

(* A request; update names a role or not. *)
Asked ==
  [op : {"login"}, current : Password]
    \cup [op : {"update"}, role : BOOLEAN]
    \cup [op : {"delete"}]
    \cup [op : {"refresh", "logout"}, token : Token]
    \cup [op : {"change"}, token : Token, current : Password, new : Password]
    \cup [op : {"rootreset"}, new : Password]
    \cup [op : {"forgot"}, link : Link]
NoRequest == [op |-> "none"]

PC == {"idle", "locked", "admitted", "proven", "found", "saved", "unsent"}

Fate == {"fresh", "drawn", "mailed", "used", "expired"}

TypeOK ==
  /\ user \in Row \cup {None}
  /\ holder \in Request \cup {None}
  /\ pc \in [Request -> PC]
  /\ req \in [Request -> Asked \cup {NoRequest}]
  /\ seen \in [Request -> Row \cup {None}]
  /\ issued \subseteq Token
  /\ fate \in [Link -> Fate]
  /\ guesses \in 0..MaxAttempts

(* createUser: the owner must change the password the root user chose. *)
Init ==
  /\ \E p \in Password :
       user = [password |-> p, version |-> 0, mustChange |-> TRUE,
               attempts |-> 0, lockout |-> "none", link |-> None]
  /\ holder = None
  /\ pc = [r \in Request |-> "idle"]
  /\ req = [r \in Request |-> NoRequest]
  /\ seen = [r \in Request |-> None]
  /\ issued = {}
  /\ fate = [l \in Link |-> "fresh"]
  /\ guesses = 0

-----------------------------------------------------------------------------
(* Request r comes in as q, and its handler gets to p having read row. *)
Begin(r, q, p, row) ==
  /\ pc[r] = "idle"
  /\ req' = [req EXCEPT ![r] = q]
  /\ pc' = [pc EXCEPT ![r] = p]
  /\ seen' = [seen EXCEPT ![r] = row]
  /\ UNCHANGED <<user, issued, fate, guesses>>

(* Request r is answered; its transaction, if any, is over. *)
Finish(r) ==
  /\ pc' = [pc EXCEPT ![r] = "idle"]
  /\ req' = [req EXCEPT ![r] = NoRequest]
  /\ seen' = [seen EXCEPT ![r] = None]
  /\ holder' = IF holder = r THEN None ELSE holder

(* Variant: login does not look at lockedUntil. *)
RefusedRoot(q) ==
  \/ q.op = "update" /\ q.role /\ IsRoot
  \/ q.op = "delete" /\ IsRoot

(* login is refused during a lockout; so is a role for root, and deleting it. *)
Refused(q) ==
  \/ q.op = "login" /\ user.lockout = "running"
  \/ q.op = "update" /\ q.role /\ IsRoot
  \/ q.op = "delete" /\ IsRoot

(* Variant: login uses FindUser, which does not lock the row. *)
ReadUser(r) ==
  /\ user # None
  /\ \E q \in Asked : q.op = "login" /\ ~ Refused(q) /\ Begin(r, q, "locked", user)
  /\ UNCHANGED holder

(* login, updateUser, deleteUser: SELECT ... FOR UPDATE. *)
LockUser(r) ==
  /\ holder = None
  /\ user # None
  /\ \E q \in Asked :
       /\ q.op \in {"login", "update", "delete"}
       /\ ~ Refused(q)
       /\ Begin(r, q, "locked", user)
  /\ holder' = r

(* login, right password: LoginSucceeded, and a pair of tokens. *)
LogIn(r) ==
  /\ pc[r] = "locked"
  /\ req[r].op = "login"
  /\ req[r].current = seen[r].password
  /\ user' = [user EXCEPT !.attempts = 0, !.lockout = "none"]
  /\ issued' = issued \cup {[version |-> seen[r].version, secret |-> seen[r].password]}
  /\ guesses' = 0
  /\ Finish(r)
  /\ UNCHANGED fate

(* The count after one more failure, from the row as read: it starts again when
   a lockout is over.  At the very instant of its end it goes on instead. *)
CountsTo(row) ==
  {IF row.attempts < MaxAttempts THEN row.attempts + 1 ELSE MaxAttempts}
    \cup (IF row.lockout = "over" THEN {1} ELSE {})

(* login, wrong password: LoginFailed. *)
RejectPassword(r) ==
  /\ pc[r] = "locked"
  /\ req[r].op = "login"
  /\ req[r].current # seen[r].password
  /\ \E n \in CountsTo(seen[r]) :
       user' = [user EXCEPT !.attempts = n,
                            !.lockout = IF n >= MaxAttempts THEN "running" ELSE "none"]
  /\ guesses' = guesses + 1
  /\ Finish(r)
  /\ UNCHANGED <<issued, fate>>

(* The row with one version more, which ends every session.  Beyond MaxVersion
   the statement fails, and nothing changes. *)
Bumped(row) == IF row.version < MaxVersion THEN [row EXCEPT !.version = @ + 1] ELSE row

(* updateUser: names, email and role are not modelled. *)
UpdateUser(r) ==
  /\ pc[r] = "locked"
  /\ req[r].op = "update"
  /\ user' = Bumped(user)
  /\ Finish(r)
  /\ UNCHANGED <<issued, fate, guesses>>

DeleteUser(r) ==
  /\ pc[r] = "locked"
  /\ req[r].op = "delete"
  /\ user' = None
  /\ Finish(r)
  /\ UNCHANGED <<issued, fate, guesses>>

-----------------------------------------------------------------------------
(* The row has the version the token was issued for. *)
Current(token) == user # None /\ user.version = token.version

(* validateToken, for refresh, logout and changePassword. *)
ValidateToken(r) ==
  /\ \E q \in Asked :
       /\ q.op \in {"refresh", "logout", "change"}
       /\ q.token \in issued
       /\ Current(q.token)
       /\ Begin(r, q, "admitted", None)
  /\ UNCHANGED holder

(* Variant: the new pair takes its version from the row. *)
RefreshRereadingVersion(r) ==
  /\ pc[r] = "admitted"
  /\ req[r].op = "refresh"
  /\ user # None
  /\ issued' = issued \cup {[req[r].token EXCEPT !.version = user.version]}
  /\ Finish(r)
  /\ UNCHANGED <<user, fate, guesses>>

(* refresh: a pair of tokens with the claims of the presented one. *)
Refresh(r) ==
  /\ pc[r] = "admitted"
  /\ req[r].op = "refresh"
  /\ issued' = issued \cup {req[r].token}
  /\ Finish(r)
  /\ UNCHANGED <<user, fate, guesses>>

(* Variant: the statement has no condition on tokenVersion. *)
LogOutAnyVersion(r) ==
  /\ pc[r] = "admitted"
  /\ req[r].op = "logout"
  /\ holder = None
  /\ user' = IF user # None THEN Bumped(user) ELSE user
  /\ Finish(r)
  /\ UNCHANGED <<issued, fate, guesses>>

(* logout: every session of the account ends, if this one is still current. *)
LogOut(r) ==
  /\ pc[r] = "admitted"
  /\ req[r].op = "logout"
  /\ holder = None
  /\ user' = IF Current(req[r].token) THEN Bumped(user) ELSE user
  /\ Finish(r)
  /\ UNCHANGED <<issued, fate, guesses>>

(* changePassword: FindUserByID, then VerifyPassword. *)
ProvePassword(r) ==
  /\ pc[r] = "admitted"
  /\ req[r].op = "change"
  /\ user # None
  /\ user.password = req[r].current
  /\ seen' = [seen EXCEPT ![r] = user]
  /\ pc' = [pc EXCEPT ![r] = "proven"]
  /\ UNCHANGED <<user, holder, req, issued, fate, guesses>>

(* rootResetPassword: FindUserByID, for the version. *)
FindUserByID(r) ==
  /\ user # None
  /\ \E q \in Asked : q.op = "rootreset" /\ Begin(r, q, "proven", user)
  /\ UNCHANGED holder

(* The row with a new password: sessions, reset link and lockout are gone. *)
WithPassword(p, mustChange) ==
  [Bumped(user) EXCEPT !.password = p, !.mustChange = mustChange,
                       !.attempts = 0, !.lockout = "none", !.link = None]

(* Variant: the statement has no condition on tokenVersion. *)
ReplacesAnyVersion(r) == user # None

(* The WHERE of ChangePassword: the version of the session for changePassword,
   the version that was read for rootResetPassword. *)
Replaces(r) ==
  /\ user # None
  /\ user.version = IF req[r].op = "change" THEN req[r].token.version
                                            ELSE seen[r].version

ChangePassword(r) ==
  /\ pc[r] = "proven"
  /\ holder = None
  /\ IF Replaces(r) /\ user.version < MaxVersion
       THEN /\ user' = WithPassword(req[r].new, req[r].op = "rootreset")
            /\ guesses' = 0
       ELSE UNCHANGED <<user, guesses>>
  /\ Finish(r)
  /\ UNCHANGED <<issued, fate>>

-----------------------------------------------------------------------------
(* forgotPassword: FindUser, without a lock. *)
FindUser(r) ==
  /\ user # None
  /\ \E q \in Asked : q.op = "forgot" /\ Begin(r, q, "found", None)
  /\ UNCHANGED holder

(* A link nobody drew before becomes the account's. *)
SaveResetToken(r) ==
  /\ pc[r] = "found"
  /\ holder = None
  /\ fate[req[r].link] = "fresh"
  /\ fate' = [fate EXCEPT ![req[r].link] = "drawn"]
  /\ user' = IF user = None THEN None ELSE [user EXCEPT !.link = req[r].link]
  /\ pc' = [pc EXCEPT ![r] = "saved"]
  /\ UNCHANGED <<holder, req, seen, issued, guesses>>

(* sendResetEmail returns: the mail is on its way, or an error. *)
MailSent(r) ==
  /\ pc[r] = "saved"
  /\ fate' = [fate EXCEPT ![req[r].link] = IF @ = "drawn" THEN "mailed" ELSE @]
  /\ Finish(r)
  /\ UNCHANGED <<user, issued, guesses>>

MailFailed(r) ==
  /\ pc[r] = "saved"
  /\ pc' = [pc EXCEPT ![r] = "unsent"]
  /\ UNCHANGED <<user, holder, req, seen, issued, fate, guesses>>

(* Variant: whatever link the row holds is withdrawn. *)
WithdrawAnyLink(r) ==
  /\ pc[r] = "unsent"
  /\ holder = None
  /\ user' = IF user = None THEN None ELSE [user EXCEPT !.link = None]
  /\ Finish(r)
  /\ UNCHANGED <<issued, fate, guesses>>

(* The mail failed: the link is withdrawn if the row still holds it. *)
WithdrawLink(r) ==
  /\ pc[r] = "unsent"
  /\ holder = None
  /\ user' = IF user # None /\ user.link = req[r].link
               THEN [user EXCEPT !.link = None] ELSE user
  /\ Finish(r)
  /\ UNCHANGED <<issued, fate, guesses>>

(* Variant: the statement leaves the link in the row. *)
ConsumeKeepsLink ==
  /\ holder = None
  /\ user # None
  /\ user.link # None
  /\ fate[user.link] # "expired"
  /\ user.version < MaxVersion
  /\ \E p \in Password : user' = [WithPassword(p, FALSE) EXCEPT !.link = user.link]
  /\ fate' = [fate EXCEPT ![user.link] = "used"]
  /\ guesses' = 0
  /\ UNCHANGED <<holder, pc, req, seen, issued>>

(* resetPassword, with the link the row holds: ConsumeResetToken. *)
ConsumeResetToken ==
  /\ holder = None
  /\ user # None
  /\ user.link # None
  /\ fate[user.link] # "expired"
  /\ user.version < MaxVersion
  /\ \E p \in Password : user' = WithPassword(p, FALSE)
  /\ fate' = [fate EXCEPT ![user.link] = "used"]
  /\ guesses' = 0
  /\ UNCHANGED <<holder, pc, req, seen, issued>>

-----------------------------------------------------------------------------
(* The request fails: a check on the way, a statement, the connection, the
   client or the server.  What was not committed is rolled back; a link that
   was saved stays. *)
Abort(r) ==
  /\ pc[r] # "idle"
  /\ Finish(r)
  /\ UNCHANGED <<user, issued, fate, guesses>>

(* lockedUntil passes. *)
LockoutEnds ==
  /\ user # None
  /\ user.lockout = "running"
  /\ user' = [user EXCEPT !.lockout = "over"]
  /\ guesses' = 0
  /\ UNCHANGED <<holder, pc, req, seen, issued, fate>>

(* resetTokenExpiry passes. *)
LinkExpires ==
  /\ user # None
  /\ user.link # None
  /\ fate' = [fate EXCEPT ![user.link] = "expired"]
  /\ UNCHANGED <<user, holder, pc, req, seen, issued, guesses>>

Next ==
  \/ \E r \in Request :
       \/ LockUser(r) \/ LogIn(r) \/ RejectPassword(r) \/ UpdateUser(r) \/ DeleteUser(r)
       \/ ValidateToken(r) \/ Refresh(r) \/ LogOut(r) \/ ProvePassword(r)
       \/ FindUserByID(r) \/ ChangePassword(r)
       \/ FindUser(r) \/ SaveResetToken(r) \/ MailSent(r) \/ MailFailed(r) \/ WithdrawLink(r)
       \/ Abort(r)
  \/ ConsumeResetToken
  \/ LockoutEnds
  \/ LinkExpires

Spec == Init /\ [][Next]_vars

-----------------------------------------------------------------------------
(* A session outlives no password: every token the API would accept belongs to
   a session that was opened, itself or through renewals, with the password the
   account has now. *)
SessionsMatchPassword ==
  \A t \in issued : Current(t) => t.secret = user.password

(* The lockout counter misses no attempt: an account open to logins has seen
   fewer than MaxAttempts wrong passwords since the counter last restarted, and
   has counted each of them, however many logins run at once. *)
LockoutCounts ==
  user # None =>
    /\ user.lockout = "none" => guesses = user.attempts /\ guesses < MaxAttempts
    /\ user.lockout = "over" => guesses = 0

(* A reset link works once: no used link is the account's again, also when the
   saving, mailing and use of several links overlap. *)
LinkSingleUse == user # None /\ user.link # None => fate[user.link] # "used"

(* A request that was admitted with a session that has ended in the meantime
   neither ends the other sessions nor changes the password. *)
EndedSessionChangesNothing ==
  [][\A r \in Request :
       /\ req[r].op \in {"logout", "change"}
       /\ req'[r] = NoRequest
       /\ user' # user
       => Current(req[r].token)]_vars

(* changePassword and rootResetPassword replace the password they have read:
   one set by somebody else after that read is never overwritten. *)
NoLostPassword ==
  [][\A r \in Request :
       /\ pc[r] = "proven"
       /\ req'[r] = NoRequest
       /\ user' # user
       => seen[r].password = user.password /\ seen[r].version = user.version]_vars

(* A link that was mailed stays usable until it is replaced, the password is
   set or the account is deleted: the failed mail of another request does not
   withdraw it. *)
MailedLinkStands ==
  [][/\ user # None /\ user' # None
     /\ user.link # None /\ fate[user.link] = "mailed"
     /\ user'.link = None
     => user'.version > user.version]_vars

(* The account as AccountLifecycle sees it: its row, the history of its links
   and guesses, and of every token that is still accepted the password its
   session was opened with. *)
Abstract == INSTANCE AccountLifecycle WITH
  secret     <- IF user = None THEN None ELSE user.password,
  mustChange <- user # None /\ user.mustChange,
  sessions   <- {t.secret : t \in {x \in issued : Current(x)}},
  lockout    <- IF user = None THEN "none" ELSE user.lockout,
  failures   <- IF user = None THEN 0 ELSE guesses,
  link       <- IF user = None THEN None ELSE user.link

(* Handlers that interleave, and act on what they read before, do to the
   account what they would have done one after the other: a login counts or
   opens its session at once, and whatever ends the sessions ends them all,
   those of renewals under way included. *)
ImplementsAccount == Abstract!Spec
=============================================================================

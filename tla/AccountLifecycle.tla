-------------------------- MODULE AccountLifecycle --------------------------
(***************************************************************************)
(* What the account handlers of server-go promise, with every request      *)
(* taking one step: a session lasts until the account ends its sessions,   *)
(* and belongs to the present password; wrong passwords are counted one by *)
(* one until they lock; a reset link goes from drawn to mailed to used or  *)
(* expired, and gives one password.  Accounts shows that the handlers,     *)
(* which run at the same time and hold what they have read, keep it.       *)
(***************************************************************************)
EXTENDS Naturals

CONSTANTS
  Password,     \* passwords that satisfy the policy
  Link,         \* password reset links that can be drawn
  None,         \* no password, or no link
  MaxAttempts,  \* Config.MaxLoginAttempts
  IsRoot        \* the account has role root

VARIABLES
  secret,      \* the password, None once the account is deleted
  mustChange,  \* the owner must change it
  sessions,    \* the passwords that the sessions still accepted were opened with
  lockout,     \* "none", "running", or "over": it ended and nobody tried since
  failures,    \* wrong passwords since the count last restarted
  link,        \* the reset link of the account
  fate         \* fate[l]: what became of reset link l

vars == <<secret, mustChange, sessions, lockout, failures, link, fate>>

Init ==
  /\ secret \in Password
  /\ mustChange = TRUE
  /\ sessions = {}
  /\ lockout = "none"
  /\ failures = 0
  /\ link = None
  /\ fate = [l \in Link |-> "fresh"]

-----------------------------------------------------------------------------
(* The right password, while no lockout runs. *)
LogIn ==
  /\ secret # None
  /\ lockout # "running"
  /\ sessions' = sessions \cup {secret}
  /\ lockout' = "none"
  /\ failures' = 0
  /\ UNCHANGED <<secret, mustChange, link, fate>>

(* A wrong one.  At the instant a lockout ends it may lock again at once. *)
Guess ==
  /\ secret # None
  /\ lockout # "running"
  /\ failures' = failures + 1
  /\ \/ lockout' = IF failures' >= MaxAttempts THEN "running" ELSE "none"
     \/ lockout = "over" /\ lockout' = "running"
  /\ UNCHANGED <<secret, mustChange, sessions, link, fate>>

LockoutEnds ==
  /\ lockout = "running"
  /\ lockout' = "over"
  /\ failures' = 0
  /\ UNCHANGED <<secret, mustChange, sessions, link, fate>>

(* A logout, or an administrator's change of the account. *)
EndSessions ==
  /\ secret # None
  /\ sessions' = {}
  /\ UNCHANGED <<secret, mustChange, lockout, failures, link, fate>>

(* A new password ends the sessions, the lockout and the link. *)
Becomes(p, temporary) ==
  /\ secret' = p
  /\ mustChange' = temporary
  /\ sessions' = {}
  /\ lockout' = "none"
  /\ failures' = 0
  /\ link' = None

(* By its owner, in a session that is still accepted. *)
ChangePassword(p) ==
  /\ sessions # {}
  /\ Becomes(p, FALSE)
  /\ UNCHANGED fate

(* By root, for the owner to change. *)
RootReset(p) ==
  /\ secret # None
  /\ Becomes(p, TRUE)
  /\ UNCHANGED fate

(* By whoever has the link of the account, before it expires. *)
UseLink(p) ==
  /\ link # None
  /\ fate[link] \in {"drawn", "mailed"}
  /\ Becomes(p, FALSE)
  /\ fate' = [fate EXCEPT ![link] = "used"]

(* Root cannot be deleted. *)
Delete ==
  /\ ~ IsRoot
  /\ secret # None
  /\ secret' = None
  /\ mustChange' = FALSE
  /\ sessions' = {}
  /\ lockout' = "none"
  /\ failures' = 0
  /\ link' = None
  /\ UNCHANGED fate

-----------------------------------------------------------------------------
(* A new link replaces the one there was; a deleted account gets none. *)
Draw(l) ==
  /\ fate[l] = "fresh"
  /\ fate' = [fate EXCEPT ![l] = "drawn"]
  /\ link' = IF secret = None THEN None ELSE l
  /\ UNCHANGED <<secret, mustChange, sessions, lockout, failures>>

Mail(l) ==
  /\ fate[l] = "drawn"
  /\ fate' = [fate EXCEPT ![l] = "mailed"]
  /\ UNCHANGED <<secret, mustChange, sessions, lockout, failures, link>>

(* Only a link that was not mailed is withdrawn. *)
Withdraw ==
  /\ link # None
  /\ fate[link] # "mailed"
  /\ link' = None
  /\ UNCHANGED <<secret, mustChange, sessions, lockout, failures, fate>>

Expire ==
  /\ link # None
  /\ fate' = [fate EXCEPT ![link] = "expired"]
  /\ UNCHANGED <<secret, mustChange, sessions, lockout, failures, link>>

Next ==
  \/ LogIn \/ Guess \/ LockoutEnds \/ EndSessions \/ Delete
  \/ \E p \in Password : ChangePassword(p) \/ RootReset(p) \/ UseLink(p)
  \/ \E l \in Link : Draw(l) \/ Mail(l)
  \/ Withdraw \/ Expire

Spec == Init /\ [][Next]_vars
=============================================================================

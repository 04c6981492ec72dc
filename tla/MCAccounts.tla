----------------------------- MODULE MCAccounts -----------------------------
(* Instances of Accounts for TLC. *)
EXTENDS Accounts, FiniteSets, TLC

(* Requests, passwords and links are interchangeable. *)
Symmetry == Permutations(Request) \cup Permutations(Password) \cup Permutations(Link)

Asking(ops) == {r \in Request : req[r].op \in ops}

(* The passwords that occur in the state. *)
Occurring ==
  (IF user = None THEN {} ELSE {user.password})
    \cup {t.secret : t \in issued}
    \cup {seen[r].password : r \in {q \in Request : seen[q] # None}}
    \cup {req[r].current : r \in Asking({"login", "change"})}
    \cup {req[r].new : r \in Asking({"change", "rootreset"})}
    \cup {req[r].token.secret : r \in Asking({"refresh", "logout", "change"})}

Drawn == {l \in Link : fate[l] # "fresh"}

(* Bounds: once a link is drawn, one password and one session at a time,  *)
(* and, once both are, no wrong password.                                  *)
Bound ==
  /\ Drawn # {} => Cardinality(Occurring) <= 1 /\ Cardinality(issued) <= 1
  /\ Drawn = Link => guesses = 0
=============================================================================

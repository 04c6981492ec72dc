-------------------------- MODULE MCClientSession --------------------------
(* ClientSession with two calls of one tab. *)
EXTENDS ClientSession

CONSTANTS t1, c1, c2

MCTabOf == [c \in {c1, c2} |-> t1]

(* Two calls at a time in the first session of an account in good order,   *)
(* one call beyond that: bounds the states, not what a call may meet.      *)
Bound == (\A c \in Call : call[c].stage # "idle") =>
           /\ account.opened = 1 /\ account.role = "operador" /\ ~account.must
           /\ page[t1].at \in {"operations", "login"}
=============================================================================

---------------------------- MODULE RateLimiter ----------------------------
(***************************************************************************)
(* The request limiter of internal/httpapi/app.go: a window per key in the *)
(* map a.limits, which a mutex guards.  The middleware limit counts every  *)
(* request under its address, those that carry credentials apart; login    *)
(* counts once more under address and user name.                           *)
(*                                                                         *)
(* The caller reads the clock before it waits for the mutex, so that       *)
(* requests may enter allowRequest in another order than their times.      *)
(***************************************************************************)
EXTENDS Integers, FiniteSets, Sequences

CONSTANTS
  Request,      \* requests in progress at a time
  Address,      \* what ClientIP returns
  Account,      \* user names
  None,         \* no window, no name
  Limit,        \* Limit[b]: requests a window of bucket b admits
  Ttl,          \* Ttl[b]: length of its windows
  MaxKeys,      \* keys the map holds at most: 10000 in the code
  Lag,          \* model bound: how long a request waits for the mutex
  MaxTime       \* model bound: the clock

Bucket == {"api", "auth", "account"}

(* The keys of a.limits: bucket, address and, in login, the user name. *)
Key == ({"api", "auth"} \X Address \X {None}) \cup ({"account"} \X Address \X Account)

(* A window: the requests it counts, and the last time at which it stands. *)
Window == [count : Nat \ {0}, until : Nat]

ASSUME RateAssumption ==
  /\ None \notin Account /\ None \notin Window
  /\ Limit \in [Bucket -> Nat \ {0}]
  /\ Ttl \in [Bucket -> Nat \ {0}]
  /\ MaxKeys \in Nat \ {0}
  /\ Lag \in Nat
  /\ MaxTime \in Nat

Time == 0..MaxTime

VARIABLES
  clock,     \* the present
  limits,    \* a.limits: limits[k] is a window or None
  pc,        \* pc[r]: where request r is
  key,       \* key[r]: the key it is counted under next
  now,       \* now[r]: the time it has read
  granted    \* granted[k]: history of what was admitted under k

vars == <<clock, limits, pc, key, now, granted>>

(* An admission: the time of the request, the end of the window that counted
   it, and its number there. *)
Admission == [at : Time, until : Nat, count : Nat \ {0}]

TypeOK ==
  /\ clock \in Time
  /\ limits \in [Key -> Window \cup {None}]
  /\ pc \in [Request -> {"idle", "timed"}]
  /\ key \in [Request -> Key \cup {None}]
  /\ now \in [Request -> Time]
  /\ granted \in [Key -> Seq(Admission)]
  /\ \A r \in Request : pc[r] = "timed" => key[r] \in Key

Init ==
  /\ clock = 0
  /\ limits = [k \in Key |-> None]
  /\ pc = [r \in Request |-> "idle"]
  /\ key = [r \in Request |-> None]
  /\ now = [r \in Request |-> 0]
  /\ granted = [k \in Key |-> <<>>]

(* Time passes; nobody waits longer than Lag for the mutex. *)
Tick ==
  /\ clock < MaxTime
  /\ \A r \in Request : pc[r] = "timed" => clock < now[r] + Lag
  /\ clock' = clock + 1
  /\ UNCHANGED <<limits, pc, key, now, granted>>

(* A request comes in: limit picks its bucket, and reads the clock. *)
Arrive(r) ==
  /\ pc[r] = "idle"
  /\ pc' = [pc EXCEPT ![r] = "timed"]
  /\ key' \in {[key EXCEPT ![r] = <<b, a, None>>] : b \in {"api", "auth"}, a \in Address}
  /\ now' = [now EXCEPT ![r] = clock]
  /\ UNCHANGED <<clock, limits, granted>>

(* Variant: windows are replaced only when their own key comes again. *)
LiveOwn(r) ==
  [k \in Key |-> IF k = key[r] /\ limits[k] # None /\ now[r] > limits[k].until
                   THEN None ELSE limits[k]]

(* The windows that allowRequest keeps. *)
Live(r) ==
  [k \in Key |-> IF limits[k] # None /\ now[r] > limits[k].until THEN None ELSE limits[k]]

(* The state it looks up: a new window opens at the time of the request. *)
State(live, k, t) ==
  IF live[k] # None THEN live[k] ELSE [count |-> 0, until |-> t + Ttl[k[1]]]

Held(live) == {k \in Key : live[k] # None}

(* Variants: one request too many, and no bound on the map. *)
OverLax(live, k, t) ==
  \/ State(live, k, t).count > Limit[k[1]]
  \/ Cardinality(Held(live)) >= MaxKeys /\ State(live, k, t).count = 0
OverUnbounded(live, k, t) == State(live, k, t).count >= Limit[k[1]]

(* Over the limit, or a new key when there is no room for one. *)
Over(live, k, t) ==
  \/ State(live, k, t).count >= Limit[k[1]]
  \/ Cardinality(Held(live)) >= MaxKeys /\ State(live, k, t).count = 0

(* allowRequest answers true.  A login goes on to be counted under its name,
   and reads the clock again. *)
Allow(r) ==
  LET live == Live(r)
      state == State(live, key[r], now[r])
  IN /\ pc[r] = "timed"
     /\ ~Over(live, key[r], now[r])
     /\ limits' = [live EXCEPT ![key[r]] = [state EXCEPT !.count = @ + 1]]
     /\ granted' = [granted EXCEPT ![key[r]] =
                      Append(@, [at |-> now[r], until |-> state.until, count |-> state.count + 1])]
     /\ \/ /\ key[r][1] = "auth"
           /\ key' \in {[key EXCEPT ![r] = <<"account", key[r][2], u>>] : u \in Account}
           /\ now' = [now EXCEPT ![r] = clock]
           /\ UNCHANGED pc
        \/ /\ pc' = [pc EXCEPT ![r] = "idle"]
           /\ key' = [key EXCEPT ![r] = None]
           /\ now' = [now EXCEPT ![r] = 0]
     /\ UNCHANGED clock

(* allowRequest answers false: RATE_LIMITED. *)
Deny(r) ==
  /\ pc[r] = "timed"
  /\ Over(Live(r), key[r], now[r])
  /\ limits' = Live(r)
  /\ pc' = [pc EXCEPT ![r] = "idle"]
  /\ key' = [key EXCEPT ![r] = None]
  /\ now' = [now EXCEPT ![r] = 0]
  /\ UNCHANGED <<clock, granted>>

Next ==
  \/ Tick
  \/ \E r \in Request : Arrive(r) \/ Allow(r) \/ Deny(r)

Spec == Init /\ [][Next]_vars

-----------------------------------------------------------------------------
(* Requests admitted under k with times in from..to. *)
Admitted(k, from, to) == Cardinality({i \in DOMAIN granted[k] : granted[k][i].at \in from..to})

(* However requests overlap, and wherever an interval as long as a window  *)
(* begins, no more than two windows' worth is admitted in it.  A request   *)
(* that waits for the mutex may open a window before the time the last one *)
(* ended: the interval is shorter by what two windows lose that way.       *)
AtMostTwice ==
  \A k \in Key, t \in Time :
    Admitted(k, t, t + Ttl[k[1]] + 1 - 2 * Lag) <= 2 * Limit[k[1]]

(* The map never outgrows its bound. *)
TableBounded == Cardinality(Held(limits)) <= MaxKeys

(* A key that admitted something in the window before t. *)
Busy(k, t) == Admitted(k, t - Ttl[k[1]] - Lag, MaxTime)

(* Nobody is denied for what is over: the key was used up in the last window,
   or as many keys as the map may hold were in use. *)
DenialIsEarned ==
  [][\A r \in Request :
       Deny(r) => \/ Busy(key[r], now[r]) >= Limit[key[r][1]]
                  \/ Cardinality({k \in Key : Busy(k, now[r]) > 0}) >= MaxKeys]_vars
=============================================================================

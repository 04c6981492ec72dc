-------------------------- MODULE RateLimiterProofs --------------------------
(***************************************************************************)
(* Proofs about the request limiter, for any requests, addresses and       *)
(* names, any limits and any bound on the map.  TableInv is inductive: the *)
(* bound holds because a window counts at least one request, so that a key *)
(* whose count is zero is a new one, for which Over asks for room.         *)
(*                                                                         *)
(* LimiterInv relates the windows to the history of admissions: a window   *)
(* numbers what it counts, and one that follows another was opened after   *)
(* some request saw the end of the first, by a request whose own time may  *)
(* be Lag before that.                                                     *)
(***************************************************************************)
EXTENDS RateLimiter, FiniteSetTheorems, TLAPS

TableInv == TypeOK /\ IsFiniteSet(Held(limits)) /\ TableBounded

(* A request holds a time of at most Lag ago. *)
Waits ==
  \A r \in Request : pc[r] = "timed" => now[r] <= clock /\ clock <= now[r] + Lag

(* A window that stands was opened in the past, and whatever it counts was *)
(* admitted, at most Lag before it was opened.                             *)
Counted(k) ==
  limits[k] # None =>
    /\ limits[k].until <= clock + Ttl[k[1]]
    /\ limits[k].count <= Limit[k[1]]
    /\ \A n \in 1..limits[k].count : \E i \in DOMAIN granted[k] :
         /\ granted[k][i].until = limits[k].until
         /\ granted[k][i].count = n
         /\ granted[k][i].at >= limits[k].until - Ttl[k[1]] - Lag

(* What was admitted was counted by the window that stands or by one whose *)
(* end is past.                                                            *)
History(k) ==
  \A i \in DOMAIN granted[k] :
    /\ granted[k][i].count <= Limit[k[1]]
    /\ granted[k][i].at <= granted[k][i].until
    /\ \/ granted[k][i].until < clock
       \/ limits[k] # None /\ granted[k][i].until = limits[k].until

(* The windows of a key follow each other: they end a window's length      *)
(* apart, but for Lag, the later one admits nothing from before the end of *)
(* the other, but for Lag, and each numbers its requests.                  *)
Separate(k) ==
  /\ \A i, j \in DOMAIN granted[k] :
       /\ /\ granted[k][i].until = granted[k][j].until
          /\ granted[k][i].count = granted[k][j].count
          => i = j
       /\ granted[k][i].until < granted[k][j].until =>
            /\ granted[k][i].until + Ttl[k[1]] + 1 - Lag <= granted[k][j].until
            /\ granted[k][i].until + 1 - Lag <= granted[k][j].at
  /\ limits[k] # None =>
       \A i \in DOMAIN granted[k] :
         /\ granted[k][i].until <= limits[k].until
         /\ granted[k][i].until = limits[k].until => granted[k][i].count <= limits[k].count

KeyInv(k) == Counted(k) /\ History(k) /\ (Lag <= Ttl[k[1]] => Separate(k))

Used == {k \in Key : granted[k] # <<>>}

LimiterInv ==
  /\ TableInv
  /\ Waits
  /\ IsFiniteSet(Used)
  /\ \A k \in Key : KeyInv(k)

LEMMA KeyParts ==
  ASSUME NEW k \in Key
  PROVE  k[1] \in Bucket /\ Limit[k[1]] \in Nat \ {0} /\ Ttl[k[1]] \in Nat \ {0}
<1>1. k[1] \in Bucket
  BY DEF Key, Bucket
<1> QED BY <1>1, RateAssumption

(* What allowRequest keeps are windows that were there. *)
LEMMA LiveType ==
  ASSUME TypeOK, NEW r \in Request
  PROVE  /\ Live(r) \in [Key -> Window \cup {None}]
         /\ Held(Live(r)) \subseteq Held(limits)
BY DEF Live, Held, TypeOK

LEMMA LiveBounded ==
  ASSUME TableInv, NEW r \in Request
  PROVE  /\ IsFiniteSet(Held(Live(r)))
         /\ Cardinality(Held(Live(r))) \in Nat
         /\ Cardinality(Held(Live(r))) <= MaxKeys
<1>1. Held(Live(r)) \subseteq Held(limits)
  BY LiveType DEF TableInv
<1>2. /\ IsFiniteSet(Held(Live(r)))
      /\ Cardinality(Held(Live(r))) <= Cardinality(Held(limits))
  BY <1>1, FS_Subset DEF TableInv
<1>3. Cardinality(Held(Live(r))) \in Nat /\ Cardinality(Held(limits)) \in Nat
  BY <1>2, FS_CardinalityType DEF TableInv
<1> QED BY <1>2, <1>3, RateAssumption DEF TableInv, TableBounded

LEMMA InitTable == Init => TableInv
<1> SUFFICES ASSUME Init PROVE TableInv
  OBVIOUS
<1>1. Held(limits) = {}
  BY DEF Init, Held
<1>2. IsFiniteSet(Held(limits)) /\ Cardinality(Held(limits)) = 0
  BY <1>1, FS_EmptySet
<1>3. TypeOK
  BY RateAssumption DEF Init, TypeOK, Time
<1> QED BY <1>2, <1>3, RateAssumption DEF TableInv, TableBounded

LEMMA TickStep ==
  ASSUME TableInv, Tick
  PROVE  TableInv'
BY RateAssumption DEF TableInv, TypeOK, Tick, Time, TableBounded, Held

LEMMA ArriveStep ==
  ASSUME TableInv, NEW r \in Request, Arrive(r)
  PROVE  TableInv'
<1>1. TypeOK'
  <2>1. /\ key \in [Request -> Key \cup {None}]
        /\ pc \in [Request -> {"idle", "timed"}]
        /\ now \in [Request -> Time]
        /\ clock \in Time
        /\ \A q \in Request : pc[q] = "timed" => key[q] \in Key
    BY DEF TableInv, TypeOK
  <2>2. PICK b \in {"api", "auth"}, a \in Address : key' = [key EXCEPT ![r] = <<b, a, None>>]
    BY DEF Arrive
  <2>3. <<b, a, None>> \in Key
    BY DEF Key
  <2>4. /\ key' \in [Request -> Key \cup {None}]
        /\ pc' \in [Request -> {"idle", "timed"}]
        /\ now' \in [Request -> Time]
        /\ \A q \in Request : pc'[q] = "timed" => key'[q] \in Key
    BY <2>1, <2>2, <2>3 DEF Arrive
  <2> QED BY <2>4 DEF Arrive, TableInv, TypeOK
<1> QED BY <1>1 DEF TableInv, Arrive, TableBounded, Held

LEMMA DenyStep ==
  ASSUME TableInv, NEW r \in Request, Deny(r)
  PROVE  TableInv'
<1>1. TypeOK'
  BY LiveType, RateAssumption DEF TableInv, TypeOK, Deny, Time
<1>2. Held(limits') = Held(Live(r))
  BY DEF Deny
<1> QED BY <1>1, <1>2, LiveBounded DEF TableInv, TableBounded, Held

LEMMA AllowType ==
  ASSUME TypeOK, NEW r \in Request, Allow(r)
  PROVE  TypeOK'
<1>1. key[r] \in Key /\ now[r] \in Time /\ Live(r) \in [Key -> Window \cup {None}]
  BY LiveType DEF Allow, TypeOK
<1>2. State(Live(r), key[r], now[r]).count \in Nat /\ State(Live(r), key[r], now[r]).until \in Nat
  BY <1>1, KeyParts, RateAssumption DEF State, Window, Time
<1>3. [State(Live(r), key[r], now[r]) EXCEPT !.count = @ + 1] \in Window
  BY <1>1, <1>2, KeyParts DEF State, Window
<1>4. limits' \in [Key -> Window \cup {None}]
  BY <1>1, <1>3 DEF Allow
<1>5. granted' \in [Key -> Seq(Admission)]
  <2>1. State(Live(r), key[r], now[r]).count + 1 \in Nat \ {0}
    BY <1>2
  <2>2. [at |-> now[r], until |-> State(Live(r), key[r], now[r]).until,
         count |-> State(Live(r), key[r], now[r]).count + 1] \in Admission
    BY <1>1, <1>2, <2>1 DEF Admission
  <2>3. Append(granted[key[r]],
               [at |-> now[r], until |-> State(Live(r), key[r], now[r]).until,
                count |-> State(Live(r), key[r], now[r]).count + 1]) \in Seq(Admission)
    BY <1>1, <2>2 DEF TypeOK
  <2> QED BY <1>1, <2>3 DEF Allow, TypeOK
<1>6. key' \in [Request -> Key \cup {None}] /\ (pc'[r] = "timed" => key'[r] \in Key)
  <2>1. ASSUME NEW u \in Account, key[r][1] = "auth"
        PROVE  <<"account", key[r][2], u>> \in Key
    BY <1>1, <2>1 DEF Key
  <2>2. key \in [Request -> Key \cup {None}] /\ pc \in [Request -> {"idle", "timed"}]
    BY DEF TypeOK
  <2>3. \/ /\ key[r][1] = "auth"
           /\ key' \in {[key EXCEPT ![r] = <<"account", key[r][2], u>>] : u \in Account}
        \/ key' = [key EXCEPT ![r] = None] /\ pc' = [pc EXCEPT ![r] = "idle"]
    BY DEF Allow
  <2> QED BY <2>1, <2>2, <2>3
<1>7. now' \in [Request -> Time] /\ pc' \in [Request -> {"idle", "timed"}]
  <2>1. 0 \in Time /\ clock \in Time
    BY RateAssumption DEF TypeOK, Time
  <2>2. \/ now' = [now EXCEPT ![r] = clock] /\ pc' = pc
        \/ now' = [now EXCEPT ![r] = 0] /\ pc' = [pc EXCEPT ![r] = "idle"]
    BY DEF Allow
  <2> QED BY <2>1, <2>2 DEF TypeOK
<1>8. \A q \in Request : q # r => key'[q] = key[q] /\ pc'[q] = pc[q]
  BY DEF Allow, TypeOK
<1> QED BY <1>4, <1>5, <1>6, <1>7, <1>8 DEF Allow, TypeOK

LEMMA AllowStep ==
  ASSUME TableInv, NEW r \in Request, Allow(r)
  PROVE  TableInv'
<1> DEFINE live == Live(r)
           k == key[r]
<1>1. TypeOK'
  BY AllowType DEF TableInv
<1>2. k \in Key /\ live \in [Key -> Window \cup {None}]
  BY LiveType DEF Allow, TableInv, TypeOK
<1>3. Held(limits') \subseteq Held(live) \cup {k}
  BY <1>2 DEF Allow, Held
<1>4. IsFiniteSet(Held(live)) /\ Cardinality(Held(live)) \in Nat /\ Cardinality(Held(live)) <= MaxKeys
  BY LiveBounded
<1>5. CASE k \in Held(live)
  <2>1. Held(limits') \subseteq Held(live)
    BY <1>3, <1>5
  <2>2. /\ IsFiniteSet(Held(limits'))
        /\ Cardinality(Held(limits')) <= Cardinality(Held(live))
    BY <1>4, <2>1, FS_Subset
  <2>3. Cardinality(Held(limits')) \in Nat
    BY <2>2, FS_CardinalityType
  <2> QED BY <1>1, <1>4, <2>2, <2>3, RateAssumption DEF TableInv, TableBounded, Held
<1>6. CASE k \notin Held(live)
  <2>1. State(live, k, now[r]).count = 0
    BY <1>2, <1>6 DEF State, Held
  <2>2. Cardinality(Held(live)) < MaxKeys
    BY <1>4, <2>1, RateAssumption DEF Allow, Over
  <2>3. /\ IsFiniteSet(Held(live) \cup {k})
        /\ Cardinality(Held(live) \cup {k}) = Cardinality(Held(live)) + 1
    BY <1>4, <1>6, FS_AddElement
  <2>4. /\ IsFiniteSet(Held(limits'))
        /\ Cardinality(Held(limits')) <= Cardinality(Held(live)) + 1
    BY <1>3, <2>3, FS_Subset
  <2>5. Cardinality(Held(limits')) \in Nat
    BY <2>4, FS_CardinalityType
  <2> QED BY <1>1, <1>4, <2>2, <2>4, <2>5, RateAssumption DEF TableInv, TableBounded, Held
<1> QED BY <1>5, <1>6

LEMMA NextTable == TableInv /\ [Next]_vars => TableInv'
<1> SUFFICES ASSUME TableInv, [Next]_vars PROVE TableInv'
  OBVIOUS
<1>1. CASE UNCHANGED vars
  BY <1>1 DEF TableInv, TypeOK, vars, TableBounded, Held
<1>2. CASE Tick
  BY <1>2, TickStep
<1>3. ASSUME NEW r \in Request, Arrive(r) \/ Allow(r) \/ Deny(r)
      PROVE  TableInv'
  BY <1>3, ArriveStep, AllowStep, DenyStep
<1> QED BY <1>1, <1>2, <1>3 DEF Next

-----------------------------------------------------------------------------
(* What a key's history keeps.                                             *)

(* What there is to know of an admission. *)
LEMMA AdmissionType ==
  ASSUME TypeOK, NEW k \in Key, NEW i \in DOMAIN granted[k]
  PROVE  /\ granted[k][i].at \in Nat
         /\ granted[k][i].until \in Nat
         /\ granted[k][i].count \in Nat \ {0}
<1>1. granted[k] \in Seq(Admission)
  BY DEF TypeOK
<1>2. granted[k][i] \in Admission
  BY <1>1
<1> QED BY <1>2, RateAssumption DEF Admission, Time

LEMMA WindowType ==
  ASSUME TypeOK, NEW k \in Key, limits[k] # None
  PROVE  limits[k].until \in Nat /\ limits[k].count \in Nat \ {0}
BY DEF TypeOK, Window

(* A key keeps its invariant while nothing is admitted under it: time may  *)
(* pass, and its window may be purged once its end is past.                *)
LEMMA KeptKey ==
  ASSUME TypeOK, clock' \in Nat, clock <= clock',
         NEW k \in Key, KeyInv(k),
         granted'[k] = granted[k],
         \/ limits'[k] = limits[k]
         \/ limits'[k] = None /\ \A i \in DOMAIN granted[k] : granted[k][i].until < clock
  PROVE  KeyInv(k)'
<1>0. clock \in Nat /\ Ttl[k[1]] \in Nat /\ Lag \in Nat
  BY KeyParts, RateAssumption DEF TypeOK, Time
<1>1. Counted(k)'
  BY <1>0, WindowType DEF KeyInv, Counted
<1>2. History(k)'
  BY <1>0, AdmissionType DEF KeyInv, History
<1>3. Lag <= Ttl[k[1]] => Separate(k)'
  BY DEF KeyInv, Separate
<1> QED BY <1>1, <1>2, <1>3 DEF KeyInv

(* What a request finds: the window that stands, or none, and then every   *)
(* window of the key is over.                                              *)
LEMMA Purged ==
  ASSUME LimiterInv, NEW r \in Request, pc[r] = "timed", NEW k \in Key
  PROVE  \/ /\ Live(r)[k] = limits[k] /\ limits[k] # None
            /\ now[r] <= limits[k].until
         \/ /\ Live(r)[k] = None
            /\ \A i \in DOMAIN granted[k] : granted[k][i].until < clock
<1>1. TypeOK /\ KeyInv(k) /\ now[r] <= clock
  BY DEF LimiterInv, TableInv, Waits
<1>2. now[r] \in Nat /\ clock \in Nat
  BY <1>1 DEF TypeOK, Time
<1>3. Live(r)[k] = IF limits[k] # None /\ now[r] > limits[k].until THEN None ELSE limits[k]
  BY DEF Live
<1>4. CASE limits[k] # None /\ ~(now[r] > limits[k].until)
  BY <1>1, <1>2, <1>3, <1>4, WindowType
<1>5. CASE limits[k] # None /\ now[r] > limits[k].until
  BY <1>1, <1>2, <1>3, <1>5, WindowType, AdmissionType DEF KeyInv, History
<1>6. CASE limits[k] = None
  BY <1>1, <1>3, <1>6 DEF KeyInv, History
<1> QED BY <1>4, <1>5, <1>6

(* allowRequest answers true: the window is the one that stands or, when   *)
(* all of them are over, one that ends Ttl after the time of the request.  *)
(* What Allow(r) does under its key k: the history is one admission longer, *)
(* counted by the window that stood or by a new one.                       *)
Admits(r, k) ==
  LET g == granted[k]
      n == Len(g) + 1
      w == limits'[k]
  IN /\ n \in Nat \ {0} /\ DOMAIN g = 1..n - 1 /\ DOMAIN granted'[k] = 1..n
     /\ \A i \in 1..n - 1 : granted'[k][i] = g[i]
     /\ granted'[k][n] = [at |-> now[r], until |-> w.until, count |-> w.count]
     /\ now[r] \in Nat /\ now[r] <= clock /\ clock <= now[r] + Lag /\ clock' = clock
     /\ w # None /\ w.count <= Limit[k[1]] /\ now[r] <= w.until
     /\ w.until \in Nat /\ w.count \in Nat \ {0}
     /\ \/ /\ limits[k] # None
           /\ w.until = limits[k].until /\ w.count = limits[k].count + 1
        \/ /\ w.until = now[r] + Ttl[k[1]] /\ w.count = 1
           /\ \A i \in 1..n - 1 : g[i].until < clock

LEMMA AdmittedFacts ==
  ASSUME LimiterInv, NEW r \in Request, Allow(r), NEW k \in Key, k = key[r]
  PROVE  Admits(r, k)
<1> DEFINE g == granted[k]
           n == Len(g) + 1
           s == State(Live(r), k, now[r])
           e == [at |-> now[r], until |-> s.until, count |-> s.count + 1]
           w == limits'[k]
<1>1. /\ TypeOK /\ KeyInv(k) /\ pc[r] = "timed" /\ k \in Key
      /\ now[r] <= clock /\ clock <= now[r] + Lag
  BY DEF LimiterInv, TableInv, Waits, Allow
<1>2. now[r] \in Nat /\ clock \in Nat /\ Ttl[k[1]] \in Nat /\ Limit[k[1]] \in Nat \ {0}
  BY <1>1, KeyParts DEF TypeOK, Time
<1>3. g \in Seq(Admission)
  BY <1>1 DEF TypeOK
<1>4. granted' = [granted EXCEPT ![k] = Append(g, e)]
  BY DEF Allow
<1>5. granted \in [Key -> Seq(Admission)]
  BY <1>1 DEF TypeOK
<1>6. granted'[k] = Append(g, e)
  BY <1>1, <1>4, <1>5
<1>7. Live(r) \in [Key -> Window \cup {None}]
  BY <1>1, LiveType
<1>8. w = [s EXCEPT !.count = @ + 1]
  BY <1>1, <1>7 DEF Allow
<1>9. s.count < Limit[k[1]]
  <2>1. ~(s.count >= Limit[k[1]])
    BY DEF Allow, Over
  <2>2. s.count \in Nat
    BY <1>1, <1>7 DEF State, Window
  <2> QED BY <1>2, <2>1, <2>2
<1>10. \/ /\ Live(r)[k] = limits[k] /\ limits[k] # None
          /\ now[r] <= limits[k].until
       \/ /\ Live(r)[k] = None
          /\ \A i \in DOMAIN g : g[i].until < clock
  BY <1>1, Purged
<1>11. /\ s \in [count : Nat, until : Nat]
       /\ now[r] <= s.until
       /\ \/ limits[k] # None /\ s = limits[k]
          \/ /\ s.until = now[r] + Ttl[k[1]] /\ s.count = 0
             /\ \A i \in DOMAIN g : g[i].until < clock
  <2>1. CASE Live(r)[k] # None
    <3>1. s = limits[k] /\ limits[k] # None /\ now[r] <= limits[k].until
      BY <1>10, <2>1 DEF State
    <3>2. limits[k] \in Window
      BY <1>1, <3>1 DEF TypeOK
    <3> QED BY <3>1, <3>2 DEF Window
  <2>2. CASE Live(r)[k] = None
    <3>1. s = [count |-> 0, until |-> now[r] + Ttl[k[1]]]
      BY <2>2 DEF State
    <3> QED BY <1>2, <1>10, <2>2, <3>1
  <2> QED BY <2>1, <2>2
<1>12. w.until = s.until /\ w.count = s.count + 1
  BY <1>8, <1>11
<1>13. e = [at |-> now[r], until |-> w.until, count |-> w.count]
  BY <1>12
<1>14. /\ n \in Nat \ {0} /\ DOMAIN g = 1..n - 1 /\ DOMAIN granted'[k] = 1..n
       /\ \A i \in 1..n - 1 : granted'[k][i] = g[i]
       /\ granted'[k][n] = e
  BY <1>3, <1>6
<1>15. w # None
  <2>1. w \in Window
    BY <1>8, <1>11 DEF Window
  <2> QED BY <2>1, RateAssumption
<1> HIDE DEF g, n, s, e, w
<1>16. clock' = clock
  BY DEF Allow
<1>17. \/ /\ limits[k] # None
          /\ w.until = limits[k].until /\ w.count = limits[k].count + 1
       \/ /\ w.until = now[r] + Ttl[k[1]] /\ w.count = 1
          /\ \A i \in 1..n - 1 : g[i].until < clock
  BY <1>11, <1>12, <1>14
<1>18. w.count <= Limit[k[1]] /\ now[r] <= w.until /\ w.until \in Nat /\ w.count \in Nat \ {0}
  BY <1>2, <1>9, <1>11, <1>12
<1> QED BY <1>1, <1>2, <1>13, <1>14, <1>15, <1>16, <1>17, <1>18 DEF Admits, g, n, w

LEMMA AdmittedCounted ==
  ASSUME LimiterInv, NEW r \in Request, Allow(r), NEW k \in Key, k = key[r]
  PROVE  Counted(k)' /\ History(k)'
<1> DEFINE g == granted[k]
           n == Len(g) + 1
           w == limits'[k]
<1>0. Admits(r, k)
  BY AdmittedFacts
<1>1. /\ clock' = clock
      /\ n \in Nat \ {0} /\ DOMAIN g = 1..n - 1 /\ DOMAIN granted'[k] = 1..n
      /\ \A i \in 1..n - 1 : granted'[k][i] = g[i]
      /\ granted'[k][n] = [at |-> now[r], until |-> w.until, count |-> w.count]
      /\ now[r] \in Nat /\ now[r] <= clock /\ clock <= now[r] + Lag
      /\ w # None /\ w.count <= Limit[k[1]] /\ now[r] <= w.until
      /\ w.until \in Nat /\ w.count \in Nat \ {0}
      /\ \/ /\ limits[k] # None
            /\ w.until = limits[k].until /\ w.count = limits[k].count + 1
         \/ /\ w.until = now[r] + Ttl[k[1]] /\ w.count = 1
            /\ \A i \in 1..n - 1 : g[i].until < clock
  BY <1>0 DEF Admits
<1>2. TypeOK /\ Counted(k) /\ History(k)
  BY <1>1 DEF LimiterInv, TableInv, KeyInv
<1>3. clock \in Nat /\ Ttl[k[1]] \in Nat /\ Lag \in Nat
  BY <1>1, <1>2, KeyParts, RateAssumption DEF TypeOK, Time
<1>4. \A i \in 1..n - 1 : g[i].until \in Nat /\ g[i].at \in Nat /\ g[i].count \in Nat
  BY <1>1, <1>2, AdmissionType
<1>5. limits[k] # None => limits[k].until \in Nat /\ limits[k].count \in Nat \ {0}
  BY <1>1, <1>2, WindowType
<1>6. n \in 1..n /\ \A i \in 1..n - 1 : i \in 1..n
  BY <1>1
<1>9. \A i \in 1..n - 1 :
        /\ g[i].count <= Limit[k[1]] /\ g[i].at <= g[i].until
        /\ g[i].until < clock \/ (limits[k] # None /\ g[i].until = limits[k].until)
  BY <1>1, <1>2 DEF History, g
<1>10. limits[k] # None =>
         \A c \in 1..limits[k].count : \E i \in DOMAIN g :
           /\ g[i].until = limits[k].until
           /\ g[i].count = c
           /\ g[i].at >= limits[k].until - Ttl[k[1]] - Lag
  BY <1>2 DEF Counted
<1>11. /\ granted'[k][n].until = w.until /\ granted'[k][n].count = w.count
       /\ granted'[k][n].at = now[r]
  BY <1>1
<1>12. \A i \in 1..n - 1 : granted'[k][i] = g[i]
  BY <1>1
<1>13. \/ limits[k] # None /\ w.until = limits[k].until /\ w.count = limits[k].count + 1
       \/ w.until = now[r] + Ttl[k[1]] /\ w.count = 1
  BY <1>1
<1>14. w.count \in Nat \ {0}
  BY <1>1
<1> HIDE DEF g, n, w
<1>7. Counted(k)'
  <2>1. w.until <= clock + Ttl[k[1]]
    <3>1. limits[k] # None => limits[k].until <= clock + Ttl[k[1]]
      BY <1>2 DEF Counted
    <3>2. now[r] \in Nat /\ now[r] <= clock
      BY <1>1
    <3> QED BY <1>3, <1>13, <3>1, <3>2
  <2>2. w.until - Ttl[k[1]] - Lag <= now[r]
    BY <1>1, <1>3, <2>1
  <2>3. ASSUME NEW c \in 1..w.count
        PROVE  \E i \in 1..n : /\ granted'[k][i].until = w.until
                               /\ granted'[k][i].count = c
                               /\ granted'[k][i].at >= w.until - Ttl[k[1]] - Lag
    <3>1. CASE c = w.count
      <4>1. /\ granted'[k][n].until = w.until /\ granted'[k][n].count = c
            /\ granted'[k][n].at >= w.until - Ttl[k[1]] - Lag
        BY <1>3, <1>11, <2>2, <3>1
      <4> QED BY <1>6, <4>1
    <3>2. CASE c # w.count
      <4>1. /\ limits[k] # None /\ w.until = limits[k].until
            /\ c \in 1..limits[k].count
        BY <1>5, <1>13, <1>14, <2>3, <3>2
      <4>2. PICK i \in DOMAIN g : /\ g[i].until = limits[k].until
                                  /\ g[i].count = c
                                  /\ g[i].at >= limits[k].until - Ttl[k[1]] - Lag
        BY <1>10, <4>1
      <4>3. i \in 1..n - 1
        BY <1>1
      <4> QED BY <1>6, <1>12, <4>1, <4>2, <4>3
    <3> QED BY <3>1, <3>2
  <2> QED BY <1>1, <2>1, <2>3 DEF Counted, w
<1>8. History(k)'
  <2>1. ASSUME NEW i \in 1..n
        PROVE  /\ granted'[k][i].count <= Limit[k[1]]
               /\ granted'[k][i].at <= granted'[k][i].until
               /\ \/ granted'[k][i].until < clock
                  \/ granted'[k][i].until = w.until
    <3>1. CASE i = n
      BY <1>1, <1>11, <3>1
    <3>2. CASE i # n
      <4>1. i \in 1..n - 1
        BY <1>1, <3>2
      <4>2. /\ g[i].count <= Limit[k[1]] /\ g[i].at <= g[i].until
            /\ g[i].until < clock \/ (limits[k] # None /\ g[i].until = limits[k].until)
        BY <1>9, <4>1
      <4>3. w.until = limits[k].until \/ g[i].until < clock
        BY <1>1, <4>1
      <4> QED BY <1>12, <4>1, <4>2, <4>3
    <3> QED BY <3>1, <3>2
  <2> QED BY <1>1, <2>1 DEF History, w
<1> QED BY <1>7, <1>8

LEMMA AdmittedSeparate ==
  ASSUME LimiterInv, NEW r \in Request, Allow(r), NEW k \in Key, k = key[r],
         Lag <= Ttl[k[1]]
  PROVE  Separate(k)'
<1> DEFINE g == granted[k]
           n == Len(g) + 1
           w == limits'[k]
           L == Ttl[k[1]]
<1>0. Admits(r, k)
  BY AdmittedFacts
<1>1. /\ clock' = clock
      /\ n \in Nat \ {0} /\ DOMAIN g = 1..n - 1 /\ DOMAIN granted'[k] = 1..n
      /\ \A i \in 1..n - 1 : granted'[k][i] = g[i]
      /\ granted'[k][n] = [at |-> now[r], until |-> w.until, count |-> w.count]
      /\ now[r] \in Nat /\ now[r] <= clock /\ clock <= now[r] + Lag
      /\ w # None /\ w.count <= Limit[k[1]] /\ now[r] <= w.until
      /\ w.until \in Nat /\ w.count \in Nat \ {0}
      /\ \/ /\ limits[k] # None
            /\ w.until = limits[k].until /\ w.count = limits[k].count + 1
         \/ /\ w.until = now[r] + Ttl[k[1]] /\ w.count = 1
            /\ \A i \in 1..n - 1 : g[i].until < clock
  BY <1>0 DEF Admits
<1>2. TypeOK /\ Counted(k) /\ History(k) /\ Separate(k)
  BY <1>1 DEF LimiterInv, TableInv, KeyInv
<1>3. clock \in Nat /\ L \in Nat \ {0} /\ Lag \in Nat /\ Lag <= L
  BY <1>1, <1>2, KeyParts, RateAssumption DEF TypeOK, Time
<1>4. \A i \in 1..n - 1 : g[i].until \in Nat /\ g[i].at \in Nat /\ g[i].count \in Nat
  BY <1>1, <1>2, AdmissionType
<1>5. limits[k] # None => limits[k].until \in Nat /\ limits[k].count \in Nat \ {0}
  BY <1>1, <1>2, WindowType
<1>6. \A i \in 1..n : i = n \/ i \in 1..n - 1
  BY <1>1
<1>7. \A i, j \in 1..n - 1 :
        /\ g[i].until = g[j].until /\ g[i].count = g[j].count => i = j
        /\ g[i].until < g[j].until =>
             /\ g[i].until + L + 1 - Lag <= g[j].until
             /\ g[i].until + 1 - Lag <= g[j].at
  BY <1>1, <1>2 DEF Separate, g, L
<1>8. limits[k] # None =>
        \A i \in 1..n - 1 :
          /\ g[i].until <= limits[k].until
          /\ g[i].until = limits[k].until => g[i].count <= limits[k].count
  BY <1>1, <1>2 DEF Separate, g
<1>9. limits[k] # None => \E i \in 1..n - 1 : g[i].until = limits[k].until
  <2>1. limits[k] # None => 1 \in 1..limits[k].count
    BY <1>5
  <2> QED BY <1>1, <1>2, <2>1 DEF Counted, g
<1>10. \A i \in 1..n - 1 :
         \/ g[i].until < clock
         \/ limits[k] # None /\ g[i].until = limits[k].until
  BY <1>1, <1>2 DEF History, g
<1> HIDE DEF g, n, w, L
(* An earlier admission and the new one. *)
<1>11. ASSUME NEW i \in 1..n - 1
       PROVE  /\ g[i].until <= w.until
              /\ g[i].until = w.until => g[i].count < w.count
              /\ g[i].until < w.until => /\ g[i].until + L + 1 - Lag <= w.until
                                         /\ g[i].until + 1 - Lag <= now[r]
  <2>1. CASE /\ limits[k] # None
             /\ w.until = limits[k].until /\ w.count = limits[k].count + 1
    <3>1. g[i].until <= w.until /\ (g[i].until = w.until => g[i].count < w.count)
      BY <1>4, <1>5, <1>8, <2>1
    <3>2. PICK j \in 1..n - 1 : g[j].until = limits[k].until
      BY <1>9, <2>1
    <3>3. g[i].until < w.until => g[i].until + L + 1 - Lag <= w.until
      BY <1>7, <2>1, <3>2
    <3>4. g[i].until < w.until => g[i].until < clock
      BY <1>4, <1>10, <2>1
    <3> QED BY <1>1, <1>3, <1>4, <3>1, <3>3, <3>4
  <2>2. CASE /\ w.until = now[r] + L /\ w.count = 1
             /\ \A q \in 1..n - 1 : g[q].until < clock
    <3>1. g[i].until + 1 <= clock /\ g[i].until \in Nat
      BY <1>3, <1>4, <2>2
    <3>2. clock <= now[r] + Lag /\ now[r] \in Nat
      BY <1>1
    <3>3. g[i].until + 1 <= now[r] + Lag
      BY <1>3, <3>1, <3>2
    <3>4. /\ g[i].until < w.until /\ g[i].until + L + 1 - Lag <= w.until
          /\ g[i].until + 1 - Lag <= now[r]
      BY <1>3, <2>2, <3>1, <3>2, <3>3
    <3> QED BY <1>1, <3>1, <3>4
  <2> QED BY <1>1, <2>1, <2>2 DEF g, L
<1>12. ASSUME NEW i \in 1..n, NEW j \in 1..n
       PROVE  /\ /\ granted'[k][i].until = granted'[k][j].until
                 /\ granted'[k][i].count = granted'[k][j].count
                 => i = j
              /\ granted'[k][i].until < granted'[k][j].until =>
                   /\ granted'[k][i].until + L + 1 - Lag <= granted'[k][j].until
                   /\ granted'[k][i].until + 1 - Lag <= granted'[k][j].at
  <2>1. granted'[k][n].until = w.until /\ granted'[k][n].count = w.count /\ granted'[k][n].at = now[r]
    BY <1>1
  <2>2. CASE i \in 1..n - 1 /\ j \in 1..n - 1
    BY <1>1, <1>7, <2>2
  <2>3. CASE i \in 1..n - 1 /\ j = n
    BY <1>1, <1>4, <1>11, <2>1, <2>3
  <2>4. CASE i = n /\ j \in 1..n - 1
    BY <1>1, <1>4, <1>11, <2>1, <2>4
  <2>5. CASE i = n /\ j = n
    BY <1>1, <2>1, <2>5
  <2> QED BY <1>6, <2>2, <2>3, <2>4, <2>5
<1>13. ASSUME NEW i \in 1..n
       PROVE  /\ granted'[k][i].until <= w.until
              /\ granted'[k][i].until = w.until => granted'[k][i].count <= w.count
  <2>1. CASE i = n
    BY <1>1, <2>1
  <2>2. CASE i \in 1..n - 1
    BY <1>1, <1>4, <1>11, <2>2
  <2> QED BY <1>6, <2>1, <2>2
<1> QED BY <1>1, <1>12, <1>13 DEF Separate, L, w

-----------------------------------------------------------------------------
(* The whole invariant.                                                    *)

LEMMA InitLimiter == Init => LimiterInv
<1> SUFFICES ASSUME Init PROVE LimiterInv
  OBVIOUS
<1>1. TableInv /\ Waits
  BY InitTable DEF Init, Waits
<1>2. Used = {} /\ IsFiniteSet(Used)
  BY FS_EmptySet DEF Init, Used
<1>3. ASSUME NEW k \in Key
      PROVE  KeyInv(k)
  BY DEF Init, KeyInv, Counted, History, Separate
<1> QED BY <1>1, <1>2, <1>3 DEF LimiterInv

LEMMA TickLimiter ==
  ASSUME LimiterInv, Tick
  PROVE  LimiterInv'
<1>1. TypeOK /\ TableInv'
  BY TickStep DEF LimiterInv, TableInv
<1>2. clock \in Nat /\ clock' = clock + 1 /\ Lag \in Nat /\ \A r \in Request : now[r] \in Nat
  BY <1>1, RateAssumption DEF TypeOK, Time, Tick
<1>3. Waits'
  BY <1>1, <1>2 DEF LimiterInv, Waits, Tick
<1>4. ASSUME NEW k \in Key
      PROVE  KeyInv(k)'
  BY <1>1, <1>2, <1>4, KeptKey DEF LimiterInv, Tick
<1>5. Used' = Used
  BY DEF Used, Tick
<1> QED BY <1>1, <1>3, <1>4, <1>5 DEF LimiterInv

LEMMA ArriveLimiter ==
  ASSUME LimiterInv, NEW r \in Request, Arrive(r)
  PROVE  LimiterInv'
<1>1. TypeOK /\ TableInv'
  BY ArriveStep DEF LimiterInv, TableInv
<1>2. clock \in Nat /\ clock' = clock /\ Lag \in Nat /\ now \in [Request -> Time] /\ pc \in [Request -> {"idle", "timed"}]
  BY <1>1, RateAssumption DEF TypeOK, Time, Arrive
<1>3. Waits'
  BY <1>1, <1>2 DEF LimiterInv, Waits, Arrive
<1>4. ASSUME NEW k \in Key
      PROVE  KeyInv(k)'
  BY <1>1, <1>2, <1>4, KeptKey DEF LimiterInv, Arrive
<1>5. Used' = Used
  BY DEF Used, Arrive
<1> QED BY <1>1, <1>3, <1>4, <1>5 DEF LimiterInv

LEMMA DenyLimiter ==
  ASSUME LimiterInv, NEW r \in Request, Deny(r)
  PROVE  LimiterInv'
<1>1. TypeOK /\ TableInv'
  BY DenyStep DEF LimiterInv, TableInv
<1>2. clock \in Nat /\ clock' = clock /\ pc[r] = "timed" /\ limits' = Live(r) /\ granted' = granted
  BY <1>1, RateAssumption DEF TypeOK, Time, Deny
<1>3. Waits'
  BY <1>1, <1>2 DEF LimiterInv, Waits, Deny, TypeOK
<1>4. ASSUME NEW k \in Key
      PROVE  KeyInv(k)'
  <2>1. \/ limits'[k] = limits[k]
        \/ limits'[k] = None /\ \A i \in DOMAIN granted[k] : granted[k][i].until < clock
    BY <1>2, Purged
  <2> QED BY <1>1, <1>2, <2>1, KeptKey DEF LimiterInv
<1>5. Used' = Used
  BY <1>2 DEF Used
<1> QED BY <1>1, <1>3, <1>4, <1>5 DEF LimiterInv

LEMMA AllowLimiter ==
  ASSUME LimiterInv, NEW r \in Request, Allow(r)
  PROVE  LimiterInv'
<1>1. TypeOK /\ TableInv' /\ key[r] \in Key /\ pc[r] = "timed"
  BY AllowStep DEF LimiterInv, TableInv, TypeOK, Allow
<1>2. clock \in Nat /\ clock' = clock /\ Lag \in Nat
  BY <1>1, RateAssumption DEF TypeOK, Time, Allow
<1>3. Waits'
  <2>1. \/ now' = [now EXCEPT ![r] = clock] /\ pc' = pc
        \/ now' = [now EXCEPT ![r] = 0] /\ pc' = [pc EXCEPT ![r] = "idle"]
    BY DEF Allow
  <2>2. now \in [Request -> Time] /\ pc \in [Request -> {"idle", "timed"}]
    BY <1>1 DEF TypeOK
  <2>3. clock' <= clock' + Lag
    BY <1>2
  <2>4. ASSUME NEW q \in Request, pc'[q] = "timed"
        PROVE  now'[q] <= clock' /\ clock' <= now'[q] + Lag
    <3>1. CASE q # r
      BY <1>2, <2>1, <2>2, <2>4, <3>1 DEF LimiterInv, Waits
    <3>2. CASE q = r
      BY <1>2, <2>1, <2>2, <2>3, <2>4, <3>2
    <3> QED BY <3>1, <3>2
  <2> QED BY <2>4 DEF Waits
<1>4. ASSUME NEW k \in Key
      PROVE  KeyInv(k)'
  <2>1. CASE k = key[r]
    BY <1>1, <2>1, AdmittedCounted, AdmittedSeparate DEF KeyInv
  <2>2. CASE k # key[r]
    <3>1. granted'[k] = granted[k] /\ limits'[k] = Live(r)[k]
      <4>1. granted \in [Key -> Seq(Admission)] /\ Live(r) \in [Key -> Window \cup {None}]
        BY <1>1, LiveType DEF TypeOK
      <4> QED BY <2>2, <4>1 DEF Allow
    <3>2. \/ limits'[k] = limits[k]
          \/ limits'[k] = None /\ \A i \in DOMAIN granted[k] : granted[k][i].until < clock
      BY <1>1, <3>1, Purged
    <3> QED BY <1>1, <1>2, <3>1, <3>2, KeptKey DEF LimiterInv
  <2> QED BY <2>1, <2>2
<1>5. IsFiniteSet(Used')
  <2>1. granted \in [Key -> Seq(Admission)]
    BY <1>1 DEF TypeOK
  <2>2. Used' \subseteq Used \cup {key[r]}
    BY <2>1 DEF Used, Allow
  <2>3. IsFiniteSet(Used \cup {key[r]})
    BY FS_AddElement DEF LimiterInv
  <2> QED BY <2>2, <2>3, FS_Subset
<1> QED BY <1>1, <1>3, <1>4, <1>5 DEF LimiterInv

LEMMA NextLimiter == LimiterInv /\ [Next]_vars => LimiterInv'
<1> SUFFICES ASSUME LimiterInv, [Next]_vars PROVE LimiterInv'
  OBVIOUS
<1>1. CASE UNCHANGED vars
  <2>1. TableInv'
    BY <1>1, NextTable DEF LimiterInv
  <2> QED BY <1>1, <2>1 DEF vars, LimiterInv, Waits, Used, KeyInv, Counted, History, Separate
<1>2. CASE Tick
  BY <1>2, TickLimiter
<1>3. ASSUME NEW r \in Request, Arrive(r) \/ Allow(r) \/ Deny(r)
      PROVE  LimiterInv'
  BY <1>3, ArriveLimiter, AllowLimiter, DenyLimiter
<1> QED BY <1>1, <1>2, <1>3 DEF Next

-----------------------------------------------------------------------------
(* Counting what was admitted.                                             *)

(* A window admits no more than its limit. *)
LEMMA OneWindow ==
  ASSUME LimiterInv, NEW k \in Key, Lag <= Ttl[k[1]], NEW u,
         NEW S, S \subseteq DOMAIN granted[k], \A i \in S : granted[k][i].until = u
  PROVE  /\ IsFiniteSet(S) /\ Cardinality(S) \in Nat
         /\ Cardinality(S) <= Limit[k[1]]
<1> DEFINE f == [i \in S |-> granted[k][i].count]
           T == 1..Limit[k[1]]
<1>1. TypeOK /\ History(k) /\ Separate(k) /\ Limit[k[1]] \in Nat
  BY KeyParts DEF LimiterInv, TableInv, KeyInv
<1>2. \A i \in S : granted[k][i].count \in T
  BY <1>1, AdmissionType DEF History
<1>3. \A i, j \in S : granted[k][i].count = granted[k][j].count => i = j
  BY <1>1 DEF Separate
<1>4. f \in Injection(S, T)
  BY <1>2, <1>3 DEF Injection, IsInjective
<1>5. IsFiniteSet(T) /\ Cardinality(T) = Limit[k[1]]
  <2>1. Limit[k[1]] \in Int /\ 1 \in Int /\ Limit[k[1]] >= 1
    BY <1>1, KeyParts
  <2>2. /\ IsFiniteSet(T)
        /\ Cardinality(T) = IF 1 > Limit[k[1]] THEN 0 ELSE Limit[k[1]] - 1 + 1
    BY <2>1, FS_Interval
  <2> HIDE DEF T
  <2> QED BY <2>1, <2>2
<1> HIDE DEF f, T
<1>6. IsFiniteSet(S) /\ Cardinality(S) <= Cardinality(T)
  BY <1>4, <1>5, FS_Injection
<1> QED BY <1>5, <1>6, FS_CardinalityType

(* Admissions of three windows are too far apart for the interval. *)
LEMMA TwoWindows ==
  ASSUME LimiterInv, NEW k \in Key, Lag <= Ttl[k[1]], NEW t \in Nat,
         NEW h \in DOMAIN granted[k], NEW i \in DOMAIN granted[k], NEW j \in DOMAIN granted[k],
         granted[k][h].until < granted[k][i].until,
         granted[k][i].until < granted[k][j].until,
         granted[k][h].at \in t..t + Ttl[k[1]] + 1 - 2 * Lag,
         granted[k][j].at \in t..t + Ttl[k[1]] + 1 - 2 * Lag
  PROVE  FALSE
<1>1. TypeOK /\ History(k) /\ Separate(k)
  BY DEF LimiterInv, TableInv, KeyInv
<1>2. /\ granted[k][h].at <= granted[k][h].until
      /\ granted[k][h].until + Ttl[k[1]] + 1 - Lag <= granted[k][i].until
      /\ granted[k][i].until + 1 - Lag <= granted[k][j].at
  BY <1>1 DEF History, Separate
<1>3. /\ granted[k][h].at \in Nat /\ granted[k][h].until \in Nat /\ granted[k][i].until \in Nat
      /\ granted[k][j].at \in Nat /\ Ttl[k[1]] \in Nat /\ Lag \in Nat
  BY <1>1, AdmissionType, KeyParts, RateAssumption
<1> QED BY <1>2, <1>3

LEMMA IntervalBounded ==
  ASSUME LimiterInv, NEW k \in Key, NEW t \in Time
  PROVE  Admitted(k, t, t + Ttl[k[1]] + 1 - 2 * Lag) <= 2 * Limit[k[1]]
<1> DEFINE D == {i \in DOMAIN granted[k] : granted[k][i].at \in t..t + Ttl[k[1]] + 1 - 2 * Lag}
<1>1. TypeOK /\ t \in Nat /\ Limit[k[1]] \in Nat \ {0} /\ Ttl[k[1]] \in Nat \ {0} /\ Lag \in Nat
  BY KeyParts, RateAssumption DEF LimiterInv, TableInv, Time
<1>2. Admitted(k, t, t + Ttl[k[1]] + 1 - 2 * Lag) = Cardinality(D)
  BY DEF Admitted
<1>5. \A q \in D : /\ q \in DOMAIN granted[k]
                   /\ granted[k][q].at \in t..t + Ttl[k[1]] + 1 - 2 * Lag
  OBVIOUS
<1> HIDE DEF D
<1>3. CASE D = {}
  <2>1. Cardinality(D) = 0
    BY <1>3, FS_EmptySet
  <2> QED BY <1>1, <1>2, <2>1
<1>4. CASE D # {}
  <2>1. PICK i \in D : TRUE
    BY <1>4
  <2>2. Lag <= Ttl[k[1]]
    <3>1. t <= t + Ttl[k[1]] + 1 - 2 * Lag
      BY <1>1, <1>5, <2>1, AdmissionType
    <3> QED BY <1>1, <3>1
  <2> DEFINE U(q) == granted[k][q].until
             S == {q \in D : U(q) = U(i)}
  <2>3. \A q \in D : U(q) \in Nat
    BY <1>1, <1>5, AdmissionType
  <2>4. IsFiniteSet(S) /\ Cardinality(S) \in Nat /\ Cardinality(S) <= Limit[k[1]]
    <3>1. S \subseteq DOMAIN granted[k] /\ \A q \in S : granted[k][q].until = U(i)
      BY <1>5
    <3> HIDE DEF S
    <3> QED BY <2>2, <3>1, OneWindow
  <2>5. CASE D = S
    <3> HIDE DEF S
    <3> QED BY <1>1, <1>2, <2>4, <2>5
  <2>6. CASE D # S
    <3>1. PICK j \in D : U(j) # U(i)
      BY <2>6
    <3> DEFINE T == {q \in D : U(q) = U(j)}
    <3>2. IsFiniteSet(T) /\ Cardinality(T) \in Nat /\ Cardinality(T) <= Limit[k[1]]
      <4>1. T \subseteq DOMAIN granted[k] /\ \A q \in T : granted[k][q].until = U(j)
        BY <1>5
      <4> HIDE DEF T
      <4> QED BY <2>2, <4>1, OneWindow
    <3>3. ASSUME NEW q \in D, U(q) # U(i), U(q) # U(j)
          PROVE  FALSE
      <4>1. ASSUME NEW a \in D, NEW b \in D, NEW c \in D, U(a) < U(b), U(b) < U(c)
            PROVE  FALSE
        BY <1>1, <1>5, <2>2, <4>1, TwoWindows
      <4>2. U(i) \in Nat /\ U(j) \in Nat /\ U(q) \in Nat
        BY <2>3
      <4> HIDE DEF U
      <4> QED BY <2>1, <3>1, <3>3, <4>1, <4>2
    <3>4. D = S \cup T
      BY <3>3
    <3>5. IsFiniteSet(S \cup T) /\ Cardinality(S \cup T) = Cardinality(S) + Cardinality(T) - Cardinality(S \cap T)
      BY <2>4, <3>2, FS_Union
    <3>6. Cardinality(S \cap T) \in Nat
      <4>1. S \cap T = {}
        BY <3>1
      <4>2. Cardinality({}) = 0
        BY FS_EmptySet
      <4> HIDE DEF S, T
      <4> QED BY <4>1, <4>2
    <3> HIDE DEF S, T
    <3> QED BY <1>1, <1>2, <2>4, <3>2, <3>4, <3>5, <3>6
  <2> QED BY <2>5, <2>6
<1> QED BY <1>3, <1>4

-----------------------------------------------------------------------------
(* What a denial shows.                                                    *)

(* A window that a request finds open counts admissions that are recent    *)
(* for it.                                                                 *)
LEMMA OpenWindowBusy ==
  ASSUME LimiterInv, NEW k \in Key, limits[k] # None,
         NEW t \in Nat, t <= limits[k].until
  PROVE  Busy(k, t) \in Nat /\ Busy(k, t) >= limits[k].count
<1> DEFINE D == {i \in DOMAIN granted[k] : granted[k][i].at \in t - Ttl[k[1]] - Lag..MaxTime}
           c == limits[k].count
           Nth(n, i) == granted[k][i].until = limits[k].until /\ granted[k][i].count = n
           f == [n \in 1..c |-> CHOOSE i \in D : granted[k][i].count = n]
<1>1. TypeOK /\ Counted(k)
  BY DEF LimiterInv, TableInv, KeyInv
<1>2. /\ c \in Nat \ {0} /\ limits[k].until \in Nat
      /\ Ttl[k[1]] \in Nat /\ Lag \in Nat /\ MaxTime \in Nat
  BY <1>1, WindowType, KeyParts, RateAssumption
<1>3. Busy(k, t) = Cardinality(D)
  BY DEF Busy, Admitted
<1>4. granted[k] \in Seq(Admission)
  BY <1>1 DEF TypeOK
<1>5. IsFiniteSet(D) /\ Cardinality(D) \in Nat
  <2>1. Len(granted[k]) \in Nat /\ DOMAIN granted[k] = 1..Len(granted[k])
    BY <1>4
  <2>2. IsFiniteSet(1..Len(granted[k]))
    BY <2>1, FS_Interval
  <2>3. D \subseteq 1..Len(granted[k])
    BY <2>1
  <2> HIDE DEF D
  <2> QED BY <2>2, <2>3, FS_Subset, FS_CardinalityType
<1>6. ASSUME NEW n \in 1..c
      PROVE  \E i \in D : granted[k][i].count = n
  <2>1. PICK i \in DOMAIN granted[k] : /\ granted[k][i].count = n
                                      /\ granted[k][i].at >= limits[k].until - Ttl[k[1]] - Lag
    BY <1>1 DEF Counted
  <2>2. granted[k][i] \in Admission
    BY <1>4
  <2>3. granted[k][i].at \in 0..MaxTime
    BY <2>2 DEF Admission, Time
  <2>4. granted[k][i].at \in t - Ttl[k[1]] - Lag..MaxTime
    BY <1>2, <2>1, <2>3
  <2> QED BY <2>1, <2>4
<1> HIDE DEF D, c
<1>7. \A n \in 1..c : f[n] \in D /\ granted[k][f[n]].count = n
  BY <1>6
<1>8. f \in Injection(1..c, D)
  BY <1>7 DEF Injection, IsInjective
<1>9. Cardinality(1..c) = c
  <2>1. c \in Int /\ 1 \in Int /\ c >= 1
    BY <1>2
  <2>2. Cardinality(1..c) = IF 1 > c THEN 0 ELSE c - 1 + 1
    BY <2>1, FS_Interval
  <2> QED BY <2>1, <2>2
<1> HIDE DEF f
<1>10. Cardinality(1..c) <= Cardinality(D)
  BY <1>5, <1>8, FS_Injection
<1> QED BY <1>2, <1>3, <1>5, <1>9, <1>10 DEF c

LEMMA DenialEarned ==
  ASSUME LimiterInv, NEW r \in Request, Deny(r)
  PROVE  \/ Busy(key[r], now[r]) >= Limit[key[r][1]]
         \/ Cardinality({k \in Key : Busy(k, now[r]) > 0}) >= MaxKeys
<1> DEFINE live == Live(r)
           B == {k \in Key : Busy(k, now[r]) > 0}
<1>1. /\ TypeOK /\ TableInv /\ pc[r] = "timed" /\ key[r] \in Key /\ now[r] \in Nat
      /\ MaxKeys \in Nat
  BY RateAssumption DEF LimiterInv, TableInv, TypeOK, Deny, Time
<1>2. ASSUME NEW k \in Key, live[k] # None
      PROVE  /\ live[k] = limits[k] /\ limits[k].count \in Nat \ {0}
             /\ Busy(k, now[r]) \in Nat /\ Busy(k, now[r]) >= limits[k].count
  <2>1. live[k] = limits[k] /\ limits[k] # None /\ now[r] <= limits[k].until
    BY <1>1, <1>2, Purged
  <2> QED BY <1>1, <2>1, OpenWindowBusy, WindowType
<1>3. CASE State(live, key[r], now[r]).count >= Limit[key[r][1]]
  <2>1. live[key[r]] # None
    <3>1. Limit[key[r][1]] \in Nat \ {0}
      BY <1>1, KeyParts
    <3> QED BY <1>3, <3>1 DEF State
  <2>2. limits[key[r]].count >= Limit[key[r][1]]
    BY <1>1, <1>2, <1>3, <2>1 DEF State
  <2>3. Limit[key[r][1]] \in Nat
    BY <1>1, KeyParts
  <2> QED BY <1>1, <1>2, <2>1, <2>2, <2>3
<1>4. CASE Cardinality(Held(live)) >= MaxKeys
  <2>1. Held(live) \subseteq B
    <3>1. ASSUME NEW k \in Key, live[k] # None
          PROVE  Busy(k, now[r]) > 0
      BY <1>2, <3>1
    <3> QED BY <3>1 DEF Held
  <2>2. B \subseteq Used
    <3>1. ASSUME NEW k \in Key, granted[k] = <<>>
          PROVE  Busy(k, now[r]) = 0
      <4>1. {i \in DOMAIN granted[k] : granted[k][i].at \in now[r] - Ttl[k[1]] - Lag..MaxTime} = {}
        BY <3>1
      <4> QED BY <4>1, FS_EmptySet DEF Busy, Admitted
    <3> QED BY <3>1 DEF Used
  <2>3. IsFiniteSet(B)
    BY <2>2, FS_Subset DEF LimiterInv
  <2>4. Cardinality(Held(live)) <= Cardinality(B)
    BY <2>1, <2>3, FS_Subset
  <2>5. Cardinality(Held(live)) \in Nat /\ Cardinality(B) \in Nat
    BY <1>1, <2>3, LiveBounded, FS_CardinalityType
  <2> HIDE DEF B, live
  <2>6. Cardinality(B) >= MaxKeys
    BY <1>1, <1>4, <2>4, <2>5
  <2> QED BY <2>6 DEF B
<1> QED BY <1>3, <1>4 DEF Deny, Over

-----------------------------------------------------------------------------
(* The map of the limiter is well typed and finite, whatever comes in. *)
THEOREM LimiterInvariant == Spec => []TableInv
BY InitTable, NextTable, PTL DEF Spec

(* The variables keep their types: no window is there without a request it
   counts, and times stay within the clock. *)
THEOREM LimiterTypeCorrect == Spec => []TypeOK
<1>1. TableInv => TypeOK
  BY DEF TableInv
<1> QED BY <1>1, LimiterInvariant, PTL

(* TableBounded: allowRequest never lets a.limits grow beyond its bound,   *)
(* for any bound, any number of requests and any order of their times.     *)
THEOREM LimiterTableBounded == Spec => []TableBounded
<1>1. TableInv => TableBounded
  BY DEF TableInv
<1> QED BY <1>1, LimiterInvariant, PTL

(* AtMostTwice: in no interval as long as a window, less what two requests *)
(* may have waited for the mutex, are more than two windows' worth of      *)
(* requests admitted under a key, for any limits, windows and overlap of   *)
(* requests.                                                               *)
THEOREM LimiterAtMostTwice == Spec => []AtMostTwice
<1>1. Init => LimiterInv
  BY InitLimiter
<1>2. LimiterInv /\ [Next]_vars => LimiterInv'
  BY NextLimiter
<1>3. LimiterInv => AtMostTwice
  BY IntervalBounded DEF AtMostTwice
<1> QED BY <1>1, <1>2, <1>3, PTL DEF Spec

(* DenialIsEarned: allowRequest turns a request away only for admissions   *)
(* recent enough to count against it, its own key's or, when the map is    *)
(* full, those of as many keys as the map may hold.                        *)
THEOREM LimiterDenialIsEarned == Spec => DenialIsEarned
<1>1. Init => LimiterInv
  BY InitLimiter
<1>2. LimiterInv /\ [Next]_vars => LimiterInv'
  BY NextLimiter
<1>3. LimiterInv /\ [Next]_vars =>
        [\A r \in Request :
           Deny(r) => \/ Busy(key[r], now[r]) >= Limit[key[r][1]]
                      \/ Cardinality({k \in Key : Busy(k, now[r]) > 0}) >= MaxKeys]_vars
  BY DenialEarned
<1> QED BY <1>1, <1>2, <1>3, PTL DEF Spec, DenialIsEarned
=============================================================================

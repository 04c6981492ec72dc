------------------------------ MODULE EventHub ------------------------------
(***************************************************************************)
(* How a browser learns of a change: publish and visitEvents of            *)
(* internal/httpapi/events.go, which run in one goroutine per request and  *)
(* per stream over the map a.events, and the client's useVisitEvents.ts,   *)
(* which invalidates the lists it shows.                                   *)
(*                                                                         *)
(* Every event makes the client load its lists again, whatever the event   *)
(* says: an event is a token, and a list is the number of committed        *)
(* changes it shows.  Loading is React Query's: an invalidation drops the  *)
(* answer of a load that is under way and starts another, if there is data *)
(* to show meanwhile; the first load of a list goes on, and its answer     *)
(* counts as up to date.                                                   *)
(***************************************************************************)
EXTENDS Naturals, FiniteSets

CONSTANTS
  Client,       \* browser tabs that call useVisitEvents
  Conn,         \* connections: streams running at the same time
  None,         \* no connection
  Capacity,     \* buffer of a stream's channel: 16 in the code
  MaxStreams,   \* len(a.events) at which a stream is refused: 256
  MaxAttempts,  \* maxReconnectAttempts: 5
  MaxChanges    \* model bound: changes made to the visits

ASSUME HubAssumption ==
  /\ None \notin Conn
  /\ Capacity \in Nat \ {0}
  /\ MaxStreams \in Nat
  /\ MaxAttempts \in Nat \ {0}
  /\ MaxChanges \in Nat

VARIABLES
  changes,     \* changes committed so far
  pending,     \* committed changes whose publish has not run yet
  due,         \* the latest change that was published or cut off by a crash
  registered,  \* a.events: the connections whose channel it holds
  queue,       \* queue[k]: events in the channel of connection k
  serving,     \* connections with a running visitEvents
  wire,        \* connections with an event on the way to the browser
  mode,        \* mode[c]: where the effect of useVisitEvents is
  conn,        \* conn[c]: the connection client c reads from
  attempts,    \* attempts[c]: its failed attempts in a row
  load,        \* load[c]: what became of the latest load of its lists
  got,         \* got[c]: changes in the answer of that load
  view,        \* view[c]: changes its lists show
  loaded,      \* loaded[c]: React Query holds lists, of now or of an earlier page
  missed       \* missed[c]: history: the latest invalidation came in a first load
               \*   that had been answered, and nothing was loaded since

server == <<pending, due, registered, queue, serving>>
lists == <<load, got, view, loaded, missed>>
client == <<mode, conn, attempts, lists>>
vars == <<changes, server, wire, client>>

TypeOK ==
  /\ changes \in 0..MaxChanges
  /\ pending \subseteq 1..changes
  /\ due \in 0..changes
  /\ registered \subseteq serving
  /\ queue \in [Conn -> 0..Capacity]
  /\ serving \subseteq Conn
  /\ wire \subseteq Conn
  /\ mode \in [Client -> {"connecting", "streaming", "waiting", "polling", "gone"}]
  /\ conn \in [Client -> Conn \cup {None}]
  /\ attempts \in [Client -> 0..MaxAttempts]
  /\ load \in [Client -> {"none", "asked", "answered", "failed"}]
  /\ got \in [Client -> 0..changes]
  /\ view \in [Client -> 0..changes]
  /\ loaded \in [Client -> BOOLEAN]
  /\ missed \in [Client -> BOOLEAN]

(* The page is shown: lists that are not held, or held for 10 s, are loaded. *)
Init ==
  /\ changes = 0 /\ pending = {} /\ due = 0
  /\ registered = {} /\ serving = {} /\ wire = {}
  /\ queue = [k \in Conn |-> 0]
  /\ mode = [c \in Client |-> "connecting"]
  /\ conn = [c \in Client |-> None]
  /\ attempts = [c \in Client |-> 0]
  /\ loaded \in [Client -> BOOLEAN]
  /\ load \in {l \in [Client -> {"none", "asked"}] : \A c \in Client : ~loaded[c] => l[c] = "asked"}
  /\ got = [c \in Client |-> 0]
  /\ view = [c \in Client |-> 0]
  /\ missed = [c \in Client |-> FALSE]

-----------------------------------------------------------------------------
(* A handler commits, and publishes next; not if COMMIT succeeds and its answer
   is lost, which the handler takes for a failure. *)
Commit ==
  /\ changes < MaxChanges
  /\ changes' = changes + 1
  /\ pending' \in {pending, pending \cup {changes + 1}}
  /\ UNCHANGED <<due, registered, queue, serving, wire, client>>

(* publish, under the mutex: an event into every channel; a full one is closed
   and forgotten. *)
Publish(n) ==
  /\ n \in pending
  /\ queue' = [k \in Conn |-> IF k \in registered /\ queue[k] < Capacity
                                THEN queue[k] + 1 ELSE queue[k]]
  /\ registered' = {k \in registered : queue[k] < Capacity}
  /\ pending' = pending \ {n}
  /\ due' = IF n > due THEN n ELSE due
  /\ UNCHANGED <<changes, serving, wire, client>>

(* visitEvents registers its channel for client c, unless there are too many;
   then, and on every other failure, see Refused. *)
Open(c) ==
  /\ mode[c] = "connecting"
  /\ conn[c] = None
  /\ Cardinality(registered) < MaxStreams
  /\ \E k \in Conn \ serving :
       /\ \A d \in Client : conn[d] # k
       /\ registered' = registered \cup {k}
       /\ serving' = serving \cup {k}
       /\ queue' = [queue EXCEPT ![k] = 0]
       /\ wire' = wire \ {k}
       /\ conn' = [conn EXCEPT ![c] = k]
  /\ UNCHANGED <<changes, pending, due, mode, attempts, lists>>

(* The handler of k returns: its channel leaves a.events. *)
Return(k) ==
  /\ k \in serving
  /\ serving' = serving \ {k}
  /\ registered' = registered \ {k}
  /\ queue' = [queue EXCEPT ![k] = 0]
  /\ UNCHANGED <<changes, pending, due, wire, client>>

(* An event is sent. *)
Send(k) ==
  /\ k \in serving
  /\ queue[k] > 0
  /\ queue' = [queue EXCEPT ![k] = @ - 1]
  /\ wire' = wire \cup {k}
  /\ UNCHANGED <<changes, pending, due, registered, serving, client>>

(* Variant: the closed channel is not noticed. *)
DrainedStays(k) ==
  /\ k \notin registered
  /\ queue[k] = 0
  /\ UNCHANGED vars

(* The closed channel is drained. *)
Drained(k) ==
  /\ k \notin registered
  /\ queue[k] = 0
  /\ Return(k)

(* Nobody reads from k: the request context ends, or a write fails. *)
Unread(k) ==
  /\ \A c \in Client : conn[c] # k
  /\ Return(k)

(* The session has expired or ended, a write fails, or the server stops. *)
Cut(k) == Return(k)

(* The server dies and comes up again: what was committed stays. *)
Crash ==
  /\ serving # {}
  /\ pending' = {}
  /\ due' = changes
  /\ registered' = {} /\ serving' = {}
  /\ queue' = [k \in Conn |-> 0]
  /\ UNCHANGED <<changes, wire, client>>

-----------------------------------------------------------------------------
(* The effect's catch: wait and connect again, or fall back to polling. *)
Fail(c) ==
  /\ conn' = [conn EXCEPT ![c] = None]
  /\ attempts' = [attempts EXCEPT ![c] = @ + 1]
  /\ mode' = [mode EXCEPT ![c] =
       IF attempts[c] + 1 >= MaxAttempts THEN "polling" ELSE "waiting"]
  /\ UNCHANGED <<changes, server, wire, lists>>

(* The connection is refused: no server, no session, no capacity. *)
Refused(c) ==
  /\ mode[c] = "connecting"
  /\ conn[c] = None
  /\ Fail(c)

(* invalidateQueries: the lists are loaded again, unless their first load is under
   way.  Of that it is no matter whether the API has still to read them. *)
Reload(c) ==
  LET first == ~loaded[c] /\ load[c] \in {"asked", "answered"} IN
  /\ load' = IF first THEN load ELSE [load EXCEPT ![c] = "asked"]
  /\ missed' = [missed EXCEPT ![c] = first /\ load[c] = "answered"]
  /\ UNCHANGED <<got, view, loaded>>

(* Variant: only events make the lists load again. *)
ConnectedQuietly(c) ==
  /\ mode[c] = "connecting"
  /\ conn[c] \in serving
  /\ mode' = [mode EXCEPT ![c] = "streaming"]
  /\ attempts' = [attempts EXCEPT ![c] = 0]
  /\ UNCHANGED <<changes, server, wire, conn, lists>>

(* The answer arrives, after the channel was registered: load the lists. *)
Connected(c) ==
  /\ mode[c] = "connecting"
  /\ conn[c] \in serving
  /\ mode' = [mode EXCEPT ![c] = "streaming"]
  /\ attempts' = [attempts EXCEPT ![c] = 0]
  /\ Reload(c)
  /\ UNCHANGED <<changes, server, wire, conn>>

(* An event arrives. *)
Receive(c) ==
  /\ mode[c] = "streaming"
  /\ conn[c] \in wire
  /\ wire' = wire \ {conn[c]}
  /\ Reload(c)
  /\ UNCHANGED <<changes, server, mode, conn, attempts>>

(* The stream is over, with or without its last event. *)
Ended(c) ==
  /\ conn[c] # None
  /\ conn[c] \notin serving
  /\ Fail(c)

(* The browser loses the connection first. *)
Lost(c) ==
  /\ conn[c] # None
  /\ Fail(c)

(* The timer of reconnectDelayMs. *)
Retry(c) ==
  /\ mode[c] = "waiting"
  /\ mode' = [mode EXCEPT ![c] = "connecting"]
  /\ UNCHANGED <<changes, server, wire, conn, attempts, lists>>

(* refetchInterval, when the hook has given up streaming. *)
Poll(c) ==
  /\ mode[c] = "polling"
  /\ load[c] \in {"none", "failed"}
  /\ Reload(c)
  /\ UNCHANGED <<changes, server, wire, mode, conn, attempts>>

(* auth:logout, or the view is closed. *)
Leave(c) ==
  /\ mode[c] # "gone"
  /\ mode' = [mode EXCEPT ![c] = "gone"]
  /\ conn' = [conn EXCEPT ![c] = None]
  /\ load' = [load EXCEPT ![c] = "none"]
  /\ UNCHANGED <<changes, server, wire, attempts, got, view, loaded, missed>>

(* The API reads the lists. *)
Answer(c) ==
  /\ load[c] = "asked"
  /\ load' = [load EXCEPT ![c] = "answered"]
  /\ got' = [got EXCEPT ![c] = changes]
  /\ UNCHANGED <<changes, server, wire, mode, conn, attempts, view, loaded, missed>>

(* The answer is on the screen. *)
Show(c) ==
  /\ load[c] = "answered"
  /\ load' = [load EXCEPT ![c] = "none"]
  /\ view' = [view EXCEPT ![c] = got[c]]
  /\ loaded' = [loaded EXCEPT ![c] = TRUE]
  /\ UNCHANGED <<changes, server, wire, mode, conn, attempts, got, missed>>

(* The load and its one retry fail, and the query is in error. *)
LoadFails(c) ==
  /\ load[c] \in {"asked", "answered"}
  /\ load' = [load EXCEPT ![c] = "failed"]
  /\ UNCHANGED <<changes, server, wire, mode, conn, attempts, got, view, loaded, missed>>

-----------------------------------------------------------------------------
Next ==
  \/ Commit
  \/ \E n \in pending : Publish(n)
  \/ \E k \in Conn : Send(k) \/ Drained(k) \/ Unread(k) \/ Cut(k)
  \/ Crash
  \/ \E c \in Client :
       \/ Open(c) \/ Refused(c) \/ Connected(c) \/ Receive(c) \/ Ended(c) \/ Lost(c)
       \/ Retry(c) \/ Poll(c) \/ Leave(c)
       \/ Answer(c) \/ Show(c) \/ LoadFails(c)

Spec == Init /\ [][Next]_vars

(* Goroutines run, timers fire, what was sent arrives and a stream that is over
   is seen to be.  An answer is shown some time although the next event or
   reconnection would drop it: reconnectDelayMs is longer than a load. *)
Fairness ==
  /\ \A n \in 1..MaxChanges : WF_vars(Publish(n))
  /\ \A k \in Conn : WF_vars(Send(k)) /\ WF_vars(Drained(k)) /\ WF_vars(Unread(k))
  /\ \A c \in Client :
       /\ WF_vars(Open(c) \/ Refused(c))
       /\ WF_vars(Connected(c) \/ Ended(c))
       /\ WF_vars(Receive(c) \/ Ended(c))
       /\ WF_vars(Retry(c)) /\ WF_vars(Poll(c))
       /\ WF_vars(Answer(c)) /\ SF_vars(Show(c))

FairSpec == Spec /\ Fairness

-----------------------------------------------------------------------------
(* The stream of client c is up, with no event in its channel or on the way, and
   the client awaits nothing. *)
AtRest(c) ==
  /\ mode[c] = "streaming"
  /\ conn[c] \in registered \ wire
  /\ queue[conn[c]] = 0
  /\ load[c] = "none"

(* A stream that is up and quiet means lists that are up to date: a client at rest
   shows every change that was published, also those of before it connected and
   those a full channel could not take.  The one exception are lists of a first
   load that the API had answered when the news came. *)
QuietMeansCurrent ==
  \A c \in Client : AtRest(c) /\ ~missed[c] => view[c] >= due

(* Every client comes to show every published change, and every change whose
   publication a crash of the server prevented: over full channels, lost
   connections, restarts and polling.  Else its lists are in error, it left, or the
   news came in its first load as above; the next news heals that. *)
Shows ==
  \A c \in Client, n \in 1..MaxChanges :
    due >= n ~> \/ view[c] >= n
               \/ load[c] = "failed" \/ mode[c] = "gone" \/ missed[c]

(* docs/USER_MANUAL.md:392 and :399 say that the screens are brought up to date when
   something changes and that there is no need to reload the page.  They are not
   when the news comes in the first load. *)
ScreensFollow ==
  \A c \in Client : AtRest(c) => view[c] >= due
=============================================================================

--------------------------- MODULE EventHubProofs ---------------------------
(* The invariants of EventHub, for any number of clients, connections and
   changes and for every capacity. *)
EXTENDS EventHub, TLAPS

(* No two clients read one connection. *)
OwnConn ==
  \A c, d \in Client : conn[c] = conn[d] /\ conn[c] # None => c = d

(* Who reads a connection, and who may still try one. *)
Tries ==
  \A c \in Client :
    /\ conn[c] # None => mode[c] \in {"connecting", "streaming"}
    /\ mode[c] \in {"connecting", "streaming", "waiting"} => attempts[c] < MaxAttempts

(* Nothing is left in, or on the way from, the channel client c reads from. *)
Quiet(c) ==
  /\ mode[c] = "streaming"
  /\ conn[c] \in registered \ wire
  /\ queue[conn[c]] = 0

(* What a quiet client shows, or is about to show, unless the news came in its *)
(* first load.                                                                *)
UpToDate ==
  \A c \in Client :
    Quiet(c) /\ ~missed[c] =>
      /\ load[c] = "none" => view[c] >= due
      /\ load[c] = "answered" => got[c] >= due

HubInv == TypeOK /\ OwnConn /\ Tries /\ UpToDate

-----------------------------------------------------------------------------
LEMMA HubInit == Init => HubInv
<1>. SUFFICES ASSUME Init PROVE HubInv
  OBVIOUS
<1>1. TypeOK
  BY HubAssumption DEF Init, TypeOK
<1>2. OwnConn /\ Tries /\ UpToDate
  BY HubAssumption DEF Init, OwnConn, Tries, UpToDate, Quiet
<1>. QED
  BY <1>1, <1>2 DEF HubInv

(* A client that fails gives up its connection, and shows what it showed. *)
LEMMA FailKeeps ==
  ASSUME HubInv, NEW c \in Client, Fail(c),
         mode[c] \in {"connecting", "streaming"}
  PROVE  HubInv'
<1>. USE HubAssumption
<1>1. TypeOK'
  <2>1. attempts[c] + 1 \in 0..MaxAttempts
    BY DEF HubInv, TypeOK, Tries
  <2>. QED
    BY <2>1 DEF HubInv, TypeOK, Fail, server, lists
<1>2. OwnConn'
  BY DEF HubInv, TypeOK, OwnConn, Fail
<1>3. Tries'
  BY DEF HubInv, TypeOK, Tries, Fail
<1>4. UpToDate'
  BY DEF HubInv, TypeOK, UpToDate, Quiet, Fail, server, lists
<1>. QED
  BY <1>1, <1>2, <1>3, <1>4 DEF HubInv

(* A handler that returns leaves only other connections registered. *)
LEMMA ReturnKeeps ==
  ASSUME HubInv, NEW k \in Conn, Return(k)
  PROVE  HubInv'
<1>. USE HubAssumption
<1>1. TypeOK'
  BY DEF HubInv, TypeOK, Return, client, lists
<1>2. OwnConn' /\ Tries'
  BY DEF HubInv, OwnConn, Tries, Return, client, lists
<1>3. UpToDate'
  BY DEF HubInv, TypeOK, UpToDate, Quiet, Return, client, lists
<1>. QED
  BY <1>1, <1>2, <1>3 DEF HubInv

(* The rest of what the server does. *)
LEMMA ServerKeeps ==
  ASSUME HubInv,
         \/ Commit
         \/ \E n \in pending : Publish(n)
         \/ \E k \in Conn : Send(k)
         \/ Crash
  PROVE  HubInv'
<1>. USE HubAssumption
<1>1. ASSUME Commit PROVE HubInv'
  <2>1. TypeOK'
    BY <1>1 DEF HubInv, TypeOK, Commit, client, lists
  <2>2. OwnConn' /\ Tries' /\ UpToDate'
    BY <1>1 DEF HubInv, OwnConn, Tries, UpToDate, Quiet, Commit, client, lists
  <2>. QED
    BY <2>1, <2>2 DEF HubInv
<1>2. ASSUME NEW n \in pending, Publish(n) PROVE HubInv'
  <2>1. TypeOK'
    BY <1>2 DEF HubInv, TypeOK, Publish, client, lists
  <2>2. OwnConn' /\ Tries'
    BY <1>2 DEF HubInv, OwnConn, Tries, Publish, client, lists
  <2>3. \A k \in registered' : queue'[k] > 0
    BY <1>2 DEF HubInv, TypeOK, Publish
  <2>4. UpToDate'
    BY <2>3 DEF UpToDate, Quiet
  <2>. QED
    BY <2>1, <2>2, <2>4 DEF HubInv
<1>3. ASSUME NEW k \in Conn, Send(k) PROVE HubInv'
  <2>1. TypeOK'
    BY <1>3 DEF HubInv, TypeOK, Send, client, lists
  <2>2. OwnConn' /\ Tries'
    BY <1>3 DEF HubInv, OwnConn, Tries, Send, client, lists
  <2>3. UpToDate'
    BY <1>3 DEF HubInv, TypeOK, UpToDate, Quiet, Send, client, lists
  <2>. QED
    BY <2>1, <2>2, <2>3 DEF HubInv
<1>4. ASSUME Crash PROVE HubInv'
  <2>1. TypeOK'
    BY <1>4 DEF HubInv, TypeOK, Crash, client, lists
  <2>2. OwnConn' /\ Tries'
    BY <1>4 DEF HubInv, OwnConn, Tries, Crash, client, lists
  <2>3. UpToDate'
    BY <1>4 DEF UpToDate, Quiet, Crash
  <2>. QED
    BY <2>1, <2>2, <2>3 DEF HubInv
<1>. QED
  BY <1>1, <1>2, <1>3, <1>4

(* A new connection is no other client's, and its client does not yet stream. *)
LEMMA OpenKeeps ==
  ASSUME HubInv, NEW c \in Client, Open(c)
  PROVE  HubInv'
<1>. USE HubAssumption
<1>1. PICK k \in Conn \ serving :
        /\ \A d \in Client : conn[d] # k
        /\ registered' = registered \cup {k}
        /\ serving' = serving \cup {k}
        /\ queue' = [queue EXCEPT ![k] = 0]
        /\ wire' = wire \ {k}
        /\ conn' = [conn EXCEPT ![c] = k]
  BY DEF Open
<1>2. mode[c] = "connecting" /\ UNCHANGED <<changes, pending, due, mode, attempts, load, got, view, loaded, missed>>
  BY DEF Open, lists
<1>3. TypeOK'
  BY <1>1, <1>2 DEF HubInv, TypeOK
<1>4. OwnConn'
  BY <1>1 DEF HubInv, TypeOK, OwnConn
<1>5. Tries'
  BY <1>1, <1>2 DEF HubInv, TypeOK, Tries
<1>6. UpToDate'
  <2>. SUFFICES ASSUME NEW d \in Client, Quiet(d)', ~missed'[d]
                PROVE  /\ (load[d] = "none" => view[d] >= due)'
                       /\ (load[d] = "answered" => got[d] >= due)'
    BY DEF UpToDate
  <2>1. d # c /\ conn'[d] = conn[d] /\ conn[d] # k
    BY <1>1, <1>2 DEF HubInv, TypeOK, Quiet
  <2>2. Quiet(d)
    BY <1>1, <1>2, <2>1 DEF HubInv, TypeOK, Quiet
  <2>3. ~missed[d]
    BY <1>2
  <2>4. (load[d] = "none" => view[d] >= due) /\ (load[d] = "answered" => got[d] >= due)
    BY <2>2, <2>3 DEF HubInv, UpToDate
  <2>. QED
    BY <1>2, <2>4
<1>. QED
  BY <1>3, <1>4, <1>5, <1>6 DEF HubInv

(* What a client does on its own: every load that a stream starts ends in an
   answer read after it. *)
LEMMA ClientKeeps ==
  ASSUME HubInv, NEW c \in Client,
         \/ Connected(c) \/ Receive(c) \/ Retry(c) \/ Poll(c) \/ Leave(c)
         \/ Answer(c) \/ Show(c) \/ LoadFails(c)
  PROVE  HubInv'
<1>. USE HubAssumption
<1>1. CASE Connected(c)
  <2>1. TypeOK'
    BY <1>1 DEF HubInv, TypeOK, Connected, Reload, server
  <2>2. OwnConn' /\ Tries'
    BY <1>1 DEF HubInv, TypeOK, OwnConn, Tries, Connected
  <2>3. UpToDate'
    BY <1>1 DEF HubInv, TypeOK, UpToDate, Quiet, Connected, Reload, server
  <2>. QED
    BY <2>1, <2>2, <2>3 DEF HubInv
<1>2. CASE Receive(c)
  <2>1. TypeOK'
    BY <1>2 DEF HubInv, TypeOK, Receive, Reload, server
  <2>2. OwnConn' /\ Tries'
    BY <1>2 DEF HubInv, OwnConn, Tries, Receive
  <2>3. UpToDate'
    <3>. SUFFICES ASSUME NEW d \in Client, Quiet(d)', d # c
                  PROVE  Quiet(d) /\ load'[d] = load[d] /\ missed'[d] = missed[d]
      BY <1>2 DEF HubInv, TypeOK, UpToDate, Quiet, Receive, Reload, server
    <3>1. conn[d] # conn[c]
      BY <1>2 DEF HubInv, TypeOK, OwnConn, Quiet, Receive, Reload, server
    <3>. QED
      BY <1>2, <3>1 DEF HubInv, TypeOK, Quiet, Receive, Reload, server
  <2>. QED
    BY <2>1, <2>2, <2>3 DEF HubInv
<1>3. CASE Retry(c)
  <2>1. TypeOK'
    BY <1>3 DEF HubInv, TypeOK, Retry, server, lists
  <2>2. OwnConn' /\ Tries'
    BY <1>3 DEF HubInv, TypeOK, OwnConn, Tries, Retry
  <2>3. UpToDate'
    BY <1>3 DEF HubInv, TypeOK, UpToDate, Quiet, Retry, server, lists
  <2>. QED
    BY <2>1, <2>2, <2>3 DEF HubInv
<1>4. CASE Poll(c)
  <2>1. TypeOK'
    BY <1>4 DEF HubInv, TypeOK, Poll, Reload, server
  <2>2. OwnConn' /\ Tries'
    BY <1>4 DEF HubInv, OwnConn, Tries, Poll
  <2>3. UpToDate'
    BY <1>4 DEF HubInv, TypeOK, UpToDate, Quiet, Poll, Reload, server
  <2>. QED
    BY <2>1, <2>2, <2>3 DEF HubInv
<1>5. CASE Leave(c)
  <2>1. TypeOK'
    BY <1>5 DEF HubInv, TypeOK, Leave, server, lists
  <2>2. OwnConn' /\ Tries'
    BY <1>5 DEF HubInv, TypeOK, OwnConn, Tries, Leave
  <2>3. UpToDate'
    BY <1>5 DEF HubInv, TypeOK, UpToDate, Quiet, Leave, server, lists
  <2>. QED
    BY <2>1, <2>2, <2>3 DEF HubInv
<1>6. CASE Answer(c)
  <2>1. TypeOK'
    BY <1>6 DEF HubInv, TypeOK, Answer, server
  <2>2. OwnConn' /\ Tries'
    BY <1>6 DEF HubInv, OwnConn, Tries, Answer
  <2>3. UpToDate'
    BY <1>6 DEF HubInv, TypeOK, UpToDate, Quiet, Answer, server
  <2>. QED
    BY <2>1, <2>2, <2>3 DEF HubInv
<1>7. CASE Show(c)
  <2>1. TypeOK'
    BY <1>7 DEF HubInv, TypeOK, Show, server
  <2>2. OwnConn' /\ Tries'
    BY <1>7 DEF HubInv, OwnConn, Tries, Show
  <2>3. UpToDate'
    BY <1>7 DEF HubInv, TypeOK, UpToDate, Quiet, Show, server
  <2>. QED
    BY <2>1, <2>2, <2>3 DEF HubInv
<1>8. CASE LoadFails(c)
  <2>1. TypeOK'
    BY <1>8 DEF HubInv, TypeOK, LoadFails, server
  <2>2. OwnConn' /\ Tries'
    BY <1>8 DEF HubInv, OwnConn, Tries, LoadFails
  <2>3. UpToDate'
    BY <1>8 DEF HubInv, TypeOK, UpToDate, Quiet, LoadFails, server
  <2>. QED
    BY <2>1, <2>2, <2>3 DEF HubInv
<1>. QED
  BY <1>1, <1>2, <1>3, <1>4, <1>5, <1>6, <1>7, <1>8

LEMMA HubStep == HubInv /\ [Next]_vars => HubInv'
<1>. SUFFICES ASSUME HubInv, [Next]_vars PROVE HubInv'
  OBVIOUS
<1>1. CASE Commit \/ (\E n \in pending : Publish(n)) \/ Crash
  BY <1>1, ServerKeeps
<1>2. ASSUME NEW k \in Conn, Send(k) \/ Drained(k) \/ Unread(k) \/ Cut(k) PROVE HubInv'
  BY <1>2, ServerKeeps, ReturnKeeps DEF Drained, Unread, Cut
<1>3. ASSUME NEW c \in Client, Open(c) PROVE HubInv'
  BY <1>3, OpenKeeps
<1>4. ASSUME NEW c \in Client, Refused(c) PROVE HubInv'
  BY <1>4, FailKeeps DEF Refused
<1>5. ASSUME NEW c \in Client, Ended(c) \/ Lost(c) PROVE HubInv'
  <2>1. mode[c] \in {"connecting", "streaming"}
    BY <1>5 DEF HubInv, Tries, Ended, Lost
  <2>. QED
    BY <1>5, <2>1, FailKeeps DEF Ended, Lost
<1>6. ASSUME NEW c \in Client,
             \/ Connected(c) \/ Receive(c) \/ Retry(c) \/ Poll(c) \/ Leave(c)
             \/ Answer(c) \/ Show(c) \/ LoadFails(c)
      PROVE HubInv'
  BY <1>6, ClientKeeps
<1>7. CASE UNCHANGED vars
  BY <1>7 DEF HubInv, TypeOK, OwnConn, Tries, UpToDate, Quiet, vars, server, client, lists
<1>. QED
  BY <1>1, <1>2, <1>3, <1>4, <1>5, <1>6, <1>7 DEF Next

(* The inductive invariant: a load answered while the stream is quiet is as
   good as one that is shown. *)
THEOREM HubInvariant == Spec => []HubInv
  BY HubInit, HubStep, PTL DEF Spec

(* TypeOK: in particular a client never makes more than maxReconnectAttempts
   attempts in a row, and a channel never holds more than its capacity. *)
THEOREM HubTypeCorrect == Spec => []TypeOK
<1>1. HubInv => TypeOK
  BY DEF HubInv
<1>. QED
  BY <1>1, HubInvariant, PTL

(* QuietMeansCurrent: a client whose stream is up and quiet shows every
   published change, also those published before it connected, unless the news
   came in its first load after the API had read the lists. *)
THEOREM QuietIsCurrent == Spec => []QuietMeansCurrent
<1>1. \A c \in Client : AtRest(c) <=> Quiet(c) /\ load[c] = "none"
  BY DEF AtRest, Quiet
<1>2. HubInv => QuietMeansCurrent
  BY <1>1 DEF HubInv, UpToDate, QuietMeansCurrent
<1>. QED
  BY <1>2, HubInvariant, PTL
=============================================================================

------------------------------ MODULE Screens ------------------------------
(***************************************************************************)
(* The screens of the client under src/client/src/components that ask the  *)
(* server for a list and order changes of its items.  Each screen is a     *)
(* query, the way its component fetches and shows, with one of its         *)
(* commands, the way it asks for a change; what differs between components *)
(* is a field of the record, and one machine runs them all.                *)
(*                                                                         *)
(* Answers arrive in any order, also after the operator has changed the    *)
(* filter, closed the dialog or opened it for another item.  Other actors  *)
(* change the data at any time: rev counts the changes of the server, and  *)
(* a fetch reads some revision between its start and its answer.           *)
(***************************************************************************)
EXTENDS Naturals, FiniteSets

CONSTANTS
  Filter,      \* filters, pages, periods or documents a query is made for
  Short,       \* those whose search text has less than three characters
  Item,        \* visits, visitors, users, backups a command is about
  NoItem,      \* no item, no input, no lock
  MaxRev,      \* bound: changes of the server's data
  MaxFlight    \* bound: fetches, and commands, under way

ASSUME ScreenAssumption ==
  /\ IsFiniteSet(Filter) /\ Short \subseteq Filter /\ Filter \ Short # {}
  /\ NoItem \notin Item
  /\ MaxRev \in Nat /\ MaxFlight \in Nat \ {0}

-----------------------------------------------------------------------------
(* Queries.  order: which answers are taken: "any" of them, that of the    *)
(* "latest" fetch, or, with react-query, one per "key".  delay: a change   *)
(* of the filter waits 300 ms.  short: a short search is not made.         *)
(* blanks: what was shown is removed when a fetch starts.  spinner: it has *)
(* a loading flag of its own.  hides: its controls are off the screen      *)
(* while it loads.  again: when a button or a timer fetches.               *)

Plain == [order |-> "any", filters |-> FALSE, delay |-> FALSE, short |-> FALSE,
          blanks |-> FALSE, spinner |-> FALSE, hides |-> FALSE, again |-> "never"]

(* AdminDashboard, with the filters and the pages of VisitsTable. *)
ReportsQuery == [Plain EXCEPT !.order = "latest", !.filters = TRUE, !.delay = TRUE, !.short = TRUE]

(* AdminDashboard: fetchAlerts, every minute. *)
AlertsQuery == [Plain EXCEPT !.again = "always"]

(* AuditDashboard: fetchData, its filters and autoRefresh. *)
AuditQuery == [Plain EXCEPT !.order = "latest", !.filters = TRUE, !.spinner = TRUE, !.again = "always"]

(* ActivityLogPanel: fetchActivities, the action and the page. *)
ActivityQuery == [Plain EXCEPT !.order = "latest", !.filters = TRUE, !.spinner = TRUE, !.again = "always"]

(* CalendarView: the events of a range, the visits of a day. *)
CalendarQuery == [Plain EXCEPT !.order = "latest", !.filters = TRUE, !.blanks = TRUE, !.spinner = TRUE]

(* StatisticsPanel and the selectors of MonthlyReportCard. *)
StatisticsQuery == [Plain EXCEPT !.order = "latest", !.filters = TRUE, !.blanks = TRUE, !.spinner = TRUE,
                                 !.hides = TRUE]

(* BackupPanel: fetchBackups. *)
BackupsQuery == [Plain EXCEPT !.spinner = TRUE, !.again = "always"]

(* PrivacyDashboard: loadRequests; its button is disabled while busy. *)
RequestsQuery == [Plain EXCEPT !.again = "free"]

(* SuperAdminDashboard: loadData, run again by its tabs. *)
UsersQuery == [Plain EXCEPT !.spinner = TRUE, !.again = "always"]

(* VisitorHistoryModal: fetchHistory. *)
HistoryQuery == [Plain EXCEPT !.filters = TRUE, !.spinner = TRUE]

(* VisitorDetailsModal: the edits of the visitor it is open for. *)
EditHistoryQuery == [Plain EXCEPT !.filters = TRUE]

(* useActiveVisitsQuery and the other lists of OperationsView. *)
VisitsQuery == [Plain EXCEPT !.order = "key", !.again = "always"]

(* useAllVisitorsQuery by the search of VisitorAdmin ... *)
VisitorsQuery == [VisitsQuery EXCEPT !.filters = TRUE, !.delay = TRUE, !.short = TRUE]

(* ... and by its page and company. *)
CompanyQuery == [VisitorsQuery EXCEPT !.delay = FALSE, !.short = FALSE]

-----------------------------------------------------------------------------
(* Commands.  via: a "button", a dialog to "confirm", a "dialog" with a    *)
(* form, or the form of a "page".  input: whether something is typed for   *)
(* it.  lock: what disables its button while requests are under way: one   *)
(* of "all" of them, or that of the "last" item.  bars: the dialog cannot  *)
(* be opened meanwhile.  pins: nor closed.  keeps: it can be closed        *)
(* keeping the input.  refetch: success fetches the list again.  loads:    *)
(* the form is filled with what the server answers.                        *)

Button == [via |-> "button", input |-> "none", lock |-> "none", bars |-> FALSE, pins |-> FALSE,
           keeps |-> FALSE, refetch |-> TRUE, loads |-> FALSE]

Nothing == [Button EXCEPT !.via = "none"]

(* CalendarEventModal: "Registrar Salida". *)
CalendarCheckout == [Button EXCEPT !.via = "confirm"]

(* BackupPanel: runBackup, and handleRestore in its dialog. *)
RunBackup == [Button EXCEPT !.lock = "all"]
RestoreBackup == [Button EXCEPT !.via = "dialog", !.input = "required", !.lock = "all",
                                !.bars = TRUE, !.pins = TRUE]

(* PrivacyDashboard: updateStatus, and cancelSubject with its confirmation. *)
UpdateStatus == [Button EXCEPT !.lock = "all"]
CancelSubject == [Button EXCEPT !.via = "page", !.input = "required", !.lock = "all"]

(* SuperAdminDashboard and UserModals; a deletion is a native confirm. *)
DeleteUser == [Button EXCEPT !.via = "confirm"]
UpdateUser == [Button EXCEPT !.via = "dialog", !.input = "required", !.keeps = TRUE]
ResetUserPassword == [UpdateUser EXCEPT !.refetch = FALSE]

(* VisitorAdmin: handleToggleBlock and handleBlockWithReason. *)
BlockVisitor == [Button EXCEPT !.via = "dialog", !.input = "required", !.lock = "all",
                               !.bars = TRUE, !.keeps = TRUE]

(* ActiveVisits: handleCheckout and handleGoIntermittent. *)
Checkout == [Button EXCEPT !.via = "confirm", !.lock = "last"]
GoIntermittent == [Checkout EXCEPT !.input = "optional"]

(* IntermittentVisits: handleReactivate. *)
Reactivate == [Button EXCEPT !.via = "confirm", !.lock = "last"]

(* WaitingVisits: handleAdmit and handleCancel. *)
Admit == [Button EXCEPT !.lock = "last"]
CancelWaiting == [Button EXCEPT !.via = "dialog", !.input = "required", !.lock = "all", !.keeps = TRUE]

(* VisitorDetailsModal: the edition of a profile. *)
EditProfile == [Button EXCEPT !.via = "dialog", !.input = "optional", !.lock = "all", !.loads = TRUE]

Screen ==
  {[query |-> q, command |-> Nothing] :
      q \in {ReportsQuery, AlertsQuery, AuditQuery, ActivityQuery, CalendarQuery, StatisticsQuery,
             HistoryQuery, EditHistoryQuery, VisitsQuery}}
  \cup {[query |-> CalendarQuery, command |-> CalendarCheckout],
        [query |-> ReportsQuery, command |-> CalendarCheckout]}
  \cup {[query |-> BackupsQuery, command |-> c] : c \in {RunBackup, RestoreBackup}}
  \cup {[query |-> RequestsQuery, command |-> c] : c \in {UpdateStatus, CancelSubject}}
  \cup {[query |-> UsersQuery, command |-> c] : c \in {DeleteUser, UpdateUser, ResetUserPassword}}
  \cup {[query |-> q, command |-> BlockVisitor] : q \in {VisitorsQuery, CompanyQuery}}
  \cup {[query |-> VisitsQuery, command |-> c] :
          c \in {Checkout, GoIntermittent, Reactivate, Admit, CancelWaiting, EditProfile}}

-----------------------------------------------------------------------------
VARIABLES
  screen,      \* the screen on show: its query and its command
  filter,      \* the controls: what they ask for
  view,        \* what it fetches for, its timer, spinner and error
  cache,       \* cache[f]: the answer held for f, with its revision
  fetches,     \* requests of the list under way
  dialog,      \* the item of the dialog, what was typed, the item for which the
               \* box of the page was ticked, the profile in the form
  loads,       \* items whose profile is being loaded
  ops,         \* commands under way
  busy,        \* the item whose button is disabled
  rev,         \* revision of the server's data
  own          \* revision of the last change this screen knows it made

screenVars == <<screen, filter, view, cache, fetches, dialog, loads, ops, busy, rev, own>>

Query == screen.query
Command == screen.command

Fetch == [for : Filter, since : 0..MaxRev, fresh : BOOLEAN]
Op == [item : Item, typed : Item \cup {NoItem}, ticked : Item \cup {NoItem}, data : Item \cup {NoItem},
       stage : {"sent", "done", "refused"}, at : 0..MaxRev]
NoAnswer == [rev |-> 0, held |-> FALSE]
Dialog == [item : Item \cup {NoItem}, typed : Item \cup {NoItem}, ticked : Item \cup {NoItem},
           form : Item \cup {NoItem}]
Closed == [item |-> NoItem, typed |-> NoItem, ticked |-> NoItem, form |-> NoItem]

ScreenTypeOK ==
  /\ screen \in Screen
  /\ filter \in Filter
  /\ view \in [key : Filter, timer : BOOLEAN, loading : BOOLEAN, failed : BOOLEAN]
  /\ cache \in [Filter -> [rev : 0..MaxRev, held : BOOLEAN]]
  /\ fetches \subseteq Fetch
  /\ dialog \in Dialog
  /\ loads \subseteq Item
  /\ ops \subseteq Op
  /\ busy \in Item \cup {NoItem}
  /\ rev \in 0..MaxRev
  /\ own \in 0..rev

NewFetch(k) == [for |-> k, since |-> rev, fresh |-> TRUE]

(* The component mounts: its effect fetches, or starts the timer. *)
ScreenInit ==
  /\ screen \in Screen
  /\ filter \in Filter \ Short
  /\ rev = 0 /\ own = 0
  /\ view = [key |-> filter, timer |-> screen.query.delay, loading |-> screen.query.spinner, failed |-> FALSE]
  /\ cache = [f \in Filter |-> NoAnswer]
  /\ fetches = IF screen.query = ReportsQuery THEN {} ELSE {NewFetch(filter)}
  /\ dialog = Closed
  /\ loads = {} /\ ops = {}
  /\ busy = NoItem

-----------------------------------------------------------------------------
(* Fetching.                                                               *)

(* requestVersion++, abort() or react-query's cancelRefetch give up these  *)
(* fetches for one of k.                                                   *)
GivenUp(k) ==
  CASE Query.order = "any" -> {}
    [] Query.order = "latest" -> fetches
    [] Query.order = "key" -> {f \in fetches : f.for = k}

Kept(k) == (fetches \ GivenUp(k)) \cup {[f EXCEPT !.fresh = FALSE] : f \in GivenUp(k)}

NotMade(k) == Query.short /\ k \in Short

UnderWay(k) == \E f \in fetches : f.fresh /\ f.for = k

(* react-query's refetch of a key that holds no answer yet joins the fetch *)
(* that is under way.                                                      *)
Joins(k) == Query.order = "key" /\ ~cache[k].held /\ UnderWay(k)

(* The screens of a version make no short search; refetch() does.          *)
Started(k) ==
  IF Joins(k) THEN fetches
  ELSE IF Query.order = "latest" /\ NotMade(k) THEN Kept(k)
  ELSE Kept(k) \cup {NewFetch(k)}

Blank == IF Query.blanks THEN [f \in Filter |-> NoAnswer] ELSE cache

(* The query is made for k, which becomes what the screen is about. *)
Ask(k, timer) ==
  /\ fetches' = Started(k)
  /\ cache' = Blank
  /\ view' = [view EXCEPT !.key = k, !.timer = timer, !.loading = @ \/ Query.spinner]

(* The key of useQuery becomes k: a fetch of k under way is joined, and an *)
(* answer of the last ten seconds needs none.                              *)
Turn(k) ==
  /\ view' = [view EXCEPT !.key = k, !.timer = FALSE, !.failed = @ /\ k = view.key]
  /\ \/ /\ k # view.key /\ ~NotMade(k) /\ ~UnderWay(k)
        /\ fetches' = fetches \cup {NewFetch(k)}
     \/ /\ k = view.key \/ NotMade(k) \/ UnderWay(k) \/ cache[k].held
        /\ UNCHANGED fetches
  /\ UNCHANGED cache

Follow(k) == IF Query.order = "key" THEN Turn(k) ELSE Ask(k, FALSE)

Made == <<filter, cache, fetches, view>>
Ordered == <<dialog, loads, ops, busy>>

(* The operator changes a filter, the page, the period or the document. *)
Change(k) ==
  /\ Query.filters
  /\ Query.hides => ~view.loading
  /\ k # filter
  /\ filter' = k
  /\ IF Query.delay
     THEN view' = [view EXCEPT !.timer = TRUE] /\ UNCHANGED <<cache, fetches>>
     ELSE Follow(k)
  /\ UNCHANGED <<screen, Ordered, rev, own>>

(* The 300 ms are over. *)
TimerFires ==
  /\ view.timer
  /\ Follow(filter)
  /\ UNCHANGED <<screen, filter, Ordered, rev, own>>

(* What a refetch asks for: react-query's is the one of the current key. *)
Current == IF Query.order = "key" THEN view.key ELSE filter

(* "Actualizar", an interval or a change of tab. *)
FetchAgain ==
  /\ \/ Query.again = "always"
     \/ Query.again = "free" /\ ops = {}
  /\ Ask(Current, view.timer)
  /\ UNCHANGED <<screen, filter, Ordered, rev, own>>

(* Variant: every answer is shown. *)
TakesAny(f) == TRUE

(* An answer that was given up is dropped. *)
Takes(f) == f.fresh

(* Variant: the spinner stops only when the list arrives. *)
StopsOnSuccess(f, ok) == f.fresh /\ ok

(* finally: the spinner stops with the answer to the fetch it is for. *)
Stops(f, ok) == f.fresh

(* What is held once r, the data for k, arrives: one answer, or one by key. *)
Held(k, r) ==
  [IF Query.order = "key" THEN cache ELSE [g \in Filter |-> NoAnswer]
     EXCEPT ![k] = [rev |-> r, held |-> TRUE]]

(* The answer is about what is on the screen. *)
Concerns(f) == Takes(f) /\ (Query.order = "key" => f.for = view.key)

Answered(f) ==
  /\ fetches' = fetches \ {f}
  /\ \/ \E r \in f.since..rev :
          /\ cache' = IF Takes(f) THEN Held(f.for, r) ELSE cache
          /\ view' = [view EXCEPT !.loading = @ /\ ~Stops(f, TRUE),
                                  !.failed = @ /\ ~Concerns(f)]
     \/ /\ view' = [view EXCEPT !.loading = @ /\ ~Stops(f, FALSE),
                                  !.failed = @ \/ Concerns(f)]
        /\ UNCHANGED cache
  /\ UNCHANGED <<screen, filter, Ordered, rev, own>>

-----------------------------------------------------------------------------
(* Commands.                                                               *)

(* The button of an item is disabled. *)
Locked(i) ==
  \/ Command.lock = "all" /\ ops # {}
  \/ Command.lock = "last" /\ busy = i

InDialog == Command.via \in {"confirm", "dialog", "page"}

(* Variant: the dialog opens with what was typed before. *)
OpenedKeeping(i) == [dialog EXCEPT !.item = i, !.form = NoItem]

(* The dialog opens for i with nothing typed; when the document of the     *)
(* page becomes i the box is cleared and the method typed stays.           *)
Opened(i) ==
  IF Command.via = "page" THEN [dialog EXCEPT !.item = i, !.ticked = NoItem]
  ELSE [Closed EXCEPT !.item = i]

(* The items of a list kept by react-query are there once it is loaded. *)
Listed == Query.order = "key" => cache[view.key].held

Open(i) ==
  /\ InDialog
  /\ Listed
  /\ IF Command.via = "page" THEN dialog.item # i ELSE dialog.item = NoItem
  /\ Command.bars => ops = {}
  /\ Command.via = "confirm" => ~Locked(i)
  /\ dialog' = Opened(i)
  /\ UNCHANGED <<screen, Made, loads, ops, busy, rev, own>>

(* The reason, the password or the method is typed, and the box of the     *)
(* page ticked, for the item.                                              *)
Type ==
  /\ dialog.item # NoItem /\ dialog.form = NoItem
  /\ Command.input # "none"
  /\ \/ dialog.typed # dialog.item /\ dialog' = [dialog EXCEPT !.typed = dialog.item]
     \/ Command.via = "page" /\ dialog.ticked = NoItem /\ dialog' = [dialog EXCEPT !.ticked = dialog.item]
  /\ UNCHANGED <<screen, Made, loads, ops, busy, rev, own>>

(* handleCancelEdit leaves the dialog of a profile open. *)
Close ==
  /\ InDialog /\ Command.via # "page"
  /\ dialog.item # NoItem
  /\ Command.pins => ops = {}
  /\ \/ dialog' = Closed
     \/ Command.keeps /\ dialog' = [dialog EXCEPT !.item = NoItem]
     \/ Command.loads /\ ops = {} /\ dialog' = [Closed EXCEPT !.item = dialog.item]
  /\ UNCHANGED <<screen, Made, loads, ops, busy, rev, own>>

(* handleVerifyPassword and its late answer, which fills the form. *)
Load ==
  /\ Command.loads
  /\ dialog.item # NoItem /\ dialog.typed # NoItem /\ dialog.form = NoItem
  /\ loads = {}
  /\ loads' = {dialog.item}
  /\ UNCHANGED <<screen, Made, dialog, ops, busy, rev, own>>

Loaded(i) ==
  /\ loads' = loads \ {i}
  /\ dialog' \in {dialog} \cup
                 (IF dialog.item = NoItem THEN {} ELSE {[dialog EXCEPT !.form = i]})
  /\ UNCHANGED <<screen, Made, ops, busy, rev, own>>

(* The command is sent, for item i. *)
Sent(i) ==
  /\ ops' = ops \cup {[item |-> i, typed |-> dialog.typed, ticked |-> dialog.ticked,
                       data |-> dialog.form, stage |-> "sent", at |-> 0]}
  /\ busy' = IF Command.lock = "last" THEN i ELSE busy

Click(i) ==
  /\ Command.via = "button"
  /\ Listed
  /\ ~Locked(i)
  /\ Sent(i)
  /\ UNCHANGED <<screen, Made, dialog, loads, rev, own>>

(* "Confirmar": a confirmation dialog closes at once. *)
Confirm ==
  /\ dialog.item # NoItem
  /\ Command.via # "confirm" => ~Locked(dialog.item)
  /\ Command.input = "required" => dialog.typed # NoItem
  /\ Command.via = "page" => dialog.ticked # NoItem
  /\ Command.loads => dialog.form # NoItem
  /\ Sent(dialog.item)
  /\ dialog' = IF Command.via = "confirm" THEN Closed ELSE dialog
  /\ UNCHANGED <<screen, Made, loads, rev, own>>

(* The server carries the command out or refuses it; it refuses an edition *)
(* without the password. *)
Serve(o) ==
  /\ o.stage = "sent"
  /\ \/ /\ rev < MaxRev
        /\ Command.loads => o.typed # NoItem
        /\ rev' = rev + 1
        /\ ops' = (ops \ {o}) \cup {[o EXCEPT !.stage = "done", !.at = rev']}
     \/ /\ ops' = (ops \ {o}) \cup {[o EXCEPT !.stage = "refused"]}
        /\ UNCHANGED rev
  /\ UNCHANGED <<screen, Made, dialog, loads, busy, own>>

(* The dialog after a success: it closes, whichever item it is open for; *)
(* the page and the profile stay. *)
AfterSuccess ==
  IF Command.via = "page" \/ Command.loads
  THEN [dialog EXCEPT !.typed = NoItem, !.ticked = NoItem, !.form = NoItem]
  ELSE Closed

(* Variant: success relies on the fetch that is under way, if there is one. *)
RefetchUnlessUnderWay ==
  IF fetches = {} THEN Ask(Current, view.timer) ELSE UNCHANGED <<fetches, cache, view>>

(* The list is fetched again; react-query's invalidation cancels the fetch *)
(* under way unless it is the first.                                       *)
Refetch == Ask(Current, view.timer)

Succeeded(o) ==
  /\ o.stage = "done"
  /\ ops' = ops \ {o}
  /\ busy' = NoItem
  /\ dialog' = IF Command.via \in {"button", "confirm"} THEN dialog ELSE AfterSuccess
  /\ own' = IF o.at > own THEN o.at ELSE own
  /\ IF Command.refetch THEN Refetch ELSE UNCHANGED <<fetches, cache, view>>
  /\ UNCHANGED <<screen, filter, loads, rev>>

(* It was refused, or its answer was lost. *)
Failed(o) ==
  /\ o.stage \in {"done", "refused"}
  /\ ops' = ops \ {o}
  /\ busy' = NoItem
  /\ UNCHANGED <<screen, Made, dialog, loads, rev, own>>

-----------------------------------------------------------------------------
(* Another actor changes the data. *)
OtherChange ==
  /\ rev < MaxRev
  /\ rev' = rev + 1
  /\ UNCHANGED <<screen, Made, Ordered, own>>

User ==
  \/ \E k \in Filter : Change(k)
  \/ FetchAgain
  \/ \E i \in Item : Open(i) \/ Click(i)
  \/ Type \/ Close \/ Load \/ Confirm

ScreenNext ==
  \/ User
  \/ TimerFires
  \/ \E f \in fetches : Answered(f)
  \/ \E i \in loads : Loaded(i)
  \/ \E o \in ops : Serve(o) \/ Succeeded(o) \/ Failed(o)
  \/ OtherChange

ScreenSpec == ScreenInit /\ [][ScreenNext]_screenVars

(* Bounds: what is under way at a time. *)
Bound == Cardinality(fetches) <= MaxFlight /\ Cardinality(ops) <= MaxFlight

-----------------------------------------------------------------------------
(* What the screen shows: the answers held, or the one of the key. *)
Shown == {f \in Filter : cache[f].held /\ (Query.order = "key" => f = view.key)}

(* No timer runs and no fetch for what is on the screen is under way. *)
AtRest ==
  /\ ~view.timer
  /\ \A f \in fetches : ~f.fresh \/ (Query.order = "key" /\ f.for # view.key)

Guarded == Query.order # "any"

(* Safety: a screen that orders its answers and has come to rest without   *)
(* an error shows the answer for its current filter and no other, whatever *)
(* order answers and changes of the filter came in; one that blanks never  *)
(* shows another period.                                                   *)
ShowsWhatIsAsked ==
  /\ Guarded /\ AtRest /\ ~view.failed /\ ~NotMade(filter) => Shown = {filter}
  /\ Query.blanks => Shown \subseteq {filter}

(* Safety: after the success of a change of its own such a screen does not *)
(* come to rest on data read before the change.                            *)
OwnChangeShown ==
  Guarded /\ AtRest /\ ~view.failed /\ ~NotMade(filter) /\ ~(Query.order = "key" /\ Query.filters)
    => \A f \in Shown : cache[f].rev >= own

(* Safety: what is sent about an item, its reason or password, was typed   *)
(* for that item, although dialogs are closed and opened for others while  *)
(* answers are awaited.  On the page of cancellations it is the box that   *)
(* was ticked for the person: the method beside it may be one typed for    *)
(* another.                                                                *)
OwnInput ==
  \A o \in ops :
    IF Command.via = "page" THEN o.ticked = o.item
    ELSE /\ o.typed \in {o.item, NoItem}
         /\ Command.input = "required" => o.typed = o.item

(* Safety: a spinner or a disabled button always awaits an answer that     *)
(* will release it.                                                        *)
WaitsForAnAnswer ==
  /\ view.loading => \E f \in fetches : f.fresh
  /\ busy # NoItem => \E o \in ops : o.item = busy

(* VisitorDetailsModal.tsx:166 "Refresh the profile before editing so      *)
(* missing or stale list fields cannot erase data": an edition that is     *)
(* carried out was filled with the profile of its own visitor.  It is not: *)
(* the profile of the visitor the dialog was open for before may arrive    *)
(* last.                                                                   *)
EditsItsOwnProfile ==
  \A o \in ops : Command.loads /\ o.stage = "done" => o.data = o.item
=============================================================================

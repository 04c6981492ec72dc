# LogMaster (Visitors): specifications and proofs

LogMaster registers the visitors of a site: a receptionist checks people in, lets
them wait, in, out and back, and closes their visits; administrators manage
accounts, privacy requests, retention and backups. The system is a Go API over
PostgreSQL (`server-go`), a Next.js server in front of it that keeps the session
cookies, a React client, and maintenance commands. This directory holds TLA+ models
of the parts where several of those run at once or fail half way, TLC
configurations that check them, and TLAPS proofs.

Paths are relative to the repository: `httpapi/` is `server-go/internal/httpapi/`,
`backup/` is `server-go/internal/backup/`, `baseline` is
`server-go/db/migrations/00001_baseline.sql`.

`components/`, `hooks/`, `services/`, `server/` and `app/` are under `client/src/`.

    tlc -workers 2 -config MCVisitDesk.cfg MCVisitDesk     # any MC*.cfg
    tlapm VisitDeskProofs.tla                              # any *Proofs.tla

## The system

| Part | State | Operations | Talks to | What is hard |
|---|---|---|---|---|
| Visit desk (`httpapi/visits.go`) | `Visitors`, `Visits`, `IntermittentLogs`, `ActivityLogs`; partial unique indexes | check-in, admit, exit, re-enter, check-out, cancel | visitors, audit, event hub | concurrent transactions on one identity, first visits with no row to lock, partial indexes that wait |
| Visitors (`httpapi/visitors.go`, `search.go`) | `Visitors`, `VisitorEditHistories`, `VisitorSearchTokens` | edit, block, photos, reading | desk, privacy | a block committed during a check-in; an edit during a cancellation |
| Accounts (`httpapi/auth.go`, `users.go`) | `Users`: password, role, `tokenVersion`, lockout, reset link; the tokens clients hold | login, refresh, logout, password change, reset by link, administration | mail server, audit, every handler through `validateToken` | rows read without a lock and used later, mail that fails after a newer link, counters |
| Privacy (`httpapi/privacy.go`) | `ArcoRequests` and all rows that name a subject | file, resolve, access, rectify, cancel | desk, visitors, retention | anonymising rows others are about to write |
| Retention (`httpapi/retention.go`) | all tables | a daily run | privacy, desk | four DELETEs, each on its own snapshot |
| Rate limiter (`httpapi/app.go`) | `a.limits`, a map behind a mutex | `allowRequest` for every request, again in login | all handlers | the clock is read before the mutex; the map is bounded |
| Event hub (`httpapi/events.go`) and its client (`useVisitEvents.ts`) | `a.events`, one buffered channel per stream; the client's attempts, lists and polling | `publish`, `visitEvents`; connect, read, retry, poll | all handlers that commit; React Query | full channels, lost streams, restarts |
| Backup store (`backup/managed.go`, `stream.go`) | two directories, `.backup.lock`, a status file | make, verify, list, prune, take back, report | `pg_dump`, the timer, operators, the API | processes that die between two renames or share a temporary file |
| Restore (`backup/backup.go`, `cmd/logmaster`) | the application's and the staging database | restore to staging, migrate, check, archive, restore | accounts, backup store | sessions of before, failure half way |
| Search index (`httpapi/search.go`, `server-go/db/search.go`) | `VisitorSearchTokens`, `SearchIndexState` | index a row, rebuild in batches | visitors, start-up | restarts |
| Identity rebuild (`server-go/db/identity.go`) | hashes and ciphertexts of all rows | re-key at start-up | start-up | one transaction |
| Session renewal and page access (`app/api/v1`, `server/auth-cookies.ts`, `server/session.ts`, `services/api.v1.ts`, `services/AuthService.ts`) | two cookies, one shared renewal per tab, the address of each tab | proxy, refresh, login, logout, password change, redirects | the Go API, the browser | renewals, logouts and logins of one browser that overlap; answers that come late or never |
| Check-in form (`components/VisitForm.tsx`, `PhotoCapture.tsx`, `components/visit/`) | the document, the form, lookups under way, the submission | look up, fill in, photograph, save and check in | visits, visitors | a lookup that answers for a document no longer typed; two requests of which the first fails |
| Screens (`App.tsx`, the dashboards, lists and dialogs under `components/`, `hooks/useVisitQueries.ts`) | what is asked, what is shown, a dialog, a busy item | fetch, filter, open, type, confirm | every reading and writing handler; React Query | answers out of order, dialogs closed and opened for another, fetches under way during a change |
| Queries, reports, calendar, audit reading, export | none | read | | SQL and formatting |
| Configuration, cryptography, seeding, migrations, deployment, load tools | | start-up | | sequential |

What makes each part correct: an identity has at most one open visit and a blocked
one gets none; every visit agrees with its logs and its audit rows; a session is
worth no more than the password and the account it was opened for; a subject that
cancelled is forgotten and stays so; retention takes only what is old and unused;
limits count what they say; the screen comes to show what was committed; a listed
backup can be restored, and a restored system has no sessions of before; the browser
keeps a session as long as the server does, and no call or page waits for ever; a
check-in carries the data of its own document; a screen at rest shows the answer to
what it asks for now.
`PROJECT.json` lists the hazards at their lines with the properties that watch them.

## Modules

| Module | Models | Checked by | Proofs |
|---|---|---|---|
| `VisitRules` | the life cycle of a visit as operators: statuses, what a transition requires and does | | |
| `VisitLifecycle` | the abstract desk: every request is one step | | |
| `VisitDesk` | `checkIn`, `transition` and the `isBlocked` edit as PostgreSQL transactions, statement by statement | `MCVisitDesk` | `VisitDeskProofs` |
| `AccountLifecycle` | the abstract account: every request is one step | | |
| `Accounts` | one `Users` row and the handlers of `auth.go` and `users.go` | `MCAccounts` | `AccountsProofs` |
| `SubjectData` | one data subject: check-in, edit, access, ARCO requests, cancellation, retention | `MCSubjectData` | `SubjectDataProofs` |
| `EventHub` | publication, streams and the reconnecting client | `MCEventHub` | `EventHubProofs` |
| `RateLimiter` | `limit`, `allowRequest` and the count in `login` | `MCRateLimiter` | `RateLimiterProofs` |
| `BackupStore` | backup files and the processes that make, prune and report them | `MCBackupStore` | `BackupStoreProofs` |
| `Restore` | the restore by way of the staging database, and the sessions it ends | `MCRestore` | `RestoreProofs` |
| `ClientSession` | a browser's cookies, calls, renewals, logins, logouts and pages | `MCClientSession` | `ClientProofs` |
| `CheckInForm` | the check-in form and its two requests | `MCCheckInForm` | `ClientProofs` |
| `Screens` | every list and command of the client as one machine with its variants as data | `MCScreens`, `MCEditProfile` | `ClientProofs` |

`VisitDesk` extends `VisitRules` and instantiates `VisitLifecycle` with its own
tables: the refinement mapping is the identity on `visitor`, `visit` and `audit`,
and everything before a COMMIT is a stutter. `Accounts` instantiates `AccountLifecycle`:
of the row and the tokens it shows the password, the lockout, the link, and the passwords
that the sessions still accepted were opened with. `SubjectData` uses that result: it
takes transitions as single steps. `EventHub` starts where `VisitDesk` ends, at the
publication after a COMMIT, and counts changes instead of naming them. `Restore`
sees accounts through their `tokenVersion` alone, which `Accounts` shows to be what
decides on a session. `ClientSession` goes one step further: a session is a number, and
Go accepts those in `account.live`. `CheckInForm` and `Screens` see the server through
its answers, which carry any state it had between request and answer; `EventHub` is the
part of `VisitsQuery` that tells the client to fetch again.

### Conventions

- A step is one SQL statement (or one file operation, or one critical section of a
  mutex) with the Go code up to the next one. Committed tables are variables; what a
  transaction wrote is visible to others at COMMIT, and its locks last until then.
- Waiting is a guard: an action that needs a lock somebody holds is disabled.
- `Abort` stands for everything that ends a transaction early: a failed statement, a
  client that left, a server that died, a deadlock that PostgreSQL ends.
- A request that is refused changes nothing; it ends in `Abort` or is no step.
- Definitions marked *Variant* are plausible mistakes in the code, used to make sure
  that the property next to them in `PROJECT.json` would notice.

### VisitDesk

`visitor`, `visit` and `audit` are `Visitors` (absent, allowed, blocked), `Visits`
with its intermittent log, and the latest `ActivityLogs` row of each visit. `pend[s]`
is what the transaction of request `s` has written, `held[s]` its locks. The advisory
lock on the hash is `LockHash`, `LockVisitor` and `LockVisit` are the queries of those
names, `InsertVisit` is the INSERT that the partial index `visits_one_open_per_visitor`
makes wait for other transactions' entries (`Unsettled`) and then accepts or answers
`OPEN_VISIT_EXISTS`. `Announce` is the publication. `IdsLeft` is a bound: a check-in
starts only while there is an id for it.

### Accounts

`user` is the row, `holder` who has it FOR UPDATE, `seen[r]` what a handler has read,
`issued` every token ever handed out (nobody gives one back), `fate` the history of
reset links. Handlers that read without a lock keep what they read across later steps,
which is where they could go wrong; `Replaces` is the WHERE clause that saves them.
`guesses` is a history variable. `Abstract` is the account as its clients see it: reading,
validating and renewing change nothing there, and a login, a logout or a new password is
one step.

### SubjectData

One identity document; `person[p]` are the successive `Visitors` rows it had. A
random reference drawn at cancellation is named by its row. `recent` are the rows
younger than the retention cutoff: `Age` empties it. `PickVisitors` and
`PurgeVisitors` are one DELETE: the rows are chosen on the statement's snapshot, then
each is waited for, and tested again only if somebody wrote it, as READ COMMITTED
does. Cancellation clears what it has locked; writes are made at COMMIT.

### EventHub

An event is a token, since every event makes the client load everything again.
`queue[k]` is the channel of connection `k`, `registered` the map `a.events`, `wire`
an event on its way. `due` is the latest change that was published, or whose
publication was cut off by a crash of the server: streams break then, so clients learn
of it. A COMMIT whose answer is lost is published by nobody, and such a change is not
`due` (`Commit` may leave it out).

`Reload` is React Query's `invalidateQueries`: it drops a fetch under way and starts
another only if the query holds data (`loaded`). The first load goes on, and its answer
counts as up to date. If the API had answered it before the news, the news is `missed`, a
history variable, until the next invalidation or poll.

### RateLimiter

`limits` is the map, `now[r]` the time a request read before it waited for the mutex
(at most `Lag` ago), `granted` a history variable: what was admitted under each key, in
order, with the time of the request, the window that counted it and its number there.
`Arrive` picks the bucket, login counts a second time under the name.

### BackupStore

`archive`, `meta` and `secret` are the files of each copy, `lock` is `.backup.lock`,
`status` and `tmp` the status file and its temporary file. Copies are numbered in the
order of their dates. Every file operation is a step and `Crash` may follow any; a
dead process leaves its lock file (`Stale`), which an operator removes when nothing
runs, as docs/OPERATIONS.md:120 requires.

### Restore

`target` and `stage` are databases (the version of each account, the next id, whether
the schema is current), `archive` the backup, `prepared` the archive made of the
staging database. One session is followed; what is shown of it holds of each.
`Online` tells the maintenance command, which refuses to run beside the application,
from the restore of the test environment.

### ClientSession

`account` is what Go knows, `jar` the two cookies every tab shares, `call[c]` one call
from the page through `proxy` to Go and back, with the cookies it carried (`sent`) and
those `proxy` renewed (`tokens`). `renewal[<<t, "calls">>]` is the promise `refreshing` of
AuthService that all refused calls of a tab wait for, `renewal[<<t, "page">>]` the one of
`/auth/renew`. `Settle` is what both the route and the interceptor do with an answer.
`Show` is the server rendering an address: `requireUser` admits it or redirects.
`MaxFaults` bounds what can go wrong from outside: a token that lapses on the way, a
dropped cookie, a lost answer, an unreachable Go, an administrator. `call[c].done` is a
history variable. `Accept` is Go carrying a call out.

### CheckInForm

`form.data` is the personal data, a value and the document it was typed or loaded for;
`form.original` is the value the server gave. A photo (`Picture`, which stands for the two
of the form) is the document it shows and whether it was taken here or is the stored one.
What differs of a loaded visitor is `Changes`, a set of the parts of the form; `Carried` are
the parts the PATCH sends, and a photo is among them only if it was taken here.
`sub[i].unsaved` are the changes a submission has still to save. `lookups` are the searches under way,
`fresh` those of the present `lookupVersion`.
A submission `sub[i]` keeps the form as it was when the button was pressed, first saves a
changed visitor and then opens the visit. The button is disabled while `loading`, but a
search leaving its field sets `loading` to false: that is why two submissions may overlap.
`photo` is the camera and the file reader of PhotoCapture. The visitors and open visits of
the server (`stored`, `open`) are external: other desks change them (`Elsewhere`).

### Screens

The components repeat one pattern with differences, and the differences are what matters:
some number their requests and drop old answers, some do not, some use React Query. So
each list is a record (`ReportsQuery`, `AuditQuery`, ...) and each command another
(`Checkout`, `EditProfile`, ...), with one field for each difference, read off the
component named in its comment; `Screen` pairs them as the components do, and the actions
are the handlers they share. `rev` counts changes of the server's data, an answer carries
any revision between request and answer, `own` is the revision of the latest change this
screen knows to have made. `dialog.typed` and `dialog.form` name the item for which
something was typed and whose profile is in the form; `dialog.ticked` is the person for whom
the box of the page of cancellations was ticked, which a change of the document clears,
while the method typed beside it stays (`Opened`). React Query keeps one fetch for each key:
a key turned to while it is being fetched or holds a fresh answer needs no other (`Turn`),
a refetch of a key that holds nothing joins its first fetch (`Joins`), and the items of a
list are there once it was loaded (`Listed`).

## Runs

| Run | Asks | Instance | Distinct states |
|---|---|---|---|
| `visit_desk` | Do the concurrent transactions keep the visits, the index, the blocks and the audit consistent, implement the life cycle, and always end? | 2 requests, 1 identity, 2 visits, with fairness | 69 thousand |
| `accounts` | Are sessions, lockout, password changes and reset links right under concurrency, as if each request took one step? | 2 requests, 2 passwords, 2 links, 2 attempts, versions 0 to 2 | 445 thousand |
| `subject_data` | What may a cancellation leave, and a retention take? | 2 requests, 2 rows of each table | 762 thousand |
| `event_hub` | Is a quiet stream current, and is every change shown in the end? | 1 client, 2 connections, capacity 1, 2 attempts, 3 changes, with fairness | 132 thousand |
| `rate_limiter` | Does the limiter admit too many, refuse too many, or grow? | 2 requests, 4 keys of which 3 fit, clock 0 to 3 | 42 thousand |
| `backup_store` | Can what is listed, and what the status names, be restored; does pruning spare the newest? | 2 processes, 3 attempts, 3 copies of which 1 is kept | 728 thousand |
| `restore` | Does a restore end the sessions it finds and leave a current schema? | 2 ids, versions 0 to 4, 2 restores | 751 thousand |
| `client_session` | Does the browser lose a session without a cause, carry a call out twice, leave a call waiting, or redirect in a circle? | 1 tab, 2 calls, 2 logins, 1 fault, 2 roles, with fairness | 156 thousand |
| `check_in_form` | Whose data does a check-in carry, which changes may it leave unsaved, can the form hang? | 2 documents, 2 values, 2 submissions, 2 lookups, within `Bound` | 896 thousand |
| `screens` | Does a screen at rest show what it asks for and its own changes; is what is sent about an item meant for it; does every spinner end? | all 26 screens, 3 filters of which 1 is a short search, 2 items, 2 fetches and 2 commands at a time, 2 changes | 2.0 million |
| `subject_orphan`, `edit_profile` | statements of the documentation and of a comment that do not hold (see Findings) | as above, the latter with 1 filter and 1 fetch | |

Why the bounds are enough. All hazards of the desk and of accounts are between two
transactions, so two requests meet in every way; two visits are what a second open
visit needs, and the identity is the unit of every lock of a check-in. The theorems
below say the same for any number. `MCAccounts` bounds the product of passwords and links:
once a link is drawn there is one password and one session at a time. Two `Visitors` rows
are a profile and its successor. A channel of capacity 1 fills with the first event and is
closed by the second while the third change is still to come; the second connection is the
one of the reconnection. Three keys of four make the limiter refuse a key that would be
new. Keeping one of three copies makes pruning remove one and spare one, with a manual or a
damaged one between. Two restores show sessions of before each. In `MCClientSession` two
calls overlap in the first session (a shared renewal needs no more), and one call in the
sessions of after; the second login is the newer session an old answer may hurt. Two
documents, lookups and submissions are one that is current and one that is old; two values
let what is typed differ from what was loaded, and `Bound` has two of them with one lookup or
one submission under way, as whether a change is saved is a matter of one submission; the camera
and the vehicle, which requests do not touch, are tried while none is under way. Three
filters are what was asked, what is asked now and one that is not fetched. Symmetry is used
only in runs without liveness, over sets whose members are interchangeable.

`Restore` with versions up to 4 keeps the real margins: the code refuses versions from
the largest integer minus one.

Deadlock is checked except where the system may stop: a deleted account, the last
change with every view closed, the last attempt of the bound.

### Fairness

- `VisitDesk`: strong fairness of each request's next statement. PostgreSQL queues
  lock waiters first come, first served, so one that can go on again and again does.
  Nothing is assumed of clients: `Arrive` and `Abort` are not fair.
- `EventHub`: goroutines run, timers fire, sent events arrive, a finished stream is
  seen to be finished. Commits, losses, cuts and crashes are not fair. `Show` is
  strongly fair: a load is abandoned only for a newer one, and reconnections are
  `reconnectDelayMs` apart, longer than a load.
- `ClientSession`: every request is answered or its connection fails, every answer
  arrives, every address is served. Nothing is asked of users, administrators or faults.

## What is proved

| Module | Theorem | Says |
|---|---|---|
| `VisitDeskProofs` | `DeskInvariant`, `DeskTypeCorrect` | the inductive invariant, and types |
| | `AtMostOneOpenVisit`, `VisitsCoherent`, `AuditTrailExplains` | the three invariants of the tables |
| | `BlockedStaysOut`, `ConflictsAreReal` | `NoEntryWhileBlocked`, `ConflictIsReal` |
| | `DeskImplementsLifecycle` | `VisitDesk` implements `VisitLifecycle` |
| `AccountsProofs` | `AccountInvariant`, `AccountTypeCorrect` | the inductive invariant, and types |
| | `SessionsFollowPassword`, `LockoutIsExact`, `ResetLinkOnce` | the three invariants of an account |
| | `OnlyCurrentSessionsAct`, `PasswordNeverLost`, `MailedLinkIsSafe` | the three action properties |
| | `AccountImplementsLifecycle` | `Accounts` implements `AccountLifecycle` |
| `SubjectDataProofs` | `SubjectInvariant`, `SubjectTypeCorrect` | the inductive invariant, and types |
| | `AnonymousForGood`, `CancellationForgets`, `RetentionPurgesOld` | `StaysAnonymous`, `CancelForgets`, `PurgesOnlyOld` |
| `EventHubProofs` | `HubInvariant`, `HubTypeCorrect`, `QuietIsCurrent` | the inductive invariant, types, and that a quiet stream is current, but for news that came in a first load the API had answered |
| `RateLimiterProofs` | `LimiterInvariant`, `LimiterTypeCorrect` | the inductive invariant of the map, and types |
| | `LimiterTableBounded`, `LimiterAtMostTwice`, `LimiterDenialIsEarned` | `TableBounded`, `AtMostTwice`, `DenialIsEarned` |
| `BackupStoreProofs` | `StoreInvariant`, `StoreTypeCorrect` | the inductive invariant, and types |
| | `ListedHasMetadata`, `StatusNamesRestorable`, `PruneKeepsNewest` | `ListedIsDescribed`, `StatusIsRestorable`, `KeepsNewest` |
| `RestoreProofs` | `RestoreInvariant`, `RestoreTypeCorrect`, `TargetStaysCurrent` | the inductive invariant, types (no version overflows), and `TargetIsCurrent` |
| | `CommandEndsSessions` | `OpenSessionsEnd`, for the maintenance command: a session accepted when the database is replaced is not accepted right after |
| `ClientProofs`: form | `FormInvariant`, `FormTypeCorrect` | the inductive invariant, and types |
| | `CheckInOwnData`, `CheckInSaved`, `FormNotStuck` | `OwnData`, `ChangesSaved`, `SpinnerHasCause` |
| screens | `ScreensInvariant`, `ScreensTypeCorrect` | the inductive invariant, and types |
| | `ScreensShowWhatIsAsked`, `ScreensShowOwnChange` | `ShowsWhatIsAsked`, `OwnChangeShown`: what a screen at rest shows |
| | `ScreensOwnInput`, `ScreensAwaitAnswers` | `OwnInput`, `WaitsForAnAnswer` |
| session | `SessionInvariant`, `SessionTypeCorrect` | the inductive invariant, and types |
| | `SessionCarriesOutOnce`, `SessionLostForCause` | `CarriedOutOnce`, `LostForCause` |

Every safety invariant and every action property that a passing run checks is stated by a
theorem, `OpenSessionsEnd` under the hypothesis named below. The theorems hold for any sets
of requests, rows, identities, passwords, links, clients, connections, processes,
documents, submissions, tabs, calls, items and finitely many filters, and any limits; those about
screens hold for each of the 26. They assume only the ASSUME of each module (that NULL is not a
value, that limits are naturals, that ids of two tables differ, that what a call asks for
is a page), which TLC evaluates in every run; `CommandEndsSessions` also assumes `~Online`,
that the application is stopped, as the command requires. `LimiterInvariant` is followed by
a stronger invariant, `LimiterInv`, for the theorems about admissions.

The three components of the client share no state. Their proofs share one module, which
extends all three: that is why names in `Screens` and `ClientSession` are not those of
`CheckInForm` (`ScreenInit` and `ScreenSpec`, `SessionInit` and `SessionSpec`).

- **Desk.** `OneOpenVisit` is not inductive: an INSERT between its uniqueness check and
  its COMMIT is invisible in the tables. `IInv` adds, per request, which locks its
  transaction holds at each point (`HoldsItsLocks`), that no lock has two holders, that
  no two transactions write one visit, and that what a request relies on at COMMIT is
  still so (`Sound`): the visitor not blocked, the visit still permitting the
  transition, no other open visit. A step of another request keeps `Sound` because it
  would need a lock that is held. Refinement and `NoEntryWhileBlocked` follow from
  `Sound` at COMMIT, the only step that changes the tables. `ConflictIsReal` needs one thing
  more of `Sound`: while a check-in that found no visitor holds the lock on the hash, there
  is none. Its INSERT of the visitor therefore never meets the UNIQUE `cedula`, which the
  code would take for an open visit.
- **Accounts.** Versions never decrease, and a password changes only with its version.
  `Succeeds` says so of every token and of every row a handler has read: if the version
  is still the same, so is the password. What is read FOR UPDATE is still the row
  (`Locked`), and links of pending mails are distinct.
  For the refinement no session may be newer than the row (`TokenInv`), so that one version
  more ends all of them; the token of a refresh is one that clients have already (`Phase`),
  so a renewal adds no session; and a link in the row was drawn (`LinkDrawn`). A login, which
  holds the row from its SELECT to its COMMIT, is the abstract step at COMMIT, and a password
  change is that of a session that is still accepted when its WHERE is evaluated.
- **Subject.** `SubjectInv` says which locks a transaction holds at each statement and what
  they promise it until COMMIT (`Sound`): the hash, that nobody else enters a visit or files
  a request; the visitor's row, that it still carries the hash; the rows it is going to
  delete, that nobody used them since (`Old`). A cancellation therefore holds every row that
  names the subject when it writes, and a row that retention deletes is as old as when it
  was chosen.
- **Hub.** `UpToDate` adds to `QuietMeansCurrent` the answer that is not on the screen
  yet; with that it is inductive. A full channel costs nothing: it leaves `registered`,
  so the stream is not quiet. News that come in a first load are in its answer if the API
  has still to read the lists; if not, they are `missed`, and nothing is claimed.
- **Form.** `OwnData` speaks of submissions only; `FormOwn` says the same of the form they
  were copied from, and of a lookup: while it is fresh it is for the document in the form,
  because a change of document outdates it. For `ChangesSaved`, whatever photo is in the form
  of a loaded visitor is the stored one of its document or was taken here: one that differs
  is carried by the PATCH, and only a removed one is left.

- **Limiter.** A window counts at least one request, so a count of zero is a new key, for
  which `Over` asks for room: that is why the map cannot outgrow its bound. `AtMostTwice`
  and `DenialIsEarned` add up the history, and `LimiterInv` says how it and the map go
  together: a window numbers its requests from 1 to its count and all of them are in the
  history (`Counted`); what was admitted is of the window that stands or of one that is over
  (`History`); and windows of one key end at least their length apart, but for the `Lag`
  of a request that opened one with the time it had read before (`Separate`). So a span as
  long as a window meets two windows at most, of at most the limit each, and a denial finds
  that limit used up. `Separate` is claimed only when `Lag` is within the window's length; the
  theorems need no more.
- **Backups.** Whoever works on the files has made the lock file (`Holds`); what it read is
  still so. prune takes the newest of its copies first: what counts as newer than the
  others is never touched (`Pruning`), and neither is the copy a status will name (`Good`).
- **Restore.** While the application is stopped, the versions read are still those of the
  target (`Reached`), and a restored version is above the highest of them.

- **Screens.** `FetchInv` says for what a fetch under way was made: for the filter on the
  screen unless a timer is going to ask again, and, on the screens that refetch all they show
  after a change of their own (`Whole`), after the last such change. `CacheInv` says that data
  is held which was asked for so, unless it is still awaited or a fetch failed. A screen at
  rest has no timer and awaits nothing, and what it shows follows. An answer is taken
  only if its number is the latest, or goes to the cache of its own key. A refetch may join the first
  fetch of a key, which was made before the change; but commands are given from a list that
  was loaded and stays so (`ListInv`), so a refetch after one joins none. For `OwnInput`, what
  is typed in an open dialog is for its item or for none (`DialogInv`): closing clears it.
  On the page of cancellations that holds of the box alone.
- **Session.** A call is sent again only after a refusal, and Go refuses before it carries
  anything out: that makes `CarriedOutOnce` inductive with the states of a call. For
  `LostForCause` a token that was refused has to be dead still when the answer comes, though
  sessions are opened meanwhile. Every token in the browser or under way has a number that
  was given (`IssuedInv`) and a new session takes the next, so the refused stay dead
  (`AnswerInv`).

Checked by TLC only: `Answered`, `Shows`, `CallsSettle` and `NavigationSettles`, the four
liveness properties, which are out of the prover's reach. That `OpenSessionsEnd` holds of the
restore beside a running application is not claimed (see Observations).

## Findings

Two runs end in a counterexample to a statement of the repository.

1. **Retention deletes a visitor who has just come in** (`subject_orphan`,
   `httpapi/retention.go:40`). The DELETE tests that nothing refers to the visitor on its
   snapshot and then waits for the row, which a check-in has locked with FOR UPDATE but
   does not write. READ COMMITTED repeats the test only for rows that were changed, so
   the row goes and the new open visit has `visitor_id` NULL. docs/ARCHITECTURE.md:23
   says that the references are verified.
2. **An edit form may be filled with another visitor's profile** (`edit_profile`,
   `components/visit/VisitorDetailsModal.tsx:167`). The answer to the password check and the
   profile are awaited; when the dialog was closed and opened for another visitor
   meanwhile, the form is filled with the first one's data, and Save sends it to the
   second. The comment above that line says the profile is refreshed so that an edit
   cannot erase data.

### Observations

Five more definitions state what the repository says and do not hold. They stay in their
modules and are not among the runs, which ask about the rest of those modules; to see the
counterexample, name the definition as the only PROPERTY (or INVARIANT) of the cfg.

- `CancelForgetsHistory` (`MCSubjectData.cfg`, `httpapi/privacy.go:346`).
  `VisitorEditHistories` has no foreign key: when retention deletes a visitor, the old and
  new values stay under an id that nobody has. If the person comes back and cancels, only
  the new id is cleared. docs/SECURITY.md:17 says the personal values of the history go.
- `FailurePreservesLastSuccess` (`MCBackupStore.cfg`, `backup/managed.go:70`). The status is
  written in a defer that runs after the lock was released, and also by an attempt that
  never got it. Its failure, with the date it read earlier, overwrites the success written
  in between. `managed_test.go:121` says a failed attempt preserves that date.
- `ScreensFollow` (`MCEventHub.cfg`, `hooks/useVisitEvents.ts:46` and 65). The API reads the
  lists for the first load of the page, a change is committed and published, and its event,
  or the connection, arrives before the lists do. React Query's invalidation cancels a fetch
  only if the query holds data; here it joins the first one, whose answer then counts as up to
  date. While the stream is up nothing polls, so the lists stay old until the next event.
  docs/USER_MANUAL.md:392 and 399 say that screens are brought up to date by themselves and
  need no reload. `QuietMeansCurrent` and `Shows` except this case (`missed`).
- `NoUnsavedChanges` (`MCCheckInForm.cfg`, `components/VisitForm.tsx:282`). The form counts a
  removed photo as a change (line 387), asks for the edit password and sends the PATCH, which
  carries a photo only if it was taken here. The answer is a success, the form says that the
  visitor was updated, and the check-in follows. VisitForm.stabilization.test.tsx:41 says that
  unsaved changes are not silently registered. `ChangesSaved` excepts a removed photo.
- `NoSessionSurvives` (`MCRestore.cfg`, `backup/backup.go:246`). The restore raises the
  versions of the accounts in the archive, and sets the id sequence back. A session of an
  account that was created after the backup is refused until the next account is created:
  that one gets the same id and version 0. Nor does it look further back than the accounts it
  finds: an account whose sessions were ended twice, that was logged in to at version 2 and
  deleted after the backup comes back at version 2 by way of staging (0 + 1 + 1), and that
  session, which was refused at the restore, is accepted again. docs/API.md:23 says that
  earlier sessions cease to be valid.

Seen while modelling, and part of the models, without a statement they contradict unless
one is quoted:

- docs/SECURITY.md:19 gives a limit of 100 requests in 15 minutes for all requests with
  credentials of an address; `httpapi/app.go:190` sets 500.
- `OpenSessionsEnd` is stated for the maintenance command: in the test environment, where
  the application goes on serving, a logout between the two statements of the restore is
  undone.
- The refusal of a renewal that was sent with the cookies of a dead session clears the
  cookies of the login that replaced it; and a 503 during a renewal makes the interceptor
  revoke the account's sessions (`LostForCause` lists both as causes).
- Leaving the document field during a submission clears `loading` and allows a second
  submission; when the document is changed during a submission, its success clears the
  form of the next visitor; a photo file that is read late goes to the visitor then in
  the form; data typed for a stored visitor whose lookup failed is not saved.
- Lists without numbered requests (`BackupsQuery`, `RequestsQuery`, `UsersQuery`,
  `HistoryQuery`, `EditHistoryQuery`, `AlertsQuery`) may show an older answer last;
  docs/BACKEND_GO_MIGRATION.md:46 says answers of queries are ordered ("A17"). `Guarded`
  leaves them out of `ShowsWhatIsAsked` and `OwnChangeShown`.
- On the page of cancellations a change of the document clears the box but not the
  verification method (`components/PrivacyDashboard.tsx:143`), so that the DELETE for one
  person may carry the method typed for another (line 110); `OwnInput` speaks of the box.
- The success of a command closes whichever dialog is open by then, and the first answer
  releases the one slot that marks the busy item (`Succeeded`).
- React Query lets a fetch of an inactive key clear its invalidation, and joins the first
  fetch of a key, so that screens with filters over it may show old data for a while:
  `OwnChangeShown` leaves them out.

## Not modelled, and why

- Reading handlers, reports, calendar and export change no state.
- Cryptography, configuration and validation are functions of their inputs; in the
  models a document is its hash, a password is right or wrong, a copy is whole or
  damaged. Photos are stored and returned as they are.
- Migrations, seeding, roles and deployment run one after the other before the
  application does.
- The rebuilds of the search and identity indexes run from a maintenance command that
  refuses to start while anybody else is connected (`cmd/logmaster/operations.go:123`); the
  first is a batch per transaction with its cursor in it, the second one transaction.
- Exports (`VisitsTable`, `MonthlyReportCard`) format what was fetched; the forms that file
  and rectify ARCO requests send one request and keep no list; field rules, compression of
  photos and layout are data.
- In `ClientSession` the seven days of a session are a fault of any moment, and asking for a
  reset link is left out, as it keeps no state in the client. In `Screens` a calendar that
  needs several pages takes one revision, and `EditProfile` is modelled with the lists of
  visits only: in VisitorAdmin the details get a new object with every rendering. The
  controls of VisitorAdmin, which are off the screen while a key is first loaded, stay on in
  the model, and an inactive key is not forgotten after its five minutes.
- In `SubjectData` blocking and photos are left out, and an ARCO request is open or
  finished. In `BackupStore` an archive's older format is left out. In `Restore` the
  rehearsal is left out. In `EventHub` a stream that is cut is noticed by the browser.

## Order of the work

`VisitRules`, `VisitLifecycle`, `VisitDesk` and its proofs; `Accounts` and its proofs;
`SubjectData`; `EventHub` and its proofs; `RateLimiter`; `BackupStore`; `Restore`;
`ClientSession`; `CheckInForm` and its proofs; `Screens`; the proofs of `RateLimiter`,
`Restore`, `SubjectData` and `BackupStore`; the proofs of `Screens`, `ClientSession` and of
the limiter's history; `AccountLifecycle` and its refinement.

What would add most next: an abstract event stream that `EventHub` implements, the photos of
a visitor in `SubjectData`, and the rebuild of the search index with a stop between batches.

# Hotel Staff: TLA+ models, checks and proofs

Hotel Staff is a Go server over PostgreSQL with a Svelte page. Staff members log
in, see tickets, create them, accept them and assign them. This directory holds
TLA+ modules that model the parts of it with state and concurrency, the TLC
configurations that check them, and TLAPS proofs about the server, the page and the
dialogs.

    tlc -workers 2 -config TicketStore_races.cfg MC_TicketTables
    tlapm TicketStoreProofs.tla
    tlapm TicketPageProofs.tla        # and AuthSessions-, TicketList-, MigrationRunner-,
                                      # ServerLifecycle-, DialogsProofs

`PROJECT.json` maps every definition to the lines it models, and lists the runs,
the hazards, the findings and the theorems.

## Inventory

| Part | State | Operations | Hard because | Correct when |
|---|---|---|---|---|
| **Ticket transactions** `backend/client/tickets`, migrations 0008, 0009, 0020 | rows of tickets, assignment and activity tables; row locks; uncommitted writes | Create, Accept, ReplaceAssignments, FindByID (detail) | many handlers per ticket, statement by statement under READ COMMITTED; rollback and lost acknowledgements; a detail read by three statements | rows and history agree; one owner; assignments chain; answers tell what was committed; targets active |
| **Ticket list** `repository.go` List | none; the client's cursor | two views, keyset paging | three queries per page, a moving set, creation times that are late or equal | nothing that stays is missed or repeated; rows follow the history |
| **Migrations** `backend/shared/database.go`, `cmd/server/main.go` | `_sqlx_migrations`, the schema, the advisory lock, each process | connect, lock, apply, record, unlock, serve | several servers and builds, timeouts, crashes, orphaned database sessions | each migration whole and once, in order, recorded; no server serves another schema; the lock comes back |
| **Serving and shutdown** `cmd/server/main.go`, `app/app.go` | listener, context, pool | serve, signal, shutdown | races of error, signal and deadline; a shared pool; handlers that outlive the listener | the exit code is true; no transaction is cut off; requests and the process end |
| **Authentication** `backend/client/auth`, migration 0006 | `auth_sessions`, `users.last_login_at`, `is_active`, cookies | login, logout, RequireAuth | deactivation between statements, expiry, answers lost or reordered | sessions only for active users; a logout is final; a cookie names a session |
| **Tickets page** `frontend/src/routes/+page.svelte`, `lib/client/*` | list, chat, dialogs, in-flight sets, sequence numbers | switch, page, open, accept, assign, create | handlers run between awaits; answers in any order | stale answers change nothing; no double mutation; nothing is disabled for ever |
| **Dialogs** `lib/components/*` | form, loads, searches, delay timers | search, select, submit, cancel, retry | overlapping loads and searches that outlive a closing | the newest search wins; answers leave the selection alone; nothing loads for ever |
| **Lookups** `backend/client/lookups` | none | read departments, locations, users | – | one query each |
| **Health** `app/health.go` | none | health, readiness | an exhausted pool, a database that hangs | readiness answers in time |
| **Login page, theme, middleware, errors, configuration, cryptography** | next to none | – | – | – |
| **Development seed** `backend/admin`, `cmd/seed_development` | reference rows | two seeds by hand | collisions half way | all or nothing, idempotent |

The page talks to the server by HTTP only. Every handler but login first passes
RequireAuth, which reads `auth_sessions` and `users` in one query, and then works
with the principal it found. Handlers share nothing but the connection pool and
the database, so PostgreSQL's locks are all the synchronisation the server has.
The server serves only after RunMigrations returned.

## Modules

| Module | What it is |
|---|---|
| `ActivityLog` | the `ticket_activity` events of one ticket and what they say of owner and assignees |
| `TicketLedger` | abstract: the history of tickets as whole business events |
| `TicketStore` | the handlers as transactions; implements `TicketLedger` |
| `TicketStoreInvariant` | the inductive invariant of `TicketStore` |
| `ActivityLogProofs`, `TicketStoreProofs` | lemmas about logs; the theorems about rows, history and answers |
| `TicketList` | list requests, page by page, beside all that `TicketLedger` allows |
| `TicketListProofs` | its theorems |
| `TicketTables` | transactions and list side by side, for one run |
| `MigrationLedger`, `MigrationRunner` | abstract: whole migrations in order; RunMigrations in several processes implements it |
| `MigrationRunnerProofs` | its theorems |
| `ServerLifecycle` | serving, shutdown and exit of one process, with the handlers' calls on its pool |
| `ServerLifecycleProofs` | its theorems |
| `ServerProcess` | `run` of main.go: first MigrationRunner, then ServerLifecycle |
| `SessionLedger`, `AuthSessions` | abstract: sessions are opened and revoked; the auth handlers implement it |
| `AuthSessionsProofs` | its theorems |
| `TicketPage` | the page, its requests and the answers of the server |
| `TicketPageInvariant`, `TicketPageProofs` | its inductive invariant; its theorems |
| `AssignDialog`, `RequestDialog` | what the two dialogs load, search, select and send |
| `Dialogs` | both of them on the page |
| `DialogsProofs` | their theorems |
| `MC_*` | small instances: symmetry and the sets a .cfg cannot write |

TicketTables, ServerProcess and Dialogs join two parts that share no variable, or of
which one uses what the other has left behind. A behaviour shows steps of one part
only. Nothing is lost by that: no step of one part reads what the other writes, and
the product of both would only repeat each part's states. TLC reports such a part as
one action; its statistics by expression (`-coverage 1`) show that in `ticket_tables`
and `server` every action inside fires, `RefuseAcceptance` of another user's ticket in
`ticket_races`.

A definition whose comment starts with "Slip:" is not part of the specification.
It is the next definition with the mistake the comment names, and shows that a
property would notice that mistake.

### Ticket transactions

One action is one SQL statement whose effect or result others can influence.
`pc[r]` is the statement request `r` runs next, `tx[r]` what its transaction has
written and not committed, `reply[r]` the Go `Ticket` value read so far.
A statement reads committed rows through `tx[r]` (`RowSeenBy`,
`DepartmentsSeenBy`, `UsersSeenBy`), which is READ COMMITTED. `rowLock` is the
`FOR UPDATE` of Accept and ReplaceAssignments, `shareLocks` the `FOR SHARE` of
Create. `Finish` is every return with the deferred Rollback or the Commit before
it. `Abort` is any statement that fails, a cancelled context or a crash of the
server. `Commit` may tell the client of an error although it took effect.
Departments, locations and users are switched on and off by others, and others
close accepted tickets: no handler closes one yet, but the code reads the status.
Titles, descriptions, priorities and times are left out, and so is the
validation of the body, after which `Submit` starts.

### Ticket list

`TicketList` extends `TicketLedger`, so that everything TicketStore may commit
happens between any two steps of a list request; composing it with the abstract
module is sound because TicketStore implements it. A creation chooses its
`created_at` when it commits, which covers every transaction that started earlier
and commits later. One request is three steps, the statements of List
(`QueryTickets`, `LoadDepartmentAssignments`, `LoadUserAssignments`), and
`Receive` hands the page and its cursor to the client. `steady` is a history
variable: the tickets that were in the view since the first page was read. One
client follows the cursors it is given; a cursor that somebody made up is out of
scope, and so are titles and priorities, which List only copies.

### Migrations

One action is one statement on the migration connection. `lockHolder` is the
database session with the advisory lock. A process that crashes or loses its
connection leaves the session `Orphan`, which keeps the lock until PostgreSQL
notices, and which may still execute a COMMIT that was sent (`inFlight`). A build
is a set of files; names that cannot be read have version 0. Other tools may have
recorded a failed migration (`Dirty`). The ledger table has sqlx's name and
columns, so that is a state the program can meet.

### Serving and shutdown

`phase` is how far `run` and `serve` have come. The listener's goroutine sends its
one `report`; a report and a signal may both be there when select looks
(`TakeReport`, `BeginShutdown`). A handler is the sequence of database calls of
its route (`Work`), read off the repositories: each call takes a connection of the
pool and gives it back before the next. `locked` is a transaction that has the one
row all transactions want. `Exit` is the deferred `pool.Close`, which waits for
every connection, and then the end of the process with `ExitCode`. The shutdown may end,
exceed its deadline or fail otherwise (`DrainEnds`, `DrainTimesOut`, `DrainFails`). A transaction
may fail at any point (`AbandonTransaction`), and the database may stop answering
for good (`Stall`). Taken from how the code uses them, not from their source:
fasthttp's Shutdown waits for running handlers and refuses new connections, a
listener that opens after Shutdown is not stopped by it, and pgxpool refuses
Acquire once Close was called. A handler can thus be refused, and a request can be
dropped at the exit; LifecycleInvariant says when.

If the database hangs, `pool.Close` hangs too: the process then neither exits nor
heeds a second signal, whatever BACKEND_SHUTDOWN_TIMEOUT_SECONDS says
(SPEC-02-backend-foundation.md:806, "If the timeout expires, the process must not
wait forever."). StopsWhenTold therefore says "or the database has stalled".

### Authentication

Each request is a handler call; a login's request stands for the token it makes.
`userLock` is the row lock that `UPDATE users SET last_login_at` takes. The INSERT
of the session stays with the transaction until `CommitLogin`. Answers travel on
their own: `Receive` obeys Set-Cookie, `Lose` drops the answer. Time is a counter
for the server and the database together. Left out: password hashing (a password
is right or wrong), user agent and address, and the format of tokens: no two logins
have the same one.

### Tickets page

JavaScript runs one handler at a time up to its next await, so a click is one
step and the arrival of an answer is one step. `calls` holds the requests between
fetch and handler, each with the context (`Here`) that the code captures in
`listSequence`, `listView`, `chatViewGeneration` and the chat request. The server
answers a call in a step of its own (`Serve`), so answers arrive in any order and
may be older than what the page shows. Any call may fail with or without its
effect, or find the session over. `ShowTicket` is `applyTicketResult` of both
controllers. Of a ticket only its status is kept, "mine" or "theirs" for accepted.

The mouse cannot reach the page behind an open dialog, but nothing in the markup
keeps the keyboard from it (a backdrop button, no `inert`, no focus trap).
`BehindDialog` says whether the user does that. The passing run says yes, and so do
`page_behind_dialog` and `page_assign_dialog`, whose violations need it.
By keyboard the user can also open a chat, or the dialog of another ticket, while an
assignment is saved: `OpenTicketChat` and `OpenAssignDialog` then change or close the
dialog of the first. That is finding 5.

Left out: logout and the check of the session before the page shows, error texts
and their Retry links.

### Dialogs

`AssignDialog` and `RequestDialog` keep what the components' variables say that
matters to their calls. Both components stay mounted, so a closing stops neither a
call nor the delay of a search: each call carries the sequence number, ticket,
term and groups that the closure captured, and its answer compares what the code
compares. The loads of `RequestDialog` carry none, so they are a number. What the
server finds is a constant (`Found`, `Matches`): the directory does not change
meanwhile, lists are shorter than the limit of 100, so a list is right or wrong by
the filters it was fetched for. `Dialogs` puts both on the page, which shows one at
a time; they share no variable, so a behaviour uses one of them.

The page closes the assignment dialog by itself when a chat is opened behind it, also
while it saves, and may open it for another ticket without closing it
(`CloseAssignDialog`, `OpenDialog`); `HandleClose` is the dialog's own Cancel.

LocationFieldIsTrue says what the list of locations shows by whose answer it holds
(`picker.from`, a history that no guard reads): a search that was answered shows what
it found for the text now in the field, and nothing else; a load shows all
locations; and without an answer the list is empty only under an empty field. It does
not say that these are the locations the text asks for. They are not, in two
situations, and `ListAnswersTheText` in finding 6 is about them.

Two things the model shows that no property speaks of:

- AssignTicketDialog.svelte:131 sets `userSearchError` before it asks whether the
  load is still current. A failed load of a closed dialog puts the notice on the
  next ticket's form and hides its users until Retry or the next search. That is
  against SPEC-09-assign-ticket.md:771, "stale lookup results cannot overwrite a newer
  dialog state"; OfferMatchesFilters speaks of the users while they are shown.
- Select All for users (line 416) works while a search is under way or has failed:
  it selects the users of the former list, which is not on the screen.

Labels are left out. `mergeUserOptions` (lines 175-202) marks every assignee that
the lookup did not return as `inactiveCurrent`; so after a search an active assignee
who does not match the term is offered as "(Inactive)". The model has that user in
the list but not the word.

## Runs

| Run | Shows |
|---|---|
| `ticket_races` | HistoryExplainsTicket, AcceptAnswersStayTrue, ClosedDetailIsFinal, RepliesWithWhatItCommits, ImplementsLedger |
| `ticket_tables` | of the transactions: StoreInvariant (the proofs' invariant, TypeOK in it), CreatedForActiveTargets, EveryRequestIsAnswered; of the list: NothingSteadyIsMissed, PagesDescend, RowsFollowHistory, ClosedRowsAreFinal, PagingEnds |
| `server` | of the migrations: RunnerInvariant, LedgerDescribesSchema, ServesItsMigrations, ImplementsLedger, LockIsReleased; of serving: ZeroMeansGraceful, ExitCutsNoTransaction, EveryRequestEnds, ReadinessAnswers, StopsWhenTold |
| `sessions` | AuthInvariant, LoginAnswersHold, CookiesNameSessions, LogoutIsFinal, ImplementsLedger, EveryRequestIsAnswered |
| `page` | PageInvariant (the proofs' invariant, TypeOK in it), OneMutationPerTicket, ListIsOnePagedView, AnswersDoNotMoveChat, OnlyAssignmentsTurnBack, ComesToRest |
| `dialogs` | OfferMatchesFilters, LocationFieldIsTrue, SelectionIsTheUsers, DialogsSettle |
| `ticket_assignees`, `page_load_more`, `page_stale_assign`, `page_behind_dialog`, `page_assign_dialog`, `dialog_locations` | violated, see Findings |

### Bounds

- `ticket_races`: one ticket, two users, three requests. Transactions meet on a
  ticket row only, so one row is where the races are. With three requests there
  are two that race and a third that reads, retries or writes before or after. The
  users are actors and assignees at once. The list has nothing to add here and is left
  out (`StoresSpec`). About 157 000 states with symmetry.
- `ticket_tables`: two tickets that may be created, so that creations compete for
  ids; a department, a location and a user that change; two requests. The ids are
  fresh, so with two requests the sequence never runs dry. For the list three
  tickets, two creation times, pages of one or two rows, and changes as long as
  all tickets together have fewer than three activities (creations and closures
  always): two tickets tie, one commits late, and each of the three
  statements of a page can see another moment of one ticket. About 216 000 states.
- `server`: two processes with two starts each, and five directories: two releases of
  one line, an edited migration, a version that occurs twice and an unreadable
  name. Two processes and an orphan are enough for every contention on one lock, and
  a restart meets what the first start left. Then three requests and two connections:
  two transactions that contend for the row fill the pool while a third request
  needs it. The routes left out (logout, list, detail, lookups) only repeat
  the query of `session`. About 163 000 states.
- `sessions`: one user, one browser, three requests: a session that is opened, one
  that replaces it and a logout or visit with either. The time has two points, so
  a session can expire. About 530 000 states. Sessions of different users share no
  row.
- `page`: two tickets and one that may be created, pages of one, four clicks and one
  act of other staff, with the keyboard behind the dialogs. About 566 000 states.
  With pages of one Load more is offered from the start, and a second row takes one
  click, which leaves three for what meets on two rows. The shortest violations of
  the mutants and of the findings need two to four clicks: open, submit, and one or
  two clicks before the answer. What longer pages and more clicks could bring is
  what the theorems are for.
- `dialogs`: six clicks suffice for open, close, open again, and three acts inside
  while answers of the first opening are still out; seven for New Request. Two
  tickets, of which one has an assignee no lookup finds. About 1 554 000 states.

### Fairness

Only liveness needs any. `TicketTables` (for TicketStore) and `AuthSessions`: weak fairness
of `Proceed(r)`, the handler's own next statement. Goroutines are scheduled, and
PostgreSQL grants a lock once its holder has ended. Requests are finitely many, so
no one waits behind an endless queue. Submitting, aborting and switching are not
fair. `ServerProcess`: the same for a migrating process's own statements, and for the end
of an orphaned session, which PostgreSQL's socket errors and keepalives
bring about. Starts, crashes and timeouts are not fair. `TicketTables`, for the list:
the client goes on paging and its statements answer (`ReadPage`); PagingEnds excepts a client
whose requests fail for ever. `ServerProcess`, for serving: the goroutine of main (`Serve`,
its timer included) and each handler (`Handle(q)`), whose queries answer unless the
database has stalled; nobody has to send a request or a signal, the listener need
not stop, and no transaction has to fail. `TicketPage`: every fetch
settles (`Serve`) and its handler runs (`Arrives`). `Dialogs`: the same for the
calls and timers of each dialog. Nobody has to click.

### Where the models stop

`TicketStore` is checked for deadlock in `ticket_races`. `AllAnswered` is the only step that lets it
idle. The other runs say `CHECK_DEADLOCK FALSE` because they really stop: requests,
starts and clicks are bounded, and a user may do nothing, the page may have gone to
/login, or the servers may just serve. That nothing is stuck before is what
LockIsReleased, EveryRequestIsAnswered, EveryRequestEnds, PagingEnds, ComesToRest
and DialogsSettle say.

## Findings

1. **New assignees can be inactive** (`ticket_assignees`).
   `validateAssignmentTargets` checks `is_active` without `FOR SHARE`, unlike
   Create. A department deactivated between the check and the commit is assigned,
   although SPEC-09 says inactive targets cannot be newly assigned.
2. **Load more loses an acceptance** (`page_load_more`). `loadMore` bumps the list
   sequence but keeps the rows. The answer to an acceptance sent before no
   longer counts as current, and the row stays pending after a 200.
3. **An assignment turns a row back to pending** (`page_stale_assign`). Acceptance and
   assignment guard their own ids, so both can be in flight for one ticket, and
   each applies a whole ticket on arrival. The older snapshot can arrive last.
4. **A creation does not reload** (`page_behind_dialog`). With the keyboard the user
   starts a list request behind the New Request dialog. After the creation
   `loadFirstPage` returns because of it, with `activeView` already set to open:
   the new ticket is missing and the answer for the other view fills the tab.
   ListIsOnePagedView of the passing run excepts this case alone: the tab over a
   request changes only for a creation.
5. **An assignment closes another ticket's dialog** (`page_assign_dialog`).
   `handleSubmit` of the dialog calls `onClose()` after its answer without a look at
   the ticket it shows by then (AssignTicketDialog.svelte:323). By keyboard, Assign of
   another row, directly or after a chat was opened (+page.svelte:353), has put a
   second ticket there: its dialog closes and what was selected in it is lost. SPEC-09
   wants the assignment UI closed "appropriately" (line 780), the markup claims
   `aria-modal="true"`.
6. **The locations are not those of the text** (`dialog_locations`). A search empties
   the list before it is sent, and No location drops the search, so the list opens
   empty under an empty field; SPEC-06.6:74-77 wants all active locations there.
   In a longer trace the unsequenced load of an earlier opening (NewRequestDialog.svelte:64)
   comes after a search and shows all locations under typed text; SPEC-06.6:319 says
   that a stale response must never replace a newer result set.

## Theorems

`TicketStoreProofs` proves for any sets of tickets, users, departments, locations
and requests:

| Theorem | Says |
|---|---|
| `InvariantHolds` | `Spec => []StoreInvariant` |
| `TypeCorrectness` | `Spec => []TypeOK` |
| `HistoryIsComplete` | `Spec => []HistoryExplainsTicket` |
| `AnswersStayTrue` | `Spec => []AcceptAnswersStayTrue` |
| `StoreImplementsLedger` | `Spec => ImplementsLedger` |

Assumptions: `IdsAreDistinct` (ids of the lookup tables are told apart, None is no
id) and `NullIsDistinct` (None is neither a row nor an event). Both are about how
the model writes ids, not about the code.

HistoryExplainsTicket is not inductive. Commit appends an event that was built
from an assignment read five statements before, and keeps history and row in step
only because nobody else could write in between. So `StoreInvariant` adds what each
transaction knows at each phase (`Knows`): what its buffer holds, what it has read,
and that it holds the row lock (`AcceptKnows`, `AssignKnows`), or that its id is its
own (`CreateKnows`, `IdsAreFresh`). `UpdatesHaveLatest` says that the assignment
events of a log have a last one. The log is finite, but induction over logs is not
available to the provers, so the fact is kept step by step.

The argument: a step of request `r` leaves what another request knows alone,
because it writes rows only in `Commit`, and then of a ticket that `r` holds alone
(`UnmovedKnows`, `ReliesOnTicket`, `ReliesExclusively`). What `r` itself knows is
one lemma per statement (`LockingForAcceptKeeps` to `CommitKeeps`). `CommitCases`
lists the six kinds of commit, and `CommitExplains` shows that row, assignment and
log agree after each, by the lemmas of `ActivityLogProofs` on appending one event.
For the refinement, `CommitIsLedgerStep` maps a commit to one event or a stutter,
`CloseIsLedgerStep` the closure, and `OtherStepsKeepTables` the rest.

The module ends, from the same assumptions, with what is answered:

| Theorem | Says |
|---|---|
| `CreatedForActive` | `Spec => CreatedForActiveTargets` |
| `AnswersAreCommitted` | `Spec => RepliesWithWhatItCommits` |
| `ClosedDetailsAreFinal` | `Spec => []ClosedDetailIsFinal` |

StoreInvariant says nothing of share locks or of a reply that is half read, so
`AnswersInvariant` adds three parts per request. `HoldsTargets`: from its check to
its commit a creation holds the lookup rows, and a row that is held is not switched
off. `ReadsItsTicket`: what findByID has read back so far is what the transaction
will commit, which others cannot change while it has the row or the fresh id.
`ReadsFinalTicket`: once a detail has read a closed row, what it reads next cannot
change, for no transaction writes a closed ticket. Each statement leaves to other
requests what they rely on (`StepIsQuiet`, `UnmovedAnswering`). The one that writes
rows is the commit (`CommitLeaves`), and a request succeeds only by that commit
(`SuccessIsCommit`).

`AuthSessionsProofs` proves for any users, browsers, requests, lifetime and time:

| Theorem | Says |
|---|---|
| `InvariantHolds` | `Spec => []AuthInvariant` |
| `LoginAnswersAreTrue` | `Spec => []LoginAnswersHold` |
| `CookiesCanBeRevoked` | `Spec => []CookiesNameSessions` |
| `LogoutStaysFinal` | `Spec => LogoutIsFinal` |
| `SessionsImplementLedger` | `Spec => ImplementsLedger` |

Assumptions: `SessionTime` (time is a number) and, again about the model only,
`SessionIds` and `SessionNull` (None is no id, no number, no request and no row).

AuthInvariant is inductive. LoginAnswersHold and CookiesNameSessions are not: that a
session exists only after its login committed is `SessionsComeFromLogins`, that
its user is still active then is `LocksProtectLogins` (the login holds the row
that a deactivation waits for), and that the token of a running logout names a row
is `TokensNameSessions`. Each statement has a lemma (`ArriveKeeps` to `AbortKeeps`);
those that only answer share `AnswerKeeps`. For LogoutIsFinal, `TokensNameSessions`
says that the session of an answered logout is revoked, so it is not valid
(`RevokedIsNotValid`), whoever switches the user on again. For the refinement,
`StepsAreLedgerEvents` maps a commit to Open, a logout that changes a row to Revoke.

`TicketListProofs` proves for any tickets, creation times, page sizes and histories:

| Theorem | Says |
|---|---|
| `ListInvariantHolds`, `ListTypeCorrectness` | `ListSpec => []ListInvariant`, `[]ListTypeOK` |
| `PagingMissesNothing` | `ListSpec => []NothingSteadyIsMissed` |
| `PagingDescends` | `ListSpec => []PagesDescend` |
| `ClosedRowsStayFinal` | `ListSpec => []ClosedRowsAreFinal` |
| `RowsAreHistory` | `ListSpec => []RowsFollowHistory` |

`SteadyAccounted` is the strengthening: a steady ticket is shown, is on the page
that is being read, or lies below the cursor. It survives a page because `Less`
is a total order on keys, so the cursor separates what the page has from what it
has not (`CursorSeparates`), and it survives everybody else because a ticket that
joins the view later is not steady. A cursor by time alone would lose one of two
tickets with equal times. For ClosedRowsAreFinal, no event follows a closure.
RowsFollowHistory speaks of an answer, so `RowsRemember` says at each of the three
statements what the row has kept so far of the ticket's history; a moment of a log
stays one when the log grows (`GrownRemembers`).

`MigrationRunnerProofs` proves for any servers, builds, versions and starts:

| Theorem | Says |
|---|---|
| `LockExcludesMigrators` | `Spec => []RunnerInvariant` |
| `LedgerIsTheSchema` | `Spec => []LedgerDescribesSchema` |
| `ServersHaveTheirMigrations` | `Spec => []ServesItsMigrations` |
| `RunnerImplementsLedger` | `Spec => ImplementsLedger` |

Assumptions: versions are positive numbers, and None and Orphan are no values of
the code. `LoopIsTrue` adds what a loop knows: what it has visited is recorded with
its own checksum, and what it is about to apply is not recorded. Both stay true
while others commit because only the holder of the lock is in its loop, or an
orphan whose COMMIT is out (`OrphansCanCommit`), and because a row that is there is
never changed (`OthersKeepTheirRows`). Every build has an earliest file left
(`Earliest`, by the well-founded order of the numbers), so the loop goes upwards,
which is the order the ledger promises.

`ServerLifecycleProofs` proves for any requests, routes and size of the pool:

| Theorem | Says |
|---|---|
| `LifecycleInvariantHolds`, `LifecycleTypeCorrectness` | `LifecycleSpec => []LifecycleInvariant`, `[]LifecycleTypeOK` |
| `ZeroExitMeansGraceful` | `LifecycleSpec => []ZeroMeansGraceful` |
| `ExitIsBetweenTransactions` | `LifecycleSpec => []ExitCutsNoTransaction` |

Assumption: requests are finitely many and the pool has a connection. The
invariant is `LifecycleTypeOK /\ Graceful`: `Graceful` says what serve knows when it
returns, which is lost afterwards, when the pool is closed and late requests are
refused.

`TicketPageProofs` proves for any tickets, page size, kinds of mutations, clicks and
acts of other staff:

| Theorem | Says |
|---|---|
| `InvariantHolds`, `TypeCorrect` | `Spec => []PageInvariant`, `[]TypeOK` |
| `OneMutationAtATime` | `Spec => []OneMutationPerTicket` |
| `AnswersLeaveTheChat` | `Spec => AnswersDoNotMoveChat` |
| `OnlyAssignmentsTakeBack` | `Spec => OnlyAssignmentsTurnBack` |
| `ListStaysOnePagedView` | `Spec => ListIsOnePagedView` |
| `CreationReloads` | `~BehindDialog`: `Spec => CreationReloadsOpenList` |

Assumptions: `PageTickets` (ids are finitely many positive numbers), `PageLimit` (a
page has a row), `PageNull` (None is no id). The last theorem needs a dialog that
covers the page for the keyboard too; finding 4 is the counterexample without it. So
what the code lacks there is that cover, and nothing else.

None of the properties is inductive, for each speaks of the step that handles an
answer, and what makes that step right was settled when the request was sent.
`PageInvariant` therefore says what every request on its way has in common with the
page now. `ListCallsOK`: of the list requests only one has the current number, and
while it is out the list waits with the same rows, in the same view, with the
same last row. `CallsOK`: what the server has answered goes on being possible
(tickets are not deleted, a page lies below its cursor, an acceptance answers with no
pending ticket, and after a conflict the ticket is never pending again).
`MutationsGuarded`: a mutation holds its ticket. `DialogsWait`: a dialog waits for
its request, and the mouse alone reaches nothing behind it.

The argument: `ListPageIs` shows that the page the server reads is what it should be,
although it is written with CHOOSE and cardinalities (`RanksAreTaken`: counting from
the newest, every number is somebody's). Clicks, answers of the server and
arrivals each have one lemma per action (`SwitchViewKeeps` to `NewRequestCreatedKeeps`);
those that leave the list's request alone share `ListAside` and `AnswerAside`.
`RowsJoin` puts a page below the rows that are there. For the action properties,
`HandledArrives` says which step can take an answered request off the calls, and
`TabStep` that the tab over a request moves only for a creation. `ArrivingRowsAreNew`,
`AcceptanceShowsItsEnd` and `ClicksTurnNothingBack` go through everything that writes
a row or the chat.

`DialogsProofs` proves for any tickets, users, groups, locations, search terms and
number of clicks:

| Theorem | Says |
|---|---|
| `OffersMatch` | `Spec => []OfferMatchesFilters` |
| `LocationsAreTrue` | `Spec => []LocationFieldIsTrue` |
| `SelectionStays` | `Spec => SelectionIsTheUsers` |

Assumptions: `DirectoryIsGiven` and `LocationsAreGiven`, the types of what the
server finds, that an empty location field finds every location, and that
None is no ticket. The first two are not inductive. The invariants add that a
sequence number belongs to one call (`LoadsAreNumbered`, `SearchesAreNumbered`,
`LocationSearchesAreNumbered`), so that at most one answer will count. While that
call is under way it asks for what the form says, and the form says it is searching
and shows no list (`LatestSearchIsAwaited`). `ListIsAnAnswer` keeps what the list of locations
holds together with the answer it is from. A load has ended before the form it
fills can be clicked, so no later answer can replace a selection.

Not proved but model-checked: the liveness properties (EveryRequestIsAnswered,
PagingEnds, LockIsReleased, EveryRequestEnds, ReadinessAnswers, StopsWhenTold,
ComesToRest, DialogsSettle); every other property of a passing run has its theorem.
Out of the prover's reach: liveness under fairness and ENABLED,
induction over data (its theorems take an operator as a parameter), and RECURSIVE
operators, of which this project has none.

## Plan

Done: all components whose state several actors share, in the order of their
importance to the data (tickets, list, migrations, sessions, serving, page,
dialogs), and a proof of every safety property that a passing run checks. What is left:
a composition of AuthSessions and TicketStore, for a principal that goes stale
between RequireAuth and the transaction.

## Not modelled

- Theme, login page: one value, one form. The login they send is in AuthSessions.
- Middleware, the choice of status codes, configuration, cryptography: functions of
  one request or of the environment, with no state and no order of steps.
- The filters and the ORDER BY of the lookups: pure queries; their answers are
  constants of the dialogs.
- Validation of bodies and queries: it decides before the first statement whether
  a request is one of those modelled.
- Development seeds: run by hand, one transaction each, beside nothing.
- Messages, checklists, announcements, notifications, audit logs: tables that no
  code uses yet.

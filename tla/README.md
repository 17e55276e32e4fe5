# A verification project for the Procare backend

Procare's backend (NestJS, PostgreSQL through knex, Redis, BullMQ) runs the repair
orders of a chain of phone-repair branches: a Kanban board of orders, the
branches that own them, the telephone calls that create and move them, crons
that act on dates, and marketing campaigns sent through Telegram.  This
directory holds TLA+ models of it, the TLC configurations that check them, and
proofs for TLAPS.

Paths below are relative to the repository; `RO` stands for
`src/repair-orders/repair-orders.service.ts` and `OP` for
`src/online-pbx/online-pbx.service.ts`.  `PROJECT.json` lists components, runs,
mutants, hazards, theorems and, under `map`, the source lines of every
definition.

    tlc -workers 2 -config board.cfg MCRepairOrderBoard     # any run, see "Runs"
    tlapm RepairOrderBoardProofs.tla                         # any *Proofs module

## 1. Inventory

### The repair-order board

State: the columns `branch_id`, `status_id`, `sort`, `status` of
`repair_orders`; `customer_no_answer_count` and `customer_no_answer_due_at`; the
`branch_id` rows of the change history.  A *column* is the set of open orders of
one branch in one status; `sort` is a card's position in it.  No constraint of
the table keeps positions apart.  The handlers of `RO` do, by shifting ranges of
other rows before or after they write their own:

| operation | source | effect on the board |
|---|---|---|
| create, createOpenApplication, createFromWebhook | RO 154, 403, 3499 | insert at 999999, then to the top |
| update with a new status | RO 706 | close the gap, top of the new column |
| move, updateSort | RO 2132, 2248 | close the gap and open a slot, or slide inside the column |
| softDelete | RO 1991 | hide the row, close the gap |
| transferBranch, take, restoreToMother | RO 2735, 2965, 3045 | change the owner, top of the new column |
| moveToTop and its callers | RO 3236–3299, 3924–3974, 4042 | raise above the others |
| recordCustomerNoAnswer, processDueCustomerNoAnswer | RO 3301, 3392 | count, start 24 hours, move to Missed or Invalid |
| agreed-date cron | `services/agreed-date-cron.service.ts` | raise every order due this hour |

Hard: shifts that must agree to the row on both ends of a range; handlers that
read a position, let others commit, and shift by what they read; row locks
taken in scan order; ownership decided by a row read without a lock; early
returns inside a transaction; a cron that works on rows it read earlier.

Correct means: no two cards of a column at one position; child columns without
gaps; a handler reorders nobody but its own card; a call raises its order; one
of two branches that take an order gets it; the history names the owner; every
handler ends; a due order is dealt with.

### Telephony and operator assignment

State: `phone_calls` (last event, dialog duration, order), the comments of
orders, `repair_order_assign_admins` with its `assignment_source`.
OnlinePBX posts `call_start`, `call_answered`, `call_missed` and `call_end`;
`handleWebhook` reads the call's row and the customer's open order, calls
`RepairOrdersService` (a transaction of its own), then stores the call and the
comment in another transaction.  The exchange repeats what it has no answer to.

Hard: a crash between the transactions; repeated webhooks recognised only by
the last event stored; an order read first and used later; operators who
replace each other by role.  Correct means: each call is commented and counted
once, no conversation is lost, no second order, and the operator who answers is
assigned and not joined by a colleague of the same role.

### Campaigns

State: `campaigns.status`, `campaign_recipient.status`, the jobs in BullMQ.
`create` commits the campaign and its recipients and then enqueues a job for
each; a worker process claims the recipient, sends, records the result and
completes the campaign when nobody is left; employees edit, pause, resume and
delete.

Hard: jobs delivered again after a stall or an exception, a crash anywhere
between claim, send and record, two workers finishing last together, a pause
racing the enqueue.  Correct means: no customer gets two messages, rows do not
claim what did not happen, a completed campaign has nobody left, an undisturbed
campaign completes.

### Customers

State: the rows of `users`, whose number is unique among all rows, deleted ones
included; the orders of a number, of which calls find the open ones of Mother.
Webhooks, web applications and employees look a number up, insert a row when they
find none, and open an order in the same transaction (RO 403, 943, 3499, 3719).
An order leaves those calls find when a child takes it or it gets a final status,
and comes back by `restoreToMother` (RO 3045) or a move.

Hard: two webhooks of one caller at the same time; an insert that waits for
another transaction's number and then fails; a number that passes from one
customer to another; an order that is away when its customer calls again.
Correct means: one order per caller but for what ran side by side or could not be
found, and no request refused for a number it could have found.

### Rental phones

State: `rental_phone_devices`, `repair_order_rental_phones`, and the hour-old
cache of free phones.  No handler of a rental opens a transaction: it checks,
and then writes the rental and the phone in separate statements.

Hard: a phone checked by two requests; a crash between two statements; an
exchange or removal that frees a phone another rental has.  Correct means: a
phone is marked rented exactly if one active rental has it, the active rental is
the newest (the only one `update` looks at), a closed rental stays closed.

### What hangs on an order

State: phone category, problems and parts (a tree each, with their lists in
Redis); pickups, deliveries, assigned staff and the log of their changes;
comments made from the log, and their backfill; the service form and the
warranty agreement; the gates of statuses and branches; cached lists of orders;
notices.

Hard: a catalogue changed while an order is described with it; updaters that
log what they read rather than what they wrote; comments that tell the status of
an older moment; files outside the database; one order shown in the lists of
several branches and flushed under one; messages sent before a commit; notices
that outlive the assignment, or the order, they tell of.

### What administrators keep

State: accounts, codes, sessions and the tokens logged out (Redis); roles,
permissions and what Redis remembers of them; the ordered lists (branches,
statuses, causes, regions, categories) and their caches; the change history, its
current values, hash chain and graph; the scripts that run before the server
starts and make statuses and roles canonical.

Hard: an answer computed from what a commit has overtaken and stored after the
flush; a Redis that does not answer, of which no handler is told
(`common/redis/redis.service.ts` swallows every error); a code sent before an account was opened and used after; two inserts at
one place; a script that maps statuses while the server moves orders.

### Parts not modelled

- **One-time passwords** (`common/services/otp.service.ts`): no module of the
  program calls the service.  The codes in use are those of `auth.service.ts`,
  in `AdminAccounts`.
- **Support agent and WebRTC, Telegram client, SMS, storage, templates,
  analytics, couriers, feature flags, logging, filters, pipes**: read-only SQL,
  rendering or HTTP without a protocol of their own.

Every component is in `PROJECT.json` with what of it is left out, every hazard
with its line and the properties that cover it; one without a property says why.

### How the parts interact

Webhooks and the no-answer cron change the board through `RepairOrdersService`,
each call in its own transaction; the agreed-date cron shifts the columns with
SQL of its own.  The database is the only shared state of the board; there is no
lock in the process.  Redis holds caches and tokens: handlers commit first and
flush afterwards.  BullMQ (on Redis) connects the API process to the campaign
workers, which share `campaign_recipient` with it.

## 2. Modules

| module | models | uses |
|---|---|---|
| `ColumnOrder` | the shifts and `moveToTop`, as functions on positions | |
| `RepairOrderBoard` | the board; each handler one action, run alone | `ColumnOrder` |
| `BoardTransactions` | the same handlers statement by statement under READ COMMITTED, several connections | `ColumnOrder`; `Board == INSTANCE RepairOrderBoard` |
| `AgreedDateCron` | the hourly cron on top of the board | extends `RepairOrderBoard` |
| `Telephony` | exchange, webhook handler, stored calls, assignment | |
| `Campaigns` | campaign, recipients, queue, workers | |
| `Customers` | users, their unique numbers, the orders opened for them | |
| `RentalPhones` | phones and rentals, one statement a step | |
| `Catalogue` | trees of phones and problems, parts, their lists, one order's description | |
| `OrderLog`, `OrderComments` | an order's log of changes; comments made from it and the backfill script | |
| `OrderGates` | what an employee may do with an order, offered and decided | |
| `OrderLists` | one cached list of orders, its fills and flushes, the searches | |
| `OrderNotices` | notices, rooms and sockets | |
| `OrderPapers`, `PublishedDocuments` | service form and agreement of an order; offers and warranty documents | |
| `AdminAccounts` | codes, registration, login, logout of the accounts of a number | |
| `AccessControl` | roles, permissions and four kinds of cached answers | |
| `ReferenceLists` | seven ordered lists and their caches | |
| `History`, `HistoryGraph` | current values of fields and links; hash chain, graph, timeline | |
| `CanonicalStatuses`, `CanonicalRoles` | the scripts run at start or by hand, with the server beside them | |
| `MC*` | constants for TLC; `MCDetails` and `MCAdministration` put several modules into one run | |
| `*Proofs` | theorems, section 5 | the module they are named after (`OrderDetailsProofs`: `RentalPhones`, `OrderLists`, `PublishedDocuments` and `Catalogue`; `OrderRecordProofs`: `OrderLog`, `OrderComments`, `Customers`, `OrderGates`, `OrderPapers` and `OrderNotices`; `DetailsProofs`: `MCDetails`, from these two; `AdministrationProofs`: `AdminAccounts`, `AccessControl` and `History`; `ListsAndCampaignsProofs`: `ReferenceLists` and `Campaigns`), TLAPS |

### State and actions against the code

**RepairOrderBoard.**  `life`, `branch`, `status`, `sort`, `noAnswer` are the
columns of `repair_orders`; `due` is `customer_no_answer_due_at` as NULL, in the
future, or past; `fromMother` is what `wasRepairOrderTakenFromMother` finds in
the history.  Actions bear the handlers' names.  The transition table, the
status types and the positions clients send are constants.  Branch permissions
are in `BoardTransactions` and `OrderGates`.

**BoardTransactions.**  `Program(op)` is the list of statements a handler
sends.  `com` and `cur` are the committed and the latest version of every row,
`lock` its holder.  A shift first finds the rows that match in what it sees
(`Find`), then updates them one by one in any order (`Touch`), waiting for
locked rows and re-checking the condition on the newest version, as PostgreSQL
does; `DeadlockAbort` is its deadlock detector; `Rollback` is the `catch` block;
`Leak` is the early return of `updateSort` that ends no transaction.  `com`
under the refinement mapping must be a behaviour of `RepairOrderBoard`.

**AgreedDateCron.**  `batch` is the array of rows the cron has read and not yet
moved.

**Telephony.**  `job` is the handler's progress: `Receive` (the reads), one of
the seven branches of `handleWebhook` (`OutboundStart` … `EndUncounted`), `Save`
(the upsert and the comment), `Answer200`.  `wire` holds webhooks without an
answer; `Stop` and `AnswerLost` put the handler back to the start of the same
webhook.  Employees act between any two steps.  `place` abstracts what the
telephony sees of an order: tracked, in repair, Invalid, closed, at a child,
deleted.  `Found` is nondeterministic where the query has no ORDER BY and where
the age of the history decides.

**Campaigns.**  One campaign.  `worker[w].at` is the statement a worker is at;
`Stall` delivers an active job again while the first worker may go on;
`Abandon` is a crash or an exception at any point.

**Customers.**  `customer` and `opened` are committed rows; `handler[h].claim`
is the row an open transaction has inserted, which keeps others who insert the
number waiting.  An order is `open` where calls find it, `away` at a child or in a
final status, or `deleted`; `LeaveQueue`, `ComeBack` and `DeleteOrder` are what
the board's handlers do to it, between any two statements of a request.  `beside`
and `shut` are history: the orders whose transactions ran while an order's did, and
those of its number that were away or deleted when its transaction looked.

**AdminAccounts.**  `answers` says whether Redis does.  `RedisTurns` changes it
between any two steps; `Kept` is `RedisService`, which keeps what it is told or
drops it silently, and a handler goes on either way.  Reads of a Redis that is
silent find nothing: the guard then takes any token for one that is neither
blacklisted nor without session, a logout that reads ends, and a logout that had
read its session answers success.  `out` and `unkept` are history: the tokens whose logout
was answered, and those of them Redis did not take.

**OrderNotices.**  `repairOrder.team` is `repair_order_assign_admins`.
`AssignOrder` adds to it in a transaction that tells whom it adds;
`RemoveFromTeam` (create with an empty list, delete, deleteMany) and
`AssignSilently` (calls, moves out of an invalid status) tell nobody;
`MarkDeleted` leaves team and notices as they are.  An event's `aim` is whom it
tells, fixed when it reads.

**RentalPhones.**  `request[r].todo` is the list of statements a handler has
computed and not yet sent; `Advance` sends one; `AbortRental` stops after the
first.  `overlapped` and `tainted` are history variables: the orders two requests
worked on at once, and the phones whose status nobody vouches for any more
because of a race, a stale cache, a crash, an administrator, or an exchange or
removal of a rental that was not active.

**The other modules** follow one scheme.  A handler is a record of what it has
read and what it will do (`client`, `updater`, `clerk`, `mover`, `desk`, …); a
transaction commits in one step where all it relies on is read inside its own
statements, and has a step per statement where it is not; Redis is written in a
step after the commit.  What the code cannot promise is recorded in history
variables (`stale`, `late`, `raced`, `unlogged`, `astray`, `surprised`, …), each
of which is extended at the very step the code goes wrong or is overtaken, and
nowhere else, so that the properties say what holds *but for* these.

## 3. Runs

| run | shows | bounds | states |
|---|---|---|---|
| `board` | unshared positions, gapless child columns, order of neighbours | 3 orders, Mother and one child, 2 statuses, positions to 5 | 19,382 |
| `no_answer` | a due order of Mother is settled | 2 orders in Mother, limit 1, up to 3 calls | 2,919 |
| `tx_serial` | statement-level handlers implement the board | 1 connection, 2 orders, 5 handlers | 211,548 |
| `tx_owner` | takes and restores are decided on fresh rows, history, handlers end | 2 connections, 3 orders, 2 children, 3 handlers | 135,702 |
| `telephony` | the properties of webhooks and assignment | 2 calls, 2 operators of one role, 3 orders, 1 employee action, 1 mishap | 1,954,825 |
| `campaigns` | one message, true rows, completion | 2 recipients, 2 workers, 2 deliveries per job | 569,414 |
| `administration` | the seven modules of what administrators keep | two handlers or scripts at a time, 2 accounts, 3 rows, 3 events, 2 to 4 requests | 1,150,389 |
| `details` | ten of the modules of what hangs on an order, its customer, its phone | two requests at a time, 2 to 4 requests | 851,184 |
| `child_due` | **violated**: a taken order stays due for ever | 1 order | |
| `transfer_history` | **violated**: a transfer writes no history | 2 handlers | |
| `sort_leak` | **violated**: a handler never returns its connection | 2 handlers | |
| `agreed_cron` | **violated**: the cron makes two cards share a position | 3 orders | |

Each property of a passing run has a mutant: a plausible wrong form of one
definition under which TLC finds the property violated (`mutants`).

### The two runs over several modules

The modules of `administration` share no variable, nor do those of `details`, and
no action of one reads another, so the product would only multiply their states.
The variable `about` picks at the start the module a behaviour is about; the
variables of the others keep one value (`Off`, or an initial state in which
nothing is going on).  A property of one module is checked under its own name
where it holds trivially of the resting state, otherwise in a conjunction:

| property of the run | is |
|---|---|
| `RecordsTrue` | `CurrentValuesTrue` (`History`), `HistoryChained` (`HistoryGraph`), `StatusesCanonical`, `RolesCanonical` |
| `OrderSound` | `LiveParents`, `ProblemsOnLeaves`, `RowsFit` (`Catalogue`), `GatesKept` (`OrderGates`) |
| `CachesTrue` | `ListsTellTheTruth` (`Catalogue`), `OrderListsTrue` (`OrderLists`) |
| `OutputsTrue` | `PapersKept` (`OrderPapers`), `PublishedIsActive` (`PublishedDocuments`), `NoticesTrue` (`OrderNotices`) |
| `TypeOK` | the type invariant of the module the behaviour is about |

The others are `AnswersTrue` (`AccessControl`), `LoggedOutStaysOut` and
`BackOnlyByOldRequest` (`AdminAccounts`), `PlacesDistinct` and
`RedisTellsTheTruth` (`ReferenceLists`), `ActiveIsNewest`,
`DeviceFollowsRental` and `ClosedStaysClosed` (`RentalPhones`),
`OneOrderPerCaller` and `RefusedOnlyWhenTaken` (`Customers`), `LogTellsTheRows`
(`OrderLog`), `CommentTellsStatus` and `BackfillComplete` (`OrderComments`).

### The four violations

1. `child_due`.  `getRequiredStatusByType` (RO 4259) looks for Missed and
   Invalid among the statuses of the order's own branch.  Only Mother has
   statuses.  An order a child takes while its 24 hours run makes
   `processDueCustomerNoAnswer` throw every minute.
2. `transfer_history`.  `transferBranch` (RO 2740) reads without a lock; after a
   `restoreToMother` in between, it compares the new branch with the branch it
   once read and logs nothing.
3. `sort_leak`.  `updateSort` (RO 2281) returns without commit or rollback when
   the position is unchanged.
4. `agreed_cron`.  The cron moves its second order by the position it had before
   the first was moved.

### Why these bounds are enough to be interesting

- A shift treats a third card by whether it is before, inside or behind the
  range, so three cards of one column reach every relation of two bystanders to a
  moved one; two statuses and two branches reach every pair of source and target
  column.  `MaxSort` lies two above the number of cards, since `take` leaves gaps
  in Mother.  The theorems in section 5 remove the bounds.
- Two connections are what a lost update or a deadlock of two handlers needs.
  `MaxJobs` lets a handler start before, between and after two others.
- `MaxWire = 1` in `telephony`: webhooks are handled first in, first out and the
  exchange does not look at orders, so sending one only when the last has been
  answered gives the same sequences of handler steps.  Two calls are what it
  takes for one call's row to be mistaken or an operator to meet a colleague.
- Two recipients and two workers are the race for the last recipient; a second
  delivery is the first that could send twice.
- In `administration` and `details` two handlers are what a race needs; a third
  and fourth request (`MaxRequests`, `MaxCalls`, `MaxVisits`, `MaxDeeds`, …) act
  on what the race has left.  The rows are what a handler tells apart: a row, its
  neighbour, and room for a new one.
- Some bounds are in the next-state relations of `MCDetails` and `MCAdministration`.
  `OneTab`: where somebody joins or leaves the branch, or the order is deleted,
  there is one connection; two of one administrator are what the socket map can
  confuse, and it knows nothing of branches or orders.  `EventIsLast`: with one
  event, nothing but an assignment looks at the team or the deletion once it has
  begun.  `OnlyCalls`: among customers' orders those that calls opened go away, for
  the property is about these; they are deleted only between requests, since
  during one that is no more than going away; and not where a customer is deleted
  as well.  `SilentBriefly`: Redis goes silent while a request for an account is
  under way (between requests nobody would notice), not the last one, and until
  it turns again no request begins and nothing expires.  `AttachUser`, one
  statement, counts as a request, and a command lost in `AccessControl` as an
  event.  The theorems have none of these bounds.
- `Last` stands for 999999; all that matters is `MaxSort < Last`, and the guard
  of `Next` keeps it so.  The real board would need a million arrivals.

Symmetry is used in `board` (orders), `telephony` (operators), `administration`
and `details` (handlers, and values that are only compared), none of which checks
liveness.

### What clients are assumed to send

`board` takes positions a client has reason to send: `ClientsInRange` says a card
is dropped in front of or behind a card of the column.  The DTO admits others, 0
among them: `updateSort` can put a card there, and the next card that arrives at
the top pushes it to 1, where it then stands itself.  Positions far beyond the
column leave gaps.  `tx_serial` checks the refinement with all positions, 0
included, and `BoardImplemented` proves it for any.

## 4. Fairness

- `RepairOrderBoard!FairSpec`: weak fairness of the cron on each order and of
  time.  The cron comes every minute and takes up to 200 due orders; the model
  assumes fewer are due at once (the query has no ORDER BY).
- `BoardTransactions!FairSpec`: weak fairness of each connection's next step.
  The database finishes a statement that waits for nobody and breaks deadlocks;
  the event loop goes on with a handler whose statement is done.
- `Campaigns!FairSpec`: an accepted `create` reaches the queue, a waiting job is
  fetched by a free worker, a running worker goes on.  `CompletesUndisturbed`
  states its preconditions: no job is lost or taken back.  A worker that meets
  Telegram's "retry after" waits and calls itself again; the model takes that to
  end.
- The other modules have no fairness; their properties are safety.

## 5. Proofs

Every theorem is checked by `tlapm` from the definitions, for every value of the
constants, and listed under `theorems`.  TLC checked each inductive invariant on
its run before it was proved.  No theorem assumes more of the constants than the
named `ASSUME`s of the module and the hypotheses given here.

### RepairOrderBoardProofs

`TypeCorrect`, `NoSharedPositionHolds`, `NeighboursKeepOrderHolds`,
`ChildColumnsContiguousHolds`, `CallRaisesToTopHolds`, `DueHasCountHolds`, for any
orders, branches, statuses and transitions.

Two of them depend on what clients send.  `PositionsFit` (clients never send
position 0, or drop cards only next to cards) is assumed by `NoSharedPosition` and
`NeighboursKeepOrder`; `ClientsInRange` by `ChildColumnsContiguous`, which a card
dropped far behind the last one would break.  `board.cfg` has
`ClientsInRange = TRUE`.

`NoSharedPosition` is not inductive.  A card at 0 would be pushed to 1 by the
next arrival, and a card at 1 is not moved at all when it is called, because
`moveToTop` returns early; so `Placed` says that every open card stands at 1 or
behind.  A card that arrives is first put at 999999, so `Bounded` says nobody
stands there.  `IInv` is `TypeOK /\ Placed /\ Bounded /\ Distinct`.  The argument
has a lemma for each shift (`CloseGap`, `OpenSlot`, the slide, the raise) that
says what it keeps apart, one for each composition of them (arrival, landing in
another column, sliding, going to the top), and one step for each handler.
Gapless columns need more: `Filled` says that every place from 1 up to a card's
own is taken, which each shift keeps and which makes the places 1 to n.

### BoardTransactionsProofs

`TypeCorrect` and `LockedMovesAreFreshHolds` for any connections and orders;
`HistoryNamesOwnerHolds` under `"transfer" \notin Ops`, since the run
`transfer_history` shows that it fails with transfers; and the refinement.

A row nobody has locked is as committed; a lock is held by a handler at work that
has passed its first statement; a handler that began with `SELECT ... FOR UPDATE`
holds that lock to its end, on a row it found fit (`LInv`).  Nobody else can
therefore commit a version of that row.  For the history, `OInv` adds that
every version of a row names its own branch, and that the branch a take or
restore read is still the one it writes over.

`BoardImplemented`: `ImplementsBoard` for one connection that starts from an empty
board, with any orders, branches, statuses, positions and requests.  These two
hypotheses are what the refinement is about (several connections do not implement
the board, and `RepairOrderBoard` starts empty); `BoundsAssumption` is the one of
`RepairOrderBoard`, that no position reaches 999999.  `SInv` says that a handler
alone has the committed rows plus its own work, and what that work is at each of
its statements: its order is `Own`, and any other row is `Done`, shifted by the
statements it has run and by the one it is at if the row is no longer in `todo`.
A lemma for each kind of statement shows that `SInv` is kept (`ReadAlone` to
`TouchAlone`).  What `Done` is after the last statement is then stated in the
operators of `ColumnOrder` (`ClosedIs`, `RaisedIs`, `SlottedIs`, `SlidIs`), and a
lemma for each handler shows that its COMMIT is the board's action of that name
(`CreateImplements` to `CallImplements`).  Every other step leaves the committed
rows alone and is a stutter.

### TelephonyProofs

`TypeCorrect`, `OneOperatorPerRoleHolds`, `CommentedOnceHolds`,
`NoAnswerCountedOnceHolds`, `ConversationNotedHolds`, `NoSecondOrderHolds`,
`AnswererNotKeptOutHolds`, for any calls, operators, roles, orders, crashes,
repetitions and webhooks in flight.

One operator per role is inductive with the types.  The others rest on `WInv`:
what a webhook says is what the exchange knows or knew of the call; each event of
a call is announced once and its end last; a stored row that has seen the end is
written by nothing earlier; the row the handler read is the call's until it
writes.  To that come `CommentKnown` (what told of a commented call is recognised
when repeated), `ConversationKept` (a conversation is on its way, or stored with
its comment) and `CountsKept` (counts are bounded by the stored unanswered calls,
plus the stops of the server, plus the one in hand).

### AdministrationProofs

`AccountsTypeCorrect`, `LoggedOutStaysOutHolds`, `BackOnlyByOldRequestHolds` of
`AdminAccounts`, for any accounts, requests and ids.  A token that is out is no session or is blacklisted
(`Shut`) unless Redis did not take it when its logout was answered, and a login in
progress has a token nobody else has (`Fresh`).  While Redis is silent nothing is
claimed: the guard accepts every token then.  An account that settled goes
back only by something drawn before it was opened or deleted; `Aged` says that
all that is still around and could do so is that old.

`AccessTypeCorrect` and `AnswersTrueHolds` of `AccessControl`, for any
administrators, roles, permissions and handlers, whatever the roles grant at the
start, wherever handlers stop.  Assumed is that roles are positive numbers and
that there is one.  `AnswersTrue` alone is not inductive: a commit makes answers
wrong, the commands that forget them come later in the same handler, and another
handler may meanwhile carry an answer read before.  `AccessInv` adds, for the
steps each handler has left (`Queue`),

- that reads come last, what a change promises to forget (`Promised`) is
  forgotten after it, and the rows of a role that is gone are cleared after it
  (`Shape`);
- that an answer, a list of roles or rows in hand which no commit has overtaken
  is what the database says now (`Current`).

`WhatACommitChanges` is the central lemma: an answer whose truth a commit changes
is one the change promises, one its handler's `ClearRows` will forget, or one of
`Neglected`, the list of those the code never forgets.  It goes kind by kind: permissions, roles,
rows, lists of statuses (`PermissionsCovered`, `NamesCovered`, `RowsCovered`,
`ViewsCovered`), the last through the first role that has a row.

`HistoryTypeCorrect` and `CurrentValuesTrueHolds` of `History`, for any rows, values,
links and handlers, wherever these stop.  What is recorded is computed from the row a
handler read before it wrote, so `HistoryInv` says of each handler

- that until it commits the row it wrote is as it read it, unless it knows itself
  misled, and that what it will record is what is recorded now with its own
  difference (`RowsRead`); for links, what its kind of change takes away, and that the
  link it names last is one it sets, or the one named now is not one it dropped
  (`LinksRead`);
- that of two handlers of one row neither creates it and at most one holds it
  (`RowsApart`), and that no handler takes away links another one adds (`LinksApart`).

With these each commit is either recorded or puts the field among the exceptions.

### ListsAndCampaignsProofs

`ListsTypeCorrect`, `RedisTellsTheTruthHolds`, `PlacesDistinctHolds` of
`ReferenceLists`, for any
finite set of rows and any handlers, requests and places asked for, wherever
handlers stop.  Assumed are that answers of `findAll` have keys of their own
(`ItemsAssumption`) and that behaviours start from distinct places
(`StartsAssumption`).

Neither property is inductive: a key redis tells wrongly is seen to by a *later*
step of some handler, and what that step writes was read before others
committed.  `ListsInv` therefore says of each handler, whichever its request,

- what its remaining steps may be (`Planned`): one change of rows at most, then,
  wherever the code flushes, a step that sees to each key the change touches;
- what it has in hand (`Holds`, `Answers`, `EditsOf`, `Creates`): unless overtaken
  by a commit, the row or answer it will give redis is the committed one, or the
  one its own change makes;
- for a status that moves (`Moves`), that the rows it will forget are all between
  the two places, unless it was overtaken - those moved meanwhile are the
  exception `Unattended` names.

`Covered` replaces the keys a handler owes by those it sees to whatever it finds
(`SureOf`): before its change a handler may still be refused (`NotFound`).
The lemmas are one for each step of a handler (`CommitKeeps`, `StoreKeeps`,
`FlushKeeps`, ...) and one for each way to begin (`ChangeBegins`, `GuardedBegins`).

`PlacesInv` says that a handler about to create a row knows a place beyond every
open one, and one about to move a row knows its place, which no other open row
has (`PlacesKnown`), as long as only one places rows at a time.  `ShiftKeepsApart`
is the arithmetic of `updateSort`.

`TypeCorrect`, `OneMessageHolds`, `RowTellsTheTruthHolds`,
`CompletedMeansSettledHolds` of `Campaigns`, for any recipients, workers and deliveries.
`FairSpec`, which the run uses, implies `Spec`.

Between the claim and the record of a recipient there is at most one worker
(`HeldOnce`), and the row is then processing or deleted (`HeldTruly`).  Nothing
makes a row pending again, so a second delivery finds nothing to claim.  A worker
that counted nobody left is still right when it writes (`CountedRight`), for
the same reason.

### OrderDetailsProofs

`TypeCorrect`, `ActiveIsNewestHolds`, `DeviceFollowsRentalHolds`,
`ClosedStaysClosedHolds` of `RentalPhones`, for any phones, orders and simultaneous requests,
wherever they stop.

"A phone is rented exactly if one active rental has it" fails between two
statements of every handler.  `RInv` therefore splits the phones: one in
nobody's hand agrees with its rentals; one in a request's hand will agree when
the statements left have been sent (`Settles`), for which each request has at
most one statement that is not about a phone's status and at most one for each
phone.  Requests that have neither overlapped nor shared a phone are apart
(`RequestsApart`), so that one's statements leave alone what another will settle
(`StepKeeps`).

`ListingTypeCorrect` and `OrderListsTrueHolds` of `OrderLists`, for any orders,
places, requests and handlers, wherever these stop.  Assumed is that orders and
handlers are finitely many, since the list has a total (`FiniteAssumption`), and
that the marks for "nowhere" and "where it is" are no branches (`NamesAssumption`).
`ListIsFresh` says nothing while a handler has still to flush, nor of what requests
have read.  `ListingInv` therefore says that a request not overtaken by a commit
has read what the queries return now (`ViewersKnow`), and that a kept list is what
they return unless it is doubtful or a handler that committed has still to flush its
prefix (`KeptIsKnown`).  A lemma for each handler shows that a commit that changes what
the queries return leaves the flush of that prefix to do, or makes the list doubtful.

`DocumentsTypeCorrect` and `PublishedIsActiveHolds` of `PublishedDocuments`, a
conjunct of `OutputsTrue`, for any texts and any finite set of requests
(`AuthorsAssumption`: the types count who is still to begin its transaction, as
`clock` is bounded by the requests made).  `WritersApart` says what the unique
indexes and the locks on the rows leave: versions are distinct, and of warranty
documents one request at a time has written a row that is not committed, and it
knows every active one.  `AloneFits` says of a request that nobody ran beside
that it knows all rows, and that what is in the storage before an offer's
commit, or in its hand after a warranty document's, is what the active row says.
While some request has published what is not committed, or committed what is
not published (`Unsure`), nothing is claimed; when it ends, the claim returns.

`CatalogueTypeCorrect`, `LiveParentsHolds`, `ProblemsOnLeavesHolds`, `RowsFitHolds`
and `ListsTellTheTruthHolds` of `Catalogue`, for any trees, parts, kinds of problems
and simultaneous requests, wherever they stop.  Assumed is that there are finitely
many problems, that the marks for "none" are no rows, and that behaviours start from
trees that hang together, with mapped roots open and above no open category that is
active (`StartAssumption`).  Every handler checks in one step and commits in a
later one, so `CatalogueInv` says of each request what it made sure of and what of
that still holds of the rows nobody raced it for (`PhoneFits`, `ProblemFits`,
`OrderFits`, `ListFits`).  `RacesNoted` makes this last: a row that two requests
under way have both touched is `raced`.  Of an order's rows the hard part is
`AllowedFor`, which climbs from a problem to its root by a recursive function.
What that path holds is shown without induction over data: where two trees agree
on a path or a path leaves a set, there is a least step at which it first does not
(`LeastNumber`, by well-foundedness), and the step before it contradicts this
(`PathClimbs`, `PathsAgree`, `OpenAllTheWay`).  A list in redis is true, or a request
has still to flush it (`ListsKept`).

### OrderRecordProofs

`LogTellsTheRowsHolds` of `OrderLog`, for any routes, admins, faults and
simultaneous requests.  `LogInv` adds to the property the types and
`ProblemsRead`: the problems a request has read are still the committed ones,
unless another request has committed since, which it then knows to be an excuse.
`OrderLogAssumption` says that routes and admins are different things, since
`unlogged` holds both.

`CommentsTypeCorrect`, `CommentTellsStatusHolds` and `BackfillCompleteHolds` of
`OrderComments`, for any statuses, handlers, sizes of a batch and any finite set
of rows, wherever handlers and the script stop.  What a comment says depends on
rows that others are writing, so the invariant is about rows:
`RowsOwned` (a row nobody committed is in its writer's hand and saw the order's
status), `MovesAlone` (one handler moves the order at a time, and its row of the
status is no older than any other) and `RowsSaw` (a row saw each status recorded
before it, unless another one was recorded in between).  `Told` is
`CommentTellsStatus` of one comment in a form that lasts: the rows that excuse it
are committed or belong to the same handler, and so are not undone alone; rows
"older than the first recorded status" are older than now, so that no status can
still be recorded in their millisecond.  For the script, `Ahead` says that a row it found and has not
commented lies behind the last batch, is in this one, or comes after all of it
when the batch is full; `FirstRows` is the lemma about the query's LIMIT.

`CustomersTypeCorrect`, `OneOrderPerCallerHolds` and `RefusedOnlyWhenTakenHolds` of
`Customers`, for any numbers, rows, orders and simultaneous requests.  `CInv` says
of each request in progress how what it knows relates to the committed rows (`FitsCustomers`) and
orders (`FitsOrders`), that two requests never claim one row or one number
(`Apart`: the unique index), and that of two orders of one number one ran beside
the other or was hidden from it when it looked (`PairsFit`).  The pairs are all
orders calls opened, wherever they are now: an order that comes back would refute
an invariant about the open ones.

`GatesTypeCorrect` and `GatesKeptHolds` of `OrderGates`, a conjunct of
`OrderSound`, for any statuses, fields, branches and simultaneous requests.
`SetupsAssumption` says that a setup names for each status what it needs.  That
what is offered is what is accepted (`OffersKept`) follows from the
definitions alone.  For `NeedsKept` the invariant says what a request that is about
to write has made sure of: one that enters a status found there, by the rows it
read and of what it knew of the order, all the status needs; one that stays does
not take away a date which those rows ask for, since who may change an order has
a row for its status and the first row of any of his roles is asked.  What
became of the order or of the rows since is what `spared` records.  The model of
`update` decides by the rows read with the order, as the code does; those of
`move` come with its checks.

`PapersTypeCorrect` and `PapersKeptHolds` of `OrderPapers`, a conjunct of
`OutputsTrue`, for any identities and any finite set of requests
(`ClerksAssumption`: the types count who is still to date a form).
`AloneIsAlone` says that no other request prints the same kind of paper beside one
that is alone, but for two of one agreement; `PaperFits`, of such a request, that
what it uploaded is in the storage and not among the files it is to delete, and
that the rows it read are those there are.  For the types, `DatesApart` tells the
dates of saved forms from those of forms still to be saved.

`NoticesTypeCorrect` and `NoticesTrueHolds` of `OrderNotices`, a conjunct of
`OutputsTrue`, for any administrators, connections, parts of an order and events
(`NoTabAssumption`: no connection is the mark for none).  `MembersFit` says that
who never joined or left the branch is in its room only if of the branch,
however old the cached list of branches and however long the join of the room
takes; `SocketsFit` is `LatestHears`.  The rest is per event (`ToldFits`): what is
known of it when it is told, whose rows are stored when its messages leave for
one socket (`DirectFits`) or for the room (`RoomFits`), and so why whoever heard it
has a notice or one of the named excuses (`HeardFits`).  That an assignment which
ended has given a notice to each it took on and to nobody else is said of the
event, not of the team, which others change meanwhile (`EventFits`); `TeamStep` is
the lemma that changes of the team and the deletion of the order disturb none of this.

### DetailsProofs

`DetailsTypeCorrect`, `OrderSoundHolds`, `CachesTrueHolds`, `OutputsTrueHolds`: the four
conjunctions that the run `details` checks, for any constants.  A behaviour of
`MCDetails` is about one of ten subjects, and what it is about decides which
modules move.  `DetailsInv` is the inductive invariant of that subject's module,
and what the two modules above prove of its steps is all that is needed.

### What stays with TLC

- Liveness (`MotherDueSettled`, `HandlersEnd`, `CompletesUndisturbed`): the
  prover has neither fairness nor ENABLED.
- The conjunction `RecordsTrue` and the types of `MCAdministration`, but for the
  types of `AdminAccounts`, `AccessControl`, `History`, `ReferenceLists` and the
  conjunct `CurrentValuesTrue`, which are proved.  `HistoryChained`,
  `StatusesCanonical` and `RolesCanonical` are about chains of events and about what
  scripts leave after searching and merging rows, whose proofs would be by
  induction over data; library theorems that take an operator cannot be used.
  (Where an argument needs only the largest element of a finite set, or the first
  step of a path, as in `OrderDetailsProofs` and `OrderRecordProofs`,
  well-foundedness is enough.)

## 6. What the models show

Beyond the four violations, these are behaviours of the code that the models
reach and that no property forbids, since nothing in the repository promises
otherwise, or that a history variable records as an excuse.

**Board.**  With two connections, two cards can come to share a position: every
handler shifts by a position it read without a lock.  `take` leaves a gap in
Mother's column, where the other handlers that change the owner close it.  A
child's employee who passed the check of ownership can finish an update of an
order restored meanwhile.  `docs/repair-order-branch-hierarchy-plan.md`, rules 8
and 10, calls creation in Mother and returning to her unsupported; the code has
both.

**Telephony.**  A crash between `recordCustomerNoAnswer` and the upsert of the
call counts the call twice.  `handleCallAnswered` looks for an order by number
only, so a customer known by his row and not by that number gets a second one.

**Campaigns.**  `resume` enqueues nothing: recipients whose jobs a pause removed
stay pending.  A campaign without recipients never completes.  The shares of an
A/B test are rounded down and leave users out.

**Customers.**  A deleted customer's number stays taken, and the next request
for it fails on the unique index.  Two webhooks of a known caller may each open
an order.  So do two calls one after the other when a child has the first order, or
it has a final status, as the second comes: nobody looks beyond Mother's open ones.
When the first comes back (`restoreToMother`, RO 3045), both are open, and calls
take either (the query has no ORDER BY).

**Rental phones.**  Exchange and removal of a rental that is not active free a
phone that may be lent to somebody else; creation may rely on a cache an hour
old; `create` refuses the status types 'Canceled' and 'Completed' but not
'Cancelled' or 'Invalid'.

**Lists of orders.**  A change flushes the lists of the branch it reads.  Mother's
orders appear in the lists of children and in lists of several branches as well,
and these keep the old order for as long as the cache lives
(`docs/repair-order-branch-hierarchy-plan.md:197` asks for both).  Comments,
problems, rentals, names and permissions flush nothing.

**Gates.**  `docs/repair-order-branch-hierarchy-plan.md:21` has transitions
independent of the branch, but permission rows of a branch decide their targets.
`update` checks required fields before the values it is about to write, and may
leave a status without the date it asks for.  The duplicate check looks back 7
days where its message says 3.

**Notices.**  The notice of an assignment is stored on the creating transaction
without `await`: it may be lost, or sent and rolled back.  An incoming call is
broadcast without a stored row.  Rooms follow a list of branches cached for an
hour.  Who is removed from an order keeps the notice of the assignment (an empty
list, `assign-admin-updater.service.ts:54`; delete, 143; deleteMany, 183), and the
notices of a deleted order stay as well.

**Accounts and access.**  A code sent before registration and used after it makes
an account Pending again; a late verification revives a deleted account.
While Redis does not answer, tokens that were logged out are accepted
(`jwt-admin.guard.ts:46`).  A logout that loses Redis after it read the session is
answered with success (`auth.service.ts:397`), for `RedisService.set` swallows its
error (`redis.service.ts:57`); if the session was deleted before, or goes later, the
guard accepts the token also when Redis answers again, until it expires.  The model
has such tokens in `unkept`.
`roles.update` flushes the administrators it read before its commit, where
`docs/ROLES_POSTMAN_GUIDE.md:113` says permissions change at once; `roles.delete`
flushes none.  `deletePermissionsByStatus` writes on another connection inside an
open transaction.

**History.**  `update` records what it read before its transaction; `unlink`
removes the single current value of a field with several links; two simultaneous
`createEvents` fork the hash chain that `docs/HISTORY_MODULE_DOCUMENTATION.md:36`
describes as one; a backfill overwrites newer values.

**Documents.**  No unique index keeps a second offer from being active.  An
offer's file is stored before the commit, a warranty's after it; a service form's
old files are deleted before the new one is there.

**Scripts.**  An order moved while the status script maps its status ends in a
deleted one.  A script that stops half way may leave two statuses of a type.  The
role script fails when another role, even a deleted one, has a canonical name.

## 7. Abstractions and limits

- `RepairOrderBoard` takes a handler as one step.  For one connection
  `BoardImplemented` justifies it; for several, `BoardTransactions` says what
  remains.
- `Telephony` works on one webhook at a time and takes each call of
  `RepairOrdersService` as one step; two webhooks at the same moment are in
  `Customers`.  `recordCustomerNoAnswer` is one step everywhere, so two counts
  in the same instant are not modelled.
- `Campaigns` has one campaign, whose jobs are delivered at most `MaxDeliveries`
  times.
- The cron's limit of 200 orders is not modelled.
- A behaviour of `administration` or `details` is about one component; handlers
  of different components do not interleave there.
- Redis failing silently is in every module with a cache.  In `AdminAccounts` it
  is a state (`answers`) that all steps read.  In `AccessControl` and
  `ReferenceLists` a command is lost (`AnswersStay`, `KeysStay`) and the handler
  goes on.  In `OrderLists` (`FlushLost`) and `Catalogue` (`Abandoned`) flushing is
  the last thing a handler does, so that losing it ends the handler.  The commands of one step are lost together.  A
  read that fails is taken as one just before which the key expired.  The keys a
  lost command leaves wrong are excused, until they expire.
- Names, texts, prices and formats are left out or are model values; searches are
  by the classes of terms the code tells apart.
- History variables record what a property excuses.  A property of the form "but
  for races" says nothing of what the race leaves.
- Not modelled: the parts at the end of section 1.

## 8. Plan

Done: the models and runs of every component that keeps state; proofs for the
board, its transactions and that they implement it, telephony, campaigns,
accounts, roles and permissions, ordered lists and their caches, the current values of
the change history, customers, and all that hangs on an order: rental phones, the
cached lists of orders, published documents, the catalogue, its log, comments, gates,
papers and notices, one by one and as `MCDetails` puts them side by side.
Next: `recordCustomerNoAnswer` as a
program of `BoardTransactions`.

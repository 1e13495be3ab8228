# Verification of apartamenty-piwniczna-rynek-backend

TLA+ models of the backend that runs the bookings, door codes, guest messages,
notifications and mails of a set of holiday apartments, the TLC runs that check
them on small instances, and theorems about each of these state machines, and about
the rules of the statistics, that TLAPS checks for every instance. All paths are
relative to the repository (`src/...` is its `src/` directory).

## The system

A NestJS process talks to PostgreSQL, to Hostex (the channel manager that owns
most bookings), to TTLock (the door locks), to Apple's push service and to a mail
provider. There is no queue server and no distributed transaction: everything
that must survive a restart is a row, every external call happens between two
statements, and whatever went wrong is left to a timer.

| Component | State it keeps | Operations | What is hard |
|---|---|---|---|
| Access-code lifecycle (`access-codes.service`) | `reservation_access_codes` (status, version, PIN, window, `provider_passcode_id`), audit events; the passcodes on the lock | create, update, replace, revoke, reconcile; four sweeps each minute | table and lock share no transaction; answers get lost; requests, sweeps and restarts interleave on one row |
| Access-code drafts, lock mappings | `access_code_drafts` with an expiry; which lock belongs to which apartment | prepare, confirm, apply, cancel; move a lock | a draft is applied once, against a state that has moved on |
| TTLock client (`ttlock.service`) | access and refresh token in memory | list, create, change, delete passcodes; readings | ten-second timeout, one token request for several callers |
| Reservations (`reservations.service`) | `reservations` | create, update, cancel | row lock, apartment lock, a Hostex call inside the transaction, a second pooled connection |
| Hostex synchronisation (`hostex-sync.service`) | `reservations`, `reservation_source_refs`, `reservation_review_items` | timer, webhook, administrator, read-back of a new booking | Hostex is read before the transaction that applies the reading |
| Hostex writes (`hostex-reservation-writes.service`) | none of its own | create, update, cancel in Hostex | a change that was made and not answered |
| Webhook inbox (`hostex-webhook.service`) | `hostex_webhook_events` | receive, drain | lease, retries, a limit of attempts, restarts |
| Arrival messages (`arrival-messages.service`) | `arrival_message_deliveries`, `arrival_message_sent_at` | half-hourly run, "send now" | a text that may have been sent; two backends; one text per arrival date |
| Notification producer, dispatch, preferences | `notification_events`, `notification_deliveries`, devices, preferences | triggers, reminders, dispatch every fifteen seconds | claims with SKIP LOCKED, events that get stuck half sent, devices that change meanwhile |
| Reservation e-mails | `reservation_email_outbox` | trigger, dispatch every thirty seconds | coalescing, lease, retries within the idempotency window |
| Statistics (`statistics.service`) | none (reads Hostex) | report of a period | two date filters, nights at the edges of periods |
| Connection pool, wiring | ten connections, a queue without timeout | | nested use of the pool |
| Calendars, apartments, admin guard, crypto, Hostex client, health | none, or single statements | | |

How they interact: a webhook is stored by the inbox and makes the synchronisation
read Hostex; the synchronisation and the administrators write `reservations`;
triggers on that table produce notifications and mails; the code automation reads
`reservations` every minute and creates, moves or revokes codes; the arrival
message reads the reservation and its active code. All of it through rows, never
through a call that waits for the other part.

What makes each component correct is stated as properties of its module and
summarised below, run by run; `PROJECT.json` lists the hazards, each at its line,
with the properties that would catch it.

## Modules

| Module | Stands for | Size of a step |
|---|---|---|
| `GuestAccess` | abstract: what the panel shows of a code and what is on the lock for it | one change of either |
| `AccessCodes` (implements `GuestAccess`) | the code lifecycle, one lock, its automation, the administrators | one statement or one call to the lock |
| `CodeDrafts` | drafts, the codes they reserve or replace, the moves of locks between apartments | one statement or one transaction |
| `ReservationSync` | Hostex, `reservations` with references and review items, imports, administrators | one statement, one page item read, one call to Hostex |
| `HostexInbox` (extends `ReservationSync`) | the webhook queue, whose events drive the import worker `Inbox`, and the conversation a message event is about | one statement, one import step |
| `ArrivalMessages` | deliveries, the half-hourly runs of two backends and "send now" | one statement or one call to Hostex |
| `Notifications` | events, deliveries per device, devices and preferences, the dispatch of several backends | one statement or one push |
| `EmailOutbox` | the trigger on `reservations`, the outbox, the dispatch of several backends, the provider's memory of keys | one transaction or one request |
| `SharedResources` | the connection pool with its queue, and the TTLock session all calls share | one statement, one request for a token, one call |
| `Statistics` | the pure rules of the statistics page | operators only |
| `StatisticsReport` (composes `Statistics` with `ReservationSync`) | the page opened at any moment of the synchronisation | |
| `AccessCodesProofs`, `CodeDraftsProofs`, `ReservationSyncProofs`, `ArrivalMessagesProofs`, `NotificationsProofs`, `EmailOutboxProofs`, `SharedResourcesProofs` | theorems about the module of that name | |
| `InboxAndReportProofs` | theorems about `HostexInbox`, `Statistics` and `StatisticsReport` | |
| `MC...` | instances for TLC: model values, windows, budgets, tables to start from | |

### AccessCodes and GuestAccess

`row` is the table, `lock` the passcodes the lock holds, `op[w]` the local state of
worker `w` (an administrator's request, or the cron, of which the `busy` flag
allows one run). An operation's program counter walks through the steps of the
source: `load`, `claim` and then `find`, `exists`, `available`, `create` and so
on are the calls of `reconcile`; `prepare` and `change` those of `update` and
`applyReplacementDraft`; `claimDelete` and `delete` those of `revoke`; `fail` and
`record` are the two statements of `markSyncError`.

- Versions. `WHERE ... AND version = $2` compares a version with one that was read
  before. Instead of a counter the reader carries `fresh`, which every write that
  increments the version clears for everybody else (`ContinueBumping`). The writes
  after the claim do not look at the version, and neither does the model.
- Lock calls. A call fails before it reaches the lock (`LockCallFails`), or is
  carried out and its answer lost (`Answered`). A change or a delete of an id the
  lock does not hold is refused. A call takes effect before it returns: one that
  is carried out after its ten seconds (`ttlock.service.ts:608`) is not modelled.
- Time. `aged` says that `updated_at` is older than the limit of the recovery query.
  A row that an operation still owns does not age: its lock calls time out after
  ten seconds each, and the limit for pending rows is ten minutes. `today` is the
  day; windows and stays are pairs of days.
- `goal` is a history variable: what the last request asked for. No action reads it.
- `Reserve` and `Prepare` are one step: both run in a transaction that locks the
  device's row first.

`GuestAccess` leaves out requests, failures and retries: a code is shown as none,
pending, active or revoked, and has at most one passcode on the lock. It becomes
active only with a passcode and revoked only without, and the passcode changes only
while the code is pending. `Promise` maps to it: every status between is pending,
and a passcode belongs to the row that answers for it, by its id or by PIN and
window. `KeepsPromise` is that every step of `AccessCodes` is a step of
`GuestAccess` or none.

### CodeDrafts

`place` is `apartment_access_devices`, `draft` and `code` are the two tables, `op`
an administrator's request. A draft is prepared for a new code or to replace the
one that was shown, and confirmed up to a day later (`Claim` is the UPDATE that
only one confirmation wins); applying reserves or prepares the code in one
transaction that checks version, lock and PIN again, then talks to TTLock and
notes the end. What TTLock is asked in detail is `AccessCodes`; here it is one
step with two outcomes. Moving a lock counts the codes that use it, then moves it
and displaces the other lock of the apartment. Reservations stay confirmed.

### ReservationSync and HostexInbox

An import reads Hostex stay by stay (`ReadStay`), takes the advisory lock
(`BeginTransaction`), plans and writes each stay (`Plan`, `Upsert`) against what
it sees of the table, its own uncommitted writes included (`View`), and commits.
`Plan` is `planReservation` with the overlap check of `upsertReservation`.
Administrators' updates hold the row (`RowLockFree`) and the apartment's advisory
lock (`ApartmentLockFree`) while Hostex is called; cancellations hold the row
only. `ver` counts a stay's changes in Hostex; in a row it says which change the
row shows. It is history: no guard reads it.

One apartment with a fixed mapping is modelled. `createManual` is the path through
Hostex; its last UPDATE of contact data and the path without a Hostex service are left
out, and a create is not repeated under the same channel id. A create looks for
overlaps without a lock (`Create`) and then has Hostex book (`BookDirect`), with room
for every other step in between. The order in which a reading's stays are planned is
arbitrary, which covers the source's.

In `HostexInbox`, `Claim` is `claimNext` with the start of `processEvent`; the
event's import is then the worker `Inbox` of `ReservationSync`, and `Settle` is
the UPDATE at the end of `processEvent`: when the one after a success fails, the
catch clause stores `pending` or `failed` instead, and when that fails too the lease
stays. A message event may name no conversation (`named`); it is then processed
without a word to anybody. `due` stands for `next_attempt_at <=
NOW()`, both for the retry delay and the lease. A second notification with a known
key changes nothing and is left out. `handled` remembers which readings an import
applied or reported, `message` which message an event is about: history.

### ArrivalMessages

`delivery` has a row for each reservation and arrival date, `texts` counts what
reached the guest's chat (history). A worker is a backend's run or a "send now"
request. `Claim` is the INSERT ... ON CONFLICT DO UPDATE, `Send` the call to
Hostex, which sends and answers, refuses, or does not answer, having sent or not.
`GoesStale` lets fifteen minutes pass for a row no worker holds: a worker is
assumed to finish one stay within them. The reservations modelled have a channel
chat; the map image, the wording and the templates are left out. `Days` passes
without a bound on the runs in a day, so "for ever" in its liveness property
stands for the eight runs a day has.

### Notifications

`event`, `delivery` and `device` are the tables (with the owner's preference and
whether the app is on the phone), `reached` and `refused` history. A run releases
stuck events, claims a batch by priority, and for each event reads the recipients
without a final delivery, asks for their preferences, and pushes to each one; the
outcome is recorded by the statements of the source, in their order, each of which may
fail. The event ends as `sent`, `failed` or, with attempts left, `pending` again.
`stuck`, `waiting` and `expired` are the three clocks. A run serves its batch one push
after another, each of which may take ten seconds, and nothing sets `updated_at` in
between, so an event may become stuck while a run still holds it (`HeldTooLong`);
`outlived` remembers that it was released then (history). One kind of event is
modelled; badges, payloads, failure counts and the cached provider token are left out.

### EmailOutbox

`UpdateStay` is the trigger: it folds a change into the mail that waits, takes a
creation back that was never announced, or inserts a new mail. A run leases the
oldest due mail and fixes its request (`Lease`, which also gives up a mail older
than 23 hours), locks it again (`LockAgain`), sends it with its key, and
records the end. The provider delivers a key once while it remembers it, which is
a day. `TimePasses` makes a mail that was tried older by one of `Pauses` hours.

### SharedResources

A writer holds a connection from BEGIN on, waits for the apartment's advisory lock,
and may ask for a second one (`getLinkedReservation` inside `update`). The queue is
first come first served. A lock user holds no connection while TTLock is asked:
it takes the cached token, joins the request that runs, or starts one, by refresh
token and then with the account; a refused token is dropped once and the call
repeated. Tokens are numbered in the order TTLock issued them.

### Statistics

Operators with the names of the source over sets of bookings and days as integers;
`StatisticsReport` evaluates them on the bookings Hostex has in a state of
`ReservationSync`. Ledger, reviews, tasks, currencies and rounding are left out.

## Runs

Every run but the two violated ones visits its whole state space. The bounds are
budgets that guards spend: faults (a call that fails or loses its answer, a
statement that fails), restarts, requests and changes from outside. Most instances
start from a choice of several budgets, so one run covers several mixtures of
trouble without the product of all of them.

| Run | Properties | Instance |
|---|---|---|
| `recovery` | `TypeOK`, `ActiveIsOnLock`, `NoForgottenPasscode`, `NoPinCollision`, `OneWriterPerCode`, `RevokedIsFinal` | two rows, two bookings, two PINs, one window for all (so equal PINs collide); an administrator and the cron; one of each disturbance, or two faults beside a request, or two requests beside a change of the bookings; 4.2 million states |
| `automation` | `CancelledGuestLosesAccess`, `DueGuestGetsCode`, `CodeFollowsStay`, `RecoveryFinishes`, `KeepsPromise` | two rows, one booking whose stay may be prolonged, shortened, cancelled and confirmed again; the cron alone with two faults and a restart, or one fault, a restart and two changes, or one request of an administrator beside a fault and a change; 387 thousand states |
| `intent` | `RecoveryKeepsIntent` (violated) | one row, one PIN, a stay that begins tomorrow; three requests of an administrator, a fault and a restart |
| `drafts` | `TypeOK`, `DraftTakesEffectOnce`, `ReplacesWhatWasShown`, `MoveSparesCodes`, `ApplyingHasOneWorker` | two bookings of one apartment, two locks, drafts, codes, PINs and windows, two administrators; four requests and one disturbance, or three and two; 637 thousand states up to symmetry |
| `imports` | `OneRowPerStay`, `NoDoubleBooking`, `OnlyLongStaysAreMissed` | timer and webhook on two stays and three ranges of nights, two that follow each other and one across both, beside an empty table, iCal blocks or a manual booking; or two administrators with three requests and no import; every period of the days modelled for the statistics; 1.6 million states |
| `reaches` | `HostexReachesTable` | the timer beside an administrator's create, update or cancel, or beside a webhook; two changes in Hostex; a restart; 1.5 million states |
| `double` | `NoDoubleBooking` (violated) | the timer and one administrator's update |
| `inbox` | `InboxTypeOK`, `LastWordIsAnnounced`, `ProcessedWasApplied`, `EventsSettle` | one event of each kind, two of which arrive; two stays, two messages, two attempts, a fault, a restart; message events with and without a conversation; 923 thousand states |
| `served` | `TypeOK`, `OneTextPerStay`, `FailedWasNotSent`, `DueGuestIsServed` | two backends and a request, two arrival dates, two attempts, a fault, a restart, a change; 576 thousand states |
| `pushes` | `TypeOK`, `OneDispatcher`, `SentIsFinal`, `SubscriberIsReached` | a critical event and one of the lowest priority, two devices, two backends, three attempts; two disturbances: a fault with a restart or a change, a failing statement with a change, two changes, or a run that holds an event too long with a fault or a restart; 1.2 million states |
| `mails` | `TypeOK`, `NoMailTwice`, `NewestMailAgrees`, `MailsSettle` | two backends, three attempts, four changes of the stay with a refused or lost answer, or fewer changes with a restart and pauses of eleven or twelve hours, so that a mail may be 22, 23 or 24 hours old; 622 thousand states |
| `shared` | `TypeOK`, `RefreshTokenIsUsedOnce`, `RetryUsesAnotherToken`, `RequestsEnd` | two writers of one apartment and two lock users on a pool of two, with and without a configured account, one lost answer or end of the tokens; 568 thousand states |

Why these bounds are enough to be worth something: each property is broken by a
pair or a triple of actors on one row (two writers, a writer and a restart, two
overlapping bookings, a reading and a change), and for each property a mutant of the
code (a dropped guard, a swapped status, a query that looks at too few rows) is
found within the same bounds, so the interesting states are inside them. Two
PINs are what it takes to tell a changed PIN from an unchanged one and few enough to
force collisions; three ranges of nights give an overlap with each of two that do not
overlap; two connections are as many as two writers hold, so that the circle they can
close is among the states. Of the counters,
`MaxPasscodes` is as many as the requests and faults of an instance can create (with
a higher bound the state space is the same), and `MaxMails` is as many as its
changes.

What they show, in words:

- **Codes.** A row shown as active is on the lock with that PIN and window. Every
  passcode on the lock has exactly one row that recovery can find it from,
  whatever answers were lost. After its claim a row has one writer, which is what
  makes the unversioned writes right. What the panel shows and what opens the door
  change only as `GuestAccess` allows. A cancelled guest ends without a code, a
  guest arriving today gets one, a code follows its stay, and every pending or failed
  row ends as active or revoked unless its window is over or recovery cannot repair
  it: see the limits below.
- **Drafts.** A draft takes effect once, and replaces the code the administrator
  saw or nothing. A lock with codes in use is not moved away under them, and a draft
  that is being applied has one worker, apart from the limits below.
- **Bookings.** One row for each stay, one stay for each row, and no two bookings
  on one night, among imports and among administrators. What Hostex says reaches the
  table, or the stay is on the list of problems and its nights are really taken.
- **Inbox.** An event is marked processed only after an import that committed had
  seen the notified change or a later one; it does not stay in the queue. When a
  guest has the last word, and the processed event of it named its conversation, the
  administrators know it.
- **Arrival messages.** One text for each arrival date, never one more after
  `failed`; a due guest is served.
- **Notifications.** One backend at a time dispatches an event and a device served is
  not served again, unless the event was released from under a slow run; and a phone
  that stays subscribed gets the event unless Apple refused it or the event grew too
  old.
- **Mails.** None is delivered twice, the newest one says what the booking is, and
  each ends as delivered, taken back or reported as failed.
- **Shared resources.** A refresh token is used once, a retry uses another token,
  and every request ends unless writers that wait for each other hold the whole pool.
- **Statistics.** No night is shown as occupied that is not, and the only ones that
  are missed belong to stays that span the whole period.

### Findings

1. `intent`: `reconcile` without an intent deletes when the newest failure event is
   `delete_failed`. That event outlives its request: an administrator's revoke fails,
   the administrator asks for the code again, a restart cuts that `ensure` short, and
   the automation's recovery resumes it as a delete.
2. `double`: imports and administrators check for overlaps under advisory locks of
   different names, so neither sees what the other has not committed.

### Known limits

Met while stating the properties, and excluded from them where that is said. Codes:

- a failed replacement leaves the new PIN in the row, and recovery sends
  `changePasscode` without it, so its confirmation fails each time
  (`access-codes.service.ts:1088`; `Repairable`);
- a row whose passcode was deleted without an answer, and whose booking was then
  confirmed again, is recovered by changing a passcode that does not exist
  (`Repairable`; the next code of that booking waits behind it);
- a PIN that is being replaced is free in the table before the lock has given it
  up: with two requests, a fault and a restart another booking may draw it and
  recovery, looking for PIN and window, may adopt or delete the wrong passcode
  (`NoForgottenPasscode` is not checked with that budget); with a third request the
  first code may even become active after recovery has deleted its passcode
  (`ActiveIsOnLock` fails then; the theorem names what excludes it,
  `TakesFreePins`). The window an update has left is free in the table in the same
  way while the lock still has the PIN in it;
- recovery of a failed replacement that also set another window moves the old PIN
  there; if another code has that PIN in that window and the answer of its creation
  was lost, removing that code may delete the wrong one of the two passcodes and
  leave its own (`NoForgottenPasscode` fails with four requests and two faults,
  although every PIN that is reserved is free on the lock; the theorem names what
  excludes it, `NothingIsReplaced`);
- failed creates are repeated by the automation although
  `docs/access-codes-api.md:139` leaves them to an administrator;
- a draft in `applying` stays so for good after a restart, or when the note of its
  error fails, and no further draft of the booking can be inserted
  (`access-codes.service.ts:812`; `lost` in `ApplyingHasOneWorker`);
- a code reserved between the count of a lock's codes and the commit of its move
  stays behind on the moved lock (`lock-mappings.service.ts:68`; `late` in
  `MoveSparesCodes`);
- applying a draft does not look whether the booking is still confirmed.

Bookings:

- an overlapping import that read Hostex earlier and commits later puts older dates
  back until the next run (`hostex-sync.service.ts:243`; `docs/hostex-api.md:45`);
- a stay that moves from one page to the previous one during a reading is missed by
  it (`hostex-sync.service.ts:681`);
- two notifications without an `event_id` and with the same body count as one
  (`hostex-webhook.domain.ts:47`);
- a conflict item is never closed by the code (`hostex-sync.service.ts:609`);
- `update` asks the pool for a second connection inside its transaction: as many
  concurrent updates as there are connections wait for each other for good
  (`reservations.service.ts:306`; `Circle` in `RequestsEnd`).

Messages, notifications and mails:

- a message event whose body has no usable `conversation_id` is marked processed and
  nobody is told (`hostex-webhook.service.ts:181`; `hostex-webhook.spec.js:189` wants
  it so; `named` in `LastWordIsAnnounced`);
- of two messages a guest writes before the first event is handled, the first is
  never announced (`notification-producer.service.ts:124`;
  `notification.domain.ts:85`);
- `releaseStaleSending` commits `uncertain` for all stale rows before it tells the
  owner of any; after a restart in between nobody is told
  (`arrival-messages.service.ts:308`);
- a restart between the text and `arrival_message_sent_at`, followed by a move of
  the stay, sends a second text (`arrival-messages.service.ts:335`; the comment in
  migration `20261022100000`);
- the text shows the code of the moment it was rendered; a later replacement sends
  no second text (`arrival-messages.service.ts:287`);
- a run of dispatch that holds an event for more than ten minutes loses it to
  another backend, which may push it a second time (`outlived` in `OneDispatcher` and
  `SentIsFinal`);
- when the statement after the record of a sent push fails, the delivery is
  recorded as failed and the push repeated (`notification-dispatch.service.ts:141`;
  `SentIsFinal` allows it);
- a late refusal disables a device that was registered again in between
  (`notification-dispatch.service.ts:261`);
- the second cancellation of one booking has the dedupe key of the first and is not
  announced;
- mails that are repeated may arrive after newer ones; and a booking created,
  cancelled, confirmed and cancelled again while its first mail waits is announced
  by a cancellation alone.

Statistics: a stay that begins before the period and ends on or after its end
matches neither date filter and is not read, against the comment at
`statistics.service.ts:108`; a departure on a period's first day is counted in no
period.

## Fairness

Weak fairness of the steps of an operation that began: a statement or a call ends
(every external call has a timeout). Weak fairness of the timers: the code
automation each minute, the synchronisation every five minutes, the queue each
minute and after each notification, the arrival messages every half hour, the
pushes every fifteen seconds, the mails every thirty. Weak fairness of time:
leases, retry delays, quiet periods, stuck events, ageing rows and the sliding day of
the failure count run out. Weak fairness of the pool, which serves its queue.
Nothing is assumed of administrators, guests, Hostex, the lock or restarts; their
number is bounded, so that a property "in the end" speaks about what happens once the
disturbances stop. `SyncEnabled`, `WebhooksEnabled` and the code automation are
configuration; each run says which it uses. `CodeDrafts` has no timer that would
bring anything about, and only safety is stated of it.

## Proofs

### Codes (`AccessCodesProofs`)

For any sets of codes, bookings, PINs, windows and administrators and any values of
the bounds:

- `TypeCorrect`: `Spec => []TypeOK`;
- `OneWriter`: `Spec => []OneWriterPerCode`;
- `NoCollision`: `Spec => []NoPinCollision`;
- `RevokedRowsAreFinal`: `Spec => RevokedIsFinal`.

From the assumptions `NullsAreOutside`, `WindowsAreIntervals` and
`BoundsAreNaturals` of `AccessCodes` alone.

These four come from one inductive invariant, `Inductive == TypeOK /\ Shape /\ Writers
/\ NoPinCollision`. `TypeOK` alone is not inductive: a step that creates, changes
or stores a passcode writes the PIN, window and id its operation carries, which the
types allow to be missing; `Shape` says which steps have a code, a PIN and a window,
that a row past its insert has them, and that a swept item names what its sweep
needs. `OneWriterPerCode` alone is not inductive either, because a claim looks only
at the version: `Writers` adds that an owned row is pending and not aged (so that
recovery leaves it alone), that a reader whose version is still current never
points at a row somebody owns (so that a claim that succeeds finds no owner), and
that its row is live. `RevokedIsFinal` follows: a write belongs to an owner, whose
row is pending, or needs a current version, whose row is live. `NoPinCollision` is
preserved because both transactions that set a PIN or a window check all other rows
under the device's lock, and every other write only changes a row's status, id or
age and never makes a row current again. The proof has a lemma for each action; the
theorems combine them with PTL.

That active codes are on the lock needs more:

- `ActiveCodesAreOnLock`: `Spec /\ [][TakesFreePins]_vars => []ActiveIsOnLock`;
- `AutomationKeepsCodesOnLock`: if `Admins = {}` then `Spec => []ActiveIsOnLock`.

`TakesFreePins` says of a step that reserves a PIN that the PIN is free on the lock
at that moment. The code looks at the lock when it picks a PIN and only at the table
when it reserves it (and a draft's PIN is up to a day old by then), and in between
the PIN of a code under replacement is free in the table while the lock still has
it. TLC finds `ActiveIsOnLock` violated without the hypothesis (two codes, two
administrators, three requests and a fault), so it cannot be dropped; the second
theorem shows that the sweep alone meets it, because nobody else touches the lock
between its look and its reservation. Every other disturbance is allowed: calls
that fail before or after taking effect, restarts, moves and cancellations, and in
the first theorem replacements and any number of administrators.

The invariant, on top of `Inductive` in this state and the next, is `Linked`.
`Numbered`: the lock numbers its passcodes, and no two rows have one number.
`Carries`: the id, PIN and window an operation carries are its row's wherever it
relies on it. `Sure`: an operation about to activate has the row's PIN and window on
the lock. The hard part is that a passcode may be deleted or changed by an operation
on another row. `Apart`: what `findPasscode` may return to recovery of a row without
a number belongs to no other row, unless that row is `Astray` - its passcode has
another PIN than the row and nobody is about to give it the row's, so that it cannot
become active (this is the failed replacement among the limits). `Keeps`: the same
for what an operation already works on. A reservation is the one step that could
make a foreign passcode fit a new row, which is where the hypothesis is used.

That no passcode is forgotten, and the refinement of `GuestAccess`, need more again:

- `NoPasscodeIsForgotten`:
  `Spec /\ []NothingIsReplaced /\ [][TakesFreePins]_vars => []NoForgottenPasscode`;
- `CodesKeepThePromise`:
  `Spec /\ []NothingIsReplaced /\ [][TakesFreePins]_vars => KeepsPromise`;
- `AutomationKeepsThePromise`: if `Admins = {}` then
  `Spec => []NoForgottenPasscode /\ KeepsPromise`.

`NothingIsReplaced` says that no request in progress is a replacement of a PIN; all
other requests, any number of administrators and every disturbance are allowed.
TLC finds `NoForgottenPasscode` violated with replacements even where
`TakesFreePins` holds, and with updates of windows alone where it does not (see the
limits), so neither hypothesis can be dropped.
The third theorem has none: the sweep replaces nothing, and reserves what it has
just seen free.

The invariant on top of `Inductive` and `Linked` is `Tidy`. `Kept`: the passcode with
a row's number has the row's PIN. `Sole`: at most one passcode has the PIN of a row
without a number in a window that overlaps the row's, and its window is exactly the
row's, so that `findPasscode`, which compares windows for equality, cannot miss what
`isPasscodeAvailable`, which compares them for overlap, would trip over. `Covered`:
each passcode has a row that answers for it. `Neat` is what a step relies on and no
other request may take away: a number found or given out but not stored yet is on the
lock; a PIN about to be created is free there; a row about to be retired has no
passcode left; an update keeps its row's PIN. The lemma `Mine` draws the consequence
that the two lock writes need: the passcode an operation works on is answered for by
its row and worked on by nobody else. The refinement is then one lemma per action:
`Reserve` is `Order`; `Prepare` and the two claims are `Rework`, or a stutter when the
row was pending already; creating, changing and deleting a passcode are `Put`,
`Replace` and `Remove`, whether or not the answer arrives; `Activate` and `Retire` are
`Activate` and `Revoke`; storing the number changes which branch of `AnswersFor`
holds and so is a stutter, like everything else.

### Bookings (`ReservationSyncProofs`)

For any sets of stays, rows, nights and administrators and any tables to start from:

- `SyncTypeCorrect`: `Spec => []TypeOK`;
- `OneRowForEachStay`: `Spec => []OneRowPerStay`;
- `ImportsDoNotOverbook`: if `"update" \notin AdminRequests` then
  `Spec /\ NoDoubleBooking => []NoDoubleBooking`;
- `UpdatesDoNotOverbook`: if `"create" \notin AdminRequests` then
  `Spec /\ NoImports /\ NoDoubleBooking => []NoDoubleBooking`.

The last two are the two halves of what `double` refutes as a whole, and
`NoDoubleBooking` on the left is a condition on the table a behaviour starts from.
With updates and imports side by side it does not hold; a create is excluded from
the second because it brings about an import of its own (the read-back).

From `NullsAreOutside`, `NightsAreRanges`, `RequestsAreRequests`, `BeginningsAreTyped`
and `BeginningsAreLinked` of `ReservationSync`; the last says that the table a
behaviour starts from has the property.

`OneRowPerStay` speaks of what is committed, and a commit publishes what a
transaction wrote against the table it saw when it wrote. The inductive invariant
adds `Structure`: one import at a time is between `BeginTransaction` and `Commit`
(the advisory lock); only such a worker has written rows or links; a row some
administrator holds keeps its origin; the row a plan is about is free, or an iCal
block, or the stay's own row (`TargetsFit`), which a commit by anybody else does not
change; and the links are one to one in the committed table and in each
transaction's view of it (`Linked`). A lemma for each action shows the types, a
second one the structure.

`ImportsApart` adds that no two bookings share a night in the table, nor in the view
of a transaction that is open, that the stay an import is about to write has room in
its view (`HasRoom`), and that administrators' changes only cancel. `UpdatesApart`
says that no import runs or can begin, that what an administrator has been granted
under the apartment's lock is still free (`Granted`), and that one update at a time
holds that lock. Both build on `Structure`.

### Inbox (`InboxAndReportProofs`)

For any events, stays, rows, attempts and messages:

- `InboxTypeCorrect`: `InboxSpec => []InboxTypeOK`;
- `LastWordIsKnown`: `InboxSpec => []LastWordIsAnnounced`;
- `ProcessedMeansApplied`: `InboxSpec => ProcessedWasApplied`.

From the assumptions of `ReservationSync` and `EventsAreKnown`. The invariant is
`InboxTypeOK /\ Messages /\ Notified /\ Work`: Hostex shows a notified change or a
later one from then on; the import that runs for an event still has its stay to
read or has read it so, and carries that reading through `seen`, `item` and
`handled` to its end, whatever the other imports do meanwhile (`Covers`); a message
event that named its conversation and was handled while its message was the last
word told the administrators. An event that names none is excluded in the property:
the code processes it in silence (see the limits).

### Arrival messages (`ArrivalMessagesProofs`)

For any backends, requests, bookings, arrival dates and limits:

- `MessagesTypeCorrect`: `Spec => []TypeOK`;
- `OneText`: `Spec => []OneTextPerStay`;
- `FailedMeansUnsent`: `Spec => []FailedWasNotSent`.

From `DaysAreNumbers`, `WorkersAreApart` and `BoundsAreNaturals`. The invariant is
`TypeOK /\ Shape /\ Owners /\ Texts`. The claim is what makes a row one worker's:
from it to the last UPDATE the row is `sending` and not stale, and no other worker
holds it (`Owners`). `Texts` follows the text along the owner's steps: none before
it is sent, none if the outcome is `failed`, one at most.

### Notifications (`NotificationsProofs`)

For any backends, events, devices and limits:

- `PushesTypeCorrect`: `Spec => []TypeOK`;
- `EventHasOneDispatcher`: `Spec => []OneDispatcher`;
- `SentStaysSent`: `Spec => SentIsFinal`.

From `RanksAreNumbers`, `LimitsAreNaturals` and `BudgetsAreNaturals`. The invariant
is `TypeOK /\ Shape /\ Owners /\ Trust`. `Shape` says what a run has in hand at each
step, `Owners` that an event in hand is in `processing`, which no claim takes, and
`Trust` that the recipients a run has read and not served yet are not served by
anybody else. `Owners` and `Trust` except an event that was released while a run
held it: the code has no defence against that (see the limits), and the theorems say
that no other step, failure or restart gives an event to a second run. A run may
take as long as it likes.

### Mails (`EmailOutboxProofs`)

For any backends, contents, limits, pauses and budgets:

- `MailsTypeCorrect`: `Spec => []TypeOK`;
- `MailsArriveOnce`: `Spec => []NoMailTwice`;
- `OwnerIsTold`: `Spec => []NewestMailAgrees`.

From the assumptions of `EmailOutbox`; that a budget has no more changes than
`MaxMails` is why the outbox never lacks room (`Room`). The rest of the invariant
is `TypeOK /\ Runs /\ Keys /\ Folding /\ Told`. `Keys`: the provider learns a key no
earlier than the row notes its first attempt. `Runs`: a run past the age check can
send only while the provider knows the key or nothing has arrived. `Folding`: only
the newest mail is open to changes, and if it can be taken back, the one before it
says what is then true. `Told`: the newest mail agrees with the stay.

### Drafts (`CodeDraftsProofs`)

For any bookings, apartments, locks, drafts, codes, PINs, windows and administrators:

- `DraftsTypeCorrect`: `Spec => []TypeOK`;
- `DraftUsedOnce`: `Spec => []DraftTakesEffectOnce`;
- `ReplacementIsOfWhatWasSeen`: `Spec => ReplacesWhatWasShown`;
- `LocksStayUnderCodes`: `Spec => []MoveSparesCodes`;
- `OneWorkerApplies`: `Spec => []ApplyingHasOneWorker`.

From `HomeIsAnApartment`, `NullsAreOutside` and `BudgetsAreNaturals`. The invariant
joins what a request has read before it writes (`Complete`, `Known`), the stage of
the draft a request works on (`Work`), that one request does (`One`), that a code
being provisioned is pending and one request's (`Holders`), that a matching version
means the code that was shown (`Seen`), and that the codes on a lock being moved came
after the count (`Movers`).

### Pool and TTLock session (`SharedResourcesProofs`)

For any writers, lock users and apartments and any pool:

- `SharedTypeCorrect`: `Spec => []TypeOK`;
- `OneExchange`: `Spec => []RefreshTokenIsUsedOnce`;
- `RetryIsAnother`: `Spec => []RetryUsesAnotherToken`;
- `OnlyTheCircleStops`: `Spec => []NobodyElseStuck`: while a request is unfinished,
  the pool can grant a connection, or some request can take a step, or `Circle` holds;
- `CircleIsForEver`: `Spec => [][Circle => Circle']_vars`: a circle is never left;
- `CircleTakesWholePool`: a finite set of writers smaller than the pool closes none;
- `ConnectionsReturn`: a request that ended, or that talks to TTLock, holds none.

From `KindsDiffer`, `AccountsAreBoolean` and `BoundsAreNaturals`. The invariant is
`TypeOK /\ Kinds /\ Queued /\ Holding /\ OneRequest /\ Newest /\ Refusals`: who waits
is in the queue once, who has which connection depends on where the request is alone,
one token request runs at a time and whoever joined it is answered by it, the refresh
token in use is the newest TTLock issued unless there was trouble, and a refused token
is never cached again. `NobodyElseStuck` is the part of `RequestsEnd` that is a safety
property. `Circle` is exactly the nested `pool.query`: all connections are held by
writers, one each, that wait for a second one or for the apartment of another. Nothing
in the code keeps writers fewer than connections, so the first theorem admits it, the
second says that it is final, and the third what it takes.

### Statistics (`InboxAndReportProofs`)

For every set of bookings at least one night long and every period:

- `ReadsAllButLongStays`: exactly which stays `loadStays` reads;
- `FirstDayDeparturesAreMissed`: which departures are counted;
- `DaysAndApartmentsAgree`: the two tables of the page count the same nights;
- `OccupancyIsAShare`: occupied nights are sellable nights;
- `NightsAreSharedOut`: the reports of consecutive periods share out a stay's nights;
- `ReportMissesLongStaysOnly`: `Spec => []OnlyLongStaysAreMissed`, the page opened at
  any moment of any interleaving of `ReservationSync`; it rests on
  `SyncTypeCorrect`, which says that nights are ranges wherever they come from, and
  on `PeriodsAreRanges`.

### Only model-checked

All liveness properties (fairness and `ENABLED` are outside the prover's reach); the
refinement `KeepsPromise` and `NoForgottenPasscode` with replacements of PINs, within
the budgets of their runs (with larger ones they fail, see the limits); the two
violations.
`NoDoubleBooking` does not hold in general; it is proved for imports and for
administrators apart.

## Not modelled

- Calendars and apartments only read; saving a mapping, a template or an orphaned
  note is a single statement nothing else waits for.
- The admin guard, the encryption of PINs and the Hostex client are stateless: two
  codes have the same fingerprint exactly when they have the same PIN, and a call's
  outcome (answered, refused, unanswered) is a choice where it is made.
- Deployment scripts, migrations and wiring; the constraints and triggers the code
  relies on are read with their modules.
- Which change of a row produces which notification; wording, templates, badges and
  payloads; the inbox of notifications and its read marks.
- The statistics page's ledger, reviews, tasks, currencies and rounding.
- The LIMITs and orderings of the sweeps' queries (a sweep takes any row of what its
  SELECT returned), and a database that fails inside the code lifecycle, except as a
  restart.
- The generation of PINs and the computation of windows from times of day: a PIN is
  any value, a window a pair of days.

## Plan

1. The composition of `AccessCodes` with `ArrivalMessages`: the code in the text is
   a code on the lock, unless it was replaced afterwards.

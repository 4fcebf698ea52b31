# Verification of the booking API

TLA+ models of the booking API (NestJS, Prisma, PostgreSQL), the TLC
configurations that check them on small instances and the theorems that TLAPS
proves about them for all instances. Paths below are relative to the repository.

## The system

One or more stateless Node.js processes answer HTTP requests over one
PostgreSQL database (READ COMMITTED, Prisma's default) and one external media
store. A handler is a sequence of `await`s on the database; every process
switches to another request at each of them. Only booking create and update use
an interactive transaction; everything else is single statements. Nothing is
retried, queued or scheduled by the application, and no row is locked before it
is written.

| Component | State | Operations that change it | Talks to |
|---|---|---|---|
| bookings (`src/modules/booking`) | `Booking`, `BookingDay` | create, update, remove | reads units and the calendar; the day rows are derived from the booking |
| unit calendar (`src/modules/unit-calendar-day`) | `UnitCalendarDay` | create, update, remove | unit ownership; read by bookings |
| listing units (`src/modules/listing`) | `ListingUnit` | create, update, remove | cascades to the calendar, restricted by bookings |
| listings (`src/modules/listing`) | `Listing`, amenity links | create, update, remove | cascades to units, files, reviews; nulls `Booking.listingId` |
| tokens, auth (`src/modules/token`, `auth`) | `Token`, the browser's cookie | register, login, refresh, logout | users |
| users (`src/modules/user`) | `User` | create, update, changePassword, remove | cascades to token, profile, files, listings, reviews; restricted by bookings |
| reviews (`src/modules/review`) | `Review` | create, update, remove | reads the booking; goes with booking, listing and author |
| uploads, files, cloudinary | `File`, `ListingFile`, `ReviewFile`, blobs in the media store | upload, uploadBulk, delete, deleteBulk | attaches files to profile, listing, review |
| profiles, amenities | `Profile`, `Amenity` | single statements | users, listings |
| pagination, response interceptor | none | two reads in flight together and the page numbers of the answer | every list |
| exception filter | none | a function of the error | every handler |
| seed (`prisma/seed`) | every table | truncate, then fill table by table | writes past the services |
| bootstrap, throttler | none that outlives them | | |

What is hard here:

- **Interleaving and stale reads.** Booking update reads the row, then the
  unit, then the calendar, and only then opens a transaction that does not read
  them again. Review create reads the booking and inserts one await later. Token
  save looks for a row and then writes it. Registration looks for a user and
  then inserts it.
- **Constraints as the last word.** The unique index on (unit, date), the
  unique user of a token, the unique booking of a review and the foreign keys
  (Cascade, Restrict, SetNull) are what decides most races.
- **Waiting inside the database.** A statement meets the row lock or the
  uncommitted index entry of another transaction and waits; two updates that
  exchange nights wait for each other.
- **Failure between steps.** A request may end at any `await`: a refused
  statement, a transaction timeout, a lost connection, a process that stops.
  What was committed stays; outside transactions (uploads, tokens, the seed)
  that may be half of an operation.
- **Long legal sequences.** A cancelled booking gives its nights up and may be
  made active again; bookings move between units and dates.
- **Reads that do not agree.** A page and its total are two reads; the pages of
  a walk are cut from different tables.

What makes each component correct:

- bookings: no night of a unit occupied twice; the day rows are exactly the
  nights of the active bookings; a stored stay is not empty and fits its unit;
  no reference dangles; a transaction is atomic, its conflicts are real, and
  every request ends.
- inventory: a live unit has a live listing, calendar rows have a live unit,
  nothing booked disappears.
- sessions: a stored session has a user; a browser holds only tokens that were
  stored; a token that was replaced or logged out is stored again only if it
  was signed a second time.
- reviews: one review per booking, by its guest, of a completed stay; no account
  goes that a booking of others refers to.
- uploads: a row never names a blob that is gone; a blob without a row had a
  fault; a file is attached to what its user owns; a bulk upload that fails
  leaves none of its files; every request ends.
- pagination: the pages of a list that stands still partition it; insertions hide
  nothing from an ascending walk and nothing comes twice; a search searches.
- seed: it can be stopped and run again, and what it writes is a state that the
  services could have reached.

`PROJECT.json` lists the hazards, each at its line, with the properties that
watch it.

## The modules

| Module | Models | Extends |
|---|---|---|
| `Inventory` | listings, units, calendar: the owners' handlers, each one atomic action | |
| `Booking` | the guests' handlers over the inventory, one action per `await` | `Inventory` |
| `BookingTx` | `Booking` with its transactions taken apart into statements, locks and index entries | `Booking`, `Answers` |
| `BookingAudit` | `Booking` with a history variable, for the checks made before the transaction | `Booking` |
| `Review` | reviews and the deletion of accounts, composed with all of the above | `BookingAudit` |
| `ReservationLedger` | abstract: what the day table promises, without requests or transactions | |
| `Answers` | the exception filter: error to HTTP status | |
| `Session` | register, login, refresh, logout; the token table, the users and the cookies | |
| `Upload` | upload, uploadBulk, delete, deleteBulk over the file tables and the external media store | |
| `Pagination` | `paginate`, its pure parts and the interceptor's page numbers, walked through by a client | |
| `Seed`, `SeedData` | the seed script; its data as far as the rules of the bookings read it | |
| `MCBooking`, `MCTx`, `MCReview`, `MCAudit`, `MCSession`, `MCUpload`, `MCPages` | instances for TLC | |
| `BookingProofs` | theorems of `Inventory` and `Booking` | `Booking` |
| `BookingTxProofs`, `BookingAuditProofs`, `ReviewProofs`, `SessionProofs`, `UploadProofs`, `PaginationProofs`, `SeedProofs` | theorems | the module of that name |

Definitions commented `MUTANT` are plausible bugs; no specification uses them.
They show that each checked property fails when the code is wrong in that way.

### Inventory

`listings` and `units` hold the life of each row: unborn, live, deleted. The
foreign-key structure (`ownerOf`, `listingOf`) is constant because no DTO
carries `ownerId` or `listingId`, and ids come from sequences and are never
used again. `calendar` is the `UnitCalendarDay` table under its unique key.

An owner's handler checks ownership with one statement and writes with a
second. Here it is one action. Between the two statements, ownership cannot
change; the row can only be deleted (then the write fails and changes nothing,
as if the check had failed) or have its other columns changed (the write does
not depend on them). So every execution of the two statements has the effect of
one at the moment of the second. `ListingsService.update` writes columns
nothing else reads and is left out.

### Booking

`requests[r]` is a handler in flight: what it will do next (`step`), the
booking it works on, the body (`dto`) and what it decided from the row it read
(`plan`). The actions follow the `await`s:

| Code (`booking.service.ts`) | Action |
|---|---|
| `create` until its first await | `BeginCreate` |
| `update`'s `findFirstOrThrow` | `BeginUpdate` (the plan is made from the row read) |
| `remove`'s `findFirstOrThrow` | `BeginRemove` |
| `getUnitSnapshot`, `ensureGuestsCount`, `ensureDateRange` | `ReadUnit` |
| `ensureUnitIsNotBlockedByCalendar` | `CheckCalendar` |
| the `$transaction` of create, of update; the delete | `CommitCreate`, `CommitUpdate`, `CommitRemove` |
| a check that throws, a statement the database refuses | `Refuse` |
| transaction timeout, deadlock victim, lost connection | `Abort` |
| the process stops | `Crash` |

A transaction is one step, at its commit; that it may be is what `BookingTx`
shows. `DeleteUnit` and `DeleteListing` add
the bookings' foreign keys to the owner's actions: Restrict from the bookings,
cascade to the days, SetNull of `Booking.listingId`.

Dates are UTC days: `toUtcDate`, the `@db.Date` columns and the loop of
`getStayDates` see nothing finer. A body's field is given or left out; `null`
for a field that may be left out passes the validation too, is not modelled,
and is refused by the database or falls back to the row like a missing one.
Amounts, currency, timestamps and the cancel reason are left out.

### BookingTx

The same handlers with a step for every statement. The tables of `Booking` are
what is committed. `tx[r]` is the open transaction of a request: its next
statement and the nights `createMany` has still to insert. What it holds follows
from that: the lock on the `Booking` row it wrote (`HoldsRow`), the key-share
locks of its foreign keys (`Shares`), the index entries it inserted
(`Inserted`), the day rows it deleted (`Cleared`).

| Code | Action |
|---|---|
| `tx.booking.create`, `tx.booking.update` | `WriteRow` |
| `tx.bookingDay.deleteMany` | `ClearDays` |
| one row of `tx.bookingDay.createMany` | `InsertDay` |
| the end of the `$transaction` callback | `CommitTx` |
| `prisma.booking.delete` | `RemoveRow` |
| a check that throws, a statement that is refused | `Fail`, with the error in `ErrorOf` |
| the database aborts one request of a cycle of waits | `Victim` |
| Prisma's transaction timeout, or no connection | `TimeOut` |
| a unit or a listing is deleted | `Closing`, once no open transaction has locked it |

A statement waits (`Waits`) for the transaction that holds the row, or whose
uncommitted entry or deletion decides whether a night is free. `CommitTx` checks
nothing. `ImplementsBooking` says that it need not: every step is a step of
`Booking`, whose commits check the foreign keys and the index at once.
`answer` holds the error of the last step, which `Answers!StatusOf` turns into
the status of the response; `ConflictsAreReal` is about the 409s among them.

### BookingAudit

`overtaken` is the set of requests whose unit has changed its capacity since
they read it, or whose nights have changed in the calendar since they checked
them. `CommitHonoursOwner` says that this is the only way past the checks.

### Review

`ReviewNext` lets the steps of `Booking` and `Inventory` act on `reviews` through
the cascades: a review goes with its booking, its listing or its author
(`Cascades`). `BeginReview` is the read of the booking, `InsertReview` the insert
one await later with its foreign keys and the unique `bookingId`. Update and
remove check the author and write by id; the author of a review never changes,
so each is one action, as in `Inventory`.

`RemoveAccount` is `UsersService.remove` with everything the database does with
it: the listings of the account, their units, calendars and day rows go, the
bookings of their listings lose `listingId`, and Restrict (of `Booking.guest` and
`Booking.unit`) stops it all. `ByAccounts` keeps who is gone from starting a
request or owning a new row. `overlapped` is history: the POSTs whose author had a
PATCH or a DELETE of some booking in flight since they read theirs.
`ReviewedWhenCompleted` is about the others: it says that nobody but the guest
himself can move, reopen or remove a stay between the check and the insert.

### ReservationLedger

`ledger` gives each booking the (unit, night) pairs it holds: the nights of one
stay or none, never shared. `Hold` replaces a booking's nights at once, `Close`
takes the nights of units that close. `Booking` implements it under
`ledger <- HeldNights`, the day rows grouped by booking.

### Session

`token` is the `Token` table under its unique user, `cookie` what each browser
holds, `requests` the handlers in flight, one action per statement of
`UsersService.create`, `comparePasswords`, `TokensService.refresh`, `save` and
`remove`. A refresh token is the user and the second it was signed in, since
the payload is the id and jsonwebtoken adds whole seconds. Two tokens of one user and second
are therefore equal, whoever asked for them. A request comes from any browser
(its `client`), also from one that waits for another answer.
`signed`, `twice` and `retired` are history: every token signed, those signed more
than once, and every token a row once held and lost. `Drop` is an answer that never
arrives, `Crash` a process that stops. A logout's answer may or may not clear the
jar: `clearCookie` is called without the domain that `setCookie` gave the cookie, and
browsers differ.

`RetiredStaysRetired` says that a retired token is stored again only if it is in
`twice`, that is, if it was signed again within its second. The code has that case: after a
login and a logout, another login in the second of the first brings its token
back (`token.service.ts:47`).

### Upload

`store` is the media store, `files`, `links` and `avatar` are the tables. A blob
has at most one File row ever, so blob and file go by one number. An upload is
the record of where it waits; an upload of one file is a bulk of one, because
its clean-up of the others is empty. `erasing` gives, for each file a request is
deleting, the next statement of `deleteForUser`: one file after the other for
`deleteBulk`, the file itself after a failed attachment (step `clean`), all at
once after a failed bulk (step `undo`, `Promise.allSettled`).

| Code | Action |
|---|---|
| `validateFileSize` throws | `RefuseSize` |
| `uploadFromBuffer` | `Send`, `SendFails` |
| `FilesService.create` | `InsertRow`, `InsertRowFails` |
| `attachToTarget`: the lookup, the insert | `Look`, `Link`, `AttachFails` |
| `deleteForUser`: its three statements | `FindFile`, `DeleteRow`, `DeleteBlob`; `NoRow`, `RowFails`, `BlobFails` |
| removal of a listing or review, of an account | `RemoveTarget`, `RemoveUser` |

A call to the store that fails may have taken effect. The media store is
external and is modelled by the answers `CloudinaryService` distinguishes: a
deletion under another resource type than the blob's answers "not found". `hit`
is history: the blobs that a fault befell. `RemoveUser` may or may not happen,
which covers the accounts that bookings keep from being deleted.

### Answers

`StatusOf` is `handlePrismaException` followed by `catch`. An error is its class
and, where the filter reads one, its code or status.

### Pagination

One client walks through one list: it follows `nextPage` until there is none.
`FindMany` and `Count` are the two reads of `Promise.all`, in either order, and
rows are inserted and deleted before, between and after them. `getPagination` and
the interceptor's `pageSize` parse the same query twice and are modelled twice.
An ordering that leaves rows equal, or none, lets each query return another
arrangement. `Where` models the search as the code does it: the model's name in
the schema is guessed from the delegate's.

### Seed

`phase`, `left` and `step` say where the script is, `tables` whether a table holds
nothing, the seed or other rows. `down` truncates table by table with CASCADE, in
any order, each statement committed; `up` fills them in the order of `seed.ts`,
one transaction per table. `Stop` may happen anywhere and `Use` is the application
in between. `SeedData` is the scripts' data: owners, units and capacities, blocked
days, stays and statuses. `SeedObeysRules` puts it into `Booking`'s variables and
evaluates `Booking`'s own invariants on it.

## What TLC checks

| Run | Instance and bounds | Shows |
|---|---|---|
| `guests` | 2 units of capacities 2 and 1, 3 days, one guest with two requests and one with one, 2 bookings, 3 bodies to create and 5 to update; no booking has two updates in flight (`TurnsSpec`, 2.5 million states with the two requests of one guest symmetric) | nobody is double-booked; days match; stays are not empty and fit; what an update planned is fresh when it commits, and a guest who waits finds it so always; references hold |
| `tx` | two requests of one guest, 2 units, 2 bookings, 3 days; units and listings that close; time-outs, deadlocks, crashes (76 thousand states) | the statements implement the one-step commits and the ledger; 409s are real; every request ends |
| `hosts` | `Review` with 2 listings of one unit, an owner who does everything, one guest with one request, 1 booking, one POST of a review, two ratings; at most one calendar row (constraint `OneCalendarRow`) (184 thousand states) | cascades and Restrict leave nothing dangling, accounts included; reviews hold; a commit that no owner overtook, and a review whose author changes no booking meanwhile, honour what they were checked against |
| `session` | one account, two browsers, two requests, each of either browser, 3 seconds, lifetime of 2, 2 token rows (3.5 million states with browsers and requests symmetric) | sessions have users, cookies were stored, retired tokens stay retired unless signed again in their second |
| `upload` | two accounts, one with a profile and a listing; an upload and a deletion of up to two files each, 2 blobs; every fault; the account that owns something may go (`RolesSpec`, 351 thousand states) | rows have blobs; orphans had a fault; attachments are the user's own; a failed bulk leaves nothing; every request ends |
| `pages` | 4 rows of which one is out of scope and one does not match, two sort keys; sizes 1 to 3, every ordering (170 thousand states) | pages partition a list that stands still; what insertions and deletions can and cannot do to a walk; a walk ends |
| `seed` | the whole data of the scripts, any order of truncation, stops and reruns (299 thousand states) | steps find what they refer to; a run that ends leaves the seed; the data keeps `Booking`'s invariants |
| `race_days`, `race_rules` | two requests of one guest | violations, see below |
| `blocked_day` | two listings, one guest, an owner, over `BookingAudit` | violation, see below |
| `cleanup` | one upload without faults | violation, see below |
| `reviewed` | the instance of `hosts` | violation, see below |

Why the bounds are enough. A conflict in the booking tables needs two bookings,
one night and two requests; three days give stays that overlap, touch and are
disjoint, and a stay of more than one night; two units give moves and a smaller
capacity; two bookings are created, cancelled, moved, made active again and
removed in every order, and what a third could do the second already does. The
third request of `guests` is there to act on bookings of somebody else than the two
that race. A
cycle of waits needs two transactions and two nights, which the exchange of units
in `tx` gives. For the statements the proofs cover any number of requests and
nights, and TLC adds the liveness. Everything that can happen to the rows of one
booking happens in `hosts` with one; reviews of different bookings share nothing.
Accounts do not share rows, so one is enough for the token table, and two
requests are enough for the races of a find with a write, from one browser or from
two, and in one second or in two; two token rows let a session end and begin again,
and three seconds let a token expire. Two files make a bulk with something to undo, and
the deletion next to the upload overtakes it at each of its steps; two uploads
share nothing, and two deletions of one file are in the proofs. Four rows give
pages that are full, short and empty, and rows on both sides of the cut. The runs
set `CHECK_DEADLOCK FALSE` where ids, tokens, blobs or rows are finite: a run ends
when they are used up. `seed` checks deadlock.

Fairness, only where liveness is checked:

- `TxSpec`: strong fairness of each request's `Progress`. Every statement is
  answered, and the queue of a PostgreSQL lock is first in, first out, so a
  request that can go on again and again does. `Victim` is part of `Progress`
  because the database looks for cycles; the time-outs are not: `RequestsEnd`
  does not rest on Prisma's five seconds.
- `RolesSpec` of `Upload`: weak fairness of each request's steps. Every `await`
  there is a call whose client answers or fails, and one of the two is enabled
  at every step.
- `Pagination`: weak fairness of the two reads and of the answer; insertions are
  bounded by `MaxId`, without which a client may be kept walking for ever.

### Where the code and the README differ

- `race_days`: two updates of one booking in flight together leave day rows that
  are not its stay's (cancelled but still occupying, or the other way round).
- `race_rules`: two updates, each valid against the row it read, leave too many
  guests for the unit or an empty stay.
- `blocked_day`: a day blocked between the check and the commit is occupied.
- `cleanup`: after a failed attachment the blob of a file whose content is not of
  the announced type stays in the store, though row and request are gone.
- `reviewed`: a guest who reopens or cancels his booking while his review of it is
  between its check and its insert has reviewed a stay that is not completed.

Two more have no run:

- The search of the units and of the calendar days of a listing is dropped, because
  the name of the model is guessed wrong (`paginate.utils.ts:54`, against
  `src/README.md:147`). The theorem `SearchesOfOthersAreDropped` shows it of every
  name of more than one word; `SearchIsApplied` is about names of one word.
- A refresh within the second in which its token was signed stores the token it was
  given (`token.service.ts:47`), so "rotated on refresh" (`src/README.md:167`) does not
  hold of it. `Saved` and `Sign` of `Session` have that case, and the exemption
  `twice` of `RetiredStaysRetired` is its trace.

`race_days` and `race_rules` need two updates of one booking in flight, and nothing less:
`UpdatesTakeTurns` excludes exactly that, and under it they do not occur (the run
`guests` and the theorems about it), though the guest sends as many other requests
at once as he likes: creations, removals, updates of his other bookings, even the
removal of the booking that is being updated. A guest who waits for each
answer loses no update whatever the others do (`PlansStayFresh`), and where all wait
(`OneRequestPerGuest`) they take turns (`GuestsTakeTurns`).

`cleanup` is the one exception to a clean-up without faults: `DeleteBlob` counts
such a file in `hit`, and `BulksAreAllOrNothing` says that whatever of a failed
upload is not in `hit` is gone from the tables and from the store, or another
request is just deleting it from there.

The seed, which checks nothing, puts two active bookings on days that it
blocks itself (unit 15 on 2 October, `create-bookings.ts:229` and
`create-unit-calendar-days.ts:105`; unit 11 on 13 June, `create-bookings.ts:181` and
`create-unit-calendar-days.ts:79`), against `src/README.md:187`; `SeedObeysRules`
leaves that rule out.

## What is proved

`tlapm` checks, for every value of the constants that satisfies the modules'
assumptions:

| Module | Theorem | Statement | Assumes |
|---|---|---|---|
| `BookingProofs` | `TypeCorrect` | `Spec => []TypeOK` | |
| | `ReferencesAreSafe` | `Spec => []ReferencesHold` | |
| | `NoneOutlivesItsOwner` | `Spec => []OwnedByTheLiving` | |
| | `LedgerIsImplemented` | `Spec => ImplementsLedger` | |
| | `StaysAreWholeAndExclusive` | `Spec => [](Ledger!WholeStays /\ Ledger!Exclusive)` | |
| | `UpdatesStayFresh` | `Spec /\ []UpdatesTakeTurns => []UpdatesAreFresh` | |
| | `TurnsKeepDays` | `Spec /\ []UpdatesTakeTurns => []DaysMatchBooking` | |
| | `TurnsNeverDoubleBook` | `Spec /\ []UpdatesTakeTurns => []NoDoubleBooking` | |
| | `TurnsKeepRules` | `Spec /\ []UpdatesTakeTurns /\ CapacitiesStand => []RulesHold` | |
| | `GuestsTakeTurns` | `Spec => []UpdatesTakeTurns` | `OneRequestPerGuest` |
| | `PlansStayFresh` | `Spec => []PlansAreFresh` | |
| | `DaysAlwaysMatch` | `Spec => []DaysMatchBooking` | `OneRequestPerGuest` |
| | `NeverDoubleBooked` | `Spec => []NoDoubleBooking` | `OneRequestPerGuest` |
| | `StaysAreNonEmpty` | `Spec => []StayIsNonEmpty` | `OneRequestPerGuest` |
| | `GuestsAlwaysFit` | `Spec /\ CapacitiesStand => []GuestsFit` | `OneRequestPerGuest` |
| `BookingTxProofs` | `TransactionsAreAtomic` | `TxSpec => ImplementsBooking` | |
| | `TransactionsKeepTheLedger` | `TxSpec => ImplementsLedger` | |
| | `TransactionsKeepStaysWhole` | `TxSpec => [](Ledger!WholeStays /\ Ledger!Exclusive)` | |
| | `ConflictsAreAlwaysReal` | `TxSpec => ConflictsAreReal` | |
| | `TransactionsKeepReferences` | `TxSpec => []ReferencesHold` | |
| | `TransactionsKeepTheDays` | `TxSpec /\ []UpdatesTakeTurns => []DaysMatchBooking` | |
| | `TransactionsNeverDoubleBook` | `TxSpec /\ []UpdatesTakeTurns => []NoDoubleBooking` | |
| | `TransactionsKeepPlansFresh` | `TxSpec => []PlansAreFresh` | |
| | `WaitingGuestsAreNeverDoubleBooked` | `TxSpec => [](DaysMatchBooking /\ NoDoubleBooking)` | `OneRequestPerGuest` |
| `BookingAuditProofs` | `CommitsHonourOwners` | `AuditSpec /\ []UpdatesTakeTurns => CommitHonoursOwner` | |
| | `WaitingGuestsHonourOwners` | `AuditSpec => CommitHonoursOwner` | `OneRequestPerGuest` |
| `ReviewProofs` | `ReviewsAlwaysHold` | `ReviewSpec => []ReviewsHold` | |
| | `AccountsAreAlwaysKept` | `ReviewSpec => []AccountsAreKept` | |
| | `ReviewsAreOfCompletedStays` | `ReviewSpec => ReviewedWhenCompleted` | |
| | `ReferencesOutliveAccounts` | `ReviewSpec => []ReferencesHold` | |
| | `NoneOutlivesItsAccount` | `ReviewSpec => []OwnedByTheLiving` | |
| | `LedgerOutlivesAccounts` | `ReviewSpec => ImplementsLedger` | |
| | `StaysStayWholeWhenAccountsGo` | `ReviewSpec => [](Ledger!WholeStays /\ Ledger!Exclusive)` | |
| | `DaysMatchWhenAccountsGo` | `ReviewSpec /\ []UpdatesTakeTurns => []DaysMatchBooking` | |
| | `NeverDoubleBookedWhenAccountsGo` | `ReviewSpec /\ []UpdatesTakeTurns => []NoDoubleBooking` | |
| | `CommitsHonourOwnersWhenAccountsGo` | `ReviewSpec /\ []UpdatesTakeTurns => CommitHonoursOwner` | |
| | `PlansStayFreshWhenAccountsGo` | `ReviewSpec => []PlansAreFresh` | |
| | `WaitingGuestsAreServedWhenAccountsGo` | `ReviewSpec => [](DaysMatchBooking /\ NoDoubleBooking) /\ CommitHonoursOwner` | `OneRequestPerGuest` |
| `SessionProofs` | `TypeCorrect` | `Spec => []TypeOK` | |
| | `SessionsAlwaysHaveUsers` | `Spec => []SessionsHaveUsers` | |
| | `CookiesWereStored` | `Spec => []CookieWasStored` | |
| | `RetiredForGood` | `Spec => []RetiredStaysRetired` | |
| `UploadProofs` | `TypeCorrect` | `Spec => []TypeOK` | |
| | `RowsAlwaysHaveBlobs` | `Spec => []RowsHaveBlobs` | |
| | `NothingIsOrphaned` | `Spec => []NoOrphans` | |
| | `AttachmentsAreOwn` | `Spec => []AttachedToOwn` | |
| | `BulksAreAllOrNothing` | `Spec => AllOrNothing` | |
| `PaginationProofs` | `StillWalksAreExact` | `Spec => []StillWalkIsExact` | |
| | `AscendingWalksMissNothing` | `Spec => []AscendingMissesNothing` | |
| | `AscendingWalksNeverRepeat` | `Spec => []AscendingNeverRepeats` | |
| | `ScopesAlwaysHold` | `Spec => [](RowsIn(collected) \subseteq Scope)` | |
| | `SearchesAreApplied` | `Spec => []SearchIsApplied` | `SearchIsPossible` |
| | `SearchesOfOthersAreDropped` | `Where(T, TRUE) = Where(T, FALSE)` | `Len(Model) # 1` |
| | `WalksAreBounded` | `Spec => [](query # Null => page = 1 \/ (page - 1) * pageSize < MaxId)` | |
| `SeedProofs` | `StepsAlwaysFindTheirParents` | `Spec => []StepsFindTheirParents` | |
| | `SeedIsCompleteWhenDone` | `Spec => []SeededWhenDone` | |
| | `SeedAlwaysObeysRules` | `Spec => []SeedObeysRules` | |

**Bookings.** `OpenInv` is inductive under every interleaving: the types,
`OwnedByTheLiving` (a live unit has a live listing, which the step that deletes
a listing needs), `FreshIds` (no row uses an id that is yet to be given out, which
`CommitCreate` needs to leave other bookings' days alone), `ReferencesHold` and
`UniqueDay` (the index itself). The ledger is implemented because each commit replaces the days of
one booking by the nights of one stay that the index found vacant, and each
deletion closes units. `StaysAreWholeAndExclusive` is proved of the ledger alone
(`LedgerPromises`: a stay lies in one unit, so closing units takes all of it or
nothing) and carried over by the refinement, to the transactions and to the
composition with accounts as well.

`TurnInv` adds, for updates that take turns, `UpdatesAreFresh`, `DaysMatchBooking`
and `StayIsNonEmpty`. `UpdatesAreFresh` is what makes it inductive: what an update planned from the row it read is what the row and the
body still give at its commit, or the row is gone and the commit is refused. Only
another update rewrites a row (`OwnersLeaveBookings` for the owners; a creation
takes a new id; a removal takes the row), so an update that is alone on its
booking stays fresh (`OthersStayFresh`); then the days it writes are those of
the row it writes, and the range it checked is the range it stores.
`NoDoubleBooking` follows from `DaysMatchBooking`, `UniqueDay` and
`StayIsNonEmpty`: two active stays that overlap share the later check-in as a
night. `FitInv` adds that a plan past its first check fits the unit, which stays
true as long as the capacity of a live unit does not change (`CapacitiesStand`; an
owner may lower one below what is booked).

`UpdatesTakeTurns` is a condition on the behaviour, not on the constants, so each of
these theorems is an implication between temporal formulas and the step needs it
only of the state it starts from.

`LoneInv` needs no condition on the others. It adds to `OpenInv` that what a request
has found is its guest's booking or gone for good (`FoundOwn`; an id is not given
twice, and an update keeps the guest of a row), and `PlansAreFresh`, which speaks of
the guests who have one request at a time (`Lone`): the booking of such a request is
still there and as it was read, because whoever writes it is its guest's
request (`WriteKeepsLone`). Where every guest is of this kind it gives
`UpdatesTakeTurns` (`LoneTakeTurns`), hence the theorems under `OneRequestPerGuest`.

**Transactions.** `TxInv` is `OpenInv` with what an open transaction relies on and
nobody checks again at its commit: the row it updates is stored and locked by it
alone (`TxOK`, `RowsAreLocked`), the units of its foreign keys are live (`TxOK`), an
index entry it has inserted has no committed row but one that it deletes itself
(`EntriesAreFree`) and nobody else has inserted it (`EntriesAreApart`). A row that
another transaction is deleting would break `EntriesAreFree` if the insert did not
wait for it, and a lock that was not taken would let `Closing` or `RemoveRow` break
`TxOK`. At the commit these are exactly the guards of `CommitCreate` and
`CommitUpdate`. `TransactionsKeepTheLedger` follows through `LedgerIsImplemented`, and the
other invariants of `Booking` through `TransactionsAreAtomic` in the same way.

`ConflictsAreAlwaysReal` adds that an update that names a unit has planned for
that unit, so that a refused foreign key means that the planned unit is gone, and
that the night `createMany` inserts next is one of its plan's (a non-empty finite
set of dates has a first; `FirstExists`, from the well-founded order of the finite
subsets).

**Owners.** `AuditInv` adds to `TurnInv` that a request nobody overtook still
knows what it read: its unit holds its guests, and its nights are not blocked.
With `UpdatesAreFresh` the row and the days it commits are those of that plan.

**Reviews.** `ReviewInv` adds to `OpenInv` that a POST in flight names a booking
that was given out and, while it is stored, is its author's (`PostsHold`). Ids are
not given out twice and a row keeps its guest (`RowsStand`), so the review that
is inserted later belongs to the booking that was read. An account goes only
when no booking is its own or in its units, so that the cascade to its listings
nulls no booking (`RemoveAccountEffect`).

What is proved of the bookings holds next to the deletion of accounts too. Every
other step of `ReviewNext` leaves the tables of `Booking` alone or is one of its
steps, so `RemoveAccount` is the only new case: the units that go have no booking
and so no days (`AccountsHaveNoDays`), a plan in flight for one of them stays what
it was (`AccountsKeepTurns`) and is refused at its commit, and no capacity and no
calendar row of a unit that stays is touched (`AccountsKeepChecks`).

`ReviewsAreOfCompletedStays` joins the two. The author of a POST that is not
`overlapped` has no update or removal in flight (`AuthorsWait`), and a stored booking
is written only by such a request of its own guest (`GuestsWriteTheirOwn`: by
`FoundOwn`, which is part of `LoneInv`; owners and accounts delete nothing that is
booked). So the booking is still what the POST read (`PostsAreCurrent`) when the
review is inserted. Without the first premise it is not: that is the run `reviewed`.

**Sessions.** The invariant adds that a request that is about to save has signed a
token for its own user, that a row is found under the user of its token, and that
an answer carries a token that was stored before. `RetiredForGood` needs more: a
token that is about to be saved and was signed only once is neither stored nor
retired, and no other request has it. It holds because whoever signs an equal token
puts it into `twice` in that step.

**Uploads.** The invariant orders what happens to a file: no row and no
deletion until the row is inserted (`InsertsFirst`), the row goes before the blob
(`RowsGoFirst`), a blob without a row is in the hands of its upload or of a
deletion (`NoBlobForgotten`), an upload's blobs are its own and its user's
(`OneUpload`, `OwnFiles`), and what a clean-up has settled is gone (`CleanUps`).
`BulksAreAllOrNothing` takes the tables from `CleanUps` and the store from
`NoBlobForgotten` after the step: what is left there is in another request's deletion.
Each step is first classified by what it does to the request and the stores, and
each kind of step is shown to keep the invariant.

**Pagination.** A walk is compared with the table by ranks: where a row stands in
the order of the rows that match. `Reached` is how many ranks the pages so far
have covered. For a table that stands still `StillHolds` says that what was
collected are as many rows as the pages so far have room for and, when the order is
by id, those of the first ranks, each at its own place; the page after it is the
next slice because `getPagination` and the interceptor read the same page and size
of one query, and a next page is offered exactly when rows are left. `PagesExist`
bounds it: a page after the first begins before the highest id ever given. Where rows are inserted, ids only grow, so the ranks
of the rows of the start stand and `NothingIsMissed` says that those below
`Reached` were collected. A deletion lowers ranks: rows slip under `Reached` and are
missed, but none rises above it, which is why `AscendingHolds` (all that was
collected is in order and ranks below `Reached`) is kept by deletions and
`NothingIsMissed` is not. An arrangement by unique ids is the one ordered sequence
of the rows, so no induction over sequences is needed. `ScopeHolds` and
`SearchHolds` follow each page from `Where`; the latter needs `SearchIsPossible`
(the model's name is one word and has a field to search), and
`SearchesOfOthersAreDropped` says what happens to all other names.

**Seed.** The foreign keys have no cycle: each table is deeper than those it refers
to (`Depth`), so a round of CASCADE closes one level and the six rounds of
`Truncated` leave nothing that refers to an emptied table (`RoundCloses`). With it
`SeedInv` says of `down` that the tables it has taken off its list are empty
(`EmptyBut`), and of `up` (`FilledUpTo`) that the tables of the steps before hold the seed and all others nothing; that
each step's parents come before it, and that its data name only rows that those
insert, is checked table by table and row by row. `SeedAlwaysObeysRules` needs no
behaviour, only the data: each stay is orderly (its unit is of its listing and takes
its guests, its nights are on the calendar) and no two active stays of a unit share
a night, so `SeedDays` is what `Booking` asks of its days. The data are constants,
so this is what TLC evaluates too; what the proof adds is which facts about the
data each rule rests on.

The first part of `BookingProofs` shows that every owner's step keeps the
inventory's types and `OwnedByTheLiving`; `ReviewProofs` and the proofs of
`BookingTx` and `BookingAudit` cite `BookingProofs`.

Only model-checked: the liveness properties (`RequestsEnd` of `BookingTx` and of
`Upload`, `WalkEnds`), which with ENABLED are out of the prover's reach. Every
invariant and every other action or refinement property of a passing run is stated
by a theorem. What the runs that expect a violation show is shown by their traces.
The proof modules and the modules they use declare no RECURSIVE operator.

## Not modelled, and why

- Amenities and profiles: single statements on rows that no rule depends on (the
  profile's avatar is in `Upload`).
- `ListingsService.update`, `UsersService.update`: they write columns nothing else
  reads. `changePassword` compares and writes in two statements, but the password
  is read only by login, and no document says what two changes at once do.
- `findAll` and `findOne` beyond pagination: reads. Response bodies, wording,
  amounts, currency, comments: data no property is about.
- `main.ts`, `app.module.ts`, guards, strategies, DTO validation, Swagger, the
  throttler: they configure the framework or decorate handlers without state.

## What may come next

A model of two accounts in `Session` would only repeat the first. `RequestsEnd` of
`BookingTx` with more than two requests is a matter of the state space.

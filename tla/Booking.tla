------------------------------ MODULE Booking ------------------------------
(***************************************************************************)
(* BookingsService: the bookings of the guests, their BookingDay rows and  *)
(* the create, update and remove handlers, run by concurrent requests over *)
(* PostgreSQL at READ COMMITTED.  Each `await` on the database is a step   *)
(* of the request that runs it, so other requests and the owners           *)
(* (Inventory) act between a handler's reads and its transaction.  The     *)
(* transaction is one step, at its COMMIT: the lock on the row it writes   *)
(* first and the unique index on (unit, date) order conflicting ones.      *)
(* Amounts, currency, timestamps and the cancel reason are left out.       *)
(***************************************************************************)
EXTENDS Inventory

CONSTANTS
  Requests,    \* handler invocations that may be in flight together
  guestOf,     \* the authenticated user of each
  MaxBookings, \* bound: bookings ever inserted
  CreateDtos,  \* bound: the bodies a POST may carry
  UpdateDtos   \* bound: the bodies a PATCH may carry

BookingIds == 1 .. MaxBookings

Statuses == {"PENDING", "CONFIRMED", "CANCELLED", "COMPLETED", "EXPIRED"}

statusesWithBlockedDays == {"PENDING", "CONFIRMED", "COMPLETED"}

\* Null stands for a field the body leaves out.
Dto ==
  [unit : Units \cup {Null}, checkIn : Dates \cup {Null},
   checkOut : Dates \cup {Null}, guestsCount : Nat \cup {Null},
   status : Statuses \cup {Null}]

\* The values a handler decides on: `next...` in update, the body in create.
Plan ==
  [unit : Units, checkIn : Dates, checkOut : Dates, guestsCount : Nat,
   status : Statuses]

Row ==
  [guest : Users, listing : Listings \cup {Null}, unit : Units,
   checkIn : Dates, checkOut : Dates, guestsCount : Nat, status : Statuses]

Day == [booking : BookingIds, unit : Units, date : Dates]

\* What a request waits for next: the unit, the calendar, the transaction.
Steps == {"unit", "calendar", "tx"}

NoDto == [unit |-> Null, checkIn |-> Null, checkOut |-> Null,
          guestsCount |-> Null, status |-> Null]

Request ==
  [op : {"create"}, step : Steps, booking : {Null}, dto : Dto, plan : Plan]
  \cup
  [op : {"update"}, step : Steps, booking : BookingIds, dto : Dto, plan : Plan]
  \cup
  [op : {"remove"}, step : {"tx"}, booking : BookingIds, dto : {NoDto},
   plan : {Null}]

\* A POST must carry every field but the status.
ASSUME BookingAssumption ==
  /\ guestOf \in [Requests -> Users]
  /\ MaxBookings \in Nat
  /\ CreateDtos \subseteq [unit : Units, checkIn : Dates, checkOut : Dates,
                           guestsCount : Nat, status : Statuses \cup {Null}]
  /\ UpdateDtos \subseteq Dto
  /\ Null \notin Row
  /\ Null \notin Plan
  /\ Null \notin Request
  /\ Null \notin Statuses

VARIABLES
  bookings,    \* Booking by id: a Row, or Null when there is no such row
  bookingDays, \* the BookingDay rows
  nextId,      \* the next Booking id
  requests     \* the state of each request in flight, or Null

bookingVars == <<bookings, bookingDays, nextId, requests>>
tables == <<bookings, bookingDays, nextId>>
vars == <<inventoryVars, bookingVars>>

Stored == {b \in BookingIds : bookings[b] # Null}

Init ==
  /\ InventoryInit
  /\ bookings = [b \in BookingIds |-> Null]
  /\ bookingDays = {}
  /\ nextId = 1
  /\ requests = [r \in Requests |-> Null]

-----------------------------------------------------------------------------
(* The pure parts of the handlers.                                         *)

\* MUTANT: the first night is skipped.
StayDatesAfterFirst(checkIn, checkOut) ==
  {d \in Dates : checkIn < d /\ d < checkOut}

\* getStayDates: every night from checkIn up to, not including, checkOut.
StayDates(checkIn, checkOut) == {d \in Dates : checkIn <= d /\ d < checkOut}

Occupies(status) == status \in statusesWithBlockedDays

\* The rows syncBookingDays inserts for booking b.
DayRows(b, p) ==
  IF Occupies(p.status)
  THEN {[booking |-> b, unit |-> p.unit, date |-> d] :
          d \in StayDates(p.checkIn, p.checkOut)}
  ELSE {}

\* create: the body as it is, with the default status.
PlanOfCreate(dto) == [dto EXCEPT !.status = Default(dto.status, "PENDING")]

\* update: each value of the body, or else of the row read.
PlanOfUpdate(dto, row) ==
  [unit |-> Default(dto.unit, row.unit),
   checkIn |-> Default(dto.checkIn, row.checkIn),
   checkOut |-> Default(dto.checkOut, row.checkOut),
   guestsCount |-> Default(dto.guestsCount, row.guestsCount),
   status |-> Default(dto.status, row.status)]

\* The row create inserts.
NewRow(guest, p) ==
  [guest |-> guest, listing |-> listingOf[p.unit], unit |-> p.unit,
   checkIn |-> p.checkIn, checkOut |-> p.checkOut,
   guestsCount |-> p.guestsCount, status |-> p.status]

\* MUTANT: a move to another unit leaves the listing behind.
WrittenWithoutListing(dto, row) ==
  [guest |-> row.guest, listing |-> row.listing,
   unit |-> Default(dto.unit, row.unit),
   checkIn |-> Default(dto.checkIn, row.checkIn),
   checkOut |-> Default(dto.checkOut, row.checkOut),
   guestsCount |-> Default(dto.guestsCount, row.guestsCount),
   status |-> Default(dto.status, row.status)]

\* The row update leaves: only the columns the body names are written, and
\* the listing goes with the unit.
Written(dto, row) ==
  [guest |-> row.guest,
   listing |-> IF dto.unit = Null THEN row.listing ELSE listingOf[dto.unit],
   unit |-> Default(dto.unit, row.unit),
   checkIn |-> Default(dto.checkIn, row.checkIn),
   checkOut |-> Default(dto.checkOut, row.checkOut),
   guestsCount |-> Default(dto.guestsCount, row.guestsCount),
   status |-> Default(dto.status, row.status)]

\* MUTANT: a stay may end on the day it begins.
AcceptsEmptyStay(p) ==
  /\ units[p.unit] = "live"
  /\ p.guestsCount <= capacity[p.unit]
  /\ p.checkIn <= p.checkOut

\* MUTANT: the capacity is not compared.
AcceptsAnyGuests(p) == units[p.unit] = "live" /\ p.checkIn < p.checkOut

\* ensureGuestsCount and ensureDateRange on the unit just read.
UnitAccepts(p) ==
  /\ units[p.unit] = "live"
  /\ p.guestsCount <= capacity[p.unit]
  /\ p.checkIn < p.checkOut

\* MUTANT: the last night is not looked up.
LastNightUnchecked(p) ==
  \A d \in StayDates(p.checkIn, p.checkOut - 1) : ~Blocked(p.unit, d)

\* ensureUnitIsNotBlockedByCalendar.
CalendarAccepts(p) ==
  \A d \in StayDates(p.checkIn, p.checkOut) : ~Blocked(p.unit, d)

\* The unique index on (unit, date).
Vacant(new, kept) ==
  \A n \in new, k \in kept : n.unit # k.unit \/ n.date # k.date

-----------------------------------------------------------------------------
(* The guests' requests.                                                   *)

Start(r, op, step, b, dto, p) ==
  /\ requests[r] = Null
  /\ requests' = [requests EXCEPT ![r] =
       [op |-> op, step |-> step, booking |-> b, dto |-> dto, plan |-> p]]
  /\ UNCHANGED <<inventoryVars, tables>>

At(r, step) == requests[r] # Null /\ requests[r].step = step

GoOn(r, step) ==
  /\ requests' = [requests EXCEPT ![r].step = step]
  /\ UNCHANGED <<inventoryVars, tables>>

End(r) == requests' = [requests EXCEPT ![r] = Null]

\* MUTANT: the booking is looked up by its id alone.
FindsAny(r, b) == b \in Stored

\* findFirstOrThrow({ where: { id, guestId } })
Finds(r, b) == b \in Stored /\ bookings[b].guest = guestOf[r]

BeginCreate(r) ==
  /\ nextId \in BookingIds
  /\ \E dto \in CreateDtos :
       Start(r, "create", "unit", Null, dto, PlanOfCreate(dto))

BeginUpdate(r) ==
  \E b \in BookingIds, dto \in UpdateDtos :
    /\ Finds(r, b)
    /\ Start(r, "update", "unit", b, dto, PlanOfUpdate(dto, bookings[b]))

BeginRemove(r) ==
  \E b \in BookingIds :
    /\ Finds(r, b)
    /\ Start(r, "remove", "tx", b, NoDto, Null)

\* The calendar is only read for a status that occupies days.
ReadUnit(r) ==
  LET p == requests[r].plan
  IN  /\ At(r, "unit")
      /\ UnitAccepts(p)
      /\ GoOn(r, IF Occupies(p.status) THEN "calendar" ELSE "tx")

CheckCalendar(r) ==
  /\ At(r, "calendar")
  /\ CalendarAccepts(requests[r].plan)
  /\ GoOn(r, "tx")

\* MUTANT: the old rows are not deleted.
DaysKept(b) == bookingDays

DaysWithout(b) == {d \in bookingDays : d.booking # b}

\* The foreign keys of the Booking and BookingDay rows of plan p, and the
\* unique index against the rows that stay.
DaysFit(b, p) ==
  /\ units[p.unit] = "live"
  /\ Vacant(DayRows(b, p), DaysWithout(b))

CommitCreate(r) ==
  LET p == requests[r].plan
  IN  /\ At(r, "tx")
      /\ requests[r].op = "create"
      /\ nextId \in BookingIds
      /\ DaysFit(nextId, p)
      /\ bookings' = [bookings EXCEPT ![nextId] = NewRow(guestOf[r], p)]
      /\ bookingDays' = bookingDays \cup DayRows(nextId, p)
      /\ nextId' = nextId + 1
      /\ End(r)
      /\ UNCHANGED inventoryVars

\* The days are rebuilt from the plan, which was made from the row read at
\* the start; the columns are written over the row as it is now.
CanUpdate(b, dto, p) ==
  /\ b \in Stored
  /\ dto.unit # Null => units[dto.unit] = "live"
  /\ DayRows(b, p) # {} => DaysFit(b, p)

CommitUpdate(r) ==
  LET q == requests[r]
      b == q.booking
  IN  /\ At(r, "tx")
      /\ q.op = "update"
      /\ CanUpdate(b, q.dto, q.plan)
      /\ bookings' = [bookings EXCEPT ![b] = Written(q.dto, bookings[b])]
      /\ bookingDays' = DaysWithout(b) \cup DayRows(b, q.plan)
      /\ End(r)
      /\ UNCHANGED <<inventoryVars, nextId>>

\* MUTANT: remove cancels the booking and keeps its row.
CancelInstead(r) ==
  LET b == requests[r].booking
  IN  /\ At(r, "tx")
      /\ requests[r].op = "remove"
      /\ b \in Stored
      /\ bookings' = [bookings EXCEPT ![b].status = "CANCELLED"]
      /\ bookingDays' = DaysWithout(b)
      /\ End(r)
      /\ UNCHANGED <<inventoryVars, nextId>>

\* The days go with the booking: `onDelete: Cascade`.
CommitRemove(r) ==
  LET b == requests[r].booking
  IN  /\ At(r, "tx")
      /\ requests[r].op = "remove"
      /\ b \in Stored
      /\ bookings' = [bookings EXCEPT ![b] = Null]
      /\ bookingDays' = DaysWithout(b)
      /\ End(r)
      /\ UNCHANGED <<inventoryVars, nextId>>

\* A check that fails, or a statement the database refuses, rolls back.
Refuse(r) ==
  LET q == requests[r]
  IN  /\ \/ At(r, "unit") /\ ~UnitAccepts(q.plan)
         \/ At(r, "calendar") /\ ~CalendarAccepts(q.plan)
         \/ At(r, "tx") /\ q.op = "create" /\ ~DaysFit(nextId, q.plan)
         \/ At(r, "tx") /\ q.op = "update"
              /\ ~CanUpdate(q.booking, q.dto, q.plan)
         \/ At(r, "tx") /\ q.op = "remove" /\ q.booking \notin Stored
      /\ End(r)
      /\ UNCHANGED <<inventoryVars, tables>>

\* A lost connection, a transaction timeout or a deadlock victim: the request
\* ends with an error at any point before its COMMIT, with no effect.
Abort(r) ==
  /\ requests[r] # Null
  /\ End(r)
  /\ UNCHANGED <<inventoryVars, tables>>

\* The process stops: what is in flight is lost, the tables stay.
Crash ==
  /\ \E r \in Requests : requests[r] # Null
  /\ requests' = [r \in Requests |-> Null]
  /\ UNCHANGED <<inventoryVars, tables>>

GuestStep ==
  \/ \E r \in Requests :
       \/ BeginCreate(r) \/ BeginUpdate(r) \/ BeginRemove(r)
       \/ ReadUnit(r) \/ CheckCalendar(r)
       \/ CommitCreate(r) \/ CommitUpdate(r) \/ CommitRemove(r)
       \/ Refuse(r) \/ Abort(r)
  \/ Crash

-----------------------------------------------------------------------------
(* The owners' deletions, with the foreign keys of the bookings.           *)

\* MUTANT: the relation is not `onDelete: Restrict`.
NotRestricted(U) == TRUE

\* Booking.unit is `onDelete: Restrict`.
Unbooked(U) == \A b \in Stored : bookings[b].unit \notin U

\* BookingDay.unit cascades.
DeleteUnit(o, u) ==
  /\ RemoveUnit(o, u)
  /\ Unbooked({u})
  /\ bookingDays' = {d \in bookingDays : d.unit # u}
  /\ UNCHANGED <<bookings, nextId, requests>>

\* The cascade to the units meets the same Restrict; Booking.listing is
\* `onDelete: SetNull`.
DeleteListing(o, l) ==
  /\ RemoveListing(o, l)
  /\ Unbooked(UnitsOf(l))
  /\ bookings' = [b \in BookingIds |->
       IF b \in Stored /\ bookings[b].listing = l
       THEN [bookings[b] EXCEPT !.listing = Null] ELSE bookings[b]]
  /\ bookingDays' = {d \in bookingDays : listingOf[d.unit] # l}
  /\ UNCHANGED <<nextId, requests>>

HostStep ==
  \/ OwnerStep /\ UNCHANGED bookingVars
  \/ \E o \in Users, u \in Units : DeleteUnit(o, u)
  \/ \E o \in Users, l \in Listings : DeleteListing(o, l)

Next == GuestStep \/ HostStep

Spec == Init /\ [][Next]_vars

-----------------------------------------------------------------------------
(* What the component promises.                                            *)

TypeOK ==
  /\ InventoryTypeOK
  /\ bookings \in [BookingIds -> Row \cup {Null}]
  /\ bookingDays \subseteq Day
  /\ nextId \in 1 .. MaxBookings + 1
  /\ requests \in [Requests -> Request \cup {Null}]

\* A client that waits for an answer before it sends its next request.
OneRequestPerGuest ==
  \A r, s \in Requests : guestOf[r] = guestOf[s] => r = s

\* A weaker discipline, of the bookings and not of the guests: no booking has
\* two updates in flight together.  Its removal, and any other request of its
\* guest, may race with its update.
UpdatesTakeTurns ==
  \A r, s \in {t \in Requests : requests[t] # Null /\ requests[t].op = "update"} :
    requests[r].booking = requests[s].booking => r = s

\* What the unique index keeps of the rows, a part of the invariants.
UniqueDay ==
  \A d, e \in bookingDays : d.unit = e.unit /\ d.date = e.date => d = e

\* Restrict, Cascade and SetNull together: a booking keeps its unit and its
\* listing alive, its listing is its unit's and is never nulled, and a day
\* row has a stored booking and a live unit.
ReferencesHold ==
  /\ \A b \in Stored : /\ units[bookings[b].unit] = "live"
                       /\ listings[listingOf[bookings[b].unit]] = "live"
                       /\ bookings[b].listing = listingOf[bookings[b].unit]
  /\ \A d \in bookingDays : d.booking \in Stored /\ units[d.unit] = "live"

\* The derived rows are exact (README: derived occupied day records, rebuilt
\* on update): an active booking has one row for each night of its stay in
\* its unit, any other booking has none.
DaysMatchBooking ==
  \A b \in Stored : {d \in bookingDays : d.booking = b} = DayRows(b, bookings[b])

\* Two bookings that occupy days never share a night of a unit, whatever
\* create, update (of unit, dates or status) and remove do to them.
NoDoubleBooking ==
  \A b, c \in Stored :
    /\ b # c
    /\ Occupies(bookings[b].status) /\ Occupies(bookings[c].status)
    /\ bookings[b].unit = bookings[c].unit
    => \/ bookings[b].checkOut <= bookings[c].checkIn
       \/ bookings[c].checkOut <= bookings[b].checkIn

\* ensureDateRange, on the stored row: it checks a mix of the body and an
\* earlier row, and update writes only what the body names.
StayIsNonEmpty ==
  \A b \in Stored : bookings[b].checkIn < bookings[b].checkOut

\* The only request of its guest.
Lone(r) == \A s \in Requests : guestOf[s] = guestOf[r] => s = r

\* No lost update for a guest who waits for each answer, whatever the others
\* do: what the request has planned from the row it read, awaits ago, is still
\* what that row and its body give when it commits, the row is still there and
\* its guest's, and a plan that was checked is not empty.
PlansAreFresh ==
  \A r \in {s \in Requests : requests[s] # Null} : Lone(r) =>
    LET q == requests[r]
    IN  /\ q.op # "create" => /\ q.booking \in Stored
                              /\ bookings[q.booking].guest = guestOf[r]
        /\ q.op = "update" => q.plan = PlanOfUpdate(q.dto, bookings[q.booking])
        /\ q.op # "remove" /\ q.step # "unit" =>
             q.plan.checkIn < q.plan.checkOut

\* No lost update, also where a guest does not wait: the row that an update
\* has read may be removed meanwhile, by its guest, but while it is there it
\* is the row its plan was made from; and its id is never given again.
UpdatesAreFresh ==
  \A r \in {s \in Requests : requests[s] # Null} :
    LET q == requests[r]
    IN  /\ q.op = "update" =>
             /\ q.booking < nextId
             /\ q.booking \in Stored =>
                  q.plan = PlanOfUpdate(q.dto, bookings[q.booking])
        /\ q.op # "remove" /\ q.step # "unit" =>
             q.plan.checkIn < q.plan.checkOut

\* ensureGuestsCount, on the stored row, while no owner changes a capacity.
GuestsFit ==
  \A b \in Stored : bookings[b].guestsCount <= capacity[bookings[b].unit]

\* README: guestsCount must not exceed the unit's capacity, checkOut must be
\* later than checkIn.
RulesHold == GuestsFit /\ StayIsNonEmpty

\* The abstract specification: what each booking holds in BookingDay.
Held(b) == {<<d.unit, d.date>> : d \in {e \in bookingDays : e.booking = b}}

HeldNights == [b \in BookingIds |-> Held(b)]

Ledger == INSTANCE ReservationLedger WITH
  Bookings <- BookingIds, Rooms <- Units, Nights <- Dates,
  ledger <- HeldNights

\* The BookingDay table implements the ledger, under every interleaving of
\* requests, also those of one guest.
ImplementsLedger == Ledger!Spec

=============================================================================

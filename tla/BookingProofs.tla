---------------------------- MODULE BookingProofs ----------------------------
(***************************************************************************)
(* Theorems about Inventory and Booking, for all values of the constants.  *)
(* Without any assumption on the clients: type correctness, the unique     *)
(* index, the references, the inventory's cascades, that BookingDay        *)
(* implements ReservationLedger, and that a guest who has one request at a *)
(* time loses no update.  Where no booking has two updates in flight       *)
(* together, as when every guest has one request at a time: the derived    *)
(* rows match the bookings, stays are not empty, no night is booked twice, *)
(* and guests fit while capacities stand.                                  *)
(***************************************************************************)
EXTENDS Booking, TLAPS

-----------------------------------------------------------------------------
(* What every handler of the owners preserves: the types of the tables of  *)
(* Inventory, and that children do not outlive their parents.              *)

\* Every owner handler, the deletions included.
AnyOwnerStep ==
  \/ OwnerStep
  \/ \E o \in Users, u \in Units : RemoveUnit(o, u)
  \/ \E o \in Users, l \in Listings : RemoveListing(o, l)

\* `a ?? b` has a value of the type of a row's column when b has one.
LEMMA DefaultType ==
  ASSUME NEW S, NEW a \in S \cup {Null}, NEW b \in S
  PROVE  Default(a, b) \in S
BY DEF Default

\* The tables start well typed and without orphans.
LEMMA InventoryStarts ==
  InventoryInit => InventoryTypeOK /\ OwnedByTheLiving
BY InventoryAssumption
DEF InventoryInit, InventoryTypeOK, OwnedByTheLiving, Lives, SeedListings, NoDays

\* The rows a deleted unit leaves behind are the calendars of the others.
LEMMA CalendarWithoutType ==
  ASSUME calendar \in [Units -> [Dates -> DayStates \cup {Null}]], NEW U
  PROVE  /\ CalendarWithout(U) \in [Units -> [Dates -> DayStates \cup {Null}]]
         /\ \A u \in Units, d \in Dates :
              CalendarWithout(U)[u][d] =
                IF u \in U THEN Null ELSE calendar[u][d]
BY DEF CalendarWithout, NoDays

\* A PATCH of a calendar day keeps the table well typed and fills only days
\* of a unit that its owner has.
LEMMA UpdateDayKeeps ==
  ASSUME InventoryTypeOK, OwnedByTheLiving,
         NEW o \in Users, NEW u \in Units, NEW d \in Dates,
         NEW v \in Units \cup {Null}, NEW e \in Dates \cup {Null},
         NEW s \in DayStates \cup {Null},
         UpdateDay(o, u, d, v, e, s)
  PROVE  InventoryTypeOK' /\ OwnedByTheLiving'
<1> DEFINE w == Default(v, u)
           f == Default(e, d)
           new == Default(s, calendar[u][d])
           moved == [calendar EXCEPT ![u][d] = Null]
<1>1. w \in Units /\ f \in Dates
  BY DefaultType
<1>2. calendar[u][d] \in DayStates
  BY DEF UpdateDay, InventoryTypeOK
<1>3. new \in DayStates
  BY <1>2, DefaultType
<1>4. calendar' = [moved EXCEPT ![w][f] = new] /\ units[w] = "live"
  BY DEF UpdateDay, OwnsUnit
<1>5. UNCHANGED <<listings, units, capacity>>
  BY DEF UpdateDay
<1> HIDE DEF w, f, new
<1>6. InventoryTypeOK'
  BY <1>1, <1>3, <1>4, <1>5 DEF InventoryTypeOK
<1>7. \A x \in Units, y \in Dates :
        calendar'[x][y] # Null => x = w \/ calendar[x][y] # Null
  BY <1>1, <1>4 DEF InventoryTypeOK
<1>8. OwnedByTheLiving'
  BY <1>4, <1>5, <1>7 DEF OwnedByTheLiving
<1> QED
  BY <1>6, <1>8

\* No owner handler leaves a table badly typed or a child without its parent.
LEMMA OwnersKeep ==
  ASSUME InventoryTypeOK, OwnedByTheLiving, AnyOwnerStep
  PROVE  InventoryTypeOK' /\ OwnedByTheLiving'
<1> USE InventoryAssumption
<1>1. ASSUME NEW o \in Users, NEW l \in Listings, CreateListing(o, l)
      PROVE  InventoryTypeOK' /\ OwnedByTheLiving'
  BY <1>1 DEF CreateListing, InventoryTypeOK, OwnedByTheLiving, Lives
<1>2. ASSUME NEW o \in Users, NEW u \in Units, NEW c \in Capacities,
             CreateUnit(o, u, c)
      PROVE  InventoryTypeOK' /\ OwnedByTheLiving'
  BY <1>2
  DEF CreateUnit, OwnsListing, InventoryTypeOK, OwnedByTheLiving, Lives
<1>3. ASSUME NEW o \in Users, NEW u \in Units, NEW c \in Capacities,
             UpdateUnit(o, u, c)
      PROVE  InventoryTypeOK' /\ OwnedByTheLiving'
  BY <1>3 DEF UpdateUnit, InventoryTypeOK, OwnedByTheLiving
<1>4. ASSUME NEW o \in Users, NEW u \in Units, NEW d \in Dates,
             NEW s \in DayStates \cup {Null}, CreateDay(o, u, d, s)
      PROVE  InventoryTypeOK' /\ OwnedByTheLiving'
  <2>1. Default(s, "AVAILABLE") \in DayStates
    BY DefaultType DEF DayStates
  <2>2. QED
    BY <1>4, <2>1 DEF CreateDay, OwnsUnit, InventoryTypeOK, OwnedByTheLiving
<1>5. ASSUME NEW o \in Users, NEW u \in Units, NEW d \in Dates,
             NEW s \in DayStates \cup {Null}, NEW v \in Units \cup {Null},
             NEW e \in Dates \cup {Null}, UpdateDay(o, u, d, v, e, s)
      PROVE  InventoryTypeOK' /\ OwnedByTheLiving'
  BY <1>5, UpdateDayKeeps
<1>6. ASSUME NEW o \in Users, NEW u \in Units, NEW d \in Dates,
             RemoveDay(o, u, d)
      PROVE  InventoryTypeOK' /\ OwnedByTheLiving'
  BY <1>6 DEF RemoveDay, InventoryTypeOK, OwnedByTheLiving
<1>7. ASSUME NEW o \in Users, NEW u \in Units, RemoveUnit(o, u)
      PROVE  InventoryTypeOK' /\ OwnedByTheLiving'
  BY <1>7, CalendarWithoutType
  DEF RemoveUnit, InventoryTypeOK, OwnedByTheLiving, Lives
<1>8. ASSUME NEW o \in Users, NEW l \in Listings, RemoveListing(o, l)
      PROVE  InventoryTypeOK' /\ OwnedByTheLiving'
  BY <1>8, CalendarWithoutType
  DEF RemoveListing, UnitsOf, InventoryTypeOK, OwnedByTheLiving, Lives
<1> QED
  BY <1>1, <1>2, <1>3, <1>4, <1>5, <1>6, <1>7, <1>8
  DEF AnyOwnerStep, OwnerStep

-----------------------------------------------------------------------------
(* The pure parts of the handlers.                                         *)

\* A plan is complete: every field has a value.
LEMMA PlanTypes ==
  /\ \A dto \in CreateDtos : PlanOfCreate(dto) \in Plan /\ dto \in Dto
  /\ \A dto \in Dto, row \in Row : PlanOfUpdate(dto, row) \in Plan
<1> USE BookingAssumption
<1>1. ASSUME NEW dto \in CreateDtos
      PROVE  PlanOfCreate(dto) \in Plan /\ dto \in Dto
  <2>1. dto \in [unit : Units, checkIn : Dates, checkOut : Dates,
                 guestsCount : Nat, status : Statuses \cup {Null}]
    OBVIOUS
  <2>2. Default(dto.status, "PENDING") \in Statuses
    BY <2>1, DefaultType DEF Statuses
  <2>3. QED
    BY <2>1, <2>2 DEF PlanOfCreate, Plan, Dto
<1>2. ASSUME NEW dto \in Dto, NEW row \in Row
      PROVE  PlanOfUpdate(dto, row) \in Plan
  BY DEF Dto, Row, PlanOfUpdate, Plan, Default
<1> QED
  BY <1>1, <1>2

\* The columns written make a row.
LEMMA RowTypes ==
  /\ \A p \in Plan, g \in Users : NewRow(g, p) \in Row /\ NewRow(g, p) # Null
  /\ \A dto \in Dto, row \in Row :
       Written(dto, row) \in Row /\ Written(dto, row) # Null
<1>1. ASSUME NEW p \in Plan, NEW g \in Users
      PROVE  NewRow(g, p) \in Row
  BY InventoryAssumption DEF Plan, NewRow, Row
<1>2. ASSUME NEW dto \in Dto, NEW row \in Row
      PROVE  Written(dto, row) \in Row
  BY InventoryAssumption DEF Dto, Row, Written, Default
<1> QED
  BY <1>1, <1>2, BookingAssumption

\* The day rows of a booking name it, its unit and nights of its stay.
LEMMA DayRowsType ==
  ASSUME NEW b \in BookingIds, NEW p \in Plan
  PROVE  DayRows(b, p) \subseteq Day
BY DEF DayRows, Day, Plan, StayDates

\* Written on the row it was planned from, an update leaves what it planned:
\* the same unit, dates and status, hence the same day rows.
LEMMA PlannedIsWritten ==
  ASSUME NEW dto, NEW row, NEW b
  PROVE  /\ DayRows(b, Written(dto, row)) = DayRows(b, PlanOfUpdate(dto, row))
         /\ Written(dto, row).checkIn = PlanOfUpdate(dto, row).checkIn
         /\ Written(dto, row).checkOut = PlanOfUpdate(dto, row).checkOut
         /\ Written(dto, row).guest = row.guest
BY DEF Written, PlanOfUpdate, DayRows

LEMMA NewIsPlanned ==
  ASSUME NEW p \in Plan, NEW g, NEW b
  PROVE  /\ DayRows(b, NewRow(g, p)) = DayRows(b, p)
         /\ NewRow(g, p).checkIn = p.checkIn
         /\ NewRow(g, p).checkOut = p.checkOut
         /\ NewRow(g, p).guest = g
BY DEF NewRow, DayRows

-----------------------------------------------------------------------------
(* Types.                                                                  *)

BookingTypeOK ==
  /\ bookings \in [BookingIds -> Row \cup {Null}]
  /\ bookingDays \subseteq Day
  /\ nextId \in 1 .. MaxBookings + 1
  /\ requests \in [Requests -> Request \cup {Null}]

\* The steps of a request that write no table keep the types.
LEMMA RequestStepTypes ==
  ASSUME TypeOK, NEW r \in Requests,
         \/ BeginCreate(r) \/ BeginUpdate(r) \/ BeginRemove(r)
         \/ ReadUnit(r) \/ CheckCalendar(r) \/ Refuse(r) \/ Abort(r)
  PROVE  requests' \in [Requests -> Request \cup {Null}]
<1> USE DEF TypeOK
<1>1. CASE BeginCreate(r)
  <2>1. PICK dto \in CreateDtos :
          Start(r, "create", "unit", Null, dto, PlanOfCreate(dto))
    BY <1>1 DEF BeginCreate
  <2>2. QED
    BY <2>1, PlanTypes DEF Start, Request, Steps
<1>2. CASE BeginUpdate(r)
  <2>1. PICK b \in BookingIds, dto \in UpdateDtos :
          /\ Finds(r, b)
          /\ Start(r, "update", "unit", b, dto, PlanOfUpdate(dto, bookings[b]))
    BY <1>2 DEF BeginUpdate
  <2>2. bookings[b] \in Row /\ dto \in Dto
    BY <2>1, BookingAssumption DEF Finds, Stored
  <2>3. PlanOfUpdate(dto, bookings[b]) \in Plan
    BY <2>2, PlanTypes
  <2>4. QED
    BY <2>1, <2>2, <2>3 DEF Start, Request, Steps
<1>3. CASE BeginRemove(r)
  BY <1>3 DEF BeginRemove, Start, Request, Steps
<1>4. CASE ReadUnit(r)
  BY <1>4 DEF ReadUnit, At, GoOn, Request, Steps
<1>5. CASE CheckCalendar(r)
  BY <1>5 DEF CheckCalendar, At, GoOn, Request, Steps
<1>6. CASE Refuse(r) \/ Abort(r)
  BY <1>6 DEF Refuse, Abort, End
<1> QED
  BY <1>1, <1>2, <1>3, <1>4, <1>5, <1>6

\* What a request in flight carries, by its operation.
LEMMA RequestParts ==
  ASSUME TypeOK, NEW r \in Requests, requests[r] # Null
  PROVE  /\ requests[r] \in Request
         /\ requests[r].op \in {"create", "update", "remove"}
         /\ requests[r].op # "remove" =>
              requests[r].plan \in Plan /\ requests[r].dto \in Dto
         /\ requests[r].op # "create" => requests[r].booking \in BookingIds
         /\ ~At(r, "tx") => requests[r].op # "remove"
BY DEF TypeOK, Request, At

\* A commit to create.
LEMMA CreateTypes ==
  ASSUME TypeOK, NEW r \in Requests, CommitCreate(r)
  PROVE  BookingTypeOK'
<1> DEFINE p == requests[r].plan
<1>1. p \in Plan /\ nextId \in BookingIds
  BY RequestParts DEF CommitCreate, At
<1>2. NewRow(guestOf[r], p) \in Row /\ DayRows(nextId, p) \subseteq Day
  BY <1>1, RowTypes, DayRowsType, BookingAssumption
<1>3. /\ bookings' = [bookings EXCEPT ![nextId] = NewRow(guestOf[r], p)]
      /\ bookingDays' = bookingDays \cup DayRows(nextId, p)
      /\ nextId' = nextId + 1
      /\ requests' = [requests EXCEPT ![r] = Null]
  BY DEF CommitCreate, End
<1> HIDE DEF p
<1>4. nextId' \in 1 .. MaxBookings + 1
  BY <1>1, <1>3, BookingAssumption DEF BookingIds
<1> QED
  BY <1>2, <1>3, <1>4 DEF BookingTypeOK, TypeOK

\* A commit to update.
LEMMA UpdateTypes ==
  ASSUME TypeOK, NEW r \in Requests, CommitUpdate(r)
  PROVE  BookingTypeOK'
<1> DEFINE q == requests[r]
           b == q.booking
<1>1. /\ q.plan \in Plan /\ q.dto \in Dto
      /\ b \in BookingIds /\ bookings[b] \in Row
  BY RequestParts DEF CommitUpdate, At, CanUpdate, Stored, TypeOK
<1>2. /\ Written(q.dto, bookings[b]) \in Row
      /\ DayRows(b, q.plan) \subseteq Day
  BY <1>1, RowTypes, DayRowsType
<1>3. /\ bookings' = [bookings EXCEPT ![b] = Written(q.dto, bookings[b])]
      /\ bookingDays' = DaysWithout(b) \cup DayRows(b, q.plan)
      /\ nextId' = nextId
      /\ requests' = [requests EXCEPT ![r] = Null]
  BY DEF CommitUpdate, End
<1> HIDE DEF q, b
<1> QED
  BY <1>2, <1>3 DEF BookingTypeOK, TypeOK, DaysWithout

\* Every step keeps the types.
LEMMA StepTypes ==
  ASSUME TypeOK, OwnedByTheLiving, [Next]_vars
  PROVE  TypeOK'
<1>0. SUFFICES InventoryTypeOK' /\ BookingTypeOK'
  BY DEF TypeOK, BookingTypeOK
<1>1. CASE GuestStep
  <2>1. UNCHANGED inventoryVars
    BY <1>1 DEF GuestStep, BeginCreate, BeginUpdate, BeginRemove, Start,
                ReadUnit, CheckCalendar, GoOn, CommitCreate, CommitUpdate,
                CommitRemove, Refuse, Abort, Crash
  <2>2. InventoryTypeOK'
    BY <2>1 DEF TypeOK, InventoryTypeOK, inventoryVars
  <2>3. ASSUME NEW r \in Requests,
               \/ BeginCreate(r) \/ BeginUpdate(r) \/ BeginRemove(r)
               \/ ReadUnit(r) \/ CheckCalendar(r) \/ Refuse(r) \/ Abort(r)
        PROVE  BookingTypeOK'
    <3>1. UNCHANGED tables
      BY <2>3 DEF BeginCreate, BeginUpdate, BeginRemove, Start, ReadUnit,
                  CheckCalendar, GoOn, Refuse, Abort
    <3>2. QED
      BY <2>3, <3>1, RequestStepTypes DEF TypeOK, BookingTypeOK, tables
  <2>4. ASSUME NEW r \in Requests, CommitRemove(r)
        PROVE  BookingTypeOK'
    BY <2>4 DEF CommitRemove, End, DaysWithout, TypeOK, BookingTypeOK
  <2>5. CASE Crash
    BY <2>2, <2>5 DEF Crash, tables, TypeOK, BookingTypeOK
  <2>6. QED
    BY <1>1, <2>2, <2>3, <2>4, <2>5, CreateTypes, UpdateTypes
    DEF GuestStep
<1>2. CASE HostStep
  <2>1. AnyOwnerStep
    BY <1>2 DEF HostStep, AnyOwnerStep, DeleteUnit, DeleteListing
  <2>2. InventoryTypeOK'
    BY <2>1, OwnersKeep DEF TypeOK
  <2>3. CASE UNCHANGED bookingVars
    BY <2>2, <2>3 DEF bookingVars, TypeOK, BookingTypeOK
  <2>4. ASSUME NEW o \in Users, NEW u \in Units, DeleteUnit(o, u)
        PROVE  BookingTypeOK'
    BY <2>4 DEF DeleteUnit, TypeOK, BookingTypeOK
  <2>5. ASSUME NEW o \in Users, NEW l \in Listings, DeleteListing(o, l)
        PROVE  BookingTypeOK'
    BY <2>5 DEF DeleteListing, TypeOK, BookingTypeOK, Stored, Row
  <2>6. QED
    BY <1>2, <2>2, <2>3, <2>4, <2>5 DEF HostStep
<1>3. CASE UNCHANGED vars
  BY <1>3
  DEF vars, inventoryVars, bookingVars, TypeOK, InventoryTypeOK, BookingTypeOK
<1> QED
  BY <1>1, <1>2, <1>3 DEF Next

-----------------------------------------------------------------------------
(* What holds whatever the clients do.                                     *)

\* Ids not yet given out are not stored.
FreshIds == \A b \in BookingIds : nextId <= b => bookings[b] = Null

\* The inductive invariant: the cascades of the owners' tables, the ids and
\* the references carry the unique index from step to step.
OpenInv ==
  TypeOK /\ OwnedByTheLiving /\ FreshIds /\ ReferencesHold /\ UniqueDay

\* Only the deletions end the life of a unit or of a listing.
LEMMA OwnersCloseNothing ==
  ASSUME InventoryTypeOK, OwnerStep
  PROVE  /\ \A u \in Units : units[u] = "live" => units'[u] = "live"
         /\ \A l \in Listings : listings[l] = "live" => listings'[l] = "live"
<1>1. ASSUME NEW o \in Users, NEW l \in Listings, CreateListing(o, l)
      PROVE  units' = units /\ listings' = [listings EXCEPT ![l] = "live"]
  BY <1>1 DEF CreateListing
<1>2. ASSUME NEW o \in Users, NEW u \in Units, NEW c \in Capacities,
             CreateUnit(o, u, c)
      PROVE  listings' = listings /\ units' = [units EXCEPT ![u] = "live"]
  BY <1>2 DEF CreateUnit
<1>3. CASE UNCHANGED <<listings, units>>
  BY <1>3
<1>4. ASSUME NEW o \in Users, NEW u \in Units, NEW c \in Capacities,
             UpdateUnit(o, u, c)
      PROVE  UNCHANGED <<listings, units>>
  BY <1>4 DEF UpdateUnit
<1>5. ASSUME NEW o \in Users, NEW u \in Units, NEW d \in Dates,
             NEW s \in DayStates \cup {Null},
             \/ CreateDay(o, u, d, s)
             \/ \E v \in Units \cup {Null}, e \in Dates \cup {Null} :
                  UpdateDay(o, u, d, v, e, s)
      PROVE  UNCHANGED <<listings, units>>
  BY <1>5 DEF CreateDay, UpdateDay
<1>6. ASSUME NEW o \in Users, NEW u \in Units, NEW d \in Dates,
             RemoveDay(o, u, d)
      PROVE  UNCHANGED <<listings, units>>
  BY <1>6 DEF RemoveDay
<1>7. CASE \E l \in Listings : units' = units
                            /\ listings' = [listings EXCEPT ![l] = "live"]
  BY <1>7 DEF InventoryTypeOK
<1>8. CASE \E u \in Units : listings' = listings
                         /\ units' = [units EXCEPT ![u] = "live"]
  BY <1>8 DEF InventoryTypeOK
<1> QED
  BY <1>1, <1>2, <1>3, <1>4, <1>5, <1>6, <1>7, <1>8 DEF OwnerStep

\* A guest's step leaves the owners' tables alone.
LEMMA GuestsLeaveInventory ==
  ASSUME GuestStep
  PROVE  UNCHANGED inventoryVars
BY DEF GuestStep, BeginCreate, BeginUpdate, BeginRemove, Start, ReadUnit,
       CheckCalendar, GoOn, CommitCreate, CommitUpdate, CommitRemove, Refuse,
       Abort, Crash

\* The steps of the guests that write no table.
Quiet ==
  \/ \E r \in Requests :
       \/ BeginCreate(r) \/ BeginUpdate(r) \/ BeginRemove(r)
       \/ ReadUnit(r) \/ CheckCalendar(r) \/ Refuse(r) \/ Abort(r)
  \/ Crash

LEMMA QuietIsQuiet == Quiet => UNCHANGED tables
BY DEF Quiet, BeginCreate, BeginUpdate, BeginRemove, Start, ReadUnit,
       CheckCalendar, GoOn, Refuse, Abort, Crash

\* A step leaves a request as it is, ends it, begins it or checks it.
LEMMA RequestMoves ==
  ASSUME TypeOK, [Next]_vars, NEW r \in Requests, requests'[r] # Null
  PROVE  \/ requests'[r] = requests[r]
         \/ BeginCreate(r) \/ BeginUpdate(r) \/ BeginRemove(r)
         \/ ReadUnit(r) \/ CheckCalendar(r)
<1> USE DEF TypeOK
<1>1. ASSUME NEW s \in Requests \ {r},
             \/ BeginCreate(s) \/ BeginUpdate(s) \/ BeginRemove(s)
             \/ ReadUnit(s) \/ CheckCalendar(s)
             \/ CommitCreate(s) \/ CommitUpdate(s) \/ CommitRemove(s)
             \/ Refuse(s) \/ Abort(s)
      PROVE  requests'[r] = requests[r]
  BY <1>1
  DEF BeginCreate, BeginUpdate, BeginRemove, Start, ReadUnit, CheckCalendar,
      GoOn, CommitCreate, CommitUpdate, CommitRemove, Refuse, Abort, End
<1>2. ~(CommitCreate(r) \/ CommitUpdate(r) \/ CommitRemove(r)
        \/ Refuse(r) \/ Abort(r) \/ Crash)
  BY DEF CommitCreate, CommitUpdate, CommitRemove, Refuse, Abort, End, Crash
<1>3. CASE HostStep
  BY <1>3 DEF HostStep, bookingVars, DeleteUnit, DeleteListing
<1>4. CASE UNCHANGED vars
  BY <1>4 DEF vars, bookingVars
<1> HIDE DEF TypeOK
<1> QED
  BY <1>1, <1>2, <1>3, <1>4 DEF Next, GuestStep

LEMMA OpenInit == Init => OpenInv
<1> SUFFICES ASSUME Init PROVE OpenInv
  OBVIOUS
<1>1. InventoryTypeOK /\ OwnedByTheLiving
  BY InventoryStarts DEF Init
<1>2. TypeOK
  BY <1>1, BookingAssumption DEF Init, TypeOK
<1>3. FreshIds /\ ReferencesHold /\ UniqueDay
  BY DEF Init, FreshIds, ReferencesHold, UniqueDay, Stored
<1> QED
  BY <1>1, <1>2, <1>3 DEF OpenInv

\* What a commit to create does to the tables.
LEMMA CreateEffect ==
  ASSUME OpenInv, NEW r \in Requests, CommitCreate(r)
  PROVE  LET p == requests[r].plan
         IN  /\ p \in Plan /\ nextId \in BookingIds /\ nextId \notin Stored
             /\ NewRow(guestOf[r], p) \in Row
             /\ bookings' = [bookings EXCEPT ![nextId] = NewRow(guestOf[r], p)]
             /\ Stored' = Stored \cup {nextId}
             /\ bookingDays' = DaysWithout(nextId) \cup DayRows(nextId, p)
             /\ units[p.unit] = "live"
             /\ Vacant(DayRows(nextId, p), DaysWithout(nextId))
<1> DEFINE p == requests[r].plan
<1>1. p \in Plan /\ nextId \in BookingIds
  BY RequestParts DEF CommitCreate, At, OpenInv
<1>2. nextId \notin Stored
  BY <1>1 DEF OpenInv, FreshIds, Stored, BookingIds
<1>3. DaysWithout(nextId) = bookingDays
  BY <1>2 DEF OpenInv, ReferencesHold, DaysWithout
<1>4. NewRow(guestOf[r], p) \in Row /\ NewRow(guestOf[r], p) # Null
  BY <1>1, RowTypes, BookingAssumption
<1>5. bookings' = [bookings EXCEPT ![nextId] = NewRow(guestOf[r], p)]
  BY DEF CommitCreate
<1>6. Stored' = Stored \cup {nextId}
  BY <1>1, <1>4, <1>5 DEF Stored, OpenInv, TypeOK
<1> QED
  BY <1>1, <1>2, <1>3, <1>4, <1>5, <1>6 DEF CommitCreate, DaysFit

\* What a commit to update does to the tables.
LEMMA UpdateEffect ==
  ASSUME OpenInv, NEW r \in Requests, CommitUpdate(r)
  PROVE  LET q == requests[r]
             b == q.booking
             row == Written(q.dto, bookings[b])
         IN  /\ q.plan \in Plan /\ q.dto \in Dto /\ b \in Stored
             /\ bookings[b] \in Row /\ row \in Row
             /\ bookings' = [bookings EXCEPT ![b] = row]
             /\ Stored' = Stored
             /\ bookingDays' = DaysWithout(b) \cup DayRows(b, q.plan)
             /\ units[row.unit] = "live" /\ row.listing = listingOf[row.unit]
             /\ DayRows(b, q.plan) # {} => units[q.plan.unit] = "live"
             /\ Vacant(DayRows(b, q.plan), DaysWithout(b))
<1> DEFINE q == requests[r]
           b == q.booking
           row == Written(q.dto, bookings[b])
<1>1. /\ q.plan \in Plan /\ q.dto \in Dto /\ b \in Stored
      /\ bookings[b] \in Row
  BY RequestParts DEF CommitUpdate, At, CanUpdate, Stored, OpenInv, TypeOK
<1>2. row \in Row /\ row # Null
  BY <1>1, RowTypes
<1>3. bookings' = [bookings EXCEPT ![b] = row]
  BY DEF CommitUpdate
<1>4. Stored' = Stored
  BY <1>1, <1>2, <1>3 DEF Stored, OpenInv, TypeOK
<1>5. units[row.unit] = "live" /\ row.listing = listingOf[row.unit]
  <2>1. CASE q.dto.unit = Null
    BY <1>1, <2>1 DEF Written, Default, OpenInv, ReferencesHold
  <2>2. CASE q.dto.unit # Null
    BY <1>1, <2>2 DEF Written, Default, CommitUpdate, CanUpdate
  <2> QED
    BY <2>1, <2>2
<1>6. /\ DayRows(b, q.plan) # {} => units[q.plan.unit] = "live"
      /\ Vacant(DayRows(b, q.plan), DaysWithout(b))
  BY DEF CommitUpdate, CanUpdate, DaysFit, Vacant
<1> QED
  BY <1>1, <1>2, <1>3, <1>4, <1>5, <1>6 DEF CommitUpdate

\* New rows of one booking in free slots leave the index unique.
LEMMA VacantKeepsUnique ==
  ASSUME UniqueDay, NEW b, NEW p, Vacant(DayRows(b, p), DaysWithout(b)),
         bookingDays' = DaysWithout(b) \cup DayRows(b, p)
  PROVE  UniqueDay'
BY DEF UniqueDay, Vacant, DaysWithout, DayRows

\* What a removal does to the tables.
LEMMA RemoveEffect ==
  ASSUME OpenInv, NEW r \in Requests, CommitRemove(r)
  PROVE  LET b == requests[r].booking
         IN  /\ b \in Stored
             /\ bookings' = [bookings EXCEPT ![b] = Null]
             /\ Stored' = Stored \ {b}
             /\ bookingDays' = DaysWithout(b)
BY DEF CommitRemove, Stored, OpenInv, TypeOK

\* A deletion of a listing finds no booking of it, so it nulls no column.
LEMMA DeleteListingEffect ==
  ASSUME OpenInv, NEW o \in Users, NEW l \in Listings, DeleteListing(o, l)
  PROVE  bookings' = bookings /\ Stored' = Stored
<1>1. \A b \in Stored : bookings[b].listing # l
  <2>1. ASSUME NEW b \in Stored PROVE bookings[b].listing # l
    <3>1. bookings[b] \in Row /\ bookings[b].listing = listingOf[bookings[b].unit]
      BY DEF OpenInv, TypeOK, ReferencesHold, Stored
    <3>2. bookings[b].unit \in Units /\ bookings[b].unit \notin UnitsOf(l)
      BY <3>1 DEF DeleteListing, Unbooked, Row
    <3> QED
      BY <3>1, <3>2 DEF UnitsOf
  <2> QED
    BY <2>1
<1>2. bookings' = [b \in BookingIds |-> bookings[b]]
  BY <1>1 DEF DeleteListing, Stored
<1>3. bookings' = bookings
  BY <1>2 DEF OpenInv, TypeOK
<1> QED
  BY <1>3 DEF Stored

\* The conjuncts of OpenInv that are not about types, one action at a time.
LEMMA OpenStep == OpenInv /\ [Next]_vars => OpenInv'
<1> SUFFICES ASSUME OpenInv, [Next]_vars PROVE OpenInv'
  OBVIOUS
<1>1. TypeOK'
  BY StepTypes DEF OpenInv
<1>2. CASE GuestStep
  <2>1. UNCHANGED inventoryVars
    BY <1>2, GuestsLeaveInventory
  <2>2. OwnedByTheLiving'
    BY <2>1 DEF OpenInv, OwnedByTheLiving, inventoryVars
  <2>3. CASE Quiet
    <3>1. UNCHANGED tables
      BY <2>3, QuietIsQuiet
    <3> QED
      BY <1>1, <2>1, <2>2, <3>1
      DEF OpenInv, FreshIds, ReferencesHold, UniqueDay, Stored, tables,
          inventoryVars
  <2>4. ASSUME NEW r \in Requests, CommitCreate(r)
        PROVE  OpenInv'
    <3> DEFINE p == requests[r].plan
    <3>1. /\ p \in Plan /\ nextId \in BookingIds /\ nextId \notin Stored
          /\ NewRow(guestOf[r], p) \in Row
          /\ bookings' = [bookings EXCEPT ![nextId] = NewRow(guestOf[r], p)]
          /\ Stored' = Stored \cup {nextId}
          /\ bookingDays' = DaysWithout(nextId) \cup DayRows(nextId, p)
          /\ units[p.unit] = "live"
          /\ Vacant(DayRows(nextId, p), DaysWithout(nextId))
      BY <2>4, CreateEffect
    <3>2. FreshIds'
      BY <2>4, <3>1 DEF CommitCreate, FreshIds, BookingIds, OpenInv, TypeOK
    <3>3. UniqueDay'
      BY <3>1, VacantKeepsUnique DEF OpenInv
    <3>4. ReferencesHold'
      <4>1. ASSUME NEW b \in Stored'
            PROVE  /\ units[bookings'[b].unit] = "live"
                   /\ listings[listingOf[bookings'[b].unit]] = "live"
                   /\ bookings'[b].listing = listingOf[bookings'[b].unit]
        <5>1. CASE b = nextId
          <6>1. bookings'[b] = NewRow(guestOf[r], p)
            BY <3>1, <5>1 DEF OpenInv, TypeOK
          <6>2. p.unit \in Units
            BY <3>1 DEF Plan
          <6> QED
            BY <3>1, <6>1, <6>2 DEF NewRow, OpenInv, OwnedByTheLiving
        <5>2. CASE b # nextId
          BY <3>1, <5>2 DEF OpenInv, TypeOK, ReferencesHold, Stored
        <5> QED
          BY <5>1, <5>2
      <4>2. ASSUME NEW d \in bookingDays'
            PROVE  d.booking \in Stored' /\ units[d.unit] = "live"
        BY <3>1 DEF DaysWithout, DayRows, OpenInv, ReferencesHold
      <4> QED
        BY <2>1, <4>1, <4>2 DEF ReferencesHold, inventoryVars
    <3> QED
      BY <1>1, <2>2, <3>2, <3>3, <3>4 DEF OpenInv
  <2>5. ASSUME NEW r \in Requests, CommitUpdate(r)
        PROVE  OpenInv'
    <3> DEFINE q == requests[r]
               b == q.booking
               row == Written(q.dto, bookings[b])
    <3>1. /\ q.plan \in Plan /\ q.dto \in Dto /\ b \in Stored
          /\ bookings[b] \in Row /\ row \in Row
          /\ bookings' = [bookings EXCEPT ![b] = row]
          /\ Stored' = Stored
          /\ bookingDays' = DaysWithout(b) \cup DayRows(b, q.plan)
          /\ units[row.unit] = "live" /\ row.listing = listingOf[row.unit]
          /\ DayRows(b, q.plan) # {} => units[q.plan.unit] = "live"
          /\ Vacant(DayRows(b, q.plan), DaysWithout(b))
      BY <2>5, UpdateEffect
    <3> HIDE DEF q, b, row
    <3>2. FreshIds'
      BY <2>5, <3>1 DEF CommitUpdate, FreshIds, OpenInv, TypeOK, Stored
    <3>3. UniqueDay'
      BY <3>1, VacantKeepsUnique DEF OpenInv
    <3>4. ReferencesHold'
      <4>1. ASSUME NEW c \in Stored'
            PROVE  /\ units[bookings'[c].unit] = "live"
                   /\ listings[listingOf[bookings'[c].unit]] = "live"
                   /\ bookings'[c].listing = listingOf[bookings'[c].unit]
        <5>1. CASE c = b
          <6>1. bookings'[c] = row
            BY <3>1, <5>1 DEF OpenInv, TypeOK, Stored
          <6> QED
            BY <3>1, <6>1 DEF Row, OpenInv, OwnedByTheLiving
        <5>2. CASE c # b
          BY <3>1, <5>2 DEF OpenInv, TypeOK, ReferencesHold, Stored
        <5> QED
          BY <5>1, <5>2
      <4>2. ASSUME NEW d \in bookingDays'
            PROVE  d.booking \in Stored' /\ units[d.unit] = "live"
        BY <3>1 DEF DaysWithout, DayRows, OpenInv, ReferencesHold
      <4> QED
        BY <2>1, <4>1, <4>2 DEF ReferencesHold, inventoryVars
    <3> QED
      BY <1>1, <2>2, <3>2, <3>3, <3>4 DEF OpenInv
  <2>6. ASSUME NEW r \in Requests, CommitRemove(r)
        PROVE  OpenInv'
    <3> DEFINE b == requests[r].booking
    <3>1. /\ b \in Stored
          /\ bookings' = [bookings EXCEPT ![b] = Null]
          /\ Stored' = Stored \ {b}
          /\ bookingDays' = DaysWithout(b)
      BY <2>6, RemoveEffect
    <3> HIDE DEF b
    <3>2. FreshIds' /\ UniqueDay'
      BY <2>6, <3>1
      DEF CommitRemove, FreshIds, UniqueDay, DaysWithout, OpenInv, TypeOK
    <3>3. ReferencesHold'
      BY <2>1, <3>1
      DEF ReferencesHold, DaysWithout, OpenInv, TypeOK, Stored, inventoryVars
    <3> QED
      BY <1>1, <2>2, <3>2, <3>3 DEF OpenInv
  <2> QED
    BY <1>2, <2>3, <2>4, <2>5, <2>6 DEF GuestStep, Quiet
<1>3. CASE HostStep
  <2>1. AnyOwnerStep
    BY <1>3 DEF HostStep, AnyOwnerStep, DeleteUnit, DeleteListing
  <2>2. OwnedByTheLiving'
    BY <2>1, OwnersKeep DEF OpenInv, TypeOK
  <2>3. \A b \in Stored : /\ bookings[b] \in Row
                          /\ bookings[b].unit \in Units
                          /\ listingOf[bookings[b].unit] \in Listings
    BY InventoryAssumption DEF OpenInv, TypeOK, Stored, Row
  <2>4. \A d \in bookingDays : d.unit \in Units
    BY DEF OpenInv, TypeOK, Day
  <2>5. CASE OwnerStep /\ UNCHANGED bookingVars
    <3>1. FreshIds' /\ UniqueDay'
      BY <2>5 DEF OpenInv, FreshIds, UniqueDay, bookingVars
    <3>2. ReferencesHold'
      BY <2>3, <2>4, <2>5, OwnersCloseNothing
      DEF OpenInv, TypeOK, ReferencesHold, Stored, bookingVars
    <3> QED
      BY <1>1, <2>2, <3>1, <3>2 DEF OpenInv
  <2>6. ASSUME NEW o \in Users, NEW u \in Units, DeleteUnit(o, u)
        PROVE  OpenInv'
    <3>1. FreshIds' /\ UniqueDay'
      BY <2>6 DEF DeleteUnit, OpenInv, FreshIds, UniqueDay
    <3>2. ReferencesHold'
      BY <2>3, <2>4, <2>6
      DEF DeleteUnit, RemoveUnit, Unbooked, OpenInv, TypeOK, InventoryTypeOK,
          ReferencesHold, Stored
    <3> QED
      BY <1>1, <2>2, <3>1, <3>2 DEF OpenInv
  <2>7. ASSUME NEW o \in Users, NEW l \in Listings, DeleteListing(o, l)
        PROVE  OpenInv'
    <3>1. bookings' = bookings /\ Stored' = Stored
      BY <2>7, DeleteListingEffect
    <3>2. FreshIds' /\ UniqueDay'
      BY <2>7, <3>1 DEF DeleteListing, OpenInv, FreshIds, UniqueDay
    <3>3. \A b \in Stored : listingOf[bookings[b].unit] # l
      BY <2>3, <2>7 DEF DeleteListing, Unbooked, UnitsOf
    <3>4. ReferencesHold'
      BY <2>3, <2>4, <2>7, <3>1, <3>3
      DEF DeleteListing, RemoveListing, OpenInv, TypeOK, InventoryTypeOK,
          ReferencesHold
    <3> QED
      BY <1>1, <2>2, <3>2, <3>4 DEF OpenInv
  <2> QED
    BY <1>3, <2>5, <2>6, <2>7 DEF HostStep
<1>4. CASE UNCHANGED vars
  BY <1>1, <1>4
  DEF OpenInv, OwnedByTheLiving, FreshIds, ReferencesHold, UniqueDay, Stored,
      vars, inventoryVars, bookingVars
<1> QED
  BY <1>2, <1>3, <1>4 DEF Next

\* Whatever the requests, their interleaving and their failures: the state is
\* well typed, children do not outlive parents, the references hold and no
\* night of a unit has two day rows.
THEOREM OpenInvariant == Spec => []OpenInv
<1>1. Init => OpenInv
  BY OpenInit
<1>2. OpenInv /\ [Next]_vars => OpenInv'
  BY OpenStep
<1> QED
  BY <1>1, <1>2, PTL DEF Spec

\* Each table holds rows of its type, and each request what its operation
\* carries.
THEOREM TypeCorrect == Spec => []TypeOK
<1>1. OpenInv => TypeOK
  BY DEF OpenInv
<1> QED
  BY <1>1, OpenInvariant, PTL

\* Restrict, Cascade and SetNull keep bookings, days, units and listings
\* consistent whatever owners delete and guests write.
THEOREM ReferencesAreSafe == Spec => []ReferencesHold
<1>1. OpenInv => ReferencesHold
  BY DEF OpenInv
<1> QED
  BY <1>1, OpenInvariant, PTL

\* A live unit has a live listing and a calendar row a live unit, whatever
\* owners create, move and delete and whoever books meanwhile.
THEOREM NoneOutlivesItsOwner == Spec => []OwnedByTheLiving
<1>1. OpenInv => OwnedByTheLiving
  BY DEF OpenInv
<1> QED
  BY <1>1, OpenInvariant, PTL

-----------------------------------------------------------------------------
(* What holds when no booking has two updates in flight together.          *)

\* The inductive invariant: the plan of an update is fresh as long as the
\* booking is there, so the days that its commit rebuilds are the days of the
\* row that it writes.
TurnInv == OpenInv /\ UpdatesAreFresh /\ DaysMatchBooking /\ StayIsNonEmpty

\* The days of a booking that is written are its plan's; other bookings keep
\* theirs.
LEMMA DaysAfterWrite ==
  ASSUME NEW b, NEW p, bookingDays' = DaysWithout(b) \cup DayRows(b, p)
  PROVE  /\ {d \in bookingDays' : d.booking = b} = DayRows(b, p)
         /\ \A c : c # b => {d \in bookingDays' : d.booking = c} =
                            {d \in bookingDays : d.booking = c}
BY DEF DaysWithout, DayRows

\* At the start there is nothing to be stale.
LEMMA TurnInit == Init => TurnInv
BY OpenInit
DEF Init, TurnInv, UpdatesAreFresh, DaysMatchBooking, StayIsNonEmpty, Stored

\* A write of one request leaves the plans of the others fresh: no other
\* update is of the row that it writes, or the row is gone.
LEMMA OthersStayFresh ==
  ASSUME TurnInv, NEW r \in Requests, NEW b \in BookingIds,
         requests' = [requests EXCEPT ![r] = Null],
         nextId' \in {nextId, nextId + 1},
         \A s \in Requests \ {r} :
           requests[s] # Null /\ requests[s].op = "update"
             => requests[s].booking # b \/ b \notin Stored',
         \A c \in BookingIds \ {b} : bookings'[c] = bookings[c]
  PROVE  UpdatesAreFresh'
<1>1. nextId \in Int
  BY BookingAssumption DEF TurnInv, OpenInv, TypeOK
<1>2. ASSUME NEW s \in Requests, requests'[s] # Null
      PROVE  /\ s # r /\ requests'[s] = requests[s]
             /\ requests[s].op = "update" /\ requests[s].booking \in Stored' =>
                  /\ requests[s].booking \in Stored
                  /\ bookings'[requests[s].booking] =
                       bookings[requests[s].booking]
             /\ requests[s].op = "update" => requests[s].booking \in Int
  <2>1. s # r /\ requests'[s] = requests[s]
    BY <1>2 DEF TurnInv, OpenInv, TypeOK
  <2>2. requests[s].op = "update" => requests[s].booking \in BookingIds
    BY <1>2, <2>1, RequestParts DEF TurnInv, OpenInv
  <2> QED
    BY <1>2, <2>1, <2>2 DEF Stored, BookingIds
<1>3. \A s \in Requests : requests'[s] # Null =>
        /\ requests[s] # Null
        /\ requests[s].op = "update" =>
             requests[s].booking < nextId /\ requests[s].booking < nextId'
  BY <1>1, <1>2 DEF TurnInv, UpdatesAreFresh
<1> QED
  BY <1>2, <1>3 DEF TurnInv, UpdatesAreFresh

\* The steps of a request that write no table.
LEMMA QuietStaysFresh ==
  ASSUME TurnInv, Quiet
  PROVE  UpdatesAreFresh'
<1>1. UNCHANGED tables
  BY QuietIsQuiet
<1>2. Stored' = Stored /\ bookings' = bookings /\ nextId' = nextId
  BY <1>1 DEF tables, Stored
<1>3. CASE Crash
  BY <1>3 DEF Crash, UpdatesAreFresh
<1>4. ASSUME NEW r \in Requests, NEW q,
             requests' = [requests EXCEPT ![r] = q],
             q # Null =>
               /\ q.op = "update" =>
                    /\ q.booking < nextId
                    /\ q.booking \in Stored =>
                         q.plan = PlanOfUpdate(q.dto, bookings[q.booking])
               /\ q.op # "remove" /\ q.step # "unit" =>
                    q.plan.checkIn < q.plan.checkOut
      PROVE  UpdatesAreFresh'
  BY <1>2, <1>4 DEF TurnInv, OpenInv, TypeOK, UpdatesAreFresh
<1>5. ASSUME NEW r \in Requests, BeginCreate(r)
      PROVE  UpdatesAreFresh'
  <2>1. PICK dto \in CreateDtos :
          Start(r, "create", "unit", Null, dto, PlanOfCreate(dto))
    BY <1>5 DEF BeginCreate
  <2> QED
    BY <1>4, <2>1 DEF Start
<1>6. ASSUME NEW r \in Requests, BeginUpdate(r)
      PROVE  UpdatesAreFresh'
  <2>1. PICK b \in BookingIds, dto \in UpdateDtos :
          /\ Finds(r, b)
          /\ Start(r, "update", "unit", b, dto, PlanOfUpdate(dto, bookings[b]))
    BY <1>6 DEF BeginUpdate
  <2>2. b < nextId
    BY <2>1, BookingAssumption
    DEF Finds, Stored, TurnInv, OpenInv, TypeOK, FreshIds, BookingIds
  <2> QED
    BY <1>4, <2>1, <2>2 DEF Start
<1>7. ASSUME NEW r \in Requests, BeginRemove(r)
      PROVE  UpdatesAreFresh'
  <2>1. PICK b \in BookingIds :
          Finds(r, b) /\ Start(r, "remove", "tx", b, NoDto, Null)
    BY <1>7 DEF BeginRemove
  <2> QED
    BY <1>4, <2>1 DEF Start
<1>8. ASSUME NEW r \in Requests, NEW step, requests[r] # Null,
             requests' = [requests EXCEPT ![r].step = step],
             requests[r].op # "remove" =>
               requests[r].plan.checkIn < requests[r].plan.checkOut
      PROVE  UpdatesAreFresh'
  <2> DEFINE q == [requests[r] EXCEPT !.step = step]
  <2>1. requests' = [requests EXCEPT ![r] = q]
    BY <1>8 DEF TurnInv, OpenInv, TypeOK
  <2>2. requests[r] \in Request
    BY <1>8, RequestParts DEF TurnInv, OpenInv
  <2>3. /\ q.op = requests[r].op /\ q.booking = requests[r].booking
        /\ q.dto = requests[r].dto /\ q.plan = requests[r].plan
    BY <2>2 DEF Request
  <2>4. q.op = "update" =>
          /\ q.booking < nextId
          /\ q.booking \in Stored =>
               q.plan = PlanOfUpdate(q.dto, bookings[q.booking])
    BY <1>8, <2>3 DEF TurnInv, UpdatesAreFresh
  <2>5. q.op # "remove" => q.plan.checkIn < q.plan.checkOut
    BY <1>8, <2>3
  <2> HIDE DEF q
  <2> QED
    BY <1>4, <2>1, <2>4, <2>5
<1>9. ASSUME NEW r \in Requests, ReadUnit(r)
      PROVE  UpdatesAreFresh'
  BY <1>8, <1>9 DEF ReadUnit, At, GoOn, UnitAccepts
<1>10. ASSUME NEW r \in Requests, CheckCalendar(r)
       PROVE  UpdatesAreFresh'
  BY <1>8, <1>10 DEF CheckCalendar, At, GoOn, TurnInv, UpdatesAreFresh
<1>11. ASSUME NEW r \in Requests, Refuse(r) \/ Abort(r)
       PROVE  UpdatesAreFresh'
  BY <1>4, <1>11 DEF Refuse, Abort, End
<1> QED
  BY <1>3, <1>5, <1>6, <1>7, <1>9, <1>10, <1>11 DEF Quiet

\* A commit that creates: its booking is new, so no update is of it.
LEMMA CreateKeepsTurns ==
  ASSUME TurnInv, NEW r \in Requests, CommitCreate(r)
  PROVE  UpdatesAreFresh' /\ DaysMatchBooking' /\ StayIsNonEmpty'
<1> DEFINE p == requests[r].plan
<1>1. /\ p \in Plan /\ nextId \in BookingIds /\ nextId \notin Stored
      /\ bookings' = [bookings EXCEPT ![nextId] = NewRow(guestOf[r], p)]
      /\ Stored' = Stored \cup {nextId}
      /\ bookingDays' = DaysWithout(nextId) \cup DayRows(nextId, p)
  BY CreateEffect DEF TurnInv
<1>2. /\ requests[r] # Null /\ requests' = [requests EXCEPT ![r] = Null]
      /\ requests[r].op = "create" /\ requests[r].step = "tx"
      /\ nextId' = nextId + 1
  BY DEF CommitCreate, At, End
<1>3. p.checkIn < p.checkOut
  BY <1>2 DEF TurnInv, UpdatesAreFresh
<1>4. bookings'[nextId] = NewRow(guestOf[r], p)
  BY <1>1 DEF TurnInv, OpenInv, TypeOK
<1>5. \A c \in BookingIds \ {nextId} : bookings'[c] = bookings[c]
  BY <1>1 DEF TurnInv, OpenInv, TypeOK
<1>6. UpdatesAreFresh'
  <2>1. \A s \in Requests \ {r} :
          requests[s] # Null /\ requests[s].op = "update"
            => requests[s].booking # nextId \/ nextId \notin Stored'
    BY <1>1 DEF TurnInv, UpdatesAreFresh, BookingIds
  <2>2. nextId' \in {nextId, nextId + 1}
    BY <1>2
  <2> QED
    BY <1>1, <1>2, <1>5, <2>1, <2>2, OthersStayFresh
<1>7. DaysMatchBooking'
  <2>1. DayRows(nextId, bookings'[nextId]) = DayRows(nextId, p)
    BY <1>1, <1>4, NewIsPlanned
  <2> HIDE DEF p
  <2>2. {d \in bookingDays' : d.booking = nextId} = DayRows(nextId, p)
    BY <1>1, DaysAfterWrite
  <2>3. \A c \in Stored : {d \in bookingDays' : d.booking = c} =
                          {d \in bookingDays : d.booking = c}
    BY <1>1, DaysAfterWrite
  <2>4. \A c \in Stored : bookings'[c] = bookings[c]
    BY <1>1, <1>5 DEF Stored
  <2> QED
    BY <1>1, <2>1, <2>2, <2>3, <2>4 DEF TurnInv, DaysMatchBooking
<1>8. StayIsNonEmpty'
  BY <1>1, <1>3, <1>4, <1>5, NewIsPlanned DEF TurnInv, StayIsNonEmpty, Stored
<1> QED
  BY <1>6, <1>7, <1>8

\* A commit that updates: its plan is fresh, and no other update is of the
\* row that it writes.
LEMMA UpdateKeepsTurns ==
  ASSUME TurnInv, UpdatesTakeTurns, NEW r \in Requests, CommitUpdate(r)
  PROVE  UpdatesAreFresh' /\ DaysMatchBooking' /\ StayIsNonEmpty'
<1> DEFINE q == requests[r]
           b == q.booking
           row == Written(q.dto, bookings[b])
<1>1. /\ b \in Stored
      /\ bookings' = [bookings EXCEPT ![b] = row]
      /\ Stored' = Stored
      /\ bookingDays' = DaysWithout(b) \cup DayRows(b, q.plan)
  BY UpdateEffect DEF TurnInv
<1>2. /\ q # Null /\ requests' = [requests EXCEPT ![r] = Null]
      /\ q.op = "update" /\ q.step = "tx" /\ nextId' = nextId
  BY DEF CommitUpdate, At, End
<1>3. /\ q.plan = PlanOfUpdate(q.dto, bookings[b])
      /\ q.plan.checkIn < q.plan.checkOut
  BY <1>1, <1>2 DEF TurnInv, UpdatesAreFresh
<1>4. /\ DayRows(b, row) = DayRows(b, q.plan)
      /\ row.checkIn < row.checkOut
  BY <1>3, PlannedIsWritten
<1>5. /\ b \in BookingIds /\ bookings'[b] = row
      /\ \A c \in BookingIds \ {b} : bookings'[c] = bookings[c]
  BY <1>1 DEF TurnInv, OpenInv, TypeOK, Stored
<1>6. UpdatesAreFresh'
  <2>1. \A s \in Requests \ {r} :
          requests[s] # Null /\ requests[s].op = "update"
            => requests[s].booking # b \/ b \notin Stored'
    BY <1>2 DEF UpdatesTakeTurns
  <2>2. nextId' \in {nextId, nextId + 1}
    BY <1>2
  <2> HIDE DEF q, b, row
  <2> QED
    BY <1>2, <1>5, <2>1, <2>2, OthersStayFresh
<1> HIDE DEF q, b, row
<1>7. DaysMatchBooking'
  BY <1>1, <1>4, <1>5, DaysAfterWrite DEF TurnInv, DaysMatchBooking, Stored
<1>8. StayIsNonEmpty'
  BY <1>1, <1>4, <1>5 DEF TurnInv, StayIsNonEmpty, Stored
<1> QED
  BY <1>6, <1>7, <1>8

\* A commit that removes: an update of its booking finds no row any more.
LEMMA RemoveKeepsTurns ==
  ASSUME TurnInv, NEW r \in Requests, CommitRemove(r)
  PROVE  UpdatesAreFresh' /\ DaysMatchBooking' /\ StayIsNonEmpty'
<1> DEFINE b == requests[r].booking
<1>1. /\ b \in Stored
      /\ bookings' = [bookings EXCEPT ![b] = Null]
      /\ Stored' = Stored \ {b}
      /\ bookingDays' = DaysWithout(b)
  BY RemoveEffect DEF TurnInv
<1>2. requests' = [requests EXCEPT ![r] = Null] /\ nextId' = nextId
  BY DEF CommitRemove, End
<1>3. /\ b \in BookingIds
      /\ \A c \in BookingIds \ {b} : bookings'[c] = bookings[c]
  BY <1>1 DEF TurnInv, OpenInv, TypeOK, Stored
<1>4. UpdatesAreFresh'
  BY <1>1, <1>2, <1>3, OthersStayFresh
<1>5. \A c \in Stored' : {d \in bookingDays' : d.booking = c} =
                         {d \in bookingDays : d.booking = c}
  BY <1>1 DEF DaysWithout
<1>6. DaysMatchBooking'
  BY <1>1, <1>3, <1>5 DEF TurnInv, DaysMatchBooking, Stored
<1>7. StayIsNonEmpty'
  BY <1>1, <1>3 DEF TurnInv, StayIsNonEmpty, Stored
<1> QED
  BY <1>4, <1>6, <1>7

\* The owners leave the bookings, their days and the requests as they are.
LEMMA OwnersLeaveBookings ==
  ASSUME OpenInv, DaysMatchBooking, HostStep
  PROVE  UNCHANGED <<bookings, bookingDays, nextId, requests>>
<1>1. requests' = requests /\ nextId' = nextId
  BY DEF HostStep, bookingVars, DeleteUnit, DeleteListing
<1>2. bookings' = bookings
  BY DeleteListingEffect DEF HostStep, bookingVars, DeleteUnit
<1>3. \A d \in bookingDays : /\ d.booking \in Stored
                            /\ d.unit = bookings[d.booking].unit
                            /\ d.unit \in Units
  BY DEF OpenInv, TypeOK, Day, ReferencesHold, DaysMatchBooking, DayRows
<1>4. ASSUME NEW o \in Users, NEW u \in Units, DeleteUnit(o, u)
      PROVE  bookingDays' = bookingDays
  BY <1>3, <1>4 DEF DeleteUnit, Unbooked
<1>5. ASSUME NEW o \in Users, NEW l \in Listings, DeleteListing(o, l)
      PROVE  bookingDays' = bookingDays
  BY <1>3, <1>5 DEF DeleteListing, Unbooked, UnitsOf
<1> QED
  BY <1>1, <1>2, <1>4, <1>5 DEF HostStep, bookingVars

\* What leaves the bookings, their days and the requests keeps the rest.
LEMMA LeavingKeepsTurns ==
  ASSUME TurnInv, UNCHANGED <<bookings, bookingDays, nextId, requests>>
  PROVE  UpdatesAreFresh' /\ DaysMatchBooking' /\ StayIsNonEmpty'
BY DEF TurnInv, UpdatesAreFresh, DaysMatchBooking, StayIsNonEmpty, Stored

\* While updates take turns no step makes a plan stale, a day row wrong or a
\* stay empty.
LEMMA TurnStep ==
  ASSUME UpdatesTakeTurns, TurnInv, [Next]_vars
  PROVE  TurnInv'
<1>1. OpenInv'
  BY OpenStep DEF TurnInv
<1>2. CASE Quiet
  <2>1. UNCHANGED tables
    BY <1>2, QuietIsQuiet
  <2>2. DaysMatchBooking' /\ StayIsNonEmpty'
    BY <2>1 DEF TurnInv, DaysMatchBooking, StayIsNonEmpty, Stored, tables
  <2> QED
    BY <1>1, <1>2, <2>2, QuietStaysFresh DEF TurnInv
<1>3. ASSUME NEW r \in Requests, CommitCreate(r)
      PROVE  TurnInv'
  BY <1>1, <1>3, CreateKeepsTurns DEF TurnInv
<1>4. ASSUME NEW r \in Requests, CommitUpdate(r)
      PROVE  TurnInv'
  BY <1>1, <1>4, UpdateKeepsTurns DEF TurnInv
<1>5. ASSUME NEW r \in Requests, CommitRemove(r)
      PROVE  TurnInv'
  BY <1>1, <1>5, RemoveKeepsTurns DEF TurnInv
<1>6. CASE HostStep
  BY <1>1, <1>6, OwnersLeaveBookings, LeavingKeepsTurns DEF TurnInv
<1>7. CASE UNCHANGED vars
  BY <1>1, <1>7, LeavingKeepsTurns DEF TurnInv, vars, bookingVars
<1> QED
  BY <1>2, <1>3, <1>4, <1>5, <1>6, <1>7 DEF Next, GuestStep, Quiet

\* Two active stays that share a night of a unit would share a day row.
LEMMA NoNightTwice == TurnInv => NoDoubleBooking
<1> SUFFICES ASSUME TurnInv PROVE NoDoubleBooking
  OBVIOUS
<1>0. \A d \in Stored : /\ bookings[d] \in Row
                       /\ bookings[d].checkIn \in Int
                       /\ bookings[d].checkOut \in Int
  <2>1. \A d \in Stored : bookings[d] \in Row
    BY DEF TurnInv, OpenInv, TypeOK, Stored
  <2> QED
    BY <2>1, InventoryAssumption DEF Row, Dates
<1> SUFFICES ASSUME NEW b \in Stored, NEW c \in Stored, b # c,
                    Occupies(bookings[b].status), Occupies(bookings[c].status),
                    bookings[b].unit = bookings[c].unit,
                    bookings[b].checkIn < bookings[c].checkOut,
                    bookings[c].checkIn < bookings[b].checkOut
             PROVE  FALSE
  BY <1>0 DEF NoDoubleBooking
<1> DEFINE n == IF bookings[b].checkIn < bookings[c].checkIn
                THEN bookings[c].checkIn ELSE bookings[b].checkIn
           u == bookings[b].unit
<1>2. /\ n \in StayDates(bookings[b].checkIn, bookings[b].checkOut)
      /\ n \in StayDates(bookings[c].checkIn, bookings[c].checkOut)
  BY <1>0, InventoryAssumption
  DEF TurnInv, StayIsNonEmpty, StayDates, Row, Dates
<1> HIDE DEF n
<1>3. /\ [booking |-> b, unit |-> u, date |-> n] \in DayRows(b, bookings[b])
      /\ [booking |-> c, unit |-> u, date |-> n] \in DayRows(c, bookings[c])
  BY <1>2 DEF DayRows
<1>4. /\ [booking |-> b, unit |-> u, date |-> n] \in bookingDays
      /\ [booking |-> c, unit |-> u, date |-> n] \in bookingDays
  BY <1>3 DEF TurnInv, DaysMatchBooking
<1>5. [booking |-> b, unit |-> u, date |-> n] =
        [booking |-> c, unit |-> u, date |-> n]
  BY <1>4 DEF TurnInv, OpenInv, UniqueDay
<1> QED
  BY <1>5

\* Where no booking has two updates in flight together, none is lost, also
\* when one guest has several requests in flight: this is all that the two
\* races of updates need.
THEOREM TurnInvariant == Spec /\ []UpdatesTakeTurns => []TurnInv
<1>1. Init => TurnInv
  BY TurnInit
<1>2. UpdatesTakeTurns /\ TurnInv /\ [Next]_vars => TurnInv'
  BY TurnStep
<1> QED
  BY <1>1, <1>2, PTL DEF Spec

\* No update that takes its turn is lost.
THEOREM UpdatesStayFresh == Spec /\ []UpdatesTakeTurns => []UpdatesAreFresh
<1>1. TurnInv => UpdatesAreFresh
  BY DEF TurnInv
<1> QED
  BY <1>1, TurnInvariant, PTL

\* The BookingDay rows are then exactly the nights of the active bookings.
THEOREM TurnsKeepDays == Spec /\ []UpdatesTakeTurns => []DaysMatchBooking
<1>1. TurnInv => DaysMatchBooking
  BY DEF TurnInv
<1> QED
  BY <1>1, TurnInvariant, PTL

\* No night of a unit is then sold to two active bookings.
THEOREM TurnsNeverDoubleBook ==
  Spec /\ []UpdatesTakeTurns => []NoDoubleBooking
BY NoNightTwice, TurnInvariant, PTL

-----------------------------------------------------------------------------
(* The capacity, while no owner changes that of a unit that is there.      *)

CapacitiesStand ==
  [][\A u \in Units : units[u] = "live" => capacity'[u] = capacity[u]]_vars

\* A plan past its first check fits the unit that was read.
PlansFit ==
  \A r \in Requests :
    requests[r] # Null /\ requests[r].op # "remove" /\ requests[r].step # "unit"
      => LET p == requests[r].plan
         IN  units[p.unit] # "unborn" /\ p.guestsCount <= capacity[p.unit]

FitInv == GuestsFit /\ PlansFit

\* Neither is a unit born twice nor its capacity changed.
LEMMA CapacityStands ==
  ASSUME TypeOK, [Next]_vars,
         \A u \in Units : units[u] = "live" => capacity'[u] = capacity[u]
  PROVE  \A u \in Units : units[u] # "unborn" =>
           units'[u] # "unborn" /\ capacity'[u] = capacity[u]
<1>1. CASE GuestStep
  BY <1>1, GuestsLeaveInventory DEF inventoryVars
<1>2. CASE HostStep
  <2>1. ASSUME NEW o \in Users, NEW u \in Units, NEW c \in Capacities,
               CreateUnit(o, u, c)
        PROVE  \A x \in Units : units[x] # "unborn" =>
                 units'[x] # "unborn" /\ capacity'[x] = capacity[x]
    BY <2>1 DEF CreateUnit, TypeOK, InventoryTypeOK
  <2>2. ASSUME NEW o \in Users, NEW u \in Units, NEW c \in Capacities,
               UpdateUnit(o, u, c)
        PROVE  \A x \in Units : units[x] # "unborn" =>
                 units'[x] # "unborn" /\ capacity'[x] = capacity[x]
    BY <2>2 DEF UpdateUnit, OwnsUnit, TypeOK, InventoryTypeOK
  <2>3. ASSUME NEW o \in Users, NEW u \in Units, DeleteUnit(o, u)
        PROVE  \A x \in Units : units[x] # "unborn" =>
                 units'[x] # "unborn" /\ capacity'[x] = capacity[x]
    BY <2>3 DEF DeleteUnit, RemoveUnit, TypeOK, InventoryTypeOK
  <2>4. ASSUME NEW o \in Users, NEW l \in Listings, DeleteListing(o, l)
        PROVE  \A x \in Units : units[x] # "unborn" =>
                 units'[x] # "unborn" /\ capacity'[x] = capacity[x]
    BY <2>4 DEF DeleteListing, RemoveListing, TypeOK, InventoryTypeOK
  <2>5. CASE OwnerStep
    <3>1. \/ \E o \in Users, u \in Units, c \in Capacities :
               CreateUnit(o, u, c) \/ UpdateUnit(o, u, c)
          \/ UNCHANGED <<units, capacity>>
      <4>1. \A o \in Users, l \in Listings :
              CreateListing(o, l) => UNCHANGED <<units, capacity>>
        BY DEF CreateListing
      <4>2. \A o \in Users, u \in Units, d \in Dates : \A s :
              CreateDay(o, u, d, s) => UNCHANGED <<units, capacity>>
        BY DEF CreateDay
      <4>3. \A o \in Users, u \in Units, d \in Dates : \A v, e, s :
              UpdateDay(o, u, d, v, e, s) => UNCHANGED <<units, capacity>>
        BY DEF UpdateDay
      <4>4. \A o \in Users, u \in Units, d \in Dates :
              RemoveDay(o, u, d) => UNCHANGED <<units, capacity>>
        BY DEF RemoveDay
      <4> QED
        BY <2>5, <4>1, <4>2, <4>3, <4>4 DEF OwnerStep
    <3> QED
      BY <2>1, <2>2, <3>1
  <2> QED
    BY <1>2, <2>3, <2>4, <2>5 DEF HostStep
<1>3. CASE UNCHANGED vars
  BY <1>3 DEF vars, inventoryVars
<1> QED
  BY <1>1, <1>2, <1>3 DEF Next

\* A request that goes on, in a step that writes no table.
LEMMA QuietFits ==
  ASSUME TurnInv, FitInv, Quiet
  PROVE  PlansFit'
<1>1. UNCHANGED <<units, capacity>>
  BY GuestsLeaveInventory DEF Quiet, GuestStep, inventoryVars
<1>2. ASSUME NEW r \in Requests, NEW q,
             requests' = [requests EXCEPT ![r] = q],
             q # Null /\ q.op # "remove" /\ q.step # "unit" =>
               /\ units[q.plan.unit] # "unborn"
               /\ q.plan.guestsCount <= capacity[q.plan.unit]
      PROVE  PlansFit'
  BY <1>1, <1>2 DEF TurnInv, OpenInv, TypeOK, FitInv, PlansFit
<1>3. CASE Crash
  BY <1>3 DEF Crash, PlansFit
<1>4. ASSUME NEW r \in Requests, BeginCreate(r) \/ BeginUpdate(r) \/ BeginRemove(r)
      PROVE  PlansFit'
  <2>1. ASSUME NEW op, NEW step, NEW b, NEW dto, NEW p,
               Start(r, op, step, b, dto, p), op = "remove" \/ step = "unit"
        PROVE  PlansFit'
    BY <1>2, <2>1 DEF Start
  <2> QED
    BY <1>4, <2>1 DEF BeginCreate, BeginUpdate, BeginRemove
<1>5. ASSUME NEW r \in Requests, NEW step, requests[r] # Null,
             requests' = [requests EXCEPT ![r].step = step],
             LET p == requests[r].plan
             IN  units[p.unit] # "unborn" /\ p.guestsCount <= capacity[p.unit]
      PROVE  PlansFit'
  <2> DEFINE q == [requests[r] EXCEPT !.step = step]
  <2>1. requests' = [requests EXCEPT ![r] = q]
    BY <1>5 DEF TurnInv, OpenInv, TypeOK
  <2>2. requests[r] \in Request
    BY <1>5, RequestParts DEF TurnInv, OpenInv
  <2>3. q.plan = requests[r].plan
    BY <2>2 DEF Request
  <2> HIDE DEF q
  <2> QED
    BY <1>2, <1>5, <2>1, <2>3
<1>6. ASSUME NEW r \in Requests, ReadUnit(r)
      PROVE  PlansFit'
  BY <1>5, <1>6 DEF ReadUnit, At, GoOn, UnitAccepts
<1>7. ASSUME NEW r \in Requests, CheckCalendar(r)
      PROVE  PlansFit'
  <2>1. requests[r].op # "remove"
    BY <1>7, RequestParts DEF TurnInv, OpenInv, CheckCalendar, At
  <2> QED
    BY <1>5, <1>7, <2>1 DEF CheckCalendar, At, GoOn, FitInv, PlansFit
<1>8. ASSUME NEW r \in Requests, Refuse(r) \/ Abort(r)
      PROVE  PlansFit'
  BY <1>2, <1>8 DEF Refuse, Abort, End
<1> QED
  BY <1>3, <1>4, <1>6, <1>7, <1>8 DEF Quiet

LEMMA FitStep ==
  ASSUME TurnInv, TurnInv', FitInv, [Next]_vars,
         \A u \in Units : units[u] = "live" => capacity'[u] = capacity[u]
  PROVE  FitInv'
<1>1. \A u \in Units : units[u] # "unborn" =>
        units'[u] # "unborn" /\ capacity'[u] = capacity[u]
  BY CapacityStands DEF TurnInv, OpenInv
<1>2. \A b \in Stored : /\ bookings[b] \in Row /\ bookings[b].unit \in Units
                       /\ units[bookings[b].unit] = "live"
  BY DEF TurnInv, OpenInv, TypeOK, ReferencesHold, Stored, Row
<1>3. ASSUME NEW r \in Requests, requests' = [requests EXCEPT ![r] = Null]
      PROVE  PlansFit'
  <2> SUFFICES ASSUME NEW s \in Requests, requests'[s] # Null,
                      requests'[s].op # "remove", requests'[s].step # "unit"
               PROVE  LET p == requests'[s].plan
                      IN  units'[p.unit] # "unborn" /\ p.guestsCount <= capacity'[p.unit]
    BY DEF PlansFit
  <2>1. requests'[s] = requests[s]
    BY <1>3 DEF TurnInv, OpenInv, TypeOK
  <2>2. requests[s].plan \in Plan
    BY <2>1, RequestParts DEF TurnInv, OpenInv
  <2> QED
    BY <1>1, <2>1, <2>2 DEF FitInv, PlansFit, Plan
<1>4. CASE Quiet
  <2>1. UNCHANGED <<units, capacity, bookings>>
    BY <1>4, GuestsLeaveInventory, QuietIsQuiet
    DEF Quiet, GuestStep, inventoryVars, tables
  <2> QED
    BY <1>4, <2>1, QuietFits DEF FitInv, GuestsFit, Stored
<1>5. ASSUME NEW r \in Requests, CommitCreate(r)
      PROVE  FitInv'
  <2> DEFINE p == requests[r].plan
  <2>1. /\ p \in Plan /\ nextId \in BookingIds
        /\ bookings' = [bookings EXCEPT ![nextId] = NewRow(guestOf[r], p)]
        /\ Stored' = Stored \cup {nextId}
    BY <1>5, CreateEffect DEF TurnInv
  <2>2. /\ requests[r] # Null /\ requests' = [requests EXCEPT ![r] = Null]
        /\ requests[r].op = "create" /\ requests[r].step = "tx"
        /\ UNCHANGED capacity
    BY <1>5 DEF CommitCreate, At, End, inventoryVars
  <2>3. p.guestsCount <= capacity[p.unit]
    BY <2>2 DEF FitInv, PlansFit
  <2>4. /\ bookings'[nextId].guestsCount = p.guestsCount
        /\ bookings'[nextId].unit = p.unit
        /\ \A b \in BookingIds \ {nextId} : bookings'[b] = bookings[b]
    BY <2>1 DEF TurnInv, OpenInv, TypeOK, NewRow
  <2> HIDE DEF p
  <2>5. GuestsFit'
    BY <2>1, <2>2, <2>3, <2>4 DEF FitInv, GuestsFit, Stored
  <2> QED
    BY <1>3, <2>2, <2>5 DEF FitInv
<1>6. ASSUME NEW r \in Requests, CommitUpdate(r)
      PROVE  FitInv'
  <2> DEFINE q == requests[r]
             b == q.booking
             row == Written(q.dto, bookings[b])
  <2>1. /\ b \in Stored
        /\ bookings' = [bookings EXCEPT ![b] = row]
        /\ Stored' = Stored
    BY <1>6, UpdateEffect DEF TurnInv
  <2>2. /\ q # Null /\ requests' = [requests EXCEPT ![r] = Null]
        /\ q.op = "update" /\ q.step = "tx"
        /\ UNCHANGED capacity
    BY <1>6 DEF CommitUpdate, At, End, inventoryVars
  <2>3. q.plan = PlanOfUpdate(q.dto, bookings[b])
    BY <2>1, <2>2 DEF TurnInv, UpdatesAreFresh
  <2>4. row.guestsCount = q.plan.guestsCount /\ row.unit = q.plan.unit
    BY <2>3 DEF Written, PlanOfUpdate
  <2>5. row.guestsCount <= capacity[row.unit]
    BY <2>2, <2>4 DEF FitInv, PlansFit
  <2>6. /\ bookings'[b] = row
        /\ \A c \in BookingIds \ {b} : bookings'[c] = bookings[c]
    BY <2>1 DEF TurnInv, OpenInv, TypeOK, Stored
  <2> HIDE DEF q, b, row
  <2>7. GuestsFit'
    BY <2>1, <2>2, <2>5, <2>6 DEF FitInv, GuestsFit, Stored
  <2> QED
    BY <1>3, <2>2, <2>7 DEF FitInv
<1>7. ASSUME NEW r \in Requests, CommitRemove(r)
      PROVE  FitInv'
  <2>1. /\ bookings' = [bookings EXCEPT ![requests[r].booking] = Null]
        /\ Stored' = Stored \ {requests[r].booking}
    BY <1>7, RemoveEffect DEF TurnInv
  <2>2. requests' = [requests EXCEPT ![r] = Null] /\ UNCHANGED capacity
    BY <1>7 DEF CommitRemove, End, inventoryVars
  <2>3. \A c \in Stored' : bookings'[c] = bookings[c]
    BY <2>1 DEF TurnInv, OpenInv, TypeOK, Stored
  <2>4. GuestsFit'
    BY <2>1, <2>2, <2>3 DEF FitInv, GuestsFit
  <2> QED
    BY <1>3, <2>2, <2>4 DEF FitInv
<1>8. ASSUME requests' = requests, bookings' = bookings
      PROVE  FitInv'
  <2>1. ASSUME NEW s \in Requests, requests[s] # Null,
               requests[s].op # "remove"
        PROVE  requests[s].plan \in Plan
    BY <2>1, RequestParts DEF TurnInv, OpenInv
  <2>2. PlansFit'
    BY <1>1, <1>8, <2>1 DEF FitInv, PlansFit, Plan
  <2>3. GuestsFit'
    BY <1>1, <1>2, <1>8 DEF FitInv, GuestsFit, Stored
  <2> QED
    BY <2>2, <2>3 DEF FitInv
<1>9. CASE HostStep
  <2>1. requests' = requests /\ bookings' = bookings
    BY <1>9, DeleteListingEffect
    DEF HostStep, bookingVars, DeleteUnit, DeleteListing, TurnInv
  <2> QED
    BY <1>8, <2>1
<1>10. CASE UNCHANGED vars
  BY <1>8, <1>10 DEF vars, bookingVars
<1> QED
  BY <1>4, <1>5, <1>6, <1>7, <1>9, <1>10 DEF Next, GuestStep, Quiet

\* While updates take turns and the capacities of the units that are there
\* stand, no stored booking has more guests than its unit holds, nor an empty
\* stay, although an update checks a mix of its body and of a row read earlier.
THEOREM TurnsKeepRules ==
  Spec /\ []UpdatesTakeTurns /\ CapacitiesStand => []RulesHold
<1>1. Init => FitInv
  BY DEF Init, FitInv, GuestsFit, PlansFit, Stored
<1>2. /\ TurnInv /\ TurnInv' /\ FitInv /\ [Next]_vars
      /\ [\A u \in Units : units[u] = "live" => capacity'[u] = capacity[u]]_vars
      => FitInv'
  <2> SUFFICES ASSUME TurnInv, TurnInv', FitInv, [Next]_vars,
                 [\A u \in Units : units[u] = "live" => capacity'[u] = capacity[u]]_vars
               PROVE  FitInv'
    OBVIOUS
  <2>1. \A u \in Units : units[u] = "live" => capacity'[u] = capacity[u]
    BY DEF vars, inventoryVars
  <2> QED
    BY <2>1, FitStep
<1>3. TurnInv /\ FitInv => RulesHold
  BY DEF TurnInv, FitInv, RulesHold
<1> QED
  BY <1>1, <1>2, <1>3, TurnInvariant, PTL DEF Spec, CapacitiesStand

-----------------------------------------------------------------------------
(* A guest who waits for each answer, whatever the others do.              *)

\* What an update or a removal has found is its guest's, or gone for good.
Owns(r, q) ==
  q.op # "create" =>
    /\ q.booking < nextId
    /\ q.booking \in Stored => bookings[q.booking].guest = guestOf[r]

FoundOwn == \A r \in {s \in Requests : requests[s] # Null} : Owns(r, requests[r])

\* What PlansAreFresh says of one request.
Fresh(r, q) ==
  /\ q.op # "create" => /\ q.booking \in Stored
                        /\ bookings[q.booking].guest = guestOf[r]
  /\ q.op = "update" => q.plan = PlanOfUpdate(q.dto, bookings[q.booking])
  /\ q.op # "remove" /\ q.step # "unit" => q.plan.checkIn < q.plan.checkOut

\* The inductive invariant: who may touch a booking is its guest, and a guest
\* who waits has one request.
LoneInv == OpenInv /\ FoundOwn /\ PlansAreFresh

LEMMA LoneInit == Init => LoneInv
BY OpenInit DEF Init, LoneInv, FoundOwn, PlansAreFresh

\* A step that ends a request and writes a booking of its guest, or a new one.
LEMMA WriteKeepsLone ==
  ASSUME LoneInv, NEW r \in Requests, NEW b \in BookingIds,
         requests' = [requests EXCEPT ![r] = Null],
         nextId' \in {nextId, nextId + 1},
         \A c \in BookingIds \ {b} : bookings'[c] = bookings[c],
         \/ b = nextId
         \/ /\ bookings[b].guest = guestOf[r] /\ b \in Stored
            /\ b \in Stored' => bookings'[b].guest = bookings[b].guest
  PROVE  FoundOwn' /\ PlansAreFresh'
<1>1. nextId \in Int
  BY BookingAssumption DEF LoneInv, OpenInv, TypeOK
<1>2. ASSUME NEW s \in Requests, requests'[s] # Null
      PROVE  /\ s # r /\ requests'[s] = requests[s] /\ requests[s] # Null
             /\ requests[s].op # "create" =>
                  /\ requests[s].booking \in BookingIds
                  /\ requests[s].booking \in Int
                  /\ requests[s].booking < nextId
  <2>1. s # r /\ requests'[s] = requests[s]
    BY <1>2 DEF LoneInv, OpenInv, TypeOK
  <2>2. requests[s].op # "create" => requests[s].booking \in BookingIds
    BY <1>2, <2>1, RequestParts DEF LoneInv, OpenInv
  <2> QED
    BY <1>2, <2>1, <2>2 DEF LoneInv, FoundOwn, Owns, BookingIds
<1>3. ASSUME NEW s \in Requests, requests'[s] # Null
      PROVE  Owns(s, requests[s])'
  <2>1. SUFFICES ASSUME requests[s].op # "create"
                 PROVE  LET c == requests[s].booking
                        IN  /\ c < nextId'
                            /\ c \in Stored' => bookings'[c].guest = guestOf[s]
    BY <1>2, <1>3 DEF Owns
  <2> DEFINE c == requests[s].booking
  <2>2. c \in BookingIds /\ c < nextId /\ c < nextId'
    BY <1>1, <1>2, <1>3, <2>1
  <2>3. c \in Stored => bookings[c].guest = guestOf[s]
    BY <1>2, <1>3, <2>1 DEF LoneInv, FoundOwn, Owns
  <2>4. c \in Stored' => bookings'[c].guest = guestOf[s]
    <3>1. CASE c # b
      BY <2>2, <2>3, <3>1 DEF Stored
    <3>2. CASE c = b
      BY <1>1, <2>2, <2>3, <3>2, <1>2, <1>3, <2>1
    <3> QED
      BY <3>1, <3>2
  <2> QED
    BY <2>2, <2>4
<1>4. ASSUME NEW s \in Requests, requests'[s] # Null, Lone(s)
      PROVE  Fresh(s, requests[s])'
  <2>1. Fresh(s, requests[s])
    BY <1>2, <1>4 DEF LoneInv, PlansAreFresh, Fresh
  <2>2. requests[s].op # "create" => requests[s].booking # b
    BY <1>1, <1>2, <1>4, <2>1 DEF Fresh, Lone
  <2>3. requests[s].op # "create" =>
          /\ requests[s].booking \in Stored'
          /\ bookings'[requests[s].booking] = bookings[requests[s].booking]
    BY <1>2, <1>4, <2>1, <2>2 DEF Fresh, Stored
  <2>4. requests[s].op \in {"create", "update", "remove"}
    BY <1>2, <1>4, RequestParts DEF LoneInv, OpenInv
  <2> QED
    BY <1>2, <1>4, <2>1, <2>3, <2>4 DEF Fresh
<1> QED
  BY <1>3, <1>4 DEF FoundOwn, PlansAreFresh, Fresh

\* The steps of a request that write no table.
LEMMA QuietKeepsLone ==
  ASSUME LoneInv, Quiet
  PROVE  FoundOwn' /\ PlansAreFresh'
<1>1. Stored' = Stored /\ bookings' = bookings /\ nextId' = nextId
  BY QuietIsQuiet DEF tables, Stored
<1>2. TypeOK
  BY DEF LoneInv, OpenInv
<1>3. ASSUME NEW r \in Requests, requests'[r] # Null,
             requests'[r] = requests[r]
      PROVE  Owns(r, requests'[r]) /\ (Lone(r) => Fresh(r, requests'[r]))
  BY <1>3 DEF LoneInv, FoundOwn, PlansAreFresh, Fresh
<1>4. ASSUME NEW r \in Requests, BeginCreate(r)
      PROVE  Owns(r, requests'[r]) /\ Fresh(r, requests'[r])
  <2>1. PICK dto \in CreateDtos :
          Start(r, "create", "unit", Null, dto, PlanOfCreate(dto))
    BY <1>4 DEF BeginCreate
  <2>2. requests'[r] = [op |-> "create", step |-> "unit", booking |-> Null,
                        dto |-> dto, plan |-> PlanOfCreate(dto)]
    BY <1>2, <2>1 DEF Start, TypeOK
  <2> QED
    BY <2>2 DEF Owns, Fresh
<1>5. ASSUME NEW r \in Requests, BeginUpdate(r)
      PROVE  Owns(r, requests'[r]) /\ Fresh(r, requests'[r])
  <2>1. PICK b \in BookingIds, dto \in UpdateDtos :
          /\ Finds(r, b)
          /\ Start(r, "update", "unit", b, dto, PlanOfUpdate(dto, bookings[b]))
    BY <1>5 DEF BeginUpdate
  <2>2. b < nextId
    BY <2>1, BookingAssumption
    DEF Finds, Stored, LoneInv, OpenInv, TypeOK, FreshIds, BookingIds
  <2>3. requests'[r] = [op |-> "update", step |-> "unit", booking |-> b,
                        dto |-> dto, plan |-> PlanOfUpdate(dto, bookings[b])]
    BY <1>2, <2>1 DEF Start, TypeOK
  <2> QED
    BY <2>1, <2>2, <2>3 DEF Owns, Fresh, Finds
<1>6. ASSUME NEW r \in Requests, BeginRemove(r)
      PROVE  Owns(r, requests'[r]) /\ Fresh(r, requests'[r])
  <2>1. PICK b \in BookingIds :
          Finds(r, b) /\ Start(r, "remove", "tx", b, NoDto, Null)
    BY <1>6 DEF BeginRemove
  <2>2. b < nextId
    BY <2>1, BookingAssumption
    DEF Finds, Stored, LoneInv, OpenInv, TypeOK, FreshIds, BookingIds
  <2>3. requests'[r] = [op |-> "remove", step |-> "tx", booking |-> b,
                        dto |-> NoDto, plan |-> Null]
    BY <1>2, <2>1 DEF Start, TypeOK
  <2> QED
    BY <2>1, <2>2, <2>3 DEF Owns, Fresh, Finds
<1>7. ASSUME NEW r \in Requests, ReadUnit(r) \/ CheckCalendar(r)
      PROVE  Owns(r, requests'[r]) /\ (Lone(r) => Fresh(r, requests'[r]))
  <2> DEFINE q == requests[r]
             s == requests'[r]
  <2>1. q # Null /\ q \in Request
    BY <1>2, <1>7 DEF ReadUnit, CheckCalendar, At, TypeOK
  <2>2. /\ s.op = q.op /\ s.booking = q.booking
        /\ s.dto = q.dto /\ s.plan = q.plan
    BY <1>2, <1>7, <2>1 DEF ReadUnit, CheckCalendar, GoOn, TypeOK, Request
  <2>3. Owns(r, q) /\ (Lone(r) => Fresh(r, q))
    BY <2>1 DEF LoneInv, FoundOwn, PlansAreFresh, Fresh
  <2>4. Lone(r) /\ q.op # "remove" => q.plan.checkIn < q.plan.checkOut
    BY <1>7, <2>3 DEF ReadUnit, CheckCalendar, At, UnitAccepts, Fresh
  <2> HIDE DEF q, s
  <2>5. Owns(r, s)
    BY <2>2, <2>3 DEF Owns
  <2>6. Lone(r) => Fresh(r, s)
    BY <2>2, <2>3, <2>4 DEF Fresh
  <2> QED
    BY <2>5, <2>6 DEF s
<1>8. [Next]_vars
  BY DEF Quiet, Next, GuestStep
<1>9. ASSUME NEW r \in Requests, requests'[r] # Null
      PROVE  Owns(r, requests'[r]) /\ (Lone(r) => Fresh(r, requests'[r]))
  BY <1>2, <1>3, <1>4, <1>5, <1>6, <1>7, <1>8, <1>9, RequestMoves
<1> QED
  BY <1>1, <1>9 DEF FoundOwn, PlansAreFresh, Owns, Fresh

\* A request finds and touches nothing but its guest's bookings.
LEMMA LoneStep ==
  ASSUME LoneInv, [Next]_vars
  PROVE  LoneInv'
<1>1. OpenInv'
  BY OpenStep DEF LoneInv
<1>2. CASE Quiet
  BY <1>1, <1>2, QuietKeepsLone DEF LoneInv
<1>3. ASSUME NEW r \in Requests, CommitCreate(r)
      PROVE  FoundOwn' /\ PlansAreFresh'
  <2>1. /\ nextId \in BookingIds
        /\ \A c \in BookingIds \ {nextId} : bookings'[c] = bookings[c]
    BY <1>3, CreateEffect DEF LoneInv, OpenInv, TypeOK
  <2>2. requests' = [requests EXCEPT ![r] = Null] /\ nextId' = nextId + 1
    BY <1>3 DEF CommitCreate, End
  <2> QED
    BY <2>1, <2>2, WriteKeepsLone
<1>4. ASSUME NEW r \in Requests, CommitUpdate(r) \/ CommitRemove(r)
      PROVE  FoundOwn' /\ PlansAreFresh'
  <2> DEFINE b == requests[r].booking
  <2>1. /\ requests[r] # Null /\ requests[r].op # "create" /\ b \in Stored
        /\ requests' = [requests EXCEPT ![r] = Null] /\ nextId' = nextId
    BY <1>4 DEF CommitUpdate, CommitRemove, CanUpdate, At, End
  <2>2. b \in BookingIds /\ bookings[b].guest = guestOf[r]
    BY <2>1 DEF LoneInv, FoundOwn, Owns, Stored
  <2>3. \A c \in BookingIds \ {b} : bookings'[c] = bookings[c]
    BY <1>4, UpdateEffect, RemoveEffect DEF LoneInv, OpenInv, TypeOK
  <2>4. b \in Stored' => bookings'[b].guest = bookings[b].guest
    <3>1. CASE CommitUpdate(r)
      BY <2>2, <3>1 DEF CommitUpdate, Written, LoneInv, OpenInv, TypeOK
    <3>2. CASE CommitRemove(r)
      BY <3>2, RemoveEffect DEF LoneInv
    <3> QED
      BY <1>4, <3>1, <3>2
  <2> HIDE DEF b
  <2> QED
    BY <2>1, <2>2, <2>3, <2>4, WriteKeepsLone
<1>5. CASE HostStep \/ UNCHANGED vars
  <2>1. requests' = requests /\ nextId' = nextId /\ bookings' = bookings
    <3>1. CASE HostStep
      BY <3>1, DeleteListingEffect
      DEF LoneInv, HostStep, bookingVars, DeleteUnit, DeleteListing
    <3> QED
      BY <1>5, <3>1 DEF vars, bookingVars
  <2> QED
    BY <1>1, <2>1 DEF LoneInv, FoundOwn, PlansAreFresh, Owns, Stored
<1> QED
  BY <1>1, <1>2, <1>3, <1>4, <1>5 DEF LoneInv, Next, GuestStep, Quiet

\* Where every guest waits, two requests that have found one booking are of one
\* guest, so they are one request.
LEMMA LoneTakeTurns ==
  ASSUME OneRequestPerGuest, LoneInv
  PROVE  UpdatesTakeTurns
BY DEF OneRequestPerGuest, LoneInv, PlansAreFresh, Lone, UpdatesTakeTurns

\* A guest who waits for each answer never loses an update and is never told
\* that the booking is gone, however many requests the other guests have in
\* flight and whatever the owners do.
THEOREM PlansStayFresh == Spec => []PlansAreFresh
<1>1. Init => LoneInv
  BY LoneInit
<1>2. LoneInv /\ [Next]_vars => LoneInv'
  BY LoneStep
<1>3. LoneInv => PlansAreFresh
  BY DEF LoneInv
<1> QED
  BY <1>1, <1>2, <1>3, PTL DEF Spec

\* A guest who waits for each answer takes turns with everyone.
THEOREM GuestsTakeTurns ==
  ASSUME OneRequestPerGuest
  PROVE  Spec => []UpdatesTakeTurns
<1>1. Init => LoneInv
  BY LoneInit
<1>2. LoneInv /\ [Next]_vars => LoneInv'
  BY LoneStep
<1>3. LoneInv => UpdatesTakeTurns
  BY LoneTakeTurns
<1> QED
  BY <1>1, <1>2, <1>3, PTL DEF Spec

\* The BookingDay rows are exactly the nights of the active bookings.
THEOREM DaysAlwaysMatch ==
  ASSUME OneRequestPerGuest
  PROVE  Spec => []DaysMatchBooking
BY GuestsTakeTurns, TurnsKeepDays, PTL

\* No night of a unit is sold to two active bookings.
THEOREM NeverDoubleBooked ==
  ASSUME OneRequestPerGuest
  PROVE  Spec => []NoDoubleBooking
BY GuestsTakeTurns, TurnsNeverDoubleBook, PTL

\* checkOut is later than checkIn in every stored booking.
THEOREM StaysAreNonEmpty ==
  ASSUME OneRequestPerGuest
  PROVE  Spec => []StayIsNonEmpty
<1>1. TurnInv => StayIsNonEmpty
  BY DEF TurnInv
<1> QED
  BY <1>1, GuestsTakeTurns, TurnInvariant, PTL

\* While the capacities of the units that are there stand, no stored booking
\* has more guests than its unit holds.
THEOREM GuestsAlwaysFit ==
  ASSUME OneRequestPerGuest
  PROVE  Spec /\ CapacitiesStand => []GuestsFit
<1>1. RulesHold => GuestsFit
  BY DEF RulesHold
<1> QED
  BY <1>1, GuestsTakeTurns, TurnsKeepRules, PTL

-----------------------------------------------------------------------------
(* The BookingDay table implements the ledger.                             *)

\* The slots of day rows for plan p are a stay of the ledger.
Slots(b, p) == {<<d.unit, d.date>> : d \in DayRows(b, p)}

LEMMA SlotsAreAStay ==
  ASSUME NEW b, NEW p \in Plan
  PROVE  Slots(b, p) \in Ledger!Stays
<1>1. CASE DayRows(b, p) = {}
  BY <1>1 DEF Slots, Ledger!Stays
<1>2. CASE DayRows(b, p) # {}
  <2> DEFINE last == p.checkOut - 1
  <2>1. /\ p.unit \in Units /\ p.checkIn \in Dates /\ last \in Dates
        /\ DayRows(b, p) = {[booking |-> b, unit |-> p.unit, date |-> d] :
                              d \in StayDates(p.checkIn, p.checkOut)}
    BY <1>2, InventoryAssumption DEF DayRows, StayDates, Plan, Dates
  <2>2. StayDates(p.checkIn, p.checkOut) =
          {n \in Dates : p.checkIn <= n /\ n <= last}
    BY InventoryAssumption DEF StayDates, Plan, Dates
  <2>3. Slots(b, p) = {p.unit} \X StayDates(p.checkIn, p.checkOut)
    <3>1. ASSUME NEW d \in DayRows(b, p)
          PROVE  <<d.unit, d.date>> \in
                   {p.unit} \X StayDates(p.checkIn, p.checkOut)
      BY <2>1
    <3>2. ASSUME NEW n \in StayDates(p.checkIn, p.checkOut)
          PROVE  <<p.unit, n>> \in Slots(b, p)
      <4> DEFINE d == [booking |-> b, unit |-> p.unit, date |-> n]
      <4>1. d \in DayRows(b, p) /\ <<d.unit, d.date>> = <<p.unit, n>>
        BY <2>1
      <4> QED
        BY <4>1 DEF Slots
    <3> QED
      BY <3>1, <3>2 DEF Slots
  <2> HIDE DEF last
  <2> QED
    BY <2>1, <2>2, <2>3 DEF Ledger!Stays
<1> QED
  BY <1>1, <1>2

\* A write of booking b's days in free slots is one Hold of the ledger.
LEMMA WriteHolds ==
  ASSUME NEW b \in BookingIds, NEW S \in Ledger!Stays,
         \A c \in BookingIds \ {b} : Held(c) \cap S = {},
         HeldNights' = [HeldNights EXCEPT ![b] = S]
  PROVE  Ledger!Next
BY DEF Ledger!Next, Ledger!Hold, HeldNights

LEMMA HeldAfterWrite ==
  ASSUME NEW b \in BookingIds, NEW p,
         bookingDays' = DaysWithout(b) \cup DayRows(b, p),
         Vacant(DayRows(b, p), DaysWithout(b))
  PROVE  /\ HeldNights' = [HeldNights EXCEPT ![b] = Slots(b, p)]
         /\ \A c \in BookingIds \ {b} : Held(c) \cap Slots(b, p) = {}
<1>1. /\ {d \in bookingDays' : d.booking = b} = DayRows(b, p)
      /\ \A c : c # b => {d \in bookingDays' : d.booking = c} =
                         {d \in bookingDays : d.booking = c}
  BY DaysAfterWrite
<1>2. Held(b)' = Slots(b, p)
  BY <1>1 DEF Held, Slots
<1>3. \A c \in BookingIds \ {b} : Held(c)' = Held(c)
  BY <1>1 DEF Held
<1>4. HeldNights' = [HeldNights EXCEPT ![b] = Slots(b, p)]
  BY <1>2, <1>3 DEF HeldNights
<1>5. ASSUME NEW c \in BookingIds \ {b}, NEW slot \in Held(c),
             slot \in Slots(b, p)
      PROVE  FALSE
  <2>1. PICK k \in bookingDays : k.booking = c /\ slot = <<k.unit, k.date>>
    BY <1>5 DEF Held
  <2>2. PICK n \in DayRows(b, p) : slot = <<n.unit, n.date>>
    BY <1>5 DEF Slots
  <2>3. k \in DaysWithout(b)
    BY <2>1 DEF DaysWithout
  <2> QED
    BY <2>1, <2>2, <2>3 DEF Vacant
<1> QED
  BY <1>4, <1>5

\* Closing units takes their nights from whatever booking holds them.
LEMMA ClosingCloses ==
  ASSUME NEW U \in SUBSET Units,
         bookingDays' = {d \in bookingDays : d.unit \notin U}
  PROVE  Ledger!Next
<1>1. \A b \in BookingIds :
        Held(b)' = {slot \in Held(b) : slot[1] \notin U}
  BY DEF Held
<1>2. HeldNights' =
        [b \in BookingIds |-> {slot \in HeldNights[b] : slot[1] \notin U}]
  BY <1>1 DEF HeldNights
<1> QED
  BY <1>2 DEF Ledger!Next, Ledger!Close

\* A booking that goes gives its nights back.
LEMMA RemovalHolds ==
  ASSUME NEW b \in BookingIds, bookingDays' = DaysWithout(b)
  PROVE  Ledger!Next
<1>1. Held(b)' = {}
  BY DEF Held, DaysWithout
<1>2. \A c \in BookingIds \ {b} : Held(c)' = Held(c)
  BY DEF Held, DaysWithout
<1>3. HeldNights' = [HeldNights EXCEPT ![b] = {}]
  BY <1>1, <1>2 DEF HeldNights
<1>4. {} \in Ledger!Stays
  BY DEF Ledger!Stays
<1> QED
  BY <1>3, <1>4, WriteHolds

\* Every step of the API is a step of the ledger or leaves it alone.
LEMMA LedgerStep ==
  ASSUME OpenInv, [Next]_vars
  PROVE  Ledger!Next \/ UNCHANGED HeldNights
<1>1. ASSUME UNCHANGED bookingDays
      PROVE  UNCHANGED HeldNights
  BY <1>1 DEF HeldNights, Held
<1>2. CASE Quiet
  BY <1>1, <1>2, QuietIsQuiet DEF tables
<1>3. ASSUME NEW r \in Requests, CommitCreate(r)
      PROVE  Ledger!Next
  BY <1>3, CreateEffect, HeldAfterWrite, SlotsAreAStay, WriteHolds
<1>4. ASSUME NEW r \in Requests, CommitUpdate(r)
      PROVE  Ledger!Next
  <2> DEFINE b == requests[r].booking
             p == requests[r].plan
  <2>1. /\ b \in BookingIds /\ p \in Plan
        /\ bookingDays' = DaysWithout(b) \cup DayRows(b, p)
        /\ Vacant(DayRows(b, p), DaysWithout(b))
    BY <1>4, UpdateEffect DEF Stored
  <2> QED
    BY <2>1, HeldAfterWrite, SlotsAreAStay, WriteHolds
<1>5. ASSUME NEW r \in Requests, CommitRemove(r)
      PROVE  Ledger!Next
  BY <1>5, RemoveEffect, RemovalHolds DEF Stored
<1>6. ASSUME NEW o \in Users, NEW u \in Units, DeleteUnit(o, u)
      PROVE  Ledger!Next
  <2>1. bookingDays' = {d \in bookingDays : d.unit \notin {u}}
    BY <1>6 DEF DeleteUnit
  <2> QED
    BY <2>1, ClosingCloses
<1>7. ASSUME NEW o \in Users, NEW l \in Listings, DeleteListing(o, l)
      PROVE  Ledger!Next
  <2>1. bookingDays' = {d \in bookingDays : d.unit \notin UnitsOf(l)}
    BY <1>7 DEF DeleteListing, UnitsOf, OpenInv, TypeOK, Day
  <2> QED
    BY <2>1, ClosingCloses DEF UnitsOf
<1> QED
  BY <1>1, <1>2, <1>3, <1>4, <1>5, <1>6, <1>7
  DEF Next, GuestStep, HostStep, Quiet, vars, bookingVars

\* The table keeps the ledger's promise under every interleaving: one stay or
\* nothing for each booking, replaced at once, no slot held twice.
THEOREM LedgerIsImplemented == Spec => ImplementsLedger
<1>1. Init => Ledger!Init
  BY DEF Init, Ledger!Init, HeldNights, Held
<1>2. OpenInv /\ [Next]_vars => [Ledger!Next]_HeldNights
  BY LedgerStep
<1> QED
  BY <1>1, <1>2, OpenInvariant, PTL DEF Spec, ImplementsLedger, Ledger!Spec

\* The ledger's own promises, from its steps alone.  A stay that is closed is
\* closed whole, since it lies in one unit.
LEMMA LedgerPromises ==
  Ledger!Spec => [](Ledger!WholeStays /\ Ledger!Exclusive)
<1> DEFINE Promise == Ledger!WholeStays /\ Ledger!Exclusive
<1>1. Ledger!Init => Promise
  <2> SUFFICES ASSUME Ledger!Init PROVE Promise
    OBVIOUS
  <2>1. \A b \in BookingIds : HeldNights[b] = {}
    BY DEF Ledger!Init
  <2> QED
    BY <2>1 DEF Ledger!WholeStays, Ledger!Exclusive, Ledger!Stays
<1>2. Promise /\ [Ledger!Next]_HeldNights => Promise'
  <2> SUFFICES ASSUME Promise, [Ledger!Next]_HeldNights PROVE Promise'
    OBVIOUS
  <2>1. CASE UNCHANGED HeldNights
    BY <2>1 DEF Ledger!WholeStays, Ledger!Exclusive
  <2>2. ASSUME NEW b \in BookingIds, NEW S \in Ledger!Stays,
               Ledger!Hold(b, S)
        PROVE  Promise'
    <3>1. /\ HeldNights'[b] = S
          /\ \A c \in BookingIds \ {b} : HeldNights'[c] = HeldNights[c]
          /\ \A c \in BookingIds \ {b} : HeldNights[c] \cap S = {}
      BY <2>2 DEF Ledger!Hold, HeldNights
    <3> QED
      BY <3>1 DEF Ledger!WholeStays, Ledger!Exclusive
  <2>3. ASSUME NEW U \in SUBSET Units, Ledger!Close(U)
        PROVE  Promise'
    <3>1. \A b \in BookingIds :
            HeldNights'[b] = {slot \in HeldNights[b] : slot[1] \notin U}
      BY <2>3 DEF Ledger!Close
    <3>2. ASSUME NEW S \in Ledger!Stays
          PROVE  {slot \in S : slot[1] \notin U} \in {{}, S}
      BY <3>2 DEF Ledger!Stays
    <3>3. ASSUME NEW b \in BookingIds
          PROVE  HeldNights'[b] \in Ledger!Stays
      <4>1. HeldNights'[b] \in {{}, HeldNights[b]}
        BY <3>1, <3>2 DEF Ledger!WholeStays
      <4> QED
        BY <4>1 DEF Ledger!WholeStays, Ledger!Stays
    <3>4. ASSUME NEW b \in BookingIds, NEW c \in BookingIds, b # c
          PROVE  HeldNights'[b] \cap HeldNights'[c] = {}
      BY <3>1, <3>4 DEF Ledger!Exclusive
    <3> QED
      BY <3>3, <3>4 DEF Ledger!WholeStays, Ledger!Exclusive
  <2> QED
    BY <2>1, <2>2, <2>3 DEF Ledger!Next
<1> QED
  BY <1>1, <1>2, PTL DEF Ledger!Spec

\* Whatever the interleaving, a booking holds one whole stay or nothing and no
\* night of a unit is held twice: an update that moves a booking never leaves
\* nights of the old stay behind, a unit that goes never takes part of one.
THEOREM StaysAreWholeAndExclusive ==
  Spec => [](Ledger!WholeStays /\ Ledger!Exclusive)
BY LedgerIsImplemented, LedgerPromises, PTL DEF ImplementsLedger

=============================================================================

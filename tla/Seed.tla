-------------------------------- MODULE Seed --------------------------------
(***************************************************************************)
(* prisma/seed: truncate every table, then fill them one transaction after *)
(* another.  It writes past the services, so nothing but its own data and  *)
(* the order of its steps keeps the rules they enforce, and it may stop    *)
(* anywhere and be run again on what it left.                              *)
(***************************************************************************)
EXTENDS SeedData, FiniteSets

CONSTANT Null

\* MUTANT: units before their listings.
OrderUnitsFirst == <<"Role", "User", "Profile", "Token", "Amenity",
           "ListingUnit", "Listing", "UnitCalendarDay", "Booking",
           "BookingDay", "Review">>

\* The steps of `up`, by the table each fills.
Order == <<"Role", "User", "Profile", "Token", "Amenity", "Listing",
           "ListingUnit", "UnitCalendarDay", "Booking", "BookingDay",
           "Review">>

\* createListings connects the amenities too.
RowsOf(t) == IF t = "Listing" THEN {t, "_AmenityToListing"} ELSE {t}

Filled == UNION {RowsOf(Order[k]) : k \in DOMAIN Order}

\* The foreign keys, as pairs of the referring and the referred table.
References ==
  {<<"User", "Role">>, <<"Profile", "User">>, <<"Profile", "File">>,
   <<"Token", "User">>, <<"Listing", "User">>, <<"ListingUnit", "Listing">>,
   <<"UnitCalendarDay", "ListingUnit">>, <<"Booking", "ListingUnit">>,
   <<"Booking", "User">>, <<"Booking", "Listing">>,
   <<"BookingDay", "Booking">>, <<"BookingDay", "ListingUnit">>,
   <<"Review", "Booking">>, <<"Review", "Listing">>, <<"Review", "User">>,
   <<"File", "User">>, <<"ListingFile", "Listing">>, <<"ListingFile", "File">>,
   <<"ReviewFile", "Review">>, <<"ReviewFile", "File">>,
   <<"_AmenityToListing", "Amenity">>, <<"_AmenityToListing", "Listing">>}

\* The keys that may be null, or that the seed leaves null.
Optional == {<<"Profile", "File">>}

Tables == {r[1] : r \in References} \cup {r[2] : r \in References}

VARIABLES
  phase,  \* what the script is doing: "off", "down", "up" or "done"
  left,   \* the tables `down` has still to truncate
  step,   \* the step of `up` that comes next
  tables  \* what each table holds: nothing, its "seed" or other rows

vars == <<phase, left, step, tables>>

Init ==
  /\ phase = "off"
  /\ left = {} /\ step = 1
  /\ tables = [t \in Tables |-> "used"]

-----------------------------------------------------------------------------

ReferringTo(S) == {r[1] : r \in {q \in References : q[2] \in S}}

\* TRUNCATE ... CASCADE empties what refers to the table too, whatever its
\* onDelete; no chain of references is longer than six.
Truncated ==
  LET More(S) == S \cup ReferringTo(S)
  IN  [t \in Tables |-> More(More(More(More(More(More({t}))))))]

\* MUTANT: a table that refers to none is forgotten.
AllButAmenity == Tables \ {"Amenity"}

\* pg_tables, without the migrations.
Listed == Tables

Start ==
  /\ phase \in {"off", "done"}
  /\ phase' = "down"
  /\ left' = Listed
  /\ UNCHANGED <<step, tables>>

\* One pass of the loop of `down`; the order is that of pg_tables.
Truncate ==
  /\ phase = "down"
  /\ \E t \in left :
       /\ left' = left \ {t}
       /\ tables' = [x \in Tables |->
                       IF x \in Truncated[t] THEN "empty" ELSE tables[x]]
  /\ UNCHANGED <<phase, step>>

GoUp ==
  /\ phase = "down" /\ left = {}
  /\ phase' = "up" /\ step' = 1
  /\ UNCHANGED <<left, tables>>

Parents ==
  [t \in Tables |-> {r[2] : r \in {q \in References \ Optional : q[1] = t}}]

\* The steps that find every user, amenity, listing and unit that their data
\* name, and enough profiles; the others throw.
Resolved ==
  LET units == 0 .. Len(unitListings) - 1
      listings == 0 .. Len(listingOwners) - 1
      Names(b) == /\ b.guest \in usernames
                  /\ b.unit \in units /\ b.listing \in listings
  IN
  {t \in Filled :
     CASE t = "Profile" -> Cardinality(usernames) <= profileCount
       [] t = "Listing" ->
            /\ \A o \in DOMAIN listingOwners : listingOwners[o] \in usernames
            /\ \A l \in DOMAIN listingAmenities :
                 listingAmenities[l] \subseteq amenityCodes
       [] t = "ListingUnit" ->
            \A u \in DOMAIN unitListings : unitListings[u] \in listings
       [] t = "UnitCalendarDay" ->
            \A day \in blockedDays \cup pricedDays : day[1] \in units
       [] t = "Booking" -> \A b \in DOMAIN seedBookings : Names(seedBookings[b])
       [] OTHER -> TRUE}

\* The rows refer to rows of the steps before and carry fixed unique values;
\* createAmenities skips the duplicates, after it all the codes are there.
Accepts(t) ==
  /\ t \in Resolved
  /\ \A x \in RowsOf(t) : \A p \in Parents[x] \ {t} :
       tables[p] = "seed" \/ (p = "Amenity" /\ tables[p] # "empty")
  /\ \A x \in RowsOf(t) \ {"Amenity"} : tables[x] = "empty"

Fill ==
  LET t == Order[step]
  IN  /\ phase = "up"
      /\ Accepts(t)
      /\ tables' = [x \in Tables |-> IF x \in RowsOf(t) /\ tables[x] = "empty"
                                     THEN "seed" ELSE tables[x]]
      /\ IF step = Len(Order) THEN phase' = "done" /\ UNCHANGED step
         ELSE step' = step + 1 /\ UNCHANGED phase
      /\ UNCHANGED left

\* A statement is refused or the script is stopped: exit, nothing is undone.
Stop ==
  /\ phase \in {"down", "up"}
  /\ phase' = "off"
  /\ left' = {} /\ step' = 1
  /\ UNCHANGED tables

\* Between two runs the application writes.  Bound: every table it can.
Use ==
  /\ phase \in {"off", "done"}
  /\ phase' = "off" /\ step' = 1
  /\ tables' = [t \in Tables |->
       IF \A p \in Parents[t] : tables[p] # "empty" THEN "used" ELSE tables[t]]
  /\ UNCHANGED left

Next == Start \/ Truncate \/ GoUp \/ Fill \/ Stop \/ Use

Spec == Init /\ [][Next]_vars

-----------------------------------------------------------------------------
(* What the steps insert.                                                  *)

statusesWithBlockedDays == {"PENDING", "CONFIRMED", "COMPLETED"}

\* MUTANT: the day of departure is a night.
WithDeparture(in, out) == {d \in 0 .. LastDay : in <= d /\ d <= out}

\* getStayDates of the seed.
getStayDates(in, out) == {d \in 0 .. LastDay : in <= d /\ d < out}

\* createBookingDays
SeedDays ==
  UNION {{[booking |-> b, unit |-> seedBookings[b].unit, date |-> d] :
            d \in getStayDates(seedBookings[b].checkIn,
                               seedBookings[b].checkOut)} :
           b \in {c \in DOMAIN seedBookings :
                    seedBookings[c].status \in statusesWithBlockedDays}}

\* createUnitCalendarDays
SeedCalendar ==
  [u \in 0 .. 21 |-> [d \in 0 .. LastDay |->
     CASE <<u, d>> \in blockedDays -> "BLOCKED"
       [] <<u, d>> \in pricedDays -> "AVAILABLE"
       [] OTHER -> Null]]

-----------------------------------------------------------------------------

\* A missing row is none of the rows.
ASSUME SeedAssumption == \A b \in DOMAIN seedBookings : seedBookings[b] # Null

\* The database when the seed is done, as Booking sees it.
Seeded == INSTANCE Booking WITH
  Users <- usernames, Listings <- 0 .. 10, Units <- 0 .. 21,
  ownerOf <- [l \in 0 .. 10 |-> listingOwners[l + 1]],
  listingOf <- [u \in 0 .. 21 |-> unitListings[u + 1]],
  LastDate <- LastDay, Capacities <- 1 .. 6, SeedUnits <- {},
  seedCapacity <- [u \in 0 .. 21 |-> 1],
  Requests <- {}, guestOf <- <<>>, MaxBookings <- Len(seedBookings),
  CreateDtos <- {}, UpdateDtos <- {},
  listings <- [l \in 0 .. 10 |-> "live"], units <- [u \in 0 .. 21 |-> "live"],
  capacity <- [u \in 0 .. 21 |-> unitCapacities[u + 1]],
  calendar <- SeedCalendar, bookings <- seedBookings, bookingDays <- SeedDays,
  nextId <- Len(seedBookings) + 1, requests <- <<>>

\* What the seed refers to is there when its step comes, and nothing is in
\* the way of its rows, whatever an earlier run left or an earlier use wrote
\* and in whatever order the tables were truncated.
StepsFindTheirParents ==
  phase = "up" =>
    /\ Accepts(Order[step])
    /\ \A k \in step .. Len(Order) :
         \A x \in RowsOf(Order[k]) : tables[x] = "empty"

\* A run that comes to its end leaves the seed in its tables and nothing else
\* anywhere, although runs before it stopped halfway.
SeededWhenDone ==
  phase = "done" =>
    \A t \in Tables : tables[t] = IF t \in Filled THEN "seed" ELSE "empty"

\* The seed is a state the services could have reached: it keeps the
\* invariants of Booking although it checks none of them (units of the
\* booked listing, capacities, no night taken twice, exact day rows).  It does
\* put active bookings on days that it blocks.
SeedObeysRules ==
  phase = "done" =>
    /\ Seeded!TypeOK
    /\ Seeded!ReferencesHold
    /\ Seeded!UniqueDay
    /\ Seeded!DaysMatchBooking
    /\ Seeded!NoDoubleBooking
    /\ Seeded!RulesHold

=============================================================================

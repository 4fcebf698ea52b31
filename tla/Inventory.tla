----------------------------- MODULE Inventory -----------------------------
(***************************************************************************)
(* The owners' side of the booking API: listings, the units of a listing   *)
(* and the calendar of a unit (ListingsService, ListingUnitsService,       *)
(* UnitCalendarDaysService), with the foreign keys and the unique index of *)
(* their three tables.                                                     *)
(*                                                                         *)
(* Every handler first checks who owns the row and then writes it.  Each   *)
(* is one atomic action here: the owner of a listing and the listing of a  *)
(* unit never change (no DTO carries them), ids are never used again, so   *)
(* the only thing that may happen between the check and the write is that  *)
(* the row is deleted, and then the write fails and changes nothing.       *)
(* Identifiers are fixed in advance: a row is "unborn" until its INSERT    *)
(* and "deleted" for good after its DELETE.                                *)
(***************************************************************************)
EXTENDS Integers, FiniteSets

CONSTANTS
  Users,        \* accounts
  Listings,     \* listing ids
  Units,        \* unit ids
  ownerOf,      \* Listing.ownerId
  listingOf,    \* ListingUnit.listingId
  LastDate,     \* dates are the UTC days 0 .. LastDate
  Capacities,   \* the capacities an owner gives a unit
  SeedUnits,    \* the units that exist, in existing listings, at the start
  seedCapacity, \* the capacity a unit's column holds before it is written
  Null          \* a missing value

Dates == 0 .. LastDate

DayStates == {"AVAILABLE", "BLOCKED"}

Lives == {"unborn", "live", "deleted"}

ASSUME InventoryAssumption ==
  /\ ownerOf \in [Listings -> Users]
  /\ listingOf \in [Units -> Listings]
  /\ LastDate \in Nat
  /\ Capacities \subseteq Nat
  /\ SeedUnits \subseteq Units
  /\ seedCapacity \in [Units -> Capacities]
  /\ Null \notin Listings \cup Units \cup Users \cup DayStates
  /\ Null \notin Int

VARIABLES
  listings,  \* the life of each Listing row
  units,     \* the life of each ListingUnit row
  capacity,  \* ListingUnit.capacity, of a live unit
  calendar   \* UnitCalendarDay by its unique key, the unit and the date: the
             \* state of the row, or Null when the table has no such row

inventoryVars == <<listings, units, capacity, calendar>>

SeedListings == {listingOf[u] : u \in SeedUnits}

\* A unit without calendar rows.
NoDays == [d \in Dates |-> Null]

InventoryInit ==
  /\ listings = [l \in Listings |->
                   IF l \in SeedListings THEN "live" ELSE "unborn"]
  /\ units = [u \in Units |-> IF u \in SeedUnits THEN "live" ELSE "unborn"]
  /\ capacity = seedCapacity
  /\ calendar = [u \in Units |-> NoDays]

InventoryTypeOK ==
  /\ listings \in [Listings -> Lives]
  /\ units \in [Units -> Lives]
  /\ capacity \in [Units -> Capacities]
  /\ calendar \in [Units -> [Dates -> DayStates \cup {Null}]]

-----------------------------------------------------------------------------

UnitsOf(l) == {u \in Units : listingOf[u] = l}

\* MUTANT: an absent field stays absent.
NoDefault(a, b) == a

\* `a ?? b`.
Default(a, b) == IF a = Null THEN b ELSE a

\* ensureOwnership, ensureListingOwnership.
OwnsListing(o, l) == listings[l] = "live" /\ ownerOf[l] = o

\* ensureUnitOwnership.
OwnsUnit(o, u) == units[u] = "live" /\ ownerOf[listingOf[u]] = o

Blocked(u, d) == calendar[u][d] = "BLOCKED"

\* MUTANT: the calendar does not cascade.
CalendarKept(U) == calendar

\* The calendar once the rows of the units in U are gone with their units.
CalendarWithout(U) ==
  [u \in Units |-> IF u \in U THEN NoDays ELSE calendar[u]]

CreateListing(o, l) ==
  /\ listings[l] = "unborn"
  /\ ownerOf[l] = o
  /\ listings' = [listings EXCEPT ![l] = "live"]
  /\ UNCHANGED <<units, capacity, calendar>>

CreateUnit(o, u, c) ==
  /\ units[u] = "unborn"
  /\ OwnsListing(o, listingOf[u])
  /\ units' = [units EXCEPT ![u] = "live"]
  /\ capacity' = [capacity EXCEPT ![u] = c]
  /\ UNCHANGED <<listings, calendar>>

UpdateUnit(o, u, c) ==
  /\ OwnsUnit(o, u)
  /\ capacity' = [capacity EXCEPT ![u] = c]
  /\ UNCHANGED <<listings, units, calendar>>

\* The foreign keys of the calendar cascade; those of the bookings are added
\* where this action is composed with them.
RemoveUnit(o, u) ==
  /\ OwnsUnit(o, u)
  /\ units' = [units EXCEPT ![u] = "deleted"]
  /\ calendar' = CalendarWithout({u})
  /\ UNCHANGED <<listings, capacity>>

RemoveListing(o, l) ==
  /\ OwnsListing(o, l)
  /\ listings' = [listings EXCEPT ![l] = "deleted"]
  /\ units' = [u \in Units |-> IF listingOf[u] = l /\ units[u] = "live"
                                 THEN "deleted" ELSE units[u]]
  /\ calendar' = CalendarWithout(UnitsOf(l))
  /\ UNCHANGED capacity

\* The unique index on (unit, date) refuses a second row for the same day.
CreateDay(o, u, d, state) ==
  /\ OwnsUnit(o, u)
  /\ calendar[u][d] = Null
  /\ calendar' = [calendar EXCEPT ![u][d] = Default(state, "AVAILABLE")]
  /\ UNCHANGED <<listings, units, capacity>>

\* A PATCH may move the row to another date or to another unit of its owner;
\* what it leaves out keeps its value.
UpdateDay(o, u, d, unit, date, state) ==
  LET toUnit == Default(unit, u)
      toDate == Default(date, d)
      moved == [calendar EXCEPT ![u][d] = Null]
  IN  /\ OwnsUnit(o, u)
      /\ OwnsUnit(o, toUnit)
      /\ calendar[u][d] # Null
      /\ moved[toUnit][toDate] = Null
      /\ calendar' = [moved EXCEPT ![toUnit][toDate] =
                                    Default(state, calendar[u][d])]
      /\ UNCHANGED <<listings, units, capacity>>

RemoveDay(o, u, d) ==
  /\ OwnsUnit(o, u)
  /\ calendar[u][d] # Null
  /\ calendar' = [calendar EXCEPT ![u][d] = Null]
  /\ UNCHANGED <<listings, units, capacity>>

\* The handlers that leave the tables of the guests alone.
OwnerStep ==
  \/ \E o \in Users, l \in Listings : CreateListing(o, l)
  \/ \E o \in Users, u \in Units, c \in Capacities :
       CreateUnit(o, u, c) \/ UpdateUnit(o, u, c)
  \/ \E o \in Users, u \in Units, d \in Dates, s \in DayStates \cup {Null} :
       \/ CreateDay(o, u, d, s)
       \/ \E v \in Units \cup {Null}, e \in Dates \cup {Null} :
            UpdateDay(o, u, d, v, e, s)
  \/ \E o \in Users, u \in Units, d \in Dates : RemoveDay(o, u, d)

-----------------------------------------------------------------------------

\* A live unit belongs to a live listing, and only a live unit has calendar
\* rows: what the cascades of `onDelete: Cascade` are for.
OwnedByTheLiving ==
  /\ \A u \in Units : units[u] = "live" => listings[listingOf[u]] = "live"
  /\ \A u \in Units, d \in Dates : calendar[u][d] # Null => units[u] = "live"

=============================================================================

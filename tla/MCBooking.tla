------------------------------ MODULE MCBooking ------------------------------
(***************************************************************************)
(* Instances of Booking for TLC: one owner with two listings of one unit   *)
(* each, and two guests or two requests of one guest.                      *)
(***************************************************************************)
EXTENDS Booking, TLC

CONSTANTS u1, u2, l1, l2, host, ann, bob, r1, r2

MCUsers == {host, ann, bob}
MCUnits == {u1, u2}
MCListings == {l1, l2}
TwoListings == [l \in MCListings |-> host]
UnitPerListing == (u1 :> l1) @@ (u2 :> l2)
SmallUnits == [u \in MCUnits |-> 1]
U2Smaller == (u1 :> 2) @@ (u2 :> 1)
\* Two requests of one guest and one of another.
BusyAnn == [r \in Requests |-> IF r \in {r1, r2} THEN ann ELSE bob]
OneGuest == [r \in {r1} |-> ann]
OneGuestTwice == (r1 :> ann) @@ (r2 :> ann)

Body(u, in, out, n, s) ==
  [unit |-> u, checkIn |-> in, checkOut |-> out, guestsCount |-> n,
   status |-> s]

\* Stays that overlap, that touch, that are cancelled from the start.
SomeCreates ==
  {Body(u1, 0, 2, 2, Null), Body(u1, 1, 2, 1, "CONFIRMED"),
   Body(u2, 0, 1, 1, "CANCELLED")}

\* A status, a unit, a later arrival of more guests, an earlier departure in the
\* first unit: the two last leave no night.
SomeUpdates ==
  {Body(Null, Null, Null, Null, "CANCELLED"),
   Body(Null, Null, Null, Null, "CONFIRMED"),
   Body(u2, Null, Null, Null, Null),
   Body(Null, 1, Null, 2, Null),
   Body(u1, Null, 1, Null, Null)}

\* A stay, a stay that the smaller capacity refuses, an empty stay.
FewCreates ==
  {Body(u1, 0, 2, 1, Null), Body(u1, 1, 2, 2, Null), Body(u1, 1, 1, 1, Null)}

FewUpdates ==
  {Body(Null, Null, Null, Null, "EXPIRED"), Body(u2, Null, Null, Null, Null),
   Body(Null, 1, Null, Null, "COMPLETED")}

\* One PATCH adds a guest, another moves to the smaller unit.
PartyCreates == {Body(u1, 0, 2, 1, Null)}
PartyUpdates ==
  {Body(Null, Null, Null, 2, Null), Body(u2, Null, Null, Null, Null)}

\* The requests of one guest may be exchanged.
AnnsRequests == Permutations({r1, r2})

\* Bound: calendar rows at a time.
OneCalendarRow ==
  Cardinality({k \in Units \X Dates : calendar[k[1]][k[2]] # Null}) <= 1

\* The guests alone, on an inventory that stands.
GuestSpec == Init /\ [][GuestStep]_vars

\* And no booking has two updates in flight.
TurnsSpec == Init /\ [][GuestStep /\ UpdatesTakeTurns']_vars
=============================================================================

-------------------------- MODULE ReservationLedger --------------------------
(***************************************************************************)
(* What the BookingDay table promises: at every moment each booking holds  *)
(* the nights of one stay (consecutive nights of one unit) or none, and no *)
(* night of a unit is held by two bookings.  A booking's nights are        *)
(* replaced all at once, and units that are closed take their nights from  *)
(* every booking.  The ledger knows nothing of requests or transactions.   *)
(***************************************************************************)
EXTENDS Integers

CONSTANTS
  Bookings,  \* booking ids
  Rooms,     \* units
  Nights     \* the nights that can be reserved, a set of integers

VARIABLE ledger  \* the (unit, night) pairs each booking holds

Stays == {{}} \cup
  {{u} \X {n \in Nights : first <= n /\ n <= last} :
     u \in Rooms, first \in Nights, last \in Nights}

Init == ledger = [b \in Bookings |-> {}]

Hold(b, S) ==
  /\ \A c \in Bookings \ {b} : ledger[c] \cap S = {}
  /\ ledger' = [ledger EXCEPT ![b] = S]

Close(U) ==
  ledger' = [b \in Bookings |-> {slot \in ledger[b] : slot[1] \notin U}]

Next ==
  \/ \E b \in Bookings, S \in Stays : Hold(b, S)
  \/ \E U \in SUBSET Rooms : Close(U)

Spec == Init /\ [][Next]_ledger

\* No night of a unit is held by two bookings.
Exclusive == \A b, c \in Bookings : b # c => ledger[b] \cap ledger[c] = {}

\* What a booking holds is consecutive nights of one unit, or nothing: no step
\* leaves half a stay behind.
WholeStays == \A b \in Bookings : ledger[b] \in Stays

=============================================================================

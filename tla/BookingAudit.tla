---------------------------- MODULE BookingAudit ----------------------------
(***************************************************************************)
(* Booking with a history variable: the requests overtaken by an owner,    *)
(* that is, those whose unit has changed its capacity since they read it   *)
(* or whose nights have changed in the calendar since they checked it.     *)
(* The checks are made before the transaction and not in it, so this is    *)
(* the only way past them.                                                 *)
(***************************************************************************)
EXTENDS Booking

VARIABLE overtaken

AuditInit == Init /\ overtaken = {}

\* The owner's step changes what request r has already read.
Overtakes(r) ==
  /\ requests[r] # Null
  /\ requests[r].plan # Null
  /\ LET p == requests[r].plan
     IN  \/ ~At(r, "unit") /\ capacity'[p.unit] # capacity[p.unit]
         \/ At(r, "tx") /\ \E d \in StayDates(p.checkIn, p.checkOut) :
                             calendar'[p.unit][d] # calendar[p.unit][d]

Watch ==
  overtaken' = {r \in Requests : /\ requests'[r] # Null
                                 /\ r \in overtaken \/ Overtakes(r)}

AuditNext == Next /\ Watch

AuditSpec == AuditInit /\ [][AuditNext]_<<vars, overtaken>>

\* The bookings whose columns or days a step writes.
WrittenBookings ==
  {b \in BookingIds : \/ bookings'[b] # bookings[b]
                      \/ {d \in bookingDays' : d.booking = b} # 
                         {d \in bookingDays : d.booking = b}}

Commits(r) == CommitCreate(r) \/ CommitUpdate(r)

\* A request nobody overtook honours the owner's rules when it commits, two
\* awaits after it read them (README: guestsCount must not exceed capacity,
\* the range must not overlap blocked days): what it leaves fits the capacity
\* as it is, and the days it leaves are not blocked.
CommitHonoursOwner ==
  [][\A r \in Requests \ overtaken : Commits(r) =>
       \A b \in WrittenBookings :
         /\ bookings'[b].guestsCount <= capacity[bookings'[b].unit]
         /\ \A d \in bookingDays' : d.booking = b => ~Blocked(d.unit, d.date)
    ]_<<vars, overtaken>>

\* README: for active statuses the date range must not overlap a blocked
\* UnitCalendarDay.  A commit adds no day that is blocked at that moment.
NewDaysAreNotBlocked ==
  [][\A d \in bookingDays' \ bookingDays : ~Blocked(d.unit, d.date)]_vars

=============================================================================

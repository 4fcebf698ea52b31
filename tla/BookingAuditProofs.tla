------------------------- MODULE BookingAuditProofs -------------------------
(***************************************************************************)
(* Theorems about BookingAudit, for all inventories and bodies: where no   *)
(* booking has two updates in flight together, a commit that no owner      *)
(* overtook leaves what the checks before its transaction promised.        *)
(***************************************************************************)
EXTENDS BookingAudit, BookingProofs

-----------------------------------------------------------------------------
(* What a request that nobody overtook still knows.                        *)

\* The nights that the plan occupies.
PlannedNights(p) ==
  IF Occupies(p.status) THEN StayDates(p.checkIn, p.checkOut) ELSE {}

\* The unit it has read holds its guests; the nights it has looked up are not
\* blocked.
ChecksHold ==
  \A r \in Requests \ overtaken :
    LET q == requests[r]
    IN  q # Null /\ q.op # "remove" =>
          /\ q.step # "unit" => q.plan.guestsCount <= capacity[q.plan.unit]
          /\ q.step = "tx" => \A d \in PlannedNights(q.plan) :
                                ~Blocked(q.plan.unit, d)

AuditInv == TurnInv /\ ChecksHold

\* What a request has read stays so, unless an owner changes it, and then
\* the request is one of the overtaken.
LEMMA ChecksStep ==
  ASSUME TypeOK, ChecksHold, [AuditNext]_<<vars, overtaken>>
  PROVE  ChecksHold'
<1> SUFFICES ASSUME NEW r \in Requests, r \notin overtaken',
                    requests'[r] # Null, requests'[r].op # "remove"
             PROVE  LET q == requests'[r]
                    IN  /\ q.step # "unit" =>
                             q.plan.guestsCount <= capacity'[q.plan.unit]
                        /\ q.step = "tx" =>
                             \A d \in PlannedNights(q.plan) :
                               calendar'[q.plan.unit][d] # "BLOCKED"
  BY DEF ChecksHold, Blocked, PlannedNights
<1> DEFINE q == requests[r]
<1>1. CASE UNCHANGED <<vars, overtaken>>
  BY <1>1 DEF vars, bookingVars, inventoryVars, ChecksHold, Blocked
<1>2. CASE Next /\ Watch
  <2>1. r \notin overtaken /\ ~Overtakes(r)
    BY <1>2 DEF Watch
  <2>2. CASE requests'[r] = q
    <3>1. q # Null /\ q \in Request /\ q.op # "remove" /\ q.plan \in Plan
      BY <2>2, RequestParts
    <3>2. /\ q.step # "unit" => capacity'[q.plan.unit] = capacity[q.plan.unit]
          /\ q.step = "tx" =>
               \A d \in StayDates(q.plan.checkIn, q.plan.checkOut) :
                 calendar'[q.plan.unit][d] = calendar[q.plan.unit][d]
      BY <2>1, <3>1, BookingAssumption DEF Overtakes, At
    <3> QED
      BY <2>1, <2>2, <3>1, <3>2 DEF ChecksHold, PlannedNights, Blocked
  <2>3. CASE BeginCreate(r) \/ BeginUpdate(r) \/ BeginRemove(r)
    BY <2>3 DEF BeginCreate, BeginUpdate, BeginRemove, Start, TypeOK
  <2>4. CASE ReadUnit(r)
    <3>1. q \in Request /\ q # Null
      BY <2>4 DEF ReadUnit, At, TypeOK
    <3>2. /\ requests'[r].plan = q.plan
          /\ requests'[r].step = IF Occupies(q.plan.status) THEN "calendar"
                                                           ELSE "tx"
      BY <2>4, <3>1 DEF ReadUnit, GoOn, TypeOK, Request
    <3>3. capacity' = capacity /\ q.plan.guestsCount <= capacity[q.plan.unit]
      BY <2>4 DEF ReadUnit, GoOn, UnitAccepts, inventoryVars
    <3> QED
      BY <3>2, <3>3 DEF PlannedNights
  <2>5. CASE CheckCalendar(r)
    <3>1. q \in Request /\ q # Null /\ q.step = "calendar" /\ q.op # "remove"
      BY <2>5, RequestParts DEF CheckCalendar, At, TypeOK
    <3>2. requests'[r].plan = q.plan
      BY <2>5, <3>1 DEF CheckCalendar, GoOn, TypeOK, Request
    <3>3. /\ UNCHANGED <<capacity, calendar>>
          /\ \A d \in StayDates(q.plan.checkIn, q.plan.checkOut) :
               ~Blocked(q.plan.unit, d)
      BY <2>5 DEF CheckCalendar, GoOn, CalendarAccepts, inventoryVars
    <3>4. q.plan.guestsCount <= capacity[q.plan.unit]
      BY <2>1, <3>1 DEF ChecksHold
    <3> QED
      BY <3>2, <3>3, <3>4 DEF PlannedNights, Blocked
  <2> QED
    BY <1>2, <2>2, <2>3, <2>4, <2>5, RequestMoves
<1> QED
  BY <1>1, <1>2 DEF AuditNext

-----------------------------------------------------------------------------
(* What a commit leaves.                                                   *)

\* A commit that writes booking b and its days from plan p alone, when p was
\* checked.
LEMMA CheckedPlanHonours ==
  ASSUME NEW b \in BookingIds, NEW p,
         bookingDays' = DaysWithout(b) \cup DayRows(b, p),
         \A c \in BookingIds \ {b} : bookings'[c] = bookings[c],
         bookings'[b].unit = p.unit, bookings'[b].guestsCount = p.guestsCount,
         p.guestsCount <= capacity[p.unit],
         \A d \in PlannedNights(p) : ~Blocked(p.unit, d)
  PROVE  \A c \in WrittenBookings :
           /\ bookings'[c].guestsCount <= capacity[bookings'[c].unit]
           /\ \A d \in bookingDays' : d.booking = c => ~Blocked(d.unit, d.date)
<1>1. /\ {d \in bookingDays' : d.booking = b} = DayRows(b, p)
      /\ \A c : c # b => {d \in bookingDays' : d.booking = c} =
                         {d \in bookingDays : d.booking = c}
  BY DaysAfterWrite
<1>2. WrittenBookings \subseteq {b}
  BY <1>1 DEF WrittenBookings
<1>3. \A d \in DayRows(b, p) : ~Blocked(d.unit, d.date)
  BY DEF DayRows, PlannedNights
<1> QED
  BY <1>1, <1>2, <1>3

LEMMA CommitHonours ==
  ASSUME AuditInv, NEW r \in Requests \ overtaken, Commits(r)
  PROVE  \A b \in WrittenBookings :
           /\ bookings'[b].guestsCount <= capacity[bookings'[b].unit]
           /\ \A d \in bookingDays' : d.booking = b => ~Blocked(d.unit, d.date)
<1> DEFINE q == requests[r]
           p == q.plan
<1>1. /\ q # Null /\ q.step = "tx" /\ q.op \in {"create", "update"}
  BY DEF Commits, CommitCreate, CommitUpdate, At
<1>2. /\ p.guestsCount <= capacity[p.unit]
      /\ \A d \in PlannedNights(p) : ~Blocked(p.unit, d)
  BY <1>1 DEF AuditInv, ChecksHold
<1>3. CASE CommitCreate(r)
  <2>1. /\ nextId \in BookingIds
        /\ bookings' = [bookings EXCEPT ![nextId] = NewRow(guestOf[r], p)]
        /\ bookingDays' = DaysWithout(nextId) \cup DayRows(nextId, p)
    BY <1>3, CreateEffect DEF AuditInv, TurnInv
  <2>2. /\ bookings'[nextId] = NewRow(guestOf[r], p)
        /\ \A c \in BookingIds \ {nextId} : bookings'[c] = bookings[c]
    BY <2>1 DEF AuditInv, TurnInv, OpenInv, TypeOK
  <2>3. /\ bookings'[nextId].unit = p.unit
        /\ bookings'[nextId].guestsCount = p.guestsCount
    BY <2>2 DEF NewRow
  <2> HIDE DEF p
  <2> QED
    BY <1>2, <2>1, <2>2, <2>3, CheckedPlanHonours
<1>4. CASE CommitUpdate(r)
  <2> DEFINE b == q.booking
             row == Written(q.dto, bookings[b])
  <2>1. /\ b \in Stored
        /\ bookings' = [bookings EXCEPT ![b] = row]
        /\ bookingDays' = DaysWithout(b) \cup DayRows(b, p)
    BY <1>4, UpdateEffect DEF AuditInv, TurnInv
  <2>2. q.op = "update" /\ p = PlanOfUpdate(q.dto, bookings[b])
    BY <1>1, <1>4, <2>1 DEF CommitUpdate, AuditInv, TurnInv, UpdatesAreFresh
  <2>3. row.unit = p.unit /\ row.guestsCount = p.guestsCount
    BY <2>2 DEF Written, PlanOfUpdate
  <2>4. /\ b \in BookingIds /\ bookings'[b] = row
        /\ \A c \in BookingIds \ {b} : bookings'[c] = bookings[c]
    BY <2>1 DEF AuditInv, TurnInv, OpenInv, TypeOK, Stored
  <2> HIDE DEF p, b, row
  <2> QED
    BY <1>2, <2>1, <2>3, <2>4, CheckedPlanHonours
<1> QED
  BY <1>3, <1>4 DEF Commits

\* While updates take turns, what the checks have found stays so, unless an
\* owner overtakes the request.
THEOREM AuditInvariant == AuditSpec /\ []UpdatesTakeTurns => []AuditInv
<1>1. AuditInit => AuditInv
  BY TurnInit DEF AuditInit, AuditInv, ChecksHold, Init
<1>2. UpdatesTakeTurns /\ AuditInv /\ [AuditNext]_<<vars, overtaken>> => AuditInv'
  <2> SUFFICES ASSUME UpdatesTakeTurns, AuditInv, [AuditNext]_<<vars, overtaken>>
               PROVE  AuditInv'
    OBVIOUS
  <2>1. [Next]_vars
    BY DEF AuditNext
  <2>2. TurnInv'
    BY <2>1, TurnStep DEF AuditInv
  <2>3. ChecksHold'
    BY ChecksStep DEF AuditInv, TurnInv, OpenInv
  <2> QED
    BY <2>2, <2>3 DEF AuditInv
<1> QED
  BY <1>1, <1>2, PTL DEF AuditSpec

\* README: guestsCount must not exceed capacity, the range must not overlap
\* blocked days.  The service checks this outside of the transaction, and
\* still, while updates take turns, both hold of what a commit leaves unless
\* an owner has written the same unit or nights since.
THEOREM CommitsHonourOwners ==
  AuditSpec /\ []UpdatesTakeTurns => CommitHonoursOwner
<1> DEFINE Honoured ==
      \A r \in Requests \ overtaken : Commits(r) =>
        \A b \in WrittenBookings :
          /\ bookings'[b].guestsCount <= capacity[bookings'[b].unit]
          /\ \A d \in bookingDays' : d.booking = b => ~Blocked(d.unit, d.date)
<1>1. AuditInv => Honoured
  BY CommitHonours
<1> QED
  BY <1>1, AuditInvariant, PTL DEF AuditSpec, CommitHonoursOwner

\* So it is when every guest waits for each answer.
THEOREM WaitingGuestsHonourOwners ==
  ASSUME OneRequestPerGuest
  PROVE  AuditSpec => CommitHonoursOwner
<1>1. AuditInit => LoneInv
  BY LoneInit DEF AuditInit
<1>2. LoneInv /\ [AuditNext]_<<vars, overtaken>> => LoneInv'
  BY LoneStep DEF AuditNext
<1>3. LoneInv => UpdatesTakeTurns
  BY LoneTakeTurns
<1> QED
  BY <1>1, <1>2, <1>3, CommitsHonourOwners, PTL DEF AuditSpec

=============================================================================

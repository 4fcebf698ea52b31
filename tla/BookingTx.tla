------------------------------ MODULE BookingTx ------------------------------
(***************************************************************************)
(* Booking with its transactions taken apart: every statement is a step,   *)
(* under the locks and the unique index of PostgreSQL at READ COMMITTED.   *)
(* The tables of Booking are what is committed; what a transaction has     *)
(* written so far follows from its next statement.  A statement that meets *)
(* the lock or the uncommitted index entry of another transaction waits    *)
(* for it to end; waits that form a cycle are found by the database, which *)
(* aborts one of them.  Also here: the error a request is answered with.   *)
(* The sequence gives a booking its id when the row is inserted; it is     *)
(* named here when the row is committed.  The owners' deletions take the   *)
(* locks of their foreign keys; their other writes touch nothing that a    *)
(* transaction reads and are left out.                                     *)
(***************************************************************************)
EXTENDS Booking, Answers

VARIABLES
  tx,     \* the open transaction of each request, or Null
  answer  \* the error that the last step answered a request with, or Null

txVars == <<vars, tx, answer>>

\* The next statement of a transaction that has written its Booking row, and
\* the nights createMany has still to insert.
Transaction == [stmt : {"clear", "days", "commit"}, left : SUBSET Dates]

ASSUME TxAssumption == Null \notin Transaction /\ IsFiniteSet(Requests)

TxInit ==
  /\ Init
  /\ tx = [r \in Requests |-> Null]
  /\ answer = Null

-----------------------------------------------------------------------------
(* What the open transactions hold.                                        *)

InTx(r, stmt) == tx[r] # Null /\ tx[r].stmt = stmt

\* The nights syncBookingDays inserts.
Nights(r) ==
  LET p == requests[r].plan
  IN  IF Occupies(p.status) THEN StayDates(p.checkIn, p.checkOut) ELSE {}

\* The lock on the Booking row an update has written.
HoldsRow(s, b) ==
  tx[s] # Null /\ requests[s].op = "update" /\ requests[s].booking = b

\* The unit that the row statement of a request names, if it names one.
NamedUnits(q) ==
  (IF q.op = "create" THEN {q.plan.unit} ELSE {q.dto.unit}) \ {Null}

\* MUTANT: the foreign keys are checked and not locked.
SharesNone(s) == {}

\* The units whose rows the foreign keys of its statements have locked.
Shares(s) ==
  IF tx[s] = Null THEN {}
  ELSE NamedUnits(requests[s]) \cup
       (IF tx[s].stmt = "commit" /\ Nights(s) # {}
        THEN {requests[s].plan.unit} ELSE {})

\* Index entries it has inserted.
Inserted(s) ==
  IF tx[s] = Null THEN {}
  ELSE {requests[s].plan.unit} \X (Nights(s) \ tx[s].left)

\* Rows it has deleted.
Cleared(s) ==
  IF tx[s] # Null /\ requests[s].op = "update" /\ tx[s].stmt # "clear"
  THEN {d \in bookingDays : d.booking = requests[s].booking} ELSE {}

-----------------------------------------------------------------------------
(* What a statement waits for.                                             *)

\* createMany inserts in the order of the dates.
NextNight(r) ==
  <<requests[r].plan.unit,
    CHOOSE d \in tx[r].left : \A e \in tx[r].left : d <= e>>

Slot(d) == <<d.unit, d.date>>

\* MUTANT: an entry that is not committed counts.
TakenByAny(r) ==
  \/ \E d \in bookingDays \ Cleared(r) : Slot(d) = NextNight(r)
  \/ \E s \in Requests \ {r} : NextNight(r) \in Inserted(s)

\* The index has the next night in a row that is committed and that nobody
\* is deleting.
Taken(r) ==
  \E d \in bookingDays \ UNION {Cleared(s) : s \in Requests} :
    Slot(d) = NextNight(r)

\* MUTANT: an entry that is not committed is not seen.
SeesCommitted(s, r) == FALSE

\* Whether the night is free is known when transaction s ends.
Undecided(s, r) ==
  \/ NextNight(r) \in Inserted(s)
  \/ \E d \in Cleared(s) : Slot(d) = NextNight(r)

Waits(r) ==
  {s \in Requests \ {r} :
     \/ /\ At(r, "tx")
        /\ tx[r] = Null
        /\ requests[r].op # "create"
        /\ HoldsRow(s, requests[r].booking)
     \/ InTx(r, "days") /\ ~Taken(r) /\ Undecided(s, r)}

\* MUTANT: the database does not look for cycles.
NotDeadlocked(r) == FALSE

\* r is on a cycle of waits: in a smallest set whose members all wait inside.
Deadlocked(r) ==
  LET Stuck(S) == S # {} /\ \A s \in S : Waits(s) \cap S # {}
  IN  \E S \in SUBSET Requests :
        r \in S /\ Stuck(S) /\ \A R \in (SUBSET S) \ {S} : ~Stuck(R)

-----------------------------------------------------------------------------
(* The statements.                                                         *)

EndTx(r) == tx' = [tx EXCEPT ![r] = Null]

Silent == answer' = Null

CreatesInFlight ==
  {r \in Requests : requests[r] # Null /\ requests[r].op = "create"}

Begin(r) ==
  /\ \/ BeginCreate(r) /\ nextId + Cardinality(CreatesInFlight) \in BookingIds
     \/ BeginUpdate(r)
     \/ BeginRemove(r)
  /\ UNCHANGED tx /\ Silent

Check(r) == (ReadUnit(r) \/ CheckCalendar(r)) /\ UNCHANGED tx /\ Silent

StatementAfterClear(left) == IF left = {} THEN "commit" ELSE "days"

\* tx.booking.create, tx.booking.update.
WriteRow(r) ==
  LET q == requests[r]
  IN  /\ At(r, "tx")
      /\ q.op # "remove"
      /\ tx[r] = Null
      /\ Waits(r) = {}
      /\ q.op = "update" => q.booking \in Stored
      /\ \A u \in NamedUnits(q) : units[u] = "live"
      /\ tx' = [tx EXCEPT ![r] =
           [stmt |-> IF q.op = "update" THEN "clear"
                     ELSE StatementAfterClear(Nights(r)),
            left |-> Nights(r)]]
      /\ UNCHANGED vars /\ Silent

\* tx.bookingDay.deleteMany.
ClearDays(r) ==
  /\ InTx(r, "clear")
  /\ tx' = [tx EXCEPT ![r].stmt = StatementAfterClear(tx[r].left)]
  /\ UNCHANGED vars /\ Silent

\* The foreign keys of createMany are checked after its last row.
DaysRefer(r) ==
  Cardinality(tx[r].left) = 1 => units[requests[r].plan.unit] = "live"

\* One row of tx.bookingDay.createMany.
InsertDay(r) ==
  LET left == tx[r].left \ {NextNight(r)[2]}
  IN  /\ InTx(r, "days")
      /\ ~Taken(r)
      /\ Waits(r) = {}
      /\ DaysRefer(r)
      /\ tx' = [tx EXCEPT ![r] = [stmt |-> StatementAfterClear(left),
                                  left |-> left]]
      /\ UNCHANGED vars /\ Silent

CommitTx(r) ==
  LET q == requests[r]
      p == q.plan
  IN  /\ InTx(r, "commit")
      /\ \/ /\ q.op = "create"
            /\ bookings' = [bookings EXCEPT ![nextId] = NewRow(guestOf[r], p)]
            /\ bookingDays' = bookingDays \cup DayRows(nextId, p)
            /\ nextId' = nextId + 1
         \/ /\ q.op = "update"
            /\ bookings' = [bookings EXCEPT ![q.booking] =
                              Written(q.dto, bookings[q.booking])]
            /\ bookingDays' = DaysWithout(q.booking) \cup DayRows(q.booking, p)
            /\ UNCHANGED nextId
      /\ End(r)
      /\ EndTx(r)
      /\ UNCHANGED inventoryVars /\ Silent

\* prisma.booking.delete: one statement.
RemoveRow(r) ==
  /\ CommitRemove(r)
  /\ Waits(r) = {}
  /\ UNCHANGED tx /\ Silent

-----------------------------------------------------------------------------
(* The ends without effect.                                                *)

Answer(r, error) ==
  /\ answer' = error
  /\ EndTx(r)
  /\ End(r)
  /\ UNCHANGED <<inventoryVars, tables>>

RowIsGone(q) == q.op # "create" /\ q.booking \notin Stored

\* What the next step of r throws: a check, or a statement that is refused.
ErrorOf(r) ==
  LET q == requests[r]
  IN  CASE q.step = "unit" /\ units[q.plan.unit] # "live" -> Prisma("P2025")
        [] /\ q.step = "unit"
           /\ units[q.plan.unit] = "live" /\ ~UnitAccepts(q.plan) -> Http(400)
        [] q.step = "calendar" /\ ~CalendarAccepts(q.plan) -> Http(400)
        [] q.step = "tx" /\ tx[r] = Null /\ RowIsGone(q) -> Prisma("P2025")
        [] /\ q.step = "tx" /\ tx[r] = Null /\ ~RowIsGone(q)
           /\ q.op # "remove" /\ Waits(r) = {}
           /\ \E u \in NamedUnits(q) : units[u] # "live" -> Prisma("P2003")
        [] InTx(r, "days") /\ Taken(r) -> Prisma("P2002")
        [] /\ InTx(r, "days") /\ ~Taken(r) /\ Waits(r) = {}
           /\ ~DaysRefer(r) -> Prisma("P2003")
        [] OTHER -> Null

Fail(r) ==
  /\ requests[r] # Null
  /\ ErrorOf(r) # Null
  /\ Answer(r, ErrorOf(r))

\* The victim the database chooses; the other waits are over.
Victim(r) == Deadlocked(r) /\ Answer(r, Prisma("P2034"))

\* The time-out of the transaction, or of the wait for a connection.
TimeOut(r) ==
  /\ requests[r] # Null
  /\ Answer(r, Prisma(IF At(r, "tx") THEN "P2028" ELSE "P2024"))

CrashTx ==
  /\ Crash
  /\ tx' = [r \in Requests |-> Null]
  /\ Silent

\* No open transaction has locked these units or deleted day rows of theirs.
Unlocked(U) ==
  \A r \in Requests : /\ Shares(r) \cap U = {}
                      /\ \A d \in Cleared(r) : d.unit \notin U

Closing ==
  /\ \/ \E o \in Users, u \in Units : DeleteUnit(o, u) /\ Unlocked({u})
     \/ \E o \in Users, l \in Listings :
          DeleteListing(o, l) /\ Unlocked(UnitsOf(l))
  /\ UNCHANGED tx /\ Silent

\* What a request does of itself, without a time-out.
Progress(r) ==
  \/ Check(r) \/ WriteRow(r) \/ ClearDays(r) \/ InsertDay(r)
  \/ CommitTx(r) \/ RemoveRow(r) \/ Fail(r) \/ Victim(r)

TxNext ==
  \/ \E r \in Requests : Begin(r) \/ Progress(r) \/ TimeOut(r)
  \/ CrashTx
  \/ Closing

\* Every statement is answered, and the queue of a lock lets each waiter have
\* its turn.
TxSpec ==
  /\ TxInit /\ [][TxNext]_txVars
  /\ \A r \in Requests : SF_txVars(Progress(r))

-----------------------------------------------------------------------------
(* What the transactions promise.                                          *)

\* The transactions are as good as single steps: taken apart into statements
\* they still do what Booking's commits do, checks of the foreign keys and of
\* the unique index at the moment of the commit included, although nothing is
\* checked at the commit.
ImplementsBooking == Spec

\* README: 409 unique constraint.  A request is told that there is a conflict
\* only when there is one that a retry would meet too (another booking that
\* is stored has the night, or the unit is gone), or when it is told to retry
\* (P2034, P2028), and then it was on a cycle or has run out of time: never
\* because of rows that may still be rolled back.
ConflictsAreReal ==
  [][\A r \in Requests :
       /\ requests[r] # Null /\ requests'[r] = Null
       /\ answer' # Null /\ StatusOf(answer') = 409
       => LET q == requests[r]
          IN  \/ /\ q.plan # Null
                 /\ \/ units[q.plan.unit] # "live"
                    \/ \E d \in bookingDays :
                         /\ Slot(d) \in {q.plan.unit} \X Nights(r)
                         /\ d.booking # q.booking
              \/ answer' = Prisma("P2034") /\ Deadlocked(r)
              \/ answer' = Prisma("P2028")]_txVars

\* No request waits for ever: two updates that exchange nights wait for each
\* other's index entries until the database aborts one of them.
RequestsEnd == \A r \in Requests : requests[r] # Null ~> requests[r] = Null

=============================================================================

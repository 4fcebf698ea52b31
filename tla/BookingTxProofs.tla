--------------------------- MODULE BookingTxProofs ---------------------------
(***************************************************************************)
(* Theorems about BookingTx, for all inventories, requests and bodies: the *)
(* transactions taken apart into statements, under row locks, foreign keys *)
(* and the unique index, implement Booking, whose commits are single       *)
(* steps, and through it ReservationLedger.                                *)
(***************************************************************************)
EXTENDS BookingTx, BookingProofs, FiniteSetTheorems

-----------------------------------------------------------------------------
(* The inductive invariant.                                                *)

\* What an open transaction has done and holds: the row it updates is stored,
\* the units its foreign keys have locked are there, and the nights it still
\* has to insert fit its next statement.
TxOK ==
  /\ tx \in [Requests -> Transaction \cup {Null}]
  /\ \A r \in Requests : tx[r] # Null =>
       /\ requests[r] # Null /\ requests[r].step = "tx"
       /\ requests[r].op \in {"create", "update"}
       /\ requests[r].op = "create" => tx[r].stmt # "clear"
       /\ requests[r].op = "update" => requests[r].booking \in Stored
       /\ tx[r].left \subseteq Nights(r)
       /\ tx[r].stmt = "clear" => tx[r].left = Nights(r)
       /\ tx[r].stmt = "days" => tx[r].left # {}
       /\ tx[r].stmt = "commit" => tx[r].left = {}
       /\ \A u \in Shares(r) : units[u] = "live"

\* A row that the transaction of r has deleted, if it has one.
OwnRow(r, d) == requests[r].op = "update" /\ d.booking = requests[r].booking

\* The unique index: an inserted entry has no committed row but one that its
\* own transaction deletes, and no other transaction has inserted it.
EntriesAreFree ==
  \A r \in Requests, d \in bookingDays :
    tx[r] # Null /\ Slot(d) \in Inserted(r) => OwnRow(r, d)

EntriesAreApart ==
  \A r, s \in Requests : r # s => Inserted(r) \cap Inserted(s) = {}

\* One transaction at a time has written the row of a booking.
RowsAreLocked ==
  \A r, s \in Requests, b \in BookingIds :
    HoldsRow(r, b) /\ HoldsRow(s, b) => r = s

\* Every POST in flight has an id left.
IdsSuffice == nextId + Cardinality(CreatesInFlight) <= MaxBookings + 1

LocksHold == TxOK /\ EntriesAreFree /\ EntriesAreApart /\ RowsAreLocked

TxInv == OpenInv /\ LocksHold /\ IdsSuffice

-----------------------------------------------------------------------------

\* An open transaction that a step leaves alone holds what it held, and one
\* that is over holds nothing.
LEMMA HoldsAsBefore ==
  ASSUME NEW s \in Requests, tx'[s] = tx[s], requests'[s] = requests[s]
  PROVE  /\ Nights(s)' = Nights(s) /\ Inserted(s)' = Inserted(s)
         /\ Shares(s)' = Shares(s)
         /\ \A b \in BookingIds : HoldsRow(s, b)' <=> HoldsRow(s, b)
BY DEF Nights, Inserted, Shares, HoldsRow

LEMMA HoldsNothing ==
  ASSUME NEW s \in Requests, tx'[s] = Null
  PROVE  /\ Inserted(s)' = {} /\ Shares(s)' = {}
         /\ \A b \in BookingIds : ~HoldsRow(s, b)'
BY DEF Inserted, Shares, HoldsRow

\* A step that opens no transaction and changes none keeps the locks, if it
\* takes nothing away that an open transaction relies on.
LEMMA OthersKeep ==
  ASSUME LocksHold,
         tx' \in [Requests -> Transaction \cup {Null}],
         \A s \in Requests : \/ tx'[s] = Null
                             \/ tx'[s] = tx[s] /\ requests'[s] = requests[s],
         \A s \in Requests : tx'[s] # Null =>
           /\ requests[s].op = "update" => requests[s].booking \in Stored'
           /\ \A u \in Shares(s) : units'[u] = "live"
           /\ \A d \in bookingDays' :
                d \in bookingDays \/ Slot(d) \notin Inserted(s)
  PROVE  LocksHold'
<1> USE DEF LocksHold
<1>1. \A s \in Requests : tx'[s] # Null =>
        /\ tx'[s] = tx[s] /\ requests'[s] = requests[s]
        /\ Nights(s)' = Nights(s) /\ Inserted(s)' = Inserted(s)
        /\ Shares(s)' = Shares(s)
        /\ \A b \in BookingIds : HoldsRow(s, b)' <=> HoldsRow(s, b)
  BY HoldsAsBefore
<1>2. \A s \in Requests : tx'[s] = Null =>
        /\ Inserted(s)' = {} /\ \A b \in BookingIds : ~HoldsRow(s, b)'
  BY HoldsNothing
<1>3. TxOK'
  BY <1>1 DEF TxOK
<1>4. EntriesAreFree'
  BY <1>1 DEF EntriesAreFree, OwnRow
<1>5. EntriesAreApart'
  BY <1>1, <1>2 DEF EntriesAreApart
<1>6. RowsAreLocked'
  BY <1>1, <1>2 DEF RowsAreLocked
<1> QED
  BY <1>3, <1>4, <1>5, <1>6

\* A statement changes the one transaction that makes it.
LEMMA StatementKeeps ==
  ASSUME LocksHold, UNCHANGED vars, NEW r \in Requests,
         NEW t \in Transaction, tx' = [tx EXCEPT ![r] = t],
         requests[r] # Null, requests[r].step = "tx",
         requests[r].op \in {"create", "update"},
         requests[r].op = "create" => t.stmt # "clear",
         requests[r].op = "update" =>
           /\ requests[r].booking \in Stored
           /\ \A s \in Requests \ {r} : ~HoldsRow(s, requests[r].booking),
         t.left \subseteq Nights(r),
         t.stmt = "clear" => t.left = Nights(r),
         t.stmt = "days" => t.left # {},
         t.stmt = "commit" => t.left = {},
         \A u \in NamedUnits(requests[r]) : units[u] = "live",
         t.stmt = "commit" /\ Nights(r) # {} =>
           units[requests[r].plan.unit] = "live",
         NEW new,
         new = {requests[r].plan.unit} \X (Nights(r) \ t.left),
         \A d \in bookingDays : Slot(d) \in new => OwnRow(r, d),
         \A s \in Requests \ {r} : Inserted(s) \cap new = {}
  PROVE  LocksHold'
<1> USE DEF LocksHold
<1>0. t # Null
  BY TxAssumption
<1>1. /\ requests' = requests /\ units' = units /\ bookingDays' = bookingDays
      /\ Stored' = Stored
  BY DEF vars, bookingVars, inventoryVars, Stored
<1>2. tx' \in [Requests -> Transaction \cup {Null}] /\ tx'[r] = t
      /\ \A s \in Requests \ {r} : tx'[s] = tx[s]
  BY DEF TxOK
<1>3. \A s \in Requests \ {r} :
        /\ Nights(s)' = Nights(s) /\ Inserted(s)' = Inserted(s)
        /\ Shares(s)' = Shares(s)
        /\ \A b \in BookingIds : HoldsRow(s, b)' <=> HoldsRow(s, b)
  BY <1>1, <1>2, HoldsAsBefore
<1>4. /\ Nights(r)' = Nights(r) /\ Inserted(r)' = new
      /\ \A u \in Shares(r)' : units[u] = "live"
      /\ \A b \in BookingIds : HoldsRow(r, b)' =>
           requests[r].op = "update" /\ b = requests[r].booking
  <2>1. Nights(r)' = Nights(r)
    BY <1>1 DEF Nights
  <2>2. Inserted(r)' = new
    BY <1>0, <1>1, <1>2, <2>1 DEF Inserted
  <2>3. \A u \in Shares(r)' : units[u] = "live"
    BY <1>0, <1>1, <1>2, <2>1 DEF Shares, NamedUnits
  <2>4. \A b \in BookingIds : HoldsRow(r, b)' =>
          requests[r].op = "update" /\ b = requests[r].booking
    BY <1>1 DEF HoldsRow
  <2> QED
    BY <2>1, <2>2, <2>3, <2>4
<1>5. TxOK'
  BY <1>1, <1>2, <1>3, <1>4 DEF TxOK
<1>6. EntriesAreFree'
  BY <1>1, <1>2, <1>3, <1>4 DEF EntriesAreFree, OwnRow
<1>7. EntriesAreApart'
  BY <1>3, <1>4 DEF EntriesAreApart
<1>8. RowsAreLocked'
  BY <1>3, <1>4 DEF RowsAreLocked
<1> QED
  BY <1>5, <1>6, <1>7, <1>8

-----------------------------------------------------------------------------
(* The statements keep the locks.                                          *)

\* The first statement waits for the row's lock and checks the foreign keys.
LEMMA WriteRowKeeps ==
  ASSUME OpenInv, LocksHold, NEW r \in Requests, WriteRow(r)
  PROVE  LocksHold'
<1> DEFINE q == requests[r]
           t == [stmt |-> IF q.op = "update" THEN "clear"
                          ELSE StatementAfterClear(Nights(r)),
                 left |-> Nights(r)]
<1>1. /\ q # Null /\ q.step = "tx" /\ q.op # "remove" /\ tx[r] = Null
      /\ Waits(r) = {}
      /\ q.op = "update" => q.booking \in Stored
      /\ \A u \in NamedUnits(q) : units[u] = "live"
      /\ tx' = [tx EXCEPT ![r] = t] /\ UNCHANGED vars
  BY DEF WriteRow, At
<1>2. q.op \in {"create", "update"}
  BY <1>1, RequestParts DEF OpenInv
<1>3. Nights(r) \subseteq Dates
  BY DEF Nights, StayDates
<1>4. /\ t \in Transaction /\ t.left = Nights(r)
      /\ q.op = "create" => t.stmt # "clear"
      /\ t.stmt = "days" => t.left # {}
      /\ t.stmt = "commit" => t.left = {}
  BY <1>3 DEF Transaction, StatementAfterClear
<1>5. q.op = "update" => \A s \in Requests \ {r} : ~HoldsRow(s, q.booking)
  BY <1>1 DEF Waits, At
<1>6. {q.plan.unit} \X (Nights(r) \ t.left) = {}
  BY <1>4
<1> HIDE DEF q, t
<1>7. /\ requests[r] = q
      /\ {q.plan.unit} \X (Nights(r) \ t.left) = {}
  BY <1>6 DEF q
<1> QED
  BY <1>1, <1>2, <1>4, <1>5, <1>7, StatementKeeps

\* What an open transaction of an update knows of its row.
LEMMA OwnRowIsLocked ==
  ASSUME LocksHold, TypeOK, NEW r \in Requests, tx[r] # Null
  PROVE  requests[r].op = "update" =>
           /\ requests[r].booking \in Stored
           /\ \A s \in Requests \ {r} : ~HoldsRow(s, requests[r].booking)
<1> SUFFICES ASSUME requests[r].op = "update"
             PROVE  /\ requests[r].booking \in Stored
                    /\ \A s \in Requests \ {r} : ~HoldsRow(s, requests[r].booking)
  OBVIOUS
<1>1. requests[r].booking \in Stored /\ requests[r].booking \in BookingIds
  BY DEF LocksHold, TxOK, Stored
<1>2. HoldsRow(r, requests[r].booking)
  BY DEF HoldsRow
<1> QED
  BY <1>1, <1>2 DEF LocksHold, RowsAreLocked

\* The old rows go: nothing is inserted yet.
LEMMA ClearDaysKeeps ==
  ASSUME OpenInv, LocksHold, NEW r \in Requests, ClearDays(r)
  PROVE  LocksHold'
<1> DEFINE q == requests[r]
           t == [tx[r] EXCEPT !.stmt = StatementAfterClear(tx[r].left)]
<1>1. /\ tx[r] # Null /\ tx[r].stmt = "clear" /\ UNCHANGED vars
      /\ tx' = [tx EXCEPT ![r] = t]
  BY DEF ClearDays, InTx
<1>2. /\ tx[r] \in Transaction /\ q # Null /\ q.step = "tx"
      /\ q.op \in {"create", "update"} /\ tx[r].left = Nights(r)
      /\ \A u \in Shares(r) : units[u] = "live"
  BY <1>1 DEF LocksHold, TxOK
<1>3. \A u \in NamedUnits(q) : units[u] = "live"
  BY <1>1, <1>2 DEF Shares
<1>4. /\ t \in Transaction /\ t.left = Nights(r) /\ t.stmt # "clear"
      /\ t.stmt = "days" => t.left # {}
      /\ t.stmt = "commit" => t.left = {}
  BY <1>2 DEF Transaction, StatementAfterClear
<1>5. q.op = "update" =>
        /\ q.booking \in Stored
        /\ \A s \in Requests \ {r} : ~HoldsRow(s, q.booking)
  BY <1>1, OwnRowIsLocked DEF OpenInv
<1>6. {q.plan.unit} \X (Nights(r) \ t.left) = {}
  BY <1>4
<1> HIDE DEF t
<1> QED
  BY <1>1, <1>2, <1>3, <1>4, <1>5, <1>6, StatementKeeps

\* One more night: its index entry is free but for a row the transaction has
\* deleted itself.
LEMMA InsertDayKeeps ==
  ASSUME OpenInv, LocksHold, NEW r \in Requests, InsertDay(r)
  PROVE  LocksHold'
<1> DEFINE q == requests[r]
           night == NextNight(r)[2]
           left == tx[r].left \ {night}
           t == [stmt |-> StatementAfterClear(left), left |-> left]
           new == {q.plan.unit} \X (Nights(r) \ left)
<1>1. /\ tx[r] # Null /\ tx[r].stmt = "days" /\ ~Taken(r) /\ Waits(r) = {}
      /\ DaysRefer(r) /\ UNCHANGED vars /\ tx' = [tx EXCEPT ![r] = t]
  BY DEF InsertDay, InTx
<1>2. /\ tx[r] \in Transaction /\ q # Null /\ q.step = "tx"
      /\ q.op \in {"create", "update"} /\ tx[r].left \subseteq Nights(r)
      /\ tx[r].left # {}
      /\ \A u \in Shares(r) : units[u] = "live"
  BY <1>1 DEF LocksHold, TxOK
<1>3. \A u \in NamedUnits(q) : units[u] = "live"
  BY <1>1, <1>2 DEF Shares
<1>4. /\ t \in Transaction /\ t.left = left /\ t.left \subseteq Nights(r)
      /\ t.stmt # "clear"
      /\ t.stmt = "days" => t.left # {}
      /\ t.stmt = "commit" => t.left = {}
  BY <1>2 DEF Transaction, StatementAfterClear
<1>5. q.op = "update" =>
        /\ q.booking \in Stored
        /\ \A s \in Requests \ {r} : ~HoldsRow(s, q.booking)
  BY <1>1, OwnRowIsLocked DEF OpenInv
<1>6. ASSUME t.stmt = "commit"
      PROVE  units[q.plan.unit] = "live"
  <2>1. tx[r].left = {night}
    BY <1>2, <1>4, <1>6
  <2>2. Cardinality({night}) = 1
    BY FS_Singleton
  <2> QED
    BY <1>1, <2>1, <2>2 DEF DaysRefer
<1>7. NextNight(r) = <<q.plan.unit, night>>
  BY DEF NextNight
<1>8. \A s \in Requests \ {r} : ~Undecided(s, r)
  BY <1>1 DEF Waits, InTx
<1>9. \A e \in new : e = NextNight(r) \/ e \in Inserted(r)
  BY <1>1, <1>7 DEF Inserted
<1>10. ASSUME NEW d \in bookingDays, Slot(d) \in new
       PROVE  OwnRow(r, d)
  <2>1. CASE Slot(d) = NextNight(r)
    <3>1. PICK s \in Requests : d \in Cleared(s)
      BY <1>1, <2>1 DEF Taken
    <3>2. s = r
      BY <1>8, <2>1, <3>1 DEF Undecided
    <3> QED
      BY <3>1, <3>2 DEF Cleared, OwnRow
  <2>2. CASE Slot(d) \in Inserted(r)
    BY <1>1, <2>2 DEF LocksHold, EntriesAreFree
  <2> QED
    BY <1>9, <1>10, <2>1, <2>2
<1>11. ASSUME NEW s \in Requests \ {r}
       PROVE  Inserted(s) \cap new = {}
  BY <1>8, <1>9 DEF Undecided, LocksHold, EntriesAreApart
<1> HIDE DEF t, new
<1>12. new = {q.plan.unit} \X (Nights(r) \ t.left)
  BY <1>4 DEF new
<1> QED
  BY <1>1, <1>2, <1>3, <1>4, <1>5, <1>6, <1>10, <1>11, <1>12, StatementKeeps

-----------------------------------------------------------------------------
(* The steps that open and change no transaction.                          *)

\* A request in flight that has no transaction takes a step outside of one.
LEMMA AskKeeps ==
  ASSUME LocksHold, NEW r \in Requests, tx[r] = Null, UNCHANGED tx,
         \A s \in Requests \ {r} : requests'[s] = requests[s],
         UNCHANGED <<inventoryVars, tables>>
  PROVE  LocksHold'
<1>1. units' = units /\ bookingDays' = bookingDays /\ Stored' = Stored
  BY DEF inventoryVars, tables, Stored
<1>2. tx \in [Requests -> Transaction \cup {Null}]
      /\ \A s \in Requests : tx[s] # Null =>
           /\ requests[s].op = "update" => requests[s].booking \in Stored
           /\ \A u \in Shares(s) : units[u] = "live"
  BY DEF LocksHold, TxOK
<1>3. \A s \in Requests : \/ tx'[s] = Null
                          \/ tx'[s] = tx[s] /\ requests'[s] = requests[s]
  OBVIOUS
<1> QED
  BY <1>1, <1>2, <1>3, OthersKeep

\* A rollback releases what its transaction held.
LEMMA EndKeeps ==
  ASSUME TypeOK, LocksHold, NEW r \in Requests, End(r), EndTx(r),
         UNCHANGED <<inventoryVars, tables>>
  PROVE  LocksHold'
<1>1. units' = units /\ bookingDays' = bookingDays /\ Stored' = Stored
  BY DEF inventoryVars, tables, Stored
<1>2. tx \in [Requests -> Transaction \cup {Null}]
      /\ \A s \in Requests : tx[s] # Null =>
           /\ requests[s].op = "update" => requests[s].booking \in Stored
           /\ \A u \in Shares(s) : units[u] = "live"
  BY DEF LocksHold, TxOK
<1>3. tx' \in [Requests -> Transaction \cup {Null}]
      /\ \A s \in Requests : \/ tx'[s] = Null
                             \/ tx'[s] = tx[s] /\ requests'[s] = requests[s]
  BY <1>2 DEF End, EndTx, TypeOK
<1>4. \A s \in Requests : tx'[s] # Null => tx[s] # Null
  BY <1>3
<1> QED
  BY <1>1, <1>2, <1>3, <1>4, OthersKeep

LEMMA CrashKeeps ==
  ASSUME LocksHold, CrashTx
  PROVE  LocksHold'
<1>1. tx' \in [Requests -> Transaction \cup {Null}]
      /\ \A s \in Requests : tx'[s] = Null
  BY DEF CrashTx
<1> QED
  BY <1>1, OthersKeep

\* The units that foreign keys have locked are units.
LEMMA SharesAreUnits ==
  ASSUME TypeOK, LocksHold, NEW s \in Requests
  PROVE  Shares(s) \subseteq Units
<1>1. CASE tx[s] = Null
  BY <1>1 DEF Shares
<1>2. CASE tx[s] # Null
  <2>1. /\ requests[s] # Null
        /\ requests[s].op \in {"create", "update"}
    BY <1>2 DEF LocksHold, TxOK
  <2>2. requests[s].plan \in Plan /\ requests[s].dto \in Dto
    BY <2>1, RequestParts
  <2>3. /\ requests[s].plan.unit \in Units
        /\ requests[s].dto.unit \in Units \cup {Null}
    BY <2>2 DEF Plan, Dto
  <2> QED
    BY <2>3 DEF Shares, NamedUnits
<1> QED
  BY <1>1, <1>2

\* The owners' deletions wait for the foreign keys' locks.
LEMMA ClosingKeeps ==
  ASSUME OpenInv, LocksHold, Closing
  PROVE  LocksHold'
<1>1. PICK U \in SUBSET Units :
        /\ Unlocked(U)
        /\ \A u \in Units \ U : units'[u] = units[u]
        /\ bookingDays' \subseteq bookingDays
        /\ Stored' = Stored /\ requests' = requests
  <2>1. ASSUME NEW o \in Users, NEW u \in Units, DeleteUnit(o, u), Unlocked({u})
        PROVE  /\ \A v \in Units \ {u} : units'[v] = units[v]
               /\ bookingDays' \subseteq bookingDays
               /\ Stored' = Stored /\ requests' = requests
    BY <2>1 DEF DeleteUnit, RemoveUnit, Stored, OpenInv, TypeOK, InventoryTypeOK
  <2>2. ASSUME NEW o \in Users, NEW l \in Listings, DeleteListing(o, l),
               Unlocked(UnitsOf(l))
        PROVE  /\ \A v \in Units \ UnitsOf(l) : units'[v] = units[v]
               /\ bookingDays' \subseteq bookingDays
               /\ Stored' = Stored /\ requests' = requests
               /\ UnitsOf(l) \in SUBSET Units
    BY <2>2, DeleteListingEffect DEF DeleteListing, RemoveListing, UnitsOf
  <2> QED
    BY <2>1, <2>2 DEF Closing
<1>2. \A s \in Requests : Shares(s) \subseteq Units /\ Shares(s) \cap U = {}
  BY <1>1, SharesAreUnits DEF Unlocked, OpenInv
<1>3. UNCHANGED tx
  BY DEF Closing
<1>4. tx \in [Requests -> Transaction \cup {Null}]
      /\ \A s \in Requests : tx[s] # Null =>
           /\ requests[s].op = "update" => requests[s].booking \in Stored
           /\ \A u \in Shares(s) : units[u] = "live"
  BY DEF LocksHold, TxOK
<1>5. \A s \in Requests : tx'[s] # Null =>
        /\ requests[s].op = "update" => requests[s].booking \in Stored'
        /\ \A u \in Shares(s) : units'[u] = "live"
        /\ \A d \in bookingDays' :
             d \in bookingDays \/ Slot(d) \notin Inserted(s)
  BY <1>1, <1>2, <1>3, <1>4
<1> QED
  BY <1>1, <1>3, <1>4, <1>5, OthersKeep

\* A DELETE waits for the lock on its row.
LEMMA RemoveRowKeeps ==
  ASSUME OpenInv, LocksHold, NEW r \in Requests, RemoveRow(r)
  PROVE  LocksHold'
<1> DEFINE b == requests[r].booking
<1>1. /\ CommitRemove(r) /\ Waits(r) = {} /\ UNCHANGED tx
      /\ At(r, "tx") /\ requests[r].op = "remove"
  BY DEF RemoveRow, CommitRemove
<1>2. tx \in [Requests -> Transaction \cup {Null}]
      /\ \A s \in Requests : tx[s] # Null =>
           /\ requests[s].op \in {"create", "update"}
           /\ requests[s].op = "update" => requests[s].booking \in Stored
           /\ \A u \in Shares(s) : units[u] = "live"
  BY DEF LocksHold, TxOK
<1>3. tx[r] = Null
  BY <1>1, <1>2
<1>4. /\ Stored' = Stored \ {b} /\ bookingDays' \subseteq bookingDays
      /\ units' = units
      /\ \A s \in Requests \ {r} : requests'[s] = requests[s]
  BY <1>1, RemoveEffect
  DEF CommitRemove, End, DaysWithout, inventoryVars, OpenInv, TypeOK
<1>5. \A s \in Requests : ~HoldsRow(s, b)
  BY <1>1, <1>3 DEF Waits, HoldsRow
<1>6. \A s \in Requests : tx'[s] # Null =>
        /\ requests[s].op = "update" => requests[s].booking \in Stored'
        /\ \A u \in Shares(s) : units'[u] = "live"
        /\ \A d \in bookingDays' :
             d \in bookingDays \/ Slot(d) \notin Inserted(s)
  BY <1>1, <1>2, <1>4, <1>5 DEF HoldsRow
<1>7. \A s \in Requests : \/ tx'[s] = Null
                          \/ tx'[s] = tx[s] /\ requests'[s] = requests[s]
  BY <1>1, <1>3, <1>4
<1> QED
  BY <1>1, <1>2, <1>6, <1>7, OthersKeep

-----------------------------------------------------------------------------
(* The commit.                                                             *)

\* Nothing is checked at a COMMIT, and everything that Booking checks there
\* holds: the transaction has locked what it referred to.
LEMMA CommitIsChecked ==
  ASSUME TxInv, NEW r \in Requests, CommitTx(r)
  PROVE  CommitCreate(r) \/ CommitUpdate(r)
<1> DEFINE q == requests[r]
           p == q.plan
<1> USE DEF TxInv, LocksHold
<1>1. /\ tx[r] # Null /\ tx[r].stmt = "commit" /\ q # Null /\ q.step = "tx"
      /\ q.op \in {"create", "update"} /\ tx[r].left = {}
      /\ \A u \in Shares(r) : units[u] = "live"
      /\ q.op = "update" => q.booking \in Stored
  BY DEF CommitTx, InTx, TxOK
<1>2. p \in Plan /\ q.dto \in Dto
  BY <1>1, RequestParts DEF OpenInv
<1>3. Inserted(r) = {p.unit} \X Nights(r)
  BY <1>1 DEF Inserted
<1>4. \A b, d : d \in DayRows(b, p) =>
        d.unit = p.unit /\ d.date \in Nights(r) /\ Slot(d) \in Inserted(r)
  BY <1>3 DEF DayRows, Nights, Slot
<1>5. ASSUME NEW b, DayRows(b, p) # {}
      PROVE  units[p.unit] = "live"
  BY <1>1, <1>4, <1>5 DEF Shares
<1>6. ASSUME NEW b, q.op = "update" => b = q.booking
      PROVE  Vacant(DayRows(b, p), DaysWithout(b))
  BY <1>1, <1>4, <1>6 DEF Vacant, Slot, DaysWithout, EntriesAreFree, OwnRow
<1>7. CASE q.op = "create"
  <2>1. nextId \in BookingIds
    <3>1. r \in CreatesInFlight /\ IsFiniteSet(CreatesInFlight)
      BY <1>1, <1>7, TxAssumption, FS_Subset DEF CreatesInFlight
    <3>2. Cardinality(CreatesInFlight) \in Nat
          /\ Cardinality(CreatesInFlight) # 0
      BY <3>1, FS_CardinalityType, FS_EmptySet
    <3> QED
      BY <3>2, BookingAssumption DEF IdsSuffice, OpenInv, TypeOK, BookingIds
  <2>2. units[p.unit] = "live"
    <3>1. p.unit \in NamedUnits(q)
      BY <1>2, <1>7, InventoryAssumption DEF NamedUnits, Plan
    <3> QED
      BY <1>1, <3>1 DEF Shares
  <2>3. DaysFit(nextId, p)
    BY <1>6, <1>7, <2>2 DEF DaysFit
  <2> QED
    BY <1>1, <1>7, <2>1, <2>3 DEF CommitTx, CommitCreate, At
<1>8. CASE q.op = "update"
  <2>1. q.dto.unit # Null => units[q.dto.unit] = "live"
    BY <1>1, <1>8 DEF Shares, NamedUnits
  <2>2. CanUpdate(q.booking, q.dto, p)
    <3>1. DayRows(q.booking, p) # {} => units[p.unit] = "live"
      BY <1>5
    <3>2. Vacant(DayRows(q.booking, p), DaysWithout(q.booking))
      BY <1>6
    <3>3. q.booking \in Stored
      BY <1>1, <1>8
    <3> HIDE DEF p, q
    <3> QED
      BY <2>1, <3>1, <3>2, <3>3 DEF CanUpdate, DaysFit
  <2> QED
    BY <1>1, <1>8, <2>2 DEF CommitTx, CommitUpdate, At
<1> QED
  BY <1>1, <1>7, <1>8

LEMMA CommitKeeps ==
  ASSUME TxInv, NEW r \in Requests, CommitTx(r)
  PROVE  LocksHold'
<1> DEFINE p == requests[r].plan
<1> USE DEF TxInv
<1>1. CommitCreate(r) \/ CommitUpdate(r)
  BY CommitIsChecked
<1>2. tx \in [Requests -> Transaction \cup {Null}]
      /\ tx[r] # Null /\ tx[r].left = {}
      /\ \A s \in Requests : tx[s] # Null =>
           /\ requests[s].op = "update" => requests[s].booking \in Stored
           /\ \A u \in Shares(s) : units[u] = "live"
  BY DEF CommitTx, InTx, LocksHold, TxOK
<1>3. PICK b : Stored \subseteq Stored'
               /\ bookingDays' \subseteq bookingDays \cup DayRows(b, p)
  BY <1>1, CreateEffect, UpdateEffect DEF DaysWithout
<1>4. units' = units
  BY DEF CommitTx, inventoryVars
<1>5. tx' \in [Requests -> Transaction \cup {Null}]
      /\ tx'[r] = Null
      /\ \A s \in Requests \ {r} : tx'[s] = tx[s] /\ requests'[s] = requests[s]
  BY <1>2 DEF CommitTx, End, EndTx, OpenInv, TypeOK
<1>6. \A d \in DayRows(b, p) : Slot(d) \in Inserted(r)
  BY <1>2 DEF Inserted, DayRows, Nights, Slot
<1>7. \A s \in Requests \ {r} : Inserted(s) \cap Inserted(r) = {}
  BY DEF LocksHold, EntriesAreApart
<1>8. \A s \in Requests : tx'[s] # Null =>
        /\ requests[s].op = "update" => requests[s].booking \in Stored'
        /\ \A u \in Shares(s) : units'[u] = "live"
        /\ \A d \in bookingDays' :
             d \in bookingDays \/ Slot(d) \notin Inserted(s)
  BY <1>2, <1>3, <1>4, <1>5, <1>6, <1>7
<1>9. \A s \in Requests : \/ tx'[s] = Null
                          \/ tx'[s] = tx[s] /\ requests'[s] = requests[s]
  BY <1>5
<1> QED
  BY <1>5, <1>8, <1>9, OthersKeep

-----------------------------------------------------------------------------
(* Every step.                                                             *)

\* Ids: only a new POST needs one more, and it takes the last one at most.
LEMMA FewerCreates ==
  ASSUME OpenInv, IdsSuffice, nextId' = nextId,
         CreatesInFlight' \subseteq CreatesInFlight
  PROVE  IdsSuffice'
<1>1. IsFiniteSet(CreatesInFlight)
  BY TxAssumption, FS_Subset DEF CreatesInFlight
<1>2. IsFiniteSet(CreatesInFlight')
      /\ Cardinality(CreatesInFlight') <= Cardinality(CreatesInFlight)
  BY <1>1, FS_Subset
<1>3. Cardinality(CreatesInFlight) \in Nat /\ Cardinality(CreatesInFlight') \in Nat
  BY <1>1, <1>2, FS_CardinalityType
<1>4. nextId \in Nat /\ MaxBookings \in Nat
  BY BookingAssumption DEF OpenInv, TypeOK
<1> QED
  BY <1>2, <1>3, <1>4 DEF IdsSuffice

LEMMA BeginKeepsIds ==
  ASSUME OpenInv, IdsSuffice, NEW r \in Requests, Begin(r)
  PROVE  IdsSuffice'
<1>1. nextId' = nextId
  BY DEF Begin, BeginCreate, BeginUpdate, BeginRemove, Start, tables
<1>2. CASE BeginCreate(r) /\ nextId + Cardinality(CreatesInFlight) \in BookingIds
  <2>1. IsFiniteSet(CreatesInFlight)
    BY TxAssumption, FS_Subset DEF CreatesInFlight
  <2>2. CreatesInFlight' = CreatesInFlight \cup {r}
    <3>1. PICK q : q # Null /\ q.op = "create"
                   /\ requests' = [requests EXCEPT ![r] = q]
      <4>1. PICK dto \in CreateDtos :
              Start(r, "create", "unit", Null, dto, PlanOfCreate(dto))
        BY <1>2 DEF BeginCreate
      <4>2. [op |-> "create", step |-> "unit", booking |-> Null, dto |-> dto,
             plan |-> PlanOfCreate(dto)] # Null
        BY <4>1, PlanTypes, BookingAssumption DEF Request, Steps
      <4> QED
        BY <4>1, <4>2 DEF Start
    <3> QED
      BY <3>1 DEF CreatesInFlight, OpenInv, TypeOK
  <2>3. Cardinality(CreatesInFlight') \in
          {Cardinality(CreatesInFlight), Cardinality(CreatesInFlight) + 1}
    BY <2>1, <2>2, FS_AddElement
  <2>4. Cardinality(CreatesInFlight) \in Nat
    BY <2>1, FS_CardinalityType
  <2>5. nextId \in Nat /\ MaxBookings \in Nat
    BY BookingAssumption DEF OpenInv, TypeOK
  <2> QED
    BY <1>1, <1>2, <2>3, <2>4, <2>5 DEF IdsSuffice, BookingIds
<1>3. CASE BeginUpdate(r) \/ BeginRemove(r)
  <2>1. CreatesInFlight' \subseteq CreatesInFlight
    BY <1>3
    DEF BeginUpdate, BeginRemove, Start, CreatesInFlight, OpenInv, TypeOK
  <2> QED
    BY <1>1, <2>1, FewerCreates
<1> QED
  BY <1>2, <1>3 DEF Begin

LEMMA CommitKeepsIds ==
  ASSUME TxInv, NEW r \in Requests, CommitTx(r)
  PROVE  IdsSuffice'
<1> USE DEF TxInv
<1>1. requests[r] # Null /\ requests[r].op \in {"create", "update"}
  BY DEF CommitTx, InTx, LocksHold, TxOK
<1>2. requests' = [requests EXCEPT ![r] = Null]
  BY DEF CommitTx, End
<1>3. CreatesInFlight' = CreatesInFlight \ {r}
  BY <1>2 DEF CreatesInFlight, OpenInv, TypeOK
<1>4. CASE requests[r].op = "create"
  <2>1. r \in CreatesInFlight /\ IsFiniteSet(CreatesInFlight)
    BY <1>1, <1>4, TxAssumption, FS_Subset DEF CreatesInFlight
  <2>2. Cardinality(CreatesInFlight') = Cardinality(CreatesInFlight) - 1
    BY <1>3, <2>1, FS_RemoveElement
  <2>3. Cardinality(CreatesInFlight) \in Nat
    BY <2>1, FS_CardinalityType
  <2>4. nextId' = nextId + 1
    BY <1>4 DEF CommitTx
  <2>5. nextId \in Nat /\ MaxBookings \in Nat
    BY BookingAssumption DEF OpenInv, TypeOK
  <2> QED
    BY <2>2, <2>3, <2>4, <2>5 DEF IdsSuffice
<1>5. CASE requests[r].op = "update"
  BY <1>3, <1>5, FewerCreates DEF CommitTx
<1> QED
  BY <1>1, <1>4, <1>5

\* Every step of the statements is a step of Booking or changes none of its
\* variables, and keeps the invariant.
LEMMA TxStep ==
  ASSUME TxInv, [TxNext]_txVars
  PROVE  [Next]_vars /\ TxInv'
<1> USE DEF TxInv
<1>1. SUFFICES [Next]_vars /\ LocksHold' /\ IdsSuffice'
  BY OpenStep
<1>2. \A r \in Requests : tx[r] # Null => requests[r].step = "tx"
  BY DEF LocksHold, TxOK
<1>3. ASSUME NEW r \in Requests, Begin(r)
      PROVE  [Next]_vars /\ LocksHold' /\ IdsSuffice'
  <2>1. /\ tx[r] = Null /\ UNCHANGED tx /\ UNCHANGED <<inventoryVars, tables>>
        /\ \A s \in Requests \ {r} : requests'[s] = requests[s]
    BY <1>3
    DEF Begin, BeginCreate, BeginUpdate, BeginRemove, Start, OpenInv, TypeOK,
        LocksHold, TxOK
  <2>2. LocksHold'
    BY <2>1, AskKeeps
  <2> QED
    BY <1>3, <2>2, BeginKeepsIds DEF Begin, Next, GuestStep
<1>4. ASSUME NEW r \in Requests, Check(r)
      PROVE  [Next]_vars /\ LocksHold' /\ IdsSuffice'
  <2>1. /\ UNCHANGED tx /\ UNCHANGED <<inventoryVars, tables>>
        /\ requests[r] # Null /\ requests[r].step # "tx"
        /\ \A s \in Requests \ {r} : requests'[s] = requests[s]
        /\ requests'[r].op = requests[r].op
    BY <1>4
    DEF Check, ReadUnit, CheckCalendar, At, GoOn, OpenInv, TypeOK, Request
  <2>2. LocksHold'
    BY <1>2, <2>1, AskKeeps
  <2>3. CreatesInFlight' \subseteq CreatesInFlight
    BY <2>1 DEF CreatesInFlight
  <2>4. IdsSuffice'
    BY <2>1, <2>3, FewerCreates DEF tables
  <2> QED
    BY <1>4, <2>2, <2>4 DEF Check, Next, GuestStep
<1>5. ASSUME NEW r \in Requests, WriteRow(r) \/ ClearDays(r) \/ InsertDay(r)
      PROVE  [Next]_vars /\ LocksHold' /\ IdsSuffice'
  <2>1. UNCHANGED vars
    BY <1>5 DEF WriteRow, ClearDays, InsertDay
  <2>2. LocksHold'
    BY <1>5, WriteRowKeeps, ClearDaysKeeps, InsertDayKeeps
  <2>3. IdsSuffice'
    BY <2>1, FewerCreates DEF vars, bookingVars, CreatesInFlight
  <2> QED
    BY <2>1, <2>2, <2>3
<1>6. ASSUME NEW r \in Requests, CommitTx(r)
      PROVE  [Next]_vars /\ LocksHold' /\ IdsSuffice'
  BY <1>6, CommitIsChecked, CommitKeeps, CommitKeepsIds DEF Next, GuestStep
<1>7. ASSUME NEW r \in Requests, RemoveRow(r)
      PROVE  [Next]_vars /\ LocksHold' /\ IdsSuffice'
  <2>1. CommitRemove(r) /\ LocksHold'
    BY <1>7, RemoveRowKeeps DEF RemoveRow
  <2>2. nextId' = nextId /\ CreatesInFlight' \subseteq CreatesInFlight
    BY <2>1 DEF CommitRemove, End, CreatesInFlight, OpenInv, TypeOK
  <2> QED
    BY <2>1, <2>2, FewerCreates DEF Next, GuestStep
<1>8. ASSUME NEW r \in Requests, requests[r] # Null, End(r), EndTx(r),
             UNCHANGED <<inventoryVars, tables>>
      PROVE  [Next]_vars /\ LocksHold' /\ IdsSuffice'
  <2>1. LocksHold'
    BY <1>8, EndKeeps DEF OpenInv
  <2>2. nextId' = nextId /\ CreatesInFlight' \subseteq CreatesInFlight
    BY <1>8 DEF End, CreatesInFlight, tables, OpenInv, TypeOK
  <2>3. Next
    BY <1>8 DEF Abort, Next, GuestStep
  <2> QED
    BY <2>1, <2>2, <2>3, FewerCreates
<1>9. ASSUME NEW r \in Requests, Fail(r) \/ Victim(r) \/ TimeOut(r)
      PROVE  [Next]_vars /\ LocksHold' /\ IdsSuffice'
  <2>1. Victim(r) => requests[r] # Null
    <3>1. Deadlocked(r) => Waits(r) # {}
      BY DEF Deadlocked
    <3>2. Waits(r) # {} => At(r, "tx") \/ tx[r] # Null
      BY DEF Waits, InTx
    <3> QED
      BY <3>1, <3>2 DEF Victim, At, LocksHold, TxOK
  <2>2. /\ requests[r] # Null /\ End(r) /\ EndTx(r)
        /\ UNCHANGED <<inventoryVars, tables>>
    BY <1>9, <2>1 DEF Fail, Victim, TimeOut, Answer
  <2> QED
    BY <1>8, <2>2
<1>10. CASE CrashTx
  <2>1. Crash /\ LocksHold'
    BY <1>10, CrashKeeps DEF CrashTx
  <2>2. nextId' = nextId /\ CreatesInFlight' \subseteq CreatesInFlight
    BY <2>1 DEF Crash, tables, CreatesInFlight
  <2> QED
    BY <2>1, <2>2, FewerCreates DEF Next, GuestStep
<1>11. CASE Closing
  <2>1. LocksHold' /\ HostStep
    BY <1>11, ClosingKeeps DEF Closing, HostStep
  <2>2. nextId' = nextId /\ CreatesInFlight' = CreatesInFlight
    BY <1>11 DEF Closing, DeleteUnit, DeleteListing, CreatesInFlight
  <2> QED
    BY <2>1, <2>2, FewerCreates DEF Next
<1>12. CASE UNCHANGED txVars
  <2>1. UNCHANGED vars /\ UNCHANGED tx
    BY <1>12 DEF txVars
  <2>2. /\ requests' = requests /\ UNCHANGED <<inventoryVars, tables>>
        /\ CreatesInFlight' = CreatesInFlight /\ nextId' = nextId
    BY <2>1 DEF vars, bookingVars, tables, CreatesInFlight
  <2>3. IdsSuffice'
    BY <2>2, FewerCreates
  <2>4. LocksHold'
    <3>1. Stored' = Stored /\ units' = units /\ bookingDays' = bookingDays
      BY <2>2 DEF tables, inventoryVars, Stored
    <3> QED
      BY <2>1, <2>2, <3>1, OthersKeep DEF LocksHold, TxOK
  <2> QED
    BY <2>1, <2>3, <2>4
<1> QED
  BY <1>3, <1>4, <1>5, <1>6, <1>7, <1>9, <1>10, <1>11, <1>12
  DEF TxNext, Progress

LEMMA TxStarts == TxInit => TxInv
<1> SUFFICES ASSUME TxInit PROVE TxInv
  OBVIOUS
<1>1. Init /\ OpenInv
  BY OpenInit DEF TxInit
<1>2. LocksHold
  BY DEF TxInit, LocksHold, TxOK, EntriesAreFree, EntriesAreApart,
         RowsAreLocked, HoldsRow, Inserted
<1>3. IdsSuffice
  <2>1. CreatesInFlight = {} /\ nextId = 1
    BY <1>1 DEF Init, CreatesInFlight
  <2>2. Cardinality(CreatesInFlight) = 0
    BY <2>1, FS_EmptySet
  <2> QED
    BY <2>1, <2>2, BookingAssumption DEF IdsSuffice
<1> QED
  BY <1>1, <1>2, <1>3 DEF TxInv

-----------------------------------------------------------------------------

\* Whatever waits, fails or is rolled back: locks, index entries and foreign
\* keys hold as the statements left them.
THEOREM TxInvariant == TxSpec => []TxInv
<1>1. TxInit => TxInv
  BY TxStarts
<1>2. TxInv /\ [TxNext]_txVars => TxInv'
  BY TxStep
<1> QED
  BY <1>1, <1>2, PTL DEF TxSpec

\* The transactions are as good as single steps: taken apart into statements
\* they implement Booking, whose commits check everything at once.
THEOREM TransactionsAreAtomic == TxSpec => ImplementsBooking
<1>1. TxInit => Init
  BY DEF TxInit
<1>2. TxInv /\ [TxNext]_txVars => [Next]_vars
  BY TxStep
<1> QED
  BY <1>1, <1>2, TxInvariant, PTL DEF TxSpec, ImplementsBooking, Spec

\* Hence the BookingDay table implements the ledger under statements, locks
\* and rollbacks too.
THEOREM TransactionsKeepTheLedger == TxSpec => ImplementsLedger
BY TransactionsAreAtomic, LedgerIsImplemented, PTL DEF ImplementsBooking

\* The statements of an update delete the old days and insert the new ones one
\* after the other; what is committed is whole stays all the same.
THEOREM TransactionsKeepStaysWhole ==
  TxSpec => [](Ledger!WholeStays /\ Ledger!Exclusive)
BY TransactionsKeepTheLedger, LedgerPromises, PTL DEF ImplementsLedger

-----------------------------------------------------------------------------
(* What a request is told.                                                 *)

\* The night that createMany inserts next is one of those left.
LEMMA FirstExists ==
  ASSUME NEW S \in SUBSET Nat, IsFiniteSet(S), S # {}
  PROVE  \E d \in S : \A e \in S : d <= e
<1> DEFINE HasFirst(T) == \E d \in T : \A e \in T : d <= e
           Bad == {T \in FiniteSubsetsOf(Nat) : T # {} /\ ~HasFirst(T)}
<1>1. ASSUME Bad # {}
      PROVE  FALSE
  <2>1. IsWellFoundedOn(StrictSubsetOrdering(Nat), FiniteSubsetsOf(Nat))
    BY FS_StrictSubsetOrderingWellFounded
  <2>2. Bad \subseteq FiniteSubsetsOf(Nat)
    OBVIOUS
  <2> HIDE DEF Bad
  <2>3. PICK T \in Bad :
          \A R \in Bad : ~(<<R, T>> \in StrictSubsetOrdering(Nat))
    BY <1>1, <2>1, <2>2, WFMin
  <2>4. T \in FiniteSubsetsOf(Nat) /\ T # {} /\ ~HasFirst(T)
    BY <2>3 DEF Bad
  <2>5. PICK d \in T : TRUE
    BY <2>4
  <2> DEFINE R == T \ {d}
  <2>6. R \in FiniteSubsetsOf(Nat)
    BY <2>4, FS_RemoveElement DEF FiniteSubsetsOf
  <2>7. <<R, T>> \in StrictSubsetOrdering(Nat)
    BY <2>4, <2>5 DEF StrictSubsetOrdering, FiniteSubsetsOf
  <2>8. R \notin Bad
    BY <2>3, <2>7
  <2>9. R = {} \/ HasFirst(R)
    BY <2>6, <2>8 DEF Bad
  <2>10. T \subseteq Nat /\ \A e \in T : e = d \/ e \in R
    BY <2>4 DEF FiniteSubsetsOf
  <2>11. CASE R = {}
    BY <2>4, <2>5, <2>10, <2>11
  <2>12. CASE HasFirst(R)
    <3>1. PICK m \in R : \A e \in R : m <= e
      BY <2>12
    <3>2. CASE m <= d
      BY <2>4, <2>10, <3>1, <3>2
    <3>3. CASE d <= m
      BY <2>4, <2>5, <2>10, <3>1, <3>3
    <3> QED
      BY <2>5, <2>10, <3>1, <3>2, <3>3
  <2> QED
    BY <2>9, <2>11, <2>12
<1>2. S \in FiniteSubsetsOf(Nat)
  BY DEF FiniteSubsetsOf
<1> QED
  BY <1>1, <1>2

LEMMA NextNightIsLeft ==
  ASSUME TxInv, NEW r \in Requests, InTx(r, "days")
  PROVE  NextNight(r) \in {requests[r].plan.unit} \X Nights(r)
<1>1. tx[r].left \subseteq Nights(r) /\ tx[r].left # {}
  BY DEF TxInv, LocksHold, TxOK, InTx
<1>2. Nights(r) \subseteq 0 .. LastDate
  BY DEF Nights, StayDates, Dates
<1>3. IsFiniteSet(tx[r].left) /\ tx[r].left \subseteq Nat
  <2>1. IsFiniteSet(0 .. LastDate) /\ 0 .. LastDate \subseteq Nat
    BY FS_Interval, InventoryAssumption
  <2>2. tx[r].left \in SUBSET (0 .. LastDate)
    BY <1>1, <1>2
  <2> QED
    BY <2>1, <2>2, FS_Subset
<1>4. \E d \in tx[r].left : \A e \in tx[r].left : d <= e
  BY <1>1, <1>3, FirstExists
<1> QED
  BY <1>1, <1>4 DEF NextNight

\* An update that names a unit has planned for that unit.
NamedIsPlanned ==
  \A r \in Requests :
    /\ requests[r] # Null /\ requests[r].op = "update"
    /\ requests[r].dto.unit # Null
    => requests[r].plan.unit = requests[r].dto.unit

LEMMA NamedStep ==
  ASSUME TypeOK, NamedIsPlanned, [Next]_vars
  PROVE  NamedIsPlanned'
<1> USE DEF TypeOK
<1> SUFFICES ASSUME NEW r \in Requests, requests'[r] # Null,
                    requests'[r].op = "update", requests'[r].dto.unit # Null
             PROVE  requests'[r].plan.unit = requests'[r].dto.unit
  BY DEF NamedIsPlanned
<1>1. CASE requests'[r] = requests[r]
  BY <1>1 DEF NamedIsPlanned
<1>2. CASE BeginCreate(r) \/ BeginRemove(r)
  BY <1>2 DEF BeginCreate, BeginRemove, Start
<1>3. CASE BeginUpdate(r)
  <2>1. PICK b \in BookingIds, dto \in UpdateDtos :
          Start(r, "update", "unit", b, dto, PlanOfUpdate(dto, bookings[b]))
    BY <1>3 DEF BeginUpdate
  <2>2. /\ requests'[r].dto = dto
        /\ requests'[r].plan = PlanOfUpdate(dto, bookings[b])
    BY <2>1 DEF Start
  <2> QED
    BY <2>2 DEF PlanOfUpdate, Default
<1>4. CASE ReadUnit(r) \/ CheckCalendar(r)
  <2>1. /\ requests[r] \in Request
        /\ \E step : requests' = [requests EXCEPT ![r].step = step]
    BY <1>4 DEF ReadUnit, CheckCalendar, At, GoOn
  <2>2. /\ requests'[r].op = requests[r].op
        /\ requests'[r].dto = requests[r].dto
        /\ requests'[r].plan = requests[r].plan
    BY <2>1 DEF Request
  <2> QED
    BY <1>4, <2>2 DEF NamedIsPlanned, ReadUnit, CheckCalendar, At
<1> HIDE DEF TypeOK
<1> QED
  BY <1>1, <1>2, <1>3, <1>4, RequestMoves

\* The statuses of the errors that say nothing of a conflict.
LEMMA NoConflict ==
  /\ StatusOf(Prisma("P2025")) # 409
  /\ StatusOf(Prisma("P2024")) # 409
  /\ StatusOf(Http(400)) # 409
BY DEF StatusOf, StatusOfCode, Prisma, Http, NotFoundCodes, ConflictCodes,
       UnprocessableCodes, UnavailableCodes

\* A conflict that a request is told of without a transaction being aborted:
\* the unit is gone, or another booking that is stored has the night.
RealConflict(r) ==
  LET q == requests[r]
  IN  /\ q.plan # Null
      /\ \/ units[q.plan.unit] # "live"
         \/ \E d \in bookingDays :
              /\ Slot(d) \in {q.plan.unit} \X Nights(r)
              /\ d.booking # q.booking

LEMMA RefusalsAreReal ==
  ASSUME TxInv, NamedIsPlanned, NEW r \in Requests, Fail(r),
         StatusOf(ErrorOf(r)) = 409
  PROVE  RealConflict(r)
<1> DEFINE q == requests[r]
<1>1. q # Null /\ ErrorOf(r) # Null
  BY DEF Fail
<1>2. q.op # "remove" => q.plan \in Plan /\ q.plan # Null
  BY <1>1, RequestParts, BookingAssumption DEF TxInv, OpenInv
<1>3. \/ /\ q.op # "remove"
         /\ \E u \in NamedUnits(q) : units[u] # "live"
      \/ InTx(r, "days") /\ Taken(r)
      \/ InTx(r, "days") /\ ~DaysRefer(r)
  BY <1>1, NoConflict DEF ErrorOf
<1>4. CASE q.op # "remove" /\ \E u \in NamedUnits(q) : units[u] # "live"
  <2>1. q.op \in {"create", "update"}
    BY <1>1, <1>4, RequestParts DEF TxInv, OpenInv
  <2>2. NamedUnits(q) \subseteq {q.plan.unit}
    BY <1>1, <2>1 DEF NamedUnits, NamedIsPlanned
  <2> QED
    BY <1>2, <1>4, <2>2 DEF RealConflict
<1>5. ASSUME InTx(r, "days")
      PROVE  /\ q.op \in {"create", "update"}
             /\ tx[r] # Null /\ tx[r].stmt = "days"
  BY <1>5 DEF InTx, TxInv, LocksHold, TxOK
<1>6. CASE InTx(r, "days") /\ ~DaysRefer(r)
  BY <1>2, <1>5, <1>6 DEF DaysRefer, RealConflict
<1>7. CASE InTx(r, "days") /\ Taken(r)
  <2>1. PICK d \in bookingDays : Slot(d) = NextNight(r) /\ d \notin Cleared(r)
    BY <1>7 DEF Taken
  <2>2. d.booking # q.booking
    <3>1. CASE q.op = "update"
      BY <1>5, <1>7, <2>1, <3>1 DEF Cleared
    <3>2. CASE q.op = "create"
      <4>1. q.booking = Null
        BY <1>1, <3>2 DEF TxInv, OpenInv, TypeOK, Request
      <4>2. d.booking \in Int
        BY DEF TxInv, OpenInv, TypeOK, Day, BookingIds
      <4> QED
        BY <4>1, <4>2, InventoryAssumption
    <3> QED
      BY <1>5, <1>7, <3>1, <3>2
  <2>3. Slot(d) \in {q.plan.unit} \X Nights(r)
    BY <1>7, <2>1, NextNightIsLeft
  <2> QED
    BY <1>2, <1>5, <1>7, <2>2, <2>3 DEF RealConflict
<1> QED
  BY <1>3, <1>4, <1>6, <1>7

\* A request that a step ends with an error is the one that failed.
LEMMA ToldIsEnded ==
  ASSUME TxInv, NEW r \in Requests, [TxNext]_txVars,
         requests[r] # Null, requests'[r] = Null, answer' # Null
  PROVE  Fail(r) \/ Victim(r) \/ TimeOut(r)
<1>1. ~UNCHANGED txVars
  BY DEF txVars, vars, bookingVars
<1>2. PICK s \in Requests : Fail(s) \/ Victim(s) \/ TimeOut(s)
  BY <1>1
  DEF TxNext, Progress, Begin, Check, WriteRow, ClearDays, InsertDay, CommitTx,
      RemoveRow, CrashTx, Closing, Silent
<1>3. requests' = [requests EXCEPT ![s] = Null]
  BY <1>2 DEF Fail, Victim, TimeOut, Answer, End
<1>4. s = r
  BY <1>3 DEF TxInv, OpenInv, TypeOK
<1> QED
  BY <1>2, <1>4

\* README: 409 unique constraint.  Whatever is rolled back around it, a
\* request is told of a conflict only when a committed row or a missing unit
\* makes it one, or when its transaction was on a cycle or out of time.
THEOREM ConflictsAreAlwaysReal == TxSpec => ConflictsAreReal
<1> DEFINE Told ==
      \A r \in Requests :
        /\ requests[r] # Null /\ requests'[r] = Null
        /\ answer' # Null /\ StatusOf(answer') = 409
        => LET q == requests[r]
           IN  \/ /\ q.plan # Null
                  /\ \/ units[q.plan.unit] # "live"
                     \/ \E d \in bookingDays :
                          /\ Slot(d) \in {q.plan.unit} \X Nights(r)
                          /\ d.booking # q.booking
               \/ answer' = Prisma("P2034") /\ Deadlocked(r)
               \/ answer' = Prisma("P2028")
<1>1. TxInit => NamedIsPlanned
  BY DEF TxInit, Init, NamedIsPlanned
<1>2. TxInv /\ NamedIsPlanned /\ [TxNext]_txVars => NamedIsPlanned'
  BY TxStep, NamedStep DEF TxInv, OpenInv
<1>3. TxInv /\ NamedIsPlanned /\ [TxNext]_txVars => Told
  <2> SUFFICES ASSUME TxInv, NamedIsPlanned, [TxNext]_txVars,
                      NEW r \in Requests,
                      requests[r] # Null, requests'[r] = Null,
                      answer' # Null, StatusOf(answer') = 409
               PROVE  \/ RealConflict(r)
                      \/ answer' = Prisma("P2034") /\ Deadlocked(r)
                      \/ answer' = Prisma("P2028")
    BY DEF RealConflict
  <2>1. CASE Fail(r)
    BY <2>1, RefusalsAreReal DEF Fail, Answer
  <2>2. CASE Victim(r)
    BY <2>2 DEF Victim, Answer
  <2>3. CASE TimeOut(r)
    BY <2>3, NoConflict DEF TimeOut, Answer
  <2> QED
    BY <2>1, <2>2, <2>3, ToldIsEnded
<1> QED
  BY <1>1, <1>2, <1>3, TxInvariant, PTL DEF TxSpec, ConflictsAreReal

-----------------------------------------------------------------------------
(* What the statements inherit from the single steps.                      *)

\* References and days hold of what is committed, whatever is open.
THEOREM TransactionsKeepReferences == TxSpec => []ReferencesHold
BY TransactionsAreAtomic, ReferencesAreSafe, PTL DEF ImplementsBooking

\* Under statements, locks and rollbacks too, updates that take turns leave
\* exactly the nights of the bookings as they are stored.
THEOREM TransactionsKeepTheDays ==
  TxSpec /\ []UpdatesTakeTurns => []DaysMatchBooking
BY TransactionsAreAtomic, TurnsKeepDays, PTL DEF ImplementsBooking

\* And no night of a unit is sold to two active bookings.
THEOREM TransactionsNeverDoubleBook ==
  TxSpec /\ []UpdatesTakeTurns => []NoDoubleBooking
BY TransactionsAreAtomic, TurnsNeverDoubleBook, PTL DEF ImplementsBooking

\* A guest who waits for each answer loses no update between the statements of
\* the others either.
THEOREM TransactionsKeepPlansFresh == TxSpec => []PlansAreFresh
BY TransactionsAreAtomic, PlansStayFresh, PTL DEF ImplementsBooking

\* The days are exact and no night is sold twice when every guest waits for
\* each answer.
THEOREM WaitingGuestsAreNeverDoubleBooked ==
  ASSUME OneRequestPerGuest
  PROVE  TxSpec => [](DaysMatchBooking /\ NoDoubleBooking)
BY TransactionsAreAtomic, DaysAlwaysMatch, NeverDoubleBooked, PTL
DEF ImplementsBooking

=============================================================================

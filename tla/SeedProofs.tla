----------------------------- MODULE SeedProofs -----------------------------
(***************************************************************************)
(* Theorems about Seed: however the tables were used, in whatever order    *)
(* they are truncated and wherever earlier runs stopped, each step finds   *)
(* what it refers to, a run that ends leaves the seed, and the seed keeps  *)
(* the rules of the bookings.                                              *)
(***************************************************************************)
EXTENDS Seed, Functions, FiniteSetTheorems, SequenceTheorems, TLAPS

-----------------------------------------------------------------------------
(* The foreign keys have no cycle, so six rounds of CASCADE are all.       *)

\* The length of the longest chain of references from a table.
Depth(t) ==
  CASE t \in {"Role", "Amenity"} -> 0
    [] t = "User" -> 1
    [] t \in {"Token", "File", "Listing"} -> 2
    [] t \in {"Profile", "ListingUnit", "ListingFile", "_AmenityToListing"} -> 3
    [] t \in {"UnitCalendarDay", "Booking"} -> 4
    [] t \in {"BookingDay", "Review"} -> 5
    [] OTHER -> 6

\* A table is deeper than what it refers to.
LEMMA ReferencesGoUp ==
  /\ \A r \in References : Depth(r[2]) < Depth(r[1])
  /\ \A t \in Tables : Depth(t) \in 0 .. 6
BY DEF References, Tables, Depth

\* What refers to S and is not in S is at this depth, or deeper.
OpenBelow(S, depth) ==
  S \subseteq Tables /\ \A t \in ReferringTo(S) \ S : depth <= Depth(t)

\* One round of CASCADE closes one level.
LEMMA RoundCloses ==
  ASSUME NEW S, NEW depth \in Nat, OpenBelow(S, depth)
  PROVE  OpenBelow(S \cup ReferringTo(S), depth + 1)
<1> DEFINE T == S \cup ReferringTo(S)
<1>1. T \subseteq Tables
  BY DEF OpenBelow, ReferringTo, Tables
<1>2. ASSUME NEW t \in ReferringTo(T), t \notin T
      PROVE  depth + 1 <= Depth(t)
  <2>1. PICK r \in References : r[1] = t /\ r[2] \in T
    BY <1>2 DEF ReferringTo
  <2>2. r[2] \notin S
    BY <1>2, <2>1 DEF ReferringTo
  <2>3. depth <= Depth(r[2])
    BY <2>1, <2>2 DEF OpenBelow
  <2>4. Depth(r[2]) \in Int /\ Depth(t) \in Int /\ Depth(r[2]) < Depth(t)
    BY <1>1, <2>1, ReferencesGoUp DEF Tables
  <2> QED
    BY <2>3, <2>4
<1> QED
  BY <1>1, <1>2 DEF OpenBelow

\* TRUNCATE ... CASCADE leaves nothing that refers to what it emptied.
LEMMA TruncatedIsClosed ==
  ASSUME NEW t \in Tables
  PROVE  /\ t \in Truncated[t] /\ Truncated[t] \subseteq Tables
         /\ \A r \in References : r[2] \in Truncated[t] => r[1] \in Truncated[t]
<1> DEFINE More(S) == S \cup ReferringTo(S)
           S6 == More(More(More(More(More(More({t}))))))
<1>1. Truncated[t] = S6
  BY DEF Truncated
<1>2. OpenBelow({t}, 1)
  <2>1. ASSUME NEW x \in ReferringTo({t}) PROVE 1 <= Depth(x)
    <3>1. PICK r \in References : r[1] = x /\ r[2] = t
      BY <2>1 DEF ReferringTo
    <3>2. Depth(t) \in 0 .. 6 /\ Depth(x) \in 0 .. 6 /\ Depth(t) < Depth(x)
      BY <3>1, ReferencesGoUp DEF Tables
    <3> QED
      BY <3>2
  <2> QED
    BY <2>1 DEF OpenBelow
<1>3. \A S : \A n \in Nat : OpenBelow(S, n) => OpenBelow(More(S), n + 1)
  BY RoundCloses
<1>4. \A S : S \subseteq More(S)
  OBVIOUS
<1> HIDE DEF More
<1>5. OpenBelow(S6, 7)
  <2>1. OpenBelow(More({t}), 2)
    BY <1>2, <1>3
  <2>2. OpenBelow(More(More({t})), 3)
    BY <2>1, <1>3
  <2>3. OpenBelow(More(More(More({t}))), 4)
    BY <2>2, <1>3
  <2>4. OpenBelow(More(More(More(More({t})))), 5)
    BY <2>3, <1>3
  <2>5. OpenBelow(More(More(More(More(More({t}))))), 6)
    BY <2>4, <1>3
  <2> QED
    BY <2>5, <1>3
<1>6. t \in S6
  BY <1>4
<1> HIDE DEF S6
<1>7. ASSUME NEW r \in References, r[2] \in S6
      PROVE  r[1] \in S6
  <2>1. r[1] \in ReferringTo(S6) /\ r[1] \in Tables
    BY <1>7 DEF ReferringTo, Tables
  <2>2. ~ 7 <= Depth(r[1])
    BY <2>1, ReferencesGoUp
  <2> QED
    BY <1>5, <2>1, <2>2 DEF OpenBelow
<1> QED
  BY <1>1, <1>5, <1>6, <1>7 DEF OpenBelow

-----------------------------------------------------------------------------
(* The order of the steps.                                                 *)

\* The step that fills a table; 0 where there is none.
StepOf(t) ==
  CASE t = "Role" -> 1 [] t = "User" -> 2 [] t = "Profile" -> 3
    [] t = "Token" -> 4 [] t = "Amenity" -> 5
    [] t \in {"Listing", "_AmenityToListing"} -> 6
    [] t = "ListingUnit" -> 7 [] t = "UnitCalendarDay" -> 8
    [] t = "Booking" -> 9 [] t = "BookingDay" -> 10 [] t = "Review" -> 11
    [] OTHER -> 0

\* Every table is filled by one step at most.
LEMMA StepsFill ==
  /\ DOMAIN Order = 1 .. 11 /\ Len(Order) = 11
  /\ \A k \in 1 .. 11 : Order[k] \in Tables /\ StepOf(Order[k]) = k
  /\ \A k \in 1 .. 11, t \in Tables : t \in RowsOf(Order[k]) <=> StepOf(t) = k
  /\ \A k \in 1 .. 11 : RowsOf(Order[k]) \subseteq Tables
  /\ \A t \in Tables : StepOf(t) \in 0 .. 11
BY DEF Order, RowsOf, StepOf, Tables, References

\* What a row of a step must refer to is filled by an earlier step; only the
\* join table goes with its listings.
LEMMA ParentsComeFirst ==
  \A r \in References \ Optional :
    StepOf(r[1]) # 0 =>
      /\ StepOf(r[2]) # 0
      /\ \/ StepOf(r[2]) < StepOf(r[1])
         \/ r = <<"_AmenityToListing", "Listing">>
BY DEF References, Optional, StepOf

\* So it is for the tables that a step fills.
LEMMA ParentsOfStep ==
  ASSUME NEW k \in 1 .. 11, NEW x \in RowsOf(Order[k]),
         NEW p \in Parents[x] \ {Order[k]}
  PROVE  p \in Tables /\ StepOf(p) \in 1 .. k - 1
<1>1. x \in Tables /\ StepOf(x) = k
  BY StepsFill
<1>2. PICK r \in References \ Optional : r[1] = x /\ r[2] = p
  BY <1>1 DEF Parents
<1>3. p \in Tables /\ StepOf(p) \in 0 .. 11
  BY <1>2, StepsFill DEF Tables
<1>4. r # <<"_AmenityToListing", "Listing">>
  <2>1. ASSUME r = <<"_AmenityToListing", "Listing">>
        PROVE  FALSE
    <3>1. k = 6 /\ p = "Listing"
      BY <1>1, <1>2, <2>1 DEF StepOf
    <3> QED
      BY <3>1 DEF Order
  <2> QED
    BY <2>1
<1> QED
  BY <1>1, <1>2, <1>3, <1>4, ParentsComeFirst

-----------------------------------------------------------------------------
(* The data that the steps look up.                                        *)

\* There is a profile for each of the ten users.
LEMMA ProfilesSuffice == Cardinality(usernames) <= profileCount
<1> DEFINE names == <<"alex", "maria", "john", "elena", "ivan", "olga", "daniel",
                      "sophia", "nikita", "emma">>
           f == [n \in 1 .. 10 |-> names[n]]
<1>1. profileCount = 10 /\ profileCount \in Nat
  BY DEF profileCount
<1>2. /\ IsFiniteSet(1 .. profileCount)
      /\ Cardinality(1 .. profileCount) = profileCount
  <2>1. \A n \in Nat : IsFiniteSet(1 .. n) /\ Cardinality(1 .. n) = n
    BY FS_Interval
  <2>2. profileCount \in Nat
    BY <1>1
  <2> QED
    BY <2>1, <2>2
<1>3. f \in [1 .. profileCount -> usernames]
  BY <1>1 DEF usernames
<1>4. \A u \in usernames : \E n \in 1 .. 10 : f[n] = u
  <2>1. /\ f[1] = "alex" /\ f[2] = "maria" /\ f[3] = "john" /\ f[4] = "elena"
        /\ f[5] = "ivan" /\ f[6] = "olga" /\ f[7] = "daniel"
        /\ f[8] = "sophia" /\ f[9] = "nikita" /\ f[10] = "emma"
    OBVIOUS
  <2> HIDE DEF f
  <2> QED
    BY <2>1 DEF usernames
<1> HIDE DEF f
<1>5. f \in Surjection(1 .. profileCount, usernames)
  BY <1>1, <1>3, <1>4 DEF Surjection
<1> QED
  BY <1>2, <1>5, FS_Surjection

\* What the seed says of a stay of listing, unit and guest.
Known(b) ==
  b.guest \in usernames /\ b.unit \in 0 .. 21 /\ b.listing \in 0 .. 10

\* The two halves of the bookings name guests, units and listings that exist.
LEMMA StaysAreKnown ==
  /\ DOMAIN firstBookings = 1 .. 11 /\ Len(firstBookings) = 11
  /\ DOMAIN laterBookings = 1 .. 13 /\ Len(laterBookings) = 13
  /\ \A b \in 1 .. 11 : Known(firstBookings[b])
  /\ \A b \in 1 .. 13 : Known(laterBookings[b])
<1>1. ASSUME NEW u \in 0 .. 21, NEW g \in usernames, NEW l \in 0 .. 10,
             NEW in, NEW out, NEW n, NEW s
      PROVE  Known(Stay(u, g, l, in, out, n, s))
  BY <1>1 DEF Known, Stay
<1>2. \A b \in 1 .. 11 : Known(firstBookings[b])
  BY <1>1 DEF firstBookings, usernames
<1>3. \A b \in 1 .. 13 : Known(laterBookings[b])
  BY <1>1 DEF laterBookings, usernames
<1>4. /\ DOMAIN firstBookings = 1 .. 11 /\ Len(firstBookings) = 11
      /\ DOMAIN laterBookings = 1 .. 13 /\ Len(laterBookings) = 13
  BY DEF firstBookings, laterBookings
<1> QED
  BY <1>2, <1>3, <1>4

\* The bookings by their ids.
LEMMA BookingsAreListed ==
  /\ Len(seedBookings) = 24 /\ DOMAIN seedBookings = 1 .. 24
  /\ seedBookings = [b \in 1 .. 24 |-> seedBookings[b]]
  /\ \A b \in 1 .. 11 : seedBookings[b] = firstBookings[b]
  /\ \A b \in 12 .. 24 : seedBookings[b] = laterBookings[b - 11]
<1> DEFINE S == {firstBookings[b] : b \in 1 .. 11} \cup
                {laterBookings[b] : b \in 1 .. 13}
<1>1. /\ Len(firstBookings) = 11 /\ Len(laterBookings) = 13
      /\ firstBookings \in Seq(S) /\ laterBookings \in Seq(S)
  <2>1. /\ firstBookings = [b \in 1 .. 11 |-> firstBookings[b]]
        /\ laterBookings = [b \in 1 .. 13 |-> laterBookings[b]]
    BY DEF firstBookings, laterBookings
  <2>2. /\ \A b \in 1 .. 11 : firstBookings[b] \in S
        /\ \A b \in 1 .. 13 : laterBookings[b] \in S
    OBVIOUS
  <2> HIDE DEF S
  <2>3. /\ firstBookings \in [1 .. 11 -> S]
        /\ laterBookings \in [1 .. 13 -> S]
    BY <2>1, <2>2
  <2>4. \A n \in Nat : \A f \in [1 .. n -> S] : f \in Seq(S)
    OBVIOUS
  <2> QED
    BY <2>3, <2>4, StaysAreKnown
<1> HIDE DEF S
<1>2. ASSUME NEW f \in Seq(S), NEW g \in Seq(S)
      PROVE  /\ f \o g \in Seq(S) /\ Len(f \o g) = Len(f) + Len(g)
             /\ \A b \in 1 .. Len(f) + Len(g) :
                  (f \o g)[b] = IF b <= Len(f) THEN f[b] ELSE g[b - Len(f)]
  BY <1>2, ConcatProperties
<1>3. LET n == Len(firstBookings)
      IN  /\ seedBookings \in Seq(S)
          /\ Len(seedBookings) = n + Len(laterBookings)
          /\ \A b \in 1 .. n + Len(laterBookings) : seedBookings[b] =
               IF b <= n THEN firstBookings[b] ELSE laterBookings[b - n]
  BY <1>1, <1>2 DEF seedBookings
<1>4. seedBookings = [b \in 1 .. Len(seedBookings) |-> seedBookings[b]]
  <2>1. \A f \in Seq(S) : f = [b \in 1 .. Len(f) |-> f[b]]
    OBVIOUS
  <2> QED
    BY <1>3, <2>1
<1> QED
  BY <1>1, <1>3, <1>4

\* So do all the bookings.
LEMMA BookingsAreKnown ==
  \A b \in DOMAIN seedBookings : Known(seedBookings[b])
BY BookingsAreListed, StaysAreKnown

\* The listings, the units and the calendar name what exists too.
LEMMA ListingsAreKnown ==
  /\ Len(listingOwners) = 11 /\ Len(unitListings) = 22
  /\ \A o \in DOMAIN listingOwners : listingOwners[o] \in usernames
  /\ \A u \in DOMAIN unitListings : unitListings[u] \in 0 .. 10
  /\ \A d \in blockedDays \cup pricedDays : d[1] \in 0 .. 21
<1>1. Len(listingOwners) = 11 /\ Len(unitListings) = 22
  BY DEF listingOwners, unitListings
<1>2. \A o \in DOMAIN listingOwners : listingOwners[o] \in usernames
  BY DEF listingOwners, usernames
<1>3. \A u \in DOMAIN unitListings : unitListings[u] \in 0 .. 10
  BY DEF unitListings
<1>4. \A d \in blockedDays \cup pricedDays : d[1] \in 0 .. 21
  BY DEF blockedDays, pricedDays
<1> QED
  BY <1>1, <1>2, <1>3, <1>4

\* And the listings' amenities are among those created.
LEMMA AmenitiesAreKnown ==
  \A l \in DOMAIN listingAmenities : listingAmenities[l] \subseteq amenityCodes
BY DEF listingAmenities, amenityCodes

\* Every step finds the users, amenities, listings and units its data name.
LEMMA AllResolve == \A k \in 1 .. 11 : Order[k] \in Resolved
<1>1. \A k \in 1 .. 11 : Order[k] \in Filled
  BY StepsFill DEF Filled, RowsOf
<1> QED
  BY <1>1, ProfilesSuffice, ListingsAreKnown, AmenitiesAreKnown, BookingsAreKnown
  DEF Resolved, Known

-----------------------------------------------------------------------------
(* The inductive invariant.                                                *)

\* What the tables hold on the way down and on the way up, where step k is
\* the next one.
EmptyBut(S) == \A t \in Tables \ S : tables[t] = "empty"

FilledUpTo(k) ==
  \A t \in Tables :
    tables[t] = IF StepOf(t) \in 1 .. k - 1 THEN "seed" ELSE "empty"

SeedInv ==
  /\ phase \in {"off", "down", "up", "done"}
  /\ left \subseteq Tables /\ step \in 1 .. 11
  /\ tables \in [Tables -> {"used", "empty", "seed"}]
  /\ phase = "down" => EmptyBut(left)
  /\ phase = "up" => FilledUpTo(step)
  /\ phase = "done" => FilledUpTo(12)

\* Before the first run the application has filled the tables.
LEMMA SeedStarts == Init => SeedInv
BY DEF Init, SeedInv, Tables

\* A step may go on when the ones before it are done, and only they.
LEMMA StepAccepts ==
  ASSUME step \in 1 .. 11, FilledUpTo(step)
  PROVE  /\ Accepts(Order[step])
         /\ \A k \in step .. 11 : \A x \in RowsOf(Order[k]) :
              tables[x] = "empty"
<1>1. \A k \in step .. 11 : \A x \in RowsOf(Order[k]) : tables[x] = "empty"
  BY StepsFill DEF FilledUpTo
<1>2. \A x \in RowsOf(Order[step]) : \A p \in Parents[x] \ {Order[step]} :
        tables[p] = "seed"
  BY ParentsOfStep DEF FilledUpTo
<1>3. step \in step .. 11
  OBVIOUS
<1> QED
  BY <1>1, <1>2, <1>3, AllResolve DEF Accepts

\* TRUNCATE ... CASCADE.
LEMMA TruncateKeeps ==
  ASSUME SeedInv, Truncate
  PROVE  SeedInv'
<1>1. PICK t \in left :
        /\ left' = left \ {t}
        /\ tables' = [x \in Tables |->
             IF x \in Truncated[t] THEN "empty" ELSE tables[x]]
  BY DEF Truncate
<1>2. t \in Tables
  BY DEF SeedInv
<1>3. /\ t \in Truncated[t]
      /\ \A r \in References : r[2] \in Truncated[t] => r[1] \in Truncated[t]
  BY <1>2, TruncatedIsClosed
<1>4. EmptyBut(left)'
  BY <1>1, <1>2, <1>3 DEF SeedInv, EmptyBut, Truncate
<1> QED
  BY <1>1, <1>4 DEF SeedInv, Truncate

\* One step of `up`.
LEMMA FillKeeps ==
  ASSUME SeedInv, Fill
  PROVE  SeedInv'
<1> DEFINE t == Order[step]
<1>1. /\ phase = "up" /\ step \in 1 .. 11 /\ FilledUpTo(step)
      /\ tables' = [x \in Tables |-> IF x \in RowsOf(t) /\ tables[x] = "empty"
                                     THEN "seed" ELSE tables[x]]
      /\ left' = left
  BY DEF Fill, SeedInv
<1>2. IF step = 11 THEN phase' = "done" /\ step' = step
                   ELSE step' = step + 1 /\ phase' = "up"
  BY StepsFill DEF Fill
<1>3. \A x \in Tables : x \in RowsOf(t) <=> StepOf(x) = step
  BY <1>1, StepsFill
<1>4. \A x \in Tables :
        tables'[x] = IF StepOf(x) \in 1 .. step THEN "seed" ELSE "empty"
  BY <1>1, <1>3, StepsFill DEF FilledUpTo
<1>5. (phase' = "up" => FilledUpTo(step)') /\ (phase' = "done" => FilledUpTo(12)')
  BY <1>1, <1>2, <1>4 DEF FilledUpTo
<1>6. step' \in 1 .. 11 /\ phase' \in {"up", "done"}
  BY <1>1, <1>2
<1>7. tables' \in [Tables -> {"used", "empty", "seed"}]
  BY <1>1 DEF SeedInv
<1> QED
  BY <1>1, <1>5, <1>6, <1>7 DEF SeedInv

\* The application writes when the script does not run.
LEMMA UseKeeps ==
  ASSUME SeedInv, Use
  PROVE  SeedInv'
BY DEF SeedInv, Use

\* The script, its interruptions and the application keep the invariant.
LEMMA SeedStep == SeedInv /\ [Next]_vars => SeedInv'
<1> SUFFICES ASSUME SeedInv, [Next]_vars PROVE SeedInv'
  OBVIOUS
<1>1. CASE Start
  BY <1>1 DEF Start, Listed, SeedInv, EmptyBut
<1>2. CASE Truncate
  BY <1>2, TruncateKeeps
<1>3. CASE GoUp
  <2>1. \A t \in Tables : tables[t] = "empty"
    BY <1>3 DEF GoUp, SeedInv, EmptyBut
  <2>2. FilledUpTo(step)'
    BY <1>3, <2>1 DEF GoUp, FilledUpTo
  <2> QED
    BY <1>3, <2>2 DEF GoUp, SeedInv
<1>4. CASE Fill
  BY <1>4, FillKeeps
<1>5. CASE Stop
  BY <1>5 DEF Stop, SeedInv
<1>6. CASE Use
  BY <1>6, UseKeeps
<1>7. CASE UNCHANGED vars
  BY <1>7 DEF vars, SeedInv, EmptyBut, FilledUpTo
<1> QED
  BY <1>1, <1>2, <1>3, <1>4, <1>5, <1>6, <1>7 DEF Next

\* Truncation empties whatever refers to what it empties, and the steps fill
\* parents first.
THEOREM SeedInvariant == Spec => []SeedInv
BY SeedStarts, SeedStep, PTL DEF Spec

\* Each step finds what its rows refer to, and room for them, whatever the
\* runs before it and the application have left.
THEOREM StepsAlwaysFindTheirParents == Spec => []StepsFindTheirParents
<1>1. SeedInv => StepsFindTheirParents
  BY StepAccepts, StepsFill DEF SeedInv, StepsFindTheirParents
<1> QED
  BY <1>1, SeedInvariant, PTL

\* A run that ends leaves the seed in its tables, and the others empty.
THEOREM SeedIsCompleteWhenDone == Spec => []SeededWhenDone
<1>1. SeedInv => SeededWhenDone
  <2>1. \A t \in Tables : t \in Filled <=> StepOf(t) \in 1 .. 11
    BY StepsFill DEF Filled
  <2> QED
    BY <2>1 DEF SeedInv, FilledUpTo, SeededWhenDone
<1> QED
  BY <1>1, SeedInvariant, PTL

-----------------------------------------------------------------------------
(* The data keep the rules of the bookings.                                *)

\* The months, counted from the 1st of March.
LEMMA MonthsStart ==
  \A d \in Int :
    /\ Day(3, d) = d - 1 /\ Day(4, d) = 30 + d /\ Day(5, d) = 60 + d
    /\ Day(6, d) = 91 + d /\ Day(7, d) = 121 + d /\ Day(8, d) = 152 + d
    /\ Day(9, d) = 183 + d /\ Day(10, d) = 213 + d /\ Day(11, d) = 244 + d
    /\ Day(12, d) = 274 + d
<1> DEFINE before == <<0, 31, 61, 92, 122, 153, 184, 214, 245, 275>>
<1>1. \A m \in 3 .. 12 : DaysBefore[m] = before[m - 2]
  BY DEF DaysBefore
<1>2. /\ before[1] = 0 /\ before[2] = 31 /\ before[3] = 61 /\ before[4] = 92
      /\ before[5] = 122 /\ before[6] = 153 /\ before[7] = 184
      /\ before[8] = 214 /\ before[9] = 245 /\ before[10] = 275
  OBVIOUS
<1> HIDE DEF before
<1>3. /\ DaysBefore[3] = 0 /\ DaysBefore[4] = 31 /\ DaysBefore[5] = 61
      /\ DaysBefore[6] = 92 /\ DaysBefore[7] = 122 /\ DaysBefore[8] = 153
      /\ DaysBefore[9] = 184 /\ DaysBefore[10] = 214 /\ DaysBefore[11] = 245
      /\ DaysBefore[12] = 275
  BY <1>1, <1>2
<1> QED
  BY <1>3 DEF Day

\* What the rules ask of a row, but for the other rows: a unit of the listing
\* that it names, a stay of a night at least, no more guests than fit.
Orderly(x) ==
  /\ x \in Seeded!Row
  /\ x.listing = unitListings[x.unit + 1]
  /\ x.checkIn < x.checkOut
  /\ x.guestsCount <= unitCapacities[x.unit + 1]

\* A stay in the seed's words is a row of the table.
LEMMA StayIsOrderly ==
  ASSUME NEW u \in 0 .. 21, NEW g \in usernames, NEW l \in 0 .. 10,
         NEW in \in 0 .. LastDay, NEW out \in 0 .. LastDay, NEW n \in Nat,
         NEW s \in Seeded!Statuses, l = unitListings[u + 1], in < out,
         n <= unitCapacities[u + 1]
  PROVE  Orderly(Stay(u, g, l, in, out, n, s))
BY DEF Orderly, Stay, Seeded!Row, Seeded!Dates

\* Each listing has two units; the capacities are those the rows may have.
LEMMA UnitsAsSeeded ==
  /\ \A u \in 0 .. 21 : 2 * unitListings[u + 1] \in {u, u - 1}
  /\ \A u \in 0 .. 21 : unitCapacities[u + 1] \in 1 .. 6
BY DEF unitListings, unitCapacities

\* The same on the numbers that the data come to.
Fits(u, l, in, out, n) ==
  /\ u \in 0 .. 21 /\ l \in 0 .. 10 /\ 2 * l \in {u, u - 1}
  /\ in \in 0 .. 290 /\ out \in 0 .. 290 /\ in < out
  /\ n \in Nat /\ n <= unitCapacities[u + 1]

\* Its listing is the one of its unit, since each listing has two units.
LEMMA FitIsOrderly ==
  ASSUME NEW u, NEW g \in usernames, NEW l, NEW in, NEW out, NEW n,
         NEW s \in Seeded!Statuses, Fits(u, l, in, out, n)
  PROVE  Orderly(Stay(u, g, l, in, out, n, s))
<1>1. u \in 0 .. 21 /\ l = unitListings[u + 1]
  <2>1. \A k \in 0 .. 10 : 2 * k \in {u, u - 1} => k = l
    BY DEF Fits
  <2>2. u \in 0 .. 21 => unitListings[u + 1] \in 0 .. 10
    BY DEF unitListings
  <2> QED
    BY <2>1, <2>2, UnitsAsSeeded DEF Fits
<1> QED
  BY <1>1, StayIsOrderly DEF Fits, LastDay

\* Each stay of the data, one by one.
LEMMA StaysAreOrderly ==
  /\ \A b \in 1 .. 11 : Orderly(firstBookings[b])
  /\ \A b \in 1 .. 13 : Orderly(laterBookings[b])
<1>1. /\ Fits(0, 0, Day(6, 15), Day(6, 18), 2)
      /\ Fits(2, 1, Day(5, 10), Day(5, 13), 4)
      /\ Fits(4, 2, Day(7, 2), Day(7, 5), 1)
      /\ Fits(0, 0, Day(5, 1), Day(5, 4), 2)
      /\ Fits(1, 0, Day(6, 20), Day(6, 22), 2)
      /\ Fits(2, 1, Day(7, 1), Day(7, 5), 5)
      /\ Fits(3, 1, Day(7, 15), Day(7, 18), 2)
      /\ Fits(5, 2, Day(4, 11), Day(4, 14), 1)
      /\ Fits(6, 3, Day(8, 3), Day(8, 8), 4)
      /\ Fits(7, 3, Day(8, 10), Day(8, 12), 3)
      /\ Fits(8, 4, Day(3, 20), Day(3, 23), 2)
  BY MonthsStart DEF Fits, unitCapacities
<1>2. \A b \in 1 .. 11 : Orderly(firstBookings[b])
  BY <1>1, FitIsOrderly DEF firstBookings, usernames, Seeded!Statuses
<1>3. /\ Fits(9, 4, Day(9, 1), Day(9, 3), 1)
      /\ Fits(10, 5, Day(6, 5), Day(6, 9), 1)
      /\ Fits(11, 5, Day(6, 12), Day(6, 14), 1)
      /\ Fits(12, 6, Day(7, 20), Day(7, 22), 2)
      /\ Fits(13, 6, Day(7, 20), Day(7, 24), 2)
      /\ Fits(14, 7, Day(9, 10), Day(9, 15), 3)
      /\ Fits(15, 7, Day(10, 1), Day(10, 4), 2)
      /\ Fits(16, 8, Day(5, 25), Day(5, 28), 2)
      /\ Fits(17, 8, Day(6, 30), Day(7, 3), 2)
      /\ Fits(18, 9, Day(11, 11), Day(11, 13), 2)
      /\ Fits(19, 9, Day(11, 15), Day(11, 17), 2)
      /\ Fits(20, 10, Day(12, 5), Day(12, 8), 2)
      /\ Fits(21, 10, Day(12, 12), Day(12, 14), 2)
  BY MonthsStart DEF Fits, unitCapacities
<1>4. \A b \in 1 .. 13 : Orderly(laterBookings[b])
  BY <1>3, FitIsOrderly DEF laterBookings, usernames, Seeded!Statuses
<1> QED
  BY <1>2, <1>4

\* Bookings 1 and 4 share unit 0, bookings 2 and 6 share unit 2; every other
\* unit has one booking at most.
LEMMA UnitsAreShared ==
  \A b, c \in 1 .. 24 :
    b # c /\ seedBookings[b].unit = seedBookings[c].unit =>
      {b, c} = {1, 4} \/ {b, c} = {2, 6}
<1>1. /\ firstBookings[1].unit = 0 /\ firstBookings[2].unit = 2
      /\ firstBookings[3].unit = 4 /\ firstBookings[4].unit = 0
      /\ firstBookings[5].unit = 1 /\ firstBookings[6].unit = 2
      /\ \A b \in 7 .. 11 : firstBookings[b].unit = IF b = 7 THEN 3 ELSE b - 3
  BY DEF firstBookings, Stay
<1>2. \A b \in 1 .. 13 : laterBookings[b].unit = b + 8
  BY DEF laterBookings, Stay
<1>3. \A b \in 1 .. 24 : seedBookings[b].unit =
        IF b \in {1, 4} THEN 0 ELSE IF b = 5 THEN 1 ELSE IF b \in {2, 6} THEN 2
        ELSE IF b = 7 THEN 3 ELSE IF b = 3 THEN 4 ELSE b - 3
  BY <1>1, <1>2, BookingsAreListed
<1> QED
  BY <1>3

\* Nor do those two pairs share a night.
LEMMA SharedUnitsAreFree ==
  \A b, c \in 1 .. 24 :
    b # c /\ seedBookings[b].unit = seedBookings[c].unit =>
      \/ seedBookings[b].checkOut <= seedBookings[c].checkIn
      \/ seedBookings[c].checkOut <= seedBookings[b].checkIn
<1>1. /\ firstBookings[1].checkIn = Day(6, 15) /\ firstBookings[4].checkOut = Day(5, 4)
      /\ firstBookings[2].checkOut = Day(5, 13) /\ firstBookings[6].checkIn = Day(7, 1)
  BY DEF firstBookings, Stay
<1>2. /\ seedBookings[4].checkOut <= seedBookings[1].checkIn
      /\ seedBookings[2].checkOut <= seedBookings[6].checkIn
  BY <1>1, MonthsStart, BookingsAreListed
<1>3. ASSUME NEW b \in 1 .. 24, NEW c \in 1 .. 24,
             b # c, seedBookings[b].unit = seedBookings[c].unit
      PROVE  \/ (b = 1 /\ c = 4) \/ (b = 4 /\ c = 1)
             \/ (b = 2 /\ c = 6) \/ (b = 6 /\ c = 2)
  <2>1. {b, c} = {1, 4} \/ {b, c} = {2, 6}
    BY <1>3, UnitsAreShared
  <2> QED
    BY <2>1
<1> QED
  BY <1>2, <1>3

\* Every booking of the seed is stored, and orderly.
LEMMA AllAreStored ==
  /\ Seeded!BookingIds = 1 .. 24 /\ Seeded!Stored = 1 .. 24
  /\ \A b \in 1 .. 24 : Orderly(seedBookings[b])
<1>1. Seeded!BookingIds = 1 .. 24
  BY BookingsAreListed DEF Seeded!BookingIds
<1>2. \A b \in 1 .. 24 : seedBookings[b] # Null
  BY BookingsAreListed, SeedAssumption
<1> QED
  BY <1>1, <1>2, BookingsAreListed, StaysAreOrderly DEF Seeded!Stored

\* createBookingDays writes the days that syncBookingDays would.
LEMMA SeedDaysAreRows ==
  /\ SeedDays = UNION {Seeded!DayRows(b, seedBookings[b]) : b \in 1 .. 24}
  /\ \A b \in 1 .. 24 : {d \in SeedDays : d.booking = b} =
                        Seeded!DayRows(b, seedBookings[b])
<1> DEFINE Rows(b) == Seeded!DayRows(b, seedBookings[b])
<1>1. \A b \in 1 .. 24 : \A d \in Rows(b) : d.booking = b
  BY DEF Seeded!DayRows
<1>2. ASSUME NEW b \in 1 .. 24,
             seedBookings[b].status \in statusesWithBlockedDays
      PROVE  Rows(b) = {[booking |-> b, unit |-> seedBookings[b].unit, date |-> d] :
                          d \in getStayDates(seedBookings[b].checkIn,
                                             seedBookings[b].checkOut)}
  BY <1>2 DEF Seeded!DayRows, Seeded!Occupies, Seeded!StayDates, Seeded!Dates,
              Seeded!statusesWithBlockedDays, statusesWithBlockedDays, getStayDates
<1>3. ASSUME NEW b \in 1 .. 24,
             seedBookings[b].status \notin statusesWithBlockedDays
      PROVE  Rows(b) = {}
  BY <1>3 DEF Seeded!DayRows, Seeded!Occupies, Seeded!statusesWithBlockedDays,
              statusesWithBlockedDays
<1> HIDE DEF Rows
<1>4. SeedDays = UNION {Rows(b) : b \in 1 .. 24}
  <2>1. DOMAIN seedBookings = 1 .. 24
    BY BookingsAreListed
  <2> QED
    BY <1>2, <1>3, <2>1 DEF SeedDays
<1>5. \A b \in 1 .. 24 : {d \in SeedDays : d.booking = b} = Rows(b)
  BY <1>1, <1>4
<1> QED
  BY <1>4, <1>5 DEF Rows

\* A day row is a night of a stay.
LEMMA RowsAreNights ==
  ASSUME NEW d \in SeedDays
  PROVE  /\ d.booking \in 1 .. 24 /\ d.date \in 0 .. LastDay
         /\ d.unit = seedBookings[d.booking].unit
         /\ seedBookings[d.booking].checkIn <= d.date
         /\ d.date < seedBookings[d.booking].checkOut
         /\ d = [booking |-> d.booking, unit |-> d.unit, date |-> d.date]
<1>1. PICK b \in 1 .. 24 : d \in Seeded!DayRows(b, seedBookings[b])
  BY SeedDaysAreRows
<1>2. PICK n \in Seeded!StayDates(seedBookings[b].checkIn, seedBookings[b].checkOut) :
        d = [booking |-> b, unit |-> seedBookings[b].unit, date |-> n]
  BY <1>1 DEF Seeded!DayRows
<1>3. /\ n \in 0 .. LastDay /\ seedBookings[b].checkIn <= n
      /\ n < seedBookings[b].checkOut
  BY DEF Seeded!StayDates, Seeded!Dates
<1> QED
  BY <1>2, <1>3

\* The rows are of the types of their tables.
LEMMA SeedIsTyped == Seeded!TypeOK
<1>1. Seeded!InventoryTypeOK
  BY UnitsAsSeeded
  DEF Seeded!InventoryTypeOK, Seeded!Lives, Seeded!Dates, Seeded!DayStates,
      SeedCalendar
<1>2. seedBookings \in [Seeded!BookingIds -> Seeded!Row \cup {Null}]
  <2>1. seedBookings = [b \in 1 .. 24 |-> seedBookings[b]]
    BY BookingsAreListed
  <2> QED
    BY <2>1, AllAreStored DEF Orderly
<1>3. SeedDays \subseteq Seeded!Day
  BY RowsAreNights, AllAreStored
  DEF Seeded!Day, Seeded!Dates, Orderly, Seeded!Row
<1>4. Len(seedBookings) + 1 \in 1 .. Len(seedBookings) + 1
  BY BookingsAreListed
<1>5. <<>> \in [{} -> Seeded!Request \cup {Null}]
  OBVIOUS
<1> QED
  BY <1>1, <1>2, <1>3, <1>4, <1>5 DEF Seeded!TypeOK

\* A booking names its unit's own listing, a day row its booking's unit.
LEMMA SeedKeepsReferences == Seeded!ReferencesHold
<1>1. \A b \in 1 .. 24 : /\ seedBookings[b].unit \in 0 .. 21
                         /\ seedBookings[b].listing \in 0 .. 10
                         /\ seedBookings[b].listing =
                              unitListings[seedBookings[b].unit + 1]
  BY AllAreStored, BookingsAreListed, StaysAreKnown DEF Orderly, Known
<1> QED
  BY <1>1, AllAreStored, RowsAreNights DEF Seeded!ReferencesHold

\* No night of a unit has two day rows.
LEMMA SeedDaysAreUnique == Seeded!UniqueDay
<1> SUFFICES ASSUME NEW d \in SeedDays, NEW e \in SeedDays,
                    d.unit = e.unit, d.date = e.date
             PROVE  d = e
  BY DEF Seeded!UniqueDay
<1>1. d.booking = e.booking
  <2> DEFINE b == d.booking
             c == e.booking
  <2>1. /\ b \in 1 .. 24 /\ c \in 1 .. 24 /\ d.date \in Int
        /\ seedBookings[b].unit = seedBookings[c].unit
        /\ seedBookings[b].checkIn <= d.date /\ d.date < seedBookings[b].checkOut
        /\ seedBookings[c].checkIn <= d.date /\ d.date < seedBookings[c].checkOut
    BY RowsAreNights DEF LastDay
  <2>2. \A x \in 1 .. 24 : /\ seedBookings[x].checkIn \in Int
                          /\ seedBookings[x].checkOut \in Int
    <3>1. LastDay \in Int
      BY DEF LastDay
    <3>2. \A x \in 1 .. 24 : seedBookings[x] \in Seeded!Row
      BY AllAreStored DEF Orderly
    <3> QED
      BY <3>1, <3>2 DEF Seeded!Row, Seeded!Dates
  <2> HIDE DEF b, c
  <2>3. /\ seedBookings[b].checkIn \in Int /\ seedBookings[b].checkOut \in Int
        /\ seedBookings[c].checkIn \in Int /\ seedBookings[c].checkOut \in Int
    BY <2>1, <2>2
  <2>4. b # c => \/ seedBookings[b].checkOut <= seedBookings[c].checkIn
                 \/ seedBookings[c].checkOut <= seedBookings[b].checkIn
    BY <2>1, SharedUnitsAreFree
  <2>5. b = c
    BY <2>1, <2>3, <2>4
  <2> QED
    BY <2>5 DEF b, c
<1> QED
  BY <1>1, RowsAreNights

\* The day rows are exact, nobody is double-booked, guests fit.
LEMMA SeedKeepsRules ==
  Seeded!DaysMatchBooking /\ Seeded!NoDoubleBooking /\ Seeded!RulesHold
<1>1. Seeded!DaysMatchBooking
  BY AllAreStored, SeedDaysAreRows DEF Seeded!DaysMatchBooking
<1>2. Seeded!NoDoubleBooking
  BY AllAreStored, SharedUnitsAreFree DEF Seeded!NoDoubleBooking
<1>3. Seeded!RulesHold
  BY AllAreStored
  DEF Seeded!RulesHold, Seeded!GuestsFit, Seeded!StayIsNonEmpty, Orderly, Seeded!Row
<1> QED
  BY <1>1, <1>2, <1>3

\* The seed is a state that the services could have reached.
THEOREM SeedAlwaysObeysRules == Spec => []SeedObeysRules
<1>1. SeedObeysRules
  BY SeedIsTyped, SeedKeepsReferences, SeedDaysAreUnique, SeedKeepsRules
  DEF SeedObeysRules
<1> QED
  BY <1>1, PTL

=============================================================================

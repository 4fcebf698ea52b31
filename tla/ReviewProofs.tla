---------------------------- MODULE ReviewProofs ----------------------------
(***************************************************************************)
(* Theorems about Review, for all inventories, accounts, requests and      *)
(* POSTs: a review always has its booking, whose guest wrote it, and a     *)
(* live listing, and no account goes that a booking refers to; and what    *)
(* the bookings promise alone they promise while accounts are deleted.     *)
(***************************************************************************)
EXTENDS Review, BookingAuditProofs

-----------------------------------------------------------------------------
(* The inductive invariant.                                                *)

ReviewTypeOK ==
  /\ accounts \subseteq Users
  /\ reviews \in [BookingIds -> ReviewRow \cup {Null}]
  /\ posts \in [Posts -> Post \cup {Null}]

\* A POST names a booking that was given out, and while that is stored its
\* guest is the POST's author.
PostsHold ==
  \A p \in Posts : posts[p] # Null =>
    /\ posts[p].booking < nextId
    /\ posts[p].booking \in Stored =>
         bookings[posts[p].booking].guest = posts[p].author

\* OpenInv says that ids are not given out twice: a review or a POST cannot
\* come to mean another booking.
ReviewInv ==
  OpenInv /\ ReviewTypeOK /\ PostsHold /\ ReviewsHold /\ AccountsAreKept

-----------------------------------------------------------------------------
(* What the steps of the bookings do to a booking.                         *)

\* Rows that are stored keep their guest, and ids that were given out and are
\* not stored stay so.
RowsStand ==
  /\ nextId <= nextId'
  /\ \A b \in BookingIds : b < nextId /\ bookings'[b] # Null =>
       bookings[b] # Null /\ bookings'[b].guest = bookings[b].guest

LEMMA BookingsStand ==
  ASSUME OpenInv, [Next]_vars
  PROVE  RowsStand
<1> USE DEF OpenInv, TypeOK
<1>0. nextId \in Nat
  BY BookingAssumption
<1>1. CASE Quiet \/ UNCHANGED vars
  BY <1>0, <1>1, QuietIsQuiet DEF tables, vars, bookingVars, RowsStand
<1>2. ASSUME NEW r \in Requests, CommitCreate(r)
      PROVE  RowsStand
  <2>1. /\ nextId' = nextId + 1
        /\ \A b \in BookingIds \ {nextId} : bookings'[b] = bookings[b]
    BY <1>2, CreateEffect DEF CommitCreate
  <2> QED
    BY <1>0, <2>1 DEF RowsStand
<1>3. ASSUME NEW r \in Requests, CommitUpdate(r)
      PROVE  RowsStand
  <2> DEFINE q == requests[r]
             b == q.booking
             row == Written(q.dto, bookings[b])
  <2>1. b \in Stored /\ bookings' = [bookings EXCEPT ![b] = row] /\ nextId' = nextId
    BY <1>3, UpdateEffect DEF CommitUpdate
  <2>2. row.guest = bookings[b].guest
    BY DEF Written
  <2> HIDE DEF q, b, row
  <2>3. \A c \in BookingIds : bookings'[c] = IF c = b THEN row ELSE bookings[c]
    BY <2>1
  <2> QED
    BY <1>0, <2>1, <2>2, <2>3 DEF RowsStand, Stored
<1>4. ASSUME NEW r \in Requests, CommitRemove(r)
      PROVE  RowsStand
  <2>1. /\ bookings' = [bookings EXCEPT ![requests[r].booking] = Null]
        /\ nextId' = nextId
    BY <1>4, RemoveEffect DEF CommitRemove
  <2> QED
    BY <1>0, <2>1 DEF RowsStand
<1>5. CASE HostStep
  <2>1. bookings' = bookings /\ nextId' = nextId
    BY <1>5, DeleteListingEffect
    DEF HostStep, bookingVars, DeleteUnit, DeleteListing
  <2> QED
    BY <1>0, <2>1 DEF RowsStand
<1> QED
  BY <1>1, <1>2, <1>3, <1>4, <1>5 DEF Next, GuestStep, Quiet

\* No step of the bookings brings a deleted listing back.
LEMMA OnlyUnbornAreBorn ==
  ASSUME InventoryTypeOK, [Next]_vars, NEW l \in Listings,
         listings'[l] = "live"
  PROVE  listings[l] \in {"live", "unborn"}
<1>1. CASE GuestStep \/ UNCHANGED vars
  BY <1>1, GuestsLeaveInventory DEF vars, inventoryVars
<1>2. ASSUME NEW o \in Users, NEW k \in Listings, CreateListing(o, k)
      PROVE  listings[l] \in {"live", "unborn"}
  BY <1>2 DEF CreateListing, InventoryTypeOK
<1>3. ASSUME NEW o \in Users, NEW k \in Listings, DeleteListing(o, k)
      PROVE  listings[l] \in {"live", "unborn"}
  BY <1>3 DEF DeleteListing, RemoveListing, InventoryTypeOK
<1>4. ASSUME NEW o \in Users, NEW u \in Units, DeleteUnit(o, u)
      PROVE  listings' = listings
  BY <1>4 DEF DeleteUnit, RemoveUnit
<1>5. CASE OwnerStep
  <2>1. ASSUME NEW o \in Users, NEW u \in Units, NEW c \in Capacities,
               CreateUnit(o, u, c) \/ UpdateUnit(o, u, c)
        PROVE  listings' = listings
    BY <2>1 DEF CreateUnit, UpdateUnit
  <2>2. ASSUME NEW o \in Users, NEW u \in Units, NEW d \in Dates,
               NEW s \in DayStates \cup {Null},
               \/ CreateDay(o, u, d, s)
               \/ \E v \in Units \cup {Null}, e \in Dates \cup {Null} :
                    UpdateDay(o, u, d, v, e, s)
        PROVE  listings' = listings
    BY <2>2 DEF CreateDay, UpdateDay
  <2>3. ASSUME NEW o \in Users, NEW u \in Units, NEW d \in Dates,
               RemoveDay(o, u, d)
        PROVE  listings' = listings
    BY <2>3 DEF RemoveDay
  <2>4. CASE listings' = listings
    BY <2>4
  <2> QED
    BY <1>2, <1>5, <2>1, <2>2, <2>3, <2>4 DEF OwnerStep
<1> QED
  BY <1>1, <1>2, <1>3, <1>4, <1>5 DEF Next, HostStep

-----------------------------------------------------------------------------
(* What the deletion of an account does.                                   *)

\* It finds no booking of the account's listings, nulls no column, and
\* leaves the tables as the cascades promise.
LEMMA RemoveAccountEffect ==
  ASSUME OpenInv, NEW o \in Users, RemoveAccount(o)
  PROVE  /\ OpenInv'
         /\ bookings' = bookings
         /\ \A b \in Stored :
              bookings[b].guest # o /\ ownerOf[listingOf[bookings[b].unit]] # o
         /\ \A l \in Listings : listings'[l] = "live" =>
              listings[l] = "live" /\ ownerOf[l] # o
<1> DEFINE L == ListingsOf(o)
           U == {u \in Units : listingOf[u] \in L}
<1>0. TypeOK /\ OwnedByTheLiving /\ FreshIds /\ ReferencesHold /\ UniqueDay
  BY DEF OpenInv
<1>1. \A b \in Stored : /\ bookings[b] \in Row
                        /\ bookings[b].unit \in Units
                        /\ listingOf[bookings[b].unit] \in Listings
  BY <1>0, InventoryAssumption DEF TypeOK, Stored, Row
<1>2. \A b \in Stored : /\ bookings[b].guest # o
                        /\ ownerOf[listingOf[bookings[b].unit]] # o
  BY <1>1 DEF RemoveAccount, Removable, Unbooked
<1>3. \A l \in Listings : l \in L <=> ownerOf[l] = o /\ listings[l] = "live"
  BY DEF ListingsOf
<1>4. \A b \in Stored : /\ listingOf[bookings[b].unit] \notin L
                        /\ bookings[b].listing \notin L
                        /\ bookings[b].unit \notin U
  BY <1>0, <1>1, <1>2, <1>3 DEF ReferencesHold
<1>5. /\ listings' = [l \in Listings |->
                        IF l \in L THEN "deleted" ELSE listings[l]]
      /\ units' = [u \in Units |-> IF u \in U /\ units[u] = "live"
                                     THEN "deleted" ELSE units[u]]
      /\ calendar' = CalendarWithout(U)
      /\ bookingDays' = {d \in bookingDays : d.unit \notin U}
      /\ UNCHANGED <<capacity, nextId, requests>>
  BY DEF RemoveAccount
<1>6. bookings' = bookings
  <2>1. bookings' = [b \in BookingIds |->
           IF b \in Stored /\ bookings[b].listing \in L
           THEN [bookings[b] EXCEPT !.listing = Null] ELSE bookings[b]]
    BY DEF RemoveAccount
  <2>2. bookings \in [BookingIds -> Row \cup {Null}]
    BY <1>0 DEF TypeOK
  <2> HIDE DEF L
  <2> QED
    BY <1>4, <2>1, <2>2
<1>7. \A u \in Units : u \in U <=> listingOf[u] \in L
  OBVIOUS
<1>8. /\ calendar' \in [Units -> [Dates -> DayStates \cup {Null}]]
      /\ \A u \in Units, d \in Dates :
           calendar'[u][d] = IF u \in U THEN Null ELSE calendar[u][d]
  BY <1>0, <1>5, CalendarWithoutType DEF TypeOK, InventoryTypeOK
<1> HIDE DEF L, U
<1>9. TypeOK'
  <2>1. listings' \in [Listings -> Lives] /\ units' \in [Units -> Lives]
    BY <1>0, <1>5 DEF TypeOK, InventoryTypeOK, Lives
  <2> QED
    BY <1>0, <1>5, <1>6, <1>8, <2>1 DEF TypeOK, InventoryTypeOK
<1>10. OwnedByTheLiving'
  <2>1. \A u \in Units : listingOf[u] \in Listings
    BY InventoryAssumption
  <2> QED
    BY <1>0, <1>5, <1>7, <1>8, <2>1 DEF OwnedByTheLiving
<1>11. FreshIds' /\ UniqueDay'
  BY <1>0, <1>5, <1>6 DEF FreshIds, UniqueDay
<1>12. ReferencesHold'
  <2>1. Stored' = Stored
    BY <1>6 DEF Stored
  <2>2. \A d \in bookingDays : d.unit \in Units
    BY <1>0 DEF TypeOK, Day
  <2> QED
    BY <1>0, <1>1, <1>4, <1>5, <1>6, <2>1, <2>2 DEF ReferencesHold
<1>13. \A l \in Listings : listings'[l] = "live" =>
         listings[l] = "live" /\ ownerOf[l] # o
  BY <1>3, <1>5
<1> QED
  BY <1>2, <1>6, <1>9, <1>10, <1>11, <1>12, <1>13 DEF OpenInv

-----------------------------------------------------------------------------
(* The steps.                                                              *)

LEMMA ReviewStarts == ReviewInit => ReviewInv
<1> SUFFICES ASSUME ReviewInit PROVE ReviewInv
  OBVIOUS
<1>1. Init /\ OpenInv
  BY OpenInit DEF ReviewInit, AuditInit
<1>2. Stored = {} /\ Reviewed = {}
  BY <1>1 DEF Init, Stored, ReviewInit, Reviewed
<1>3. \A l \in Listings : ownerOf[l] \in Users
  BY InventoryAssumption
<1> QED
  BY <1>1, <1>2, <1>3
  DEF ReviewInit, ReviewInv, ReviewTypeOK, PostsHold, ReviewsHold,
      AccountsAreKept

\* A row of a listing, or a review, that the foreign keys keep is the one
\* that was there: the cascade leaves no review without its booking.
LEMMA CascadesHold ==
  ASSUME ReviewInv, OpenInv', RowsStand, Cascades, UNCHANGED posts,
         accounts' \subseteq accounts
  PROVE  ReviewTypeOK' /\ PostsHold' /\ ReviewsHold'
         /\ \A b \in Reviewed' : reviews'[b].author \in accounts'
<1> USE DEF ReviewInv
<1>1. \A b \in Stored : b < nextId
  <2>1. \A b \in BookingIds : b \in Int
    BY DEF BookingIds
  <2>2. nextId \in Int
    BY BookingAssumption DEF OpenInv, TypeOK
  <2> QED
    BY <2>1, <2>2 DEF OpenInv, FreshIds, Stored
<1>2. \A b \in BookingIds :
        /\ reviews'[b] \in {reviews[b], Null}
        /\ reviews'[b] # Null => b \in Reviewed /\ Kept(b)
  BY DEF Cascades
<1>3. ReviewTypeOK'
  <2>1. reviews' \in [BookingIds -> ReviewRow \cup {Null}]
    BY DEF Cascades, Reviewed, ReviewTypeOK
  <2> QED
    BY <2>1 DEF ReviewTypeOK
<1>4. ASSUME NEW p \in Posts, posts'[p] # Null
      PROVE  /\ posts'[p].booking < nextId'
             /\ posts'[p].booking \in Stored' =>
                  bookings'[posts'[p].booking].guest = posts'[p].author
  <2> DEFINE q == posts[p]
             b == q.booking
  <2>1. q \in Post /\ posts'[p] = q /\ q # Null
    BY <1>4 DEF ReviewTypeOK
  <2>2. b \in BookingIds /\ b < nextId
    BY <2>1 DEF Post, PostsHold
  <2>3. b \in Stored => bookings[b].guest = q.author
    BY <2>1 DEF PostsHold
  <2> HIDE DEF q, b
  <2>4. nextId \in Int /\ nextId' \in Int /\ b \in Int
    BY <2>2, BookingAssumption DEF OpenInv, TypeOK, BookingIds
  <2>5. b < nextId' /\ (b \in Stored' => bookings'[b].guest = q.author)
    BY <2>2, <2>3, <2>4 DEF RowsStand, Stored
  <2> QED
    BY <2>1, <2>5 DEF b
<1>5. PostsHold'
  BY <1>4 DEF PostsHold
<1>6. ASSUME NEW b \in Reviewed'
      PROVE  /\ b \in Stored'
             /\ bookings'[b].guest = reviews'[b].author
             /\ listings'[reviews'[b].listing] = "live"
             /\ reviews'[b].author \in accounts'
  <2>1. /\ b \in BookingIds /\ b \in Reviewed /\ Kept(b)
        /\ reviews'[b] = reviews[b]
    BY <1>2, <1>6 DEF Reviewed
  <2>2. b \in Stored /\ bookings[b].guest = reviews[b].author /\ b < nextId
    BY <1>1, <2>1 DEF ReviewsHold
  <2>3. bookings'[b].guest = bookings[b].guest
    BY <2>1, <2>2 DEF Kept, RowsStand
  <2> QED
    BY <2>1, <2>2, <2>3 DEF Kept, Stored
<1> QED
  BY <1>3, <1>5, <1>6 DEF ReviewsHold

LEMMA TablesKeep ==
  ASSUME ReviewInv, TableStep, Cascades
  PROVE  ReviewInv'
<1> USE DEF ReviewInv
<1>1. OpenInv' /\ RowsStand
  BY OpenStep, BookingsStand DEF TableStep
<1>2. /\ ReviewTypeOK' /\ PostsHold' /\ ReviewsHold'
      /\ \A b \in Reviewed' : reviews'[b].author \in accounts'
  BY <1>1, CascadesHold DEF TableStep
<1>3. accounts' = accounts
  BY DEF TableStep
<1>4. ASSUME NEW l \in Listings, listings'[l] = "live"
      PROVE  ownerOf[l] \in accounts'
  BY <1>3, <1>4, OnlyUnbornAreBorn
  DEF TableStep, ByAccounts, AccountsAreKept, OpenInv, TypeOK
<1>5. ASSUME NEW b \in Stored'
      PROVE  {bookings'[b].guest, ownerOf[listingOf[bookings'[b].unit]]}
               \subseteq accounts'
  <2>1. b \in BookingIds /\ bookings'[b] # Null
    BY <1>5 DEF Stored
  <2>2. listings'[listingOf[bookings'[b].unit]] = "live"
    BY <1>1, <1>5 DEF OpenInv, ReferencesHold
  <2>3. listingOf[bookings'[b].unit] \in Listings
    <3>1. bookings'[b] \in Row
      BY <1>1, <2>1 DEF OpenInv, TypeOK
    <3> QED
      BY <3>1, InventoryAssumption DEF Row
  <2>4. bookings'[b].guest \in accounts'
    <3>1. CASE bookings[b] = Null
      BY <1>3, <2>1, <3>1 DEF TableStep, ByAccounts
    <3>2. CASE bookings[b] # Null
      <4>1. b \in Stored /\ bookings[b].guest \in accounts
        BY <2>1, <3>2 DEF Stored, AccountsAreKept
      <4>2. b < nextId
        BY <2>1, <3>2, BookingAssumption
        DEF OpenInv, FreshIds, TypeOK, BookingIds
      <4> QED
        BY <1>1, <1>3, <2>1, <4>1, <4>2 DEF RowsStand
    <3> QED
      BY <3>1, <3>2
  <2> QED
    BY <1>4, <2>2, <2>3, <2>4
<1>6. AccountsAreKept'
  BY <1>2, <1>4, <1>5 DEF AccountsAreKept
<1> QED
  BY <1>1, <1>2, <1>6

LEMMA AccountsKeep ==
  ASSUME ReviewInv, NEW o \in Users, RemoveAccount(o), Cascades
  PROVE  ReviewInv'
<1> USE DEF ReviewInv
<1>1. /\ OpenInv' /\ bookings' = bookings
      /\ \A b \in Stored :
           bookings[b].guest # o /\ ownerOf[listingOf[bookings[b].unit]] # o
      /\ \A l \in Listings : listings'[l] = "live" =>
           listings[l] = "live" /\ ownerOf[l] # o
  BY RemoveAccountEffect
<1>2. accounts' = accounts \ {o} /\ nextId' = nextId /\ posts' = posts
  BY DEF RemoveAccount
<1>3. RowsStand
  BY <1>1, <1>2, BookingAssumption DEF RowsStand, OpenInv, TypeOK
<1>4. /\ ReviewTypeOK' /\ PostsHold' /\ ReviewsHold'
      /\ \A b \in Reviewed' : reviews'[b].author \in accounts'
  BY <1>1, <1>2, <1>3, CascadesHold
<1>5. Stored' = Stored
  BY <1>1 DEF Stored
<1>6. AccountsAreKept'
  BY <1>1, <1>2, <1>4, <1>5 DEF AccountsAreKept
<1> QED
  BY <1>1, <1>4, <1>6

\* The steps of the reviews leave the tables alone.
LEMMA ReviewsKeep ==
  ASSUME ReviewInv, ReviewStep
  PROVE  ReviewInv'
<1> USE DEF ReviewInv
<1>1. UNCHANGED <<vars, accounts>>
  BY DEF ReviewStep, BeginReview, InsertReview, DropReview, UpdateReview,
         RemoveReview
<1>2. OpenInv'
  BY <1>1, OpenStep DEF vars
<1>3. /\ bookings' = bookings /\ listings' = listings /\ nextId' = nextId
      /\ Stored' = Stored
  BY <1>1 DEF vars, bookingVars, inventoryVars, Stored
<1>a. \A b \in Stored : b < nextId
  <2>1. \A b \in BookingIds : b \in Int
    BY DEF BookingIds
  <2>2. nextId \in Int
    BY BookingAssumption DEF OpenInv, TypeOK
  <2> QED
    BY <2>1, <2>2 DEF OpenInv, FreshIds, Stored
<1>4. ASSUME NEW p \in Posts, BeginReview(p)
      PROVE  ReviewTypeOK' /\ PostsHold' /\ reviews' = reviews
  <2>1. PICK author \in accounts, b \in Stored, n \in Ratings :
          /\ Reviewable(author, b)
          /\ posts' = [posts EXCEPT ![p] =
               [author |-> author, booking |-> b,
                listing |-> bookings[b].listing, rating |-> n]]
          /\ reviews' = reviews
    BY <1>4 DEF BeginReview
  <2> DEFINE q == [author |-> author, booking |-> b,
                   listing |-> bookings[b].listing, rating |-> n]
  <2>2. q \in Post
    <3>1. bookings[b] \in Row /\ bookings[b].listing # Null
      BY <2>1 DEF OpenInv, TypeOK, Stored, Reviewable
    <3>2. bookings[b].listing \in Listings
      BY <3>1 DEF Row
    <3> QED
      BY <3>2 DEF Post, ReviewTypeOK, Stored
  <2>3. /\ q.booking = b /\ q.author = author
        /\ b < nextId /\ bookings[b].guest = author
    BY <1>a, <2>1 DEF Reviewable
  <2> HIDE DEF q
  <2>4. posts' = [posts EXCEPT ![p] = q]
    BY <2>1 DEF q
  <2>5. \A s \in Posts : posts'[s] = IF s = p THEN q ELSE posts[s]
    BY <2>4 DEF ReviewTypeOK
  <2>6. ReviewTypeOK'
    BY <1>1, <2>1, <2>2, <2>4 DEF ReviewTypeOK
  <2>7. PostsHold'
    BY <1>3, <2>3, <2>5 DEF PostsHold
  <2> QED
    BY <2>1, <2>6, <2>7
<1>5. ASSUME NEW p \in Posts, posts' = [posts EXCEPT ![p] = Null]
      PROVE  /\ posts' \in [Posts -> Post \cup {Null}]
             /\ PostsHold'
  <2>1. posts' \in [Posts -> Post \cup {Null}]
    BY <1>5 DEF ReviewTypeOK
  <2>2. \A s \in Posts : posts'[s] # Null => posts'[s] = posts[s]
    BY <1>5 DEF ReviewTypeOK
  <2> QED
    BY <1>3, <2>1, <2>2 DEF PostsHold
\* A review that is there and agrees with its booking, or none.
<1>6. ASSUME NEW b \in BookingIds, NEW row \in ReviewRow \cup {Null},
             reviews' = [reviews EXCEPT ![b] = row],
             row # Null => /\ b \in Stored /\ bookings[b].guest = row.author
                           /\ listings[row.listing] = "live"
                           /\ row.author \in accounts
      PROVE  /\ reviews' \in [BookingIds -> ReviewRow \cup {Null}]
             /\ ReviewsHold' /\ AccountsAreKept'
  <2>1. \A c \in BookingIds :
          reviews'[c] = IF c = b THEN row ELSE reviews[c]
    BY <1>6 DEF ReviewTypeOK
  <2>2. reviews' \in [BookingIds -> ReviewRow \cup {Null}]
    BY <1>6 DEF ReviewTypeOK
  <2>3. ReviewsHold'
    BY <1>3, <1>6, <2>1 DEF ReviewsHold, Reviewed
  <2>4. AccountsAreKept'
    BY <1>1, <1>3, <1>6, <2>1 DEF AccountsAreKept, Reviewed
  <2> QED
    BY <2>2, <2>3, <2>4
<1>7. ASSUME NEW p \in Posts, InsertReview(p)
      PROVE  ReviewInv'
  <2> DEFINE q == posts[p]
             row == [listing |-> q.listing, author |-> q.author,
                     rating |-> q.rating]
  <2>1. /\ q \in Post /\ q # Null /\ Referred(q)
        /\ posts' = [posts EXCEPT ![p] = Null]
        /\ reviews' = [reviews EXCEPT ![q.booking] = row]
    BY <1>7 DEF InsertReview, EndPost, ReviewTypeOK
  <2>2. /\ q.booking \in BookingIds /\ row \in ReviewRow
        /\ row.author = q.author /\ row.listing = q.listing
    BY <2>1 DEF Post, ReviewRow
  <2>3. /\ q.booking \in Stored /\ bookings[q.booking].guest = row.author
        /\ listings[row.listing] = "live" /\ row.author \in accounts
    BY <2>1, <2>2 DEF Referred, PostsHold
  <2> HIDE DEF q, row
  <2>4. posts' \in [Posts -> Post \cup {Null}] /\ PostsHold'
    BY <1>5, <2>1
  <2>5. /\ reviews' \in [BookingIds -> ReviewRow \cup {Null}]
        /\ ReviewsHold' /\ AccountsAreKept'
    BY <1>6, <2>1, <2>2, <2>3
  <2>6. ReviewTypeOK'
    BY <1>1, <2>4, <2>5 DEF ReviewTypeOK
  <2> QED
    BY <1>2, <2>4, <2>5, <2>6
<1>8. ASSUME NEW author \in accounts, NEW b \in BookingIds,
             RemoveReview(author, b) \/ \E n \in Ratings : UpdateReview(author, b, n)
      PROVE  ReviewInv'
  <2>1. /\ b \in Reviewed /\ reviews[b] \in ReviewRow /\ posts' = posts
        /\ b \in Stored /\ bookings[b].guest = reviews[b].author
        /\ listings[reviews[b].listing] = "live"
        /\ reviews[b].author \in accounts
    BY <1>8 DEF RemoveReview, UpdateReview, Reviewed, ReviewTypeOK,
                ReviewsHold, AccountsAreKept
  <2>2. PICK row \in ReviewRow \cup {Null} :
          /\ reviews' = [reviews EXCEPT ![b] = row]
          /\ row # Null => /\ row.author = reviews[b].author
                           /\ row.listing = reviews[b].listing
    <3>1. CASE RemoveReview(author, b)
      BY <3>1 DEF RemoveReview
    <3>2. CASE \E n \in Ratings : UpdateReview(author, b, n)
      <4>1. PICK n \in Ratings : UpdateReview(author, b, n)
        BY <3>2
      <4>2. /\ [reviews[b] EXCEPT !.rating = n] \in ReviewRow
            /\ [reviews[b] EXCEPT !.rating = n].author = reviews[b].author
            /\ [reviews[b] EXCEPT !.rating = n].listing = reviews[b].listing
        BY <2>1 DEF ReviewRow
      <4>3. reviews' = [reviews EXCEPT ![b] = [reviews[b] EXCEPT !.rating = n]]
        BY <4>1 DEF UpdateReview
      <4> QED
        BY <4>2, <4>3
    <3> QED
      BY <1>8, <3>1, <3>2
  <2>3. /\ reviews' \in [BookingIds -> ReviewRow \cup {Null}]
        /\ ReviewsHold' /\ AccountsAreKept'
    BY <1>6, <2>1, <2>2
  <2>4. PostsHold' /\ ReviewTypeOK'
    BY <1>1, <1>3, <2>1, <2>3 DEF PostsHold, ReviewTypeOK
  <2> QED
    BY <1>2, <2>3, <2>4
<1>9. ASSUME reviews' = reviews
      PROVE  ReviewsHold' /\ AccountsAreKept'
  BY <1>1, <1>3, <1>9 DEF ReviewsHold, AccountsAreKept, Reviewed
<1>10. ASSUME NEW p \in Posts, DropReview(p)
       PROVE  ReviewInv'
  <2>1. /\ posts' = [posts EXCEPT ![p] = Null]
        /\ reviews' = reviews
    BY <1>10 DEF DropReview, EndPost
  <2>2. posts' \in [Posts -> Post \cup {Null}] /\ PostsHold'
    BY <1>5, <2>1
  <2> QED
    BY <1>1, <1>2, <1>9, <2>1, <2>2 DEF ReviewTypeOK
<1>11. ASSUME NEW p \in Posts, BeginReview(p)
       PROVE  ReviewInv'
  BY <1>2, <1>4, <1>9, <1>11
<1> QED
  BY <1>7, <1>8, <1>10, <1>11 DEF ReviewStep

LEMMA ReviewsStep == ReviewInv /\ [ReviewNext]_allVars => ReviewInv'
<1> SUFFICES ASSUME ReviewInv, [ReviewNext]_allVars
             PROVE  ReviewInv'
  OBVIOUS
<1>1. CASE ReviewStep
  BY <1>1, ReviewsKeep
<1>2. CASE TableStep /\ Cascades
  BY <1>2, TablesKeep
<1>3. ASSUME NEW o \in Users, RemoveAccount(o), Cascades
      PROVE  ReviewInv'
  BY <1>3, AccountsKeep
<1>4. CASE UNCHANGED allVars
  <2>1. UNCHANGED vars /\ UNCHANGED <<accounts, reviews, posts>>
    BY <1>4 DEF allVars, reviewVars
  <2>2. OpenInv'
    BY <2>1, OpenStep DEF ReviewInv
  <2>3. /\ bookings' = bookings /\ listings' = listings /\ nextId' = nextId
        /\ Stored' = Stored /\ Reviewed' = Reviewed
    BY <2>1 DEF vars, bookingVars, inventoryVars, Stored, Reviewed
  <2> QED
    BY <2>1, <2>2, <2>3
    DEF ReviewInv, ReviewTypeOK, PostsHold, ReviewsHold, AccountsAreKept
<1> QED
  BY <1>1, <1>2, <1>3, <1>4 DEF ReviewNext

-----------------------------------------------------------------------------

\* Whatever the POSTs, the bookings, the owners and the deletions of accounts
\* interleave: types, references and authorship hold together.
THEOREM ReviewInvariant == ReviewSpec => []ReviewInv
<1>1. ReviewInit => ReviewInv
  BY ReviewStarts
<1>2. ReviewInv /\ [ReviewNext]_allVars => ReviewInv'
  BY ReviewsStep
<1> QED
  BY <1>1, <1>2, PTL DEF ReviewSpec

\* A review has its booking, whose guest wrote it, and a live listing, though
\* its POST read them one await before it was inserted.
THEOREM ReviewsAlwaysHold == ReviewSpec => []ReviewsHold
<1>1. ReviewInv => ReviewsHold
  BY DEF ReviewInv
<1> QED
  BY <1>1, ReviewInvariant, PTL

\* No account goes while a booking, a live listing or a review refers to it.
THEOREM AccountsAreAlwaysKept == ReviewSpec => []AccountsAreKept
<1>1. ReviewInv => AccountsAreKept
  BY DEF ReviewInv
<1> QED
  BY <1>1, ReviewInvariant, PTL

-----------------------------------------------------------------------------
(* What the bookings promise, while reviews are written and accounts go.   *)

\* References and the ownership of what lives are part of the invariant.
THEOREM ReferencesOutliveAccounts == ReviewSpec => []ReferencesHold
<1>1. ReviewInv => ReferencesHold
  BY DEF ReviewInv, OpenInv
<1> QED
  BY <1>1, ReviewInvariant, PTL

\* A live unit keeps its live listing and a calendar row its live unit when
\* accounts are deleted with all that they own.
THEOREM NoneOutlivesItsAccount == ReviewSpec => []OwnedByTheLiving
<1>1. ReviewInv => OwnedByTheLiving
  BY DEF ReviewInv, OpenInv
<1> QED
  BY <1>1, ReviewInvariant, PTL

\* The deletion of an account closes its units: the ledger of nights loses
\* what it held there, and every other step is one of the bookings.
THEOREM LedgerOutlivesAccounts == ReviewSpec => ImplementsLedger
<1>1. ReviewInit => Ledger!Init
  BY DEF ReviewInit, AuditInit, Init, Ledger!Init, HeldNights, Held
<1>2. ReviewInv /\ [ReviewNext]_allVars => [Ledger!Next]_HeldNights
  <2> SUFFICES ASSUME ReviewInv, [ReviewNext]_allVars
               PROVE  Ledger!Next \/ UNCHANGED HeldNights
    OBVIOUS
  <2>1. ASSUME NEW o \in Users, RemoveAccount(o) PROVE Ledger!Next
    <3> DEFINE U == {u \in Units : listingOf[u] \in ListingsOf(o)}
    <3>1. bookingDays' = {d \in bookingDays : d.unit \notin U}
      BY <2>1 DEF RemoveAccount
    <3>2. U \subseteq Units
      OBVIOUS
    <3> HIDE DEF U
    <3> QED
      BY <3>1, <3>2, ClosingCloses
  <2>2. CASE ReviewStep \/ UNCHANGED allVars
    <3>1. UNCHANGED vars
      BY <2>2
      DEF ReviewStep, BeginReview, InsertReview, DropReview, RemoveReview,
          UpdateReview, allVars
    <3> QED
      BY <3>1, LedgerStep DEF ReviewInv
  <2>3. CASE TableStep
    BY <2>3, LedgerStep DEF TableStep, ReviewInv
  <2> QED
    BY <2>1, <2>2, <2>3 DEF ReviewNext
<1> QED
  BY <1>1, <1>2, ReviewInvariant, PTL
  DEF ReviewSpec, ImplementsLedger, Ledger!Spec

\* Accounts that go take whole stays with them, their own bookings' and those
\* in their units.
THEOREM StaysStayWholeWhenAccountsGo ==
  ReviewSpec => [](Ledger!WholeStays /\ Ledger!Exclusive)
BY LedgerOutlivesAccounts, LedgerPromises, PTL DEF ImplementsLedger

\* An account that may be deleted has no booked night in its units.
LEMMA AccountsHaveNoDays ==
  ASSUME OpenInv, DaysMatchBooking, NEW o \in Users, RemoveAccount(o)
  PROVE  bookingDays' = bookingDays
<1>1. \A b \in Stored : ownerOf[listingOf[bookings[b].unit]] # o
  BY RemoveAccountEffect
<1>2. \A d \in bookingDays :
        d.booking \in Stored /\ d.unit = bookings[d.booking].unit
  <2> SUFFICES ASSUME NEW d \in bookingDays
               PROVE  d.booking \in Stored /\ d.unit = bookings[d.booking].unit
    OBVIOUS
  <2>1. d.booking \in Stored
    BY DEF OpenInv, ReferencesHold
  <2>2. d \in DayRows(d.booking, bookings[d.booking])
    BY <2>1 DEF DaysMatchBooking
  <2> QED
    BY <2>1, <2>2 DEF DayRows
<1>3. \A d \in bookingDays : listingOf[d.unit] \notin ListingsOf(o)
  BY <1>1, <1>2 DEF ListingsOf
<1> QED
  BY <1>3 DEF RemoveAccount

\* The deletion of an account changes no booking, no day row and no request.
LEMMA AccountsKeepTurns ==
  ASSUME TurnInv, NEW o \in Users, RemoveAccount(o)
  PROVE  TurnInv' /\ UNCHANGED <<bookings, requests>>
<1>1. OpenInv' /\ bookings' = bookings
  BY RemoveAccountEffect DEF TurnInv
<1>2. /\ bookingDays' = bookingDays /\ requests' = requests
      /\ nextId' = nextId
  BY AccountsHaveNoDays DEF TurnInv, RemoveAccount
<1> QED
  BY <1>1, <1>2, LeavingKeepsTurns DEF TurnInv

\* A request whose nights went with an account is one of the overtaken.
LEMMA AccountsKeepChecks ==
  ASSUME TypeOK, ChecksHold, NEW o \in Users, RemoveAccount(o), Watch
  PROVE  ChecksHold'
<1> SUFFICES ASSUME NEW r \in Requests, r \notin overtaken',
                    requests[r] # Null, requests[r].op # "remove"
             PROVE  LET q == requests[r]
                    IN  /\ q.step # "unit" =>
                             q.plan.guestsCount <= capacity[q.plan.unit]
                        /\ q.step = "tx" =>
                             \A d \in PlannedNights(q.plan) :
                               calendar'[q.plan.unit][d] # "BLOCKED"
  BY DEF RemoveAccount, ChecksHold, Blocked, PlannedNights
<1> DEFINE q == requests[r]
<1>1. requests' = requests
  BY DEF RemoveAccount
<1>2. r \notin overtaken /\ ~Overtakes(r)
  BY <1>1 DEF Watch
<1>3. q \in Request /\ q.plan \in Plan
  BY RequestParts
<1>4. q.step = "tx" => \A d \in StayDates(q.plan.checkIn, q.plan.checkOut) :
                         calendar'[q.plan.unit][d] = calendar[q.plan.unit][d]
  BY <1>2, <1>3, BookingAssumption DEF Overtakes, At
<1> QED
  BY <1>2, <1>3, <1>4 DEF ChecksHold, PlannedNights, Blocked

\* While updates take turns, plans stay fresh, day rows exact and what was
\* checked stays so, unless an owner overtakes it.
THEOREM AuditOutlivesAccounts ==
  ReviewSpec /\ []UpdatesTakeTurns => []AuditInv
<1>1. ReviewInit => AuditInv
  BY TurnInit DEF ReviewInit, AuditInit, AuditInv, ChecksHold, Init
<1>2. UpdatesTakeTurns /\ AuditInv /\ [ReviewNext]_allVars => AuditInv'
  <2> SUFFICES ASSUME UpdatesTakeTurns, AuditInv, [ReviewNext]_allVars
               PROVE  AuditInv'
    OBVIOUS
  <2>1. CASE [AuditNext]_<<vars, overtaken>>
    <3>1. [Next]_vars
      BY <2>1 DEF AuditNext
    <3>2. TurnInv'
      BY <3>1, TurnStep DEF AuditInv
    <3>3. ChecksHold'
      BY <2>1, ChecksStep DEF AuditInv, TurnInv, OpenInv
    <3> QED
      BY <3>2, <3>3 DEF AuditInv
  <2>2. ASSUME NEW o \in Users, RemoveAccount(o), Watch
        PROVE  AuditInv'
    BY <2>2, AccountsKeepTurns, AccountsKeepChecks
    DEF AuditInv, TurnInv, OpenInv
  <2>3. CASE ReviewStep \/ UNCHANGED allVars
    <3>1. UNCHANGED <<vars, overtaken>>
      BY <2>3
      DEF ReviewStep, BeginReview, InsertReview, DropReview, RemoveReview,
          UpdateReview, allVars
    <3> QED
      BY <2>1, <3>1
  <2>4. CASE TableStep /\ Watch
    BY <2>1, <2>4 DEF TableStep, AuditNext
  <2> QED
    BY <2>2, <2>3, <2>4 DEF ReviewNext
<1> QED
  BY <1>1, <1>2, PTL DEF ReviewSpec

\* The day rows are exactly the nights of the active bookings, whatever
\* owners and accounts go with their units.
THEOREM DaysMatchWhenAccountsGo ==
  ReviewSpec /\ []UpdatesTakeTurns => []DaysMatchBooking
<1>1. AuditInv => DaysMatchBooking
  BY DEF AuditInv, TurnInv
<1> QED
  BY <1>1, AuditOutlivesAccounts, PTL

\* Nor is a night of a unit sold to two active bookings.
THEOREM NeverDoubleBookedWhenAccountsGo ==
  ReviewSpec /\ []UpdatesTakeTurns => []NoDoubleBooking
<1>1. AuditInv => NoDoubleBooking
  BY NoNightTwice DEF AuditInv
<1> QED
  BY <1>1, AuditOutlivesAccounts, PTL

\* A commit that nobody overtook leaves what its checks promised, also when
\* the deletion of an account is among what came in between.
THEOREM CommitsHonourOwnersWhenAccountsGo ==
  ReviewSpec /\ []UpdatesTakeTurns => CommitHonoursOwner
<1> DEFINE Honoured ==
      \A r \in Requests \ overtaken : Commits(r) =>
        \A b \in WrittenBookings :
          /\ bookings'[b].guestsCount <= capacity[bookings'[b].unit]
          /\ \A d \in bookingDays' : d.booking = b => ~Blocked(d.unit, d.date)
<1>1. AuditInv => Honoured
  BY CommitHonours
<1> QED
  BY <1>1, AuditOutlivesAccounts, PTL DEF CommitHonoursOwner

\* An account that goes leaves the bookings, and so whose each of them is.
LEMMA LoneOutlivesAccounts ==
  ASSUME LoneInv, [ReviewNext]_allVars
  PROVE  LoneInv'
<1>1. CASE [Next]_vars
  BY <1>1, LoneStep
<1>2. ASSUME NEW o \in Users, RemoveAccount(o)
      PROVE  LoneInv'
  BY <1>2, RemoveAccountEffect
  DEF LoneInv, FoundOwn, PlansAreFresh, Owns, Stored, RemoveAccount
<1>3. CASE ReviewStep \/ UNCHANGED allVars
  BY <1>1, <1>3
  DEF ReviewStep, BeginReview, InsertReview, DropReview, RemoveReview,
      UpdateReview, allVars
<1>4. CASE TableStep
  BY <1>1, <1>4 DEF TableStep
<1> QED
  BY <1>2, <1>3, <1>4 DEF ReviewNext

\* A guest who waits for each answer never loses an update nor the booking that
\* it is of, accounts that go included.
THEOREM PlansStayFreshWhenAccountsGo == ReviewSpec => []PlansAreFresh
<1>1. ReviewInit => LoneInv
  BY LoneInit DEF ReviewInit, AuditInit
<1>2. LoneInv /\ [ReviewNext]_allVars => LoneInv'
  BY LoneOutlivesAccounts
<1>3. LoneInv => PlansAreFresh
  BY DEF LoneInv
<1> QED
  BY <1>1, <1>2, <1>3, PTL DEF ReviewSpec

\* Where all guests wait they take turns, accounts that go included.
THEOREM GuestsTakeTurnsWhenAccountsGo ==
  ASSUME OneRequestPerGuest
  PROVE  ReviewSpec => []UpdatesTakeTurns
<1>1. ReviewInit => LoneInv
  BY LoneInit DEF ReviewInit, AuditInit
<1>2. LoneInv /\ [ReviewNext]_allVars => LoneInv'
  BY LoneOutlivesAccounts
<1>3. LoneInv => UpdatesTakeTurns
  BY LoneTakeTurns
<1> QED
  BY <1>1, <1>2, <1>3, PTL DEF ReviewSpec

\* So with one request per guest no day row is wrong, no night is booked
\* twice and every commit that nobody overtook keeps its promise.
THEOREM WaitingGuestsAreServedWhenAccountsGo ==
  ASSUME OneRequestPerGuest
  PROVE  ReviewSpec => /\ [](DaysMatchBooking /\ NoDoubleBooking)
                       /\ CommitHonoursOwner
BY GuestsTakeTurnsWhenAccountsGo, DaysMatchWhenAccountsGo,
   NeverDoubleBookedWhenAccountsGo, CommitsHonourOwnersWhenAccountsGo, PTL

-----------------------------------------------------------------------------
(* What a POST read still holds, one await later.                          *)

\* The author of a POST that is not overlapped has no request in flight that
\* could write a booking.
AuthorsWait ==
  \A p \in Posts \ overlapped : posts[p] # Null =>
    \A r \in Requests : requests[r] # Null /\ requests[r].op # "create" =>
      guestOf[r] # posts[p].author

\* And the booking of the POST is what the POST read.
PostsAreCurrent ==
  \A p \in Posts \ overlapped : posts[p] # Null =>
    /\ posts[p].booking \in Stored
    /\ Reviewable(posts[p].author, posts[p].booking)
    /\ bookings[posts[p].booking].listing = posts[p].listing

\* Only a request of its guest writes a booking that is stored.
LEMMA GuestsWriteTheirOwn ==
  ASSUME LoneInv, [ReviewNext]_allVars, NEW b \in Stored,
         bookings'[b] # bookings[b]
  PROVE  \E r \in Requests : /\ requests[r] # Null /\ requests[r].op # "create"
                             /\ guestOf[r] = bookings[b].guest
<1>1. CASE ReviewStep \/ UNCHANGED allVars
  BY <1>1
  DEF ReviewStep, BeginReview, InsertReview, DropReview, RemoveReview,
      UpdateReview, allVars, vars, bookingVars
<1>2. ASSUME NEW o \in Users, RemoveAccount(o)
      PROVE  FALSE
  BY <1>2, RemoveAccountEffect DEF LoneInv
<1>3. CASE TableStep
  <2>1. CASE Quiet
    BY <2>1, QuietIsQuiet DEF tables
  <2>2. CASE HostStep
    BY <2>2, DeleteListingEffect
    DEF LoneInv, HostStep, bookingVars, DeleteUnit, DeleteListing
  <2>3. ASSUME NEW r \in Requests, CommitCreate(r)
        PROVE  FALSE
    BY <2>3, CreateEffect DEF LoneInv, OpenInv, TypeOK, Stored
  <2>4. ASSUME NEW r \in Requests, CommitUpdate(r) \/ CommitRemove(r)
        PROVE  /\ requests[r] # Null /\ requests[r].op # "create"
               /\ guestOf[r] = bookings[b].guest
    <3>1. /\ requests[r] # Null /\ requests[r].op # "create"
          /\ requests[r].booking \in Stored
      BY <2>4 DEF CommitUpdate, CommitRemove, CanUpdate, At
    <3>2. bookings[requests[r].booking].guest = guestOf[r]
      BY <3>1 DEF LoneInv, FoundOwn, Owns, Stored
    <3>3. \A c \in BookingIds \ {requests[r].booking} : bookings'[c] = bookings[c]
      BY <2>4, UpdateEffect, RemoveEffect DEF LoneInv, OpenInv, TypeOK
    <3>4. b = requests[r].booking
      BY <3>3 DEF Stored
    <3> QED
      BY <3>1, <3>2, <3>4
  <2> QED
    BY <1>3, <2>1, <2>2, <2>3, <2>4 DEF TableStep, Next, GuestStep, Quiet
<1> QED
  BY <1>1, <1>2, <1>3 DEF ReviewNext

\* A step leaves a POST as it is, ends it or reads for it.
LEMMA PostMoves ==
  ASSUME ReviewTypeOK, [ReviewNext]_allVars, NEW p \in Posts, posts'[p] # Null
  PROVE  posts'[p] = posts[p] \/ BeginReview(p)
<1>1. CASE TableStep \/ \E o \in Users : RemoveAccount(o)
  BY <1>1 DEF TableStep, RemoveAccount
<1>2. ASSUME NEW s \in Posts, BeginReview(s) \/ InsertReview(s) \/ DropReview(s)
      PROVE  posts'[p] = posts[p] \/ BeginReview(p)
  <2>1. CASE s = p
    BY <1>2, <2>1 DEF InsertReview, DropReview, EndPost, ReviewTypeOK
  <2>2. CASE s # p
    BY <1>2, <2>2
    DEF BeginReview, InsertReview, DropReview, EndPost, ReviewTypeOK
  <2> QED
    BY <2>1, <2>2
<1>3. ASSUME NEW author, NEW b, NEW n,
             RemoveReview(author, b) \/ UpdateReview(author, b, n)
      PROVE  posts' = posts
  BY <1>3 DEF RemoveReview, UpdateReview
<1>4. CASE UNCHANGED allVars
  BY <1>4 DEF allVars, reviewVars
<1> QED
  BY <1>1, <1>2, <1>3, <1>4 DEF ReviewNext, ReviewStep

\* Who waits when the step is over was not writing during it.
LEMMA AuthorsWaitStep ==
  ASSUME ReviewTypeOK, AuthorsWait, [ReviewNext]_allVars
  PROVE  AuthorsWait'
<1>1. CASE UNCHANGED allVars
  BY <1>1 DEF allVars, vars, bookingVars, reviewVars, AuthorsWait
<1>2. CASE ReviewNext
  BY <1>2 DEF ReviewNext, WatchPosts, AuthorsWait
<1> QED
  BY <1>1, <1>2

LEMMA CurrentStep ==
  ASSUME ReviewTypeOK, LoneInv, AuthorsWait, PostsAreCurrent,
         [ReviewNext]_allVars
  PROVE  PostsAreCurrent'
<1> SUFFICES ASSUME NEW p \in Posts, p \notin overlapped', posts'[p] # Null
             PROVE  /\ (posts[p].booking \in Stored)'
                    /\ Reviewable(posts[p].author, posts[p].booking)'
                    /\ (bookings[posts[p].booking].listing = posts[p].listing)'
  BY DEF PostsAreCurrent
<1>1. CASE UNCHANGED allVars
  BY <1>1
  DEF allVars, vars, bookingVars, reviewVars, PostsAreCurrent, Reviewable,
      Stored
<1>2. CASE ReviewNext
  <2> DEFINE b == posts[p].booking
  <2>1. p \notin overlapped
    BY <1>2 DEF ReviewNext, WatchPosts
  <2>2. CASE posts'[p] = posts[p]
    <3>1. /\ b \in Stored /\ Reviewable(posts[p].author, b)
          /\ bookings[b].listing = posts[p].listing
      BY <2>1, <2>2 DEF PostsAreCurrent
    <3>2. bookings'[b] = bookings[b]
      BY <2>1, <2>2, <3>1, GuestsWriteTheirOwn DEF AuthorsWait, Reviewable
    <3> QED
      BY <2>2, <3>1, <3>2 DEF Reviewable, Stored
  <2>3. CASE BeginReview(p)
    BY <2>3 DEF BeginReview, Reviewable, ReviewTypeOK, vars, bookingVars, Stored
  <2> QED
    BY <2>2, <2>3, PostMoves
<1> QED
  BY <1>1, <1>2

\* An insert by a guest who changes no booking meanwhile is of a completed stay
\* of that guest, in the listing of that stay, as they are at that moment and
\* not only one await before (ReviewsService.create).
THEOREM ReviewsAreOfCompletedStays == ReviewSpec => ReviewedWhenCompleted
<1> DEFINE Insertion ==
      \A p \in Posts \ overlapped : InsertReview(p) =>
        LET b == posts[p].booking
        IN  /\ bookings[b].status = "COMPLETED"
            /\ reviews'[b].listing = bookings[b].listing
            /\ reviews'[b].author = bookings[b].guest
<1>1. ReviewInit => LoneInv /\ AuthorsWait /\ PostsAreCurrent
  BY LoneInit DEF ReviewInit, AuditInit, AuthorsWait, PostsAreCurrent
<1>2. /\ ReviewInv /\ LoneInv /\ AuthorsWait /\ PostsAreCurrent
      /\ [ReviewNext]_allVars
      => (LoneInv /\ AuthorsWait /\ PostsAreCurrent)'
  BY LoneOutlivesAccounts, AuthorsWaitStep, CurrentStep DEF ReviewInv
<1>3. ReviewInv /\ PostsAreCurrent => Insertion
  <2> SUFFICES ASSUME ReviewInv, PostsAreCurrent,
                      NEW p \in Posts \ overlapped, InsertReview(p)
               PROVE  LET b == posts[p].booking
                      IN  /\ bookings[b].status = "COMPLETED"
                          /\ reviews'[b].listing = bookings[b].listing
                          /\ reviews'[b].author = bookings[b].guest
    OBVIOUS
  <2> DEFINE q == posts[p]
             row == [listing |-> q.listing, author |-> q.author,
                     rating |-> q.rating]
  <2>1. /\ q # Null
        /\ q.booking \in BookingIds
        /\ reviews' = [reviews EXCEPT ![q.booking] = row]
    BY DEF InsertReview, Referred, Stored
  <2>2. reviews'[q.booking] = row
    BY <2>1 DEF ReviewInv, ReviewTypeOK
  <2>3. Reviewable(q.author, q.booking) /\ bookings[q.booking].listing = q.listing
    BY <2>1 DEF PostsAreCurrent
  <2> QED
    BY <2>2, <2>3 DEF Reviewable
<1> QED
  BY <1>1, <1>2, <1>3, ReviewInvariant, PTL
  DEF ReviewSpec, ReviewedWhenCompleted

=============================================================================

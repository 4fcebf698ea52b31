------------------------------- MODULE Review -------------------------------
(***************************************************************************)
(* ReviewsService composed with the bookings, the inventory and the        *)
(* deletion of accounts.  A review refers to a booking, a listing and its  *)
(* author, and is made from a booking read one await before: bookings are  *)
(* moved and removed, listings and accounts deleted in between.            *)
(*                                                                         *)
(* update and remove check who wrote the review and then write it by its   *)
(* id; the author of a review never changes (no DTO carries it), so each   *)
(* is one action.  Comments and files are left out.                        *)
(***************************************************************************)
EXTENDS BookingAudit

CONSTANTS
  Posts,   \* POSTs of a review that may be in flight together
  Ratings  \* bound: the ratings given

VARIABLES
  accounts,  \* the User rows
  reviews,   \* the Review rows by their unique bookingId, or Null
  posts,     \* what each POST in flight has read, or Null
  overlapped \* history: the POSTs whose author had a PATCH or a DELETE of
             \* some booking in flight since they read theirs

reviewVars == <<accounts, reviews, posts, overlapped>>
allVars == <<vars, overtaken, reviewVars>>

ReviewRow == [listing : Listings, author : Users, rating : Ratings]

Post == [author : Users, booking : BookingIds, listing : Listings,
         rating : Ratings]

ASSUME ReviewAssumption == Null \notin ReviewRow /\ Null \notin Post

Reviewed == {b \in BookingIds : reviews[b] # Null}

ReviewInit ==
  /\ AuditInit
  /\ accounts = Users
  /\ reviews = [b \in BookingIds |-> Null]
  /\ posts = [p \in Posts |-> Null]
  /\ overlapped = {}

-----------------------------------------------------------------------------

\* None of the rows the review of b refers to is deleted by the step.
Kept(b) ==
  /\ bookings'[b] # Null
  /\ listings'[reviews[b].listing] = "live"
  /\ reviews[b].author \in accounts'

\* `onDelete: Cascade` of Review.booking, Review.listing and Review.author.
Cascades ==
  reviews' = [b \in BookingIds |->
                IF b \in Reviewed /\ Kept(b) THEN reviews[b] ELSE Null]

\* The author does not wait for one answer before sending the next request.
WatchPosts ==
  overlapped' = {p \in Posts :
    /\ posts'[p] # Null
    /\ \/ p \in overlapped
       \/ \E r \in Requests : /\ requests'[r] # Null
                               /\ requests'[r].op # "create"
                               /\ guestOf[r] = posts'[p].author}

\* MUTANT: whoever knows its id may review a booking.
ReviewableByAnyone(author, b) ==
  bookings[b].status = "COMPLETED" /\ bookings[b].listing # Null

\* The booking is the author's and completed, and has a listing.
Reviewable(author, b) ==
  /\ bookings[b].guest = author
  /\ bookings[b].status = "COMPLETED"
  /\ bookings[b].listing # Null

\* The reads of create.
BeginReview(p) ==
  \E author \in accounts, b \in Stored, n \in Ratings :
    /\ posts[p] = Null
    /\ Reviewable(author, b)
    /\ posts' = [posts EXCEPT ![p] =
         [author |-> author, booking |-> b, listing |-> bookings[b].listing,
          rating |-> n]]
    /\ UNCHANGED <<vars, overtaken, accounts, reviews>>

EndPost(p) == posts' = [posts EXCEPT ![p] = Null]

\* MUTANT: the foreign key of the listing is missing.
ReferredWithoutListing(q) == q.booking \in Stored /\ q.author \in accounts

\* The foreign keys of the new row.
Referred(q) ==
  /\ q.booking \in Stored
  /\ listings[q.listing] = "live"
  /\ q.author \in accounts

InsertReview(p) ==
  LET q == posts[p]
  IN  /\ q # Null
      /\ Referred(q)
      /\ q.booking \notin Reviewed
      /\ reviews' = [reviews EXCEPT ![q.booking] =
           [listing |-> q.listing, author |-> q.author, rating |-> q.rating]]
      /\ EndPost(p)
      /\ UNCHANGED <<vars, overtaken, accounts>>

\* The insert is refused, or the POST is lost.
DropReview(p) ==
  /\ posts[p] # Null
  /\ EndPost(p)
  /\ UNCHANGED <<vars, overtaken, accounts, reviews>>

UpdateReview(author, b, n) ==
  /\ b \in Reviewed
  /\ reviews[b].author = author
  /\ reviews' = [reviews EXCEPT ![b].rating = n]
  /\ UNCHANGED <<vars, overtaken, accounts, posts>>

RemoveReview(author, b) ==
  /\ b \in Reviewed
  /\ reviews[b].author = author
  /\ reviews' = [reviews EXCEPT ![b] = Null]
  /\ UNCHANGED <<vars, overtaken, accounts, posts>>

-----------------------------------------------------------------------------
(* The account, and its cascade through everything its owner has.          *)

ListingsOf(o) == {l \in Listings : ownerOf[l] = o /\ listings[l] = "live"}

\* MUTANT: a guest's bookings do not hold the account.
HeldByUnits(o) == Unbooked({u \in Units : ownerOf[listingOf[u]] = o})

\* Booking.guest is `onDelete: Restrict`, and the cascade to listings and
\* units meets that of Booking.unit.
Removable(o) ==
  /\ \A b \in Stored : bookings[b].guest # o
  /\ Unbooked({u \in Units : ownerOf[listingOf[u]] = o})

RemoveAccount(o) ==
  LET L == ListingsOf(o)
      U == {u \in Units : listingOf[u] \in L}
  IN  /\ o \in accounts
      /\ Removable(o)
      /\ accounts' = accounts \ {o}
      /\ listings' = [l \in Listings |->
                        IF l \in L THEN "deleted" ELSE listings[l]]
      /\ units' = [u \in Units |-> IF u \in U /\ units[u] = "live"
                                     THEN "deleted" ELSE units[u]]
      /\ calendar' = CalendarWithout(U)
      /\ bookings' = [b \in BookingIds |->
           IF b \in Stored /\ bookings[b].listing \in L
           THEN [bookings[b] EXCEPT !.listing = Null] ELSE bookings[b]]
      /\ bookingDays' = {d \in bookingDays : d.unit \notin U}
      /\ UNCHANGED <<capacity, nextId, requests, posts>>

\* The foreign keys of the accounts, and the guard that loads the user of a
\* request: who is gone starts nothing and owns nothing new.
ByAccounts ==
  /\ \A r \in Requests : requests[r] = Null /\ requests'[r] # Null
                           => guestOf[r] \in accounts
  /\ \A b \in BookingIds : bookings[b] = Null /\ bookings'[b] # Null
                             => bookings'[b].guest \in accounts
  /\ \A l \in Listings : listings[l] = "unborn" /\ listings'[l] = "live"
                           => ownerOf[l] \in accounts

\* The steps of the bookings and the inventory.
TableStep ==
  /\ Next
  /\ ByAccounts
  /\ UNCHANGED <<accounts, posts>>

ReviewStep ==
  \/ \E p \in Posts : BeginReview(p) \/ InsertReview(p) \/ DropReview(p)
  \/ \E author \in accounts, b \in BookingIds :
       RemoveReview(author, b) \/ \E n \in Ratings : UpdateReview(author, b, n)

ReviewNext ==
  /\ \/ ReviewStep
     \/ (TableStep \/ \E o \in Users : RemoveAccount(o)) /\ Cascades /\ Watch
  /\ WatchPosts

ReviewSpec == ReviewInit /\ [][ReviewNext]_allVars

-----------------------------------------------------------------------------

\* README: one review per booking, of the booking's guest.  Every review has
\* its booking, its author, who is that booking's guest, and a live listing,
\* whatever was moved, removed or deleted since its POST read them.
ReviewsHold ==
  \A b \in Reviewed :
    /\ b \in Stored
    /\ bookings[b].guest = reviews[b].author
    /\ listings[reviews[b].listing] = "live"

\* Deleting an account never takes a booking along: guests and owners of
\* what is booked are kept, and a review therefore keeps its author.
AccountsAreKept ==
  /\ \A b \in Stored : {bookings[b].guest, ownerOf[listingOf[bookings[b].unit]]}
                         \subseteq accounts
  /\ \A l \in Listings : listings[l] = "live" => ownerOf[l] \in accounts
  /\ \A b \in Reviewed : reviews[b].author \in accounts

\* README: only the booking's guest reviews it, and only a COMPLETED booking.
\* Both are read one await before the insert.  They still hold at the insert,
\* and the review is of the booking's listing, for a guest who changes no
\* booking meanwhile: nobody else completes, reopens or moves his stay for
\* him, whatever other guests, owners and deletions of accounts do.
ReviewedWhenCompleted ==
  [][\A p \in Posts \ overlapped : InsertReview(p) =>
       LET b == posts[p].booking
       IN  /\ bookings[b].status = "COMPLETED"
           /\ reviews'[b].listing = bookings[b].listing
           /\ reviews'[b].author = bookings[b].guest]_allVars

\* README: review creation allowed only for COMPLETED bookings, whatever
\* else its author has under way.
ReviewsAreOfCompleted ==
  [][\A p \in Posts : InsertReview(p) =>
       bookings[posts[p].booking].status = "COMPLETED"]_allVars

=============================================================================

------------------------------ MODULE MCReview ------------------------------
(***************************************************************************)
(* Review on the instance of MCBooking: everything that can happen to the  *)
(* rows of one booking.                                                    *)
(***************************************************************************)
EXTENDS MCBooking, Review

HostAndGuest == {host, ann}

\* A stay, and one that the smaller capacity refuses.
ReviewCreates == {Body(u1, 0, 2, 1, Null), Body(u1, 1, 2, 2, "COMPLETED")}

\* A stay that ends, that moves to the other unit, that moves and ends.
ReviewUpdates ==
  {Body(Null, Null, Null, Null, "EXPIRED"), Body(u2, Null, Null, Null, Null),
   Body(Null, 1, Null, Null, "COMPLETED")}
=============================================================================

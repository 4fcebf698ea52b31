-------------------------------- MODULE MCTx --------------------------------
(***************************************************************************)
(* BookingTx on the inventory of MCBooking.                                *)
(***************************************************************************)
EXTENDS MCBooking, BookingTx

\* A stay of two nights and one of one, in two units.
TxCreates == {Body(u1, 0, 2, 1, Null), Body(u2, 0, 1, 1, "CANCELLED")}

\* Exchanging units, which gives nights up and takes others.
TxUpdates ==
  {Body(u2, Null, Null, Null, Null), Body(u1, Null, Null, Null, "PENDING")}
=============================================================================

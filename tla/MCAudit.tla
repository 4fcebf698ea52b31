------------------------------- MODULE MCAudit -------------------------------
(***************************************************************************)
(* BookingAudit on the instance of MCBooking.                              *)
(***************************************************************************)
EXTENDS MCBooking, BookingAudit
=============================================================================

------------------------------ MODULE MCUpload ------------------------------
(***************************************************************************)
(* Instances of Upload for TLC: a user with a profile and a listing, and   *)
(* one with neither.                                                       *)
(***************************************************************************)
EXTENDS Upload

CONSTANTS ann, bob, loft, r1, r2

LoftIsAnns == [t \in {loft} |-> ann]

\* Bound: one upload and one deletion at a time, and one account that goes.
Roles ==
  /\ bob \in users
  /\ requests[r1] # Null => requests[r1].op = "upload"
  /\ requests[r2] # Null => requests[r2].op = "delete"

RolesSpec ==
  /\ Init /\ [][Next /\ Roles']_vars
  /\ \A r \in Requests : WF_vars(RequestStep(r))
=============================================================================

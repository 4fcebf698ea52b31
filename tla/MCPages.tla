------------------------------ MODULE MCPages ------------------------------
(***************************************************************************)
(* Instances of Pagination for TLC: rows of which some have equal keys,    *)
(* some are out of scope and some do not match.                            *)
(***************************************************************************)
EXTENDS Pagination

EqualKeys == [i \in Ids |-> i % 2]
AllButTwo == Ids \ {2}
AllButOne == Ids \ {1}

Listing == <<"listing">>
=============================================================================

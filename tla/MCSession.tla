------------------------------ MODULE MCSession ------------------------------
(***************************************************************************)
(* An instance of Session for TLC.                                         *)
(***************************************************************************)
EXTENDS Session, TLC

CONSTANTS ann, c1, c2, r1, r2

\* Which browser and which of the server's requests is which makes no
\* difference: either may send and serve either.
Interchangeable == Permutations(Clients) \cup Permutations(Requests)
=============================================================================

----------------------------- MODULE MCClosing ------------------------------
(* Instances of Closing for TLC: whose the positions are, and the order of  *)
(* the accounts in the book.                                                *)
EXTENDS Closing, TLC

CONSTANTS a1, a2, p1, p2

\* One account with the position that everyone works on.
OneOwner == p1 :> a1
OneRank == a1 :> 1

\* Two accounts with a position each.
TwoOwners == p1 :> a1 @@ p2 :> a2
TwoRanks == a1 :> 1 @@ a2 :> 2

\* The runs of the worker are alike, and so are the editors.
RunSymmetry == Permutations(Runs) \cup Permutations(Editors)
=============================================================================

--------------------------- MODULE MCShareHandshake ---------------------------
(* A wing of two drawers, each on a page of the listing of its own.        *)
EXTENDS ShareHandshake, TLC

WingDrawers == 1..2
OnePerPage == [d \in WingDrawers |-> d]
CallSymmetry == Permutations(Request) \cup Permutations(Actor)
=============================================================================

------------------------------- MODULE MCAccess -------------------------------
(* Access for TLC.  Concurrent requests of a kind are interchangeable.     *)
EXTENDS Access, TLC

RequestSymmetry == Permutations(Request) \cup Permutations(Exchange)
=============================================================================

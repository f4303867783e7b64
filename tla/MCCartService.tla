--------------------------- MODULE MCCartService ---------------------------
(* Instances of CartService for TLC.                                       *)
EXTENDS CartService, TLC

\* Users, products and slots are interchangeable (safety runs only).
Symmetry == Permutations(Users) \cup Permutations(Products) \cup Permutations(Slots)
=============================================================================

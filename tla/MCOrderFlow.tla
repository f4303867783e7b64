----------------------------- MODULE MCOrderFlow -----------------------------
(* Instances of OrderFlow for TLC.                                         *)
EXTENDS OrderFlow, TLC

CONSTANTS o1, o2, p1, p2

It(p, q) == [p |-> p, q |-> q]

\* One product, three units: o1 wants one of them and o2 all three.
OneItem == o1 :> <<It(p1, 1)>> @@ o2 :> <<It(p1, 3)>>
ThreeUnits == p1 :> 3

\* One product, three units, and two orders of two units: neither is the last.
TwoEach == o1 :> <<It(p1, 2)>> @@ o2 :> <<It(p1, 2)>>

\* Two products, wanted in opposite orders: o1 leaves a unit of p1 and takes
\* the last of p2, o2 takes the last of both.
Crossed == o1 :> <<It(p1, 2), It(p2, 1)>> @@ o2 :> <<It(p2, 1), It(p1, 3)>>
ThreeAndOne == p1 :> 3 @@ p2 :> 1

\* One order of one unit, of two.
Single == o1 :> <<It(p1, 1)>>
TwoUnits == p1 :> 2

\* Slots and handlers are interchangeable (safety runs only).
Symmetry == Permutations(Slots) \cup Permutations(Handlers)
=============================================================================

-------------------------------- MODULE Carts --------------------------------
(***************************************************************************)
(* What cart-service promises of its carts: each request changes the       *)
(* lines of one user's cart in one step, or not at all.                    *)
(*                                                                         *)
(* It changes the lines as they are, unless it has been overtaken: another *)
(* request put the cart after this one had read it, and its change is lost *)
(* when this one is made from the version it holds.                        *)
(*                                                                         *)
(* A line is the quantity of a product and the price it had when the       *)
(* product was put in the cart; a product that is not in the cart has      *)
(* quantity 0.                                                             *)
(***************************************************************************)
EXTENDS Integers

CONSTANTS Users, Products,
          Quantities,   \* what a request may ask for: positive integers
          Prices        \* prices of the catalogue: natural numbers

Line == [q : Nat, price : Prices \cup {0}]
NoLine == [q |-> 0, price |-> 0]
NoLines == [p \in Products |-> NoLine]

In(p, lines) == lines[p].q > 0

\* addItem adds to the line there is, at its price, or makes a new line.
AddLine(lines, p, q, price) ==
    [lines EXCEPT ![p] =
        IF In(p, lines) THEN [q |-> lines[p].q + q, price |-> lines[p].price]
        ELSE [q |-> q, price |-> price]]
SetLine(lines, p, q) == [lines EXCEPT ![p] = [q |-> q, price |-> lines[p].price]]
RemoveLine(lines, p) == [lines EXCEPT ![p] = NoLine]

-----------------------------------------------------------------------------
VARIABLES carts,   \* the lines of each user
          held     \* the versions of each user's cart, not its last, that
                   \* requests hold

vars == <<carts, held>>

Init == carts = [u \in Users |-> NoLines] /\ held = [u \in Users |-> {}]

\* A request of u may give up the version it holds; when the cart of u is
\* put, the version that was the last may be held by others.
Hold(u) ==
    /\ DOMAIN held' = Users
    /\ held'[u] \subseteq held[u] \cup {carts[u]}
    /\ \A w \in Users \ {u} : held'[w] \subseteq held[w]
GiveUp ==
    /\ DOMAIN held' = Users
    /\ \A w \in Users : held'[w] \subseteq held[w]
    /\ UNCHANGED carts

\* What requests do to a version of the lines.
Added(v) == {AddLine(v, p, q, x) : p \in Products, q \in Quantities, x \in Prices}
WithQuantity(v) == {SetLine(v, p, q) : p \in {r \in Products : In(r, v)}, q \in Quantities}
Removed(v) == {RemoveLine(v, p) : p \in Products}

Change(u) ==
    /\ \E v \in {carts[u]} \cup held[u] :
          \E lines \in Added(v) \cup WithQuantity(v) \cup Removed(v) :
             carts' = [carts EXCEPT ![u] = lines]
    /\ Hold(u)
Clear(u) == carts' = [carts EXCEPT ![u] = NoLines] /\ Hold(u)

Next == GiveUp \/ \E u \in Users : Change(u) \/ Clear(u)

Spec == Init /\ [][Next]_vars
=============================================================================

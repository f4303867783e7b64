------------------------------ MODULE OrderLife ------------------------------
(***************************************************************************)
(* What order-service and product-service promise together of an order,    *)
(* without the calls, handlers, timeouts and redeliveries between them: it *)
(* is placed, settles once, and when it is confirmed takes the units of    *)
(* each of its products once and in one step, never under another order's  *)
(* reservation.  It can begin to hold a product only before it is placed,  *)
(* and may lose what it holds at any time.  A confirmed order is not       *)
(* promised its units: Take is a step it may never make.                   *)
(*                                                                         *)
(* An order that was contested, by two handlers of its payment acting on   *)
(* it at once, may settle again and take its units again; but even then it *)
(* takes only what is there and nobody else holds.                         *)
(***************************************************************************)
EXTENDS Integers

CONSTANTS Orders, NoOrder, Products,
          Wanted,   \* the units each order asks of each product, 0 of most
          Stock     \* the stock of each product at first

VARIABLES status,   \* of each order
          stock,    \* of each product
          holder,   \* the order that holds a product, or NoOrder
          sold,     \* the units of each product that each order took
          contested \* the orders whose payment was handled twice at once

vars == <<status, stock, holder, sold, contested>>

Init ==
    /\ status = [o \in Orders |-> "absent"]
    /\ stock = Stock
    /\ holder = [p \in Products |-> NoOrder]
    /\ sold = [o \in Orders |-> [p \in Products |-> 0]]
    /\ contested = {}

\* Before an order is placed it may hold what is there and nobody holds.
Hold(o, p) ==
    /\ status[o] = "absent"
    /\ holder[p] = NoOrder
    /\ Wanted[o][p] > 0 /\ stock[p] >= Wanted[o][p]
    /\ holder' = [holder EXCEPT ![p] = o]
    /\ UNCHANGED <<status, stock, sold, contested>>

Release(p) ==
    /\ holder' = [holder EXCEPT ![p] = NoOrder]
    /\ UNCHANGED <<status, stock, sold, contested>>

Place(o) ==
    /\ status[o] = "absent"
    /\ status' = [status EXCEPT ![o] = "AWAITING_PAYMENT"]
    /\ UNCHANGED <<stock, holder, sold, contested>>

Contest(o) ==
    /\ status[o] = "AWAITING_PAYMENT"
    /\ contested' = contested \cup {o}
    /\ UNCHANGED <<status, stock, holder, sold>>

Settle(o) ==
    /\ status[o] # "absent"
    /\ status[o] = "AWAITING_PAYMENT" \/ o \in contested
    /\ \E s \in {"CONFIRMED", "FAILED"} : status' = [status EXCEPT ![o] = s]
    /\ UNCHANGED <<stock, holder, sold, contested>>

Take(o, p) ==
    /\ (status[o] = "CONFIRMED" /\ sold[o][p] = 0) \/ o \in contested
    /\ holder[p] \in {NoOrder, o}
    /\ Wanted[o][p] > 0 /\ stock[p] >= Wanted[o][p]
    /\ sold' = [sold EXCEPT ![o][p] = @ + Wanted[o][p]]
    /\ stock' = [stock EXCEPT ![p] = @ - Wanted[o][p]]
    /\ holder' = [holder EXCEPT ![p] = NoOrder]
    /\ UNCHANGED <<status, contested>>

Next ==
    \/ \E o \in Orders : Place(o) \/ Contest(o) \/ Settle(o)
    \/ \E p \in Products : Release(p) \/ \E o \in Orders : Hold(o, p) \/ Take(o, p)

Spec == Init /\ [][Next]_vars
=============================================================================

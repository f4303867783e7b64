----------------------------- MODULE ProductRow -----------------------------
(***************************************************************************)
(* One row of the `products` table (product-service/src/models/Product.js) *)
(* and what each SQL statement product-service sends does to it.  Every    *)
(* operator is one statement of Postgres: it is evaluated on the row as it *)
(* is when the statement runs, so it is atomic.                            *)
(*                                                                         *)
(* Time is abstracted to what the statements can tell apart about          *)
(* reservedUntil: it is null ("none"), later than now ("live") or earlier  *)
(* than now ("lapsed").                                                    *)
(***************************************************************************)
EXTENDS Integers

CONSTANTS Orders,    \* order ids
          NoOrder    \* reservedByOrderId = null, or no orderId in a request

ASSUME NoOrderAssumption == NoOrder \notin Orders

Leases == {"none", "live", "lapsed"}

Row == [stock  : Nat,
        by     : Orders \cup {NoOrder},
        lease  : Leases,
        active : BOOLEAN]

FreshRow(s) == [stock |-> s, by |-> NoOrder, lease |-> "none", active |-> TRUE]

\* What getProductById reports of a row: `_reserved`, and the stock it masks.
Reserved(r) == r.by # NoOrder /\ r.lease = "live"
VisibleStock(r) == IF Reserved(r) THEN 0 ELSE r.stock

\* Sets the two columns of the reservation.
SetReservation(r, o, l) ==
    [stock |-> r.stock, by |-> o, lease |-> l, active |-> r.active]

\* The WHERE and the SET of the reservation in updateStock.
MutCanReserve(r, q) == r.stock >= q   \* mutant: ignores who holds the row
MutReserveAnyStock(r, q) == r.by = NoOrder \/ r.lease = "lapsed"   \* mutant
CanReserve(r, q) == r.stock >= q /\ (r.by = NoOrder \/ r.lease = "lapsed")
Take(r, o) == SetReservation(r, IF o = NoOrder THEN r.by ELSE o, "live")

\* The two columns that clearReservation, a release and the job set to null.
Clear(r) == SetReservation(r, NoOrder, "none")

\* The WHERE and the SET of commitSale.
MutCanCommit(r, q, o) == r.stock >= q                \* mutant: any holder
MutCanOversell(r, q, o) == r.by \in {NoOrder, o}     \* mutant: any stock
CanCommit(r, q, o) == r.stock >= q /\ r.by \in {NoOrder, o}
MutSell(r, q) == Clear(r)     \* mutant: releases without decrementing
Sell(r, q) == [Clear(r) EXCEPT !.stock = r.stock - q]

\* The UPDATE of the expiry job, on a row that matches its WHERE or does not.
MutSweep(r) == IF r.lease = "lapsed"      \* mutant: forgets reservedByOrderId
               THEN SetReservation(r, r.by, "none") ELSE r
Sweep(r) == IF r.lease = "lapsed" THEN Clear(r) ELSE r
=============================================================================

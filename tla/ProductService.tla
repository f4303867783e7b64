--------------------------- MODULE ProductService ---------------------------
(***************************************************************************)
(* product-service: the HTTP handlers of services/productService.js and    *)
(* the job of jobs/expireReservations.js, over the products table.         *)
(*                                                                         *)
(* The service runs in several replicas, so a handler interleaves with     *)
(* every other one at each await.  One element of Slots is one request     *)
(* being served: it is received, most handlers read the row first          *)
(* (findByPk), decide from what they read, and write it with a second      *)
(* statement.  A write of a Sequelize instance updates by id alone and     *)
(* sets only the columns that differ from what was read.                   *)
(***************************************************************************)
EXTENDS ProductRow

CONSTANTS Products,    \* ids the table's sequence can hand out
          Slots,       \* requests in service at once, over all the replicas
          Quantities,  \* amounts a request may carry
          Endpoints,   \* the handlers that the clients call
          MaxStock,    \* bound: a restock never raises a row above it
          NoRow,       \* findByPk found nothing
          NoReq        \* a slot that carries no request

Kinds == {"get", "reserve", "adjust", "clear", "put", "activate", "delete",
          "commit"}

ASSUME ProductServiceAssumption ==
    /\ Quantities \subseteq Nat \ {0}
    /\ MaxStock \in Nat
    /\ Endpoints \subseteq Kinds
    /\ NoRow \notin Row

(* What a client sends.  "reserve" is PATCH /:id/stock with a negative     *)
(* quantity (its absolute value here) and "adjust" with a positive one;    *)
(* "put" and "activate" are PUT /:id with a body {stock} or {isActive}.    *)
Request ==
    [kind : Kinds, p : Products, q : Nat, o : Orders \cup {NoOrder}]

Requests ==
    { r \in [kind : Endpoints, p : Products, q : Quantities \cup {0},
             o : Orders \cup {NoOrder}] :
        /\ r.kind \in {"reserve", "adjust", "commit"} <=> (r.q # 0 /\ r.kind # "put")
        /\ r.kind \in {"get", "adjust", "put", "activate", "delete"} => r.o = NoOrder
        /\ r.kind = "commit" => r.o # NoOrder }

ASSUME NoReqAssumption == NoReq \notin Request

VARIABLES
    row,      \* the products table: [Products -> Row \cup {NoRow}]
    call,     \* the requests in service: see Call
    deleted   \* the ids published to the topic product.deleted

vars == <<row, call, deleted>>

Codes == {"none", "ok", "conflict", "missing", "error"}

Call == [at   : {"idle", "received", "read", "publish", "done"},
         req  : Request \cup {NoReq},
         seen : Row \cup {NoRow},     \* the instance findByPk returned
         code : Codes]

Idle == [at |-> "idle", req |-> NoReq, seen |-> NoRow, code |-> "none"]

Init ==
    /\ row \in [Products ->
                  {NoRow} \cup {FreshRow(s) : s \in Quantities \cup {0}}]
    /\ call = [c \in Slots |-> Idle]
    /\ deleted = {}

-----------------------------------------------------------------------------
At(c, stage, kinds) == call[c].at = stage /\ call[c].req.kind \in kinds

\* The handler answers: the client sees only the code and, of a GET, the row.
Answer(c, code, seen) ==
    call' = [call EXCEPT ![c] =
               [at |-> "done", req |-> NoReq, seen |-> seen, code |-> code]]

\* The handler of request r awaits its next statement, having seen a row.
Await(c, stage, r, seen) ==
    call' = [call EXCEPT ![c] =
               [at |-> stage, req |-> r, seen |-> seen, code |-> "none"]]

Receive(c, r) ==
    /\ call[c].at = "idle"
    /\ Await(c, "received", r, NoRow)
    /\ UNCHANGED <<row, deleted>>

\* The client has its answer, or has stopped waiting for it.
Reply(c) ==
    /\ call[c].at = "done"
    /\ call' = [call EXCEPT ![c] = Idle]
    /\ UNCHANGED <<row, deleted>>

\* getProductById: one read.
GetProduct(c) ==
    /\ At(c, "received", {"get"})
    /\ LET r == row[call[c].req.p]
       IN  Answer(c, IF r = NoRow THEN "missing" ELSE "ok", r)
    /\ UNCHANGED <<row, deleted>>

\* The findByPk every handler but commitSale starts with.
FindByPk(c) ==
    /\ At(c, "received",
          {"reserve", "adjust", "clear", "put", "activate", "delete"})
    /\ Await(c, "read", call[c].req, row[call[c].req.p])
    /\ UNCHANGED <<row, deleted>>

NotFound(c) ==
    /\ call[c].at = "read"
    /\ call[c].seen = NoRow
    /\ Answer(c, "missing", NoRow)
    /\ UNCHANGED <<row, deleted>>

\* The handler of slot c runs on from its read of a row.
Found(c, kinds) == At(c, "read", kinds) /\ call[c].seen # NoRow

-----------------------------------------------------------------------------
(* updateStock with a negative quantity.                                   *)

\* Less than the stock it read: success, and nothing is reserved.
SkipReservation(c) ==
    /\ Found(c, {"reserve"})
    /\ call[c].req.q < call[c].seen.stock
    /\ Answer(c, "ok", NoRow)
    /\ UNCHANGED <<row, deleted>>

\* The conditional UPDATE, and the refusal when it affects no row.
Reserve(c) ==
    /\ Found(c, {"reserve"})
    /\ call[c].req.q >= call[c].seen.stock
    /\ LET q == call[c].req
       IN  \/ /\ CanReserve(row[q.p], q.q)
              /\ row' = [row EXCEPT ![q.p] = Take(@, q.o)]
              /\ Answer(c, "ok", NoRow)
           \/ /\ ~ CanReserve(row[q.p], q.q)
              /\ Answer(c, "conflict", NoRow)
              /\ UNCHANGED row
    /\ UNCHANGED deleted

(* updateStock with a positive quantity: the new stock is computed from    *)
(* the row that was read, and a reservation that was seen is cleared.      *)
Adjusted(r, seen, q) ==
    [(IF seen.by = NoOrder THEN r ELSE Clear(r)) EXCEPT !.stock = seen.stock + q]

AdjustStock(c) ==
    /\ Found(c, {"adjust"})
    /\ LET q == call[c].req
       IN  /\ call[c].seen.stock + q.q <= MaxStock
           /\ row' = [row EXCEPT ![q.p] = Adjusted(@, call[c].seen, q.q)]
    /\ Answer(c, "ok", NoRow)
    /\ UNCHANGED deleted

-----------------------------------------------------------------------------
(* clearReservation: the owner is checked on the row that was read.        *)

MayClear(seen, o) == seen.by # NoOrder /\ o \in {NoOrder, seen.by}

KeepReservation(c) ==
    /\ Found(c, {"clear"})
    /\ ~ MayClear(call[c].seen, call[c].req.o)
    /\ Answer(c, "ok", NoRow)
    /\ UNCHANGED <<row, deleted>>

ClearReservation(c) ==
    /\ Found(c, {"clear"})
    /\ MayClear(call[c].seen, call[c].req.o)
    /\ row' = [row EXCEPT ![call[c].req.p] = Clear(@)]
    /\ Answer(c, "ok", NoRow)
    /\ UNCHANGED deleted

-----------------------------------------------------------------------------
(* commitSale: one conditional UPDATE; when it affects no row, the current *)
(* row is read and returned with the same status.                          *)

CommitSale(c) ==
    /\ At(c, "received", {"commit"})
    /\ LET q == call[c].req
       IN  row' = IF row[q.p] # NoRow /\ CanCommit(row[q.p], q.q, q.o)
                  THEN [row EXCEPT ![q.p] = Sell(@, q.q)]
                  ELSE row
    /\ Answer(c, "ok", NoRow)
    /\ UNCHANGED deleted

-----------------------------------------------------------------------------
(* Catalogue administration.                                               *)

\* createProduct: one INSERT, the id comes from the table's sequence.
CreateProduct(p, s) ==
    /\ row[p] = NoRow
    /\ row' = [row EXCEPT ![p] = FreshRow(s)]
    /\ UNCHANGED <<call, deleted>>

\* updateProduct with a body {stock}: written if it differs from the read.
PutStock(c) ==
    /\ Found(c, {"put"})
    /\ LET q == call[c].req
       IN  row' = IF q.q = call[c].seen.stock THEN row
                  ELSE [row EXCEPT ![q.p].stock = q.q]
    /\ Answer(c, "ok", NoRow)
    /\ UNCHANGED deleted

\* updateProduct with a body {isActive: true}.
Reactivate(c) ==
    /\ Found(c, {"activate"})
    /\ LET q == call[c].req
       IN  row' = IF call[c].seen.active THEN row
                  ELSE [row EXCEPT ![q.p].active = TRUE]
    /\ Answer(c, "ok", NoRow)
    /\ UNCHANGED deleted

\* deleteProduct: the soft delete ...
DeleteProduct(c) ==
    /\ Found(c, {"delete"})
    /\ LET q == call[c].req
       IN  row' = IF call[c].seen.active
                  THEN [row EXCEPT ![q.p].active = FALSE]
                  ELSE row
    /\ Await(c, "publish", call[c].req, NoRow)
    /\ UNCHANGED deleted

\* ... and the event; a failure to publish is logged and the answer is 200.
PublishDeleted(c) ==
    /\ At(c, "publish", {"delete"})
    /\ deleted' \in {deleted, deleted \cup {call[c].req.p}}
    /\ Answer(c, "ok", NoRow)
    /\ UNCHANGED row

-----------------------------------------------------------------------------
\* A statement fails, or the replica serving c stops, before the next step.
Fail(c) ==
    /\ call[c].at \in {"received", "read", "publish"}
    /\ Answer(c, "error", NoRow)
    /\ UNCHANGED <<row, deleted>>

\* Time passes the reservedUntil of p.
Lapse(p) ==
    /\ row[p] # NoRow
    /\ row[p].lease = "live"
    /\ row' = [row EXCEPT ![p].lease = "lapsed"]
    /\ UNCHANGED <<call, deleted>>

\* clearExpiredReservations: one UPDATE over the table.
ExpireReservations ==
    /\ \E p \in Products : row[p] # NoRow /\ row[p].lease = "lapsed"
    /\ row' = [p \in Products |-> IF row[p] = NoRow THEN NoRow ELSE Sweep(row[p])]
    /\ UNCHANGED <<call, deleted>>

Serve(c) ==
    \/ GetProduct(c) \/ FindByPk(c) \/ NotFound(c)
    \/ SkipReservation(c) \/ Reserve(c) \/ AdjustStock(c)
    \/ KeepReservation(c) \/ ClearReservation(c)
    \/ CommitSale(c)
    \/ PutStock(c) \/ Reactivate(c) \/ DeleteProduct(c) \/ PublishDeleted(c)
    \/ Fail(c)

Next ==
    \/ \E c \in Slots : Serve(c) \/ Reply(c) \/ \E r \in Requests : Receive(c, r)
    \/ \E p \in Products :
          Lapse(p) \/ \E s \in Quantities \cup {0} : CreateProduct(p, s)
    \/ ExpireReservations

Spec == Init /\ [][Next]_vars

-----------------------------------------------------------------------------
(* Properties.                                                             *)

\* The rows and the requests in service are well typed; in particular the
\* stock of a row is never negative, whatever interleaves (the WHERE of
\* commitSale, productService.js:35-42, and the newStock check of updateStock).
TypeOK ==
    /\ row \in [Products -> Row \cup {NoRow}]
    /\ call \in [Slots -> Call]
    /\ deleted \subseteq Products

\* No row is wedged: a row that names an order always has a reservedUntil.
\* A row with an order and no expiry could never be reserved again (the WHERE
\* of updateStock), bought by another order (commitSale) or swept by the job,
\* though readers would show it as available.  The columns are written by
\* different statements, some of them from rows read earlier.
NoWedgedRow ==
    \A p \in Products :
        row[p] # NoRow => (row[p].by # NoOrder => row[p].lease # "none")

\* A live reservation never passes from one order to another in one step:
\* it is given up, or lapses, before another order takes the product
\* ("multiple concurrent requests cannot both reserve the same stock").
NoTheft ==
    [][\A p \in Products :
          (row[p] # NoRow /\ row'[p] # NoRow /\ Reserved(row[p]))
             => row'[p].by \in {row[p].by, NoOrder}]_vars

\* What an order has reserved is not sold to another: the stock of a row that
\* names an order is lowered by a sale to that order or by an administrator
\* (commitSale: "this prevents one order from stealing a reservation owned by
\* another order").
AdminWrite == \E c \in Slots : AdjustStock(c) \/ PutStock(c)
SaleTo(p, o) == \E c \in Slots :
    CommitSale(c) /\ call[c].req.p = p /\ call[c].req.o = o
NoSaleUnderReservation ==
    [][\A p \in Products :
          (/\ row[p] # NoRow /\ row'[p] # NoRow
           /\ row[p].by # NoOrder /\ row'[p].stock < row[p].stock)
             => SaleTo(p, row[p].by) \/ AdminWrite]_vars
=============================================================================

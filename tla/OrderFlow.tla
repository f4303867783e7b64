------------------------------ MODULE OrderFlow ------------------------------
(***************************************************************************)
(* order-service over product-service: the checkout of each order          *)
(* (services/orderService.js), the handling of payment results             *)
(* (services/paymentConsumer.js), and the calls both make to the handlers  *)
(* of ProductService.                                                      *)
(*                                                                         *)
(* A call takes an idle slot of ProductService; the caller then waits for  *)
(* the answer, or gives up after its timeout and leaves the request in     *)
(* service, where it may still take effect.  The removal of a paid item    *)
(* from the cart is recorded only as asked for: what it does to the cart   *)
(* is in CartService.                                                      *)
(***************************************************************************)
EXTENDS Integers, Sequences, FiniteSets, Functions

CONSTANTS Orders, NoOrder, Products, Slots, Quantities, MaxStock, NoRow, NoReq,
          NoSlot,          \* a caller that is not waiting for an answer
          Items,           \* the items of each order: <<[p |-> , q |-> ], ...>>
          Stock,           \* the stock of each product at first
          Handlers,        \* payment results being handled at once: the Kafka
                           \* consumer of a replica, an internal HTTP request
          MaxResults,      \* bound: payment results published for one order
          MaxDeliveries,   \* bound: deliveries of payment results in all
          SlowCalls,       \* kinds of call whose answer may come too late
          Faults           \* whether statements and processes fail

VARIABLES row, call, deleted,   \* product-service
          order,       \* the orders table
          checkout,    \* createOrderFromCart, one run per order
          requested,   \* orders published to payment.requested
          results,     \* what payment.succeeded and payment.failed carry
          deliveries,  \* how often a result has been delivered
          handler,     \* handlePaymentMessage, in each of its runners
          uncarted,    \* the products each order asked cart-service to remove
          sold,        \* history: the units commitSale took for each order
          raced        \* history: the orders that two handlers acted on at once

Endpoints == {"get", "reserve", "clear", "commit"}

PS == INSTANCE ProductService

productVars  == <<row, call, deleted, sold>>
checkoutVars == <<checkout, requested>>
paymentVars  == <<results, deliveries, handler, uncarted, raced>>
vars == <<productVars, checkoutVars, paymentVars, order>>

ASSUME OrderFlowAssumption ==
    /\ IsFiniteSet(Orders)
    /\ Items \in [Orders -> Seq([p : Products, q : Quantities])]
    /\ \A o \in Orders :
          /\ Items[o] # << >>
          /\ \A i, j \in DOMAIN Items[o] : i # j => Items[o][i].p # Items[o][j].p
    /\ Stock \in [Products -> Quantities \cup {0}]
    /\ MaxResults \in Nat /\ MaxDeliveries \in Nat
    /\ SlowCalls \subseteq Endpoints
    /\ Faults \in BOOLEAN
    /\ NoSlot \notin Slots

ASSUME CallsAssumption ==
    PS!NoOrderAssumption /\ PS!ProductServiceAssumption /\ PS!NoReqAssumption

Results == [is : {"succeeded", "failed"}, o : Orders]

Statuses == {"absent", "AWAITING_PAYMENT", "CONFIRMED", "FAILED"}
Reasons == {"none", "kafka_publish_failed", "payment_failed"}

\* Where a checkout stands.  i is the item it is at, last the last item of
\* the loop it is in, scarce the products it will take the last units of.
Checkout == [at     : {"new", "check", "reserve", "rollback", "save", "publish",
                       "mark", "done", "rejected", "lost"},
             i      : Nat,
             last   : Nat,
             scarce : SUBSET Products,
             on     : Slots \cup {NoSlot}]

Handler == [at : {"idle", "fetch", "confirm", "uncart", "commit", "clear", "fail"},
            ev : Results \cup {NoReq},
            i  : Nat,
            on : Slots \cup {NoSlot}]

Resting == [at |-> "idle", ev |-> NoReq, i |-> 0, on |-> NoSlot]

Init ==
    /\ row = [p \in Products |-> PS!FreshRow(Stock[p])]
    /\ call = [c \in Slots |-> PS!Idle]
    /\ deleted = {}
    /\ order = [o \in Orders |-> [status |-> "absent", reason |-> "none"]]
    /\ checkout = [o \in Orders |->
                     [at |-> "new", i |-> 1, last |-> Len(Items[o]),
                      scarce |-> {}, on |-> NoSlot]]
    /\ requested = {}
    /\ results = {}
    /\ deliveries = 0
    /\ handler = [h \in Handlers |-> Resting]
    /\ uncarted = [o \in Orders |-> {}]
    /\ sold = [o \in Orders |-> [p \in Products |-> 0]]
    /\ raced = {}

-----------------------------------------------------------------------------
(* Calls (inventoryService.js).                                            *)

MutSend(c, kind, item, o) ==   \* mutant: the order id is left out
    PS!Receive(c, [kind |-> kind, p |-> item.p,
                   q |-> IF kind \in {"reserve", "commit"} THEN item.q ELSE 0,
                   o |-> NoOrder])
Send(c, kind, item, o) ==
    PS!Receive(c, [kind |-> kind, p |-> item.p,
                   q |-> IF kind \in {"reserve", "commit"} THEN item.q ELSE 0,
                   o |-> IF kind = "get" THEN NoOrder ELSE o])

\* The answer on slot c is in, and its reader frees the slot; or the reader
\* of a call of this kind gives up, which it cannot tell from a failure.
Answered(c) == PS!Reply(c)
GaveUp(c, kind) == kind \in SlowCalls /\ UNCHANGED <<row, call, deleted>>

\* What checkInventory makes of the answer to a GET.
Available(a, q) ==
    a.code = "ok" /\ ~ PS!Reserved(a.seen) /\ PS!VisibleStock(a.seen) >= q

-----------------------------------------------------------------------------
(* createOrderFromCart.                                                    *)

CheckoutIs(o, stage) == checkout[o].at = stage
ItemOf(o) == Items[o][checkout[o].i]

\* The checkout moves to a stage, at the first item of a loop.
Enter(o, stage) ==
    [checkout[o] EXCEPT !.at = stage, !.i = 1, !.on = NoSlot]

\* The loop ends after its last item, and the next stage begins.
Onward(o, stage) ==
    IF checkout[o].i = checkout[o].last THEN Enter(o, stage)
    ELSE [checkout[o] EXCEPT !.i = @ + 1, !.on = NoSlot]

StartCheckout(o) ==
    /\ CheckoutIs(o, "new")
    /\ checkout' = [checkout EXCEPT ![o] = Enter(o, "check")]
    /\ UNCHANGED <<productVars, requested, paymentVars, order>>

\* The checkout makes the call of its stage.
CheckoutCall(o, stage, kind) ==
    /\ CheckoutIs(o, stage)
    /\ checkout[o].on = NoSlot
    /\ \E c \in Slots :
          /\ Send(c, kind, ItemOf(o), o)
          /\ checkout' = [checkout EXCEPT ![o].on = c]
    /\ UNCHANGED <<sold, requested, paymentVars, order>>

CheckInventory(o) == CheckoutCall(o, "check", "get")

\* An item is there: remember whether this order takes all that is left.
InventoryChecked(o) ==
    /\ CheckoutIs(o, "check") /\ checkout[o].on # NoSlot
    /\ LET c == checkout[o].on
           i == ItemOf(o)
           n == Onward(o, "reserve")
       IN  \/ /\ Answered(c)
              /\ Available(call[c], i.q)
              /\ checkout' = [checkout EXCEPT ![o] =
                   [n EXCEPT !.scarce =
                      IF PS!VisibleStock(call[c].seen) - i.q <= 0 THEN @ \cup {i.p}
                      ELSE @ \ {i.p}]]
           \/ /\ \/ Answered(c) /\ ~ Available(call[c], i.q)
                 \/ GaveUp(c, "get")
              /\ checkout' = [checkout EXCEPT ![o] = Enter(o, "rejected")]
    /\ UNCHANGED <<sold, requested, paymentVars, order>>

\* Items that leave some stock are not reserved.
SkipItem(o) ==
    /\ CheckoutIs(o, "reserve")
    /\ ItemOf(o).p \notin checkout[o].scarce
    /\ checkout' = [checkout EXCEPT ![o] = Onward(o, "save")]
    /\ UNCHANGED <<productVars, requested, paymentVars, order>>

ReserveItem(o) ==
    /\ ItemOf(o).p \in checkout[o].scarce
    /\ CheckoutCall(o, "reserve", "reserve")

\* A refusal, an error or a timeout rolls back the items before this one.
MutRollBackFrom(o) ==   \* mutant: one item too few
    IF checkout[o].i <= 2 THEN Enter(o, "rejected")
    ELSE [Enter(o, "rollback") EXCEPT !.last = checkout[o].i - 2]
RollBackFrom(o) ==
    IF checkout[o].i = 1 THEN Enter(o, "rejected")
    ELSE [Enter(o, "rollback") EXCEPT !.last = checkout[o].i - 1]

MutItemReserved(o) ==   \* mutant: no answer is taken for a reservation
    /\ CheckoutIs(o, "reserve") /\ checkout[o].on # NoSlot
    /\ LET c == checkout[o].on
       IN  \/ /\ (Answered(c) /\ call[c].code = "ok") \/ GaveUp(c, "reserve")
              /\ checkout' = [checkout EXCEPT ![o] = Onward(o, "save")]
           \/ /\ Answered(c) /\ call[c].code # "ok"
              /\ checkout' = [checkout EXCEPT ![o] = RollBackFrom(o)]
    /\ UNCHANGED <<sold, requested, paymentVars, order>>
ItemReserved(o) ==
    /\ CheckoutIs(o, "reserve") /\ checkout[o].on # NoSlot
    /\ LET c == checkout[o].on
       IN  \/ /\ Answered(c) /\ call[c].code = "ok"
              /\ checkout' = [checkout EXCEPT ![o] = Onward(o, "save")]
           \/ /\ (Answered(c) /\ call[c].code # "ok") \/ GaveUp(c, "reserve")
              /\ checkout' = [checkout EXCEPT ![o] = RollBackFrom(o)]
    /\ UNCHANGED <<sold, requested, paymentVars, order>>

RollBackItem(o) == CheckoutCall(o, "rollback", "clear")

ItemRolledBack(o) ==
    /\ CheckoutIs(o, "rollback") /\ checkout[o].on # NoSlot
    /\ Answered(checkout[o].on) \/ GaveUp(checkout[o].on, "clear")
    /\ checkout' = [checkout EXCEPT ![o] = Onward(o, "rejected")]
    /\ UNCHANGED <<sold, requested, paymentVars, order>>

\* OrderModel.saveOrder; when it throws, nothing undoes the reservations.
SaveOrder(o) ==
    /\ CheckoutIs(o, "save")
    /\ \/ /\ order' = [order EXCEPT ![o] =
                         [status |-> "AWAITING_PAYMENT", reason |-> "none"]]
          /\ checkout' = [checkout EXCEPT ![o].at = "publish"]
       \/ /\ Faults
          /\ checkout' = [checkout EXCEPT ![o].at = "rejected"]
          /\ UNCHANGED order
    /\ UNCHANGED <<productVars, requested, paymentVars>>

PublishRequest(o) ==
    /\ CheckoutIs(o, "publish")
    /\ \/ /\ requested' = requested \cup {o}
          /\ checkout' = [checkout EXCEPT ![o].at = "done"]
       \/ /\ Faults
          /\ checkout' = [checkout EXCEPT ![o].at = "mark"]
          /\ UNCHANGED requested
    /\ UNCHANGED <<productVars, paymentVars, order>>

\* The failure to publish is recorded on the order, if that succeeds.
MarkUnpublished(o) ==
    /\ CheckoutIs(o, "mark")
    /\ order' \in {order, [order EXCEPT ![o].reason = "kafka_publish_failed"]}
    /\ checkout' = [checkout EXCEPT ![o].at = "done"]
    /\ UNCHANGED <<productVars, requested, paymentVars>>

\* The replica that runs the checkout stops.
LoseCheckout(o) ==
    /\ Faults
    /\ checkout[o].at \notin {"new", "done", "rejected", "lost"}
    /\ checkout' = [checkout EXCEPT ![o] = Enter(o, "lost")]
    /\ UNCHANGED <<productVars, requested, paymentVars, order>>

CheckoutStep(o) ==
    \/ StartCheckout(o) \/ CheckInventory(o) \/ InventoryChecked(o)
    \/ SkipItem(o) \/ ReserveItem(o) \/ ItemReserved(o)
    \/ RollBackItem(o) \/ ItemRolledBack(o)
    \/ SaveOrder(o) \/ PublishRequest(o) \/ MarkUnpublished(o)

-----------------------------------------------------------------------------
(* Payment results and handlePaymentMessage.  A result exists once the     *)
(* order can be paid: payment-service answers payment.requested, and the   *)
(* customer's page posts a result for an order it has just created.        *)

ResultsOf(o) == {e \in results : e.o = o}

PaymentResult(e) ==
    /\ order[e.o].status # "absent"
    /\ e \notin results
    /\ Cardinality(ResultsOf(e.o)) < MaxResults
    /\ results' = results \cup {e}
    /\ UNCHANGED <<productVars, checkoutVars, deliveries, handler, uncarted, raced, order>>

HandlerIs(h, stage) == handler[h].at = stage
OrderOf(h) == handler[h].ev.o
HandledItem(h) == Items[OrderOf(h)][handler[h].i]

HandlerTo(h, stage) ==
    handler' = [handler EXCEPT ![h].at = stage, ![h].i = 1, ![h].on = NoSlot]

\* Kafka delivers a result at least once; the HTTP endpoint when it is called.
Deliver(h, e) ==
    /\ HandlerIs(h, "idle")
    /\ e \in results
    /\ deliveries < MaxDeliveries
    /\ deliveries' = deliveries + 1
    /\ handler' = [handler EXCEPT ![h] =
                     [at |-> "fetch", ev |-> e, i |-> 1, on |-> NoSlot]]
    /\ UNCHANGED <<productVars, checkoutVars, results, uncarted, raced, order>>

\* Another handler has read that the order awaits payment, and acts on it.
Acts(h) == handler[h].at \in {"confirm", "uncart", "commit", "clear", "fail"}
Contended(h) == \E g \in Handlers \ {h} : Acts(g) /\ OrderOf(g) = OrderOf(h)

\* The order is read, and an event for one that is not awaiting is ignored.
MutFetchOrder(h) ==   \* mutant: the status is not looked at
    /\ HandlerIs(h, "fetch")
    /\ HandlerTo(h, IF handler[h].ev.is = "succeeded" THEN "confirm" ELSE "clear")
    /\ raced' = IF Contended(h) THEN raced \cup {OrderOf(h)} ELSE raced
    /\ UNCHANGED <<productVars, checkoutVars, results, deliveries, uncarted, order>>
FetchOrder(h) ==
    /\ HandlerIs(h, "fetch")
    /\ LET e == handler[h].ev
       IN  \/ /\ order[e.o].status # "AWAITING_PAYMENT"
              /\ handler' = [handler EXCEPT ![h] = Resting]
              /\ UNCHANGED raced
           \/ /\ order[e.o].status = "AWAITING_PAYMENT"
              /\ HandlerTo(h, IF e.is = "succeeded" THEN "confirm" ELSE "clear")
              /\ raced' = IF Contended(h) THEN raced \cup {e.o} ELSE raced
    /\ UNCHANGED <<productVars, checkoutVars, results, deliveries, uncarted, order>>

MutConfirmOrder(h) ==   \* mutant: the status is not persisted
    /\ HandlerIs(h, "confirm")
    /\ HandlerTo(h, "uncart")
    /\ UNCHANGED <<productVars, checkoutVars, results, deliveries, uncarted, raced, order>>
ConfirmOrder(h) ==
    /\ HandlerIs(h, "confirm")
    /\ order' = [order EXCEPT ![OrderOf(h)].status = "CONFIRMED"]
    /\ HandlerTo(h, "uncart")
    /\ UNCHANGED <<productVars, checkoutVars, results, deliveries, uncarted, raced>>

\* Each item of a paid order: cart-service is asked to remove it from the
\* user's cart, whatever comes of it (CartService), and then it is committed.
\* (Every order here has a user id; the loop is skipped for an empty one.)
RemoveFromCart(h) ==
    /\ HandlerIs(h, "uncart")
    /\ uncarted' = [uncarted EXCEPT ![OrderOf(h)] = @ \cup {HandledItem(h).p}]
    /\ handler' = [handler EXCEPT ![h].at = "commit"]
    /\ UNCHANGED <<productVars, checkoutVars, results, deliveries, raced, order>>

\* One item: a commit after a payment, a clear after a failed one.
HandlerCall(h, stage, kind) ==
    /\ HandlerIs(h, stage)
    /\ handler[h].on = NoSlot
    /\ \E c \in Slots :
          /\ Send(c, kind, HandledItem(h), OrderOf(h))
          /\ handler' = [handler EXCEPT ![h].on = c]
    /\ UNCHANGED <<sold, checkoutVars, results, deliveries, uncarted, raced, order>>

CommitItem(h) == HandlerCall(h, "commit", "commit")
ClearItem(h) == HandlerCall(h, "clear", "clear")

\* Whatever the answer, the loop goes on, and after it the handler.
HandlerAnswered(h, stage, kind, next, last) ==
    /\ HandlerIs(h, stage) /\ handler[h].on # NoSlot
    /\ Answered(handler[h].on) \/ GaveUp(handler[h].on, kind)
    /\ handler' = [handler EXCEPT ![h] =
          IF handler[h].i < Len(Items[OrderOf(h)])
          THEN [handler[h] EXCEPT !.at = next, !.i = @ + 1, !.on = NoSlot]
          ELSE last]
    /\ UNCHANGED <<sold, checkoutVars, results, deliveries, uncarted, raced, order>>

ItemCommitted(h) == HandlerAnswered(h, "commit", "commit", "uncart", Resting)
ItemCleared(h) ==
    HandlerAnswered(h, "clear", "clear", "clear",
                    [handler[h] EXCEPT !.at = "fail", !.on = NoSlot])

FailOrder(h) ==
    /\ HandlerIs(h, "fail")
    /\ order' = [order EXCEPT ![OrderOf(h)] =
                    [status |-> "FAILED", reason |-> "payment_failed"]]
    /\ handler' = [handler EXCEPT ![h] = Resting]
    /\ UNCHANGED <<productVars, checkoutVars, results, deliveries, uncarted, raced>>

\* A statement on the orders table throws, or the replica stops.
StopHandler(h) ==
    /\ Faults
    /\ ~ HandlerIs(h, "idle")
    /\ handler' = [handler EXCEPT ![h] = Resting]
    /\ UNCHANGED <<productVars, checkoutVars, results, deliveries, uncarted, raced, order>>

HandlerStep(h) ==
    \/ FetchOrder(h) \/ ConfirmOrder(h)
    \/ RemoveFromCart(h) \/ CommitItem(h) \/ ItemCommitted(h)
    \/ ClearItem(h) \/ ItemCleared(h) \/ FailOrder(h)

-----------------------------------------------------------------------------
(* product-service serves the calls.                                       *)

Waiting == {checkout[o].on : o \in Orders} \cup {handler[h].on : h \in Handlers}

\* A commit that affects its row is a sale.
Sold(c) ==
    LET q == call[c].req
    IN  IF PS!At(c, "received", {"commit"}) /\ row' # row
        THEN [sold EXCEPT ![q.o][q.p] = @ + q.q]
        ELSE sold

Serve(c) ==
    /\ PS!Serve(c)
    /\ call'[c].code = "error" => Faults
    /\ sold' = Sold(c)
    /\ UNCHANGED <<checkoutVars, paymentVars, order>>

\* An answer nobody waits for any more.
Discard(c) ==
    /\ c \notin Waiting
    /\ PS!Reply(c)
    /\ UNCHANGED <<sold, checkoutVars, paymentVars, order>>

Lapse(p) == PS!Lapse(p) /\ UNCHANGED <<sold, checkoutVars, paymentVars, order>>
Expire == PS!ExpireReservations /\ UNCHANGED <<sold, checkoutVars, paymentVars, order>>

Next ==
    \/ \E o \in Orders : CheckoutStep(o) \/ LoseCheckout(o)
    \/ \E e \in Results : PaymentResult(e) \/ \E h \in Handlers : Deliver(h, e)
    \/ \E h \in Handlers : HandlerStep(h) \/ StopHandler(h)
    \/ \E c \in Slots : Serve(c) \/ Discard(c)
    \/ \E p \in Products : Lapse(p)
    \/ Expire

Spec == Init /\ [][Next]_vars

(* A handler of product-service that has begun goes on (or fails), time    *)
(* passes and the job runs; nothing is assumed of order-service.           *)
ServiceFairness ==
    /\ \A c \in Slots : WF_vars(Serve(c))
    /\ \A p \in Products : WF_vars(Lapse(p))
    /\ WF_vars(Expire)
ReleaseSpec == Spec /\ ServiceFairness

-----------------------------------------------------------------------------
(* Properties.                                                             *)

\* Types of order-service's state (ProductService has its own).
TypeOK ==
    /\ PS!TypeOK
    /\ order \in [Orders -> [status : Statuses, reason : Reasons]]
    /\ checkout \in [Orders -> Checkout]
    /\ requested \subseteq Orders /\ results \subseteq Results
    /\ deliveries \in 0..MaxDeliveries
    /\ handler \in [Handlers -> Handler]
    /\ uncarted \in [Orders -> SUBSET Products]
    /\ sold \in [Orders -> [Products -> Nat]]
    /\ raced \subseteq Orders

\* product-service, called as order-service calls it, behaves as specified.
ProductServiceSpec == PS!Spec

\* The units order o asks of product p.
Need(o, p) ==
    LET i == {n \in DOMAIN Items[o] : Items[o][n].p = p}
    IN  IF i = {} THEN 0 ELSE Items[o][CHOOSE n \in i : TRUE].q

\* What an order has reserved stays in stock until it buys it or loses the
\* reservation: the units that updateStock checked are still there, although
\* the reservation does not touch the stock and other orders keep buying.
ReservedUnitsInStock ==
    \A p \in Products, o \in Orders : row[p].by = o => row[p].stock >= Need(o, p)

\* The refinement mapping: a reservation that has lapsed holds nothing.
Holder(r) == IF PS!Reserved(r) THEN r.by ELSE NoOrder
Life == INSTANCE OrderLife WITH
            Wanted <- [o \in Orders |-> [p \in Products |-> Need(o, p)]],
            status <- [o \in Orders |-> order[o].status],
            stock  <- [p \in Products |-> row[p].stock],
            holder <- [p \in Products |-> Holder(row[p])],
            contested <- raced

\* An order lives as OrderLife says: unless two handlers act on it at once, it
\* is settled, and takes its units, as if each were one step; no order takes
\* what another holds, and none holds anything anew once it is saved, though
\* a reserve or a commit whose answer came too late is still served.
OrderLifeSpec == Life!Spec

\* Units are neither lost nor sold twice: what left the stock of a product
\* went to orders, whatever races, comes too late or is delivered again.
UnitsConserved ==
    \A p \in Products :
        row[p].stock + SumFunction([o \in Orders |-> sold[o][p]]) = Stock[p]

\* No order takes units, or products out of the user's cart, before it is
\* confirmed, and a failed one does neither: what is persisted before the
\* commits still says so after any stop, failure or second delivery.  The
\* exception is an order two handlers act on at once: one may fail it while
\* the other, which confirmed it, goes on to its items.
SoldIsConfirmed ==
    \A o \in Orders \ raced, p \in Products :
        (sold[o][p] > 0 \/ p \in uncarted[o]) => order[o].status = "CONFIRMED"

\* An order takes its units once, however often its payment is delivered
\* (paymentConsumer.js:20-24 reads the status before it commits), unless two
\* handlers read that it awaits payment before either has settled it.
SoldOnce ==
    \A o \in Orders \ raced, p \in Products : sold[o][p] <= Need(o, p)

\* What is settled stays so: an order leaves CONFIRMED or FAILED only when two
\* handlers act on it at once, each having read that it awaits payment.
\* Handlers that merely run at once, of two orders or of one after the other
\* has settled it, and deliveries again after a stop, never do it.
SettlesUnlessRaced ==
    [][\A o \in Orders \ raced :
          order[o].status \in {"CONFIRMED", "FAILED"}
             => order'[o].status = order[o].status]_vars

\* A checkout that is refused after it reserved some items gives them back
\* before it answers (orderService.js:75-86), when no call is lost.
RefusedHoldsNothing ==
    \A o \in Orders, p \in Products :
        CheckoutIs(o, "rejected") => row[p].by # o

\* No order keeps a product for ever: whatever is lost, in the end it holds
\* no reservation (order-service/README.md "On payment failure/timeout,
\* releases reserved stock"; the expiry job is what makes this true).
ReleasedInTheEnd ==
    \A o \in Orders, p \in Products : <>[](row[p].by # o)

-----------------------------------------------------------------------------
(* What comments promise, and the code does not keep.                      *)

\* An order settles once: it never leaves CONFIRMED or FAILED
\* (paymentConsumer.js:20 "Only process payment events when order is still
\* awaiting payment").
SettlesOnce ==
    [][\A o \in Orders :
          order[o].status \in {"CONFIRMED", "FAILED"}
             => order'[o].status = order[o].status]_vars

\* productService.js:323-325 "For smaller reservations ... the final commit
\* will atomically decrement stock when payment succeeds": an order that is
\* confirmed, and whose payment nobody is handling any more, has its units.
ConfirmedIsSold ==
    \A o \in Orders :
        (/\ order[o].status = "CONFIRMED"
         /\ \A h \in Handlers : HandlerIs(h, "idle"))
           => \A p \in Products : sold[o][p] = Need(o, p)
=============================================================================

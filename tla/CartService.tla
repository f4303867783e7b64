----------------------------- MODULE CartService -----------------------------
(***************************************************************************)
(* cart-service: the requests of services/cartService.js on the carts      *)
(* table, and the consumer of product.deleted                              *)
(* (services/productDeletedConsumer.js), which scans the table and calls   *)
(* removeItem for every cart that has the product.                         *)
(*                                                                         *)
(* A cart is one DynamoDB document, here its lines; the totals stored with *)
(* them are left out.  Every request but a clear reads the whole document, *)
(* and then puts a whole document back without a condition on what is      *)
(* there: another request may have put the cart in the meantime.           *)
(***************************************************************************)
EXTENDS Integers

CONSTANTS Users, Products, Quantities, Prices,
          Slots,        \* requests in service at once, over all the replicas
          Consumer,     \* the removeItem calls of the product.deleted consumer
          MaxLine,      \* bound: no addItem goes on that would exceed it
          NoPrice,      \* the product does not exist
          NoReq,        \* no request is being served
          MaxStops,     \* bound: stops of the replica that runs the consumer
          Faults        \* whether calls fail and processes stop

VARIABLES
    cart,      \* the carts table: the lines of each user's cart
    price,     \* of the products in product-service's catalogue
    topic,     \* the products in product.deleted the group has yet to consume
    position,  \* where the group reads from: nowhere yet, from the end of the
               \* topic when it joined, or from an offset it has committed
    stops,     \* how often the replica that runs the consumer has stopped
    call,      \* the requests in service
    sweep,     \* the consumer's scan
    overtaken, \* history: the requests whose cart another one has put since
               \* they read it
    missed     \* history: the carts that a deletion, consumed or skipped
               \* since its last delivery, was given up for

tableVars == <<cart, price, call, overtaken>>
consumerVars == <<topic, position, stops, sweep, missed>>
vars == <<tableVars, consumerVars>>

Callers == Slots \cup {Consumer}

ASSUME CartServiceAssumption ==
    /\ Quantities \subseteq Nat \ {0} /\ Prices \subseteq Nat
    /\ Consumer \notin Slots
    /\ NoPrice \notin Prices
    /\ MaxLine \in Nat
    /\ MaxStops \in Nat /\ Faults \in BOOLEAN

Kinds == {"add", "set", "remove", "clear"}

\* updateItemQuantity may set 0, addItem asks for one unit or more.
Request == [kind : Kinds, u : Users, p : Products, q : Quantities \cup {0}]
Requests ==
    { r \in Request : /\ r.kind = "add" => r.q # 0
                      /\ r.kind \in {"remove", "clear"} => r.q = 0 }

ASSUME NoReqAssumption == NoReq \notin Request

\* The versions of each cart that requests hold, and that are not the last.
Held == [u \in Users |-> {call[c].seen : c \in {d \in overtaken : call[d].req.u = u}}]
C == INSTANCE Carts WITH carts <- cart, held <- Held

Idle == [at |-> "idle", req |-> NoReq, price |-> NoPrice, seen |-> C!NoLines]
Waiting == [at |-> "idle", p |-> NoReq, left |-> {}, todo |-> {}]

Init ==
    /\ cart = [u \in Users |-> C!NoLines]
    /\ price \in [Products -> Prices \cup {NoPrice}]
    /\ topic = {} /\ position = "none" /\ stops = 0
    /\ call = [c \in Callers |-> Idle]
    /\ sweep = Waiting
    /\ overtaken = {} /\ missed = {}

-----------------------------------------------------------------------------
(* The requests.                                                           *)

\* Caller c awaits the next call of its request; what it has read of the cart,
\* if anything, it has read just now.
Await(c, stage, r, x, lines) ==
    /\ call' = [call EXCEPT ![c] =
                  [at |-> stage, req |-> r, price |-> x, seen |-> lines]]
    /\ overtaken' = overtaken \ {c}

\* A request is taken up, at its first await.
First(r) ==
    CASE r.kind = "add" -> "validate" [] r.kind = "clear" -> "put" [] OTHER -> "get"
Begin(c, r) ==
    /\ call[c].at = "idle"
    /\ Await(c, First(r), r, NoPrice, C!NoLines)

Receive(c, r) ==
    /\ Begin(c, r)
    /\ UNCHANGED <<cart, price, consumerVars>>

\* The request is answered, with success or not.
Done(c) == call' = [call EXCEPT ![c] = Idle]
Answer(c) == Done(c) /\ overtaken' = overtaken \ {c}

At(c, stage, kind) == call[c].at = stage /\ call[c].req.kind = kind

\* validateProduct: a product that does not exist is refused.
ValidateProduct(c) ==
    /\ At(c, "validate", "add")
    /\ LET x == price[call[c].req.p]
       IN  IF x = NoPrice THEN Answer(c)
           ELSE Await(c, "get", call[c].req, x, C!NoLines)
    /\ UNCHANGED <<cart, price, consumerVars>>

\* getCart, a missing document being an empty cart.
GetCart(c) ==
    /\ call[c].at = "get"
    /\ LET r == call[c].req
       IN  /\ r.kind = "add" => cart[r.u][r.p].q + r.q <= MaxLine
           /\ Await(c, "put", r, call[c].price, cart[r.u])
    /\ UNCHANGED <<cart, price, consumerVars>>

\* The other requests that have read the cart of c's user.
HasRead(c) == call[c].at = "put" /\ call[c].req.kind # "clear"
Others(c) == {g \in Callers \ {c} : HasRead(g) /\ call[g].req.u = call[c].req.u}

\* dynamoDB.put of the document that was read, with these lines.
Put(c, lines) ==
    /\ cart' = [cart EXCEPT ![call[c].req.u] = lines]
    /\ Done(c)
    /\ overtaken' = (overtaken \ {c}) \cup Others(c)
    /\ UNCHANGED <<price, consumerVars>>

MutAddItem(c) ==   \* mutant: the new line is merged with itself
    /\ At(c, "put", "add")
    /\ LET r == call[c].req
           Twice(lines) == C!AddLine(C!AddLine(lines, r.p, r.q, call[c].price),
                                     r.p, r.q, call[c].price)
       IN  Put(c, Twice(call[c].seen))
AddItem(c) ==
    /\ At(c, "put", "add")
    /\ LET r == call[c].req
       IN  Put(c, C!AddLine(call[c].seen, r.p, r.q, call[c].price))

MutUpdateItemQuantity(c) ==   \* mutant: of a product that is not there
    /\ At(c, "put", "set")
    /\ call[c].req.q # 0
    /\ Put(c, C!SetLine(call[c].seen, call[c].req.p, call[c].req.q))
UpdateItemQuantity(c) ==
    /\ At(c, "put", "set")
    /\ LET r == call[c].req
       IN  /\ C!In(r.p, call[c].seen)
           /\ r.q # 0
           /\ Put(c, C!SetLine(call[c].seen, r.p, r.q))

\* updateItemQuantity of a product that is not in the cart: an error.
ItemNotFound(c) ==
    /\ At(c, "put", "set")
    /\ ~ C!In(call[c].req.p, call[c].seen)
    /\ Answer(c)
    /\ UNCHANGED <<cart, price, consumerVars>>

\* updateItemQuantity to 0 calls removeItem, which reads the cart again.
SetToZero(c) ==
    /\ At(c, "put", "set")
    /\ call[c].req.q = 0
    /\ LET r == call[c].req
       IN  /\ C!In(r.p, call[c].seen)
           /\ Await(c, "get", [r EXCEPT !.kind = "remove"], NoPrice, C!NoLines)
    /\ UNCHANGED <<cart, price, consumerVars>>

MutRemoveItem(c) ==   \* mutant: one unit is taken off, not the line
    /\ At(c, "put", "remove")
    /\ Put(c, [call[c].seen EXCEPT ![call[c].req.p].q = @ - 1])
RemoveItem(c) ==
    /\ At(c, "put", "remove")
    /\ Put(c, C!RemoveLine(call[c].seen, call[c].req.p))

\* One put of an empty cart, which reads nothing.
ClearCart(c) ==
    /\ At(c, "put", "clear")
    /\ Put(c, C!NoLines)

\* A call to DynamoDB or product-service fails, or the replica stops; the
\* consumer logs that it could not remove the product, and goes on.
Fail(c) ==
    /\ Faults
    /\ call[c].at # "idle"
    /\ Answer(c)
    /\ missed' = IF c = Consumer THEN missed \cup {<<call[c].req.u, call[c].req.p>>} ELSE missed
    /\ UNCHANGED <<cart, price, topic, position, stops, sweep>>

Serve(c) ==
    \/ ValidateProduct(c) \/ GetCart(c)
    \/ AddItem(c) \/ UpdateItemQuantity(c) \/ ItemNotFound(c) \/ SetToZero(c)
    \/ RemoveItem(c) \/ ClearCart(c)

-----------------------------------------------------------------------------
(* The consumer of product.deleted.                                        *)

\* The consumer joins its group.  A group that has committed nothing is not
\* given what was published before (fromBeginning: false).
JoinGroup ==
    /\ position = "none"
    /\ position' = "end"
    /\ UNCHANGED <<tableVars, topic, stops, sweep, missed>>

\* A message is delivered: a scan of the whole table begins.
TakeDeleted(p) ==
    /\ sweep.at = "idle"
    /\ p \in topic
    /\ topic' = topic \ {p}
    /\ sweep' = [at |-> "scan", p |-> p, left |-> Users, todo |-> {}]
    /\ missed' = missed \ (Users \X {p})
    /\ UNCHANGED <<tableVars, position, stops>>

\* The scan is between two pages: all it found so far has been dealt with.
BetweenPages ==
    sweep.at = "scan" /\ sweep.todo = {} /\ call[Consumer].at = "idle"

\* One page of the scan is read; the carts in it that have the product.
MutScanPage(page) ==   \* mutant: LastEvaluatedKey is ignored
    /\ BetweenPages
    /\ page # {} /\ page \subseteq sweep.left
    /\ sweep' = [sweep EXCEPT !.left = {},
                   !.todo = {u \in page : C!In(sweep.p, cart[u])}]
    /\ UNCHANGED <<tableVars, topic, position, stops, missed>>
ScanPage(page) ==
    /\ BetweenPages
    /\ page # {} /\ page \subseteq sweep.left
    /\ sweep' = [sweep EXCEPT !.left = @ \ page,
                   !.todo = {u \in page : C!In(sweep.p, cart[u])}]
    /\ UNCHANGED <<tableVars, topic, position, stops, missed>>

\* removeItem is called for one of them.
RemoveFound(u) ==
    /\ u \in sweep.todo
    /\ Begin(Consumer, [kind |-> "remove", u |-> u, p |-> sweep.p, q |-> 0])
    /\ sweep' = [sweep EXCEPT !.todo = @ \ {u}]
    /\ UNCHANGED <<cart, price, topic, position, stops, missed>>

\* The message is consumed, and its offset committed: after the whole scan ...
EndSweep ==
    /\ BetweenPages /\ sweep.left = {}
    /\ sweep' = Waiting
    /\ position' = "committed"
    /\ UNCHANGED <<tableVars, topic, stops, missed>>

\* ... or when a page cannot be read, which is logged.
FailScan ==
    /\ Faults
    /\ BetweenPages /\ sweep.left # {}
    /\ missed' = missed \cup (sweep.left \X {sweep.p})
    /\ sweep' = Waiting
    /\ position' = "committed"
    /\ UNCHANGED <<tableVars, topic, stops>>

\* The replica that runs the consumer stops.  What it was at is delivered
\* again, from the committed offset; without one, the group reads from what
\* is then the end of the topic.
Unconsumed == topic \cup (IF sweep.at = "scan" THEN {sweep.p} ELSE {})
StopConsumer ==
    /\ Faults
    /\ position # "none"
    /\ stops < MaxStops
    /\ stops' = stops + 1
    /\ \/ /\ position = "committed"
          /\ topic' = Unconsumed
          /\ UNCHANGED <<position, missed>>
       \/ /\ position = "end"
          /\ topic' = {}
          /\ position' = "none"
          /\ missed' = missed \cup (Users \X Unconsumed)
    /\ sweep' = Waiting
    /\ Answer(Consumer)
    /\ UNCHANGED <<cart, price>>

-----------------------------------------------------------------------------
(* product-service.                                                        *)

\* createProduct, and updateProduct with a body {price}.
SetPrice(p, x) ==
    /\ price' = [price EXCEPT ![p] = x]
    /\ UNCHANGED <<cart, call, overtaken, consumerVars>>

\* deleteProduct publishes; the row stays, and can still be read.
PublishDeleted(p) ==
    /\ price[p] # NoPrice
    /\ topic' = IF position = "none" THEN topic ELSE topic \cup {p}
    /\ UNCHANGED <<tableVars, position, stops, sweep, missed>>

Next ==
    \/ \E c \in Slots : \E r \in Requests : Receive(c, r)
    \/ \E c \in Callers : Serve(c) \/ Fail(c)
    \/ \E page \in SUBSET Users : ScanPage(page)
    \/ \E u \in Users : RemoveFound(u)
    \/ JoinGroup \/ EndSweep \/ FailScan \/ StopConsumer
    \/ \E p \in Products :
          TakeDeleted(p) \/ PublishDeleted(p) \/ \E x \in Prices : SetPrice(p, x)

Spec == Init /\ [][Next]_vars

(* Every message of product.deleted has its turn, and what was begun goes  *)
(* on, or fails.  Nothing is assumed of the clients.                       *)
Fairness ==
    /\ \A p \in Products : SF_vars(TakeDeleted(p))
    /\ WF_vars(\E page \in SUBSET Users : ScanPage(page))
    /\ WF_vars(\E u \in Users : RemoveFound(u))
    /\ WF_vars(EndSweep)
    /\ WF_vars(Serve(Consumer))
LiveSpec == Spec /\ Fairness

-----------------------------------------------------------------------------
(* Properties.                                                             *)

\* Types; in particular no line has a price that no product ever had.
Document == [Products -> C!Line]
TypeOK ==
    /\ cart \in [Users -> Document]
    /\ price \in [Products -> Prices \cup {NoPrice}]
    /\ topic \subseteq Products
    /\ position \in {"none", "end", "committed"}
    /\ stops \in 0..MaxStops
    /\ call \in [Callers -> [at : {"idle", "validate", "get", "put"},
                            req : Request \cup {NoReq},
                            price : Prices \cup {NoPrice},
                            seen : Document]]
    /\ sweep \in [at : {"idle", "scan"}, p : Products \cup {NoReq},
                  left : SUBSET Users, todo : SUBSET Users]
    /\ overtaken \subseteq Callers
    /\ missed \subseteq Users \X Products

\* A product comes into a cart only when addItem puts it there, or when a
\* request that was overtaken puts back what it had read: a removal that went
\* through is undone by nothing else, whatever overlaps, fails or stops, and
\* least of all by a request that read the cart after it.
LinesComeBackOnlyOvertaken ==
    [][\A u \in Users, p \in Products :
          (C!In(p, cart'[u]) /\ ~ C!In(p, cart[u])) =>
             \E c \in Callers :
                /\ Serve(c) /\ call[c].req.u = u
                /\ \/ AddItem(c) /\ call[c].req.p = p
                   \/ c \in overtaken /\ C!In(p, call[c].seen)]_vars

\* The requests, each of several awaits that may fail at any of them, change
\* the carts as the operations of Carts do, or not at all: each in one step,
\* from the last version, or from one that was overtaken while it was held.
CartsSpec == C!Spec

\* Each deletion that the group is given reaches every cart, however the scan
\* is paged, whatever else goes on, and though it is delivered again after a
\* stop: at some moment the product is out of the cart.  The exceptions are
\* the carts whose removal failed, those a failed scan had not come to
\* (productDeletedConsumer.js:37-39 and 44-46 log it, and the message counts
\* as consumed), and all of them when the consumer stops before the group has
\* committed an offset (fromBeginning: false, line 13).
Begun(p) == sweep.at = "scan" /\ sweep.p = p /\ sweep.left = Users
SweptFromCarts ==
    \A u \in Users, p \in Products :
        /\ p \in topic ~> Begun(p) \/ <<u, p>> \in missed
        /\ Begun(p) ~> ~ C!In(p, cart[u]) \/ <<u, p>> \in missed

-----------------------------------------------------------------------------
(* What ARCHITECTURE.md promises, and the code does not keep.              *)

\* A removed product stays out of the cart until addItem puts it there again
\* (ARCHITECTURE.md:21 "cart-service consumes and removes the product from
\* all carts").
LinesAreAdded ==
    [][\A u \in Users, p \in Products :
          (C!In(p, cart'[u]) /\ ~ C!In(p, cart[u])) =>
             \E c \in Callers :
                AddItem(c) /\ call[c].req.u = u /\ call[c].req.p = p]_vars
=============================================================================

--------------------------- MODULE OrderFlowProofs ---------------------------
(***************************************************************************)
(* What order-service keeps, for any number of orders, items, products and *)
(* calls in service, and whatever fails or comes too late.                 *)
(*                                                                         *)
(* Three invariants carry it.  Typed is product-service's own, with the    *)
(* calls, checkouts and handlers that refer to orders and items there are; *)
(* with it every step moves the units of UnitsConserved.  Settled ties an  *)
(* order's status to the handler at work on it and to the commits in       *)
(* service for it, unless two handlers act on the order at once.  With     *)
(* both, ReservesUnsaved, which ties a reservation in service to its       *)
(* checkout, is what the refinement of OrderLife still lacks.              *)
(***************************************************************************)
EXTENDS OrderFlow, SumProofs, TLAPS

P == INSTANCE ProductServiceProofs

-----------------------------------------------------------------------------
(* The theorems about product-service are about P, whose definitions are   *)
(* those of the instance PS.                                               *)

LEMMA ServiceAssumptions ==
    P!NoOrderAssumption /\ P!ProductServiceAssumption /\ P!NoReqAssumption
BY CallsAssumption
   DEF P!NoOrderAssumption, P!ProductServiceAssumption, P!NoReqAssumption,
       PS!NoOrderAssumption, PS!ProductServiceAssumption, PS!NoReqAssumption,
       P!Kinds, PS!Kinds, P!Row, PS!Row, P!Leases, PS!Leases, P!Request, PS!Request

LEMMA SameInit == PS!Init <=> P!Init
BY DEF P!Init, PS!Init, P!FreshRow, PS!FreshRow, P!Idle, PS!Idle

LEMMA SameVars == PS!vars = P!vars
BY DEF P!vars, PS!vars

LEMMA SameNext == PS!Next <=> P!Next
<1> USE DEF P!At, PS!At, P!Answer, PS!Answer, P!Await, PS!Await, P!Found, PS!Found,
            P!SetReservation, PS!SetReservation, P!Clear, PS!Clear
<1>1. ASSUME NEW c
      PROVE  /\ PS!GetProduct(c) <=> P!GetProduct(c)
             /\ PS!FindByPk(c) <=> P!FindByPk(c)
             /\ PS!NotFound(c) <=> P!NotFound(c)
             /\ PS!SkipReservation(c) <=> P!SkipReservation(c)
  BY DEF P!GetProduct, PS!GetProduct, P!FindByPk, PS!FindByPk, P!NotFound, PS!NotFound,
         P!SkipReservation, PS!SkipReservation
<1>2. ASSUME NEW c
      PROVE  PS!Reserve(c) <=> P!Reserve(c)
  BY DEF P!Reserve, PS!Reserve, P!CanReserve, PS!CanReserve, P!Take, PS!Take
<1>3. ASSUME NEW c
      PROVE  PS!AdjustStock(c) <=> P!AdjustStock(c)
  BY DEF P!AdjustStock, PS!AdjustStock, P!Adjusted, PS!Adjusted
<1>4. ASSUME NEW c
      PROVE  /\ PS!KeepReservation(c) <=> P!KeepReservation(c)
             /\ PS!ClearReservation(c) <=> P!ClearReservation(c)
  BY DEF P!KeepReservation, PS!KeepReservation, P!ClearReservation, PS!ClearReservation,
         P!MayClear, PS!MayClear
<1>5. ASSUME NEW c
      PROVE  PS!CommitSale(c) <=> P!CommitSale(c)
  BY DEF P!CommitSale, PS!CommitSale, P!CanCommit, PS!CanCommit, P!Sell, PS!Sell
<1>6. ASSUME NEW c
      PROVE  /\ PS!PutStock(c) <=> P!PutStock(c)
             /\ PS!Reactivate(c) <=> P!Reactivate(c)
             /\ PS!DeleteProduct(c) <=> P!DeleteProduct(c)
             /\ PS!PublishDeleted(c) <=> P!PublishDeleted(c)
             /\ PS!Fail(c) <=> P!Fail(c)
  BY DEF P!PutStock, PS!PutStock, P!Reactivate, PS!Reactivate, P!DeleteProduct, PS!DeleteProduct,
         P!PublishDeleted, PS!PublishDeleted, P!Fail, PS!Fail
<1>7. ASSUME NEW c
      PROVE  PS!Serve(c) <=> P!Serve(c)
  BY <1>1, <1>2, <1>3, <1>4, <1>5, <1>6 DEF P!Serve, PS!Serve
<1>8. ASSUME NEW c, NEW r
      PROVE  PS!Receive(c, r) <=> P!Receive(c, r)
  BY DEF P!Receive, PS!Receive
<1>9. ASSUME NEW c
      PROVE  PS!Reply(c) <=> P!Reply(c)
  BY DEF P!Reply, PS!Reply, P!Idle, PS!Idle
<1>10. PS!Requests = P!Requests
  BY DEF P!Requests, PS!Requests
<1>11. ASSUME NEW p
       PROVE  PS!Lapse(p) <=> P!Lapse(p)
  BY DEF P!Lapse, PS!Lapse
<1>12. ASSUME NEW p, NEW s
       PROVE  PS!CreateProduct(p, s) <=> P!CreateProduct(p, s)
  BY DEF P!CreateProduct, PS!CreateProduct, P!FreshRow, PS!FreshRow
<1>13. PS!ExpireReservations <=> P!ExpireReservations
  BY DEF P!ExpireReservations, PS!ExpireReservations, P!Sweep, PS!Sweep
<1> QED
  BY <1>7, <1>8, <1>9, <1>10, <1>11, <1>12, <1>13 DEF P!Next, PS!Next

\* What product-service's invariant says of its rows and its calls.
InService(c) == call[c].at \in {"received", "read", "publish"}
ServiceOK ==
    /\ PS!TypeOK
    /\ \A c \in Slots : InService(c) => call[c].req \in PS!Request
    /\ \A c \in Slots :
          (call[c].at = "read" /\ call[c].seen # NoRow) => row[call[c].req.p] # NoRow

LEMMA ServiceIsOK == P!IInv => ServiceOK
BY DEF P!IInv, P!TypeOK, P!Served, P!FoundIsThere, ServiceOK, InService, PS!TypeOK,
       P!Row, PS!Row, P!Leases, PS!Leases, P!Call, PS!Call, P!Codes, PS!Codes,
       P!Request, PS!Request, P!Kinds, PS!Kinds

-----------------------------------------------------------------------------
(* Items and the requests order-service makes of them.                     *)

LEMMA ElementIs ==
    ASSUME NEW S, NEW s \in Seq(S), NEW n \in DOMAIN s
    PROVE  s[n] \in S
OBVIOUS

LEMMA ItemsAre ==
    ASSUME NEW o \in Orders
    PROVE  /\ Len(Items[o]) \in Nat \ {0} /\ DOMAIN Items[o] = 1 .. Len(Items[o])
           /\ \A n \in DOMAIN Items[o] :
                 Items[o][n].p \in Products /\ Items[o][n].q \in Quantities
           /\ \A m, n \in DOMAIN Items[o] : m # n => Items[o][m].p # Items[o][n].p
<1>1. Items[o] \in Seq([p : Products, q : Quantities]) /\ Items[o] # << >>
  BY OrderFlowAssumption
<1>2. \A n \in DOMAIN Items[o] : Items[o][n] \in [p : Products, q : Quantities]
  BY <1>1, ElementIs
<1>3. \A m, n \in DOMAIN Items[o] : m # n => Items[o][m].p # Items[o][n].p
  BY OrderFlowAssumption
<1> QED BY <1>1, <1>2, <1>3

LEMMA QuantitiesArePositive == Quantities \subseteq Nat \ {0}
BY CallsAssumption DEF PS!ProductServiceAssumption

LEMMA StockIs == \A p \in Products : Stock[p] \in Nat
<1>1. Quantities \cup {0} \subseteq Nat
  BY QuantitiesArePositive
<1>2. Stock \in [Products -> Quantities \cup {0}]
  BY OrderFlowAssumption
<1> QED BY <1>1, <1>2

\* A product is in one item of an order, so what is needed is what it says.
LEMMA NeedIs ==
    /\ \A o \in Orders, p \in Products : Need(o, p) \in Nat
    /\ \A o \in Orders : \A n \in DOMAIN Items[o] : Need(o, Items[o][n].p) = Items[o][n].q
<1>1. ASSUME NEW o \in Orders, NEW n \in DOMAIN Items[o]
      PROVE  Need(o, Items[o][n].p) = Items[o][n].q
  <2>1. {m \in DOMAIN Items[o] : Items[o][m].p = Items[o][n].p} = {n}
    BY ItemsAre
  <2> QED BY <2>1 DEF Need
<1>2. ASSUME NEW o \in Orders, NEW p \in Products PROVE Need(o, p) \in Nat
  <2>1. CASE \E n \in DOMAIN Items[o] : Items[o][n].p = p
    <3>1. PICK n \in DOMAIN Items[o] : Items[o][n].p = p
      BY <2>1
    <3>2. Need(o, p) = Items[o][n].q /\ Items[o][n].q \in Quantities
      BY <1>1, <3>1, ItemsAre
    <3> QED BY <3>2, QuantitiesArePositive
  <2>2. CASE ~ \E n \in DOMAIN Items[o] : Items[o][n].p = p
    <3>1. {n \in DOMAIN Items[o] : Items[o][n].p = p} = {}
      BY <2>2
    <3> QED BY <3>1 DEF Need
  <2> QED BY <2>1, <2>2
<1> QED BY <1>1, <1>2

IsSent(r) ==
    /\ r \in PS!Request /\ r.kind \in Endpoints
    /\ r.kind # "get" => r.o \in Orders
    /\ r.kind \in {"reserve", "commit"} => r.q = Need(r.o, r.p) /\ r.q # 0

LEMMA SendStep ==
    ASSUME NEW c \in Slots, NEW kind \in Endpoints, NEW o \in Orders,
           NEW n \in DOMAIN Items[o], Send(c, kind, Items[o][n], o)
    PROVE  \E r \in PS!Requests :
              /\ IsSent(r) /\ PS!Receive(c, r)
              /\ r.kind = kind /\ r.p = Items[o][n].p /\ (kind # "get" => r.o = o)
              /\ call' = [call EXCEPT ![c] = [at |-> "received", req |-> r,
                                              seen |-> NoRow, code |-> "none"]]
              /\ call[c].at = "idle" /\ UNCHANGED <<row, deleted>>
<1> DEFINE r == [kind |-> kind, p |-> Items[o][n].p,
                 q |-> IF kind \in {"reserve", "commit"} THEN Items[o][n].q ELSE 0,
                 o |-> IF kind = "get" THEN NoOrder ELSE o]
<1>1. /\ Items[o][n].p \in Products /\ Items[o][n].q \in Quantities
      /\ Need(o, Items[o][n].p) = Items[o][n].q
      /\ Items[o][n].q \in Nat \ {0}
  BY ItemsAre, NeedIs, QuantitiesArePositive
<1>2. NoOrder \notin Orders
  BY CallsAssumption DEF PS!NoOrderAssumption
<1>3. IsSent(r)
  BY <1>1 DEF IsSent, Endpoints, PS!Request, PS!Kinds
<1>4. r \in PS!Requests
  BY <1>1, <1>2 DEF PS!Requests, Endpoints
<1>5. PS!Receive(c, r)
  BY DEF Send
<1>6. r.kind = kind /\ r.p = Items[o][n].p /\ (kind # "get" => r.o = o)
  OBVIOUS
<1> HIDE DEF r
<1> QED BY <1>3, <1>4, <1>5, <1>6 DEF PS!Receive, PS!Await

CallsSent == \A c \in Slots : InService(c) => IsSent(call[c].req)
RowsThere == \A p \in Products : row[p] \in PS!Row

LEMMA RowOps ==
    ASSUME NEW r \in PS!Row, NEW o \in Orders \cup {NoOrder}, NEW q \in Nat
    PROVE  /\ PS!Clear(r) \in PS!Row /\ PS!Clear(r).by = NoOrder
           /\ PS!Clear(r).stock = r.stock
           /\ PS!Take(r, o) \in PS!Row /\ PS!Take(r, o).stock = r.stock
           /\ o # NoOrder => PS!Take(r, o).by = o
           /\ r.stock >= q => PS!Sell(r, q) \in PS!Row /\ PS!Sell(r, q).by = NoOrder
           /\ PS!Sell(r, q).stock = r.stock - q
           /\ PS!Sweep(r) \in PS!Row /\ PS!Sweep(r).stock = r.stock
           /\ PS!Sweep(r).by \in {r.by, NoOrder}
           /\ [r EXCEPT !.lease = "lapsed"] \in PS!Row
           /\ [r EXCEPT !.lease = "lapsed"].by = r.by
           /\ [r EXCEPT !.lease = "lapsed"].stock = r.stock
BY DEF PS!Row, PS!Leases, PS!Clear, PS!Take, PS!Sell, PS!Sweep, PS!SetReservation

\* What serving a call does, of those order-service makes: to the slot, ...
Moves(c, k) ==
    /\ call' = [call EXCEPT ![c] = k]
    /\ k.at \in {"done", "read"}
    /\ k.at = "read" => k.req = call[c].req /\ call[c].req.kind # "commit"

\* ... and to the row the call is about.
Writes(c) ==
    LET q == call[c].req
    IN  \/ row' = row
        \/ /\ row' = [row EXCEPT ![q.p] = PS!Clear(@)]
           /\ q.kind # "commit"
        \/ /\ q.kind = "reserve" /\ row[q.p].stock >= q.q
           /\ PS!CanReserve(row[q.p], q.q)
           /\ row' = [row EXCEPT ![q.p] = PS!Take(@, q.o)]
        \/ /\ q.kind = "commit" /\ call[c].at = "received" /\ row[q.p].stock >= q.q
           /\ PS!CanCommit(row[q.p], q.q, q.o)
           /\ row' = [row EXCEPT ![q.p] = PS!Sell(@, q.q)]

LEMMA AnswerMoves ==
    ASSUME NEW c, NEW code, NEW seen, PS!Answer(c, code, seen)
    PROVE  \E k : Moves(c, k)
<1> DEFINE k == [at |-> "done", req |-> NoReq, seen |-> seen, code |-> code]
<1>1. call' = [call EXCEPT ![c] = k] /\ k.at = "done"
  BY DEF PS!Answer
<1> HIDE DEF k
<1> QED BY <1>1 DEF Moves

LEMMA ServeStep ==
    ASSUME CallsSent, NEW c \in Slots, PS!Serve(c)
    PROVE  InService(c) /\ (\E k : Moves(c, k)) /\ Writes(c)
<1>1. InService(c) => call[c].req.kind \in Endpoints
  BY DEF CallsSent, IsSent
<1>2. CASE PS!FindByPk(c)
  <2> DEFINE k == [at |-> "read", req |-> call[c].req,
                   seen |-> row[call[c].req.p], code |-> "none"]
  <2>1. call[c].req.kind # "commit" /\ call[c].at = "received" /\ row' = row
    BY <1>2 DEF PS!FindByPk, PS!At
  <2>2. call' = [call EXCEPT ![c] = k] /\ k.at = "read" /\ k.req = call[c].req
    BY <1>2 DEF PS!FindByPk, PS!Await
  <2> HIDE DEF k
  <2> QED BY <2>1, <2>2 DEF Moves, Writes, InService
<1>3. CASE PS!GetProduct(c) \/ PS!NotFound(c) \/ PS!SkipReservation(c)
           \/ PS!KeepReservation(c) \/ PS!Fail(c)
  <2>1. InService(c) /\ row' = row
    BY <1>3 DEF PS!GetProduct, PS!NotFound, PS!SkipReservation, PS!KeepReservation, PS!Fail,
                PS!Found, PS!At, InService
  <2>2. \E code, seen : PS!Answer(c, code, seen)
    BY <1>3 DEF PS!GetProduct, PS!NotFound, PS!SkipReservation, PS!KeepReservation, PS!Fail
  <2> QED BY <2>1, <2>2, AnswerMoves DEF Writes
<1>4. CASE PS!Reserve(c)
  <2>1. InService(c) /\ call[c].req.kind = "reserve"
    BY <1>4 DEF PS!Reserve, PS!Found, PS!At, InService
  <2>2. Writes(c)
    BY <1>4, <2>1 DEF PS!Reserve, PS!CanReserve, Writes
  <2>3. \E code : PS!Answer(c, code, NoRow)
    BY <1>4 DEF PS!Reserve
  <2> QED BY <2>1, <2>2, <2>3, AnswerMoves
<1>5. CASE PS!ClearReservation(c)
  <2>1. InService(c) /\ call[c].req.kind # "commit"
    BY <1>5 DEF PS!ClearReservation, PS!Found, PS!At, InService
  <2> QED BY <1>5, <2>1, AnswerMoves DEF PS!ClearReservation, Writes
<1>6. CASE PS!CommitSale(c)
  <2>1. InService(c) /\ call[c].at = "received" /\ call[c].req.kind = "commit"
    BY <1>6 DEF PS!CommitSale, PS!At, InService
  <2>2. Writes(c)
    BY <1>6, <2>1 DEF PS!CommitSale, PS!CanCommit, Writes
  <2> QED BY <1>6, <2>1, <2>2, AnswerMoves DEF PS!CommitSale
<1>7. ~ (PS!AdjustStock(c) \/ PS!PutStock(c) \/ PS!Reactivate(c)
         \/ PS!DeleteProduct(c) \/ PS!PublishDeleted(c))
  BY <1>1 DEF PS!AdjustStock, PS!PutStock, PS!Reactivate, PS!DeleteProduct, PS!PublishDeleted,
              PS!Found, PS!At, InService, Endpoints
<1> QED
  BY <1>2, <1>3, <1>4, <1>5, <1>6, <1>7 DEF PS!Serve

-----------------------------------------------------------------------------
(* Types.  A checkout in one of its loops is at an item of its order, and  *)
(* a handler at an item of the order of a result that was published.       *)

Stages == {"new", "check", "reserve", "rollback", "save", "publish", "mark",
           "done", "rejected", "lost"}

Standing(o, k) ==
    /\ k \in Checkout
    /\ k.at \in {"new", "check", "reserve", "rollback"}
          => k.i \in 1 .. k.last /\ k.last <= Len(Items[o])
    /\ k.at \in {"new", "check", "reserve"} => k.last = Len(Items[o])

Handling(k) ==
    /\ k \in Handler
    /\ k.at # "idle" => k.ev \in results /\ k.i \in DOMAIN Items[k.ev.o]

OrdersOK   == order \in [Orders -> [status : Statuses, reason : Reasons]]
CheckoutOK == /\ checkout \in [Orders -> Checkout]
              /\ \A o \in Orders : Standing(o, checkout[o])
ResultsOK  == /\ requested \subseteq Orders /\ results \subseteq Results
              /\ deliveries \in 0 .. MaxDeliveries
HandlerOK  == /\ handler \in [Handlers -> Handler]
              /\ \A h \in Handlers : Handling(handler[h])
EffectsOK  == /\ uncarted \in [Orders -> SUBSET Products]
              /\ sold \in [Orders -> [Products -> Nat]]
              /\ raced \subseteq Orders

Typed == /\ P!IInv /\ CallsSent /\ RowsThere
         /\ OrdersOK /\ CheckoutOK /\ ResultsOK /\ HandlerOK /\ EffectsOK

LEMMA EnterIs ==
    ASSUME NEW o, checkout[o] \in Checkout, NEW stage \in Stages
    PROVE  LET k == Enter(o, stage)
           IN  /\ k \in Checkout
               /\ k.at = stage /\ k.i = 1 /\ k.last = checkout[o].last /\ k.on = NoSlot
BY DEF Enter, Checkout, Stages

LEMMA OnwardIs ==
    ASSUME NEW o \in Orders, Standing(o, checkout[o]), NEW stage \in Stages,
           checkout[o].at \in {"check", "reserve", "rollback"}
    PROVE  LET k == Onward(o, stage)
           IN  /\ k \in Checkout
               /\ k.last = checkout[o].last /\ k.on = NoSlot
               /\ \/ k.at = stage /\ k.i = 1
                  \/ /\ k.at = checkout[o].at /\ k.i = checkout[o].i + 1
                     /\ k.i \in 1 .. k.last
<1>1. checkout[o] \in Checkout /\ checkout[o].i \in 1 .. checkout[o].last
      /\ checkout[o].i \in Nat /\ checkout[o].last \in Nat
  BY DEF Standing, Checkout
<1>2. CASE checkout[o].i = checkout[o].last
  BY <1>1, <1>2, EnterIs DEF Onward
<1>3. CASE checkout[o].i # checkout[o].last
  <2>1. Onward(o, stage) = [checkout[o] EXCEPT !.i = @ + 1, !.on = NoSlot]
    BY <1>3 DEF Onward
  <2>2. checkout[o].i + 1 \in 1 .. checkout[o].last /\ checkout[o].i + 1 \in Nat
    BY <1>1, <1>3
  <2>3. /\ Onward(o, stage) \in Checkout
        /\ Onward(o, stage).i = checkout[o].i + 1
        /\ Onward(o, stage).on = NoSlot
        /\ Onward(o, stage).at = checkout[o].at
        /\ Onward(o, stage).last = checkout[o].last
    BY <1>1, <2>1, <2>2 DEF Checkout
  <2> QED BY <2>2, <2>3
<1> QED BY <1>2, <1>3

LEMMA RollBackIs ==
    ASSUME NEW o \in Orders, Standing(o, checkout[o]), checkout[o].at = "reserve"
    PROVE  Standing(o, RollBackFrom(o)) /\ RollBackFrom(o).at \in {"rejected", "rollback"}
<1>1. checkout[o] \in Checkout /\ checkout[o].i \in 1 .. checkout[o].last
      /\ checkout[o].i \in Nat /\ checkout[o].last \in Nat
      /\ checkout[o].last = Len(Items[o])
  BY DEF Standing, Checkout
<1>2. CASE checkout[o].i = 1
  BY <1>1, <1>2, EnterIs DEF RollBackFrom, Standing, Stages
<1>3. CASE checkout[o].i # 1
  <2>1. /\ Enter(o, "rollback") \in Checkout /\ Enter(o, "rollback").at = "rollback"
        /\ Enter(o, "rollback").i = 1
    BY <1>1, EnterIs DEF Stages
  <2>2. checkout[o].i - 1 \in Nat /\ 1 \in 1 .. checkout[o].i - 1
        /\ checkout[o].i - 1 <= Len(Items[o])
    BY <1>1, <1>3
  <2>3. RollBackFrom(o) = [Enter(o, "rollback") EXCEPT !.last = checkout[o].i - 1]
    BY <1>3 DEF RollBackFrom
  <2> QED BY <2>1, <2>2, <2>3 DEF Standing, Checkout
<1> QED BY <1>2, <1>3

LEMMA OneCheckout ==
    ASSUME CheckoutOK, NEW o \in Orders, NEW k, Standing(o, k),
           checkout' = [checkout EXCEPT ![o] = k]
    PROVE  CheckoutOK'
BY DEF CheckoutOK, Standing

\* The orders whose checkout has not saved them yet.
Unsaved(k) == k.at \in {"new", "check", "reserve", "save"}

\* What a step of a checkout does to the checkout.
LEMMA CheckoutMoves ==
    ASSUME CheckoutOK, NEW o \in Orders, CheckoutStep(o) \/ LoseCheckout(o)
    PROVE  \E k : /\ Standing(o, k) /\ checkout' = [checkout EXCEPT ![o] = k]
                  /\ Unsaved(k) => Unsaved(checkout[o]) /\ order' = order
<1> DEFINE k == checkout[o]
           Goes(m) == /\ Standing(o, m) /\ checkout' = [checkout EXCEPT ![o] = m]
                      /\ Unsaved(m) => Unsaved(k) /\ order' = order
<1>0. Standing(o, k) /\ k \in Checkout
  BY DEF CheckoutOK, Standing
<1>1. CASE StartCheckout(o)
  <2>1. Standing(o, Enter(o, "check"))
    BY <1>0, <1>1, EnterIs, ItemsAre DEF StartCheckout, CheckoutIs, Standing, Stages
  <2> QED BY <1>1, <2>1 DEF StartCheckout, CheckoutIs, Unsaved
<1>2. ASSUME NEW stage, NEW kind, CheckoutCall(o, stage, kind)
      PROVE  \E m : Goes(m)
  <2>1. PICK c \in Slots : checkout' = [checkout EXCEPT ![o].on = c]
    BY <1>2 DEF CheckoutCall
  <2>2. /\ checkout' = [checkout EXCEPT ![o] = [k EXCEPT !.on = c]]
        /\ Standing(o, [k EXCEPT !.on = c])
        /\ [k EXCEPT !.on = c].at = k.at
    BY <1>0, <2>1 DEF Standing, Checkout
  <2> QED BY <1>2, <2>2 DEF CheckoutCall, Unsaved
<1>3. CASE InventoryChecked(o)
  <2>1. k.at = "check" /\ order' = order
    BY <1>3 DEF InventoryChecked, CheckoutIs
  <2>2. CASE checkout' = [checkout EXCEPT ![o] = Enter(o, "rejected")]
    BY <1>0, <2>1, <2>2, EnterIs DEF Standing, Stages, Unsaved
  <2>3. CASE checkout' # [checkout EXCEPT ![o] = Enter(o, "rejected")]
    <3> DEFINE n == Onward(o, "reserve")
    <3>1. PICK S : S \in {n.scarce \cup {ItemOf(o).p}, n.scarce \ {ItemOf(o).p}}
                   /\ checkout' = [checkout EXCEPT ![o] = [n EXCEPT !.scarce = S]]
      BY <1>3, <2>3 DEF InventoryChecked
    <3>2. /\ n \in Checkout /\ n.last = k.last
          /\ n.at \in {"check", "reserve"} /\ n.i \in 1 .. n.last
      BY <1>0, <2>1, OnwardIs, ItemsAre DEF Standing, Stages
    <3>3. ItemOf(o).p \in Products
      BY <1>0, <2>1, ItemsAre DEF ItemOf, Standing
    <3>4. n.scarce \subseteq Products
      BY <3>2 DEF Checkout
    <3>5. S \subseteq Products
      BY <3>1, <3>3, <3>4
    <3>6. k.last = Len(Items[o])
      BY <1>0, <2>1 DEF Standing
    <3> HIDE DEF n
    <3>7. Standing(o, [n EXCEPT !.scarce = S])
      BY <3>2, <3>5, <3>6, ItemsAre DEF Standing, Checkout
    <3> QED BY <2>1, <3>1, <3>7 DEF Unsaved
  <2> QED BY <2>2, <2>3
<1>4. CASE SkipItem(o) \/ ItemReserved(o)
  <2>1. k.at = "reserve" /\ order' = order
    BY <1>4 DEF SkipItem, ItemReserved, CheckoutIs
  <2>2. Standing(o, Onward(o, "save"))
    BY <1>0, <2>1, OnwardIs, ItemsAre DEF Standing, Stages
  <2>3. \/ checkout' = [checkout EXCEPT ![o] = Onward(o, "save")]
        \/ checkout' = [checkout EXCEPT ![o] = RollBackFrom(o)]
    BY <1>4 DEF SkipItem, ItemReserved
  <2> QED BY <1>0, <2>1, <2>2, <2>3, RollBackIs DEF Unsaved
<1>5. CASE ItemRolledBack(o)
  <2>1. k.at = "rollback"
    BY <1>5 DEF ItemRolledBack, CheckoutIs
  <2>2. Standing(o, Onward(o, "rejected")) /\ Onward(o, "rejected").at \in {"rollback", "rejected"}
    BY <1>0, <2>1, OnwardIs, ItemsAre DEF Standing, Stages
  <2> QED BY <1>5, <2>2 DEF ItemRolledBack, Unsaved
<1>6. CASE SaveOrder(o) \/ PublishRequest(o) \/ MarkUnpublished(o)
  <2>1. PICK stage \in {"publish", "rejected", "done", "mark"} :
            checkout' = [checkout EXCEPT ![o].at = stage]
    BY <1>6 DEF SaveOrder, PublishRequest, MarkUnpublished
  <2>2. /\ checkout' = [checkout EXCEPT ![o] = [k EXCEPT !.at = stage]]
        /\ Standing(o, [k EXCEPT !.at = stage]) /\ [k EXCEPT !.at = stage].at = stage
    BY <1>0, <2>1 DEF Standing, Checkout
  <2> QED BY <2>1, <2>2 DEF Unsaved
<1>7. CASE LoseCheckout(o)
  <2>1. Standing(o, Enter(o, "lost")) /\ Enter(o, "lost").at = "lost"
    BY <1>0, EnterIs DEF Standing, Stages
  <2> QED BY <1>7, <2>1 DEF LoseCheckout, Unsaved
<1> QED
  BY <1>1, <1>2, <1>3, <1>4, <1>5, <1>6, <1>7
     DEF CheckoutStep, CheckInventory, ReserveItem, RollBackItem

\* ... and to everything else.
Sends(r) == IsSent(r) /\ r \in PS!Requests /\ \E c \in Slots : PS!Receive(c, r)
Quiet == UNCHANGED <<row, call, deleted>>
Hangs == \E c \in Slots : PS!Reply(c)

LEMMA CheckoutCalls ==
    ASSUME Typed, NEW o \in Orders, CheckoutStep(o) \/ LoseCheckout(o)
    PROVE  /\ UNCHANGED <<sold, results, deliveries, handler, uncarted, raced>>
           /\ requested' \subseteq requested \cup {o}
           /\ \/ order' = order
              \/ \E b \in Reasons : order' = [order EXCEPT ![o].reason = b]
              \/ /\ CheckoutIs(o, "save")
                 /\ order' = [order EXCEPT ![o] =
                                [status |-> "AWAITING_PAYMENT", reason |-> "none"]]
           /\ Quiet \/ Hangs \/ \E r : Sends(r) /\ r.kind # "commit"
<1> USE DEF Quiet, paymentVars, productVars
<1>1. ASSUME NEW stage \in {"check", "reserve", "rollback"},
             NEW kind \in Endpoints \ {"commit"}, CheckoutCall(o, stage, kind)
      PROVE  \E r : Sends(r) /\ r.kind # "commit"
  <2>1. PICK c \in Slots : Send(c, kind, ItemOf(o), o)
    BY <1>1 DEF CheckoutCall
  <2>2. checkout[o].i \in DOMAIN Items[o]
    BY <1>1, ItemsAre DEF CheckoutCall, CheckoutIs, Typed, CheckoutOK, Standing, Checkout
  <2>3. \E r \in PS!Requests : IsSent(r) /\ PS!Receive(c, r) /\ r.kind = kind
    BY <2>1, <2>2, SendStep DEF ItemOf
  <2> QED BY <2>3 DEF Sends
<1>2. CASE CheckInventory(o) \/ ReserveItem(o) \/ RollBackItem(o)
  <2>1. UNCHANGED <<sold, requested, paymentVars, order>>
    BY <1>2 DEF CheckInventory, ReserveItem, RollBackItem, CheckoutCall
  <2>2. \E r : Sends(r) /\ r.kind # "commit"
    BY <1>1, <1>2 DEF CheckInventory, ReserveItem, RollBackItem, Endpoints
  <2> QED BY <2>1, <2>2
<1>3. CASE InventoryChecked(o) \/ ItemReserved(o) \/ ItemRolledBack(o)
  <2>1. UNCHANGED <<sold, requested, paymentVars, order>>
    BY <1>3 DEF InventoryChecked, ItemReserved, ItemRolledBack
  <2>2. Answered(checkout[o].on) \/ Quiet
    BY <1>3 DEF InventoryChecked, ItemReserved, ItemRolledBack, GaveUp
  <2>3. checkout[o].on \in Slots
    BY <1>3 DEF InventoryChecked, ItemReserved, ItemRolledBack, Typed, CheckoutOK,
                Standing, Checkout
  <2> QED BY <2>1, <2>2, <2>3 DEF Answered, Hangs
<1>4. CASE StartCheckout(o) \/ SkipItem(o) \/ LoseCheckout(o)
  BY <1>4 DEF StartCheckout, SkipItem, LoseCheckout
<1>5. CASE SaveOrder(o)
  BY <1>5 DEF SaveOrder
<1>6. CASE PublishRequest(o)
  BY <1>6 DEF PublishRequest
<1>7. CASE MarkUnpublished(o)
  <2>1. \/ order' = order
        \/ order' = [order EXCEPT ![o].reason = "kafka_publish_failed"]
    BY <1>7 DEF MarkUnpublished
  <2>2. "kafka_publish_failed" \in Reasons
    BY DEF Reasons
  <2> QED BY <1>7, <2>1, <2>2 DEF MarkUnpublished
<1> QED
  BY <1>2, <1>3, <1>4, <1>5, <1>6, <1>7 DEF CheckoutStep

\* What a step of a handler does: to the handler, ...
LEMMA HandlerMoves ==
    ASSUME Typed, NEW h \in Handlers, HandlerStep(h) \/ StopHandler(h)
    PROVE  /\ results' = results
           /\ \E k : Handling(k) /\ handler' = [handler EXCEPT ![h] = k]
<1> DEFINE k == handler[h]
<1>0. k \in Handler /\ Handling(k) /\ results \subseteq Results
  BY DEF Typed, HandlerOK, ResultsOK
<1>r. Handling(Resting)
  BY DEF Handling, Resting, Handler
<1>1. results' = results
  BY DEF HandlerStep, FetchOrder, ConfirmOrder, RemoveFromCart, CommitItem, ClearItem,
         HandlerCall, ItemCommitted, ItemCleared, HandlerAnswered, FailOrder, StopHandler
<1>2. ASSUME k.at # "idle"
      PROVE  /\ k.ev \in Results /\ OrderOf(h) \in Orders /\ k.ev \in results
             /\ k.i \in DOMAIN Items[OrderOf(h)] /\ k.i \in Nat
             /\ 1 \in DOMAIN Items[OrderOf(h)]
  <2>1. k.ev \in results /\ k.i \in DOMAIN Items[k.ev.o]
    BY <1>0, <1>2 DEF Handling
  <2>2. k.ev.o \in Orders
    BY <1>0, <2>1 DEF Results
  <2> QED BY <1>0, <2>1, <2>2, ItemsAre DEF OrderOf, Handler
<1>3. ASSUME NEW stage \in {"idle", "fetch", "confirm", "uncart", "commit", "clear", "fail"},
             NEW i \in Nat, NEW s \in Slots \cup {NoSlot},
             k.at # "idle", i \in DOMAIN Items[OrderOf(h)]
      PROVE  Handling([k EXCEPT !.at = stage, !.i = i, !.on = s])
  BY <1>0, <1>2, <1>3 DEF Handling, Handler, OrderOf
<1>4. CASE handler' = [handler EXCEPT ![h] = Resting]
  BY <1>1, <1>4, <1>r
<1>5. ASSUME NEW stage \in {"confirm", "uncart", "clear"}, HandlerTo(h, stage), k.at # "idle"
      PROVE  \E m : Handling(m) /\ handler' = [handler EXCEPT ![h] = m]
  <2>1. handler' = [handler EXCEPT ![h] = [k EXCEPT !.at = stage, !.i = 1, !.on = NoSlot]]
    BY <1>5 DEF HandlerTo, Typed, HandlerOK
  <2> QED BY <1>2, <1>3, <1>5, <2>1
<1>6. CASE FetchOrder(h) \/ ConfirmOrder(h)
  BY <1>1, <1>4, <1>5, <1>6 DEF FetchOrder, ConfirmOrder, HandlerIs
<1>7. CASE RemoveFromCart(h)
  <2>1. k.at = "uncart" /\ handler' = [handler EXCEPT ![h].at = "commit"]
    BY <1>7 DEF RemoveFromCart, HandlerIs
  <2>2. handler' = [handler EXCEPT ![h] = [k EXCEPT !.at = "commit", !.i = k.i, !.on = k.on]]
    BY <1>0, <2>1 DEF Handler
  <2>3. k.on \in Slots \cup {NoSlot}
    BY <1>0 DEF Handler
  <2> QED BY <1>1, <1>2, <1>3, <2>1, <2>2, <2>3
<1>8. CASE CommitItem(h) \/ ClearItem(h)
  <2>1. k.at \in {"commit", "clear"}
    BY <1>8 DEF CommitItem, ClearItem, HandlerCall, HandlerIs
  <2>2. PICK c \in Slots : handler' = [handler EXCEPT ![h].on = c]
    BY <1>8 DEF CommitItem, ClearItem, HandlerCall
  <2>3. handler' = [handler EXCEPT ![h] = [k EXCEPT !.at = k.at, !.i = k.i, !.on = c]]
    BY <1>0, <2>1, <2>2 DEF Handler
  <2> QED BY <1>1, <1>2, <1>3, <2>1, <2>3
<1>9. CASE ItemCommitted(h) \/ ItemCleared(h)
  <2>1. k.at \in {"commit", "clear"}
    BY <1>9 DEF ItemCommitted, ItemCleared, HandlerAnswered, HandlerIs
  <2>2. CASE k.i < Len(Items[OrderOf(h)])
    <3>1. PICK stage \in {"uncart", "clear"} :
              handler' = [handler EXCEPT ![h] =
                            [k EXCEPT !.at = stage, !.i = @ + 1, !.on = NoSlot]]
      BY <1>9, <2>2 DEF ItemCommitted, ItemCleared, HandlerAnswered
    <3>2. k.i + 1 \in DOMAIN Items[OrderOf(h)] /\ k.i + 1 \in Nat
      BY <1>2, <2>1, <2>2, ItemsAre
    <3>3. Handling([k EXCEPT !.at = stage, !.i = k.i + 1, !.on = NoSlot])
      BY <1>3, <2>1, <3>2
    <3> QED BY <1>1, <3>1, <3>3
  <2>3. CASE ~ (k.i < Len(Items[OrderOf(h)]))
    <3>1. \/ handler' = [handler EXCEPT ![h] = Resting]
          \/ handler' = [handler EXCEPT ![h] = [k EXCEPT !.at = "fail", !.on = NoSlot]]
      BY <1>9, <2>3 DEF ItemCommitted, ItemCleared, HandlerAnswered
    <3>2. [k EXCEPT !.at = "fail", !.on = NoSlot]
             = [k EXCEPT !.at = "fail", !.i = k.i, !.on = NoSlot]
      BY <1>0 DEF Handler
    <3>3. Handling([k EXCEPT !.at = "fail", !.i = k.i, !.on = NoSlot])
      BY <1>2, <1>3, <2>1
    <3> QED BY <1>1, <1>4, <3>1, <3>2, <3>3
  <2> QED BY <2>2, <2>3
<1>10. CASE FailOrder(h) \/ StopHandler(h)
  BY <1>4, <1>10 DEF FailOrder, StopHandler
<1> QED BY <1>6, <1>7, <1>8, <1>9, <1>10 DEF HandlerStep

\* ... to the orders known to be raced, ...
LEMMA HandlerRaces ==
    ASSUME Typed, NEW h \in Handlers, HandlerStep(h) \/ StopHandler(h)
    PROVE  \/ raced' = raced
           \/ /\ FetchOrder(h) /\ OrderOf(h) \in Orders
              /\ order[OrderOf(h)].status = "AWAITING_PAYMENT"
              /\ raced' = raced \cup {OrderOf(h)}
<1>1. CASE FetchOrder(h)
  <2>1. OrderOf(h) \in Orders
    BY <1>1 DEF FetchOrder, HandlerIs, Typed, HandlerOK, Handling, ResultsOK, Results, OrderOf
  <2> QED BY <1>1, <2>1 DEF FetchOrder, OrderOf
<1>2. CASE ~ FetchOrder(h)
  BY <1>2 DEF HandlerStep, ConfirmOrder, RemoveFromCart, CommitItem, ClearItem, HandlerCall,
              ItemCommitted, ItemCleared, HandlerAnswered, FailOrder, StopHandler
<1> QED BY <1>1, <1>2

\* ... and to everything else.
LEMMA HandlerCalls ==
    ASSUME Typed, NEW h \in Handlers, HandlerStep(h) \/ StopHandler(h)
    PROVE  /\ UNCHANGED <<sold, checkout, requested, deliveries>>
           /\ \/ order' = order
              \/ /\ HandlerIs(h, "confirm")
                 /\ order' = [order EXCEPT ![OrderOf(h)].status = "CONFIRMED"]
              \/ /\ HandlerIs(h, "fail")
                 /\ order' = [order EXCEPT ![OrderOf(h)] =
                                [status |-> "FAILED", reason |-> "payment_failed"]]
           /\ \/ uncarted' = uncarted
              \/ /\ HandlerIs(h, "uncart")
                 /\ uncarted' = [uncarted EXCEPT ![OrderOf(h)] = @ \cup {HandledItem(h).p}]
           /\ \/ Quiet \/ Hangs
              \/ \E r : /\ Sends(r)
                        /\ r.kind = "commit"
                             => /\ CommitItem(h)
                                /\ r.o = OrderOf(h) /\ r.p = HandledItem(h).p
<1> USE DEF Quiet, checkoutVars, productVars
<1>1. ASSUME NEW stage \in {"commit", "clear"}, HandlerCall(h, stage, stage)
      PROVE  \E r : /\ Sends(r) /\ r.kind = stage
                    /\ r.o = OrderOf(h) /\ r.p = HandledItem(h).p
  <2>1. PICK c \in Slots : Send(c, stage, HandledItem(h), OrderOf(h))
    BY <1>1 DEF HandlerCall
  <2>2. OrderOf(h) \in Orders /\ handler[h].i \in DOMAIN Items[OrderOf(h)]
    BY <1>1 DEF HandlerCall, HandlerIs, Typed, HandlerOK, Handling, ResultsOK, Results, OrderOf
  <2>3. stage \in Endpoints /\ stage # "get"
    BY DEF Endpoints
  <2>4. \E r \in PS!Requests :
            /\ IsSent(r) /\ PS!Receive(c, r)
            /\ r.kind = stage /\ r.p = HandledItem(h).p /\ r.o = OrderOf(h)
    BY <2>1, <2>2, <2>3, SendStep DEF HandledItem
  <2> QED BY <2>4 DEF Sends
<1>2. CASE CommitItem(h)
  <2>1. \E r : /\ Sends(r) /\ r.kind = "commit"
               /\ r.o = OrderOf(h) /\ r.p = HandledItem(h).p
    BY <1>1, <1>2 DEF CommitItem
  <2> QED BY <1>2, <2>1 DEF CommitItem, HandlerCall
<1>3. CASE ClearItem(h)
  <2>1. \E r : Sends(r) /\ r.kind = "clear"
    BY <1>1, <1>3 DEF ClearItem
  <2> QED BY <1>3, <2>1 DEF ClearItem, HandlerCall
<1>4. CASE ItemCommitted(h) \/ ItemCleared(h)
  <2>1. Answered(handler[h].on) \/ Quiet
    BY <1>4 DEF ItemCommitted, ItemCleared, HandlerAnswered, GaveUp
  <2>2. handler[h].on \in Slots
    BY <1>4 DEF ItemCommitted, ItemCleared, HandlerAnswered, Typed, HandlerOK, Handler
  <2> QED BY <1>4, <2>1, <2>2 DEF ItemCommitted, ItemCleared, HandlerAnswered, Answered, Hangs
<1>5. CASE FetchOrder(h) \/ ConfirmOrder(h) \/ RemoveFromCart(h)
           \/ FailOrder(h) \/ StopHandler(h)
  BY <1>5 DEF FetchOrder, ConfirmOrder, RemoveFromCart, FailOrder, StopHandler
<1> QED BY <1>2, <1>3, <1>4, <1>5 DEF HandlerStep

-----------------------------------------------------------------------------
(* Every step, as product-service sees it and as order-service does.       *)

ServiceMoves ==
    \/ Quiet \/ Hangs \/ \E r : Sends(r)
    \/ \E c \in Slots : PS!Serve(c)
    \/ \E p \in Products : PS!Lapse(p)
    \/ PS!ExpireReservations

LEMMA StepOfService == Typed /\ [Next]_vars => ServiceMoves
<1> SUFFICES ASSUME Typed, [Next]_vars PROVE ServiceMoves
  OBVIOUS
<1>1. ASSUME NEW o \in Orders, CheckoutStep(o) \/ LoseCheckout(o) PROVE ServiceMoves
  BY <1>1, CheckoutCalls DEF ServiceMoves
<1>2. ASSUME NEW h \in Handlers, HandlerStep(h) \/ StopHandler(h) PROVE ServiceMoves
  BY <1>2, HandlerCalls DEF ServiceMoves
<1>3. CASE (\E e \in Results : PaymentResult(e) \/ \E h \in Handlers : Deliver(h, e))
           \/ UNCHANGED vars
  BY <1>3 DEF PaymentResult, Deliver, vars, productVars, ServiceMoves, Quiet
<1>4. CASE (\E c \in Slots : Serve(c) \/ Discard(c)) \/ (\E p \in Products : Lapse(p)) \/ Expire
  BY <1>4 DEF Serve, Discard, Lapse, Expire, ServiceMoves, Hangs
<1> QED BY <1>1, <1>2, <1>3, <1>4 DEF Next

LEMMA ServiceMovesAreSteps == ServiceMoves => [PS!Next]_(PS!vars)
BY DEF ServiceMoves, Quiet, Hangs, Sends, PS!Next, PS!vars

LEMMA ServiceKeepsCalls == Typed /\ ServiceMoves => CallsSent' /\ RowsThere'
<1> SUFFICES ASSUME Typed, ServiceMoves PROVE CallsSent' /\ RowsThere'
  OBVIOUS
<1> USE DEF Typed
<1>0. ServiceOK
  BY ServiceIsOK
<1>1. CASE Quiet
  BY <1>1 DEF Quiet, CallsSent, InService, RowsThere
<1>2. CASE Hangs
  BY <1>2 DEF Hangs, PS!Reply, PS!Idle, CallsSent, InService, RowsThere
<1>3. ASSUME NEW r, Sends(r) PROVE CallsSent' /\ RowsThere'
  <2>1. PICK c \in Slots : PS!Receive(c, r)
    BY <1>3 DEF Sends
  <2>2. \A d \in Slots : call'[d] = call[d] \/ call'[d].req = r
    BY <2>1, <1>0 DEF PS!Receive, PS!Await, ServiceOK, PS!TypeOK
  <2>3. row' = row
    BY <2>1 DEF PS!Receive
  <2> QED BY <1>3, <2>2, <2>3 DEF Sends, CallsSent, InService, RowsThere
<1>4. ASSUME NEW c \in Slots, PS!Serve(c) PROVE CallsSent' /\ RowsThere'
  <2>1. InService(c) /\ (\E k : Moves(c, k)) /\ Writes(c)
    BY <1>4, ServeStep
  <2>2. PICK k : Moves(c, k)
    BY <2>1
  <2>3. CallsSent'
    BY <1>0, <2>1, <2>2 DEF Moves, CallsSent, InService, ServiceOK, PS!TypeOK
  <2> DEFINE q == call[c].req
  <2>4. q.p \in Products /\ q.q \in Nat /\ q.o \in Orders \cup {NoOrder}
    BY <2>1 DEF CallsSent, IsSent, PS!Request
  <2>5. /\ PS!Clear(row[q.p]) \in PS!Row /\ PS!Take(row[q.p], q.o) \in PS!Row
        /\ row[q.p].stock >= q.q => PS!Sell(row[q.p], q.q) \in PS!Row
    BY <2>4, RowOps DEF RowsThere
  <2>6. row \in [Products -> PS!Row \cup {NoRow}]
    BY <1>0 DEF ServiceOK, PS!TypeOK
  <2>7. row' = row \/ \E t \in PS!Row : row' = [row EXCEPT ![q.p] = t]
    BY <2>1, <2>5 DEF Writes
  <2>8. RowsThere'
    BY <2>6, <2>7 DEF RowsThere
  <2> QED BY <2>3, <2>8
<1>5. ASSUME NEW p \in Products, PS!Lapse(p) PROVE CallsSent' /\ RowsThere'
  <2>1. [row[p] EXCEPT !.lease = "lapsed"] \in PS!Row
    BY DEF RowsThere, PS!Row, PS!Leases
  <2>2. row' = [row EXCEPT ![p] = [row[p] EXCEPT !.lease = "lapsed"]] /\ call' = call
    BY <1>5 DEF PS!Lapse
  <2> QED BY <1>0, <2>1, <2>2 DEF ServiceOK, PS!TypeOK, CallsSent, InService, RowsThere
<1>6. CASE PS!ExpireReservations
  <2>1. \A p \in Products : PS!Sweep(row[p]) \in PS!Row
    BY RowOps, CallsAssumption DEF RowsThere, PS!ProductServiceAssumption
  <2>2. /\ row' = [p \in Products |-> IF row[p] = NoRow THEN NoRow ELSE PS!Sweep(row[p])]
        /\ call' = call
    BY <1>6 DEF PS!ExpireReservations
  <2>3. \A p \in Products : row[p] # NoRow
    BY CallsAssumption DEF RowsThere, PS!ProductServiceAssumption
  <2> QED BY <2>1, <2>2, <2>3 DEF CallsSent, InService, RowsThere
<1> QED BY <1>1, <1>2, <1>3, <1>4, <1>5, <1>6 DEF ServiceMoves

\* The units a step sells.
LEMMA SaleIs ==
    ASSUME Typed, NEW c \in Slots, Serve(c)
    PROVE  LET q == call[c].req
           IN  \/ sold' = sold
               \/ /\ InService(c) /\ q.kind = "commit"
                  /\ q.o \in Orders /\ q.p \in Products /\ q.q = Need(q.o, q.p)
                  /\ sold' = [sold EXCEPT ![q.o][q.p] = @ + Need(q.o, q.p)]
<1> DEFINE q == call[c].req
<1>1. CASE PS!At(c, "received", {"commit"}) /\ row' # row
  <2>1. InService(c) /\ q.kind = "commit"
    BY <1>1 DEF PS!At, InService
  <2>2. q.o \in Orders /\ q.p \in Products /\ q.q = Need(q.o, q.p)
    BY <2>1 DEF Typed, CallsSent, IsSent, PS!Request
  <2> QED BY <1>1, <2>1, <2>2 DEF Serve, Sold
<1>2. CASE ~ (PS!At(c, "received", {"commit"}) /\ row' # row)
  BY <1>2 DEF Serve, Sold
<1> QED BY <1>1, <1>2

LEMMA OrdersKeepTypes ==
    Typed /\ [Next]_vars => OrdersOK' /\ CheckoutOK' /\ ResultsOK' /\ HandlerOK' /\ EffectsOK'
<1> DEFINE Kept == OrdersOK' /\ CheckoutOK' /\ ResultsOK' /\ HandlerOK' /\ EffectsOK'
<1> SUFFICES ASSUME Typed, [Next]_vars PROVE Kept
  OBVIOUS
<1>0. OrdersOK /\ CheckoutOK /\ ResultsOK /\ HandlerOK /\ EffectsOK
  BY DEF Typed
<1>1. ASSUME NEW o \in Orders, CheckoutStep(o) \/ LoseCheckout(o) PROVE Kept
  <2>1. /\ UNCHANGED <<sold, results, deliveries, handler, uncarted, raced>>
        /\ requested' \subseteq requested \cup {o}
        /\ \/ order' = order
           \/ \E b \in Reasons : order' = [order EXCEPT ![o].reason = b]
           \/ order' = [order EXCEPT ![o] = [status |-> "AWAITING_PAYMENT", reason |-> "none"]]
    BY <1>1, CheckoutCalls
  <2>2. CheckoutOK'
    BY <1>0, <1>1, CheckoutMoves, OneCheckout
  <2>3. OrdersOK'
    BY <1>0, <2>1 DEF OrdersOK, Statuses, Reasons
  <2> QED BY <1>0, <2>1, <2>2, <2>3 DEF ResultsOK, HandlerOK, Handling, EffectsOK
<1>2. ASSUME NEW h \in Handlers, HandlerStep(h) \/ StopHandler(h) PROVE Kept
  <2>1. results' = results /\ \E k : Handling(k) /\ handler' = [handler EXCEPT ![h] = k]
    BY <1>2, HandlerMoves
  <2>2. HandlerOK'
    BY <1>0, <2>1 DEF HandlerOK, Handling
  <2>3. /\ UNCHANGED <<sold, checkout, requested, deliveries>>
        /\ \/ order' = order
           \/ order' = [order EXCEPT ![OrderOf(h)].status = "CONFIRMED"]
           \/ order' = [order EXCEPT ![OrderOf(h)] =
                                [status |-> "FAILED", reason |-> "payment_failed"]]
    BY <1>2, HandlerCalls
  <2>4. OrdersOK'
    BY <1>0, <2>3 DEF OrdersOK, Statuses, Reasons
  <2>5. CheckoutOK' /\ ResultsOK'
    BY <1>0, <2>1, <2>3 DEF CheckoutOK, Standing, ResultsOK
  <2>6. EffectsOK'
    <3>0. raced' \subseteq Orders
      BY <1>0, <1>2, HandlerRaces DEF EffectsOK, Typed
    <3>1. CASE uncarted' = uncarted
      BY <1>0, <2>3, <3>0, <3>1 DEF EffectsOK
    <3>2. CASE HandlerIs(h, "uncart")
               /\ uncarted' = [uncarted EXCEPT ![OrderOf(h)] = @ \cup {HandledItem(h).p}]
      <4>1. OrderOf(h) \in Orders /\ handler[h].i \in DOMAIN Items[OrderOf(h)]
        BY <1>0, <3>2 DEF HandlerIs, HandlerOK, Handling, ResultsOK, Results, OrderOf
      <4>2. HandledItem(h).p \in Products
        BY <4>1, ItemsAre DEF HandledItem
      <4> QED BY <1>0, <2>3, <3>0, <3>2, <4>1, <4>2 DEF EffectsOK
    <3> QED BY <1>2, <3>1, <3>2, HandlerCalls
  <2> QED BY <2>2, <2>4, <2>5, <2>6
<1>3. ASSUME NEW e \in Results, PaymentResult(e) PROVE Kept
  <2>1. /\ results' = results \cup {e}
        /\ UNCHANGED <<order, checkout, requested, deliveries, handler, uncarted, raced, sold>>
    BY <1>3 DEF PaymentResult, productVars, checkoutVars
  <2> QED BY <1>0, <2>1 DEF OrdersOK, CheckoutOK, Standing, ResultsOK, HandlerOK, Handling,
                            EffectsOK
<1>4. ASSUME NEW e \in Results, NEW h \in Handlers, Deliver(h, e) PROVE Kept
  <2> DEFINE k == [at |-> "fetch", ev |-> e, i |-> 1, on |-> NoSlot]
  <2>1. /\ e \in results /\ deliveries < MaxDeliveries
        /\ deliveries' = deliveries + 1
        /\ handler' = [handler EXCEPT ![h] = k]
        /\ UNCHANGED <<order, checkout, requested, results, uncarted, raced, sold>>
    BY <1>4 DEF Deliver, productVars, checkoutVars
  <2>2. Handling(k)
    <3>1. 1 \in DOMAIN Items[e.o]
      BY ItemsAre DEF Results
    <3> QED BY <2>1, <3>1 DEF Handling, Handler
  <2> HIDE DEF k
  <2>3. HandlerOK'
    BY <1>0, <2>1, <2>2 DEF HandlerOK, Handling
  <2>4. ResultsOK'
    BY <1>0, <2>1, OrderFlowAssumption DEF ResultsOK
  <2> QED BY <1>0, <2>1, <2>3, <2>4 DEF OrdersOK, CheckoutOK, Standing, EffectsOK
<1>5. ASSUME NEW c \in Slots, Serve(c) PROVE Kept
  <2>1. UNCHANGED <<checkout, requested, results, deliveries, handler, uncarted, raced, order>>
    BY <1>5 DEF Serve, checkoutVars, paymentVars
  <2>2. sold' = sold \/ \E o \in Orders, p \in Products :
                            sold' = [sold EXCEPT ![o][p] = @ + Need(o, p)]
    BY <1>5, SaleIs
  <2>3. ASSUME NEW o \in Orders, NEW p \in Products,
               sold' = [sold EXCEPT ![o][p] = @ + Need(o, p)]
        PROVE  sold' \in [Orders -> [Products -> Nat]]
    <3>1. sold[o] \in [Products -> Nat] /\ sold[o][p] + Need(o, p) \in Nat
      BY <1>0, NeedIs DEF EffectsOK
    <3>2. [sold[o] EXCEPT ![p] = @ + Need(o, p)] \in [Products -> Nat]
      BY <3>1
    <3> QED BY <1>0, <2>3, <3>2 DEF EffectsOK
  <2>4. EffectsOK'
    BY <1>0, <2>1, <2>2, <2>3 DEF EffectsOK
  <2> QED BY <1>0, <2>1, <2>4 DEF OrdersOK, CheckoutOK, Standing, ResultsOK, HandlerOK, Handling
<1>6. CASE (\E c \in Slots : Discard(c)) \/ (\E p \in Products : Lapse(p)) \/ Expire
           \/ UNCHANGED vars
  <2>1. UNCHANGED <<checkout, requested, results, deliveries, handler, uncarted, raced, order, sold>>
    BY <1>6 DEF Discard, Lapse, Expire, vars, checkoutVars, paymentVars, productVars
  <2> QED BY <1>0, <2>1 DEF OrdersOK, CheckoutOK, Standing, ResultsOK, HandlerOK, Handling,
                            EffectsOK
<1> QED BY <1>1, <1>2, <1>3, <1>4, <1>5, <1>6 DEF Next

-----------------------------------------------------------------------------
LEMMA InitPS == Init => PS!Init
<1> SUFFICES ASSUME Init PROVE PS!Init
  OBVIOUS
<1>1. \A p \in Products : Stock[p] \in Quantities \cup {0}
  BY OrderFlowAssumption
<1> QED BY <1>1 DEF Init, PS!Init

LEMMA InitTyped == Init => Typed
<1> SUFFICES ASSUME Init PROVE Typed
  OBVIOUS
<1>1. P!IInv
  BY InitPS, SameInit, ServiceAssumptions, P!InitIInv
<1>2. CallsSent
  BY DEF Init, PS!Idle, CallsSent, InService
<1>3. RowsThere
  BY StockIs DEF Init, RowsThere, PS!FreshRow, PS!Row, PS!Leases
<1>4. OrdersOK
  BY DEF Init, OrdersOK, Statuses, Reasons
<1>5. CheckoutOK
  <2>1. ASSUME NEW o \in Orders
        PROVE  Standing(o, [at |-> "new", i |-> 1, last |-> Len(Items[o]),
                            scarce |-> {}, on |-> NoSlot])
    BY ItemsAre DEF Standing, Checkout
  <2> QED BY <2>1 DEF Init, CheckoutOK, Standing
<1>6. ResultsOK
  BY OrderFlowAssumption DEF Init, ResultsOK
<1>7. HandlerOK
  BY DEF Init, HandlerOK, Handling, Handler, Resting
<1>8. EffectsOK
  BY DEF Init, EffectsOK
<1> QED BY <1>1, <1>2, <1>3, <1>4, <1>5, <1>6, <1>7, <1>8 DEF Typed

LEMMA NextTyped == Typed /\ [Next]_vars => Typed'
<1> SUFFICES ASSUME Typed, [Next]_vars PROVE Typed'
  OBVIOUS
<1>1. ServiceMoves
  BY StepOfService
<1>2. [P!Next]_(P!vars)
  BY <1>1, ServiceMovesAreSteps, SameNext, SameVars DEF PS!vars, P!vars
<1>3. P!IInv'
  BY <1>2, ServiceAssumptions, P!NextIInv DEF Typed
<1> QED BY <1>1, <1>3, ServiceKeepsCalls, OrdersKeepTypes DEF Typed

LEMMA AlwaysTyped == Spec => []Typed
BY InitTyped, NextTyped, PTL DEF Spec

\* The state of order-service, and that of product-service under it, is well
\* typed: in particular no interleaving of checkouts, handlers and late
\* requests makes a stock negative.
THEOREM TypeInvariant == Spec => []TypeOK
<1>1. Typed => TypeOK
  BY ServiceIsOK DEF Typed, TypeOK, ServiceOK, OrdersOK, CheckoutOK, ResultsOK, HandlerOK,
                     EffectsOK
<1> QED BY <1>1, AlwaysTyped, PTL

\* product-service, as order-service calls it, runs through its own steps: all
\* that is proved of ProductService holds of it here.
THEOREM OrdersUseTheService == Spec => ProductServiceSpec
<1>1. Typed /\ [Next]_vars => [PS!Next]_(PS!vars)
  BY StepOfService, ServiceMovesAreSteps
<1> QED BY <1>1, InitPS, AlwaysTyped, PTL DEF Spec, ProductServiceSpec, PS!Spec

-----------------------------------------------------------------------------
(* Reserved units.  Only updateStock names an order in a row, for as many  *)
(* units as the row has at least; and no sale takes units of a row that    *)
(* goes on naming an order.                                                *)

LEMMA ReservedStep ==
    Typed /\ ReservedUnitsInStock /\ ServiceMoves => ReservedUnitsInStock'
<1> SUFFICES ASSUME Typed, ReservedUnitsInStock, ServiceMoves PROVE ReservedUnitsInStock'
  OBVIOUS
<1> DEFINE Backed(p, r) == \A o \in Orders : r.by = o => r.stock >= Need(o, p)
<1>0. /\ NoOrder \notin Orders /\ RowsThere /\ CallsSent
      /\ \A p \in Products : Backed(p, row[p])
      /\ row \in [Products -> PS!Row \cup {NoRow}]
  BY CallsAssumption, ServiceIsOK
     DEF PS!NoOrderAssumption, ReservedUnitsInStock, Typed, ServiceOK, PS!TypeOK
<1>1. CASE row' = row
  BY <1>0, <1>1 DEF ReservedUnitsInStock
<1>2. ASSUME NEW p \in Products, NEW r, row' = [row EXCEPT ![p] = r], Backed(p, r)
      PROVE  ReservedUnitsInStock'
  BY <1>0, <1>2 DEF ReservedUnitsInStock
<1>3. ASSUME NEW c \in Slots, PS!Serve(c) PROVE ReservedUnitsInStock'
  <2> DEFINE q == call[c].req
  <2>1. InService(c) /\ Writes(c)
    BY <1>0, <1>3, ServeStep
  <2>2. /\ q.p \in Products /\ q.q \in Nat /\ q.o \in Orders \cup {NoOrder}
        /\ q.kind = "reserve" => q.o \in Orders /\ q.q = Need(q.o, q.p)
    BY <1>0, <2>1 DEF CallsSent, IsSent, PS!Request
  <2>3. row[q.p] \in PS!Row
    BY <1>0, <2>2 DEF RowsThere
  <2> DEFINE clear == PS!Clear(row[q.p])
             take == PS!Take(row[q.p], q.o)
             sell == PS!Sell(row[q.p], q.q)
  <2>4. clear.by = NoOrder /\ (q.o # NoOrder => take.by = q.o) /\ take.stock = row[q.p].stock
        /\ (row[q.p].stock >= q.q => sell.by = NoOrder)
    BY <2>2, <2>3, RowOps
  <2>5. \/ row' = row
        \/ row' = [row EXCEPT ![q.p] = clear]
        \/ /\ q.kind = "reserve" /\ row[q.p].stock >= q.q
           /\ row' = [row EXCEPT ![q.p] = take]
        \/ row[q.p].stock >= q.q /\ row' = [row EXCEPT ![q.p] = sell]
    BY <2>1 DEF Writes
  <2> HIDE DEF clear, take, sell
  <2>6. Backed(q.p, clear)
    BY <1>0, <2>4
  <2>7. (q.kind = "reserve" /\ row[q.p].stock >= q.q) => Backed(q.p, take)
    BY <1>0, <2>2, <2>4
  <2>8. row[q.p].stock >= q.q => Backed(q.p, sell)
    BY <1>0, <2>4
  <2> HIDE DEF Backed, q
  <2> QED BY <1>1, <1>2, <2>2, <2>5, <2>6, <2>7, <2>8
<1>4. ASSUME NEW p \in Products, PS!Lapse(p) PROVE ReservedUnitsInStock'
  <2> DEFINE r == [row[p] EXCEPT !.lease = "lapsed"]
  <2>1. r.by = row[p].by /\ r.stock = row[p].stock
    BY <1>0 DEF RowsThere, PS!Row
  <2>2. row' = [row EXCEPT ![p] = r]
    BY <1>4 DEF PS!Lapse
  <2> HIDE DEF r
  <2>3. Backed(p, r)
    BY <1>0, <2>1
  <2> QED BY <1>2, <2>2, <2>3
<1>5. CASE PS!ExpireReservations
  <2>1. row' = [p \in Products |-> IF row[p] = NoRow THEN NoRow ELSE PS!Sweep(row[p])]
    BY <1>5 DEF PS!ExpireReservations
  <2>2. \A p \in Products : row[p] \in PS!Row /\ row[p] # NoRow
    BY <1>0, CallsAssumption DEF RowsThere, PS!ProductServiceAssumption
  <2>3. \A p \in Products : row'[p].by \in {row[p].by, NoOrder} /\ row'[p].stock = row[p].stock
    BY <2>1, <2>2, RowOps, CallsAssumption DEF PS!ProductServiceAssumption
  <2> QED BY <1>0, <2>3 DEF ReservedUnitsInStock
<1> QED
  BY <1>1, <1>3, <1>4, <1>5 DEF ServiceMoves, Quiet, Hangs, Sends, PS!Reply, PS!Receive

\* What an order has reserved stays in stock until it buys it or loses the
\* reservation, whatever the other orders buy and however late a request is
\* served (updateStock and commitSale in productService.js).
THEOREM ReservedUnitsAreThere == Spec => []ReservedUnitsInStock
<1>1. Init => ReservedUnitsInStock
  BY CallsAssumption DEF Init, ReservedUnitsInStock, PS!FreshRow, PS!NoOrderAssumption
<1>2. Typed /\ ReservedUnitsInStock /\ [Next]_vars => ReservedUnitsInStock'
  BY StepOfService, ReservedStep
<1> QED BY <1>1, <1>2, AlwaysTyped, PTL DEF Spec

-----------------------------------------------------------------------------
(* Units.  A sale moves them from the stock to the order, nothing else     *)
(* touches either.                                                         *)

\* What serving a call does to the stock of a product and to what is sold.
LEMMA ServeMovesUnits ==
    ASSUME Typed, NEW c \in Slots, Serve(c)
    PROVE  \/ sold' = sold /\ \A p \in Products : row'[p].stock = row[p].stock
           \/ \E o \in Orders, p \in Products :
                 /\ row'[p].stock = row[p].stock - Need(o, p)
                 /\ \A y \in Products \ {p} : row'[y] = row[y]
                 /\ sold' = [sold EXCEPT ![o][p] = @ + Need(o, p)]
<1> DEFINE q == call[c].req
           r == row[q.p]
<1>0. /\ PS!Serve(c) /\ sold' = Sold(c)
      /\ row \in [Products -> PS!Row \cup {NoRow}] /\ RowsThere /\ CallsSent
  BY ServiceIsOK DEF Serve, Typed, ServiceOK, PS!TypeOK
<1>1. InService(c) /\ Writes(c)
  BY <1>0, ServeStep
<1>2. /\ q.p \in Products /\ q.q \in Nat /\ q.o \in Orders \cup {NoOrder} /\ r \in PS!Row
      /\ q.kind = "commit" => q.o \in Orders /\ q.q = Need(q.o, q.p)
  BY <1>0, <1>1 DEF CallsSent, IsSent, PS!Request, RowsThere, Endpoints
<1> DEFINE clear == PS!Clear(r)
           take == PS!Take(r, q.o)
           sell == PS!Sell(r, q.q)
<1>3. clear.stock = r.stock /\ take.stock = r.stock /\ sell.stock = r.stock - q.q
  BY <1>2, RowOps
<1>4. \/ row' = row
      \/ row' = [row EXCEPT ![q.p] = clear] /\ q.kind # "commit"
      \/ row' = [row EXCEPT ![q.p] = take] /\ q.kind # "commit"
      \/ /\ row' = [row EXCEPT ![q.p] = sell]
         /\ q.kind = "commit" /\ call[c].at = "received"
  BY <1>1 DEF Writes
<1>5. CASE row' = row \/ q.kind # "commit"
  <2>1. sold' = sold
    BY <1>0, <1>5 DEF Sold, PS!At
  <2>2. \A p \in Products : row'[p].stock = row[p].stock
    <3> HIDE DEF clear, take, sell
    <3> QED BY <1>0, <1>2, <1>3, <1>4, <1>5
  <2> QED BY <2>1, <2>2
<1>6. CASE row' # row /\ q.kind = "commit"
  <2>1. sold' = [sold EXCEPT ![q.o][q.p] = @ + q.q]
    BY <1>0, <1>4, <1>6 DEF Sold, PS!At
  <2>2. row'[q.p].stock = r.stock - q.q /\ \A y \in Products \ {q.p} : row'[y] = row[y]
    <3> HIDE DEF clear, take, sell
    <3> QED BY <1>0, <1>2, <1>3, <1>4, <1>6
  <2>3. PICK o \in Orders, p \in Products : o = q.o /\ p = q.p /\ q.q = Need(o, p)
    BY <1>2, <1>6
  <2> QED BY <2>1, <2>2, <2>3
<1> QED BY <1>5, <1>6

LEMMA ConservedStep == Typed /\ UnitsConserved /\ [Next]_vars => UnitsConserved'
<1> SUFFICES ASSUME Typed, UnitsConserved, [Next]_vars PROVE UnitsConserved'
  OBVIOUS
<1> DEFINE Of(s, p) == [o \in Orders |-> s[o][p]]
<1>0. /\ sold \in [Orders -> [Products -> Nat]] /\ IsFiniteSet(Orders)
      /\ \A p \in Products : row[p] \in PS!Row
      /\ \A p \in Products : row[p].stock + SumFunction(Of(sold, p)) = Stock[p]
  BY OrderFlowAssumption DEF Typed, EffectsOK, RowsThere, UnitsConserved
<1>1. ASSUME sold' = sold, \A p \in Products : row'[p].stock = row[p].stock
      PROVE  UnitsConserved'
  BY <1>0, <1>1 DEF UnitsConserved
<1>2. ASSUME NEW o \in Orders, NEW p \in Products,
             row'[p].stock = row[p].stock - Need(o, p),
             \A y \in Products \ {p} : row'[y] = row[y],
             sold' = [sold EXCEPT ![o][p] = @ + Need(o, p)]
      PROVE  UnitsConserved'
  <2> DEFINE v == sold[o][p] + Need(o, p)
  <2>1. /\ Need(o, p) \in Nat /\ v \in Int /\ row[p].stock \in Nat
        /\ Of(sold, p) \in [Orders -> Int] /\ Of(sold, p)[o] = sold[o][p]
    BY <1>0, NeedIs DEF PS!Row
  <2>2. Of(sold', p) = [Of(sold, p) EXCEPT ![o] = v]
    BY <1>0, <1>2
  <2>3. /\ SumFunction(Of(sold, p)) \in Int
        /\ SumFunction([Of(sold, p) EXCEPT ![o] = v])
              = SumFunction(Of(sold, p)) + v - Of(sold, p)[o]
    <3> HIDE DEF Of, v
    <3> QED BY <1>0, <2>1, SumUpdate
  <2>4. row'[p].stock + SumFunction(Of(sold', p)) = Stock[p]
    <3>1. SumFunction(Of(sold', p)) = SumFunction(Of(sold, p)) + Need(o, p)
      <4>1. sold[o][p] \in Nat
        BY <1>0
      <4>2. SumFunction(Of(sold', p)) = SumFunction(Of(sold, p)) + v - sold[o][p]
        <5> HIDE DEF Of
        <5> QED BY <2>1, <2>2, <2>3
      <4> HIDE DEF Of
      <4> QED BY <2>1, <2>3, <4>1, <4>2
    <3> HIDE DEF Of
    <3> QED BY <1>0, <1>2, <2>1, <2>3, <3>1
  <2>5. ASSUME NEW y \in Products, y # p
        PROVE  row'[y].stock + SumFunction(Of(sold', y)) = Stock[y]
    <3>1. Of(sold', y) = Of(sold, y)
      BY <1>0, <1>2, <2>5
    <3> HIDE DEF Of
    <3> QED BY <1>0, <1>2, <2>5, <3>1
  <2> QED BY <2>4, <2>5 DEF UnitsConserved
<1>3. ASSUME NEW c \in Slots, Serve(c) PROVE UnitsConserved'
  BY <1>1, <1>2, <1>3, ServeMovesUnits
<1>4. ASSUME NEW o \in Orders, CheckoutStep(o) \/ LoseCheckout(o) PROVE UnitsConserved'
  <2>1. sold' = sold /\ (Quiet \/ Hangs \/ \E r : Sends(r))
    BY <1>4, CheckoutCalls
  <2>2. row' = row
    BY <2>1 DEF Quiet, Hangs, Sends, PS!Reply, PS!Receive
  <2> QED BY <1>1, <2>1, <2>2
<1>5. ASSUME NEW h \in Handlers, HandlerStep(h) \/ StopHandler(h) PROVE UnitsConserved'
  <2>1. sold' = sold /\ (Quiet \/ Hangs \/ \E r : Sends(r))
    BY <1>5, HandlerCalls
  <2>2. row' = row
    BY <2>1 DEF Quiet, Hangs, Sends, PS!Reply, PS!Receive
  <2> QED BY <1>1, <2>1, <2>2
<1>6. ASSUME NEW p \in Products, Lapse(p) PROVE UnitsConserved'
  <2>1. sold' = sold /\ row' = [row EXCEPT ![p] = [row[p] EXCEPT !.lease = "lapsed"]]
    BY <1>6 DEF Lapse, PS!Lapse
  <2>2. [row[p] EXCEPT !.lease = "lapsed"].stock = row[p].stock
    BY <1>0, RowOps DEF PS!Row
  <2>3. row \in [Products -> PS!Row \cup {NoRow}]
    BY ServiceIsOK DEF Typed, ServiceOK, PS!TypeOK
  <2> QED BY <1>1, <2>1, <2>2, <2>3
<1>7. CASE Expire
  <2>1. /\ sold' = sold
        /\ row' = [p \in Products |-> IF row[p] = NoRow THEN NoRow ELSE PS!Sweep(row[p])]
    BY <1>7 DEF Expire, PS!ExpireReservations
  <2>2. \A p \in Products : PS!Sweep(row[p]).stock = row[p].stock
    BY <1>0, RowOps
  <2> QED BY <1>1, <2>1, <2>2
<1>8. CASE \/ \E e \in Results : PaymentResult(e) \/ \E h \in Handlers : Deliver(h, e)
           \/ \E c \in Slots : Discard(c)
           \/ UNCHANGED vars
  BY <1>1, <1>8 DEF PaymentResult, Deliver, Discard, PS!Reply, vars, productVars
<1> QED BY <1>3, <1>4, <1>5, <1>6, <1>7, <1>8 DEF Next

\* Units are neither lost nor sold twice: what has left the stock of a product
\* is what the orders took of it, whatever races, fails, comes too late or is
\* delivered again (the UPDATE of commitSale in productService.js).
THEOREM NoUnitIsLost == Spec => []UnitsConserved
<1>1. Init => UnitsConserved
  <2> SUFFICES ASSUME Init, NEW p \in Products
               PROVE  row[p].stock + SumFunction([o \in Orders |-> sold[o][p]]) = Stock[p]
    BY DEF UnitsConserved
  <2>1. [o \in Orders |-> sold[o][p]] = [o \in Orders |-> 0]
    BY DEF Init
  <2>2. SumFunction([o \in Orders |-> sold[o][p]]) = 0
    BY <2>1, SumOfZeros, OrderFlowAssumption
  <2>3. row[p].stock = Stock[p]
    BY DEF Init, PS!FreshRow
  <2> QED BY <2>2, <2>3, StockIs
<1> QED BY <1>1, ConservedStep, AlwaysTyped, PTL DEF Spec

-----------------------------------------------------------------------------
(* What the status of an order, read once at the start of                  *)
(* handlePaymentMessage, is good for while other handlers run: as long as  *)
(* the order is not raced, the one handler that acts on it is alone, and   *)
(* the status is the one it read or wrote.                                 *)

Status(o) == order[o].status

\* A commit of p for o is in service; and nothing of p is taken for o yet.
Committing(c, o, p) ==
    InService(c) /\ call[c].req.kind = "commit" /\ call[c].req.o = o /\ call[c].req.p = p
Untaken(o, p) == sold[o][p] = 0 /\ \A c \in Slots : ~ Committing(c, o, p)

\* Only a saved order is paid, and it is saved once.
SavedOnce ==
    /\ \A o \in Orders : Unsaved(checkout[o]) => Status(o) = "absent"
    /\ \A e \in results : Status(e.o) # "absent"

\* Two handlers act on an order only when it is raced.
ActsAlone ==
    \A g, h \in Handlers :
        (g # h /\ Acts(g) /\ Acts(h) /\ OrderOf(g) = OrderOf(h)) => OrderOf(h) \in raced

\* The status a handler has read or written is the one the order still has.
StatusRead(h) ==
    OrderOf(h) \notin raced =>
        /\ handler[h].at \in {"confirm", "clear", "fail"}
              => Status(OrderOf(h)) = "AWAITING_PAYMENT"
        /\ handler[h].at \in {"uncart", "commit"} => Status(OrderOf(h)) = "CONFIRMED"
StatusIsHandled == \A h \in Handlers : StatusRead(h)

OnlyConfirmedTake ==
    \A o \in Orders \ raced, p \in Products :
        Status(o) # "CONFIRMED" => Untaken(o, p) /\ p \notin uncarted[o]

\* The units of an item are taken by one commit.
OneCommit ==
    \A o \in Orders \ raced, p \in Products :
        /\ sold[o][p] \in {0, Need(o, p)}
        /\ \A c \in Slots : Committing(c, o, p) => sold[o][p] = 0
        /\ \A c, d \in Slots : Committing(c, o, p) /\ Committing(d, o, p) => c = d

\* The items a handler has still to commit.
Left(k, n) == k.i <= n /\ (n = k.i => k.on = NoSlot)
LeftOf(h) ==
    (handler[h].at \in {"uncart", "commit"} /\ OrderOf(h) \notin raced)
       => \A n \in DOMAIN Items[OrderOf(h)] :
             Left(handler[h], n) => Untaken(OrderOf(h), Items[OrderOf(h)][n].p)
LeftUntaken == \A h \in Handlers : LeftOf(h)

Taking == ActsAlone /\ StatusIsHandled /\ OnlyConfirmedTake /\ OneCommit /\ LeftUntaken
Settled == SavedOnce /\ Taking

\* No commit begins in a step of these kinds, and one that is served is over.
CommitsKept == \A c \in Slots : \A o, p : Committing(c, o, p)' => Committing(c, o, p)

LEMMA NoNewCommit ==
    ASSUME Typed,
           \/ Quiet \/ Hangs \/ (\E r : Sends(r) /\ r.kind # "commit")
           \/ (\E p \in Products : PS!Lapse(p)) \/ PS!ExpireReservations
    PROVE  CommitsKept
<1>0. call \in [Slots -> PS!Call]
  BY ServiceIsOK DEF Typed, ServiceOK, PS!TypeOK
<1>1. CASE Quiet \/ (\E p \in Products : PS!Lapse(p)) \/ PS!ExpireReservations
  <2>1. call' = call
    BY <1>1 DEF Quiet, PS!Lapse, PS!ExpireReservations
  <2> QED BY <2>1 DEF CommitsKept, Committing, InService
<1>2. CASE Hangs
  BY <1>0, <1>2 DEF Hangs, PS!Reply, PS!Idle, CommitsKept, Committing, InService
<1>3. ASSUME NEW r, Sends(r), r.kind # "commit" PROVE CommitsKept
  BY <1>0, <1>3 DEF Sends, PS!Receive, PS!Await, CommitsKept, Committing, InService
<1> QED BY <1>1, <1>2, <1>3

LEMMA ServedCommit ==
    ASSUME Typed, NEW c \in Slots, PS!Serve(c)
    PROVE  CommitsKept /\ \A o, p : ~ Committing(c, o, p)'
<1>0. call \in [Slots -> PS!Call]
  BY ServiceIsOK DEF Typed, ServiceOK, PS!TypeOK
<1>1. PICK k : Moves(c, k)
  BY ServeStep DEF Typed
<1> QED BY <1>0, <1>1 DEF Moves, CommitsKept, Committing, InService

\* What the handlers have read stays true when nothing else happens to an
\* order than that it is saved.
LEMMA TakingRests ==
    ASSUME Typed, Taking, CommitsKept, sold' = sold, uncarted' = uncarted,
           handler' = handler, raced' = raced,
           \A o \in Orders : Status(o)' = Status(o)
               \/ (Status(o) = "absent" /\ Status(o)' = "AWAITING_PAYMENT")
    PROVE  Taking'
<1>0. \A h \in Handlers : handler[h].at # "idle" => OrderOf(h) \in Orders
  BY DEF Typed, HandlerOK, Handling, ResultsOK, Results, OrderOf
<1>1. StatusIsHandled'
  BY <1>0 DEF Taking, StatusIsHandled, StatusRead, OrderOf
<1>2. OnlyConfirmedTake'
  BY DEF Taking, OnlyConfirmedTake, Untaken, CommitsKept
<1>3. OneCommit'
  BY DEF Taking, OneCommit, CommitsKept
<1>4. LeftUntaken'
  BY DEF Taking, LeftUntaken, LeftOf, Untaken, CommitsKept, OrderOf
<1>5. ActsAlone'
  BY DEF Taking, ActsAlone, Acts, OrderOf
<1> QED BY <1>1, <1>2, <1>3, <1>4, <1>5 DEF Taking

LEMMA CheckoutSettled ==
    ASSUME Typed, Settled, NEW o \in Orders, CheckoutStep(o) \/ LoseCheckout(o)
    PROVE  Settled'
<1>1. PICK k : /\ Standing(o, k) /\ checkout' = [checkout EXCEPT ![o] = k]
               /\ Unsaved(k) => Unsaved(checkout[o]) /\ order' = order
  BY CheckoutMoves DEF Typed
<1>2. /\ UNCHANGED <<sold, results, deliveries, handler, uncarted, raced>>
      /\ \/ order' = order
         \/ \E b \in Reasons : order' = [order EXCEPT ![o].reason = b]
         \/ /\ CheckoutIs(o, "save")
            /\ order' = [order EXCEPT ![o] = [status |-> "AWAITING_PAYMENT", reason |-> "none"]]
      /\ Quiet \/ Hangs \/ \E r : Sends(r) /\ r.kind # "commit"
  BY CheckoutCalls
<1>3. CommitsKept
  BY <1>2, NoNewCommit
<1>4. CheckoutIs(o, "save") => Status(o) = "absent"
  BY DEF Settled, SavedOnce, CheckoutIs, Unsaved
<1>5. \A x \in Orders : Status(x)' = Status(x)
          \/ (x = o /\ Status(x) = "absent" /\ Status(x)' = "AWAITING_PAYMENT")
  BY <1>2, <1>4 DEF Status, Typed, OrdersOK
<1>6. Taking'
  BY <1>2, <1>3, <1>5, TakingRests DEF Settled
<1>7. SavedOnce'
  <2>1. \A x \in Orders : Unsaved(checkout'[x]) => Status(x)' = "absent"
    BY <1>1, <1>5 DEF Settled, SavedOnce, Status, Typed, CheckoutOK
  <2>2. \A e \in results' : Status(e.o)' # "absent"
    BY <1>2, <1>5 DEF Settled, SavedOnce, Typed, ResultsOK, Results
  <2> QED BY <2>1, <2>2 DEF SavedOnce, Unsaved
<1> QED BY <1>6, <1>7 DEF Settled

\* What a handler does to an order it acts on is hidden from the others: they
\* act on other orders, or the order is raced.
LEMMA OthersTake ==
    ASSUME Typed, Taking, NEW h \in Handlers, NEW k,
           handler' = [handler EXCEPT ![h] = k], raced \subseteq raced',
           \A x \in Orders : Status(x)' = Status(x) \/ (x = OrderOf(h) /\ Acts(h)),
           \A x \in Orders, p \in Products :
               Untaken(x, p) => Untaken(x, p)' \/ (x = OrderOf(h) /\ Acts(h))
    PROVE  \A g \in Handlers : g # h => StatusRead(g)' /\ LeftOf(g)'
<1> SUFFICES ASSUME NEW g \in Handlers, g # h, Acts(g), OrderOf(g) \notin raced
             PROVE  StatusRead(g)' /\ LeftOf(g)'
  <2>1. \A g \in Handlers : g # h => handler'[g] = handler[g]
    BY DEF Typed, HandlerOK
  <2> QED BY <2>1 DEF StatusRead, LeftOf, Acts, OrderOf
<1>1. handler'[g] = handler[g] /\ OrderOf(g)' = OrderOf(g) /\ OrderOf(g) \in Orders
  BY DEF Typed, HandlerOK, Handling, ResultsOK, Results, OrderOf, Acts
<1>2. ~ (OrderOf(g) = OrderOf(h) /\ Acts(h))
  BY DEF Taking, ActsAlone
<1>3. Status(OrderOf(g))' = Status(OrderOf(g))
  BY <1>1, <1>2
<1>4. StatusRead(g)'
  BY <1>1, <1>3 DEF Taking, StatusIsHandled, StatusRead
<1>5. \A n \in DOMAIN Items[OrderOf(g)] : Items[OrderOf(g)][n].p \in Products
  BY <1>1, ItemsAre
<1>6. LeftOf(g)'
  BY <1>1, <1>2, <1>5 DEF Taking, LeftUntaken, LeftOf
<1> QED BY <1>4, <1>6

\* A handler comes to act on an order when it reads it, and stays with it.
LEMMA AloneKept ==
    ASSUME Typed, Taking, NEW h \in Handlers, NEW k,
           handler' = [handler EXCEPT ![h] = k], raced \subseteq raced',
           Acts(h)' => OrderOf(h)' = OrderOf(h)
                       /\ (Acts(h) \/ (Contended(h) => OrderOf(h) \in raced'))
    PROVE  ActsAlone'
<1>1. \A g \in Handlers : g # h => handler'[g] = handler[g]
  BY DEF Typed, HandlerOK
<1>2. \A g \in Handlers : g # h => (Acts(g)' <=> Acts(g)) /\ OrderOf(g)' = OrderOf(g)
  BY <1>1 DEF Acts, OrderOf
<1>3. ASSUME NEW g \in Handlers, g # h, Acts(g), Acts(h)', OrderOf(g) = OrderOf(h)'
      PROVE  OrderOf(g) \in raced'
  <2>1. CASE Acts(h)
    BY <1>3, <2>1 DEF Taking, ActsAlone
  <2>2. CASE ~ Acts(h)
    BY <1>3, <2>2 DEF Contended
  <2> QED BY <2>1, <2>2
<1> QED BY <1>2, <1>3 DEF Taking, ActsAlone

\* A handler moves on between two readings or writings of the status.
LEMMA HandlerTakes ==
    ASSUME Typed, Taking, NEW h \in Handlers,
           FetchOrder(h) \/ ConfirmOrder(h) \/ FailOrder(h) \/ StopHandler(h)
    PROVE  Taking'
<1> DEFINE k == handler[h]
           o == OrderOf(h)
<1>0. /\ k \in Handler /\ (k.at # "idle" => o \in Orders)
      /\ handler \in [Handlers -> Handler] /\ OrdersOK
  BY DEF Typed, HandlerOK, Handling, ResultsOK, Results, OrderOf
<1>1. Quiet /\ UNCHANGED sold /\ CommitsKept /\ uncarted' = uncarted
  <2>1. Quiet /\ UNCHANGED sold /\ uncarted' = uncarted
    BY DEF FetchOrder, ConfirmOrder, FailOrder, StopHandler, Quiet, productVars
  <2> QED BY <2>1, NoNewCommit
<1>r. raced \subseteq raced'
  BY HandlerRaces DEF HandlerStep
<1>u. \A x \in Orders, p \in Products : Untaken(x, p) => Untaken(x, p)'
  BY <1>1 DEF Untaken, CommitsKept
<1>2. ASSUME \A x \in Orders : x \notin raced =>
                 Status(x)' = Status(x) \/ (x = o /\ Status(x) = "AWAITING_PAYMENT")
      PROVE  OneCommit' /\ OnlyConfirmedTake'
  BY <1>1, <1>2, <1>r DEF Taking, OneCommit, OnlyConfirmedTake, Untaken, CommitsKept
<1>3. ASSUME NEW m, handler' = [handler EXCEPT ![h] = m], StatusRead(h)', LeftOf(h)',
             \A x \in Orders : Status(x)' = Status(x) \/ (x = o /\ Acts(h))
      PROVE  StatusIsHandled' /\ LeftUntaken'
  BY <1>3, <1>r, <1>u, OthersTake DEF StatusIsHandled, LeftUntaken
<1>4. CASE FetchOrder(h)
  <2>1. order' = order /\ k.at = "fetch"
    BY <1>4 DEF FetchOrder, HandlerIs
  <2>2. CASE handler' = [handler EXCEPT ![h] = Resting]
    <3>1. handler'[h].at = "idle"
      BY <1>0, <2>2 DEF Resting
    <3>2. StatusRead(h)' /\ LeftOf(h)' /\ ~ Acts(h)'
      BY <3>1 DEF StatusRead, LeftOf, Acts
    <3>3. ActsAlone'
      BY <1>r, <2>2, <3>2, AloneKept
    <3> QED BY <1>2, <1>3, <2>1, <2>2, <3>2, <3>3 DEF Status, Taking
  <2>3. CASE /\ Status(o) = "AWAITING_PAYMENT" /\ \E s \in {"confirm", "clear"} : HandlerTo(h, s)
             /\ Contended(h) => o \in raced'
    <3>1. PICK s \in {"confirm", "clear"} : HandlerTo(h, s)
      BY <2>3
    <3>2. handler'[h].at = s /\ handler'[h].ev = k.ev
      BY <1>0, <3>1 DEF HandlerTo, Handler
    <3>3. OrderOf(h)' = o
      BY <3>2 DEF OrderOf
    <3>4. StatusRead(h)' /\ LeftOf(h)'
      BY <2>1, <2>3, <3>2, <3>3 DEF StatusRead, LeftOf, Status
    <3>5. PICK m : handler' = [handler EXCEPT ![h] = m]
      BY <1>0, <3>1 DEF HandlerTo
    <3>6. ActsAlone'
      BY <1>r, <2>3, <3>3, <3>5, AloneKept
    <3>7. \A x \in Orders : Status(x)' = Status(x)
      BY <2>1 DEF Status
    <3> QED BY <1>2, <1>3, <3>4, <3>5, <3>6, <3>7 DEF Taking
  <2> QED BY <1>4, <2>2, <2>3 DEF FetchOrder, Status, OrderOf
<1>5. CASE ConfirmOrder(h)
  <2>1. /\ k.at = "confirm" /\ o \in Orders
        /\ o \notin raced => Status(o) = "AWAITING_PAYMENT"
        /\ order' = [order EXCEPT ![o].status = "CONFIRMED"]
        /\ Acts(h) /\ raced' = raced
    BY <1>0, <1>5 DEF ConfirmOrder, HandlerIs, Taking, StatusIsHandled, StatusRead, Acts
  <2>2. \A x \in Orders : Status(x)' = IF x = o THEN "CONFIRMED" ELSE Status(x)
    BY <1>0, <2>1 DEF Status, OrdersOK
  <2>3. /\ handler'[h].at = "uncart" /\ handler'[h].ev = k.ev
        /\ \E m : handler' = [handler EXCEPT ![h] = m]
    BY <1>0, <1>5 DEF ConfirmOrder, HandlerTo, Handler
  <2>4. OrderOf(h)' = o
    BY <2>3 DEF OrderOf
  <2>5. StatusRead(h)'
    BY <2>1, <2>2, <2>3, <2>4 DEF StatusRead
  <2>6. o \notin raced =>
            \A n \in DOMAIN Items[o] : Items[o][n].p \in Products /\ Untaken(o, Items[o][n].p)
    BY <2>1, ItemsAre DEF Taking, OnlyConfirmedTake
  <2>7. LeftOf(h)'
    BY <1>u, <2>1, <2>4, <2>6 DEF LeftOf
  <2>8. ActsAlone'
    BY <1>r, <2>1, <2>3, <2>4, AloneKept
  <2>9. OneCommit' /\ OnlyConfirmedTake'
    BY <1>2, <2>1, <2>2
  <2>10. StatusIsHandled' /\ LeftUntaken'
    BY <1>3, <2>1, <2>2, <2>3, <2>5, <2>7
  <2> QED BY <2>8, <2>9, <2>10 DEF Taking
<1>6. CASE FailOrder(h) \/ StopHandler(h)
  <2>1. handler' = [handler EXCEPT ![h] = Resting]
    BY <1>6 DEF FailOrder, StopHandler
  <2>2. \/ order' = order
        \/ /\ Acts(h)
           /\ o \notin raced => Status(o) = "AWAITING_PAYMENT"
           /\ order' = [order EXCEPT ![o] = [status |-> "FAILED", reason |-> "payment_failed"]]
    BY <1>6 DEF FailOrder, StopHandler, HandlerIs, Taking, StatusIsHandled, StatusRead, Acts
  <2>3. handler'[h].at = "idle"
    BY <1>0, <2>1 DEF Resting
  <2>4. StatusRead(h)' /\ LeftOf(h)' /\ ~ Acts(h)'
    BY <2>3 DEF StatusRead, LeftOf, Acts
  <2>5. \A x \in Orders : \/ Status(x)' = Status(x)
                          \/ /\ x = o /\ Acts(h)
                             /\ x \notin raced => Status(x) = "AWAITING_PAYMENT"
    BY <1>0, <2>2 DEF Status, OrdersOK
  <2>6. ActsAlone'
    BY <1>r, <2>1, <2>4, AloneKept
  <2>7. OneCommit' /\ OnlyConfirmedTake'
    BY <1>2, <2>5
  <2>8. StatusIsHandled' /\ LeftUntaken'
    BY <1>3, <2>1, <2>4, <2>5
  <2> QED BY <2>6, <2>7, <2>8 DEF Taking
<1> QED BY <1>4, <1>5, <1>6

\* A handler works through the items: it commits the item it is at once, and
\* no later one before it comes there.
LEMMA ItemsTaken ==
    ASSUME Typed, Taking, NEW h \in Handlers,
           RemoveFromCart(h) \/ CommitItem(h) \/ ItemCommitted(h)
             \/ ClearItem(h) \/ ItemCleared(h)
    PROVE  Taking'
<1> DEFINE k == handler[h]
           o == OrderOf(h)
<1>0. /\ k \in Handler /\ handler \in [Handlers -> Handler]
      /\ k.at # "idle" => o \in Orders /\ k.i \in DOMAIN Items[o] /\ k.i \in Nat
  BY DEF Typed, HandlerOK, Handling, Handler, ResultsOK, Results, OrderOf
<1>1. /\ k.at \in {"uncart", "commit", "clear"} /\ order' = order /\ sold' = sold
      /\ raced' = raced
  BY DEF RemoveFromCart, CommitItem, ClearItem, HandlerCall, ItemCommitted, ItemCleared,
         HandlerAnswered, HandlerIs, productVars
<1>2. \A x : Status(x)' = Status(x)
  BY <1>1 DEF Status
<1>a. Acts(h) /\ o \in Orders /\ raced \subseteq raced'
  BY <1>0, <1>1 DEF Acts
<1>3. ASSUME CommitsKept PROVE OneCommit'
  BY <1>1, <1>3 DEF Taking, OneCommit, CommitsKept
<1>4. PICK m : handler' = [handler EXCEPT ![h] = m]
  BY HandlerMoves DEF HandlerStep
<1>5. ASSUME StatusRead(h)', LeftOf(h)', Acts(h)' => OrderOf(h)' = o,
             \A x \in Orders, p \in Products : Untaken(x, p) => Untaken(x, p)' \/ x = o
      PROVE  ActsAlone' /\ StatusIsHandled' /\ LeftUntaken'
  <2>1. ActsAlone'
    BY <1>4, <1>5, <1>a, AloneKept
  <2>2. \A g \in Handlers : g # h => StatusRead(g)' /\ LeftOf(g)'
    BY <1>2, <1>4, <1>5, <1>a, OthersTake
  <2> QED BY <1>5, <2>1, <2>2 DEF StatusIsHandled, LeftUntaken
<1>6. ASSUME uncarted' = uncarted, CommitsKept PROVE OnlyConfirmedTake'
  BY <1>1, <1>2, <1>6 DEF Taking, OnlyConfirmedTake, Untaken, CommitsKept
<1>7. ASSUME CommitsKept
      PROVE  \A x \in Orders, p \in Products : Untaken(x, p) => Untaken(x, p)'
  BY <1>1, <1>7 DEF Untaken, CommitsKept
<1>8. CASE RemoveFromCart(h)
  <2>1. /\ k.at = "uncart"
        /\ handler' = [handler EXCEPT ![h].at = "commit"]
        /\ uncarted' = [uncarted EXCEPT ![o] = @ \cup {HandledItem(h).p}] /\ Quiet
    BY <1>0, <1>8 DEF RemoveFromCart, HandlerIs, Quiet, productVars
  <2>2. CommitsKept
    BY <2>1, NoNewCommit
  <2>3. /\ handler'[h].at = "commit" /\ handler'[h].ev = k.ev
        /\ handler'[h].i = k.i /\ handler'[h].on = k.on
    BY <1>0, <2>1 DEF Handler
  <2>4. OrderOf(h)' = o
    BY <2>3 DEF OrderOf
  <2>5. StatusRead(h)'
    BY <1>1, <1>2, <2>1, <2>3, <2>4 DEF StatusIsHandled, StatusRead, Taking
  <2>6. \A n \in DOMAIN Items[o] : Items[o][n].p \in Products
    BY <1>a, ItemsAre
  <2>7. LeftOf(h)'
    BY <1>1, <1>7, <1>a, <2>1, <2>2, <2>3, <2>4, <2>6 DEF LeftUntaken, LeftOf, Left, Taking
  <2>8. OnlyConfirmedTake'
    BY <1>1, <1>2, <1>a, <2>1, <2>2
       DEF Taking, OnlyConfirmedTake, StatusIsHandled, StatusRead, Untaken, CommitsKept,
           Typed, EffectsOK
  <2>9. ActsAlone' /\ StatusIsHandled' /\ LeftUntaken'
    BY <1>5, <1>7, <2>2, <2>4, <2>5, <2>7
  <2> QED BY <1>3, <2>2, <2>8, <2>9 DEF Taking
<1>9. CASE ItemCommitted(h) \/ ItemCleared(h)
  <2>1. uncarted' = uncarted /\ (Quiet \/ Hangs)
    <3>1. k.on \in Slots
      BY <1>0, <1>9 DEF ItemCommitted, ItemCleared, HandlerAnswered, Handler
    <3> QED BY <1>9, <3>1
            DEF ItemCommitted, ItemCleared, HandlerAnswered, Answered, GaveUp, Quiet, Hangs
  <2>2. CommitsKept
    BY <2>1, NoNewCommit
  <2>3. \/ /\ k.at = "commit" /\ k.i < Len(Items[o])
           /\ handler'[h].at = "uncart" /\ handler'[h].i = k.i + 1 /\ handler'[h].ev = k.ev
        \/ handler'[h].at = "idle"
        \/ k.at = "clear" /\ handler'[h].at \in {"clear", "fail"} /\ handler'[h].ev = k.ev
    <3>1. /\ k.at \in {"commit", "clear"}
          /\ k.at = "commit" => ItemCommitted(h)
          /\ k.at = "clear" => ItemCleared(h)
      BY <1>9 DEF ItemCommitted, ItemCleared, HandlerAnswered, HandlerIs
    <3>2. CASE k.at = "commit" /\ k.i < Len(Items[o])
      <4>1. handler' = [handler EXCEPT ![h] =
                          [k EXCEPT !.at = "uncart", !.i = @ + 1, !.on = NoSlot]]
        BY <3>1, <3>2 DEF ItemCommitted, HandlerAnswered
      <4> QED BY <1>0, <3>2, <4>1 DEF Handler
    <3>3. CASE k.at = "commit" /\ ~ (k.i < Len(Items[o]))
      <4>1. handler' = [handler EXCEPT ![h] = Resting]
        BY <3>1, <3>3 DEF ItemCommitted, HandlerAnswered
      <4> QED BY <1>0, <4>1 DEF Resting
    <3>4. CASE k.at = "clear"
      <4>1. \/ handler' = [handler EXCEPT ![h] =
                          [k EXCEPT !.at = "clear", !.i = @ + 1, !.on = NoSlot]]
            \/ handler' = [handler EXCEPT ![h] = [k EXCEPT !.at = "fail", !.on = NoSlot]]
        BY <3>1, <3>4 DEF ItemCleared, HandlerAnswered
      <4>2. PICK at \in {"clear", "fail"}, i \in Nat :
                handler' = [handler EXCEPT ![h] = [k EXCEPT !.at = at, !.i = i, !.on = NoSlot]]
        <5>1. [k EXCEPT !.at = "fail", !.on = NoSlot]
                 = [k EXCEPT !.at = "fail", !.i = k.i, !.on = NoSlot]
          BY <1>0 DEF Handler
        <5>2. k.i \in Nat /\ k.i + 1 \in Nat
          BY <1>0 DEF Handler
        <5> QED BY <4>1, <5>1, <5>2
      <4>3. /\ [k EXCEPT !.at = at, !.i = i, !.on = NoSlot].at = at
            /\ [k EXCEPT !.at = at, !.i = i, !.on = NoSlot].ev = k.ev
        BY <1>0 DEF Handler
      <4>4. handler'[h].at = at /\ handler'[h].ev = k.ev
        BY <1>0, <4>2, <4>3
      <4> QED BY <3>4, <4>4
    <3> QED BY <3>1, <3>2, <3>3, <3>4
  <2>4. Acts(h)' => OrderOf(h)' = o
    BY <2>3 DEF Acts, OrderOf
  <2>5. StatusRead(h)'
    BY <1>1, <1>2, <2>3, <2>4 DEF StatusIsHandled, StatusRead, Taking, Acts
  <2>6. LeftOf(h)'
    <3> SUFFICES ASSUME handler'[h].at \in {"uncart", "commit"}, o \notin raced PROVE LeftOf(h)'
      BY <1>1, <2>4 DEF LeftOf, Acts
    <3>1. k.at = "commit" /\ handler'[h].i = k.i + 1 /\ OrderOf(h)' = o
      BY <2>3, <2>4 DEF Acts
    <3>2. o \in Orders /\ k.i \in Nat
      BY <1>0, <3>1
    <3>3. \A n \in DOMAIN Items[o] : Left(handler'[h], n) => Left(k, n)
      BY <3>1, <3>2, ItemsAre DEF Left
    <3>4. \A n \in DOMAIN Items[o] :
              Left(handler'[h], n) => Untaken(o, Items[o][n].p) /\ Items[o][n].p \in Products
      BY <3>1, <3>2, <3>3, ItemsAre DEF Taking, LeftUntaken, LeftOf
    <3> QED BY <1>7, <2>2, <3>1, <3>2, <3>4 DEF LeftOf, Left
  <2>7. ActsAlone' /\ StatusIsHandled' /\ LeftUntaken'
    BY <1>5, <1>7, <2>2, <2>4, <2>5, <2>6
  <2> QED BY <1>3, <1>6, <2>1, <2>2, <2>7 DEF Taking
<1>10. CASE ClearItem(h)
  <2>1. k.at = "clear" /\ uncarted' = uncarted
    BY <1>10 DEF ClearItem, HandlerCall, HandlerIs
  <2>2. \E r : Sends(r) /\ r.kind # "commit"
    <3>1. PICK c \in Slots : Send(c, "clear", HandledItem(h), o)
      BY <1>10 DEF ClearItem, HandlerCall
    <3>2. \E r \in PS!Requests : IsSent(r) /\ PS!Receive(c, r) /\ r.kind = "clear"
      BY <1>0, <2>1, <3>1, SendStep DEF HandledItem, Endpoints
    <3> QED BY <3>2 DEF Sends
  <2>3. CommitsKept
    BY <2>2, NoNewCommit
  <2>4. handler'[h].at = "clear" /\ handler'[h].ev = k.ev
    BY <1>0, <1>10, <2>1 DEF ClearItem, HandlerCall, Handler
  <2>5. OrderOf(h)' = o
    BY <2>4 DEF OrderOf
  <2>6. StatusRead(h)' /\ LeftOf(h)'
    BY <1>1, <1>2, <2>1, <2>4, <2>5 DEF StatusIsHandled, StatusRead, LeftOf, Taking
  <2>7. ActsAlone' /\ StatusIsHandled' /\ LeftUntaken'
    BY <1>5, <1>7, <2>3, <2>5, <2>6
  <2> QED BY <1>3, <1>6, <2>1, <2>3, <2>7 DEF Taking
<1>11. CASE CommitItem(h)
  <2> DEFINE p == HandledItem(h).p
  <2>1. k.at = "commit" /\ k.on = NoSlot /\ o \in Orders /\ uncarted' = uncarted
    BY <1>0, <1>11 DEF CommitItem, HandlerCall, HandlerIs
  <2>2. PICK c \in Slots : /\ Send(c, "commit", HandledItem(h), o)
                           /\ handler' = [handler EXCEPT ![h].on = c]
    BY <1>11 DEF CommitItem, HandlerCall
  <2>3. PICK r : /\ r.kind = "commit" /\ r.o = o /\ r.p = p
                 /\ call' = [call EXCEPT ![c] = [at |-> "received", req |-> r,
                                                 seen |-> NoRow, code |-> "none"]]
                 /\ call[c].at = "idle"
    BY <1>0, <2>1, <2>2, SendStep DEF HandledItem, Endpoints
  <2>4. \A d \in Slots : \A x, y :
            Committing(d, x, y)' <=> Committing(d, x, y) \/ (d = c /\ x = o /\ y = p)
    <3>1. call \in [Slots -> PS!Call]
      BY ServiceIsOK DEF Typed, ServiceOK, PS!TypeOK
    <3> QED BY <2>3, <3>1 DEF Committing, InService
  <2>5. p \in Products /\ (o \notin raced => Untaken(o, p))
    BY <1>0, <2>1, ItemsAre DEF HandledItem, Taking, LeftUntaken, LeftOf, Left
  <2>6. o \notin raced => Status(o) = "CONFIRMED"
    BY <2>1 DEF Taking, StatusIsHandled, StatusRead
  <2>7. OneCommit'
    BY <1>1, <2>4, <2>5 DEF Taking, OneCommit, Untaken
  <2>8. OnlyConfirmedTake'
    BY <1>1, <1>2, <2>1, <2>4, <2>6 DEF Taking, OnlyConfirmedTake, Untaken
  <2>9. /\ handler'[h].at = "commit" /\ handler'[h].ev = k.ev
        /\ handler'[h].i = k.i /\ handler'[h].on = c
    BY <1>0, <2>1, <2>2 DEF Handler
  <2>10. OrderOf(h)' = o
    BY <2>9 DEF OrderOf
  <2>11. StatusRead(h)'
    BY <1>1, <1>2, <2>6, <2>9, <2>10 DEF StatusRead
  <2>12. \A x \in Orders, y \in Products :
             (Untaken(x, y) /\ (x # o \/ y # p)) => Untaken(x, y)'
    BY <1>1, <2>4 DEF Untaken
  <2>13. LeftOf(h)'
    <3> SUFFICES ASSUME o \notin raced PROVE LeftOf(h)'
      BY <1>1, <2>10 DEF LeftOf
    <3>1. NoSlot \notin Slots
      BY OrderFlowAssumption
    <3>2. \A n \in DOMAIN Items[o] : Left(handler'[h], n) => n # k.i /\ Left(k, n)
      BY <2>9, <3>1 DEF Left
    <3>3. \A n \in DOMAIN Items[o] : Left(handler'[h], n) =>
              /\ Items[o][n].p \in Products /\ Untaken(o, Items[o][n].p)
              /\ Items[o][n].p # p
      BY <1>0, <2>1, <3>2, ItemsAre DEF HandledItem, Taking, LeftUntaken, LeftOf
    <3> HIDE DEF p
    <3> QED BY <2>1, <2>9, <2>10, <2>12, <3>3 DEF LeftOf, Left
  <2>14. ActsAlone' /\ StatusIsHandled' /\ LeftUntaken'
    BY <1>5, <2>10, <2>11, <2>12, <2>13
  <2> QED BY <2>7, <2>8, <2>14 DEF Taking
<1> QED BY <1>8, <1>9, <1>10, <1>11

LEMMA ServeTakes ==
    ASSUME Typed, Taking, NEW c \in Slots, Serve(c)
    PROVE  Taking'
<1> DEFINE q == call[c].req
<1>1. CommitsKept /\ \A x, y : ~ Committing(c, x, y)'
  BY ServedCommit DEF Serve
<1>2. UNCHANGED <<order, handler, uncarted, raced>>
  BY DEF Serve, paymentVars
<1>3. CASE sold' = sold
  BY <1>1, <1>2, <1>3, TakingRests DEF Status
<1>4. CASE /\ InService(c) /\ q.kind = "commit"
           /\ q.o \in Orders /\ q.p \in Products
           /\ sold' = [sold EXCEPT ![q.o][q.p] = @ + Need(q.o, q.p)]
  <2>1. Committing(c, q.o, q.p)
    BY <1>4 DEF Committing
  <2>2. q.o \notin raced =>
            /\ sold[q.o][q.p] = 0
            /\ \A d \in Slots : Committing(d, q.o, q.p) => d = c
    BY <1>4, <2>1 DEF Taking, OneCommit
  <2>3. sold \in [Orders -> [Products -> Nat]] /\ Need(q.o, q.p) \in Nat
    BY <1>4, NeedIs DEF Typed, EffectsOK
  <2>4. \A o \in Orders, p \in Products :
            sold'[o][p] = IF o = q.o /\ p = q.p THEN sold[o][p] + Need(q.o, q.p)
                          ELSE sold[o][p]
    BY <1>4, <2>3
  <2>5. q.o \notin raced => Status(q.o) = "CONFIRMED"
    BY <1>4, <2>1 DEF Taking, OnlyConfirmedTake, Untaken
  <2>6. OneCommit'
    BY <1>1, <1>2, <2>2, <2>3, <2>4 DEF Taking, OneCommit, CommitsKept
  <2>7. \A o \in Orders, p \in Products : Untaken(o, p) => Untaken(o, p)'
    BY <1>1, <2>1, <2>4 DEF Untaken, CommitsKept
  <2>8. OnlyConfirmedTake'
    BY <1>2, <2>5, <2>7 DEF Taking, OnlyConfirmedTake, Status
  <2>9. StatusIsHandled' /\ ActsAlone'
    BY <1>2 DEF Taking, StatusIsHandled, StatusRead, Status, OrderOf, ActsAlone, Acts
  <2>10. LeftUntaken'
    <3>1. \A h \in Handlers : handler[h].at # "idle" => OrderOf(h) \in Orders
      BY DEF Typed, HandlerOK, Handling, ResultsOK, Results, OrderOf
    <3>2. \A h \in Handlers : handler[h].at # "idle" =>
             \A n \in DOMAIN Items[OrderOf(h)] : Items[OrderOf(h)][n].p \in Products
      BY <3>1, ItemsAre
    <3> QED BY <1>2, <2>7, <3>1, <3>2 DEF Taking, LeftUntaken, LeftOf, OrderOf
  <2> QED BY <2>6, <2>8, <2>9, <2>10 DEF Taking
<1> QED BY <1>3, <1>4, SaleIs

LEMMA RestsSettled ==
    ASSUME Typed, Settled,
           \/ \E c \in Slots : Discard(c)
           \/ \E p \in Products : Lapse(p)
           \/ Expire
           \/ UNCHANGED vars
           \/ \E e \in Results : PaymentResult(e)
    PROVE  Settled'
<1>1. Quiet \/ Hangs \/ (\E p \in Products : PS!Lapse(p)) \/ PS!ExpireReservations
  BY DEF Discard, Lapse, Expire, PaymentResult, vars, productVars, Quiet, Hangs
<1>2. UNCHANGED <<order, checkout, handler, uncarted, raced, sold>>
  BY DEF Discard, Lapse, Expire, PaymentResult, vars, productVars, checkoutVars, paymentVars
<1>3. Taking'
  BY <1>1, <1>2, NoNewCommit, TakingRests DEF Settled, Status
<1>4. results' = results \/ \E e \in Results : order[e.o].status # "absent"
                                                 /\ results' = results \cup {e}
  BY DEF Discard, Lapse, Expire, PaymentResult, vars, paymentVars
<1>5. SavedOnce'
  BY <1>2, <1>4 DEF Settled, SavedOnce, Status, Unsaved
<1> QED BY <1>3, <1>5 DEF Settled

LEMMA DeliverSettled ==
    ASSUME Typed, Settled, NEW h \in Handlers, NEW e \in Results, Deliver(h, e)
    PROVE  Settled'
<1>1. Quiet /\ UNCHANGED <<order, checkout, results, uncarted, raced, sold>>
  BY DEF Deliver, productVars, checkoutVars, Quiet
<1>2. CommitsKept
  BY <1>1, NoNewCommit
<1>3. /\ handler'[h].at = "fetch"
      /\ \E k : handler' = [handler EXCEPT ![h] = k]
  BY DEF Deliver, Typed, HandlerOK
<1>4. ~ Acts(h)' /\ StatusRead(h)' /\ LeftOf(h)'
  BY <1>3 DEF Acts, StatusRead, LeftOf
<1>5. ActsAlone'
  BY <1>1, <1>3, <1>4, AloneKept DEF Settled
<1>6. /\ \A x \in Orders : Status(x)' = Status(x)
      /\ \A x \in Orders, p \in Products : Untaken(x, p) => Untaken(x, p)'
  BY <1>1, <1>2 DEF Status, Untaken, CommitsKept
<1>7. \A g \in Handlers : g # h => StatusRead(g)' /\ LeftOf(g)'
  BY <1>1, <1>3, <1>6, OthersTake DEF Settled
<1>8. StatusIsHandled' /\ LeftUntaken'
  BY <1>4, <1>7 DEF StatusIsHandled, LeftUntaken
<1>9. OnlyConfirmedTake' /\ OneCommit'
  BY <1>1, <1>2 DEF Settled, Taking, OnlyConfirmedTake, OneCommit, Untaken, CommitsKept, Status
<1>10. SavedOnce'
  BY <1>1 DEF Settled, SavedOnce, Status, Unsaved
<1> QED BY <1>5, <1>8, <1>9, <1>10 DEF Settled, Taking

\* The order a handler is at has been saved.
LEMMA HandledIsSaved ==
    ASSUME Typed, SavedOnce, NEW h \in Handlers, handler[h].at # "idle"
    PROVE  OrderOf(h) \in Orders /\ Status(OrderOf(h)) # "absent"
BY DEF Typed, HandlerOK, Handling, ResultsOK, Results, OrderOf, SavedOnce

LEMMA HandlerSettled ==
    ASSUME Typed, Settled, NEW h \in Handlers, HandlerStep(h) \/ StopHandler(h)
    PROVE  Settled'
<1>1. Taking'
  BY HandlerTakes, ItemsTaken DEF Settled, HandlerStep
<1>2. checkout' = checkout /\ results' = results
  BY HandlerCalls, HandlerMoves
<1>3. ASSUME NEW o \in Orders
      PROVE  Status(o)' = Status(o) \/ (Status(o) # "absent" /\ Status(o)' # "absent")
  <2>1. \/ order' = order
        \/ /\ Status(OrderOf(h)) # "absent"
           /\ \/ order' = [order EXCEPT ![OrderOf(h)].status = "CONFIRMED"]
              \/ order' = [order EXCEPT ![OrderOf(h)] =
                             [status |-> "FAILED", reason |-> "payment_failed"]]
    BY HandlerCalls, HandledIsSaved DEF Settled, HandlerIs
  <2> QED BY <2>1 DEF Status, Typed, OrdersOK
<1>4. SavedOnce'
  <2>1. \A o \in Orders : Unsaved(checkout'[o]) => Status(o)' = "absent"
    BY <1>2, <1>3 DEF Settled, SavedOnce
  <2>2. \A e \in results' : Status(e.o)' # "absent"
    BY <1>2, <1>3 DEF Settled, SavedOnce, Typed, ResultsOK, Results
  <2> QED BY <2>1, <2>2 DEF SavedOnce, Unsaved
<1> QED BY <1>1, <1>4 DEF Settled

LEMMA NextSettled == Typed /\ Settled /\ [Next]_vars => Settled'
<1> SUFFICES ASSUME Typed, Settled, [Next]_vars PROVE Settled'
  OBVIOUS
<1>1. ASSUME NEW c \in Slots, Serve(c) PROVE Settled'
  <2>1. Taking'
    BY <1>1, ServeTakes DEF Settled
  <2>2. UNCHANGED <<order, checkout, results>>
    BY <1>1 DEF Serve, checkoutVars, paymentVars
  <2> QED BY <2>1, <2>2 DEF Settled, SavedOnce, Status, Unsaved
<1> QED BY <1>1, CheckoutSettled, HandlerSettled, DeliverSettled, RestsSettled DEF Next

LEMMA InitSettled == Init => Settled
<1> SUFFICES ASSUME Init PROVE Settled
  OBVIOUS
<1>1. SavedOnce
  BY DEF Init, SavedOnce, Status
<1>2. StatusIsHandled /\ LeftUntaken /\ ActsAlone
  BY DEF Init, StatusIsHandled, StatusRead, LeftUntaken, LeftOf, ActsAlone, Acts, Resting
<1>3. \A o \in Orders, p \in Products : Untaken(o, p) /\ p \notin uncarted[o]
  BY DEF Init, Untaken, Committing, InService, PS!Idle
<1> QED BY <1>1, <1>2, <1>3
        DEF Settled, Taking, OnlyConfirmedTake, OneCommit, Untaken

LEMMA AlwaysSettled == Spec => [](Typed /\ Settled)
BY InitTyped, NextTyped, InitSettled, NextSettled, PTL DEF Spec

\* An order takes units, and products out of the cart, only once it is
\* confirmed (paymentConsumer.js persists the status before it commits), in
\* however many handlers, whatever stops, fails or is delivered again; the
\* exception is an order that two handlers have read to await payment and
\* act on at once, which nothing in the code prevents.
THEOREM OnlyConfirmedOrdersTake == Spec => []SoldIsConfirmed
<1>1. Typed /\ Settled => SoldIsConfirmed
  BY DEF Settled, Taking, OnlyConfirmedTake, Untaken, Status, SoldIsConfirmed
<1> QED BY <1>1, AlwaysSettled, PTL

\* ... and its units once, although a commit that came too late is still
\* served while the handler goes on, stops, or gets the result again.
THEOREM UnitsAreTakenOnce == Spec => []SoldOnce
<1>1. Typed /\ Settled => SoldOnce
  BY NeedIs DEF Settled, Taking, OneCommit, SoldOnce
<1> QED BY <1>1, AlwaysSettled, PTL

\* ... and it leaves CONFIRMED or FAILED only when two handlers act on it.
THEOREM OrdersSettleUnlessRaced == Spec => SettlesUnlessRaced
<1> DEFINE Stays == \A o \in Orders \ raced : order[o].status \in {"CONFIRMED", "FAILED"}
                                         => order'[o].status = order[o].status
<1>1. ASSUME Typed, Settled, NEW o \in Orders, CheckoutStep(o) \/ LoseCheckout(o) PROVE Stays
  <2>1. \/ order' = order
        \/ \E b \in Reasons : order' = [order EXCEPT ![o].reason = b]
        \/ /\ CheckoutIs(o, "save")
           /\ order' = [order EXCEPT ![o] = [status |-> "AWAITING_PAYMENT", reason |-> "none"]]
    BY <1>1, CheckoutCalls
  <2>2. CheckoutIs(o, "save") => order[o].status = "absent"
    BY <1>1 DEF Settled, SavedOnce, CheckoutIs, Unsaved, Status
  <2> QED BY <1>1, <2>1, <2>2 DEF Typed, OrdersOK
<1>2. ASSUME Typed, Settled, NEW h \in Handlers, HandlerStep(h) \/ StopHandler(h) PROVE Stays
  <2>1. \/ order' = order
        \/ /\ OrderOf(h) \notin raced => order[OrderOf(h)].status = "AWAITING_PAYMENT"
           /\ \/ order' = [order EXCEPT ![OrderOf(h)].status = "CONFIRMED"]
              \/ order' = [order EXCEPT ![OrderOf(h)] =
                             [status |-> "FAILED", reason |-> "payment_failed"]]
    BY <1>2, HandlerCalls DEF Settled, Taking, StatusIsHandled, StatusRead, HandlerIs, Status
  <2> QED BY <1>2, <2>1 DEF Typed, OrdersOK
<1>3. Typed /\ Settled /\ [Next]_vars => Stays
  BY <1>1, <1>2 DEF Next, PaymentResult, Deliver, Serve, Discard, Lapse, Expire, vars
<1>4. Typed /\ Settled /\ [Next]_vars => [Stays]_vars
  BY <1>3
<1> QED BY <1>4, AlwaysSettled, PTL DEF Spec, SettlesUnlessRaced

-----------------------------------------------------------------------------
(* OrderFlow implements OrderLife.  What is left to know is that an order  *)
(* whose reservation is in service is not saved: its checkout waits for    *)
(* the answer, or gave up and was refused, or stopped.                     *)

ReserveUnsaved(c, o) ==
    \/ /\ checkout[o].at = "reserve" /\ checkout[o].on = c
       /\ ItemOf(o).p \in checkout[o].scarce
    \/ checkout[o].at \in {"rollback", "rejected", "lost"} /\ Status(o) = "absent"
Reserving(c, o) == InService(c) /\ call[c].req.kind = "reserve" /\ call[c].req.o = o
ReservesUnsaved ==
    \A c \in Slots, o \in Orders : Reserving(c, o) => ReserveUnsaved(c, o)

ReservesKept == \A c \in Slots : \A o : Reserving(c, o)' => Reserving(c, o)

LEMMA NoNewReserve ==
    ASSUME Typed,
           \/ Quiet \/ Hangs \/ (\E r : Sends(r) /\ r.kind # "reserve")
           \/ (\E c \in Slots : PS!Serve(c))
           \/ (\E p \in Products : PS!Lapse(p)) \/ PS!ExpireReservations
    PROVE  ReservesKept
<1>0. call \in [Slots -> PS!Call]
  BY ServiceIsOK DEF Typed, ServiceOK, PS!TypeOK
<1>1. CASE Quiet \/ (\E p \in Products : PS!Lapse(p)) \/ PS!ExpireReservations
  <2>1. call' = call
    BY <1>1 DEF Quiet, PS!Lapse, PS!ExpireReservations
  <2> QED BY <2>1 DEF ReservesKept, Reserving, InService
<1>2. CASE Hangs
  BY <1>0, <1>2 DEF Hangs, PS!Reply, PS!Idle, ReservesKept, Reserving, InService
<1>3. ASSUME NEW r, Sends(r), r.kind # "reserve" PROVE ReservesKept
  BY <1>0, <1>3 DEF Sends, PS!Receive, PS!Await, ReservesKept, Reserving, InService
<1>4. ASSUME NEW c \in Slots, PS!Serve(c) PROVE ReservesKept
  <2>1. PICK k : Moves(c, k)
    BY <1>4, ServeStep DEF Typed
  <2>2. InService(c)
    BY <1>4, ServeStep DEF Typed
  <2> QED BY <1>0, <2>1, <2>2 DEF Moves, ReservesKept, Reserving, InService
<1> QED BY <1>1, <1>2, <1>3, <1>4

LEMMA ReservesRest ==
    ASSUME ReservesUnsaved, ReservesKept, checkout' = checkout,
           \A o \in Orders : Status(o) = "absent" => Status(o)' = "absent"
    PROVE  ReservesUnsaved'
<1> SUFFICES ASSUME NEW c \in Slots, NEW o \in Orders, Reserving(c, o)'
             PROVE  ReserveUnsaved(c, o)'
  BY DEF ReservesUnsaved
<1>1. ReserveUnsaved(c, o)
  BY DEF ReservesKept, ReservesUnsaved
<1> QED BY <1>1 DEF ReserveUnsaved, ItemOf

LEMMA CheckoutReserves ==
    ASSUME Typed, SavedOnce, ReservesUnsaved, NEW o \in Orders,
           CheckoutStep(o) \/ LoseCheckout(o)
    PROVE  ReservesUnsaved'
<1> DEFINE k == checkout[o]
<1>0. /\ checkout \in [Orders -> Checkout] /\ Standing(o, k) /\ k \in Checkout
      /\ call \in [Slots -> PS!Call] /\ CallsSent /\ NoSlot \notin Slots
  BY ServiceIsOK, OrderFlowAssumption DEF Typed, CheckoutOK, Standing, ServiceOK, PS!TypeOK
<1>1. PICK m : checkout' = [checkout EXCEPT ![o] = m]
  BY CheckoutMoves DEF Typed
<1>2. checkout'[o] = m /\ \A x \in Orders \ {o} : checkout'[x] = checkout[x]
  BY <1>0, <1>1
<1>3. \A x \in Orders \ {o} : Status(x)' = Status(x)
  <2>1. \/ order' = order
        \/ \E b \in Reasons : order' = [order EXCEPT ![o].reason = b]
        \/ order' = [order EXCEPT ![o] = [status |-> "AWAITING_PAYMENT", reason |-> "none"]]
    BY CheckoutCalls
  <2> QED BY <2>1 DEF Status, Typed, OrdersOK
\* The other orders' reservations, and o's own, while nothing new is reserved.
<1>4. ASSUME ReservesKept,
             \A c \in Slots : (Reserving(c, o)' /\ Reserving(c, o))
                => m.at \in {"rollback", "rejected", "lost"} /\ Status(o)' = "absent"
      PROVE  ReservesUnsaved'
  <2> SUFFICES ASSUME NEW c \in Slots, NEW x \in Orders, Reserving(c, x)'
               PROVE  ReserveUnsaved(c, x)'
    BY DEF ReservesUnsaved
  <2>1. Reserving(c, x) /\ ReserveUnsaved(c, x)
    BY <1>4 DEF ReservesKept, ReservesUnsaved
  <2>2. CASE x = o
    BY <1>2, <1>4, <2>1, <2>2 DEF ReserveUnsaved
  <2>3. CASE x # o
    BY <1>2, <1>3, <2>1, <2>3 DEF ReserveUnsaved, ItemOf
  <2> QED BY <2>2, <2>3
<1>5. ASSUME NEW c \in Slots, Reserving(c, o)
      PROVE  /\ \/ k.at = "reserve" /\ k.on = c /\ ItemOf(o).p \in k.scarce
                \/ k.at \in {"rollback", "rejected", "lost"}
             /\ Status(o) = "absent"
  BY <1>5 DEF ReservesUnsaved, ReserveUnsaved, SavedOnce, Unsaved
<1>6. CASE ReserveItem(o)
  <2>1. /\ k.at = "reserve" /\ k.on = NoSlot /\ ItemOf(o).p \in k.scarce
        /\ k.i \in DOMAIN Items[o] /\ order' = order
    BY <1>0, <1>6, ItemsAre DEF ReserveItem, CheckoutCall, CheckoutIs, Standing, Checkout
  <2>2. PICK c \in Slots : /\ Send(c, "reserve", ItemOf(o), o)
                           /\ checkout' = [checkout EXCEPT ![o] = [k EXCEPT !.on = c]]
    BY <1>6 DEF ReserveItem, CheckoutCall
  <2>3. PICK r \in PS!Requests :
            /\ r.o = o
            /\ call' = [call EXCEPT ![c] = [at |-> "received", req |-> r,
                                            seen |-> NoRow, code |-> "none"]]
    BY <2>1, <2>2, SendStep DEF ItemOf, Endpoints
  <2>4. call'[c].req = r /\ \A d \in Slots : d # c => call'[d] = call[d]
    BY <1>0, <2>3
  <2>5. /\ checkout'[o].at = "reserve" /\ checkout'[o].on = c
        /\ checkout'[o].i = k.i /\ checkout'[o].scarce = k.scarce
    BY <1>0, <2>1, <2>2 DEF Checkout
  <2>6. ItemOf(o)' = ItemOf(o)
    BY <2>5 DEF ItemOf
  <2> SUFFICES ASSUME NEW d \in Slots, NEW x \in Orders, Reserving(d, x)'
               PROVE  ReserveUnsaved(d, x)'
    BY DEF ReservesUnsaved
  <2>7. CASE d = c
    <3>1. x = o
      BY <2>3, <2>4, <2>7 DEF Reserving
    <3> QED BY <2>1, <2>5, <2>6, <2>7, <3>1 DEF ReserveUnsaved
  <2>8. CASE d # c
    <3>1. Reserving(d, x)
      BY <2>4, <2>8 DEF Reserving, InService
    <3>2. x # o
      BY <1>0, <1>5, <2>1, <3>1
    <3> QED BY <1>2, <1>3, <3>1, <3>2 DEF ReservesUnsaved, ReserveUnsaved, ItemOf
  <2> QED BY <2>7, <2>8
<1>7. CASE CheckInventory(o) \/ RollBackItem(o)
  <2>1. /\ k.at \in {"check", "rollback"} /\ order' = order
        /\ k.i \in DOMAIN Items[o]
    BY <1>0, <1>7, ItemsAre
       DEF CheckInventory, RollBackItem, CheckoutCall, CheckoutIs, Standing, Checkout
  <2>2. PICK c \in Slots, kind \in {"get", "clear"} :
            /\ Send(c, kind, ItemOf(o), o)
            /\ checkout' = [checkout EXCEPT ![o] = [k EXCEPT !.on = c]]
    BY <1>7 DEF CheckInventory, RollBackItem, CheckoutCall
  <2>3. \E r : Sends(r) /\ r.kind # "reserve"
    <3>1. kind \in Endpoints
      BY DEF Endpoints
    <3>2. \E r \in PS!Requests : IsSent(r) /\ PS!Receive(c, r) /\ r.kind = kind
      BY <2>1, <2>2, <3>1, SendStep DEF ItemOf
    <3> QED BY <3>2 DEF Sends
  <2>4. checkout'[o].at = k.at
    BY <1>0, <2>2 DEF Checkout
  <2> QED BY <1>2, <1>4, <1>5, <2>1, <2>3, <2>4, NoNewReserve DEF Status
<1>8. CASE ItemReserved(o)
  <2>1. k.at = "reserve" /\ k.on \in Slots /\ order' = order
    BY <1>0, <1>8 DEF ItemReserved, CheckoutIs, Checkout
  <2>2. CASE Answered(k.on)
    <3>1. ReservesKept
      BY <2>1, <2>2, NoNewReserve DEF Answered, Hangs
    <3>2. \A x : ~ Reserving(k.on, x)
      BY <2>2 DEF Answered, PS!Reply, Reserving, InService
    <3> QED BY <1>4, <1>5, <2>1, <3>1, <3>2
  <2>3. CASE GaveUp(k.on, "reserve") /\ checkout' = [checkout EXCEPT ![o] = RollBackFrom(o)]
    <3>1. ReservesKept
      BY <2>3, NoNewReserve DEF GaveUp, Quiet
    <3>2. checkout'[o].at \in {"rejected", "rollback"}
      BY <1>0, <2>1, <2>3, RollBackIs
    <3> QED BY <1>2, <1>4, <1>5, <2>1, <3>1, <3>2 DEF Status
  <2> QED BY <1>8, <2>2, <2>3 DEF ItemReserved
<1>9. CASE ItemRolledBack(o)
  <2>1. k.at = "rollback" /\ k.on \in Slots /\ order' = order
    BY <1>0, <1>9 DEF ItemRolledBack, CheckoutIs, Checkout
  <2>2. ReservesKept
    BY <1>9, <2>1, NoNewReserve DEF ItemRolledBack, Answered, GaveUp, Hangs, Quiet
  <2>3. checkout'[o].at \in {"rejected", "rollback"}
    BY <1>0, <1>9, <2>1, OnwardIs DEF ItemRolledBack, Stages
  <2> QED BY <1>2, <1>4, <1>5, <2>1, <2>2, <2>3 DEF Status
<1>10. CASE LoseCheckout(o)
  <2>1. order' = order /\ Quiet /\ checkout'[o].at = "lost"
    BY <1>0, <1>10, EnterIs DEF LoseCheckout, productVars, Quiet, Stages
  <2> QED BY <1>2, <1>4, <1>5, <2>1, NoNewReserve DEF Status
<1>11. CASE InventoryChecked(o)
  <2>1. k.at = "check" /\ k.on \in Slots
    BY <1>0, <1>11 DEF InventoryChecked, CheckoutIs, Checkout
  <2>2. ReservesKept
    BY <1>11, <2>1, NoNewReserve DEF InventoryChecked, Answered, GaveUp, Hangs, Quiet
  <2> QED BY <1>4, <1>5, <2>1, <2>2
<1>12. CASE StartCheckout(o) \/ SkipItem(o) \/ SaveOrder(o) \/ PublishRequest(o) \/ MarkUnpublished(o)
  <2>1. /\ Quiet
        /\ \/ k.at \in {"new", "save", "publish", "mark"}
           \/ k.at = "reserve" /\ ItemOf(o).p \notin k.scarce
    BY <1>12 DEF StartCheckout, SkipItem, SaveOrder, PublishRequest, MarkUnpublished,
                 CheckoutIs, productVars, Quiet
  <2> QED BY <1>4, <1>5, <2>1, NoNewReserve
<1> QED
  BY <1>6, <1>7, <1>8, <1>9, <1>10, <1>11, <1>12 DEF CheckoutStep

LEMMA HandlerSends ==
    ASSUME Typed, NEW h \in Handlers, HandlerStep(h) \/ StopHandler(h)
    PROVE  Quiet \/ Hangs \/ \E r : Sends(r) /\ r.kind # "reserve"
<1>1. ASSUME NEW stage \in {"commit", "clear"}, HandlerCall(h, stage, stage)
      PROVE  \E r : Sends(r) /\ r.kind # "reserve"
  <2>1. PICK c \in Slots : Send(c, stage, HandledItem(h), OrderOf(h))
    BY <1>1 DEF HandlerCall
  <2>2. /\ OrderOf(h) \in Orders /\ handler[h].i \in DOMAIN Items[OrderOf(h)]
        /\ stage \in Endpoints
    BY <1>1 DEF HandlerCall, HandlerIs, Typed, HandlerOK, Handling, ResultsOK, Results, OrderOf,
                Endpoints
  <2>3. \E r \in PS!Requests : IsSent(r) /\ PS!Receive(c, r) /\ r.kind = stage
    BY <2>1, <2>2, SendStep DEF HandledItem
  <2> QED BY <2>3 DEF Sends
<1>2. CASE CommitItem(h) \/ ClearItem(h)
  BY <1>1, <1>2 DEF CommitItem, ClearItem
<1>3. CASE ItemCommitted(h) \/ ItemCleared(h)
  <2>1. handler[h].on \in Slots
    BY <1>3 DEF ItemCommitted, ItemCleared, HandlerAnswered, Typed, HandlerOK, Handler
  <2> QED BY <1>3, <2>1 DEF ItemCommitted, ItemCleared, HandlerAnswered, Answered, GaveUp,
                            Quiet, Hangs
<1>4. CASE FetchOrder(h) \/ ConfirmOrder(h) \/ RemoveFromCart(h)
           \/ FailOrder(h) \/ StopHandler(h)
  BY <1>4 DEF FetchOrder, ConfirmOrder, RemoveFromCart, FailOrder, StopHandler,
              productVars, Quiet
<1> QED BY <1>2, <1>3, <1>4 DEF HandlerStep

LEMMA NextReserves ==
    Typed /\ SavedOnce /\ ReservesUnsaved /\ [Next]_vars => ReservesUnsaved'
<1> SUFFICES ASSUME Typed, SavedOnce, ReservesUnsaved, [Next]_vars PROVE ReservesUnsaved'
  OBVIOUS
<1>1. ASSUME NEW h \in Handlers, HandlerStep(h) \/ StopHandler(h) PROVE ReservesUnsaved'
  <2>1. /\ checkout' = checkout
        /\ \/ order' = order
           \/ /\ HandlerIs(h, "confirm")
              /\ order' = [order EXCEPT ![OrderOf(h)].status = "CONFIRMED"]
           \/ /\ HandlerIs(h, "fail")
              /\ order' = [order EXCEPT ![OrderOf(h)] =
                                [status |-> "FAILED", reason |-> "payment_failed"]]
        /\ Quiet \/ Hangs \/ \E r : Sends(r) /\ r.kind # "reserve"
    BY <1>1, HandlerCalls, HandlerSends
  <2>2. handler[h].at # "idle" => OrderOf(h) \in Orders /\ Status(OrderOf(h)) # "absent"
    BY DEF Typed, HandlerOK, Handling, ResultsOK, Results, OrderOf, SavedOnce
  <2>3. \A o \in Orders : Status(o) = "absent" => Status(o)' = "absent"
    BY <2>1, <2>2 DEF Status, Typed, OrdersOK, HandlerIs
  <2> QED BY <2>1, <2>3, NoNewReserve, ReservesRest
<1>2. CASE \/ \E e \in Results : PaymentResult(e) \/ \E h \in Handlers : Deliver(h, e)
           \/ \E c \in Slots : Serve(c) \/ Discard(c)
           \/ \E p \in Products : Lapse(p)
           \/ Expire
           \/ UNCHANGED vars
  <2>1. /\ checkout' = checkout /\ order' = order
        /\ \/ Quiet \/ Hangs \/ \E c \in Slots : PS!Serve(c)
           \/ (\E p \in Products : PS!Lapse(p)) \/ PS!ExpireReservations
    BY <1>2 DEF PaymentResult, Deliver, Serve, Discard, Lapse, Expire, vars, productVars,
                checkoutVars, Quiet, Hangs
  <2> QED BY <2>1, NoNewReserve, ReservesRest DEF Status
<1> QED BY <1>1, <1>2, CheckoutReserves DEF Next

\* The state of OrderLife, as the mapping computes it.
StatusOf == [o \in Orders |-> order[o].status]
Stocks   == [p \in Products |-> row[p].stock]
Holders  == [p \in Products |-> Holder(row[p])]
Wants    == [o \in Orders |-> [p \in Products |-> Need(o, p)]]
Lives    == <<StatusOf, Stocks, Holders, sold, raced>>

LEMMA LivesIs == Life!vars = Lives
BY DEF Life!vars, Lives, StatusOf, Stocks, Holders

LEMMA OneRowLives ==
    ASSUME Typed, NEW p \in Products, NEW r, row' = [row EXCEPT ![p] = r]
    PROVE  /\ Stocks' = [Stocks EXCEPT ![p] = r.stock]
           /\ Holders' = [Holders EXCEPT ![p] = Holder(r)]
<1>1. row'[p] = r /\ \A y \in Products : y # p => row'[y] = row[y]
  BY ServiceIsOK DEF Typed, ServiceOK, PS!TypeOK
<1>2. /\ \A y \in Products : row'[y].stock = (IF y = p THEN r.stock ELSE row[y].stock)
      /\ \A y \in Products : Holder(row'[y]) = (IF y = p THEN Holder(r) ELSE Holder(row[y]))
  BY <1>1
<1>3. Stocks' = [y \in Products |-> IF y = p THEN r.stock ELSE row[y].stock]
  BY <1>2 DEF Stocks
<1>4. Holders' = [y \in Products |-> IF y = p THEN Holder(r) ELSE Holder(row[y])]
  BY <1>2 DEF Holders, Holder
<1> QED BY <1>3, <1>4 DEF Stocks, Holders

LEMMA OneStatusLives ==
    ASSUME Typed, NEW o \in Orders, NEW s, order' = [order EXCEPT ![o] = s]
    PROVE  StatusOf' = [StatusOf EXCEPT ![o] = s.status]
<1>1. order'[o] = s /\ \A x \in Orders : x # o => order'[x] = order[x]
  BY DEF Typed, OrdersOK
<1>2. \A x \in Orders : order'[x].status = (IF x = o THEN s.status ELSE order[x].status)
  BY <1>1
<1>3. StatusOf' = [x \in Orders |-> IF x = o THEN s.status ELSE order[x].status]
  BY <1>2 DEF StatusOf
<1> QED BY <1>3 DEF StatusOf

\* A step that changes no row is one of the order, if of anything.
LEMMA OrderLives ==
    ASSUME Typed, row' = row, sold' = sold, raced' = raced, NEW o \in Orders, NEW s,
           order' = [order EXCEPT ![o] = s],
           \/ s.status = Status(o)
           \/ Status(o) = "absent" /\ s.status = "AWAITING_PAYMENT"
           \/ /\ Status(o) # "absent" /\ s.status \in {"CONFIRMED", "FAILED"}
              /\ o \notin raced => Status(o) = "AWAITING_PAYMENT"
    PROVE  [Life!Next]_(Life!vars)
<1>1. StatusOf' = [StatusOf EXCEPT ![o] = s.status] /\ StatusOf[o] = Status(o)
  BY OneStatusLives DEF StatusOf, Status
<1>2. Stocks' = Stocks /\ Holders' = Holders
  BY DEF Stocks, Holders
<1>3. CASE s.status = Status(o)
  <2>1. StatusOf' = StatusOf
    BY <1>1, <1>3 DEF StatusOf
  <2> QED BY <1>2, <2>1, LivesIs DEF Lives, Life!vars, StatusOf, Stocks, Holders
<1>4. CASE Status(o) = "absent" /\ s.status = "AWAITING_PAYMENT"
  <2>1. Life!Place(o)
    BY <1>1, <1>2, <1>4 DEF Life!Place, StatusOf, Stocks, Holders
  <2> QED BY <2>1 DEF Life!Next
<1>5. CASE /\ Status(o) # "absent" /\ s.status \in {"CONFIRMED", "FAILED"}
           /\ o \notin raced => Status(o) = "AWAITING_PAYMENT"
  <2>1. Life!Settle(o)
    BY <1>1, <1>2, <1>5 DEF Life!Settle, StatusOf, Stocks, Holders
  <2> QED BY <2>1 DEF Life!Next
<1> QED BY <1>3, <1>4, <1>5

LEMMA StutterLives ==
    ASSUME row' = row, sold' = sold, order' = order, raced' = raced
    PROVE  [Life!Next]_(Life!vars)
BY DEF Life!vars

LEMMA ContestLives ==
    ASSUME row' = row, sold' = sold, order' = order, NEW o \in Orders,
           Status(o) = "AWAITING_PAYMENT", raced' = raced \cup {o}
    PROVE  [Life!Next]_(Life!vars)
<1>1. StatusOf' = StatusOf /\ Stocks' = Stocks /\ Holders' = Holders
  BY DEF StatusOf, Stocks, Holders
<1>2. StatusOf[o] = "AWAITING_PAYMENT"
  BY DEF StatusOf, Status
<1>3. Life!Contest(o)
  BY <1>1, <1>2 DEF Life!Contest, StatusOf, Stocks, Holders
<1> QED BY <1>3 DEF Life!Next

\* A row that is cleared, swept or lapses holds nothing any more.
LEMMA ReleaseLives ==
    ASSUME Typed, sold' = sold, order' = order, raced' = raced, NEW p \in Products, NEW r,
           row' = [row EXCEPT ![p] = r], r.stock = row[p].stock, Holder(r) = NoOrder
    PROVE  [Life!Next]_(Life!vars)
<1>1. Stocks' = [Stocks EXCEPT ![p] = r.stock] /\ Holders' = [Holders EXCEPT ![p] = NoOrder]
  BY OneRowLives
<1>2. Stocks' = Stocks /\ StatusOf' = StatusOf
  BY <1>1 DEF Stocks, StatusOf
<1>3. Life!Release(p)
  BY <1>1, <1>2 DEF Life!Release, StatusOf, Stocks, Holders
<1> QED BY <1>3 DEF Life!Next

LEMMA LapseLives ==
    ASSUME Typed, sold' = sold, order' = order, raced' = raced, NEW p \in Products, PS!Lapse(p)
    PROVE  [Life!Next]_(Life!vars)
<1> DEFINE r == [row[p] EXCEPT !.lease = "lapsed"]
<1>1. /\ row' = [row EXCEPT ![p] = r] /\ r.stock = row[p].stock /\ r.lease = "lapsed"
  BY DEF PS!Lapse, Typed, RowsThere, PS!Row
<1>2. Holder(r) = NoOrder
  BY <1>1 DEF Holder, PS!Reserved
<1> HIDE DEF r
<1> QED BY <1>1, <1>2, ReleaseLives

\* What the job clears had lapsed already.
LEMMA ExpireLives ==
    ASSUME Typed, sold' = sold, order' = order, raced' = raced, PS!ExpireReservations
    PROVE  [Life!Next]_(Life!vars)
<1>1. ASSUME NEW p \in Products
      PROVE  row'[p].stock = row[p].stock /\ Holder(row'[p]) = Holder(row[p])
  <2>1. row[p] \in PS!Row /\ row[p] # NoRow
    BY CallsAssumption DEF Typed, RowsThere, PS!ProductServiceAssumption
  <2>2. row'[p] = PS!Sweep(row[p])
    BY <2>1 DEF PS!ExpireReservations
  <2> QED BY <2>1, <2>2 DEF PS!Sweep, PS!Clear, PS!SetReservation, PS!Row, Holder, PS!Reserved
<1>2. Stocks' = Stocks
  BY <1>1 DEF Stocks
<1>3. Holders' = Holders
  <2>1. \A p \in Products : Holder(row[p])' = Holder(row[p])
    BY <1>1 DEF Holder
  <2> QED BY <2>1 DEF Holders
<1>4. StatusOf' = StatusOf
  BY DEF StatusOf
<1> QED BY <1>2, <1>3, <1>4, LivesIs DEF Life!vars, StatusOf, Stocks, Holders

LEMMA HoldLives ==
    ASSUME Typed, sold' = sold, order' = order, raced' = raced, NEW o \in Orders, NEW p \in Products,
           Status(o) = "absent", Holder(row[p]) = NoOrder,
           Need(o, p) > 0, row[p].stock >= Need(o, p),
           NEW r, row' = [row EXCEPT ![p] = r], r.stock = row[p].stock, Holder(r) = o
    PROVE  [Life!Next]_(Life!vars)
<1>1. Stocks' = [Stocks EXCEPT ![p] = r.stock] /\ Holders' = [Holders EXCEPT ![p] = o]
  BY OneRowLives
<1>2. Stocks' = Stocks /\ StatusOf' = StatusOf
  BY <1>1 DEF Stocks, StatusOf
<1>3. /\ StatusOf[o] = "absent" /\ Holders[p] = NoOrder
      /\ Wants[o][p] > 0 /\ Stocks[p] >= Wants[o][p]
  BY DEF StatusOf, Status, Holders, Stocks, Wants
<1>4. Life!Hold(o, p)
  BY <1>1, <1>2, <1>3 DEF Life!Hold, StatusOf, Stocks, Holders, Wants
<1> QED BY <1>4 DEF Life!Next

LEMMA TakeLives ==
    ASSUME Typed, order' = order, raced' = raced, NEW o \in Orders, NEW p \in Products,
           (Status(o) = "CONFIRMED" /\ sold[o][p] = 0) \/ o \in raced,
           Holder(row[p]) \in {NoOrder, o},
           Need(o, p) > 0, row[p].stock >= Need(o, p),
           sold' = [sold EXCEPT ![o][p] = @ + Need(o, p)],
           NEW r, row' = [row EXCEPT ![p] = r],
           r.stock = row[p].stock - Need(o, p), Holder(r) = NoOrder
    PROVE  [Life!Next]_(Life!vars)
<1>1. Wants[o][p] = Need(o, p) /\ Stocks[p] = row[p].stock
  BY DEF Wants, Stocks
<1>2. /\ Stocks' = [Stocks EXCEPT ![p] = Stocks[p] - Wants[o][p]]
      /\ Holders' = [Holders EXCEPT ![p] = NoOrder]
  BY <1>1, OneRowLives
<1>3. StatusOf' = StatusOf
  BY DEF StatusOf
<1>4. /\ (StatusOf[o] = "CONFIRMED" /\ sold[o][p] = 0) \/ o \in raced
      /\ Holders[p] \in {NoOrder, o}
      /\ Wants[o][p] > 0 /\ Stocks[p] >= Wants[o][p]
      /\ sold' = [sold EXCEPT ![o][p] = @ + Wants[o][p]]
  BY <1>1 DEF StatusOf, Status, Holders
<1>5. Life!Take(o, p)
  BY <1>2, <1>3, <1>4 DEF Life!Take, StatusOf, Stocks, Holders, Wants
<1> QED BY <1>5 DEF Life!Next

\* A served call releases a product, holds one for an order that is not
\* saved, or takes the units of one that is confirmed, or raced.
LEMMA ServeLives ==
    ASSUME Typed, SavedOnce, OnlyConfirmedTake, OneCommit, ReservesUnsaved,
           NEW c \in Slots, Serve(c)
    PROVE  [Life!Next]_(Life!vars)
<1> DEFINE q == call[c].req
           r == row[q.p]
<1>0. /\ PS!Serve(c) /\ sold' = Sold(c) /\ order' = order /\ raced' = raced
      /\ row \in [Products -> PS!Row \cup {NoRow}] /\ RowsThere /\ CallsSent
  BY ServiceIsOK DEF Serve, paymentVars, Typed, ServiceOK, PS!TypeOK
<1>1. InService(c) /\ Writes(c)
  BY <1>0, ServeStep
<1>2. /\ q.p \in Products /\ q.q \in Nat /\ q.o \in Orders \cup {NoOrder} /\ r \in PS!Row
      /\ q.kind \in {"reserve", "commit"}
           => q.o \in Orders /\ q.q = Need(q.o, q.p) /\ q.q > 0
      /\ NoOrder \notin Orders
  BY <1>0, <1>1, CallsAssumption
     DEF CallsSent, IsSent, PS!Request, RowsThere, Endpoints, PS!NoOrderAssumption
<1>3. CASE row' = row
  <2>1. sold' = sold
    BY <1>0, <1>3 DEF Sold
  <2> QED BY <1>0, <1>3, <2>1, StutterLives
<1>4. CASE q.kind # "commit" /\ row' = [row EXCEPT ![q.p] = PS!Clear(r)]
  <2>1. sold' = sold
    BY <1>0, <1>4 DEF Sold, PS!At
  <2>2. PS!Clear(r).stock = r.stock /\ Holder(PS!Clear(r)) = NoOrder
    BY <1>2, RowOps DEF Holder
  <2> QED BY <1>0, <1>2, <1>4, <2>1, <2>2, ReleaseLives
<1>5. CASE /\ q.kind = "reserve" /\ r.stock >= q.q /\ PS!CanReserve(r, q.q)
           /\ row' = [row EXCEPT ![q.p] = PS!Take(r, q.o)]
  <2>1. sold' = sold
    BY <1>0, <1>5 DEF Sold, PS!At
  <2>2. Status(q.o) = "absent"
    <3>1. Reserving(c, q.o)
      BY <1>1, <1>5 DEF Reserving
    <3> QED BY <1>2, <1>5, <3>1 DEF ReservesUnsaved, ReserveUnsaved, SavedOnce, Unsaved
  <2>3. Holder(r) = NoOrder
    BY <1>5 DEF PS!CanReserve, Holder, PS!Reserved
  <2>4. PS!Take(r, q.o).stock = r.stock /\ Holder(PS!Take(r, q.o)) = q.o
    BY <1>2, <1>5 DEF PS!Take, PS!SetReservation, Holder, PS!Reserved
  <2>5. PICK o \in Orders, p \in Products : o = q.o /\ p = q.p
    BY <1>2, <1>5
  <2>6. Need(o, p) > 0 /\ r.stock >= Need(o, p)
    BY <1>2, <1>5, <2>5
  <2> QED BY <1>0, <1>5, <2>1, <2>2, <2>3, <2>4, <2>5, <2>6, HoldLives
<1>6. CASE /\ q.kind = "commit" /\ call[c].at = "received" /\ PS!CanCommit(r, q.q, q.o)
           /\ row' = [row EXCEPT ![q.p] = PS!Sell(r, q.q)] /\ row' # row
  <2>1. PICK o \in Orders, p \in Products : o = q.o /\ p = q.p
    BY <1>2, <1>6
  <2>2. Need(o, p) = q.q /\ q.q > 0 /\ q.q \in Nat
    BY <1>2, <1>6, <2>1
  <2>3. Committing(c, o, p)
    BY <1>1, <1>6, <2>1 DEF Committing
  <2>4. (Status(o) = "CONFIRMED" /\ sold[o][p] = 0) \/ o \in raced
    BY <2>3 DEF OneCommit, OnlyConfirmedTake, Untaken
  <2>5. sold' = [sold EXCEPT ![o][p] = @ + Need(o, p)]
    BY <1>0, <1>6, <2>1, <2>2 DEF Sold, PS!At
  <2>6. Holder(r) \in {NoOrder, o} /\ r.stock >= Need(o, p)
    BY <1>6, <2>1, <2>2 DEF PS!CanCommit, Holder, PS!Reserved
  <2>7. PICK s : /\ row' = [row EXCEPT ![p] = s]
                 /\ s.stock = r.stock - Need(o, p) /\ s.by = NoOrder
    <3> DEFINE s == PS!Sell(r, q.q)
    <3>1. row' = [row EXCEPT ![p] = s]
      BY <1>6, <2>1
    <3>2. s.stock = r.stock - q.q /\ s.by = NoOrder
      BY DEF PS!Sell, PS!Clear, PS!SetReservation
    <3> HIDE DEF s
    <3> QED BY <2>2, <3>1, <3>2
  <2>8. Holder(s) = NoOrder /\ r = row[p]
    BY <2>1, <2>7 DEF Holder, PS!Reserved
  <2> HIDE DEF q, r
  <2> QED BY <1>0, <2>2, <2>4, <2>5, <2>6, <2>7, <2>8, TakeLives
<1> QED BY <1>1, <1>3, <1>4, <1>5, <1>6 DEF Writes

LEMMA NextLives ==
    Typed /\ Settled /\ ReservesUnsaved /\ [Next]_vars => [Life!Next]_(Life!vars)
<1> SUFFICES ASSUME Typed, Settled, ReservesUnsaved, [Next]_vars
             PROVE  [Life!Next]_(Life!vars)
  OBVIOUS
<1>0. order \in [Orders -> [status : Statuses, reason : Reasons]]
  BY DEF Typed, OrdersOK
<1>1. ASSUME NEW o \in Orders, CheckoutStep(o) \/ LoseCheckout(o)
      PROVE  [Life!Next]_(Life!vars)
  <2>1. /\ sold' = sold /\ raced' = raced
        /\ Quiet \/ Hangs \/ \E r : Sends(r)
        /\ \/ order' = order
           \/ \E b \in Reasons : order' = [order EXCEPT ![o].reason = b]
           \/ /\ CheckoutIs(o, "save")
              /\ order' = [order EXCEPT ![o] =
                             [status |-> "AWAITING_PAYMENT", reason |-> "none"]]
    BY <1>1, CheckoutCalls
  <2>2. row' = row
    BY <2>1 DEF Quiet, Hangs, Sends, PS!Reply, PS!Receive
  <2>3. CheckoutIs(o, "save") => Status(o) = "absent"
    BY DEF Settled, SavedOnce, CheckoutIs, Unsaved
  <2>4. CASE order' = order
    BY <2>1, <2>2, <2>4, StutterLives
  <2>5. ASSUME NEW b \in Reasons, order' = [order EXCEPT ![o].reason = b]
        PROVE  [Life!Next]_(Life!vars)
    <3>1. PICK s : order' = [order EXCEPT ![o] = s] /\ s = [order[o] EXCEPT !.reason = b]
      BY <2>5
    <3>2. s.status = Status(o)
      BY <1>0, <3>1 DEF Status
    <3> QED BY <2>1, <2>2, <3>1, <3>2, OrderLives
  <2>6. ASSUME CheckoutIs(o, "save"),
               order' = [order EXCEPT ![o] = [status |-> "AWAITING_PAYMENT", reason |-> "none"]]
        PROVE  [Life!Next]_(Life!vars)
    <3> DEFINE s == [status |-> "AWAITING_PAYMENT", reason |-> "none"]
    <3>1. order' = [order EXCEPT ![o] = s] /\ s.status = "AWAITING_PAYMENT"
      BY <2>6
    <3> HIDE DEF s
    <3> QED BY <2>1, <2>2, <2>3, <2>6, <3>1, OrderLives
  <2> QED BY <2>1, <2>4, <2>5, <2>6
<1>2. ASSUME NEW h \in Handlers, HandlerStep(h) \/ StopHandler(h)
      PROVE  [Life!Next]_(Life!vars)
  <2>1. /\ sold' = sold
        /\ Quiet \/ Hangs \/ \E r : Sends(r)
        /\ \/ order' = order
           \/ /\ HandlerIs(h, "confirm")
              /\ order' = [order EXCEPT ![OrderOf(h)].status = "CONFIRMED"]
           \/ /\ HandlerIs(h, "fail")
              /\ order' = [order EXCEPT ![OrderOf(h)] =
                             [status |-> "FAILED", reason |-> "payment_failed"]]
    BY <1>2, HandlerCalls
  <2>2. row' = row
    BY <2>1 DEF Quiet, Hangs, Sends, PS!Reply, PS!Receive
  <2>3. CASE order' = order
    <3>1. \/ raced' = raced
          \/ /\ OrderOf(h) \in Orders /\ Status(OrderOf(h)) = "AWAITING_PAYMENT"
             /\ raced' = raced \cup {OrderOf(h)}
      BY <1>2, HandlerRaces DEF Status
    <3> QED BY <2>1, <2>2, <2>3, <3>1, StutterLives, ContestLives
  <2>4. CASE order' # order
    <3>0. raced' = raced
      BY <1>2, <2>4, HandlerRaces DEF FetchOrder
    <3>1. /\ OrderOf(h) \in Orders /\ Status(OrderOf(h)) # "absent"
          /\ OrderOf(h) \notin raced => Status(OrderOf(h)) = "AWAITING_PAYMENT"
      BY <2>1, <2>4, HandledIsSaved DEF HandlerIs, Settled, Taking, StatusIsHandled, StatusRead
    <3>2. PICK s : /\ order' = [order EXCEPT ![OrderOf(h)] = s]
                   /\ s.status \in {"CONFIRMED", "FAILED"}
      BY <1>0, <2>1, <2>4, <3>1
    <3> QED BY <2>1, <2>2, <3>0, <3>1, <3>2, OrderLives
  <2> QED BY <2>3, <2>4
<1>3. CASE (\E e \in Results : PaymentResult(e) \/ \E h \in Handlers : Deliver(h, e))
           \/ (\E c \in Slots : Discard(c)) \/ UNCHANGED vars
  <2>1. row' = row /\ sold' = sold /\ order' = order /\ raced' = raced
    BY <1>3 DEF PaymentResult, Deliver, Discard, vars, productVars, paymentVars, PS!Reply
  <2> QED BY <2>1, StutterLives
<1>4. ASSUME NEW c \in Slots, Serve(c) PROVE [Life!Next]_(Life!vars)
  BY <1>4, ServeLives DEF Settled, Taking
<1>5. ASSUME NEW p \in Products, Lapse(p) PROVE [Life!Next]_(Life!vars)
  BY <1>5, LapseLives DEF Lapse, paymentVars
<1>6. CASE Expire
  BY <1>6, ExpireLives DEF Expire, paymentVars
<1> QED BY <1>1, <1>2, <1>3, <1>4, <1>5, <1>6 DEF Next

LEMMA InitLives == Init => Life!Init /\ ReservesUnsaved
<1> SUFFICES ASSUME Init PROVE Life!Init /\ ReservesUnsaved
  OBVIOUS
<1>1. StatusOf = [o \in Orders |-> "absent"]
  BY DEF Init, StatusOf
<1>2. \A p \in Products : row[p].stock = Stock[p] /\ Holder(row[p]) = NoOrder
  BY DEF Init, PS!FreshRow, Holder, PS!Reserved
<1>3. Stocks = Stock /\ Holders = [p \in Products |-> NoOrder]
  <2>1. Stock = [p \in Products |-> Stock[p]]
    BY OrderFlowAssumption
  <2> QED BY <1>2, <2>1 DEF Stocks, Holders
<1>4. Life!Init
  BY <1>1, <1>3 DEF Life!Init, Init, StatusOf, Stocks, Holders
<1>5. ReservesUnsaved
  BY DEF Init, ReservesUnsaved, Reserving, InService, PS!Idle
<1> QED BY <1>4, <1>5

\* The order-service and product-service of the code do together what
\* OrderLife promises: calls that come too late, results that are delivered
\* again, lapsing reservations and stops are steps of OrderLife or none at
\* all (paymentConsumer.js:20-60, productService.js:31-61 and 341-355), in
\* any number of handlers: an order that two of them act on at once is
\* contested, and still takes only units that are there and not held.
THEOREM OrdersLiveAsPromised == Spec => OrderLifeSpec
<1>1. Init => ReservesUnsaved /\ Life!Init
  BY InitLives
<1>2. Typed /\ Settled /\ ReservesUnsaved /\ [Next]_vars => ReservesUnsaved'
  BY NextReserves DEF Settled
<1>3. Typed /\ Settled /\ ReservesUnsaved /\ [Next]_vars => [Life!Next]_(Life!vars)
  BY NextLives
<1>4. Spec => [](Typed /\ Settled)
  BY AlwaysSettled
<1> QED BY <1>1, <1>2, <1>3, <1>4, PTL DEF Spec, OrderLifeSpec, Life!Spec
=============================================================================

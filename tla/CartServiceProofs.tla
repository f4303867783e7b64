-------------------------- MODULE CartServiceProofs --------------------------
(***************************************************************************)
(* Proofs about CartService, for any users, products and requests in       *)
(* service: its types; that it implements the operations of Carts, on the  *)
(* last version of a cart or on one that was overtaken; and that products  *)
(* come into a cart only by addItem, or by a request that was overtaken.   *)
(*                                                                         *)
(* The inductive invariant says of every request in service what it has    *)
(* read: at its put, unless it was overtaken, the cart is still what it    *)
(* holds (Current).                                                        *)
(***************************************************************************)
EXTENDS CartService, TLAPS

Calls == [at : {"idle", "validate", "get", "put"}, req : Request \cup {NoReq},
          price : Prices \cup {NoPrice}, seen : Document]

\* What is known of a request in service.
CallOK(k) ==
    /\ k \in Calls
    /\ k.at # "idle" =>
          /\ k.req \in Request
          /\ k.req.q \in Quantities \cup {0}
          /\ k.req.kind = "add" => k.req.q # 0
          /\ (k.req.kind = "add" /\ k.at # "validate") => k.price \in Prices

CallsInv ==
    /\ call \in [Callers -> Calls]
    /\ \A c \in Callers : CallOK(call[c])
    /\ overtaken \subseteq Callers

Current ==
    \A c \in Callers :
        (HasRead(c) /\ c \notin overtaken) => call[c].seen = cart[call[c].req.u]

Scan ==
    /\ sweep \in [at : {"idle", "scan"}, p : Products \cup {NoReq},
                  left : SUBSET Users, todo : SUBSET Users]
    /\ sweep.todo # {} => sweep.p \in Products
    /\ sweep.at = "scan" => sweep.p \in Products
    /\ topic \subseteq Products
    /\ position \in {"none", "end", "committed"}
    /\ stops \in 0..MaxStops
    /\ missed \subseteq Users \X Products

Tables ==
    /\ cart \in [Users -> Document]
    /\ price \in [Products -> Prices \cup {NoPrice}]

IInv == Tables /\ CallsInv /\ Current /\ Scan

-----------------------------------------------------------------------------
(* Lines.                                                                  *)

LEMMA NoLinesType == C!NoLines \in Document
BY CartServiceAssumption DEF C!NoLines, C!NoLine, C!Line, Document

\* The operations on lines give lines.
LEMMA LineOps ==
    ASSUME NEW l \in Document, NEW p \in Products, NEW q \in Quantities
    PROVE  /\ \A x \in Prices : C!AddLine(l, p, q, x) \in Document
           /\ C!SetLine(l, p, q) \in Document
           /\ C!RemoveLine(l, p) \in Document
<1> USE CartServiceAssumption DEF Document
<1>1. l[p] \in C!Line /\ l[p].q + q \in Nat /\ q \in Nat
  BY DEF C!Line
<1>2. ASSUME NEW x \in Prices PROVE C!AddLine(l, p, q, x) \in Document
  <2>1. CASE C!In(p, l)
    BY <1>1, <2>1 DEF C!AddLine, C!Line
  <2>2. CASE ~ C!In(p, l)
    BY <1>1, <2>2 DEF C!AddLine, C!Line
  <2> QED BY <2>1, <2>2
<1>3. C!SetLine(l, p, q) \in Document
  BY <1>1 DEF C!SetLine, C!Line
<1>4. C!RemoveLine(l, p) \in Document
  BY DEF C!RemoveLine, C!NoLine, C!Line
<1> QED BY <1>2, <1>3, <1>4

LEMMA RemoveOp ==
    ASSUME NEW l \in Document, NEW p \in Products
    PROVE  C!RemoveLine(l, p) \in Document
BY CartServiceAssumption DEF C!RemoveLine, C!NoLine, C!Line, Document

-----------------------------------------------------------------------------
(* How the requests in service change.                                     *)

LEMMA IdleOK == CallOK(Idle)
BY NoLinesType DEF CallOK, Idle, Calls

\* One request goes on, ends or begins, and no cart changes: if it has read
\* the cart, it has read it just now.
LEMMA CallStep ==
    ASSUME CallsInv, Current, NEW c \in Callers, NEW k, CallOK(k),
           (k.at = "put" /\ k.req.kind # "clear") => k.seen = cart[k.req.u],
           call' = [call EXCEPT ![c] = k], overtaken' = overtaken \ {c}, cart' = cart
    PROVE  CallsInv' /\ Current'
<1>1. CallsInv'
  BY DEF CallsInv, CallOK
<1>2. call'[c] = k /\ \A x \in Callers \ {c} : call'[x] = call[x]
  BY DEF CallsInv
<1>3. Current'
  BY <1>2 DEF Current, HasRead
<1> QED BY <1>1, <1>3

LEMMA AnswerStep ==
    ASSUME CallsInv, Current, NEW c \in Callers, Answer(c), cart' = cart
    PROVE  CallsInv' /\ Current'
BY CallStep, IdleOK DEF Answer, Done, Idle

\* What a request in service has.
LEMMA InService ==
    ASSUME IInv, NEW c \in Callers, call[c].at # "idle"
    PROVE  /\ CallOK(call[c]) /\ call[c] \in Calls
           /\ call[c].req \in Request
           /\ call[c].req.u \in Users /\ call[c].req.p \in Products
           /\ call[c].req.q \in Quantities \cup {0}
           /\ call[c].seen \in Document
BY DEF IInv, CallsInv, CallOK, Calls, Request

\* One request puts its cart: the others that have read it are overtaken.
LEMMA PutStep ==
    ASSUME IInv, NEW c \in Callers, call[c].at = "put", NEW l \in Document, Put(c, l)
    PROVE  IInv'
<1> DEFINE u == call[c].req.u
<1>1. u \in Users
  BY InService
<1>2. cart' = [cart EXCEPT ![u] = l] /\ call' = [call EXCEPT ![c] = Idle]
      /\ overtaken' = (overtaken \ {c}) \cup Others(c)
  BY DEF Put, Done
<1>3. Tables'
  BY <1>1, <1>2 DEF IInv, Tables, Put
<1>4. Scan'
  BY DEF IInv, Scan, Put, consumerVars
<1>5. CallsInv'
  BY <1>2, IdleOK DEF IInv, CallsInv, CallOK, Others
<1>6. Current'
  <2> SUFFICES ASSUME NEW g \in Callers, HasRead(g)', g \notin overtaken'
               PROVE  call'[g].seen = cart'[call'[g].req.u]
    BY DEF Current
  <2>1. call'[c].at = "idle"
    BY <1>2 DEF IInv, CallsInv, Idle
  <2>2. g # c /\ call'[g] = call[g]
    BY <1>2, <2>1 DEF IInv, CallsInv, HasRead
  <2>3. HasRead(g) /\ g \notin overtaken /\ g \notin Others(c)
    BY <1>2, <2>2 DEF HasRead
  <2>4. call[g].req.u \in Users /\ call[g].req.u # u
    BY <2>2, <2>3, InService DEF HasRead, Others
  <2>5. cart'[call[g].req.u] = cart[call[g].req.u]
    BY <1>1, <1>2, <2>4 DEF IInv, Tables
  <2> QED BY <2>2, <2>3, <2>5 DEF IInv, Current
<1> QED BY <1>3, <1>4, <1>5, <1>6 DEF IInv

-----------------------------------------------------------------------------
(* The invariant is inductive.                                             *)

LEMMA Initially == Init => IInv
<1> SUFFICES ASSUME Init PROVE IInv
  OBVIOUS
<1>1. Tables
  BY NoLinesType DEF Init, Tables
<1>2. CallsInv
  BY IdleOK DEF Init, CallsInv, CallOK
<1>3. Current
  BY DEF Init, Current, HasRead, Idle
<1>4. Scan
  BY CartServiceAssumption DEF Init, Scan, Waiting
<1> QED BY <1>1, <1>2, <1>3, <1>4 DEF IInv

\* A request that begins.
LEMMA BeginStep ==
    ASSUME IInv, NEW c \in Callers, NEW r \in Requests,
           r.q \in Quantities \cup {0}, Begin(c, r), cart' = cart
    PROVE  CallsInv' /\ Current'
<1> DEFINE k == [at |-> First(r), req |-> r, price |-> NoPrice, seen |-> C!NoLines]
<1>1. r \in Request /\ (r.kind = "add" => r.q # 0)
  BY DEF Requests
<1>2. /\ First(r) \in {"validate", "get", "put"}
      /\ r.kind = "add" => First(r) = "validate"
      /\ First(r) = "put" => r.kind = "clear"
  BY <1>1 DEF First, Request, Kinds
<1>3. k \in Calls
  BY <1>1, <1>2, NoLinesType DEF Calls
<1>4. CallOK(k)
  BY <1>1, <1>2, <1>3 DEF CallOK
<1>5. call' = [call EXCEPT ![c] = k] /\ overtaken' = overtaken \ {c}
  BY DEF Begin, Await
<1>6. ~ (k.at = "put" /\ k.req.kind # "clear")
  BY <1>2
<1> HIDE DEF k
<1> QED BY <1>4, <1>5, <1>6, CallStep DEF IInv

LEMMA ServeStep ==
    ASSUME IInv, NEW c \in Callers, Serve(c)
    PROVE  IInv'
<1> DEFINE r == call[c].req
           lines == call[c].seen
<1>0. call[c].at # "idle"
  BY DEF Serve, ValidateProduct, GetCart, AddItem, UpdateItemQuantity,
         ItemNotFound, SetToZero, RemoveItem, ClearCart, At
<1>i. /\ CallOK(call[c]) /\ call[c] \in Calls /\ r \in Request
      /\ r.u \in Users /\ r.p \in Products /\ r.q \in Quantities \cup {0}
      /\ lines \in Document
  BY <1>0, InService
<1>t. ASSUME CallsInv', Current', UNCHANGED <<cart, price, consumerVars>>
      PROVE  IInv'
  BY <1>t DEF IInv, Tables, Scan, consumerVars
<1>1. CASE ValidateProduct(c)
  <2>1. CASE price[r.p] = NoPrice
    BY <1>1, <2>1, <1>t, AnswerStep DEF ValidateProduct, IInv
  <2>2. CASE price[r.p] # NoPrice
    <3> DEFINE k == [at |-> "get", req |-> r, price |-> price[r.p], seen |-> C!NoLines]
    <3>1. price[r.p] \in Prices
      BY <2>2, <1>i DEF IInv, Tables
    <3>2. k \in Calls
      BY <3>1, <1>i, NoLinesType DEF Calls
    <3>3. CallOK(k) /\ k.at # "put"
      BY <3>1, <3>2, <1>i, <1>1 DEF CallOK, ValidateProduct, At
    <3>4. /\ call' = [call EXCEPT ![c] = k] /\ overtaken' = overtaken \ {c}
          /\ UNCHANGED <<cart, price, consumerVars>>
      BY <1>1, <2>2 DEF ValidateProduct, Await
    <3> HIDE DEF k
    <3> QED BY <3>3, <3>4, <1>t, CallStep DEF IInv
  <2> QED BY <2>1, <2>2
<1>2. CASE GetCart(c)
  <2> DEFINE k == [at |-> "put", req |-> r, price |-> call[c].price, seen |-> cart[r.u]]
  <2>1. cart[r.u] \in Document
    BY <1>i DEF IInv, Tables
  <2>2. k \in Calls
    BY <2>1, <1>i DEF Calls
  <2>3. call[c].at = "get"
    BY <1>2 DEF GetCart
  <2>4. CallOK(k) /\ k.seen = cart[k.req.u]
    BY <2>2, <2>3, <1>i DEF CallOK
  <2>5. /\ call' = [call EXCEPT ![c] = k] /\ overtaken' = overtaken \ {c}
        /\ UNCHANGED <<cart, price, consumerVars>>
    BY <1>2 DEF GetCart, Await
  <2> HIDE DEF k
  <2> QED BY <2>4, <2>5, <1>t, CallStep DEF IInv
<1>3. CASE AddItem(c)
  <2>1. call[c].at = "put" /\ r.kind = "add" /\ r.q \in Quantities /\ call[c].price \in Prices
    BY <1>3, <1>i DEF AddItem, At, CallOK
  <2> QED BY <2>1, <1>3, <1>i, LineOps, PutStep DEF AddItem
<1>4. CASE UpdateItemQuantity(c)
  <2>1. call[c].at = "put" /\ r.q \in Quantities
    BY <1>4, <1>i DEF UpdateItemQuantity, At
  <2> QED BY <2>1, <1>4, <1>i, LineOps, PutStep DEF UpdateItemQuantity
<1>5. CASE ItemNotFound(c)
  BY <1>5, <1>t, AnswerStep DEF ItemNotFound, IInv
<1>6. CASE SetToZero(c)
  <2> DEFINE z == [r EXCEPT !.kind = "remove"]
             k == [at |-> "get", req |-> z, price |-> NoPrice, seen |-> C!NoLines]
  <2>1. z \in Request /\ z.u = r.u /\ z.q = r.q /\ z.kind = "remove"
    BY <1>i DEF Request, Kinds
  <2>2. k \in Calls
    BY <2>1, NoLinesType DEF Calls
  <2>3. CallOK(k) /\ k.at # "put"
    BY <2>1, <2>2, <1>i DEF CallOK
  <2>4. /\ call' = [call EXCEPT ![c] = k] /\ overtaken' = overtaken \ {c}
        /\ UNCHANGED <<cart, price, consumerVars>>
    BY <1>6 DEF SetToZero, Await
  <2> HIDE DEF k
  <2> QED BY <2>3, <2>4, <1>t, CallStep DEF IInv
<1>7. CASE RemoveItem(c)
  BY <1>i, <1>7, RemoveOp, PutStep DEF RemoveItem, At
<1>8. CASE ClearCart(c)
  BY <1>8, NoLinesType, PutStep DEF ClearCart, At
<1> QED
  BY <1>1, <1>2, <1>3, <1>4, <1>5, <1>6, <1>7, <1>8 DEF Serve

LEMMA NextStep == IInv /\ [Next]_vars => IInv'
<1> SUFFICES ASSUME IInv, [Next]_vars PROVE IInv'
  OBVIOUS
<1>t. ASSUME CallsInv', Current', UNCHANGED <<cart, price>>, Scan'
      PROVE  IInv'
  BY <1>t DEF IInv, Tables
<1>c. ASSUME UNCHANGED tableVars, Scan' PROVE IInv'
  BY <1>c DEF IInv, CallsInv, Current, HasRead, Tables, tableVars
<1>1. ASSUME NEW c \in Slots, NEW r \in Requests, Receive(c, r) PROVE IInv'
  <2>1. r.q \in Quantities \cup {0} /\ c \in Callers
    BY DEF Requests, Request, Callers
  <2>2. CallsInv' /\ Current'
    BY <1>1, <2>1, BeginStep DEF Receive
  <2> QED BY <1>1, <2>2, <1>t DEF Receive, IInv, Scan, consumerVars
<1>2. ASSUME NEW c \in Callers, Serve(c) PROVE IInv'
  BY <1>2, ServeStep
<1>3. ASSUME NEW c \in Callers, Fail(c) PROVE IInv'
  <2>1. call[c].req.u \in Users /\ call[c].req.p \in Products
    BY <1>3, InService DEF Fail
  <2>2. Scan'
    BY <1>3, <2>1 DEF Fail, IInv, Scan
  <2>3. CallsInv' /\ Current'
    BY <1>3, AnswerStep DEF Fail, IInv
  <2> QED BY <1>3, <2>2, <2>3, <1>t DEF Fail
<1>4. ASSUME NEW page \in SUBSET Users, ScanPage(page) PROVE IInv'
  <2>1. Scan'
    BY <1>4 DEF ScanPage, BetweenPages, IInv, Scan
  <2> QED BY <1>4, <2>1, <1>c DEF ScanPage
<1>5. ASSUME NEW u \in Users, RemoveFound(u) PROVE IInv'
  <2> DEFINE r == [kind |-> "remove", u |-> u, p |-> sweep.p, q |-> 0]
  <2>1. r \in Requests /\ r.q \in Quantities \cup {0} /\ Consumer \in Callers
    BY <1>5 DEF RemoveFound, IInv, Scan, Requests, Request, Kinds, Callers
  <2>2. CallsInv' /\ Current'
    BY <1>5, <2>1, BeginStep DEF RemoveFound
  <2>3. Scan'
    BY <1>5 DEF RemoveFound, IInv, Scan
  <2> QED BY <1>5, <2>2, <2>3, <1>t DEF RemoveFound
<1>6. CASE JoinGroup \/ EndSweep \/ FailScan
  <2>1. Scan'
    BY <1>6 DEF JoinGroup, EndSweep, FailScan, BetweenPages, Waiting, IInv, Scan
  <2> QED BY <1>6, <2>1, <1>c DEF JoinGroup, EndSweep, FailScan
<1>7. CASE StopConsumer
  <2>1. Unconsumed \subseteq Products
    BY DEF Unconsumed, IInv, Scan
  <2>2. stops' \in 0..MaxStops
    BY <1>7, CartServiceAssumption DEF StopConsumer, IInv, Scan
  <2>3. Scan'
    BY <1>7, <2>1, <2>2 DEF StopConsumer, Waiting, IInv, Scan
  <2>4. CallsInv' /\ Current'
    BY <1>7, AnswerStep DEF StopConsumer, IInv, Callers
  <2> QED BY <1>7, <2>3, <2>4, <1>t DEF StopConsumer
<1>8. ASSUME NEW p \in Products, TakeDeleted(p) PROVE IInv'
  <2>1. Scan'
    BY <1>8 DEF TakeDeleted, IInv, Scan
  <2> QED BY <1>8, <2>1, <1>c DEF TakeDeleted
<1>9. ASSUME NEW p \in Products, PublishDeleted(p) PROVE IInv'
  <2>1. Scan'
    BY <1>9 DEF PublishDeleted, IInv, Scan
  <2> QED BY <1>9, <2>1, <1>c DEF PublishDeleted
<1>10. ASSUME NEW p \in Products, NEW x \in Prices, SetPrice(p, x) PROVE IInv'
  <2>1. Scan' /\ Tables'
    BY <1>10 DEF SetPrice, IInv, Scan, Tables, consumerVars
  <2> QED BY <1>10, <2>1 DEF SetPrice, IInv, CallsInv, Current, HasRead
<1>11. CASE UNCHANGED vars
  BY <1>11, <1>c DEF vars, consumerVars, IInv, Scan
<1> QED
  BY <1>1, <1>2, <1>3, <1>4, <1>5, <1>6, <1>7, <1>8, <1>9, <1>10, <1>11 DEF Next

LEMMA Invariance == Spec => []IInv
BY Initially, NextStep, PTL DEF Spec

\* Types: no line has a price that no product ever had.
THEOREM TypeInvariant == Spec => []TypeOK
<1>1. IInv => TypeOK
  BY DEF IInv, Tables, CallsInv, Scan, TypeOK, Calls
<1> QED BY <1>1, Invariance, PTL

-----------------------------------------------------------------------------
(* The steps on the carts.                                                 *)

\* The operation each put makes of the version it holds.
Operates(c, l) ==
    LET r == call[c].req
        v == call[c].seen
    IN  \/ /\ AddItem(c) /\ r.q \in Quantities /\ call[c].price \in Prices
           /\ l = C!AddLine(v, r.p, r.q, call[c].price)
        \/ /\ UpdateItemQuantity(c) /\ r.q \in Quantities /\ C!In(r.p, v)
           /\ l = C!SetLine(v, r.p, r.q)
        \/ RemoveItem(c) /\ l = C!RemoveLine(v, r.p)

LEMMA Puts ==
    ASSUME IInv, NEW c \in Callers,
           AddItem(c) \/ UpdateItemQuantity(c) \/ RemoveItem(c)
    PROVE  /\ HasRead(c) /\ call[c].req.u \in Users /\ call[c].req.p \in Products
           /\ call[c].seen \in Document
           /\ \E l : Put(c, l) /\ Operates(c, l)
<1>1. HasRead(c)
  BY DEF HasRead, AddItem, UpdateItemQuantity, RemoveItem, At
<1>2. /\ CallOK(call[c]) /\ call[c].req.u \in Users /\ call[c].req.p \in Products
      /\ call[c].req.q \in Quantities \cup {0} /\ call[c].seen \in Document
      /\ call[c].at = "put"
  BY <1>1, InService DEF HasRead
<1>3. CASE AddItem(c)
  <2>1. call[c].req.q \in Quantities /\ call[c].price \in Prices
    BY <1>2, <1>3 DEF AddItem, At, CallOK
  <2> QED BY <1>1, <1>2, <1>3, <2>1 DEF AddItem, Operates
<1>4. CASE UpdateItemQuantity(c)
  BY <1>1, <1>2, <1>4 DEF UpdateItemQuantity, Operates
<1>5. CASE RemoveItem(c)
  BY <1>1, <1>2, <1>5 DEF RemoveItem, Operates
<1> QED BY <1>3, <1>4, <1>5

\* The version a put is made from is the last one, or one that was overtaken.
LEMMA Versions ==
    ASSUME IInv, NEW c \in Callers, HasRead(c)
    PROVE  call[c].seen \in {cart[call[c].req.u]} \cup Held[call[c].req.u]
<1>1. call[c].req.u \in Users
  BY InService DEF HasRead
<1> QED BY <1>1 DEF IInv, Current, Held

\* Who was overtaken holds a version that was the last when it was put over.
LEMMA PutHolds ==
    ASSUME IInv, NEW c \in Callers, call[c].at = "put", NEW l, Put(c, l)
    PROVE  /\ call[c].req.u \in Users
           /\ cart' = [cart EXCEPT ![call[c].req.u] = l]
           /\ C!Hold(call[c].req.u)
<1> DEFINE u == call[c].req.u
<1>1. u \in Users /\ cart' = [cart EXCEPT ![u] = l]
      /\ call' = [call EXCEPT ![c] = Idle]
      /\ overtaken' = (overtaken \ {c}) \cup Others(c)
  BY InService DEF Put, Done
<1>2. ASSUME NEW g \in overtaken'
      PROVE  /\ call'[g] = call[g]
             /\ \/ g \in overtaken
                \/ call[g].req.u = u /\ call[g].seen = cart[u]
  <2>1. g \in Callers \ {c}
    BY <1>1 DEF Others, IInv, CallsInv
  <2>2. call'[g] = call[g]
    BY <1>1, <2>1 DEF IInv, CallsInv
  <2>3. CASE g \notin overtaken
    <3>1. HasRead(g) /\ call[g].req.u = u
      BY <1>1, <2>3 DEF Others
    <3> QED BY <2>1, <2>2, <2>3, <3>1 DEF IInv, Current
  <2> QED BY <2>2, <2>3
<1>3. DOMAIN Held' = Users
  BY DEF Held
<1>4. Held'[u] \subseteq Held[u] \cup {cart[u]}
  BY <1>1, <1>2 DEF Held
<1>5. \A w \in Users \ {u} : Held'[w] \subseteq Held[w]
  BY <1>2 DEF Held
<1> QED BY <1>1, <1>3, <1>4, <1>5 DEF C!Hold

\* A request that goes on or ends gives up the version it holds.
LEMMA OneGivesUp ==
    ASSUME IInv, NEW c \in Callers, NEW k, call' = [call EXCEPT ![c] = k],
           overtaken' = overtaken \ {c}, cart' = cart
    PROVE  C!GiveUp
<1>1. \A g \in overtaken' : g \in overtaken /\ call'[g] = call[g]
  BY DEF IInv, CallsInv
<1>2. DOMAIN Held' = Users /\ \A w \in Users : Held'[w] \subseteq Held[w]
  BY <1>1 DEF Held
<1> QED BY <1>2 DEF C!GiveUp

LEMMA NoneHolds ==
    ASSUME UNCHANGED <<cart, call, overtaken>>
    PROVE  UNCHANGED C!vars
BY DEF C!vars, Held

\* The steps that leave every cart alone.
LEMMA OtherSteps ==
    ASSUME IInv, [Next]_vars,
           ~ \E c \in Callers : \/ AddItem(c) \/ UpdateItemQuantity(c)
                               \/ RemoveItem(c) \/ ClearCart(c)
    PROVE  /\ cart' = cart
           /\ [C!Next]_(C!vars)
<1>1. ASSUME NEW c \in Callers, Answer(c) \/ \E s, r, x, l : Await(c, s, r, x, l),
             cart' = cart
      PROVE  C!Next
  <2>1. overtaken' = overtaken \ {c} /\ \E k : call' = [call EXCEPT ![c] = k]
    BY <1>1 DEF Answer, Done, Await
  <2>2. C!GiveUp
    BY <1>1, <2>1, OneGivesUp
  <2> QED BY <2>2 DEF C!Next
<1>2. ASSUME NEW c \in Slots, NEW r \in Requests, Receive(c, r)
      PROVE  cart' = cart /\ C!Next
  BY <1>1, <1>2 DEF Receive, Begin, Callers
<1>3. ASSUME NEW c \in Callers, Serve(c) \/ Fail(c)
      PROVE  cart' = cart /\ C!Next
  <2>1. ValidateProduct(c) \/ GetCart(c) \/ ItemNotFound(c) \/ SetToZero(c) \/ Fail(c)
    BY <1>3 DEF Serve
  <2>2. cart' = cart
    BY <2>1 DEF ValidateProduct, GetCart, ItemNotFound, SetToZero, Fail
  <2>3. Answer(c) \/ \E s, r, x, l : Await(c, s, r, x, l)
    BY <2>1 DEF ValidateProduct, GetCart, ItemNotFound, SetToZero, Fail
  <2> QED BY <1>1, <2>2, <2>3
<1>4. ASSUME NEW u \in Users, RemoveFound(u) PROVE cart' = cart /\ C!Next
  BY <1>1, <1>4 DEF RemoveFound, Begin, Callers
<1>5. CASE StopConsumer
  BY <1>1, <1>5 DEF StopConsumer, Callers
<1>6. CASE \/ \E page \in SUBSET Users : ScanPage(page)
           \/ JoinGroup \/ EndSweep \/ FailScan \/ UNCHANGED vars
           \/ \E p \in Products : \/ TakeDeleted(p) \/ PublishDeleted(p)
                                  \/ \E x \in Prices : SetPrice(p, x)
  <2>1. UNCHANGED <<cart, call, overtaken>>
    BY <1>6 DEF ScanPage, JoinGroup, EndSweep, FailScan, vars, tableVars,
                TakeDeleted, PublishDeleted, SetPrice
  <2> QED BY <2>1, NoneHolds
<1> QED BY <1>2, <1>3, <1>4, <1>5, <1>6 DEF Next

-----------------------------------------------------------------------------
(* The theorems.                                                           *)

LEMMA CartsStep ==
    ASSUME IInv, [Next]_vars
    PROVE  [C!Next]_(C!vars)
<1>1. ASSUME NEW c \in Callers, AddItem(c) \/ UpdateItemQuantity(c) \/ RemoveItem(c)
      PROVE  C!Next
  <2> DEFINE u == call[c].req.u
             v == call[c].seen
             p == call[c].req.p
  <2>1. /\ HasRead(c) /\ u \in Users /\ p \in Products /\ v \in Document
        /\ \E l : Put(c, l) /\ Operates(c, l)
    BY <1>1, Puts
  <2>2. PICK l : Put(c, l) /\ Operates(c, l)
    BY <2>1
  <2>3. cart' = [cart EXCEPT ![u] = l] /\ C!Hold(u)
    BY <2>1, <2>2, PutHolds DEF HasRead
  <2>4. v \in {cart[u]} \cup Held[u]
    BY <2>1, Versions
  <2>5. l \in C!Added(v) \cup C!WithQuantity(v) \cup C!Removed(v)
    BY <2>1, <2>2 DEF Operates, C!Added, C!WithQuantity, C!Removed
  <2>6. C!Change(u)
    BY <2>3, <2>4, <2>5 DEF C!Change
  <2> QED BY <2>1, <2>6 DEF C!Next
<1>2. ASSUME NEW c \in Callers, ClearCart(c) PROVE C!Next
  <2> DEFINE u == call[c].req.u
  <2>1. u \in Users /\ cart' = [cart EXCEPT ![u] = C!NoLines] /\ C!Hold(u)
    BY <1>2, PutHolds DEF ClearCart, At
  <2>2. C!Clear(u)
    BY <2>1 DEF C!Clear
  <2> QED BY <2>1, <2>2 DEF C!Next
<1> QED BY <1>1, <1>2, OtherSteps

\* CartsSpec: the read, the put and the failures between them implement the
\* operations of Carts, whatever overlaps: each is one step on the last
\* version of the cart, or on one that its request read and that another
\* request then put over.
THEOREM CartsImplemented == Spec => CartsSpec
<1>1. Init => C!Init
  <2> SUFFICES ASSUME Init PROVE C!Init
    OBVIOUS
  <2>1. Held = [u \in Users |-> {}]
    BY DEF Init, Held
  <2> QED BY <2>1 DEF Init, C!Init
<1>2. IInv /\ [Next]_vars => [C!Next]_(C!vars)
  BY CartsStep
<1> QED BY <1>1, <1>2, Invariance, PTL DEF Spec, CartsSpec, C!Spec

\* LinesComeBackOnlyOvertaken: neither a request that was not overtaken nor a
\* removal by the consumer, however they overlap, brings a product into a
\* cart; addItem does, and a request that holds it from before.
THEOREM ProductsComeBackOnlyOvertaken == Spec => LinesComeBackOnlyOvertaken
<1> DEFINE Comes(u, p) == C!In(p, cart'[u]) /\ ~ C!In(p, cart[u])
           By(u, p) == \E c \in Callers :
                          /\ Serve(c) /\ call[c].req.u = u
                          /\ \/ AddItem(c) /\ call[c].req.p = p
                             \/ c \in overtaken /\ C!In(p, call[c].seen)
<1>1. ASSUME IInv, [Next]_vars, NEW u \in Users, NEW p \in Products, Comes(u, p)
      PROVE  By(u, p)
  <2>1. PICK c \in Callers :
           AddItem(c) \/ UpdateItemQuantity(c) \/ RemoveItem(c) \/ ClearCart(c)
    BY <1>1, OtherSteps
  <2>2. Serve(c)
    BY <2>1 DEF Serve
  <2>3. cart \in [Users -> Document]
    BY <1>1 DEF IInv, Tables
  <2>4. CASE ClearCart(c)
    <3>1. /\ call[c].req.u \in Users
          /\ cart' = [cart EXCEPT ![call[c].req.u] = C!NoLines]
      BY <1>1, <2>4, PutHolds DEF ClearCart, At
    <3>2. ~ C!In(p, C!NoLines)
      BY DEF C!NoLines, C!NoLine, C!In
    <3> QED BY <1>1, <2>3, <3>1, <3>2 DEF C!In
  <2>5. CASE AddItem(c) \/ UpdateItemQuantity(c) \/ RemoveItem(c)
    <3> DEFINE w == call[c].req.u
               v == call[c].seen
               r == call[c].req.p
    <3>1. /\ HasRead(c) /\ w \in Users /\ r \in Products /\ v \in Document
          /\ \E l : Put(c, l) /\ Operates(c, l)
      BY <1>1, <2>5, Puts
    <3>2. PICK l : Put(c, l) /\ Operates(c, l)
      BY <3>1
    <3>3. cart' = [cart EXCEPT ![w] = l]
      BY <1>1, <3>1, <3>2, PutHolds DEF HasRead
    <3>4. u = w /\ C!In(p, l)
      BY <1>1, <2>3, <3>1, <3>3 DEF C!In
    <3>5. C!In(p, v) \/ (AddItem(c) /\ p = r)
      <4> DEFINE Same == p # r => l[p] = v[p]
      <4>1. Operates(c, l) /\ v \in Document /\ r \in Products
        BY <3>1, <3>2
      <4>2. ASSUME NEW q, NEW x, l = C!AddLine(v, r, q, x) PROVE Same
        BY <4>1, <4>2 DEF C!AddLine, Document
      <4>3. ASSUME NEW q, l = C!SetLine(v, r, q) PROVE Same
        BY <4>1, <4>3 DEF C!SetLine, Document
      <4>4. CASE l = C!RemoveLine(v, r)
        <5>1. Same /\ (p = r => ~ C!In(p, l))
          BY <4>1, <4>4 DEF C!RemoveLine, C!NoLine, C!In, Document
        <5> QED BY <3>4, <5>1 DEF C!In
      <4> QED BY <3>4, <4>1, <4>2, <4>3, <4>4 DEF Operates, C!In
    <3>6. CASE c \in overtaken
      BY <2>2, <3>4, <3>5, <3>6
    <3>7. CASE c \notin overtaken
      <4>1. v = cart[u]
        BY <1>1, <3>1, <3>4, <3>7 DEF IInv, Current
      <4> QED BY <1>1, <2>2, <3>4, <3>5, <4>1
    <3> QED BY <3>6, <3>7
  <2> QED BY <2>1, <2>4, <2>5
<1>2. IInv /\ [Next]_vars =>
        [\A u \in Users, p \in Products : Comes(u, p) => By(u, p)]_vars
  BY <1>1
<1> QED BY <1>2, Invariance, PTL DEF Spec, LinesComeBackOnlyOvertaken
=============================================================================

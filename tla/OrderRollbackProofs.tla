------------------------- MODULE OrderRollbackProofs -------------------------
(***************************************************************************)
(* A checkout that is refused holds nothing (orderService.js rolls back    *)
(* what it reserved before it answers), for any number of orders, items    *)
(* and calls in service, when nothing fails and the answers to its         *)
(* reservations and clears come in time.                                   *)
(*                                                                         *)
(* The invariant Pending says where every reservation comes from: an order *)
(* that a row names has a checkout that is still to reserve, still to roll *)
(* back, or past its last item.  A request in service for a checkout is    *)
(* the one its stage made, and nobody else waits for its answer.           *)
(***************************************************************************)
EXTENDS OrderFlowProofs

NothingLost == Faults = FALSE /\ "reserve" \notin SlowCalls /\ "clear" \notin SlowCalls

\* Order o may have its item n reserved, from where its checkout stands: the
\* items before the one it is at, this one too once the answer says so; the
\* ones it has yet to clear, this one until the clear has been served.
MayHold(o, n) ==
    LET k == checkout[o]
    IN  \/ k.at \in {"save", "publish", "mark", "done"}
        \/ /\ k.at = "reserve"
           /\ \/ n < k.i
              \/ /\ n = k.i /\ k.on # NoSlot
                 /\ call[k.on].at = "done" /\ call[k.on].code = "ok"
        \/ /\ k.at = "rollback"
           /\ n \in k.i .. k.last
           /\ (n = k.i /\ k.on # NoSlot) =>
                 /\ InService(k.on)
                 /\ call[k.on].at = "read"
                       => call[k.on].seen # NoRow /\ PS!MayClear(call[k.on].seen, o)

HeldIsPending(o) ==
    \A p \in Products :
        row[p].by = o => \E n \in DOMAIN Items[o] : Items[o][n].p = p /\ MayHold(o, n)

\* The request a checkout waits for is the one of its stage and its item.
CallFits(o) ==
    LET k == checkout[o]
    IN  (k.at \in {"reserve", "rollback"} /\ k.on # NoSlot) =>
           /\ k.at = "reserve" => ItemOf(o).p \in k.scarce
           /\ InService(k.on) =>
                 /\ call[k.on].req.o = o /\ call[k.on].req.p = ItemOf(o).p
                 /\ call[k.on].req.kind = IF k.at = "reserve" THEN "reserve" ELSE "clear"

\* A reservation in service is one that its checkout waits for.
ReservesAwaited ==
    \A c \in Slots :
        (InService(c) /\ call[c].req.kind = "reserve") =>
            LET k == checkout[call[c].req.o] IN k.at = "reserve" /\ k.on = c

\* The checkouts and the handlers, and the slots they wait on.
Readers == ({"checkout"} \X Orders) \cup ({"handler"} \X Handlers)
On(a) == IF a[1] = "checkout" THEN checkout[a[2]].on ELSE handler[a[2]].on

\* Each waits on a slot that is busy, and of its own.
OwnSlots ==
    \A a \in Readers :
        On(a) # NoSlot => /\ call[On(a)].at # "idle"
                          /\ \A b \in Readers : On(b) = On(a) => a = b

Pending ==
    /\ \A o \in Orders : HeldIsPending(o) /\ CallFits(o)
    /\ ReservesAwaited
    /\ OwnSlots

-----------------------------------------------------------------------------
(* Who waits on which slot.                                                *)

LEMMA CheckoutReads ==
    ASSUME Typed, NEW o \in Orders, NEW k, checkout' = [checkout EXCEPT ![o] = k],
           handler' = handler
    PROVE  LET a == <<"checkout", o>>
           IN  /\ a \in Readers /\ On(a) = checkout[o].on /\ On(a)' = k.on
               /\ \A b \in Readers : b # a => On(b)' = On(b)
<1> DEFINE a == <<"checkout", o>>
<1>1. checkout \in [Orders -> Checkout]
  BY DEF Typed, CheckoutOK
<1>2. a \in Readers /\ On(a) = checkout[o].on /\ On(a)' = k.on
  BY <1>1 DEF Readers, On
<1>3. ASSUME NEW b \in Readers, b # a PROVE On(b)' = On(b)
  <2>1. CASE b \in {"checkout"} \X Orders
    <3>1. b = <<"checkout", b[2]>> /\ b[2] \in Orders
      BY <2>1
    <3>2. b[2] # o
      BY <1>3, <3>1
    <3> QED BY <1>1, <3>1, <3>2 DEF On
  <2>2. CASE b \in {"handler"} \X Handlers
    BY <2>2 DEF On
  <2> QED BY <2>1, <2>2 DEF Readers
<1> QED BY <1>2, <1>3

LEMMA HandlerReads ==
    ASSUME Typed, NEW h \in Handlers, NEW k, handler' = [handler EXCEPT ![h] = k],
           checkout' = checkout
    PROVE  LET a == <<"handler", h>>
           IN  /\ a \in Readers /\ On(a) = handler[h].on /\ On(a)' = k.on
               /\ \A b \in Readers : b # a => On(b)' = On(b)
<1> DEFINE a == <<"handler", h>>
<1>1. handler \in [Handlers -> Handler]
  BY DEF Typed, HandlerOK
<1>2. a \in Readers /\ On(a) = handler[h].on /\ On(a)' = k.on
  BY <1>1 DEF Readers, On
<1>3. ASSUME NEW b \in Readers, b # a PROVE On(b)' = On(b)
  <2>1. CASE b \in {"handler"} \X Handlers
    <3>1. b = <<"handler", b[2]>> /\ b[2] \in Handlers
      BY <2>1
    <3>2. b[2] # h
      BY <1>3, <3>1
    <3> QED BY <1>1, <3>1, <3>2 DEF On
  <2>2. CASE b \in {"checkout"} \X Orders
    BY <2>2 DEF On
  <2> QED BY <2>1, <2>2 DEF Readers
<1> QED BY <1>2, <1>3

\* The slot a reader waits on.
LEMMA OnSlots ==
    ASSUME Typed
    PROVE  /\ NoSlot \notin Slots
           /\ \A o \in Orders : checkout[o].on \in Slots \cup {NoSlot}
           /\ \A h \in Handlers : handler[h].on \in Slots \cup {NoSlot}
           /\ \A a \in Readers : On(a) \in Slots \cup {NoSlot}
           /\ call \in [Slots -> PS!Call]
<1>1. /\ \A o \in Orders : checkout[o].on \in Slots \cup {NoSlot}
      /\ \A h \in Handlers : handler[h].on \in Slots \cup {NoSlot}
  BY DEF Typed, CheckoutOK, HandlerOK, Checkout, Handler
<1>2. ASSUME NEW a \in Readers PROVE On(a) \in Slots \cup {NoSlot}
  <2>1. CASE a \in {"checkout"} \X Orders
    BY <1>1, <2>1 DEF On
  <2>2. CASE a \in {"handler"} \X Handlers
    BY <1>1, <2>2 DEF On
  <2> QED BY <2>1, <2>2 DEF Readers
<1>3. call \in [Slots -> PS!Call]
  BY ServiceIsOK DEF Typed, ServiceOK, PS!TypeOK
<1> QED BY <1>1, <1>2, <1>3, OrderFlowAssumption

\* A reader takes an idle slot, ...
LEMMA TakesSlot ==
    ASSUME Typed, OwnSlots, NEW a \in Readers, NEW c \in Slots, NEW k,
           call[c].at = "idle", call' = [call EXCEPT ![c] = k], k.at # "idle",
           On(a)' = c, \A b \in Readers : b # a => On(b)' = On(b)
    PROVE  OwnSlots'
<1>1. \A b \in Readers : On(b) # c
  BY OnSlots DEF OwnSlots
<1>2. call'[c] = k /\ \A d \in Slots : d # c => call'[d] = call[d]
  BY OnSlots
<1>3. \A b \in Readers : On(b) \in Slots \cup {NoSlot}
  BY OnSlots
<1> QED BY <1>1, <1>2, <1>3 DEF OwnSlots, Readers

\* ... leaves its slot, ...
LEMMA LeavesSlot ==
    ASSUME Typed, OwnSlots, NEW a \in Readers,
           call' = call \/ call' = [call EXCEPT ![On(a)] = PS!Idle],
           On(a)' = NoSlot, \A b \in Readers : b # a => On(b)' = On(b)
    PROVE  OwnSlots'
<1>1. \A b \in Readers : On(b) \in Slots \cup {NoSlot}
  BY OnSlots
<1>2. \A d \in Slots : d # On(a) => call'[d] = call[d]
  BY OnSlots
<1> QED BY <1>1, <1>2 DEF OwnSlots, Readers

\* ... or waits on while its slot is served.
LEMMA KeepsSlot ==
    ASSUME Typed, OwnSlots, \A b \in Readers : On(b)' = On(b),
           \A b \in Readers : On(b) # NoSlot => call'[On(b)].at # "idle"
    PROVE  OwnSlots'
BY DEF OwnSlots, Readers

-----------------------------------------------------------------------------
(* Orders the step is not about.                                           *)

LEMMA KeptOrder ==
    ASSUME NEW x \in Orders, HeldIsPending(x), CallFits(x), checkout'[x] = checkout[x],
           (checkout[x].at \in {"reserve", "rollback"} /\ checkout[x].on # NoSlot)
              => call'[checkout[x].on] = call[checkout[x].on],
           \A p \in Products : row'[p].by = x => row[p].by = x
    PROVE  HeldIsPending(x)' /\ CallFits(x)'
<1>1. \A n : MayHold(x, n) => MayHold(x, n)'
  BY DEF MayHold, InService
<1>2. HeldIsPending(x)'
  BY <1>1 DEF HeldIsPending
<1>3. CallFits(x)'
  BY DEF CallFits, InService, ItemOf
<1> QED BY <1>2, <1>3

\* The other orders wait on other slots.
LEMMA OtherSlots ==
    ASSUME Typed, OwnSlots, NEW o \in Orders, NEW x \in Orders, x # o,
           checkout[o].on # NoSlot
    PROVE  checkout[x].on # checkout[o].on
<1>1. /\ <<"checkout", o>> \in Readers /\ <<"checkout", x>> \in Readers
      /\ <<"checkout", o>> # <<"checkout", x>>
      /\ On(<<"checkout", o>>) = checkout[o].on /\ On(<<"checkout", x>>) = checkout[x].on
  BY DEF Readers, On
<1> QED BY <1>1 DEF OwnSlots

LEMMA BusySlots ==
    ASSUME Typed, OwnSlots, NEW x \in Orders, checkout[x].on # NoSlot
    PROVE  /\ checkout[x].on \in Slots /\ call[checkout[x].on].at # "idle"
           /\ \A h \in Handlers : handler[h].on # checkout[x].on
<1>1. /\ <<"checkout", x>> \in Readers /\ On(<<"checkout", x>>) = checkout[x].on
  BY DEF Readers, On
<1>2. ASSUME NEW h \in Handlers PROVE handler[h].on # checkout[x].on
  <2>1. /\ <<"handler", h>> \in Readers /\ On(<<"handler", h>>) = handler[h].on
        /\ <<"handler", h>> # <<"checkout", x>>
    BY DEF Readers, On
  <2> QED BY <1>1, <2>1 DEF OwnSlots
<1> QED BY <1>1, <1>2, OnSlots DEF OwnSlots

\* Nothing is made out of a reservation's answer but what it says: the
\* reservations in service stay those their checkouts wait for.
LEMMA KeptAwaited ==
    ASSUME Typed, ReservesAwaited, NEW o \in Orders,
           \A x \in Orders \ {o} : checkout'[x] = checkout[x],
           checkout[o].at # "reserve" \/ checkout[o].on = NoSlot
              \/ ~ InService(checkout[o].on),
           \A c \in Slots : (InService(c)' /\ call'[c].req.kind = "reserve")
                               => InService(c) /\ call'[c].req = call[c].req
    PROVE  ReservesAwaited'
<1> SUFFICES ASSUME NEW c \in Slots, InService(c)', call'[c].req.kind = "reserve"
             PROVE  /\ checkout'[call'[c].req.o].at = "reserve"
                    /\ checkout'[call'[c].req.o].on = c
  BY DEF ReservesAwaited
<1>1. InService(c) /\ call'[c].req = call[c].req /\ call[c].req.kind = "reserve"
  OBVIOUS
<1>2. checkout[call[c].req.o].at = "reserve" /\ checkout[call[c].req.o].on = c
  BY <1>1 DEF ReservesAwaited
<1>3. call[c].req.o \in Orders
  BY <1>1 DEF Typed, CallsSent, IsSent
<1>4. call[c].req.o # o
  BY <1>1, <1>2, OrderFlowAssumption
<1> QED BY <1>1, <1>2, <1>3, <1>4

LEMMA PendingStep ==
    ASSUME Pending, NEW o \in Orders,
           \A x \in Orders \ {o} :
              /\ checkout'[x] = checkout[x]
              /\ (checkout[x].at \in {"reserve", "rollback"} /\ checkout[x].on # NoSlot)
                    => call'[checkout[x].on] = call[checkout[x].on],
           row' = row,
           HeldIsPending(o)', CallFits(o)', ReservesAwaited', OwnSlots'
    PROVE  Pending'
<1>1. ASSUME NEW x \in Orders \ {o} PROVE HeldIsPending(x)' /\ CallFits(x)'
  BY KeptOrder DEF Pending
<1> QED BY <1>1 DEF Pending

-----------------------------------------------------------------------------
(* The steps of a checkout.                                                *)

\* It goes on, with the answer it waited for or without one.
LEMMA GoesOn ==
    ASSUME Typed, Pending, NEW o \in Orders, NEW k,
           checkout' = [checkout EXCEPT ![o] = k], handler' = handler, row' = row,
           k.on \in {NoSlot, checkout[o].on}, k.on = NoSlot \/ call' = call,
           \/ call' = call
           \/ /\ checkout[o].on # NoSlot /\ call[checkout[o].on].at = "done"
              /\ call' = [call EXCEPT ![checkout[o].on] = PS!Idle],
           checkout[o].at # "reserve" \/ checkout[o].on = NoSlot
              \/ ~ InService(checkout[o].on),
           k.at \notin {"reserve", "rollback"} \/ k.on = NoSlot,
           \A n \in DOMAIN Items[o] : MayHold(o, n) => MayHold(o, n)'
    PROVE  Pending'
<1> DEFINE s == checkout[o].on
<1>0. checkout \in [Orders -> Checkout] /\ call \in [Slots -> PS!Call]
  BY OnSlots DEF Typed, CheckoutOK
<1>1. checkout'[o] = k /\ \A x \in Orders \ {o} : checkout'[x] = checkout[x]
  BY <1>0
<1>2. \A d \in Slots : d # s => call'[d] = call[d]
  BY <1>0
<1>3. \A x \in Orders \ {o} : checkout[x].on # NoSlot => call'[checkout[x].on] = call[checkout[x].on]
  <2> SUFFICES ASSUME NEW x \in Orders \ {o}, checkout[x].on # NoSlot
               PROVE  call'[checkout[x].on] = call[checkout[x].on]
    OBVIOUS
  <2>1. CASE s = NoSlot
    BY <2>1
  <2>2. CASE s # NoSlot
    <3>1. checkout[x].on # s /\ checkout[x].on \in Slots
      BY <2>2, OtherSlots, OnSlots DEF Pending
    <3> QED BY <1>2, <3>1
  <2> QED BY <2>1, <2>2
<1>4. HeldIsPending(o)'
  BY DEF Pending, HeldIsPending
<1>5. CallFits(o)'
  BY <1>1 DEF CallFits
<1>6. ReservesAwaited'
  <2>1. \A c \in Slots : InService(c)' => InService(c) /\ call'[c] = call[c]
    BY <1>0 DEF InService, PS!Idle
  <2> QED BY <1>1, <2>1, KeptAwaited DEF Pending
<1>7. OwnSlots'
  <2>1. LET a == <<"checkout", o>>
        IN  /\ a \in Readers /\ On(a) = s /\ On(a)' = k.on
            /\ \A b \in Readers : b # a => On(b)' = On(b)
    BY CheckoutReads
  <2>2. CASE k.on = NoSlot
    BY <2>1, <2>2, LeavesSlot DEF Pending
  <2>3. CASE k.on # NoSlot
    <3>1. call' = call /\ \A b \in Readers : On(b)' = On(b)
      BY <2>1, <2>3
    <3> QED BY <3>1, KeepsSlot DEF Pending, OwnSlots
  <2> QED BY <2>2, <2>3
<1> QED BY <1>1, <1>3, <1>4, <1>5, <1>6, <1>7, PendingStep

LEMMA CheckoutCallPending ==
    ASSUME Typed, Pending, NEW o \in Orders,
           NEW stage \in {"check", "reserve", "rollback"},
           NEW kind, kind = IF stage = "check" THEN "get"
                            ELSE IF stage = "reserve" THEN "reserve" ELSE "clear",
           stage = "reserve" => ItemOf(o).p \in checkout[o].scarce,
           CheckoutCall(o, stage, kind)
    PROVE  Pending'
<1> DEFINE k == checkout[o]
<1>0. checkout \in [Orders -> Checkout] /\ call \in [Slots -> PS!Call]
  BY OnSlots DEF Typed, CheckoutOK
<1>1. k \in Checkout /\ k.at = stage /\ k.on = NoSlot /\ kind \in Endpoints
  BY <1>0 DEF CheckoutCall, CheckoutIs, Endpoints
<1>2. k.i \in DOMAIN Items[o] /\ k.i \in Nat
  BY <1>1, ItemsAre DEF Typed, CheckoutOK, Standing, Checkout
<1>3. PICK c \in Slots : /\ Send(c, kind, ItemOf(o), o)
                         /\ checkout' = [checkout EXCEPT ![o] = [k EXCEPT !.on = c]]
  BY DEF CheckoutCall
<1>4. PICK r \in PS!Requests :
          /\ r.kind = kind /\ r.p = ItemOf(o).p /\ (kind # "get" => r.o = o)
          /\ call' = [call EXCEPT ![c] = [at |-> "received", req |-> r,
                                          seen |-> NoRow, code |-> "none"]]
          /\ call[c].at = "idle" /\ UNCHANGED <<row, deleted>>
  BY <1>1, <1>2, <1>3, SendStep DEF ItemOf
<1>5. /\ call'[c].at = "received" /\ call'[c].req = r
      /\ \A d : d # c => call'[d] = call[d]
  BY <1>0, <1>4
<1>6. /\ checkout'[o].at = stage /\ checkout'[o].i = k.i /\ checkout'[o].last = k.last
      /\ checkout'[o].scarce = k.scarce /\ checkout'[o].on = c
      /\ \A x \in Orders \ {o} : checkout'[x] = checkout[x]
  BY <1>0, <1>1, <1>3 DEF Checkout
<1>7. c # NoSlot
  BY OrderFlowAssumption
<1>8. ASSUME NEW n, MayHold(o, n) PROVE MayHold(o, n)'
  BY <1>1, <1>5, <1>6, <1>7, <1>8 DEF MayHold, InService
<1>9. HeldIsPending(o)'
  BY <1>4, <1>8 DEF Pending, HeldIsPending
<1>10. CallFits(o)'
  BY <1>1, <1>4, <1>5, <1>6, <1>7 DEF CallFits, ItemOf, InService
<1>11. ReservesAwaited'
  <2> SUFFICES ASSUME NEW d \in Slots, InService(d)', call'[d].req.kind = "reserve"
               PROVE  /\ checkout'[call'[d].req.o].at = "reserve"
                      /\ checkout'[call'[d].req.o].on = d
    BY DEF ReservesAwaited
  <2>1. CASE d = c
    BY <1>1, <1>4, <1>5, <1>6, <2>1
  <2>2. CASE d # c
    <3>1. call'[d] = call[d] /\ InService(d)
      BY <1>5, <2>2 DEF InService
    <3>2. checkout[call[d].req.o].at = "reserve" /\ checkout[call[d].req.o].on = d
      BY <3>1 DEF Pending, ReservesAwaited
    <3>3. call[d].req.o \in Orders /\ call[d].req.o # o
      BY <1>1, <3>1, <3>2, OrderFlowAssumption DEF Typed, CallsSent, IsSent
    <3> QED BY <1>6, <3>1, <3>2, <3>3
  <2> QED BY <2>1, <2>2
<1>12. OwnSlots'
  <2>0. handler' = handler
    BY DEF CheckoutCall, paymentVars
  <2>1. LET a == <<"checkout", o>>
        IN  /\ a \in Readers /\ On(a)' = [k EXCEPT !.on = c].on
            /\ \A b \in Readers : b # a => On(b)' = On(b)
    BY <1>3, <2>0, CheckoutReads
  <2>2. [k EXCEPT !.on = c].on = c
    BY <1>1 DEF Checkout
  <2> DEFINE m == [at |-> "received", req |-> r, seen |-> NoRow, code |-> "none"]
  <2>3. m.at # "idle" /\ call' = [call EXCEPT ![c] = m] /\ call[c].at = "idle"
    BY <1>4
  <2> HIDE DEF m
  <2> QED BY <2>1, <2>2, <2>3, TakesSlot DEF Pending
<1>13. \A x \in Orders \ {o} : checkout[x].on # NoSlot
                                    => call'[checkout[x].on] = call[checkout[x].on]
  BY <1>4, <1>5, BusySlots DEF Pending
<1> QED BY <1>4, <1>6, <1>9, <1>10, <1>11, <1>12, <1>13, PendingStep

LEMMA CheckoutPending ==
    ASSUME NothingLost, Typed, Pending, NEW o \in Orders, CheckoutStep(o) \/ LoseCheckout(o)
    PROVE  Pending'
<1> DEFINE k == checkout[o]
           s == k.on
           Held(m, n) == \/ m.at \in {"save", "publish", "mark", "done"}
                         \/ m.at = "reserve" /\ n < m.i
                         \/ m.at = "rollback" /\ n \in m.i .. m.last
<1>0. /\ checkout \in [Orders -> Checkout] /\ Standing(o, k) /\ k \in Checkout
      /\ s \in Slots \cup {NoSlot} /\ NoSlot \notin Slots
      /\ k.i \in Nat /\ k.last \in Nat
  BY OnSlots DEF Typed, CheckoutOK, Standing, Checkout
<1>1. ~ Faults /\ "reserve" \notin SlowCalls /\ "clear" \notin SlowCalls
  BY DEF NothingLost
\* A step after which no call is outstanding.
<1>2. ASSUME NEW m, checkout' = [checkout EXCEPT ![o] = m], m.on = NoSlot,
             UNCHANGED <<handler, row>>,
             call' = call \/ (Answered(s) /\ s # NoSlot),
             k.at # "reserve" \/ s = NoSlot \/ Answered(s),
             \A n \in DOMAIN Items[o] : MayHold(o, n) => Held(m, n)
      PROVE  Pending'
  <2>1. checkout'[o] = m
    BY <1>0, <1>2
  <2>2. \A n \in DOMAIN Items[o] : MayHold(o, n) => MayHold(o, n)'
    BY <1>2, <2>1 DEF MayHold
  <2>3. k.at # "reserve" \/ s = NoSlot \/ ~ InService(s)
    BY <1>2 DEF Answered, PS!Reply, InService
  <2>4. \/ call' = call
        \/ s # NoSlot /\ call[s].at = "done" /\ call' = [call EXCEPT ![s] = PS!Idle]
    BY <1>2 DEF Answered, PS!Reply
  <2> HIDE DEF s
  <2>5. k.on = s
    BY DEF s
  <2> HIDE DEF k, Held
  <2> QED BY <1>2, <2>2, <2>3, <2>4, <2>5, GoesOn DEF k
<1>3. CASE StartCheckout(o)
  <2>1. /\ checkout' = [checkout EXCEPT ![o] = Enter(o, "check")]
        /\ Enter(o, "check").on = NoSlot /\ k.at = "new"
        /\ UNCHANGED <<handler, row, call>>
    BY <1>0, <1>3, EnterIs DEF StartCheckout, CheckoutIs, Stages, productVars, paymentVars
  <2>2. \A n : ~ MayHold(o, n)
    BY <2>1 DEF MayHold
  <2> QED BY <1>2, <2>1, <2>2
<1>4. CASE CheckInventory(o) \/ ReserveItem(o) \/ RollBackItem(o)
  BY <1>4, CheckoutCallPending DEF CheckInventory, ReserveItem, RollBackItem
<1>5. CASE InventoryChecked(o)
  <2>1. /\ k.at = "check" /\ s # NoSlot /\ UNCHANGED <<handler, row>>
        /\ Answered(s) \/ call' = call
    BY <1>5 DEF InventoryChecked, CheckoutIs, GaveUp, paymentVars, Answered, PS!Reply
  <2>2. \A n : ~ MayHold(o, n)
    BY <2>1 DEF MayHold
  <2>3. PICK m : m.on = NoSlot /\ checkout' = [checkout EXCEPT ![o] = m]
    <3>1. /\ Enter(o, "rejected").on = NoSlot
          /\ Onward(o, "reserve").on = NoSlot /\ Onward(o, "reserve") \in Checkout
      BY <1>0, <2>1, EnterIs, OnwardIs DEF Stages
    <3>2. \A S : [Onward(o, "reserve") EXCEPT !.scarce = S].on = NoSlot
      BY <3>1 DEF Checkout
    <3>3. \/ checkout' = [checkout EXCEPT ![o] = Enter(o, "rejected")]
          \/ \E S : checkout' = [checkout EXCEPT ![o] =
                                    [Onward(o, "reserve") EXCEPT !.scarce = S]]
      BY <1>5 DEF InventoryChecked
    <3> QED BY <3>1, <3>2, <3>3
  <2> QED BY <1>2, <2>1, <2>2, <2>3
<1>6. CASE SkipItem(o)
  <2> DEFINE m == Onward(o, "save")
  <2>1. /\ k.at = "reserve" /\ checkout' = [checkout EXCEPT ![o] = m]
        /\ UNCHANGED <<handler, row, call>> /\ ItemOf(o).p \notin k.scarce
    BY <1>6 DEF SkipItem, CheckoutIs, productVars, paymentVars
  <2>2. s = NoSlot
    BY <2>1 DEF Pending, CallFits
  <2>3. m.on = NoSlot /\ (m.at = "save" \/ (m.at = "reserve" /\ m.i = k.i + 1))
    BY <1>0, <2>1, OnwardIs DEF Stages
  <2>4. ASSUME NEW n \in DOMAIN Items[o], MayHold(o, n) PROVE Held(m, n)
    <3>1. n < k.i
      BY <2>1, <2>2, <2>4 DEF MayHold
    <3>2. n \in Nat
      BY ItemsAre
    <3> HIDE DEF k, m
    <3> QED BY <1>0, <2>3, <3>1, <3>2
  <2> QED BY <1>2, <2>1, <2>2, <2>3, <2>4
<1>7. CASE ItemReserved(o)
  <2>1. k.at = "reserve" /\ s # NoSlot /\ Answered(s) /\ UNCHANGED <<handler, row>>
    BY <1>1, <1>7 DEF ItemReserved, CheckoutIs, GaveUp, paymentVars, Answered, PS!Reply
  <2>2. call[s].at = "done"
    BY <2>1 DEF Answered, PS!Reply
  <2>3. CASE call[s].code = "ok"
    <3> DEFINE m == Onward(o, "save")
    <3>1. checkout' = [checkout EXCEPT ![o] = m]
      BY <1>1, <1>7, <2>3 DEF ItemReserved, GaveUp
    <3>2. m.on = NoSlot /\ (m.at = "save" \/ (m.at = "reserve" /\ m.i = k.i + 1))
      BY <1>0, <2>1, OnwardIs DEF Stages
    <3>3. ASSUME NEW n \in DOMAIN Items[o], MayHold(o, n) PROVE Held(m, n)
      <4>1. n < k.i \/ n = k.i
        BY <2>1, <3>3 DEF MayHold
      <4>2. n \in Nat
        BY ItemsAre
      <4> HIDE DEF k, m
      <4> QED BY <1>0, <3>2, <4>1, <4>2
    <3> QED BY <1>2, <2>1, <3>1, <3>2, <3>3
  <2>4. CASE call[s].code # "ok"
    <3> DEFINE m == RollBackFrom(o)
    <3>1. checkout' = [checkout EXCEPT ![o] = m]
      BY <1>1, <1>7, <2>4 DEF ItemReserved, GaveUp
    <3>2. /\ m.on = NoSlot
          /\ k.i # 1 => m.at = "rollback" /\ m.i = 1 /\ m.last = k.i - 1
      <4>1. /\ Enter(o, "rejected").on = NoSlot
            /\ Enter(o, "rollback") \in Checkout /\ Enter(o, "rollback").on = NoSlot
            /\ Enter(o, "rollback").at = "rollback" /\ Enter(o, "rollback").i = 1
        BY <1>0, EnterIs DEF Stages
      <4> QED BY <4>1 DEF RollBackFrom, Checkout
    <3>3. ASSUME NEW n \in DOMAIN Items[o], MayHold(o, n) PROVE Held(m, n)
      <4>1. n < k.i
        BY <2>1, <2>4, <3>3 DEF MayHold
      <4>2. n \in Nat \ {0}
        BY ItemsAre
      <4>3. k.i # 1 /\ n \in 1 .. k.i - 1
        BY <1>0, <4>1, <4>2
      <4> HIDE DEF k, m
      <4> QED BY <3>2, <4>3
    <3> QED BY <1>2, <2>1, <3>1, <3>2, <3>3
  <2> QED BY <2>3, <2>4
<1>8. CASE ItemRolledBack(o)
  <2> DEFINE m == Onward(o, "rejected")
  <2>1. /\ k.at = "rollback" /\ s # NoSlot /\ Answered(s) /\ UNCHANGED <<handler, row>>
        /\ checkout' = [checkout EXCEPT ![o] = m]
    BY <1>1, <1>8 DEF ItemRolledBack, CheckoutIs, GaveUp, paymentVars, Answered, PS!Reply
  <2>2. call[s].at = "done"
    BY <2>1 DEF Answered, PS!Reply
  <2>3. /\ m.on = NoSlot /\ m.last = k.last
        /\ k.i # k.last => m.at = "rollback" /\ m.i = k.i + 1
    <3>1. m.on = NoSlot /\ m.last = k.last
      BY <1>0, <2>1, OnwardIs DEF Stages
    <3>2. k.i # k.last => m.at = "rollback" /\ m.i = k.i + 1
      BY <1>0, <2>1 DEF Onward, Checkout
    <3> QED BY <3>1, <3>2
  <2>4. ASSUME NEW n \in DOMAIN Items[o], MayHold(o, n) PROVE Held(m, n)
    <3>1. n \in k.i .. k.last /\ n # k.i
      BY <2>1, <2>2, <2>4 DEF MayHold, InService
    <3> HIDE DEF k, m
    <3> QED BY <1>0, <2>3, <3>1
  <2> QED BY <1>2, <2>1, <2>3, <2>4
<1>9. CASE SaveOrder(o) \/ PublishRequest(o) \/ MarkUnpublished(o)
  <2>1. /\ k.at \notin {"reserve", "rollback"} /\ UNCHANGED <<handler, row, call>>
        /\ \E stage \in {"publish", "done"} : checkout' = [checkout EXCEPT ![o].at = stage]
    BY <1>1, <1>9 DEF SaveOrder, PublishRequest, MarkUnpublished, CheckoutIs,
                      productVars, paymentVars
  <2>2. PICK stage \in {"publish", "done"} :
            checkout' = [checkout EXCEPT ![o] = [k EXCEPT !.at = stage]]
    BY <2>1
  <2>3. [k EXCEPT !.at = stage].at = stage /\ [k EXCEPT !.at = stage].on = s
    BY <1>0 DEF Checkout
  <2>4. checkout'[o].at = stage
    BY <1>0, <2>2, <2>3
  <2>5. \A n : MayHold(o, n)'
    BY <2>4 DEF MayHold
  <2> QED BY <2>1, <2>2, <2>3, <2>5, GoesOn
<1>10. ~ LoseCheckout(o)
  BY <1>1 DEF LoseCheckout
<1> QED BY <1>3, <1>4, <1>5, <1>6, <1>7, <1>8, <1>9, <1>10 DEF CheckoutStep

-----------------------------------------------------------------------------
(* The steps of a handler of payment results, and those nobody waits for.  *)

\* No checkout moves, nothing new is reserved or held, and the calls the
\* checkouts wait for are left alone.
LEMMA ElsewherePending ==
    ASSUME Pending, checkout' = checkout, OwnSlots',
           \A p \in Products : row'[p].by \in {row[p].by, NoOrder},
           \A x \in Orders : checkout[x].on # NoSlot
                                => call'[checkout[x].on] = call[checkout[x].on],
           \A c \in Slots : (InService(c)' /\ call'[c].req.kind = "reserve")
                               => InService(c) /\ call'[c] = call[c]
    PROVE  Pending'
<1>1. ASSUME NEW x \in Orders PROVE HeldIsPending(x)' /\ CallFits(x)'
  <2>1. x # NoOrder
    BY CallsAssumption DEF PS!NoOrderAssumption
  <2>2. \A p \in Products : row'[p].by = x => row[p].by = x
    BY <2>1
  <2> QED BY <2>2, KeptOrder DEF Pending
<1>2. ReservesAwaited'
  BY DEF Pending, ReservesAwaited
<1> QED BY <1>1, <1>2 DEF Pending

LEMMA HandlerPending ==
    ASSUME NothingLost, Typed, Pending, NEW h \in Handlers, HandlerStep(h) \/ StopHandler(h)
    PROVE  Pending'
<1> DEFINE k == handler[h]
           s == k.on
<1>0. /\ k \in Handler /\ s \in Slots \cup {NoSlot} /\ NoSlot \notin Slots
      /\ call \in [Slots -> PS!Call] /\ handler \in [Handlers -> Handler]
  BY OnSlots DEF Typed, HandlerOK
<1>1. checkout' = checkout
  BY HandlerCalls
<1>2. ASSUME row' = row, OwnSlots',
             \A x \in Orders : checkout[x].on # NoSlot
                                  => call'[checkout[x].on] = call[checkout[x].on],
             \A c \in Slots : (InService(c)' /\ call'[c].req.kind = "reserve")
                                 => InService(c) /\ call'[c] = call[c]
      PROVE  Pending'
  BY <1>1, <1>2, ElsewherePending
\* It goes on and waits for nothing.
<1>3. ASSUME NEW m, handler' = [handler EXCEPT ![h] = m], m.on = NoSlot, row' = row,
             call' = call \/ (Answered(s) /\ s # NoSlot)
      PROVE  Pending'
  <2>1. LET a == <<"handler", h>>
        IN  /\ a \in Readers /\ On(a) = s /\ On(a)' = NoSlot
            /\ \A b \in Readers : b # a => On(b)' = On(b)
    BY <1>1, <1>3, HandlerReads
  <2>2. call' = call \/ call' = [call EXCEPT ![s] = PS!Idle]
    BY <1>3 DEF Answered, PS!Reply
  <2>3. OwnSlots'
    BY <2>1, <2>2, LeavesSlot DEF Pending
  <2>4. \A c \in Slots : c # s => call'[c] = call[c]
    BY <1>0, <2>2
  <2>5. \A x \in Orders : checkout[x].on # NoSlot
                              => call'[checkout[x].on] = call[checkout[x].on]
    BY <2>4, BusySlots DEF Pending
  <2>6. \A c \in Slots : InService(c)' => InService(c) /\ call'[c] = call[c]
    BY <1>0, <2>2 DEF InService, PS!Idle
  <2> QED BY <1>2, <1>3, <2>3, <2>5, <2>6
<1>4. ASSUME NEW stage \in {"commit", "clear"}, HandlerCall(h, stage, stage)
      PROVE  Pending'
  <2>1. OrderOf(h) \in Orders /\ k.i \in DOMAIN Items[OrderOf(h)] /\ stage \in Endpoints
    BY <1>4 DEF HandlerCall, HandlerIs, Typed, HandlerOK, Handling, ResultsOK, Results,
                OrderOf, Endpoints
  <2>2. PICK c \in Slots : /\ Send(c, stage, HandledItem(h), OrderOf(h))
                           /\ handler' = [handler EXCEPT ![h] = [k EXCEPT !.on = c]]
    BY <1>4 DEF HandlerCall
  <2>3. PICK r \in PS!Requests :
            /\ r.kind = stage
            /\ call' = [call EXCEPT ![c] = [at |-> "received", req |-> r,
                                            seen |-> NoRow, code |-> "none"]]
            /\ call[c].at = "idle" /\ UNCHANGED <<row, deleted>>
    BY <2>1, <2>2, SendStep DEF HandledItem
  <2> DEFINE m == [at |-> "received", req |-> r, seen |-> NoRow, code |-> "none"]
  <2>4. /\ m.at # "idle" /\ m.req.kind # "reserve"
        /\ call' = [call EXCEPT ![c] = m] /\ call[c].at = "idle"
    BY <2>3
  <2> HIDE DEF m
  <2>5. call'[c] = m /\ \A d \in Slots : d # c => call'[d] = call[d]
    BY <1>0, <2>4
  <2>6. [k EXCEPT !.on = c].on = c
    BY <1>0 DEF Handler
  <2>7. LET a == <<"handler", h>>
        IN  /\ a \in Readers /\ On(a)' = c
            /\ \A b \in Readers : b # a => On(b)' = On(b)
    BY <1>1, <2>2, <2>6, HandlerReads
  <2>8. OwnSlots'
    BY <2>4, <2>7, TakesSlot DEF Pending
  <2>9. \A x \in Orders : checkout[x].on # NoSlot
                              => call'[checkout[x].on] = call[checkout[x].on]
    BY <2>4, <2>5, BusySlots DEF Pending
  <2>10. \A d \in Slots : (InService(d)' /\ call'[d].req.kind = "reserve")
                              => InService(d) /\ call'[d] = call[d]
    BY <2>4, <2>5 DEF InService
  <2> QED BY <1>2, <2>3, <2>8, <2>9, <2>10
<1>5. CASE FetchOrder(h) \/ ConfirmOrder(h) \/ FailOrder(h)
  <2>1. row' = row /\ call' = call
    BY <1>5 DEF FetchOrder, ConfirmOrder, FailOrder, productVars
  <2>2. \/ handler' = [handler EXCEPT ![h] = Resting]
        \/ HandlerTo(h, "confirm") \/ HandlerTo(h, "uncart") \/ HandlerTo(h, "clear")
    BY <1>5, Zenon DEF FetchOrder, ConfirmOrder, FailOrder
  <2>3. ASSUME NEW stage, HandlerTo(h, stage) PROVE Pending'
    <3> DEFINE m == [k EXCEPT !.at = stage, !.i = 1, !.on = NoSlot]
    <3>1. m.on = NoSlot
      BY <1>0 DEF Handler
    <3>2. handler' = [handler EXCEPT ![h] = m]
      BY <1>0, <2>3 DEF HandlerTo
    <3> HIDE DEF m
    <3> QED BY <1>3, <2>1, <3>1, <3>2
  <2>4. CASE handler' = [handler EXCEPT ![h] = Resting]
    <3>1. Resting.on = NoSlot
      BY DEF Resting
    <3> QED BY <1>3, <2>1, <2>4, <3>1
  <2> QED BY <2>2, <2>3, <2>4
<1>6. CASE RemoveFromCart(h)
  <2>1. row' = row /\ call' = call /\ handler' = [handler EXCEPT ![h] = [k EXCEPT !.at = "commit"]]
    BY <1>6 DEF RemoveFromCart, productVars
  <2>2. [k EXCEPT !.at = "commit"].on = s
    BY <1>0 DEF Handler
  <2>3. \A b \in Readers : On(b)' = On(b)
    BY <1>1, <2>1, <2>2, HandlerReads
  <2>4. OwnSlots'
    BY <2>1, <2>3, KeepsSlot DEF Pending, OwnSlots
  <2> QED BY <1>2, <2>1, <2>4 DEF InService
<1>7. CASE CommitItem(h) \/ ClearItem(h)
  BY <1>4, <1>7 DEF CommitItem, ClearItem
<1>8. CASE ItemCommitted(h) \/ ItemCleared(h)
  <2>1. /\ row' = row /\ s # NoSlot
        /\ Answered(s) \/ call' = call
    BY <1>8 DEF ItemCommitted, ItemCleared, HandlerAnswered, GaveUp, Answered, PS!Reply
  <2> DEFINE Item(stage) == [k EXCEPT !.at = stage, !.i = @ + 1, !.on = NoSlot]
             Last == [k EXCEPT !.at = "fail", !.on = NoSlot]
  <2>2. /\ Resting.on = NoSlot /\ Last.on = NoSlot
        /\ Item("uncart").on = NoSlot /\ Item("clear").on = NoSlot
    BY <1>0 DEF Handler, Resting
  <2>3. \E m \in {Resting, Last, Item("uncart"), Item("clear")} :
            handler' = [handler EXCEPT ![h] = m]
    <3>1. CASE k.i < Len(Items[OrderOf(h)])
      BY <1>8, <3>1 DEF ItemCommitted, ItemCleared, HandlerAnswered
    <3>2. CASE ~ (k.i < Len(Items[OrderOf(h)]))
      BY <1>8, <3>2 DEF ItemCommitted, ItemCleared, HandlerAnswered
    <3> QED BY <3>1, <3>2
  <2> HIDE DEF Item, Last
  <2> QED BY <1>3, <2>1, <2>2, <2>3
<1>9. ~ StopHandler(h)
  BY DEF NothingLost, StopHandler
<1> QED BY <1>5, <1>6, <1>7, <1>8, <1>9 DEF HandlerStep

LEMMA RestPending ==
    ASSUME Typed, Pending,
           \/ \E e \in Results : PaymentResult(e) \/ \E h \in Handlers : Deliver(h, e)
           \/ \E c \in Slots : Discard(c)
           \/ \E p \in Products : Lapse(p)
           \/ Expire
           \/ UNCHANGED vars
    PROVE  Pending'
<1>0. /\ call \in [Slots -> PS!Call] /\ row \in [Products -> PS!Row \cup {NoRow}]
      /\ \A p \in Products : row[p] \in PS!Row
  BY OnSlots, ServiceIsOK DEF Typed, ServiceOK, PS!TypeOK, RowsThere
<1>1. ASSUME call' = call, checkout' = checkout, handler' = handler,
             \A p \in Products : row'[p].by \in {row[p].by, NoOrder}
      PROVE  Pending'
  <2>1. \A b \in Readers : On(b)' = On(b)
    BY <1>1 DEF On
  <2>2. OwnSlots'
    BY <1>1, <2>1, KeepsSlot DEF Pending, OwnSlots
  <2> QED BY <1>1, <2>2, ElsewherePending DEF InService
<1>2. CASE (\E e \in Results : PaymentResult(e)) \/ UNCHANGED vars
  BY <1>1, <1>2 DEF PaymentResult, vars, productVars, checkoutVars, paymentVars
<1>3. ASSUME NEW e \in Results, NEW h \in Handlers, Deliver(h, e) PROVE Pending'
  <2> DEFINE m == [at |-> "fetch", ev |-> e, i |-> 1, on |-> NoSlot]
  <2>1. /\ UNCHANGED <<row, call, checkout>> /\ m.on = NoSlot
        /\ handler' = [handler EXCEPT ![h] = m]
    BY <1>3 DEF Deliver, productVars, checkoutVars
  <2> HIDE DEF m
  <2>2. OwnSlots'
    BY <2>1, HandlerReads, LeavesSlot DEF Pending
  <2> QED BY <2>1, <2>2, ElsewherePending DEF InService
<1>4. ASSUME NEW c \in Slots, Discard(c) PROVE Pending'
  <2>1. /\ c \notin Waiting /\ UNCHANGED <<row, checkout, handler>>
        /\ call' = [call EXCEPT ![c] = PS!Idle]
    BY <1>4 DEF Discard, PS!Reply, checkoutVars, paymentVars
  <2>2. \A d \in Slots : d # c => call'[d] = call[d]
    BY <1>0, <2>1
  <2>3. \A b \in Readers : On(b)' = On(b) /\ On(b) # c
    BY <2>1 DEF On, Waiting, Readers
  <2>4. OwnSlots'
    BY <2>2, <2>3, OnSlots, KeepsSlot DEF Pending, OwnSlots
  <2>5. \A x \in Orders : checkout[x].on # NoSlot
                              => call'[checkout[x].on] = call[checkout[x].on]
    BY <2>1, <2>2, OnSlots DEF Waiting
  <2>6. \A d \in Slots : InService(d)' => InService(d) /\ call'[d] = call[d]
    BY <1>0, <2>1 DEF InService, PS!Idle
  <2> QED BY <2>1, <2>4, <2>5, <2>6, ElsewherePending
<1>5. ASSUME NEW p \in Products, Lapse(p) PROVE Pending'
  <2>1. /\ row' = [row EXCEPT ![p] = [row[p] EXCEPT !.lease = "lapsed"]]
        /\ UNCHANGED <<call, checkout, handler>>
    BY <1>5 DEF Lapse, PS!Lapse, checkoutVars, paymentVars
  <2>2. [row[p] EXCEPT !.lease = "lapsed"].by = row[p].by
    BY <1>0 DEF PS!Row
  <2> QED BY <1>0, <1>1, <2>1, <2>2
<1>6. CASE Expire
  <2>1. /\ row' = [p \in Products |-> IF row[p] = NoRow THEN NoRow ELSE PS!Sweep(row[p])]
        /\ UNCHANGED <<call, checkout, handler>>
    BY <1>6 DEF Expire, PS!ExpireReservations, checkoutVars, paymentVars
  <2>2. \A p \in Products : PS!Sweep(row[p]).by \in {row[p].by, NoOrder}
    BY <1>0, RowOps, QuantitiesArePositive
  <2>3. \A p \in Products : row'[p].by \in {row[p].by, NoOrder}
    BY <2>1, <2>2
  <2> QED BY <1>1, <2>1, <2>3
<1> QED BY <1>2, <1>3, <1>4, <1>5, <1>6

-----------------------------------------------------------------------------
(* Serving a call.                                                         *)

\* What is reserved is answered with "ok".
LEMMA ServeReserves ==
    ASSUME Typed, NEW c \in Slots, PS!Serve(c), NEW p \in Products, NEW x \in Orders,
           row'[p].by = x, row[p].by # x
    PROVE  /\ InService(c)
           /\ call[c].req.kind = "reserve" /\ call[c].req.p = p /\ call[c].req.o = x
           /\ call'[c].at = "done" /\ call'[c].code = "ok"
<1> DEFINE q == call[c].req
<1>1. InService(c) /\ Writes(c)
  BY ServeStep DEF Typed
<1>2. /\ q.p \in Products /\ q.q \in Nat /\ q.o \in Orders \cup {NoOrder}
      /\ q.kind = "reserve" => q.o \in Orders
  BY <1>1 DEF Typed, CallsSent, IsSent, PS!Request
<1>3. /\ call \in [Slots -> PS!Call] /\ row \in [Products -> PS!Row \cup {NoRow}]
      /\ row[q.p] \in PS!Row /\ x # NoOrder
  BY <1>2, OnSlots, ServiceIsOK, CallsAssumption
     DEF Typed, ServiceOK, PS!TypeOK, RowsThere, PS!NoOrderAssumption
<1>4. /\ PS!Clear(row[q.p]).by = NoOrder
      /\ q.o # NoOrder => PS!Take(row[q.p], q.o).by = q.o
      /\ row[q.p].stock >= q.q => PS!Sell(row[q.p], q.q).by = NoOrder
  BY <1>2, <1>3, RowOps
<1>5. q.kind = "reserve" /\ row' = [row EXCEPT ![q.p] = PS!Take(@, q.o)]
  <2>1. ASSUME NEW r, r.by = NoOrder, row' = [row EXCEPT ![q.p] = r] PROVE FALSE
    BY <1>3, <2>1
  <2> HIDE DEF q
  <2> QED BY <1>1, <1>3, <1>4, <2>1 DEF Writes, q
<1>6. q.p = p /\ q.o = x
  <2>1. q.o # NoOrder
    BY <1>2, <1>5, CallsAssumption DEF PS!NoOrderAssumption
  <2> DEFINE r == PS!Take(row[q.p], q.o)
  <2>2. r.by = q.o /\ row' = [row EXCEPT ![q.p] = r]
    BY <1>4, <1>5, <2>1
  <2> HIDE DEF r, q
  <2> QED BY <1>3, <2>2
<1>7. PS!Reserve(c)
  <2>1. row' # row
    OBVIOUS
  <2> QED
    BY <1>5, <2>1
       DEF PS!Serve, PS!GetProduct, PS!FindByPk, PS!NotFound, PS!SkipReservation,
           PS!AdjustStock, PS!KeepReservation, PS!ClearReservation, PS!CommitSale, PS!PutStock,
           PS!Reactivate, PS!DeleteProduct, PS!PublishDeleted, PS!Fail, PS!Found, PS!At
<1>8. PS!Answer(c, "ok", NoRow)
  <2>1. row' # row
    OBVIOUS
  <2> QED BY <1>7, <2>1 DEF PS!Reserve
<1> QED BY <1>1, <1>3, <1>5, <1>6, <1>8 DEF PS!Answer

\* A clear is answered only once the row no longer names its order, if
\* nothing fails: a row that was read with the order on it is cleared.
LEMMA ServeClears ==
    ASSUME Faults = FALSE, Typed, NEW c \in Slots, Serve(c), NEW p \in Products, NEW x \in Orders,
           InService(c), call[c].req.kind = "clear", call[c].req.p = p, call[c].req.o = x,
           row[p].by = x, row'[p].by = x,
           call[c].at = "read" => call[c].seen # NoRow /\ PS!MayClear(call[c].seen, x)
    PROVE  call'[c].at = "read" /\ call'[c].seen # NoRow /\ PS!MayClear(call'[c].seen, x)
<1>0. /\ call \in [Slots -> PS!Call] /\ row \in [Products -> PS!Row \cup {NoRow}]
      /\ row[p] \in PS!Row /\ NoRow \notin PS!Row /\ x # NoOrder
  BY OnSlots, ServiceIsOK, CallsAssumption
     DEF Typed, ServiceOK, PS!TypeOK, RowsThere, PS!NoOrderAssumption, PS!ProductServiceAssumption
<1>1. ~ PS!Fail(c)
  <2>1. ASSUME PS!Fail(c) PROVE call'[c].code = "error"
    BY <1>0, <2>1 DEF PS!Fail, PS!Answer
  <2> QED BY <2>1 DEF Serve
<1>2. CASE PS!FindByPk(c)
  <2>1. call'[c].at = "read" /\ call'[c].seen = row[p]
    BY <1>0, <1>2 DEF PS!FindByPk, PS!Await
  <2> QED BY <1>0, <2>1 DEF PS!MayClear
<1>3. ~ PS!ClearReservation(c)
  <2>1. ASSUME PS!ClearReservation(c) PROVE row'[p] = PS!Clear(row[p])
    BY <1>0, <2>1 DEF PS!ClearReservation
  <2>2. PS!Clear(row[p]).by = NoOrder
    BY <1>0, RowOps, QuantitiesArePositive
  <2> QED BY <1>0, <2>1, <2>2
<1>4. ~ (PS!NotFound(c) \/ PS!KeepReservation(c))
  BY DEF PS!NotFound, PS!KeepReservation, PS!Found, PS!At
<1>5. PS!Serve(c)
  BY DEF Serve
<1>6. PS!FindByPk(c)
  BY <1>1, <1>3, <1>4, <1>5
     DEF PS!Serve, PS!GetProduct, PS!SkipReservation, PS!Reserve, PS!AdjustStock,
         PS!CommitSale, PS!PutStock, PS!Reactivate, PS!DeleteProduct, PS!PublishDeleted,
         PS!Found, PS!At
<1> QED BY <1>2, <1>6

LEMMA ServePending ==
    ASSUME NothingLost, Typed, Pending, NEW c \in Slots, Serve(c)
    PROVE  Pending'
<1>0. /\ UNCHANGED <<checkout, handler>> /\ PS!Serve(c) /\ InService(c) /\ Faults = FALSE
      /\ call \in [Slots -> PS!Call] /\ NoSlot \notin Slots
  <2>1. PS!Serve(c) /\ UNCHANGED <<checkout, handler>> /\ Faults = FALSE
    BY DEF Serve, checkoutVars, paymentVars, NothingLost
  <2> QED BY <2>1, ServeStep, OnSlots DEF Typed
<1>1. PICK k : Moves(c, k)
  BY <1>0, ServeStep DEF Typed
<1>2. /\ call'[c] = k /\ k.at \in {"done", "read"}
      /\ k.at = "read" => k.req = call[c].req
      /\ \A d \in Slots : d # c => call'[d] = call[d]
  BY <1>0, <1>1 DEF Moves
<1>3. ASSUME NEW x \in Orders PROVE HeldIsPending(x)'
  <2> SUFFICES ASSUME NEW p \in Products, row'[p].by = x
               PROVE  \E n \in DOMAIN Items[x] : Items[x][n].p = p /\ MayHold(x, n)'
    BY DEF HeldIsPending
  <2> DEFINE m == checkout[x]
  <2>0. /\ m \in Checkout /\ Standing(x, m) /\ m.on \in Slots \cup {NoSlot}
        /\ checkout'[x] = m
    BY <1>0, OnSlots DEF Typed, CheckoutOK
  <2>1. CASE row[p].by # x
    <3>1. /\ call[c].req.kind = "reserve" /\ call[c].req.p = p /\ call[c].req.o = x
          /\ call'[c].at = "done" /\ call'[c].code = "ok"
      BY <1>0, <2>1, ServeReserves
    <3>2. m.at = "reserve" /\ m.on = c /\ c # NoSlot
      BY <1>0, <3>1 DEF Pending, ReservesAwaited
    <3>3. p = Items[x][m.i].p
      BY <1>0, <3>1, <3>2 DEF Pending, CallFits, ItemOf
    <3>4. PICK n \in DOMAIN Items[x] : n = m.i
      BY <2>0, <3>2, ItemsAre DEF Standing, Checkout
    <3>5. MayHold(x, n)'
      BY <2>0, <3>1, <3>2, <3>4 DEF MayHold
    <3> QED BY <3>3, <3>4, <3>5
  <2>2. CASE row[p].by = x
    <3>1. PICK n \in DOMAIN Items[x] : Items[x][n].p = p /\ MayHold(x, n)
      BY <2>2 DEF Pending, HeldIsPending
    <3>2. CASE m.on # c
      <4>1. m.on # NoSlot => call'[m.on] = call[m.on]
        BY <1>2, <2>0, <3>2
      <4>2. MayHold(x, n)'
        BY <2>0, <3>1, <4>1 DEF MayHold, InService
      <4> QED BY <3>1, <4>2
    <3>3. CASE m.on = c /\ ~ (m.at = "rollback" /\ n = m.i)
      <4>1. call[c].at # "done"
        BY <1>0 DEF InService
      <4>2. MayHold(x, n)'
        BY <2>0, <3>1, <3>3, <4>1 DEF MayHold
      <4> QED BY <3>1, <4>2
    <3>4. CASE m.on = c /\ m.at = "rollback" /\ n = m.i
      <4>1. /\ call[c].req.kind = "clear" /\ call[c].req.o = x
            /\ call[c].req.p = Items[x][n].p
        BY <1>0, <3>4 DEF Pending, CallFits, ItemOf
      <4>2. /\ call[c].at = "read" => call[c].seen # NoRow /\ PS!MayClear(call[c].seen, x)
            /\ n \in m.i .. m.last
        BY <1>0, <3>1, <3>4 DEF MayHold
      <4>3. call'[c].at = "read" /\ call'[c].seen # NoRow /\ PS!MayClear(call'[c].seen, x)
        BY <1>0, <2>2, <3>1, <4>1, <4>2, ServeClears
      <4>4. MayHold(x, n)'
        BY <2>0, <3>4, <4>2, <4>3 DEF MayHold, InService, PS!MayClear
      <4> QED BY <3>1, <4>4
    <3> QED BY <3>2, <3>3, <3>4
  <2> QED BY <2>1, <2>2
<1>4. ASSUME NEW x \in Orders PROVE CallFits(x)'
  <2>1. CallFits(x) /\ checkout'[x] = checkout[x]
    BY <1>0 DEF Pending
  <2>2. checkout[x].on \in Slots \cup {NoSlot}
    BY OnSlots
  <2>3. CASE checkout[x].on = c
    BY <1>0, <1>2, <2>1, <2>3 DEF CallFits, ItemOf, InService
  <2>4. CASE checkout[x].on # c
    BY <1>0, <1>2, <2>1, <2>2, <2>4 DEF CallFits, ItemOf, InService
  <2> QED BY <2>3, <2>4
<1>5. ReservesAwaited'
  <2>1. \A d \in Slots : InService(d)' => InService(d) /\ call'[d].req = call[d].req
    BY <1>0, <1>2 DEF InService
  <2> QED BY <1>0, <2>1 DEF Pending, ReservesAwaited
<1>6. OwnSlots'
  <2>1. \A b \in Readers : On(b)' = On(b)
    BY <1>0 DEF On
  <2>2. \A d \in Slots : call[d].at # "idle" => call'[d].at # "idle"
    BY <1>2
  <2> QED BY <2>1, <2>2, OnSlots, KeepsSlot DEF Pending, OwnSlots
<1> QED BY <1>3, <1>4, <1>5, <1>6 DEF Pending

-----------------------------------------------------------------------------
LEMMA InitPending == Init => Pending
<1> SUFFICES ASSUME Init PROVE Pending
  OBVIOUS
<1>1. \A p \in Products : row[p].by = NoOrder
  BY DEF Init, PS!FreshRow
<1>2. \A o \in Orders : o # NoOrder
  BY CallsAssumption DEF PS!NoOrderAssumption
<1>3. /\ \A o \in Orders : checkout[o].at = "new" /\ checkout[o].on = NoSlot
      /\ \A h \in Handlers : handler[h].on = NoSlot
      /\ \A c \in Slots : call[c].at = "idle"
  BY DEF Init, Resting, PS!Idle
<1>4. OwnSlots
  BY <1>3 DEF OwnSlots, On, Readers
<1> QED BY <1>1, <1>2, <1>3, <1>4
        DEF Pending, HeldIsPending, CallFits, ReservesAwaited, InService

LEMMA NextPending == ASSUME NothingLost PROVE Typed /\ Pending /\ [Next]_vars => Pending'
BY CheckoutPending, HandlerPending, ServePending, RestPending DEF Next

\* When nothing fails and no answer to a reservation or a clear comes too
\* late, a checkout that was refused holds nothing (orderService.js:75-86
\* clears each item it reserved before it answers), whatever other orders,
\* payments, lapses and slow answers to its reads come in between.
THEOREM RefusedCheckoutsHoldNothing ==
    ASSUME NothingLost PROVE Spec => []RefusedHoldsNothing
<1>1. Pending => RefusedHoldsNothing
  BY DEF Pending, HeldIsPending, MayHold, RefusedHoldsNothing, CheckoutIs
<1> QED BY <1>1, InitTyped, NextTyped, InitPending, NextPending, PTL DEF Spec
=============================================================================

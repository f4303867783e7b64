------------------------ MODULE ProductServiceProofs ------------------------
(***************************************************************************)
(* What product-service keeps, for any number of products, orders and      *)
(* requests in service and any quantities: its rows are well typed, none   *)
(* is wedged, and a reservation is neither stolen nor sold under.          *)
(*                                                                         *)
(* The invariant that is inductive adds to TypeOK and NoWedgedRow that a   *)
(* handler past its first step carries a request, and that a row it has    *)
(* found is still there (rows are never deleted, only deactivated).        *)
(***************************************************************************)
EXTENDS ProductService, TLAPS

Served ==
    \A c \in Slots :
        call[c].at \in {"received", "read", "publish"} => call[c].req \in Request

FoundIsThere ==
    \A c \in Slots :
        (call[c].at = "read" /\ call[c].seen # NoRow)
            => row[call[c].req.p] # NoRow

IInv == TypeOK /\ Served /\ FoundIsThere /\ NoWedgedRow

Wedged(r) == r.by # NoOrder /\ r.lease = "none"

-----------------------------------------------------------------------------
(* Every statement turns a row into a row, and wedges none that was not.   *)

LEMMA SetReservationRow ==
    ASSUME NEW r \in Row, NEW o \in Orders \cup {NoOrder}, NEW l \in Leases
    PROVE  /\ SetReservation(r, o, l) \in Row
           /\ SetReservation(r, o, l).stock = r.stock
           /\ SetReservation(r, o, l).by = o
           /\ SetReservation(r, o, l).lease = l
BY DEF Row, SetReservation

LEMMA TakeRow ==
    ASSUME NEW r \in Row, NEW o \in Orders \cup {NoOrder}
    PROVE  /\ Take(r, o) \in Row
           /\ Take(r, o).stock = r.stock
           /\ ~ Wedged(Take(r, o))
<1> DEFINE b == IF o = NoOrder THEN r.by ELSE o
<1>1. b \in Orders \cup {NoOrder}
  BY DEF Row
<1>2. "live" \in Leases
  BY DEF Leases
<1> HIDE DEF b
<1>3. /\ SetReservation(r, b, "live") \in Row
      /\ SetReservation(r, b, "live").stock = r.stock
      /\ SetReservation(r, b, "live").lease = "live"
  BY <1>1, <1>2, SetReservationRow
<1> QED BY <1>3 DEF b, Take, Wedged

LEMMA ClearRow ==
    ASSUME NEW r \in Row
    PROVE  /\ Clear(r) \in Row
           /\ Clear(r).stock = r.stock /\ Clear(r).by = NoOrder
           /\ ~ Wedged(Clear(r))
<1>1. "none" \in Leases
  BY DEF Leases
<1> QED BY <1>1, SetReservationRow DEF Clear, Wedged

LEMMA SetStockRow ==
    ASSUME NEW r \in Row, NEW s \in Nat
    PROVE  /\ [r EXCEPT !.stock = s] \in Row
           /\ [r EXCEPT !.stock = s].stock = s
           /\ [r EXCEPT !.stock = s].by = r.by
           /\ [r EXCEPT !.stock = s].lease = r.lease
BY DEF Row

LEMMA SetActiveRow ==
    ASSUME NEW r \in Row, NEW b \in BOOLEAN
    PROVE  /\ [r EXCEPT !.active = b] \in Row
           /\ [r EXCEPT !.active = b].by = r.by
           /\ [r EXCEPT !.active = b].stock = r.stock
           /\ [r EXCEPT !.active = b].lease = r.lease
BY DEF Row

LEMMA SetLeaseRow ==
    ASSUME NEW r \in Row, NEW l \in Leases
    PROVE  /\ [r EXCEPT !.lease = l] \in Row
           /\ [r EXCEPT !.lease = l].by = r.by
           /\ [r EXCEPT !.lease = l].stock = r.stock
           /\ [r EXCEPT !.lease = l].lease = l
BY DEF Row

LEMMA SellRow ==
    ASSUME NEW r \in Row, NEW q \in Nat, r.stock >= q
    PROVE  Sell(r, q) \in Row /\ Sell(r, q).by = NoOrder /\ ~ Wedged(Sell(r, q))
<1>1. r.stock - q \in Nat
  BY DEF Row
<1> QED BY <1>1, ClearRow, SetStockRow DEF Sell, Wedged

LEMMA SweepRow ==
    ASSUME NEW r \in Row, ~ Wedged(r)
    PROVE  Sweep(r) \in Row /\ ~ Wedged(Sweep(r))
BY ClearRow DEF Sweep

LEMMA AdjustedRow ==
    ASSUME NEW r \in Row, NEW seen \in Row, NEW q \in Nat, ~ Wedged(r)
    PROVE  /\ Adjusted(r, seen, q) \in Row
           /\ Adjusted(r, seen, q).by \in {r.by, NoOrder}
           /\ ~ Wedged(Adjusted(r, seen, q))
<1>1. seen.stock + q \in Nat
  BY DEF Row
<1>2. CASE seen.by = NoOrder
  BY <1>1, <1>2, SetStockRow DEF Adjusted, Wedged
<1>3. CASE seen.by # NoOrder
  BY <1>1, <1>3, SetStockRow, ClearRow DEF Adjusted, Wedged
<1> QED BY <1>2, <1>3

LEMMA FreshRowIsRow ==
    ASSUME NEW s \in Nat
    PROVE  FreshRow(s) \in Row /\ ~ Wedged(FreshRow(s))
BY DEF Row, Leases, FreshRow, Wedged

-----------------------------------------------------------------------------
LEMMA QuantitiesAreNat == Quantities \cup {0} \subseteq Nat
BY ProductServiceAssumption

LEMMA WedgeFree ==
    NoWedgedRow <=> \A p \in Products : row[p] # NoRow => ~ Wedged(row[p])
BY DEF NoWedgedRow, Wedged

LEMMA RequestsAreRequests == Requests \subseteq Request
<1> SUFFICES ASSUME NEW r \in [kind : Endpoints, p : Products,
                               q : Quantities \cup {0}, o : Orders \cup {NoOrder}]
             PROVE  r \in Request
  BY DEF Requests
<1>1. r.kind \in Kinds
  BY ProductServiceAssumption
<1>2. r.q \in Nat
  BY QuantitiesAreNat
<1> QED BY <1>1, <1>2 DEF Request

(* A step that replaces one row by a good one, and a step that answers or  *)
(* stores a request, keep their part of the invariant.                     *)
LEMMA WriteRow ==
    ASSUME IInv, NEW p \in Products, NEW r \in Row, ~ Wedged(r),
           row' = [row EXCEPT ![p] = r]
    PROVE  /\ row' \in [Products -> Row \cup {NoRow}]
           /\ \A x \in Products : row[x] # NoRow => row'[x] # NoRow
           /\ NoWedgedRow'
BY ProductServiceAssumption DEF IInv, TypeOK, NoWedgedRow, Wedged

LEMMA AnswerCall ==
    ASSUME IInv, NEW c \in Slots, NEW code \in Codes, NEW seen \in Row \cup {NoRow},
           Answer(c, code, seen),
           \A x \in Products : row[x] # NoRow => row'[x] # NoRow
    PROVE  call' \in [Slots -> Call] /\ Served' /\ FoundIsThere'
<1> USE DEF IInv, TypeOK
<1>1. \A d \in Slots : call'[d] =
          IF d = c THEN [at |-> "done", req |-> NoReq, seen |-> seen, code |-> code]
                   ELSE call[d]
  BY DEF Answer
<1>2. call' \in [Slots -> Call]
  BY DEF Answer, Call, Codes
<1>3. Served'
  BY <1>1 DEF Served
<1>4. FoundIsThere'
  BY <1>1 DEF FoundIsThere, Served, Request
<1> QED BY <1>2, <1>3, <1>4

(* A slot that moves on without answering: it is received, reads, or is    *)
(* about to publish.                                                       *)
LEMMA MoveCall ==
    ASSUME IInv, NEW c \in Slots, NEW k \in Call,
           call' = [call EXCEPT ![c] = k],
           k.at \in {"received", "read", "publish"} => k.req \in Request,
           (k.at = "read" /\ k.seen # NoRow) => row'[k.req.p] # NoRow,
           \A x \in Products : row[x] # NoRow => row'[x] # NoRow
    PROVE  call' \in [Slots -> Call] /\ Served' /\ FoundIsThere'
<1> USE DEF IInv, TypeOK
<1>1. \A d \in Slots : call'[d] = IF d = c THEN k ELSE call[d]
  OBVIOUS
<1>2. call' \in [Slots -> Call]
  OBVIOUS
<1>3. Served'
  BY <1>1 DEF Served
<1>4. FoundIsThere'
  BY <1>1 DEF FoundIsThere, Served, Request
<1> QED BY <1>2, <1>3, <1>4

(* What a handler that has found its row may rely on.                      *)
LEMMA FoundRow ==
    ASSUME IInv, NEW c \in Slots, call[c].at = "read", call[c].seen # NoRow
    PROVE  /\ call[c].req \in Request
           /\ call[c].req.p \in Products
           /\ call[c].req.q \in Nat
           /\ call[c].req.o \in Orders \cup {NoOrder}
           /\ call[c].seen \in Row
           /\ row[call[c].req.p] \in Row
           /\ ~ Wedged(row[call[c].req.p])
<1> USE DEF IInv, TypeOK
<1>1. call[c].req \in Request /\ call[c] \in Call
  BY DEF Served
<1>2. /\ call[c].req.p \in Products
      /\ call[c].req.q \in Nat
      /\ call[c].req.o \in Orders \cup {NoOrder}
  BY <1>1 DEF Request
<1>3. call[c].seen \in Row
  BY <1>1 DEF Call
<1>4. row[call[c].req.p] \in Row
  BY <1>2 DEF FoundIsThere
<1>5. ~ Wedged(row[call[c].req.p])
  BY <1>2, <1>4, ProductServiceAssumption DEF NoWedgedRow, Wedged
<1> QED BY <1>1, <1>2, <1>3, <1>4, <1>5

(* A handler that answers and leaves the table alone keeps the invariant,  *)
(* and so does one that answers and replaces its row by a good one.        *)
LEMMA AnswerOnly ==
    ASSUME IInv, NEW c \in Slots, NEW code \in Codes, NEW seen \in Row \cup {NoRow},
           Answer(c, code, seen), row' = row, deleted' = deleted
    PROVE  IInv'
<1>1. call' \in [Slots -> Call] /\ Served' /\ FoundIsThere'
  BY AnswerCall
<1> QED BY <1>1 DEF IInv, TypeOK, NoWedgedRow

LEMMA AnswerAndWrite ==
    ASSUME IInv, NEW c \in Slots, NEW p \in Products, NEW r \in Row, ~ Wedged(r),
           Answer(c, "ok", NoRow), row' = [row EXCEPT ![p] = r], deleted' = deleted
    PROVE  IInv'
<1>1. /\ row' \in [Products -> Row \cup {NoRow}]
      /\ \A x \in Products : row[x] # NoRow => row'[x] # NoRow
      /\ NoWedgedRow'
  BY WriteRow
<1>2. call' \in [Slots -> Call] /\ Served' /\ FoundIsThere'
  <2>1. "ok" \in Codes
    BY DEF Codes
  <2> QED BY <1>1, <2>1, AnswerCall
<1> QED BY <1>1, <1>2 DEF IInv, TypeOK

-----------------------------------------------------------------------------
LEMMA InitIInv == Init => IInv
<1> SUFFICES ASSUME Init
             PROVE  IInv
  OBVIOUS
<1>1. \A p \in Products :
         row[p] \in Row \cup {NoRow} /\ (row[p] # NoRow => ~ Wedged(row[p]))
  BY QuantitiesAreNat, FreshRowIsRow DEF Init
<1>2. row \in [Products -> Row \cup {NoRow}]
  BY <1>1 DEF Init
<1>3. Idle \in Call /\ Idle.at = "idle"
  BY DEF Idle, Call, Codes
<1>4. call \in [Slots -> Call] /\ \A c \in Slots : call[c].at = "idle"
  BY <1>3 DEF Init
<1>5. TypeOK
  BY <1>2, <1>4 DEF Init, TypeOK
<1>6. Served /\ FoundIsThere
  BY <1>4 DEF Served, FoundIsThere
<1>7. NoWedgedRow
  BY <1>1, WedgeFree
<1> QED BY <1>5, <1>6, <1>7 DEF IInv

LEMMA StutterIInv == IInv /\ UNCHANGED vars => IInv'
BY DEF IInv, TypeOK, Served, FoundIsThere, NoWedgedRow, vars

(* Steps of one slot, one case per action of Serve.                        *)
LEMMA ServeIInv ==
    ASSUME IInv, NEW c \in Slots, Serve(c)
    PROVE  IInv'
<1> USE DEF Codes
<1>0. call[c] \in Call /\ \A p \in Products : row[p] \in Row \cup {NoRow}
  BY DEF IInv, TypeOK
<1>1. CASE GetProduct(c)
  <2>1. call[c].req.p \in Products
    BY <1>1 DEF GetProduct, At, IInv, Served, Request
  <2> QED BY <1>0, <1>1, <2>1, AnswerOnly DEF GetProduct
<1>2. CASE FindByPk(c)
  <2> DEFINE k == [at |-> "read", req |-> call[c].req,
                   seen |-> row[call[c].req.p], code |-> "none"]
  <2>1. call[c].at = "received" /\ row' = row /\ deleted' = deleted
    BY <1>2 DEF FindByPk, At
  <2>2. call[c].req \in Request /\ row[call[c].req.p] \in Row \cup {NoRow}
    BY <1>0, <2>1 DEF IInv, Served, Request
  <2>3. call' = [call EXCEPT ![c] = k]
    BY <1>2 DEF FindByPk, Await
  <2>4. k \in Call
    BY <2>2 DEF Call
  <2>5. k.req \in Request /\ ((k.at = "read" /\ k.seen # NoRow) => row'[k.req.p] # NoRow)
    BY <2>1, <2>2
  <2> HIDE DEF k
  <2>6. call' \in [Slots -> Call] /\ Served' /\ FoundIsThere'
    BY <2>1, <2>3, <2>4, <2>5, MoveCall
  <2> QED BY <2>1, <2>6 DEF IInv, TypeOK, NoWedgedRow
<1>3. CASE NotFound(c)
  BY <1>3, AnswerOnly DEF NotFound
<1>4. CASE SkipReservation(c)
  BY <1>4, AnswerOnly DEF SkipReservation
<1>5. CASE Reserve(c)
  <2> DEFINE q == call[c].req
  <2>1. /\ q.p \in Products /\ q.o \in Orders \cup {NoOrder}
        /\ row[q.p] \in Row
    BY <1>5, FoundRow DEF Reserve, Found, At
  <2>2. CASE CanReserve(row[q.p], q.q)
    <3>1. Take(row[q.p], q.o) \in Row /\ ~ Wedged(Take(row[q.p], q.o))
      BY <2>1, TakeRow
    <3>2. /\ row' = [row EXCEPT ![q.p] = Take(row[q.p], q.o)]
          /\ Answer(c, "ok", NoRow) /\ deleted' = deleted
      BY <1>5, <2>2 DEF Reserve
    <3> QED BY <2>1, <3>1, <3>2, AnswerAndWrite
  <2>3. CASE ~ CanReserve(row[q.p], q.q)
    <3>1. row' = row /\ Answer(c, "conflict", NoRow) /\ deleted' = deleted
      BY <1>5, <2>3 DEF Reserve
    <3> QED BY <3>1, AnswerOnly
  <2> QED BY <2>2, <2>3
<1>6. CASE AdjustStock(c)
  <2> DEFINE q == call[c].req
  <2>1. q.p \in Products /\ q.q \in Nat /\ call[c].seen \in Row
    BY <1>6, FoundRow DEF AdjustStock, Found, At
  <2>2. row[q.p] \in Row /\ ~ Wedged(row[q.p])
    BY <1>6, FoundRow DEF AdjustStock, Found, At
  <2>3. /\ Adjusted(row[q.p], call[c].seen, q.q) \in Row
        /\ ~ Wedged(Adjusted(row[q.p], call[c].seen, q.q))
    BY <2>1, <2>2, AdjustedRow
  <2>4. /\ row' = [row EXCEPT ![q.p] = Adjusted(row[q.p], call[c].seen, q.q)]
        /\ Answer(c, "ok", NoRow) /\ deleted' = deleted
    BY <1>6 DEF AdjustStock
  <2> QED BY <2>1, <2>3, <2>4, AnswerAndWrite
<1>7. CASE KeepReservation(c)
  BY <1>7, AnswerOnly DEF KeepReservation
<1>8. CASE ClearReservation(c)
  <2> DEFINE q == call[c].req
  <2>1. q.p \in Products /\ row[q.p] \in Row
    BY <1>8, FoundRow DEF ClearReservation, Found, At
  <2>2. Clear(row[q.p]) \in Row /\ ~ Wedged(Clear(row[q.p]))
    BY <2>1, ClearRow
  <2>3. /\ row' = [row EXCEPT ![q.p] = Clear(row[q.p])]
        /\ Answer(c, "ok", NoRow) /\ deleted' = deleted
    BY <1>8 DEF ClearReservation
  <2> QED BY <2>1, <2>2, <2>3, AnswerAndWrite
<1>9. CASE CommitSale(c)
  <2> DEFINE q == call[c].req
  <2>1. q.p \in Products /\ q.q \in Nat
    BY <1>9 DEF CommitSale, At, IInv, Served, Request
  <2>2. Answer(c, "ok", NoRow) /\ deleted' = deleted
    BY <1>9 DEF CommitSale
  <2>3. CASE row[q.p] # NoRow /\ CanCommit(row[q.p], q.q, q.o)
    <3>1. row[q.p] \in Row /\ row[q.p].stock >= q.q
      BY <1>0, <2>1, <2>3 DEF CanCommit
    <3>2. Sell(row[q.p], q.q) \in Row /\ ~ Wedged(Sell(row[q.p], q.q))
      BY <2>1, <3>1, SellRow
    <3>3. row' = [row EXCEPT ![q.p] = Sell(row[q.p], q.q)]
      BY <1>9, <2>3 DEF CommitSale
    <3> QED BY <2>1, <2>2, <3>2, <3>3, AnswerAndWrite
  <2>4. CASE ~ (row[q.p] # NoRow /\ CanCommit(row[q.p], q.q, q.o))
    <3>1. row' = row
      BY <1>9, <2>4 DEF CommitSale
    <3> QED BY <2>2, <3>1, AnswerOnly
  <2> QED BY <2>3, <2>4
<1>10. CASE PutStock(c)
  <2> DEFINE q == call[c].req
             r == [row[q.p] EXCEPT !.stock = q.q]
  <2>1. q.p \in Products /\ q.q \in Nat /\ row[q.p] \in Row /\ ~ Wedged(row[q.p])
    BY <1>10, FoundRow DEF PutStock, Found, At
  <2>2. Answer(c, "ok", NoRow) /\ deleted' = deleted
    BY <1>10 DEF PutStock
  <2>3. CASE q.q = call[c].seen.stock
    BY <1>10, <2>2, <2>3, AnswerOnly DEF PutStock
  <2>4. CASE q.q # call[c].seen.stock
    <3>1. row' = [row EXCEPT ![q.p] = r]
      BY <1>10, <2>4 DEF PutStock
    <3>2. r \in Row /\ ~ Wedged(r)
      BY <2>1, SetStockRow DEF Wedged
    <3> QED BY <2>1, <2>2, <3>1, <3>2, AnswerAndWrite
  <2> QED BY <2>3, <2>4
<1>11. CASE Reactivate(c)
  <2> DEFINE q == call[c].req
             r == [row[q.p] EXCEPT !.active = TRUE]
  <2>1. q.p \in Products /\ row[q.p] \in Row /\ ~ Wedged(row[q.p])
    BY <1>11, FoundRow DEF Reactivate, Found, At
  <2>2. Answer(c, "ok", NoRow) /\ deleted' = deleted
    BY <1>11 DEF Reactivate
  <2>3. CASE call[c].seen.active
    BY <1>11, <2>2, <2>3, AnswerOnly DEF Reactivate
  <2>4. CASE ~ call[c].seen.active
    <3>1. row' = [row EXCEPT ![q.p] = r]
      BY <1>11, <2>4 DEF Reactivate
    <3>2. r \in Row /\ ~ Wedged(r)
      BY <2>1, SetActiveRow DEF Wedged
    <3> QED BY <2>1, <2>2, <3>1, <3>2, AnswerAndWrite
  <2> QED BY <2>3, <2>4
<1>12. CASE DeleteProduct(c)
  <2> DEFINE q == call[c].req
             r == [row[q.p] EXCEPT !.active = FALSE]
             k == [at |-> "publish", req |-> q, seen |-> NoRow, code |-> "none"]
  <2>1. /\ q \in Request /\ q.p \in Products
        /\ row[q.p] \in Row /\ ~ Wedged(row[q.p])
    BY <1>12, FoundRow DEF DeleteProduct, Found, At
  <2>2. /\ call' = [call EXCEPT ![c] = k] /\ deleted' = deleted
        /\ row' = IF call[c].seen.active THEN [row EXCEPT ![q.p] = r] ELSE row
    BY <1>12 DEF DeleteProduct, Await
  <2>3. r \in Row /\ ~ Wedged(r)
    BY <2>1, SetActiveRow DEF Wedged
  <2>5. k \in Call /\ k.at = "publish" /\ k.req \in Request
    BY <1>0, <2>1 DEF Call
  <2> HIDE DEF k, r
  <2>6. /\ row' \in [Products -> Row \cup {NoRow}]
        /\ \A x \in Products : row[x] # NoRow => row'[x] # NoRow
        /\ NoWedgedRow'
    <3>1. CASE call[c].seen.active
      BY <2>1, <2>2, <2>3, <3>1, WriteRow
    <3>2. CASE ~ call[c].seen.active
      BY <2>2, <3>2 DEF IInv, TypeOK, NoWedgedRow
    <3> QED BY <3>1, <3>2
  <2>7. call' \in [Slots -> Call] /\ Served' /\ FoundIsThere'
    BY <2>2, <2>5, <2>6, MoveCall
  <2> QED BY <2>2, <2>6, <2>7 DEF IInv, TypeOK
<1>13. CASE PublishDeleted(c)
  <2>1. /\ call[c].req.p \in Products /\ row' = row
        /\ deleted' \in {deleted, deleted \cup {call[c].req.p}}
    BY <1>13 DEF PublishDeleted, At, IInv, Served, Request
  <2>2. deleted' \subseteq Products
    BY <2>1 DEF IInv, TypeOK
  <2>3. Answer(c, "ok", NoRow)
    BY <1>13 DEF PublishDeleted
  <2>4. call' \in [Slots -> Call] /\ Served' /\ FoundIsThere'
    BY <2>1, <2>3, AnswerCall
  <2> QED BY <2>1, <2>2, <2>4 DEF IInv, TypeOK, NoWedgedRow
<1>14. CASE Fail(c)
  BY <1>14, AnswerOnly DEF Fail
<1> QED BY <1>1, <1>2, <1>3, <1>4, <1>5, <1>6, <1>7, <1>8, <1>9, <1>10, <1>11,
           <1>12, <1>13, <1>14 DEF Serve

(* Steps of a client, of time, of the job and of the administrator.        *)
LEMMA ReceiveIInv ==
    ASSUME IInv, NEW c \in Slots, NEW r \in Requests, Receive(c, r)
    PROVE  IInv'
<1> DEFINE k == [at |-> "received", req |-> r, seen |-> NoRow, code |-> "none"]
<1>1. r \in Request
  BY RequestsAreRequests
<1>2. k \in Call /\ k.at = "received" /\ k.req = r
  BY <1>1 DEF Call, Codes
<1>3. call' = [call EXCEPT ![c] = k] /\ row' = row /\ deleted' = deleted
  BY DEF Receive, Await
<1> HIDE DEF k
<1>4. call' \in [Slots -> Call] /\ Served' /\ FoundIsThere'
  BY <1>1, <1>2, <1>3, MoveCall
<1> QED BY <1>3, <1>4 DEF IInv, TypeOK, NoWedgedRow

LEMMA ReplyIInv ==
    ASSUME IInv, NEW c \in Slots, Reply(c)
    PROVE  IInv'
<1>1. Idle \in Call /\ Idle.at = "idle"
  BY DEF Idle, Call, Codes
<1>2. call' = [call EXCEPT ![c] = Idle] /\ row' = row /\ deleted' = deleted
  BY DEF Reply
<1>3. call' \in [Slots -> Call] /\ Served' /\ FoundIsThere'
  BY <1>1, <1>2, MoveCall
<1> QED BY <1>2, <1>3 DEF IInv, TypeOK, NoWedgedRow

LEMMA TableIInv ==
    ASSUME IInv, call' = call, deleted' = deleted,
           row' \in [Products -> Row \cup {NoRow}],
           \A x \in Products : row[x] # NoRow => row'[x] # NoRow,
           NoWedgedRow'
    PROVE  IInv'
<1>1. FoundIsThere'
  BY DEF IInv, TypeOK, Served, Request, FoundIsThere
<1> QED BY <1>1 DEF IInv, TypeOK, Served

LEMMA NextIInv == IInv /\ [Next]_vars => IInv'
<1> SUFFICES ASSUME IInv, [Next]_vars
             PROVE  IInv'
  OBVIOUS
<1>1. ASSUME NEW c \in Slots, Serve(c) PROVE IInv'
  BY <1>1, ServeIInv
<1>2. ASSUME NEW c \in Slots, Reply(c) PROVE IInv'
  BY <1>2, ReplyIInv
<1>3. ASSUME NEW c \in Slots, NEW r \in Requests, Receive(c, r) PROVE IInv'
  BY <1>3, ReceiveIInv
<1>4. ASSUME NEW p \in Products, Lapse(p) PROVE IInv'
  <2> DEFINE r == [row[p] EXCEPT !.lease = "lapsed"]
  <2>1. row[p] \in Row
    BY <1>4 DEF Lapse, IInv, TypeOK
  <2>2. r \in Row /\ ~ Wedged(r)
    BY <2>1, SetLeaseRow DEF Leases, Wedged
  <2>3. row' = [row EXCEPT ![p] = r] /\ call' = call /\ deleted' = deleted
    BY <1>4 DEF Lapse
  <2> HIDE DEF r
  <2> QED BY <2>2, <2>3, WriteRow, TableIInv
<1>5. ASSUME NEW p \in Products, NEW s \in Quantities \cup {0}, CreateProduct(p, s)
      PROVE  IInv'
  <2>1. FreshRow(s) \in Row /\ ~ Wedged(FreshRow(s))
    BY QuantitiesAreNat, FreshRowIsRow
  <2>2. row' = [row EXCEPT ![p] = FreshRow(s)] /\ call' = call /\ deleted' = deleted
    BY <1>5 DEF CreateProduct
  <2> QED BY <2>1, <2>2, WriteRow, TableIInv
<1>6. CASE ExpireReservations
  <2>1. /\ call' = call /\ deleted' = deleted
        /\ row' = [p \in Products |-> IF row[p] = NoRow THEN NoRow ELSE Sweep(row[p])]
    BY <1>6 DEF ExpireReservations
  <2>2. \A p \in Products : row[p] # NoRow =>
           Sweep(row[p]) \in Row /\ ~ Wedged(Sweep(row[p]))
    BY SweepRow, WedgeFree DEF IInv, TypeOK
  <2>3. row' \in [Products -> Row \cup {NoRow}]
    BY <2>1, <2>2
  <2>4. \A p \in Products : row[p] # NoRow => row'[p] # NoRow
    BY <2>1, <2>2, ProductServiceAssumption
  <2>5. \A p \in Products : row'[p] # NoRow => ~ Wedged(row'[p])
    BY <2>1, <2>2
  <2>6. NoWedgedRow'
    BY <2>5 DEF NoWedgedRow, Wedged
  <2> QED BY <2>1, <2>3, <2>4, <2>6, TableIInv
<1>7. CASE UNCHANGED vars
  BY <1>7, StutterIInv
<1> QED BY <1>1, <1>2, <1>3, <1>4, <1>5, <1>6, <1>7 DEF Next

-----------------------------------------------------------------------------
(* The inductive invariant holds, and with it type correctness (a stock is *)
(* a natural number) and the absence of wedged rows.                       *)
THEOREM Invariance == Spec => []IInv
BY InitIInv, NextIInv, PTL DEF Spec

\* Every row, request and event is well typed in every reachable state.
THEOREM TypeInvariant == Spec => []TypeOK
<1>1. IInv => TypeOK
  BY DEF IInv
<1> QED BY <1>1, Invariance, PTL

\* No interleaving of the handlers leaves a row with an order and no expiry.
THEOREM NoRowIsWedged == Spec => []NoWedgedRow
<1>1. IInv => NoWedgedRow
  BY DEF IInv
<1> QED BY <1>1, Invariance, PTL

-----------------------------------------------------------------------------
(* What one step may do to a row that exists.                              *)

Kept(r, t) == t.stock = r.stock /\ t.by = r.by

Reservation(r, t) ==
    \E o \in Orders \cup {NoOrder}, q \in Nat : CanReserve(r, q) /\ t = Take(r, o)

Sale(p, r, t) ==
    \E o \in Orders \cup {NoOrder}, q \in Nat :
        CanCommit(r, q, o) /\ t = Sell(r, q) /\ SaleTo(p, o)

RowStep(p, r, t) ==
    \/ Kept(r, t)
    \/ Reservation(r, t)
    \/ t = Clear(r)
    \/ Sale(p, r, t)
    \/ AdminWrite /\ t.by \in {r.by, NoOrder}

LEMMA OneRowWritten ==
    ASSUME IInv, NEW p \in Products, NEW x \in Products, NEW r,
           row' = [row EXCEPT ![x] = r]
    PROVE  row'[p] = IF p = x THEN r ELSE row[p]
BY DEF IInv, TypeOK

LEMMA StepOfRow ==
    ASSUME IInv, [Next]_vars, NEW p \in Products, row[p] # NoRow
    PROVE  RowStep(p, row[p], row'[p])
<1>0. row[p] \in Row
  BY DEF IInv, TypeOK
<1>1. CASE row'[p] = row[p]
  BY <1>1 DEF RowStep, Kept
<1>2. ASSUME NEW c \in Slots, Serve(c), row'[p] # row[p]
      PROVE  RowStep(p, row[p], row'[p])
  <2> DEFINE q == call[c].req
  <2>1. CASE Reserve(c)
    <3>1. /\ q.p \in Products /\ q.q \in Nat /\ q.o \in Orders \cup {NoOrder}
      BY <2>1, FoundRow DEF Reserve, Found, At
    <3>2. CanReserve(row[q.p], q.q) /\ row' = [row EXCEPT ![q.p] = Take(row[q.p], q.o)]
      BY <2>1, <1>2 DEF Reserve
    <3>3. p = q.p /\ row'[p] = Take(row[p], q.o)
      BY <1>2, <3>1, <3>2, OneRowWritten
    <3> QED BY <3>1, <3>2, <3>3 DEF RowStep, Reservation
  <2>2. CASE AdjustStock(c)
    <3>1. /\ q.p \in Products /\ q.q \in Nat /\ call[c].seen \in Row
          /\ row[q.p] \in Row /\ ~ Wedged(row[q.p])
      BY <2>2, FoundRow DEF AdjustStock, Found, At
    <3>2. row' = [row EXCEPT ![q.p] = Adjusted(row[q.p], call[c].seen, q.q)]
      BY <2>2 DEF AdjustStock
    <3>3. p = q.p /\ row'[p] = Adjusted(row[p], call[c].seen, q.q)
      BY <1>2, <3>1, <3>2, OneRowWritten
    <3>4. row'[p].by \in {row[p].by, NoOrder}
      BY <3>1, <3>3, AdjustedRow
    <3> QED BY <2>2, <3>4 DEF RowStep, AdminWrite
  <2>3. CASE ClearReservation(c)
    <3>1. q.p \in Products
      BY <2>3, FoundRow DEF ClearReservation, Found, At
    <3>2. row' = [row EXCEPT ![q.p] = Clear(row[q.p])]
      BY <2>3 DEF ClearReservation
    <3>3. row'[p] = Clear(row[p])
      BY <1>2, <3>1, <3>2, OneRowWritten
    <3> QED BY <3>3 DEF RowStep
  <2>4. CASE CommitSale(c)
    <3>1. q.p \in Products /\ q.q \in Nat /\ q.o \in Orders \cup {NoOrder}
      BY <2>4 DEF CommitSale, At, IInv, Served, Request
    <3>2. CanCommit(row[q.p], q.q, q.o) /\ row' = [row EXCEPT ![q.p] = Sell(row[q.p], q.q)]
      BY <2>4, <1>2 DEF CommitSale
    <3>3. p = q.p /\ row'[p] = Sell(row[p], q.q)
      BY <1>2, <3>1, <3>2, OneRowWritten
    <3> QED BY <2>4, <3>1, <3>2, <3>3 DEF RowStep, Sale, SaleTo
  <2>5. CASE PutStock(c)
    <3>1. q.p \in Products /\ q.q \in Nat
      BY <2>5, FoundRow DEF PutStock, Found, At
    <3>2. row' = [row EXCEPT ![q.p] = [row[q.p] EXCEPT !.stock = q.q]]
      BY <2>5, <1>2 DEF PutStock
    <3>3. row'[p] = [row[p] EXCEPT !.stock = q.q]
      BY <1>2, <3>1, <3>2, OneRowWritten
    <3>4. row'[p].by = row[p].by
      BY <1>0, <3>1, <3>3, SetStockRow
    <3> QED BY <2>5, <3>4 DEF RowStep, AdminWrite
  <2>6. CASE Reactivate(c)
    <3>1. q.p \in Products
      BY <2>6, FoundRow DEF Reactivate, Found, At
    <3>2. row' = [row EXCEPT ![q.p] = [row[q.p] EXCEPT !.active = TRUE]]
      BY <2>6, <1>2 DEF Reactivate
    <3>3. p = q.p /\ row'[p] = [row[q.p] EXCEPT !.active = TRUE]
      BY <1>2, <3>1, <3>2, OneRowWritten
    <3> QED BY <1>0, <3>3, SetActiveRow DEF RowStep, Kept
  <2>7. CASE DeleteProduct(c)
    <3>1. q.p \in Products
      BY <2>7, FoundRow DEF DeleteProduct, Found, At
    <3>2. row' = [row EXCEPT ![q.p] = [row[q.p] EXCEPT !.active = FALSE]]
      BY <2>7, <1>2 DEF DeleteProduct
    <3>3. p = q.p /\ row'[p] = [row[q.p] EXCEPT !.active = FALSE]
      BY <1>2, <3>1, <3>2, OneRowWritten
    <3> QED BY <1>0, <3>3, SetActiveRow DEF RowStep, Kept
  <2> QED
    BY <1>2, <2>1, <2>2, <2>3, <2>4, <2>5, <2>6, <2>7
       DEF Serve, GetProduct, FindByPk, NotFound, SkipReservation, KeepReservation,
           PublishDeleted, Fail
<1>3. ASSUME NEW x \in Products, Lapse(x), row'[p] # row[p]
      PROVE  RowStep(p, row[p], row'[p])
  <2>1. row' = [row EXCEPT ![x] = [row[x] EXCEPT !.lease = "lapsed"]]
    BY <1>3 DEF Lapse
  <2>2. row'[p] = [row[p] EXCEPT !.lease = "lapsed"]
    BY <1>3, <2>1, OneRowWritten
  <2> QED BY <1>0, <2>2, SetLeaseRow DEF Leases, RowStep, Kept
<1>4. ASSUME NEW x \in Products, NEW s, CreateProduct(x, s), row'[p] # row[p]
      PROVE  RowStep(p, row[p], row'[p])
  BY <1>4, OneRowWritten DEF CreateProduct
<1>5. CASE ExpireReservations
  BY <1>5 DEF ExpireReservations, Sweep, RowStep, Kept
<1> QED
  BY <1>1, <1>2, <1>3, <1>4, <1>5 DEF Next, vars, Receive, Reply

\* A live reservation is given up or lapses before another order takes the
\* product: the conditional UPDATE of updateStock lets one order in at a time.
THEOREM ReservationsAreNotStolen == Spec => NoTheft
<1> DEFINE Keeps(p) == (row[p] # NoRow /\ row'[p] # NoRow /\ Reserved(row[p]))
                          => row'[p].by \in {row[p].by, NoOrder}
<1>1. ASSUME IInv, [Next]_vars, NEW p \in Products, row[p] # NoRow, Reserved(row[p])
      PROVE  row'[p].by \in {row[p].by, NoOrder}
  <2>1. row[p] \in Row /\ row[p].by # NoOrder /\ row[p].lease = "live"
    BY <1>1 DEF IInv, TypeOK, Reserved
  <2>2. ~ Reservation(row[p], row'[p])
    BY <2>1 DEF Reservation, CanReserve
  <2>3. Clear(row[p]).by = NoOrder
    BY <2>1, ClearRow
  <2>4. \A q \in Nat : row[p].stock >= q => Sell(row[p], q).by = NoOrder
    BY <2>1, SellRow
  <2>5. RowStep(p, row[p], row'[p])
    BY <1>1, StepOfRow
  <2> QED BY <2>2, <2>3, <2>4, <2>5 DEF RowStep, Kept, Sale, CanCommit
<1>2. IInv /\ [Next]_vars => [\A p \in Products : Keeps(p)]_vars
  BY <1>1
<1> QED BY <1>2, Invariance, PTL DEF Spec, NoTheft

\* No order's sale takes the units another order has reserved: commitSale
\* refuses a row that names another order, lapsed or not.
THEOREM ReservedUnitsAreNotSold == Spec => NoSaleUnderReservation
<1> DEFINE Backed(p) ==
               (/\ row[p] # NoRow /\ row'[p] # NoRow
                /\ row[p].by # NoOrder /\ row'[p].stock < row[p].stock)
                  => SaleTo(p, row[p].by) \/ AdminWrite
<1>1. ASSUME IInv, [Next]_vars, NEW p \in Products, row[p] # NoRow,
             row[p].by # NoOrder, row'[p].stock < row[p].stock, ~ AdminWrite
      PROVE  SaleTo(p, row[p].by)
  <2>1. row[p] \in Row /\ row[p].stock \in Nat
    BY <1>1 DEF IInv, TypeOK, Row
  <2>2. ~ Kept(row[p], row'[p])
    BY <1>1, <2>1 DEF Kept
  <2>3. ~ Reservation(row[p], row'[p])
    BY <1>1, <2>1, TakeRow DEF Reservation
  <2>4. row'[p] # Clear(row[p])
    BY <1>1, <2>1, ClearRow
  <2>5. RowStep(p, row[p], row'[p])
    BY <1>1, StepOfRow
  <2>6. Sale(p, row[p], row'[p])
    BY <1>1, <2>2, <2>3, <2>4, <2>5 DEF RowStep
  <2> QED BY <1>1, <2>6 DEF Sale, CanCommit
<1>2. IInv /\ [Next]_vars => [\A p \in Products : Backed(p)]_vars
  BY <1>1
<1> QED BY <1>2, Invariance, PTL DEF Spec, NoSaleUnderReservation
=============================================================================

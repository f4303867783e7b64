# TLA+ verification of ecommerce-cloud

This directory specifies the parts of the shop where several processes write
the same data, or where one process is stopped and starts again over data it
wrote: the stock and the reservations of product-service, the checkout and the
payment results of order-service, the carts of cart-service, the function that
resizes pictures, and the streaming job that counts them.  The modules are
translated from the JavaScript under `src/microservices/` and the Python under
`src/serverless/` and `src/analytics/`; TLC checks them on small instances and
TLAPS proves the central results for every value of the constants.

Paths below are relative to `src/microservices/` unless they begin with `src/`.
`PROJECT.json` gives, for every definition, the lines it stands for.

## 1. Inventory

### The parts and how they interact

    browser ── cart requests ──────> cart-service ──── DynamoDB carts
       │                                 │  ^  GET product (price, name)
       │                                 │  └──────────────┐
       ├── POST /api/orders ───────> order-service         v
       │                              │   │  GET / reserve / clear / commit
       │                              │   └─────────> product-service ── Postgres products
       │             payment.requested│                    │  ^ expiry job, 60 s
       │                              v                    └─ product.deleted ─> cart-service
       └── POST /api/payments ──> payment-service
                                      │ payment.succeeded / payment.failed (Kafka)
                                      │ or POST /api/internal/payment-event (HTTP)
                                      v
                              order-service, notification-service

    uploads bucket ── S3 events ──> image-processor ──> processed bucket
                                      │ product-images.processed (Kafka)
                                      v
                              analytics job (Flink) ──> Cloud SQL, Firestore, GCS

Every service but payment-service runs with `replicas: 2`
(`src/k8s/base/deployments.yaml`), so the interleavings below are between
requests of one Node.js process, at its awaits, as well as between processes.

| part | state it keeps | operations that change it | correct when |
|---|---|---|---|
| product-service | table `products`: stock, reservedByOrderId, reservedUntil, isActive | createProduct, updateProduct, deleteProduct, updateStock (reserve with a negative quantity, restock with a positive one), clearReservation, commitSale, expiry job | stock is never negative; a reservation is not stolen, not sold under, always expires; a clear touches only its owner's; a restock adds |
| order-service | table `orders`: status, failureReason | createOrderFromCart (check, reserve, roll back, save, publish), handlePaymentMessage (confirm and commit, or clear and fail) | units are conserved; an order settles once, and takes its units once and only when confirmed, unless two handlers act on it at once; a refused order holds nothing; no reservation is kept for ever |
| payment-service | none | POST /api/payments, consumer of payment.requested | one result per order |
| cart-service | table `carts`: one document per user | addItem, updateItemQuantity, removeItem, clearCart, consumer of product.deleted | each request changes a cart in one step, from its last version unless it was overtaken; a product comes in only by addItem or an overtaken request; a deleted product leaves every cart whose removal does not fail |
| notification-service | none | consumer of payment.succeeded | one message per confirmed order |
| user-service | table `users` | register, authenticate (migrates plaintext passwords), update | one user per e-mail; no update is undone |
| image-processor (Lambda) | processed bucket; the Kafka producer of a warm worker | lambda_handler over the records of a notification: read, resize, write, publish, three sizes each | events announce objects that exist; all sizes or none; the last upload wins; every image is processed in the end |
| analytics job (PyFlink) | positions, windows per label, timers, checkpoints; records in three stores | process_element, on_timer with its three upserts, checkpoint, recovery, submission | no event is lost, none is counted twice, records are not overwritten by ones that count less, passed windows are persisted |
| order metrics (Java Flink job) | Flink's own windows | mappers and aggregators | stateless |
| frontend-web | browser state | sends the requests above | its requests are the inputs of the models |
| order-service scripts, infrastructure | – | run by an operator | not part of the running system |

### What is hard in it

- **Read, then write.**  All handlers of product-service but commitSale read a
  row, decide, and write it with a second statement
  (`product-service/src/services/productService.js:309-400`, `:422-432`).  A
  Sequelize `save` writes only the columns that changed since the read.
- **Two statements in order-service** for "is it awaiting payment" and "set
  the status" (`order-service/src/services/paymentConsumer.js:14-31`), which
  run in the Kafka consumer, in the HTTP endpoint, and in two replicas.
- **No transaction across services.**  A checkout reserves products one by one
  and rolls them back one by one; a payment commits them one by one; every one
  of these calls can fail, and time out after it took effect
  (`order-service/src/services/inventoryService.js`, 5 s).
- **Crashes and redelivery.**  The replica may stop between any two awaits;
  Kafka delivers at least once.
- **Whole documents put back.**  A cart request reads the document and puts it
  back without a condition (`cart-service/src/services/cartService.js:98`),
  while the consumer of product.deleted does the same page by page.
- **Time.**  A reservation lapses after ten minutes (ORDER_PAYMENT_TIMEOUT_MS), is
  then free for the next reserve (`updateStock`) but still blocks commits of other orders until the
  job clears it.
- **Retries of what was half done.**  The platform runs lambda_handler again after
  a timeout, from the first record, in another worker; notifications come in any
  order and more than once; an exception is answered with 500, which the platform
  takes for success (`src/serverless/image-processor/lambda_function.py:67-72`).
- **Recovery of one half of the state.**  Flink takes positions, windows and timers
  back to the checkpoint; the three stores stay as they are, and an event without
  a timestamp gets a new stamp when it is read again
  (`src/analytics/flink_analytics_job.py:52-62`, `:220-256`).

`PROJECT.json` lists each of these as a hazard at its line, with the property
that would catch it going wrong or the reason none does yet.

## 2. Modules

    ProductRow ──EXTENDS── ProductService ──EXTENDS── MCProductService
                               │  └──────EXTENDS── ProductServiceProofs
                               │ INSTANCE (PS)
    OrderLife <─INSTANCE── OrderFlow ─────EXTENDS── MCOrderFlow
                (Life)            └───────EXTENDS── OrderFlowProofs ──EXTENDS── OrderRollbackProofs
    Carts <──INSTANCE (C)── CartService ──EXTENDS── MCCartService
                                  └───────EXTENDS── CartServiceProofs
    SumProofs ──EXTENDS── OrderFlowProofs

    ImageResize ──EXTENDS── ImageProcessor ──EXTENDS── MCImageProcessor, ImageProcessorProofs
                               │ INSTANCE (IP)
                           ImagePipeline ──EXTENDS── MCImagePipeline, ImagePipelineProofs
                               │ EXTENDS
                           AnalyticsJob ──EXTENDS── MCAnalyticsJob, AnalyticsJobProofs

### ProductRow, ProductService

`ProductRow` is one row and what each SQL statement does to it; an operator is
one statement, which Postgres evaluates on the row as it then is (a pair of
operators `CanReserve`/`Take`, `CanCommit`/`Sell` is the WHERE and the SET of one
conditional UPDATE).  `reservedUntil` is kept as far as the statements tell its
values apart: null (`"none"`), in the future (`"live"`), in the past
(`"lapsed"`); the action `Lapse` lets time pass it.

`ProductService` has the table (`row`), the requests in service (`call`, one per
slot) and what was published (`deleted`).  A request is received, does its
`findByPk` (`FindByPk` stores what it read in `seen`), decides on `seen`, and
writes `row` with its second statement.  So `Reserve(c)` tests the quantity
against the stock *read* and the WHERE against the row *now*; `AdjustStock`
writes a stock computed from the one read; `ClearReservation` checks the owner
on the row read and clears the row there is.  `commitSale` is one statement.
`Fail(c)` is a failing statement or the replica stopping, before any step.  A
request never restarts.  createProduct, the soft delete with its event, which
may be lost, and the job are actions too.

### OrderFlow

`OrderFlow` adds order-service, and calls ProductService: its `productVars` are
the variables of an INSTANCE of ProductService, whose actions it conjoins to its
own.  A caller takes an idle slot, sends, and is then waiting on that slot; it
goes on when the answer is there (`Answered`) or gives up (`GaveUp`, for the kinds
of call in `SlowCalls`), in which case the request is still in service and may
still take effect (`Discard` drops its answer).

- `checkout[o]` is createOrderFromCart for order `o`: stage, item, items that take
  the last unit (`scarce`), slot waited on.  Stages: check → reserve → save →
  publish → done; rollback → rejected; mark (failure to publish); lost (the replica
  stopped).
- `handler[h]` is handlePaymentMessage in a runner `h`: fetch → confirm → (uncart →
  commit)* for a success, fetch → clear* → fail for a failure.
- `results` is what was published or posted, `deliveries` how often each result
  was given to a handler.  payment-service is the action `PaymentResult`: the page
  can post either result for any order that was saved.
- `uncarted`, `sold` and `raced` are history: the products an order asked cart-service to
  remove, the units a commit took for it, and whether two handlers acted on it at once: a
  handler read that it awaits payment (`FetchOrder`) while another that had read the same
  was not yet done with it (`Contended`).

Each module's own variables change only by its own actions, and the calls made
are the whole set of ProductService requests order-service makes; that
`OrderFlow` uses the service as specified is checked (`ProductServiceSpec`).

### OrderLife

`OrderLife` is what the two services promise together, with the status of each order, the stock and
the holder of each product, and the units each order took, and nothing of the calls and handlers: `Place`,
`Settle`, `Hold`, `Release` and `Take` are single steps.  `OrderFlow` is shown to implement it
(`OrderLifeSpec`), with any number of handlers.  The mapping reads the status from the orders
table, the stock from the products table, and takes a product as held while its reservation is live
(`Holder`, the `_reserved` of productService.js:94-107): a lapse is a `Release`, and the sweep of the job
none at all.  `contested` is `raced`: such an order may settle again and take again, but
even then it takes only what is in stock and no other order holds.  The step `Hold` is
open only to orders that are not placed and `Take`, otherwise, only to confirmed ones that have
taken nothing of the product, which a reserve or a commit that is served after its caller
gave up could violate.  It does not promise that a confirmed order takes its units
(`flow_oversold`), nor that an order holds what it is placed for.

### Carts, CartService

`Carts` is the promise: a request changes the lines of one cart in one step, or not at all.
It starts from the last version of the cart, unless it was *overtaken*: another request put the
cart after this one had read it, and this one's put is then made from the version it holds
(`held`), so that the change of the other is lost.  Nothing else may happen to a cart.

`CartService` is the code: `validate` (addItem asks product-service), `get`, `put`, with
other requests on the same cart in between, over all replicas; and the consumer of
product.deleted, which scans in pages and calls `removeItem` for every cart in the page that
has the product, the page being as old as its read.  `SetPrice` and `PublishDeleted` are
product-service's side.  `overtaken` is history: the requests that hold a version of a cart
which another request's put has replaced.

The consumer's group has a `position` in the topic.  When it joins (`JoinGroup`) without a
committed offset it is at the *end* of the topic (`fromBeginning: false`,
productDeletedConsumer.js:13), so what was published before is never delivered.  A message
counts as consumed, and its offset as committed, when eachMessage returns (`EndSweep`),
which it also does when a scan fails (`FailScan`: lines 44-46 log it).  A removal that fails is
logged too (lines 37-39) and the loop goes on.  When the replica stops (`StopConsumer`), the message
it was at is delivered again from the committed offset, or, when there is none yet, is skipped.
`missed` is history: the carts a deletion was given up for in one of these ways since its
last delivery.

The bought items that OrderFlow asks cart-service to remove are requests
`remove` of CartService; what they do to the cart is modelled there only.

### ImageResize, ImageProcessor

`ImageResize` is the arithmetic of resize_image.  The code divides in floating point
and truncates: `Scaled` is the set of sides that may come out, the exact floor and, where
the exact result is a whole number that floats may miss from below, one less.

`ImageProcessor` has the source bucket (`uploads`, `bucket`, and `due`, the deliveries S3 still
owes), the workers (`work`: batch of records, record, attempt, picture held, size), the
Kafka producer of each (`buffer`), the processed bucket (`objects`) and the topic.

- `TakeRecord` is a turn of the loop in lambda_handler with get_object: what it holds is the version
  the key has *now*, not the one the notification was sent for.  `PutSize` is resize_image and put_object,
  `Publish` the event, after which the loop of process_image takes the next size (`Advanced`).
- `RefuseSize` and `FailS3` are exceptions: `AnswerError` is the `except` that answers 500 and
  drops the rest of the batch (`abandoned`).
- `Stop` is the platform's: the worker stops in any step and the batch is tried again from its
  first record while attempts are left.
- `Publish` may leave the event with the producer (`flush` timed out); `SendLate` sends it
  at any later time, also in the middle of another invocation.

`abandoned` and `overlapped` are history, for properties that speak of invocations
that were not given up, and of keys that only one invocation at a time worked on.

### AnalyticsJob

The stream of build_stream.  `Read` is enrich_event, the timestamp assigner and
process_element on the next event of a partition; `EmitWatermark` raises a subtask's
watermark to its latest stamp less one; `StartTimer` and `Persist` are on_timer, one `Persist`
per store, each of which may fail; `TakeCheckpoint`, `Recover` and `Submit` are Flink's
checkpoints and its two ways to start.  A record of a store is the sequence of the
events it counts, so that "counted", "counted twice" and "overwritten by fewer" can be
told apart; the code stores their number and the sum of their bytes.
`started`, `unwritten` and `recoveries` are history.

`Payloads` are the events there may be.  The one publisher of the repository sends
neither `timestamp` nor `size_label` (lambda_function.py:184-192), so every event is stamped
as it is read and labelled `"default"`; the module allows both fields, and the theorems
that need their absence assume it (`Unstamped`).  `OpenSpec` is the job with a topic that
any number of events come to; `Spec` bounds them for TLC.

### ImagePipeline

The image processor and the job over one topic, which they share and nothing else.
The job's `Produce` is the processor's `Send`: `DrivesTheJob` (the whole implements
`AnalyticsJob`'s `OpenSpec`) and `DrivesTheProcessor` say that neither does more than its
module allows, so that what holds of each holds of the two; `CountedIsStored` needs both.

## 3. Runs

| run | instance | question |
|---|---|---|
| product_admin | 1 product, 2 orders, 2 requests at once, all 8 handlers, quantities 1–2, stock up to 2 | does a row stay well typed, unwedged, unstolen and unsold-under, whatever two handlers interleave? |
| flow_race | 2 orders over 2 products in crossed orders, 3 and 1 units, 2 results per order, 2 handlers, 2 deliveries in all, commits may time out, no other fault | conservation of units, reserved units stay in stock, refused orders hold nothing; do orders settle once unless two handlers act on one at once? |
| flow_faults | 2 orders (1 and all 3 of 3 units), 2 handlers, 2 deliveries in all, every statement may fail, replicas stop, slow commits and slow reserves | are units sold once, and only to confirmed orders, whatever stops, unless two handlers act on the order at once? does an order live as `OrderLife` says? |
| flow_release | the same with one handler, reserves time out, fairness of product-service only | is every reservation released in the end; is product-service used as specified? |
| flow_oversold | 2 orders of 2 of 3 units, no faults | has a confirmed order its units? **No** |
| flow_two_handlers | 1 order, both results, 2 handlers | does an order settle once? **No** |
| cart_requests | 1 cart, 2 products, lines of one unit, 2 requests and the consumer overlapping, faults | do requests in any overlap implement `Carts`; does a removed product come back only by addItem or an overtaken request? |
| cart_swept | 2 carts, lines up to 2 units, a request overlapping the consumer, paged scan, calls that fail, one stop of the consumer | does a deletion that the group is given reach every cart, but for the failures the code logs and skips; `Carts` for two users |
| cart_resurrected | 1 cart, one request and the consumer overlap | does a removed product stay out? **No** |
| image_faults | 2 keys (an image and a text), 2 pictures (7 by 11, and 200 by 1, which has no thumbnail), 2 uploads, 2 workers, batches of 2, 2 attempts, 1 event sent late, stops and S3 errors | do events mean objects; are refused pictures left out whole; is a settled key current; is every image processed in the end? |
| analytics | 2 partitions with 2 events each, 2 subtasks, windows of 2 in times 0 to 4, 1 recovery or submission, failing stores | are events kept, counted once before a recovery, never forgotten; are passed windows persisted? |
| pipeline | 1 upload, 2 attempts, 1 event sent late, 1 recovery or submission | is every counted event's object stored; does the pipeline implement AnalyticsJob? |

The runs marked **No** are findings (section 5): their property states a
comment or a document of the repository, and TLC's trace is the disagreement.

**Why the bounds are enough.**  A row is changed by one statement at a time, and
a stale write needs one reader and one writer, so two slots show every pairwise
race of handlers; two orders are needed for one to take what the other holds, and the
third party of a three-way race would be one more of these.  `MaxStock` bounds only
restocks (administrators), stock 0, 1 and 2 with quantities 1 and 2 give "more than
asked", "exactly" and "too little".  In the flow runs three units allow an order
that is not reserved (leaves some) next to one that takes the last; the crossed
item lists make the second reservation of either fail after the first succeeded.
`MaxResults` 2 lets success and failure of one order both exist; `MaxDeliveries` 2, in all,
is one result of each order, or both results of one, or a redelivery; two handlers are what it takes
to act on one order at once, and a third would race with one of the two.  `MaxLine` bounds a line's quantity (an addItem
that would exceed it does not go on); one cart with two requests and the consumer's is
enough for the overlaps, as a request touches one cart only: with three on it one may overtake
another that has itself overtaken a third.  Two carts are needed for the scan to have two pages,
and one stop of the consumer (`MaxStops`) falls into any step of a scan, before or after the
first committed offset.  Two uploads to one key with two workers make
invocations overlap and notifications come in the wrong order, and the same two in
one batch follow each other; two attempts are one retry of every step, and the pictures are one that
leaves margins of an odd number of pixels and one that some sizes refuse.  `MaxDeliveries` is 1
there: a second delivery repeats what a retry does, with the same two uploads; `MaxUnsent` 1 is one event
sent late.  The run's VIEW forgets the order of the events in the topic, which no action
and no property of ImageProcessor depends on (a step that changes the topic changes another variable too).  In `analytics`, a window of the first events and one of the second, on two subtasks
that need not agree on the time, give windows that pass while another partition is behind,
and one restart falls between any two of a window's writes; the proofs cover more.  Symmetry is used in safety runs and over slots, orders,
users and products only where the instance treats them alike; the run with
liveness (flow_release, cart_swept) use none, and those with unequal orders none
but of slots and handlers.

**Deadlock.**  The flow runs end: each order is placed once and results are
delivered `MaxDeliveries` times in all, hence `CHECK_DEADLOCK FALSE`.  The product and cart
runs check deadlock.  The uploads of `image_faults` and `pipeline`, and the events and the time of `analytics`,
are bounded, so these end too.

**Fairness.**  `ServiceFairness`: a handler that was called goes on (or fails: `Fail` is
one of its steps); time passes (`Lapse`); the expiry job runs
(`jobs/expireReservations.js:24-29`, setInterval every 60 s in each replica; a failing
run is logged and the next one comes).  `ReleasedInTheEnd` is checked under these
alone: order-service may stop for ever at any point.  In CartService the consumer's steps are weakly fair and
`TakeDeleted(p)` strongly: the message of a product waits while the scan of another
runs, and Kafka's log order gives it its turn.  A step may fail instead of going on (`Fail`, `FailScan`),
and the replica may stop `MaxStops` times: a consumer that stopped for ever would deliver nothing.
That it starts again is the deployment's doing (`replicas: 2`, restarted pods).  `FairSpec` of ImageProcessor: the platform invokes the function for what is due
when a worker is free, and a running handler goes on; a worker that is stopped at every attempt ends in
`abandoned`.  `JobFairness`: Flink emits periodic watermarks, fires timers and runs
on_timer.  Nothing is assumed of clients, of S3 calls, of stores, or of events arriving.

**Handlers.**  Payment results are handled by the Kafka consumer of each of two replicas (one
group, two topics, so each replica may be given one of them) and by the HTTP endpoint.  So
`flow_race` and `flow_faults` have two runners of handlePaymentMessage, and no property or theorem
assumes one.  Two runners that act on one order at once break three promises
(`flow_two_handlers` shows the first; TLC finds the other two in the same instance): the order leaves CONFIRMED or FAILED, takes units
though it is FAILED, or takes them twice.  `SettlesUnlessRaced`, `SoldIsConfirmed`, `SoldOnce` and
`OrderLifeSpec` except exactly these orders (`raced`), and no others: handlers of different
orders, or of one order one after the other, with stops and redelivery between them, are not excepted.
`flow_release` has one handler: it asks about product-service, under whose fairness alone it is checked.

## 4. What is proved

`ProductServiceProofs`, for any products, orders, slots, quantities:

- `TypeInvariant`, `NoRowIsWedged`: `Spec => []TypeOK`, `Spec => []NoWedgedRow`.
- `ReservationsAreNotStolen`, `ReservedUnitsAreNotSold`: the action properties
  `NoTheft` and `NoSaleUnderReservation`.

The inductive invariant is `TypeOK /\ Served /\ FoundIsThere /\ NoWedgedRow`.  `TypeOK` is
not inductive alone: a handler's write is typed only if its request is one
(`Served`) and the row it found is still a row (`FoundIsThere`: rows are never
deleted).  `NoWedgedRow` needs to know that a statement that sets one reservation
column sets the other or keeps it: each statement is shown once, as a lemma on
rows (`TakeRow`, `ClearRow`, ...), to give a row that is not wedged from one
that is not, and the steps of handlers cite these.  The action properties follow
from a lemma that says what one step may do to one row.

`CartServiceProofs`, for any users, products, slots, quantities, prices, with requests on one
cart in any overlap and failures at every await:

- `TypeInvariant`: `TypeOK`;
- `CartsImplemented`: CartService implements `Carts` (`CartsSpec`; refinement mapping: the lines of the
  documents, and for `held` the versions that overtaken requests hold);
- `ProductsComeBackOnlyOvertaken`: `LinesComeBackOnlyOvertaken`.

The inductive invariant is `Tables /\ CallsInv /\ Current /\ Scan`.  Its heart is `Current`: at
its put a request that was not overtaken holds the cart that is in the table.  It is inductive
because a put makes overtaken every other request that has read that cart, the consumer's included, and
a request that reads anew is not overtaken any more.  The steps that write a cart are then matched with the
actions of `Carts`: a put of what was read with one line changed is that change of the last
version or of a held one (`Versions`, `PutHolds`).

Assumptions: those the modules name (`NoOrderAssumption`, `ProductServiceAssumption`,
`NoReqAssumption`, `CartServiceAssumption`, `OrderFlowAssumption`), which TLC evaluates in the runs.  Where units
are summed they say that there are finitely many orders.

`SumProofs` has the lemmas about `SumFunction` of the community modules: a sum of numbers is a number, the
sum of zeros is 0, and changing one term changes the sum by the difference.  The fold is a recursive
function over the subsets of its domain; the induction theorems of the library take a predicate and
cannot be used here, so the induction is done on sets: the least element of the set of sizes at which
a subset violates the claim.

`OrderFlowProofs`, for any orders, items, slots, results and faults:

- `TypeInvariant`; `OrdersUseTheService`: OrderFlow implements ProductService (`ProductServiceSpec`);
- `ReservedUnitsAreThere`: `ReservedUnitsInStock`;
- `NoUnitIsLost`: `UnitsConserved`.  Every step moves units between one row and one order, or none;
- `OrdersLiveAsPromised`: OrderFlow implements `OrderLife` (`OrderLifeSpec`);
- `OnlyConfirmedOrdersTake`, `UnitsAreTakenOnce`, `OrdersSettleUnlessRaced`: `SoldIsConfirmed`, `SoldOnce` and
  `SettlesUnlessRaced`.

All hold for any number of handlers; the last four say nothing of the orders in `raced`,
of which `flow_two_handlers` shows that they do not settle once.

`Typed` is the first invariant: product-service's own (taken from `ProductServiceProofs` through an
instance), the calls sent are ones order-service sends, and each checkout and handler refers to
orders and items there are.  `Settled` is the second: an order's status is what the handler
at work on it last saved, a commit in service belongs to a confirmed order, there is one commit at
most for each item of an order, in service or done, and the items the handler has yet to
reach are untaken.  All this is said of the orders that are not in `raced`, at which one handler acts at a time:
a handler that begins to act makes the order raced if another is at it.  `SoldOnce` is not inductive alone because a commit that timed out for
order-service is still in service and may take effect when the handler is far beyond it.

The refinement needs one invariant more, `ReservesUnsaved`: a reserve in service belongs to a checkout that
waits for its answer, or to one that gave up and was refused, or stopped, and whose order is not saved.
So a reserve that lands late is a `Hold` of an order that was never placed (and a hold that
`ReleasedInTheEnd` says is lost).  Each step is then matched: SaveOrder is `Place`, ConfirmOrder
and FailOrder are `Settle`, a served reserve is `Hold`, a served commit that affects its row is
`Take`, a served clear and `Lapse` are `Release`, and all others leave the state of OrderLife alone.

`OrderRollbackProofs`, for any orders, items, slots and payment results:

- `RefusedCheckoutsHoldNothing`: `RefusedHoldsNothing`, under `NothingLost` (`Faults = FALSE`, and no reserve or clear
  is given up), which `flow_race` satisfies.  Without it the property is false of the code: a reserve that
  times out may be served after the checkout was refused.

The invariant `Pending` says that every order a row names has a checkout that may have reserved that product from
where it stands: an item before the one it is at, the one it is at once the reserve was served, or, rolling
back, one that it has yet to clear.  It needs to know that each call in service of a checkout is the
one its stage made and that nobody else waits on its slot, and that a `clear` has read the
name of the order if the row still bears it.

`ImageProcessorProofs`, for any keys, base names, pictures, workers, attempts, batches, unsent events and faults:

- `TypeInvariant`, `EventsMeanObjects`, `RefusedPicturesLeaveNothing`, `PicturesAreCentred`,
  `SettledKeysAreCurrent`, of the five invariants of `image_faults`.

`EventMeansObject` needs the same of the events in producers' buffers and of the size a
worker is about to publish.  `NoPartOfARefusedPicture` rests on a lemma on `ImageResize`: a picture that fits
the smallest frame fits the larger ones (`Scaled` grows with the frame), and the first is done
first.  `SettledIsCurrent` needs, for every key of its own base name that was not overlapped, that the last
upload is due, or with a worker that has not read it yet, or held by the worker that is at work on the sizes
with all earlier sizes current, or current in all sizes.

`AnalyticsJobProofs`, for any partitions, subtasks, labels, window width, events without bound, and faults:

- `TypeInvariant`, `EventsAreCountedOnce`;
- `EventsAreKept`, `CountsAreNeverForgotten` (`ReadIsKept`, `NeverForgotten`), for publishers
  that do not stamp their events (`Unstamped`).  A stamped event that comes late falsifies both: it
  re-opens a window that was persisted, and the record of the late events replaces the other.

They are about `OpenSpec`; `BoundedRunsToo` restates them for the `Spec` of the run.  The invariant `Sound` says that
watermarks follow the stamps given, that a window that is being persisted is closed to new
events in this run of the job, that the windows in the checkpoint hold what was read by then, that every
event since the submission is accounted for in each store (and would be after a
recovery), and that a record that lacks an event of a persisted window was written by an earlier run whose
events are read again.  `CountedOnce` has the invariant `CountedBefore`.

`ImagePipelineProofs`:

- `PipelineDrivesTheProcessor`, `PipelineDrivesTheJob`: the two implementations;
- `PipelineKeepsEvents`: `ReadIsKept` and `NeverForgotten` without `Unstamped`, which what upload_image publishes discharges;
- `CountedPicturesAreStored`: `CountedIsStored`, from `EventMeansObject` on the one side and, on the other, that
  a store counts only what is in the topic.

**Model-checked only.**  All liveness (`ReleasedInTheEnd`, `SweptFromCarts`, `ProcessedInTheEnd`,
`PassedIsPersisted`): liveness under fairness and ENABLED are outside what TLAPS does.  Every other property of a
passing run is a theorem.

## 5. Findings

1. `flow_oversold`: two orders of 2 of 3 units both pass the check, neither is
   reserved (each leaves one), both are confirmed, one commit affects no row and nobody
   looks (`product-service/src/services/productService.js:323-325`,
   `order-service/src/services/paymentConsumer.js:44`).
2. `flow_two_handlers`: two results of one order handled at once both pass the status
   check (`paymentConsumer.js:20-24`).
3. `cart_resurrected`: a request that read the cart before the removal of a
   deleted product puts it back (`src/ARCHITECTURE.md:21`).  `LinesComeBackOnlyOvertaken` says that
   this is the only way it comes back without addItem.

Further observations, each visible in one definition and not given a run:

- clearReservation checks the owner on the row it read; by the write the reservation may
  have lapsed and been taken by another order, whose reservation is then cleared
  (`ProductService.ClearReservation`; productService.js:428 promises "Only clear if matching orderId").
- A deletion does not reach a cart whose removal fails, or that a failed scan had not come to
  (`CartService.Fail`, `FailScan`; productDeletedConsumer.js:37-39, 44-46 log it and the message is
  consumed), nor any cart when the consumer stops before its group has committed an offset
  (`StopConsumer`; line 13).  `SweptFromCarts` excepts these and nothing else.
- A restock writes the stock it read plus the quantity; a sale in between is undone
  (`ProductService.AdjustStock`; productService.js:382-384).
- Nothing republishes an order marked kafka_publish_failed (`OrderFlow.MarkUnpublished`;
  orderService.js:168 speaks of a background retry).
- After a recovery an unstamped event is stamped anew and can be counted in two windows (`AnalyticsJob.Recover`,
  `Stamps`); `CountedOnce` therefore stops at the first recovery.
- Late stamped events replace a record by one that counts less (`AnalyticsJob.Read`, `Persist`).  No publisher stamps.
- `src/docs/multi-cloud-architecture.md:45` says that the job "aggregates bytes per `size_label`"; the events it gets
  carry `size`, no `size_label` and no `size_bytes` (lambda_function.py:184-192), so every event counts as `"default"` with 0 bytes.
- An exception in lambda_handler drops the rest of its batch without a retry (`ImageProcessor.AnswerError`).
- The names `{size}/{base}_{w}x{h}.jpg` of the processed bucket leave out the folder: keys of two folders with
  one file name share their processed objects (`ImageProcessor.KeyOf`; `OwnBase` excepts them).
- resize_image's two guards "Ensure dimensions don't exceed target" never apply (lemma `ScaledBounds`).

What holds is the larger part: with all the stale writes, no stock goes below zero, no row is
wedged, no reservation outlives the next runs of the job, and no picture or event is lost by a
retry.  No unit is sold twice to an order, or to an unconfirmed one, as long as no two handlers of
payment results act on that order at once (finding 2); when they do, it may take its units twice, or be
FAILED and have taken them, though even then only units that are in stock and reserved by nobody else.

## 6. Abstractions and what is not modelled

- Reads are consistent: a DynamoDB `get` or `scan` sees the last put.  `getOrder`, `getCart` and the consumer's
  scan do not ask for consistent reads, so on AWS they may be older.
- A PUT of a product passes its body to `update` unfiltered (productController.js:41,
  productService.js:224), so it may write any columns, the two reservation columns included, and several
  at once; a POST (productService.js:10) likewise.  The model's bodies are narrower: a stock *or* `isActive: true`
  (`PutStock`, `Reactivate`), and a new row without a reservation (`CreateProduct`).  No client in the repository sends a
  PUT.  One that writes a reservation is outside the model, and could make rows that `NoWedgedRow` and `NoTheft` exclude.
- The cart's stored totals (`totalAmount`, `itemCount`) are left out: each put recomputes them from
  the lines it writes.  Quantities are numbers; the validation also accepts numeric strings, which
  updateItemQuantity stores as they came (cartService.js:125), after which `itemCount` is a concatenation.
- One consumer is at work on product.deleted at a time, and the message of each product is there once: one
  partition, one member of the group.  What kafkajs does with offsets is modelled as an external part.
- Orders have a user.  The validation accepts an empty `userId` (isString,
  order-service/src/middleware/validation.js:4), and handlePaymentMessage then confirms such an order
  without the loop over carts and commits (paymentConsumer.js:34).
- Order ids are distinct (they are a time in milliseconds).
- A product of an order appears once in it, as carts hold one line per product.
- Money: orders carry no amount in OrderFlow; computing the total reads only.
- A service without its database answers from built-in rows, in development; not modelled.
- uploadProductImage writes columns no other handler reads; listings only read.
- payment-service's consumer, notification-service and user-service are not
  modelled (section 7).  frontend-web, infrastructure, the Java Flink job and the
  maintenance scripts have no state of their own that several actors change.
- Pictures have sides and no pixels; a key of the source bucket is a model value (S3
  sends it URL-encoded and the function uses it as it comes, so a key with a space is not found:
  that is one of the errors of `FailS3`).
- Events are ones enrich_event accepts.  A record that is not JSON makes the job fail and read it again
  for ever.  Reading an event and processing it is one step.
- One analytics job runs at a time.  `src/k8s/overlays/local/flink-job.yaml` and `src/terraform/gcp` each submit one.
- `AnalyticsWindowFunction` (flink_analytics_job.py:69-170) is an earlier variant that nothing uses;
  `lambda_function_minimal.py` and `lambda_function_backup.py` are not deployed.
- Third-party code.  Of some 165,000 lines of Python in the repository all but about a thousand are copies of Pillow, boto3,
  botocore, urllib3, dateutil and kafka-python under `src/serverless/image-processor/python` and `lambda-package`.
  They are modelled from how the function uses them (`Send`, `SendLate`, `Resizable`, the errors of `FailS3`) and not
  from their source, so the share of the repository's Python that is modelled is small by construction.  Of the
  project's own, `lambda_function.py` and the stream of `flink_analytics_job.py` are modelled throughout.

## 7. Plan

Done: product-service, order-service and cart-service with their proofs; the image
processor, the analytics job and the pipeline of the two with theirs.  What is left, in this order:

1. `PaymentService`: the consumer of payment.requested with its error path, which can publish
   payment.failed after payment.succeeded, in place of `PaymentResult`; composed with OrderFlow.
2. `UserService` (registration races, the password migration of authenticate against an
   update), `NotificationService` (redelivery, order state read at send), order ids that collide.
3. Two analytics jobs at once, and publishers that stamp their events.

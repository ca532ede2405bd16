------------------------------ MODULE Checkout ------------------------------
(***************************************************************************)
(* Buying one listing: from the order to the payment that fulfils it       *)
(* (app/routers/orders.py, app/payments/, app/catalog_helpers.py and the   *)
(* private offers of app/routers/platform_features.py).                    *)
(*                                                                         *)
(* Every HTTP request, webhook or job that touches an order runs in a      *)
(* database session of its own.  It reads the rows it works on and commits *)
(* later; nothing re-reads an order, no row carries a version, and the     *)
(* ORM's UPDATE writes exactly the columns whose value the request         *)
(* changed.  A request is therefore a pair of steps: one reads (Begin...)  *)
(* and keeps the rows as it saw them, one commits (Finish...) against      *)
(* whatever the rows have become.  Handlers that lock the listing with     *)
(* SELECT ... FOR UPDATE see its current value in their second step,       *)
(* except /pay, whose session had loaded the listing before it locked it.  *)
(*                                                                         *)
(* The payment provider is external: it holds the payments (intents) that  *)
(* checkout opened, lets the buyer pay any open one at any time, and tells *)
(* the backend late, repeatedly or never.  A Stripe checkout session that  *)
(* the buyer completed may still be waiting for its money (wallets), which *)
(* arrives or fails later; the backend takes a completed session for paid. *)
(*                                                                         *)
(* Left out: coupons, the escrow fee, blocked users, notifications.        *)
(***************************************************************************)
EXTENDS Naturals, FiniteSets

CONSTANTS
    Order,        \* order ids
    Item,         \* bundle items; empty unless Kind = "bundle"
    Offer,        \* private offers on the listing
    Request,      \* database sessions open at the same time
    Kind,         \* Listing.type: "product", "service" or "bundle"
    Op,           \* the kinds of requests that arrive (names below)
    Price,        \* the listing's initial price
    OtherPrice,   \* a price the seller may set instead
    OfferPrice,   \* the total of a private offer
    Share,        \* a bundle item's share of the bundle price
    ItemPrice,    \* a bundle item's separate price
    MaxIntent,    \* payments opened per order
    Provider,     \* who holds the n-th of them: "stripe" or "paypal"
    NoItem, NoOffer, None

ASSUME PriceAssumption ==
    {Price, OtherPrice, OfferPrice, ItemPrice} \subseteq Nat \ {0} /\ Share \in Nat
ASSUME SizeAssumption == MaxIntent \in Nat /\ IsFiniteSet(Item)
ASSUME ProviderAssumption == Provider \in [1..MaxIntent -> {"stripe", "paypal"}]
ASSUME KindAssumption ==
    /\ Kind \in {"product", "service", "bundle"}
    /\ Kind # "bundle" => Item = {}
ASSUME NullAssumption == NoItem \notin Item /\ NoOffer \notin Offer

VARIABLES
    order,     \* the orders table; status "none" is no row
    listing,   \* the listing row
    offer,     \* status of each private offer
    intent,    \* the provider's payments: intent[o][n]
    req,       \* open requests, with the rows as they read them
    aged,      \* orders past the payment deadline
    lapsed     \* offers past their expiration time

vars == <<order, listing, offer, intent, req, aged, lapsed>>

-----------------------------------------------------------------------------
\* Rows.

Unpaid     == "pendingPay"
Owning     == {"pendingShip", "pendingService"}  \* later owning stages: Settlement
Fulfilled  == Owning \cup {"completed"}
Conflicted == {"refunded", "refundInProgress", "inDispute"}
OrderStatus == {"none", Unpaid, "cancelled"} \cup Fulfilled \cup Conflicted

PaymentStatus == {"none", "open", "approved", "succeeded", "failed",
                  "cancelled", "refunded"}

\* The n-th payment opened for an order, as a transaction names it.
Payment == Order \X (1..MaxIntent)
NoPayment == <<None, 0>>

OrderRow == [status : OrderStatus, item : Item \cup {NoItem},
             offer : Offer \cup {NoOffer}, amount : Nat,
             payment : PaymentStatus,
             pspId : 0..MaxIntent,     \* psp_payment_id
             txId : Payment \cup {NoPayment},   \* psp_transaction_id
             refund : {"none", "pending", "succeeded"}]

NoOrder == [status |-> "none", item |-> NoItem, offer |-> NoOffer, amount |-> 0,
            payment |-> "none", pspId |-> 0, txId |-> NoPayment, refund |-> "none"]

ListingRow == [status : {"active", "inactive", "sold"}, price : Nat,
               sold : SUBSET Item]

OfferActive == {"PENDING", "VIEWED"}
OfferStatus == OfferActive \cup {"none", "CONVERTED_TO_ORDER", "INVALIDATED", "REJECTED",
                                 "CANCELLED", "EXPIRED"}

\* A payment at the provider: 0 refunded unless paid.  "complete" is a session
\* whose money is pending, "bounced" one whose money never came.
Finished == {"complete", "captured", "bounced"}
IntentState == {"unused", "open", "approved"} \cup Finished
IntentRow == [state : IntentState, amount : Nat, refunded : Nat]
NoIntent == [state |-> "unused", amount |-> 0, refunded |-> 0]

\* An open request: what it does, to which order or offer, the rows it read,
\* the payment it is about, the status it gives an offer.
NoListing == [status |-> "inactive", price |-> 0, sold |-> {}]
Idle == [op |-> "idle", o |-> None, f |-> NoOffer, row |-> NoOrder,
         lst |-> NoListing, pay |-> NoPayment, val |-> "none"]

\* The columns of a row that a commit writes: those the request changed.
Put(now, read, new) == IF new # read THEN new ELSE now

MergeOrder(now, read, new) ==
    [status  |-> Put(now.status, read.status, new.status),
     item    |-> Put(now.item, read.item, new.item),
     offer   |-> Put(now.offer, read.offer, new.offer),
     amount  |-> Put(now.amount, read.amount, new.amount),
     payment |-> Put(now.payment, read.payment, new.payment),
     pspId   |-> Put(now.pspId, read.pspId, new.pspId),
     txId    |-> Put(now.txId, read.txId, new.txId),
     refund  |-> Put(now.refund, read.refund, new.refund)]

\* price and the items' statuses live in one JSON column of a bundle.
MergeListing(now, read, new) ==
    [status |-> Put(now.status, read.status, new.status),
     price  |-> Put(now.price, read.price, new.price),
     sold   |-> Put(now.sold, read.sold, new.sold)]

Commit(r, new) ==
    order' = [order EXCEPT ![req[r].o] = MergeOrder(@, req[r].row, new)]

Close(r) == req' = [req EXCEPT ![r] = Idle]

-----------------------------------------------------------------------------
\* The listing.

\* listing_checkout_amount: sold items no longer count.
CheckoutAmount(l) ==
    IF Kind # "bundle" THEN l.price
    ELSE LET share == Share * Cardinality(l.sold)
         IN  IF l.price > share THEN l.price - share ELSE 0

\* (Mutation: only listings taken down are unavailable.)
NotTakenDown(l, row) == l.status # "inactive"

\* _paid_order_inventory_is_available, and the same test in create_checkout.
InventoryAvailable(l, row) ==
    /\ l.status = "active"
    /\ row.item # NoItem => row.item \notin l.sold
    /\ Kind = "bundle" /\ row.item = NoItem /\ row.offer = NoOffer
         => CheckoutAmount(l) = row.amount

\* (Mutation: a sold bundle item stays available.)
SellWholeOnly(l, row) ==
    IF row.item = NoItem THEN [l EXCEPT !.status = "sold", !.sold = Item] ELSE l

\* apply_bundle_item_payment, apply_bundle_payment or a plain sale.
SellTo(l, row) ==
    IF row.item = NoItem THEN [l EXCEPT !.status = "sold", !.sold = Item]
    ELSE LET sold == l.sold \cup {row.item}
         IN  [l EXCEPT !.sold = sold,
                       !.status = IF sold = Item THEN "sold" ELSE @]

\* Two orders that cannot both be honoured.
Overlap(a, b) == a.item = NoItem \/ b.item = NoItem \/ a.item = b.item

OpenStatus == {Unpaid} \cup Owning

\* _conflicting_open_order for a purchase of item i.
ConflictingOpenOrder(i) ==
    \E p \in Order :
        \/ order[p].status \in Owning /\ Overlap(order[p], [item |-> i])
        \/ order[p].status = Unpaid /\ order[p].offer # NoOffer

\* (Mutation: an accepted offer awaiting payment does not count.)
ReservedByPurchase == \E p \in Order : order[p].status \in Fulfilled

\* accept_private_offer's owning_order: completed purchases count here.
ReservedForOffer ==
    \E p \in Order :
        \/ order[p].status \in Fulfilled
        \/ order[p].status = Unpaid /\ order[p].offer # NoOffer

-----------------------------------------------------------------------------
\* Reading: a request opens a session and keeps the rows it read.

Open(r, q) ==
    /\ req[r] = Idle /\ q.op \in Op
    /\ req' = [req EXCEPT ![r] = q]
    /\ UNCHANGED <<order, listing, offer, intent, aged, lapsed>>

\* (Mutation: the status is not checked.)
ReadAny(r, op, o, pay) ==
    /\ order[o].status # "none"
    /\ Open(r, [Idle EXCEPT !.op = op, !.o = o, !.row = order[o], !.pay = pay,
                            !.lst = IF op \in {"pay", "update"} THEN listing
                                    ELSE NoListing])

\* The handlers of an unpaid order o, which all begin by refusing any other.
ReadUnpaid(r, op, o, pay) ==
    /\ order[o].status = Unpaid
    /\ Open(r, [Idle EXCEPT !.op = op, !.o = o, !.row = order[o], !.pay = pay,
                            !.lst = IF op \in {"pay", "update"} THEN listing
                                    ELSE NoListing])

\* pay_order: the provider has confirmed, and a private offer is still good.
BeginPay(r, o) ==
    /\ order[o].payment = "succeeded"
    /\ order[o].offer # NoOffer => offer[order[o].offer] = "CONVERTED_TO_ORDER"
    /\ ReadUnpaid(r, "pay", o, NoPayment)

\* (Mutations: an event about any session counts; only the order's latest
\* payment is recognised.)
SettledUnfinished(r, o, n) ==
    /\ Provider[n] = "stripe" /\ intent[o][n].state # "unused"
    /\ ReadUnpaid(r, "settled", o, <<o, n>>)
SettledLatest(r, o, n) ==
    /\ Provider[n] = "stripe" /\ intent[o][n].state \in Finished
    /\ n = order[o].pspId
    /\ ReadUnpaid(r, "settled", o, <<o, n>>)

\* payment_intent.succeeded or checkout.session.completed of payment n of o;
\* whether a completed session was paid is not looked at.
BeginSettled(r, o, n) ==
    /\ Provider[n] = "stripe" /\ intent[o][n].state \in Finished
    /\ ReadUnpaid(r, "settled", o, <<o, n>>)

\* stripe_return, with the id of a completed session in the query: nothing
\* ties the session to the order, only the order's provider is compared.
BeginReturn(r, o, p, n) ==
    /\ order[o].pspId # 0 /\ Provider[order[o].pspId] = "stripe"
    /\ Provider[n] = "stripe" /\ intent[p][n].state \in Finished
    /\ ReadUnpaid(r, "return", o, <<p, n>>)

\* paypal_return: the backend itself captures the approved payment.
BeginCapture(r, o) ==
    /\ order[o].pspId # 0 /\ Provider[order[o].pspId] = "paypal"
    /\ ReadUnpaid(r, "capture", o, <<o, order[o].pspId>>)

\* confirm_checkout, for a payment that has succeeded at the provider.
BeginConfirm(r, o) ==
    /\ order[o].pspId # 0 /\ Provider[order[o].pspId] = "stripe"
    /\ intent[o][order[o].pspId].state = "captured"
    /\ ReadUnpaid(r, "confirm", o, <<o, order[o].pspId>>)

\* A failure event of some payment of o, possibly late; PayPal's are recognised
\* by the order's current payment only.
BeginFailed(r, o) ==
    /\ \E n \in 1..MaxIntent : /\ intent[o][n].state # "unused"
                               /\ Provider[n] = "stripe" \/ n = order[o].pspId
    /\ ReadUnpaid(r, "failed", o, NoPayment)

\* CHECKOUT.ORDER.APPROVED.
BeginApproved(r, o, n) ==
    /\ Provider[n] = "paypal" /\ intent[o][n].state \in {"approved", "captured"}
    /\ ReadUnpaid(r, "approved", o, NoPayment)

\* cancel_order, seller_cancel_order; paypal_cancel and stripe_cancel once
\* checkout has named a provider.
BeginCancel(r, o) == ReadUnpaid(r, "cancel", o, NoPayment)
BeginPspCancel(r, o) == order[o].pspId # 0 /\ ReadUnpaid(r, "pspCancel", o, NoPayment)

BeginCheckout(r, o) == ReadUnpaid(r, "checkout", o, NoPayment)
BeginUpdate(r, o) == ReadUnpaid(r, "update", o, NoPayment)
BeginAdjust(r, o) ==
    order[o].offer = NoOffer /\ ReadUnpaid(r, "adjust", o, NoPayment)
BeginExpire(r, o) == o \in aged /\ ReadUnpaid(r, "expire", o, NoPayment)

\* get_private_offer, reject, cancel, and the two ways an offer expires.
BeginCloseOffer(r, f, val) ==
    /\ offer[f] \in OfferActive
    /\ val = "VIEWED" => offer[f] = "PENDING"
    /\ (val = "EXPIRED") <=> (f \in lapsed)
    /\ Open(r, [Idle EXCEPT !.op = "offer", !.f = f, !.val = val])

\* (Mutation: open orders do not matter.)
DeactivateAnyway(r) ==
    /\ listing.status # "inactive"
    /\ Open(r, [Idle EXCEPT !.op = "deactivate", !.lst = listing])

\* delete_listing of a listing that keeps its row, or update_listing.
BeginDeactivate(r) ==
    /\ listing.status # "inactive"
    /\ \A o \in Order : order[o].status \notin OpenStatus
    /\ Open(r, [Idle EXCEPT !.op = "deactivate", !.lst = listing])
BeginActivate(r) ==
    /\ listing.status = "inactive"
    /\ Open(r, [Idle EXCEPT !.op = "activate", !.lst = listing])
BeginReprice(r) ==
    /\ listing.status # "sold" /\ Kind # "bundle"
    /\ \A o \in Order : order[o].status \notin OpenStatus
    /\ Open(r, [Idle EXCEPT !.op = "reprice", !.lst = listing])

Begin(r) ==
    \/ \E o \in Order :
         \/ BeginPay(r, o) \/ BeginCapture(r, o) \/ BeginConfirm(r, o)
         \/ BeginFailed(r, o) \/ BeginCancel(r, o) \/ BeginPspCancel(r, o)
         \/ BeginCheckout(r, o) \/ BeginUpdate(r, o) \/ BeginAdjust(r, o)
         \/ BeginExpire(r, o)
         \/ \E n \in 1..MaxIntent : BeginSettled(r, o, n) \/ BeginApproved(r, o, n)
         \/ \E p \in Order, n \in 1..MaxIntent : BeginReturn(r, o, p, n)
    \/ \E f \in Offer, val \in {"VIEWED", "REJECTED", "CANCELLED", "EXPIRED"} :
         BeginCloseOffer(r, f, val)
    \/ BeginDeactivate(r) \/ BeginActivate(r) \/ BeginReprice(r)

-----------------------------------------------------------------------------
\* Creating orders.

Purchasable(i) ==
    /\ listing.status = "active"
    /\ ~ConflictingOpenOrder(i)
    /\ IF i = NoItem THEN CheckoutAmount(listing) > 0 ELSE i \notin listing.sold

NewOrder(i) == [NoOrder EXCEPT
    !.status = Unpaid, !.item = i,
    !.amount = IF i = NoItem THEN CheckoutAmount(listing) ELSE ItemPrice]

StaleOrders == {o \in aged : order[o].status = Unpaid}

\* (Mutation: the listing is taken off the market with the order.)
CreateAndHold(o, i) ==
    /\ "create" \in Op /\ StaleOrders = {}
    /\ order[o].status = "none" /\ Purchasable(i)
    /\ order' = [order EXCEPT ![o] = NewOrder(i)]
    /\ listing' = [listing EXCEPT !.status = "sold"]
    /\ UNCHANGED <<offer, intent, req, aged, lapsed>>

\* create_order while no unpaid order is past its deadline: the listing stays
\* locked from the first read to the commit.
CreateOrder(o, i) ==
    /\ "create" \in Op /\ StaleOrders = {}
    /\ order[o].status = "none" /\ Purchasable(i)
    /\ order' = [order EXCEPT ![o] = NewOrder(i)]
    /\ UNCHANGED <<listing, offer, intent, req, aged, lapsed>>

\* expire_stale_pending_pay_orders.
Expired(stale) ==
    [o \in Order |-> IF o \in stale THEN [order[o] EXCEPT !.status = "cancelled"]
                     ELSE order[o]]
OffersExpired(stale) ==
    [f \in Offer |->
        IF offer[f] = "CONVERTED_TO_ORDER" /\ \E o \in stale : order[o].offer = f
        THEN "EXPIRED" ELSE offer[f]]

\* create_order while some are: their expiry commits, which gives up the lock
\* on the listing, and the rest of the handler runs without it ...
BeginCreate(r) ==
    /\ req[r] = Idle /\ "create" \in Op /\ StaleOrders # {}
    /\ order' = Expired(StaleOrders)
    /\ offer' = OffersExpired(StaleOrders)
    /\ req' = [req EXCEPT ![r] = [Idle EXCEPT !.op = "create"]]
    /\ UNCHANGED <<listing, intent, aged, lapsed>>
\* ... it checks ...
CheckCreate(r, i) ==
    /\ req[r].op = "create" /\ Purchasable(i)
    /\ req' = [req EXCEPT ![r] = [Idle EXCEPT !.op = "insert", !.row = NewOrder(i)]]
    /\ UNCHANGED <<order, listing, offer, intent, aged, lapsed>>
\* ... and inserts.
FinishCreate(r, o) ==
    /\ req[r].op = "insert" /\ order[o].status = "none"
    /\ order' = [order EXCEPT ![o] = req[r].row]
    /\ Close(r)
    /\ UNCHANGED <<listing, offer, intent, aged, lapsed>>

\* create_private_offer.
CreateOffer(f) ==
    /\ "offer" \in Op /\ offer[f] = "none" /\ listing.status = "active"
    /\ offer' = [offer EXCEPT ![f] = "PENDING"]
    /\ UNCHANGED <<order, listing, intent, req, aged, lapsed>>

\* (Mutation: an offer that has its order already is accepted again.)
AcceptAgain(f, o) ==
    /\ "offer" \in Op /\ offer[f] \in OfferActive /\ f \notin lapsed
    /\ listing.status = "active" /\ ~ReservedForOffer
    /\ order[o].status = "none"
    /\ order' = [order EXCEPT ![o] =
         [NoOrder EXCEPT !.status = Unpaid, !.offer = f, !.amount = OfferPrice]]
    /\ offer' = [offer EXCEPT ![f] = "CONVERTED_TO_ORDER"]
    /\ UNCHANGED <<listing, intent, req, aged, lapsed>>

\* accept_private_offer: offer and listing locked throughout.  An offer that
\* has its order already is answered with that order.
AcceptOffer(f, o) ==
    /\ "offer" \in Op /\ offer[f] \in OfferActive /\ f \notin lapsed
    /\ \A p \in Order : order[p].offer # f
    /\ listing.status = "active" /\ ~ReservedForOffer
    /\ order[o].status = "none"
    /\ order' = [order EXCEPT ![o] =
         [NoOrder EXCEPT !.status = Unpaid, !.offer = f, !.amount = OfferPrice]]
    /\ offer' = [g \in Offer |-> IF g = f THEN "CONVERTED_TO_ORDER"
                                 ELSE IF offer[g] \in OfferActive THEN "INVALIDATED"
                                 ELSE offer[g]]
    /\ UNCHANGED <<listing, intent, req, aged, lapsed>>

\* The same handler on an offer past its time.
AcceptLapsedOffer(f) ==
    /\ "offer" \in Op /\ offer[f] \in OfferActive /\ f \in lapsed
    /\ offer' = [offer EXCEPT ![f] = "EXPIRED"]
    /\ UNCHANGED <<order, listing, intent, req, aged, lapsed>>

-----------------------------------------------------------------------------
\* fulfill_paid_order.

\* PayPal captures the approved payment, or refuses.
CapturePayment(r) ==
    LET q == req[r] IN
    /\ q.op = "capture"
    /\ \/ /\ intent[q.pay[1]][q.pay[2]].state = "approved"
          /\ intent' = [intent EXCEPT ![q.pay[1]][q.pay[2]].state = "captured"]
          /\ req' = [req EXCEPT ![r].op = "captured"]
       \/ /\ req' = [req EXCEPT ![r].op = "refused"]
          /\ UNCHANGED intent
    /\ UNCHANGED <<order, listing, offer, aged, lapsed>>

Confirming(r) == req[r].op \in {"pay", "settled", "return", "captured"}

\* The listing a confirmation works on: /pay has it from before the lock.
ListingSeen(r) == IF req[r].op = "pay" THEN req[r].lst ELSE listing

\* The order as the confirmation has it in memory.
PaidRow(r) ==
    [req[r].row EXCEPT !.payment = "succeeded",
                       !.txId = IF req[r].op = "pay" THEN @ ELSE req[r].pay]

FinishFulfil(r) ==
    LET l == ListingSeen(r) IN
    /\ Confirming(r) /\ InventoryAvailable(l, req[r].row)
    /\ Commit(r, [PaidRow(r) EXCEPT
                    !.status = IF Kind = "service" THEN "pendingService"
                               ELSE "pendingShip"])
    /\ listing' = MergeListing(listing, l, SellTo(l, req[r].row))
    /\ offer' = [f \in Offer |->
                   IF offer[f] \in OfferActive /\ f # req[r].row.offer
                   THEN "INVALIDATED" ELSE offer[f]]
    /\ Close(r)
    /\ UNCHANGED <<intent, aged, lapsed>>

\* refund_order_payment asks the order's provider (that of its latest checkout)
\* to return the order's amount.  A PayPal refund needs the capture id, and
\* neither provider knows the other's payments.
RefundTarget(o, row) ==
    IF row.txId = NoPayment /\ row.pspId # 0 /\ Provider[row.pspId] = "stripe"
    THEN <<o, row.pspId>> ELSE row.txId
RefundAccepted(r) ==
    LET pay == RefundTarget(req[r].o, PaidRow(r))
        o == pay[1]
        n == pay[2]
    IN  /\ pay # NoPayment /\ req[r].row.pspId # 0
        /\ Provider[n] = Provider[req[r].row.pspId]
        /\ intent[o][n].state = "captured"
        /\ intent[o][n].refunded + req[r].row.amount <= intent[o][n].amount
        /\ intent' = [intent EXCEPT ![o][n].refunded = @ + req[r].row.amount]

\* _refund_unavailable_paid_order: the provider returns the money at once,
\* later, or not at all.
ConflictOutcome(r, status, payment, refund) ==
    Commit(r, [PaidRow(r) EXCEPT !.status = status, !.payment = payment,
                                 !.refund = refund])

FinishConflict(r) ==
    /\ Confirming(r) /\ ~InventoryAvailable(ListingSeen(r), req[r].row)
    /\ \/ /\ RefundAccepted(r)
          /\ \/ ConflictOutcome(r, "refunded", "refunded", "succeeded")
             \/ ConflictOutcome(r, "refundInProgress", "succeeded", "pending")
       \/ /\ ConflictOutcome(r, "inDispute", "succeeded", req[r].row.refund)
          /\ UNCHANGED intent
    /\ Close(r)
    /\ UNCHANGED <<listing, offer, aged, lapsed>>

\* The refund went out and the process died before the commit.
RefundLost(r) ==
    /\ Confirming(r) /\ ~InventoryAvailable(ListingSeen(r), req[r].row)
    /\ RefundAccepted(r)
    /\ Close(r)
    /\ UNCHANGED <<order, listing, offer, aged, lapsed>>

-----------------------------------------------------------------------------
\* create_checkout.

NextIntent(o) == {n \in 1..MaxIntent : intent[o][n].state = "unused"}

OpenIntent(o, n, state, amount) ==
    intent' = [intent EXCEPT ![o][n] =
                 [state |-> state, amount |-> amount, refunded |-> 0]]

FinishCheckout(r) ==
    LET q == req[r] IN
    /\ q.op = "checkout"
    /\ \/ /\ ~InventoryAvailable(listing, q.row)
          /\ Commit(r, [q.row EXCEPT !.status = "cancelled"])
          /\ UNCHANGED intent
       \/ /\ InventoryAvailable(listing, q.row)
          /\ Commit(r, [q.row EXCEPT !.payment = "failed"])
          /\ UNCHANGED intent
       \/ /\ InventoryAvailable(listing, q.row)
          /\ \E n \in NextIntent(q.o) :
               \/ /\ OpenIntent(q.o, n, "open", q.row.amount)
                  /\ Commit(r, [q.row EXCEPT !.payment = "open", !.pspId = n])
               \/ /\ Provider[n] = "stripe"    \* saved card, charged at once
                  /\ OpenIntent(q.o, n, "captured", q.row.amount)
                  /\ Commit(r, [q.row EXCEPT !.payment = "succeeded", !.pspId = n])
    /\ Close(r)
    /\ UNCHANGED <<listing, offer, aged, lapsed>>

\* The payment was opened and the process died before the commit.
CheckoutLost(r) ==
    LET q == req[r] IN
    /\ q.op = "checkout" /\ InventoryAvailable(listing, q.row)
    /\ \E n \in NextIntent(q.o), state \in {"open", "captured"} :
         /\ state = "captured" => Provider[n] = "stripe"
         /\ OpenIntent(q.o, n, state, q.row.amount)
    /\ Close(r)
    /\ UNCHANGED <<order, listing, offer, aged, lapsed>>

-----------------------------------------------------------------------------
\* The other commits.

\* The amount update_order computes from the rows it read.
Repriced(q) ==
    IF q.row.offer # NoOffer THEN OfferPrice
    ELSE IF q.row.item # NoItem THEN ItemPrice ELSE CheckoutAmount(q.lst)

\* (Mutation: a misspelt status.)
Misspelt(q) == [q.row EXCEPT !.status = "canceled"]

\* The order each plain handler commits.
Written(q) ==
    CASE q.op \in {"cancel", "expire"} -> [q.row EXCEPT !.status = "cancelled"]
      [] q.op = "pspCancel" -> [q.row EXCEPT !.status = "cancelled",
                                             !.payment = "cancelled"]
      [] q.op \in {"failed", "refused"} -> [q.row EXCEPT !.payment = "failed"]
      [] q.op = "approved" -> [q.row EXCEPT !.payment = "approved"]
      [] q.op = "confirm"  -> [q.row EXCEPT !.payment = "succeeded", !.txId = q.pay]
      [] q.op = "update"   -> [q.row EXCEPT !.amount = Repriced(q)]
      [] q.op = "adjust"   -> [q.row EXCEPT !.amount = OtherPrice]

PlainOp == {"cancel", "expire", "pspCancel", "failed", "refused", "approved",
            "confirm", "update", "adjust"}

FinishOrderUpdate(r) ==
    /\ req[r].op \in PlainOp
    /\ Commit(r, Written(req[r]))
    /\ offer' = IF req[r].op = "expire" THEN OffersExpired({req[r].o}) ELSE offer
    /\ Close(r)
    /\ UNCHANGED <<listing, intent, aged, lapsed>>

FinishOffer(r) ==
    /\ req[r].op = "offer"
    /\ offer' = [offer EXCEPT ![req[r].f] = req[r].val]
    /\ Close(r)
    /\ UNCHANGED <<order, listing, intent, aged, lapsed>>

Edited(q) ==
    CASE q.op = "deactivate" -> [q.lst EXCEPT !.status = "inactive"]
      [] q.op = "activate"   -> [q.lst EXCEPT !.status = "active"]
      [] q.op = "reprice"    -> [q.lst EXCEPT !.price = OtherPrice]

FinishListingEdit(r) ==
    /\ req[r].op \in {"deactivate", "activate", "reprice"}
    /\ listing' = MergeListing(listing, req[r].lst, Edited(req[r]))
    /\ Close(r)
    /\ UNCHANGED <<order, offer, intent, aged, lapsed>>

\* The request is refused, raises or dies: nothing is committed.
Abandon(r) ==
    /\ req[r] # Idle
    /\ Close(r)
    /\ UNCHANGED <<order, listing, offer, intent, aged, lapsed>>

-----------------------------------------------------------------------------
\* The rest of the world.

\* The buyer pays an open Stripe payment, completes a session whose money comes
\* later, or approves an open PayPal payment.
BuyerPays(o, n) ==
    /\ intent[o][n].state = "open"
    /\ \E state \in IF Provider[n] = "stripe" THEN {"captured", "complete"}
                    ELSE {"approved"} :
         intent' = [intent EXCEPT ![o][n].state = state]
    /\ UNCHANGED <<order, listing, offer, req, aged, lapsed>>

\* The money of a completed session arrives, or does not
\* (checkout.session.async_payment_failed).
SessionSettles(o, n) ==
    /\ intent[o][n].state = "complete"
    /\ \E state \in {"captured", "bounced"} :
         intent' = [intent EXCEPT ![o][n].state = state]
    /\ UNCHANGED <<order, listing, offer, req, aged, lapsed>>

\* The payment deadline of an unpaid order, the expiration time of an offer.
OrderAges(o) ==
    /\ "expire" \in Op /\ order[o].status = Unpaid /\ o \notin aged
    /\ aged' = aged \cup {o}
    /\ UNCHANGED <<order, listing, offer, intent, req, lapsed>>
OfferLapses(f) ==
    /\ "offer" \in Op /\ offer[f] # "none" /\ f \notin lapsed
    /\ lapsed' = lapsed \cup {f}
    /\ UNCHANGED <<order, listing, offer, intent, req, aged>>

\* The delivery of a fulfilled order, its confirmation and both reviews
\* (module Settlement), down to _maybe_complete_order_after_review, which
\* marks the listing sold.
Complete(o) ==
    /\ "complete" \in Op /\ order[o].status \in Owning
    /\ order' = [order EXCEPT ![o].status = "completed"]
    /\ listing' = [listing EXCEPT !.status = "sold"]
    /\ UNCHANGED <<offer, intent, req, aged, lapsed>>

Init ==
    /\ order = [o \in Order |-> NoOrder]
    /\ listing = [status |-> "active", price |-> Price, sold |-> {}]
    /\ offer = [f \in Offer |-> "none"]
    /\ intent = [o \in Order |-> [n \in 1..MaxIntent |-> NoIntent]]
    /\ req = [r \in Request |-> Idle]
    /\ aged = {} /\ lapsed = {}

Finish(r) ==
    \/ CapturePayment(r) \/ FinishFulfil(r) \/ FinishConflict(r) \/ FinishCheckout(r)
    \/ FinishOrderUpdate(r) \/ FinishOffer(r) \/ FinishListingEdit(r)
    \/ \E i \in Item \cup {NoItem} : CheckCreate(r, i)
    \/ \E o \in Order : FinishCreate(r, o)

Dies(r) == RefundLost(r) \/ CheckoutLost(r) \/ Abandon(r)

Next ==
    \/ \E r \in Request : Begin(r) \/ BeginCreate(r) \/ Finish(r) \/ Dies(r)
    \/ \E o \in Order, i \in Item \cup {NoItem} : CreateOrder(o, i)
    \/ \E f \in Offer : CreateOffer(f) \/ AcceptLapsedOffer(f) \/ OfferLapses(f)
    \/ \E f \in Offer, o \in Order : AcceptOffer(f, o)
    \/ \E o \in Order, n \in 1..MaxIntent : BuyerPays(o, n) \/ SessionSettles(o, n)
    \/ \E o \in Order : OrderAges(o) \/ Complete(o)

Spec == Init /\ [][Next]_vars

\* Stripe repeats an event until the backend acknowledges it, every handler
\* comes to an end, and not all of an event's deliveries are cut short by a
\* crash.
FairSpec ==
    /\ Spec
    /\ \A o \in Order, n \in 1..MaxIntent :
         SF_vars(\E r \in Request : BeginSettled(r, o, n))
    /\ \A r \in Request : /\ WF_vars(Finish(r) \/ Dies(r))
                          /\ SF_vars(FinishFulfil(r) \/ FinishConflict(r))

-----------------------------------------------------------------------------
\* Type invariant.
RequestOp == {"idle", "pay", "settled", "return", "capture", "captured", "refused",
              "confirm", "failed", "approved", "cancel", "pspCancel", "checkout", "update",
              "adjust", "expire", "create", "insert", "offer", "deactivate",
              "activate", "reprice"}
RequestRow == [op : RequestOp, o : Order \cup {None}, f : Offer \cup {NoOffer},
               row : OrderRow, lst : ListingRow,
               pay : Payment \cup {NoPayment}, val : OfferStatus]
TypeOK ==
    /\ order \in [Order -> OrderRow]
    /\ listing \in ListingRow
    /\ offer \in [Offer -> OfferStatus]
    /\ intent \in [Order -> [1..MaxIntent -> IntentRow]]
    /\ req \in [Request -> RequestRow]
    /\ aged \subseteq Order /\ lapsed \subseteq Offer

Captured(o) == \E n \in 1..MaxIntent : intent[o][n].state = "captured"

\* The buyer finished checkout of this payment; Stripe's own verdict on the
\* money of a completed session may be still to come, or negative.
CheckedOut(pay) == pay \in Payment /\ intent[pay[1]][pay[2]].state \in Finished

\* Nothing is handed over, and nothing is compensated, on an unfinished
\* checkout: an order is fulfilled or in conflict only when a payment of its own
\* went through at the provider, or when it keeps as its transaction a payment
\* whose checkout was completed (handle_stripe_webhook, stripe_return; neither
\* asks for more than that, nor the second whose payment it is).
FulfilledWasPaid ==
    \A o \in Order : order[o].status \in Fulfilled \cup Conflicted =>
        Captured(o) \/ CheckedOut(order[o].txId)

\* An accepted private offer reserves the listing: two of them are never
\* waiting for payment together (accept_private_offer).
OneReservation ==
    \A p, q \in Order :
        /\ order[p].status = Unpaid /\ order[p].offer # NoOffer
        /\ order[q].status = Unpaid /\ order[q].offer # NoOffer
        => p = q

\* An offer is converted into one order at most, however its acceptance races
\* with its rejection, cancellation or expiry.
OfferMakesOneOrder ==
    \A p, q \in Order :
        order[p].offer # NoOffer /\ order[p].offer = order[q].offer => p = q

\* The same stock is never handed to two buyers: no order is fulfilled when
\* another has the item, or the whole listing, already (fulfill_paid_order).
SoldOnce ==
    [][\A o \in Order :
         order[o].status \notin Fulfilled /\ order'[o].status \in Fulfilled =>
         \A p \in Order \ {o} :
             order[p].status \in Fulfilled =>
                 order[p].item # NoItem /\ order[p].item # order[o].item]_vars

\* Once decided an order stays decided: a cancelled one is not revived, a paid
\* one is neither cancelled nor refunded for lack of stock.
DecidedStays ==
    [][\A o \in Order :
         order[o].status \notin {"none", Unpaid} =>
             \/ order'[o].status = order[o].status
             \/ order[o].status \in Owning /\ order'[o].status = "completed"]_vars

\* Checkout or payment turns an order down for lack of stock only when another
\* buyer's order has been fulfilled from that stock ("Inventory was purchased
\* by another buyer before this payment completed").
TurnedDown(o) ==
    \/ order[o].status \notin Conflicted /\ order'[o].status \in Conflicted
    \/ order[o].status # "cancelled" /\ order'[o].status = "cancelled"
       /\ \E r \in Request : req[r].op = "checkout" /\ req[r].o = o
                             /\ req'[r] = Idle
TurnedDownOnlyWhenSold ==
    [][\A o \in Order : TurnedDown(o) =>
         \E p \in Order \ {o} : /\ order[p].status \in Fulfilled
                                /\ Overlap(order[p], order[o])]_vars

\* A listing that was sold is not offered again while its order is on the way
\* (update_listing, "Cannot change sold listing status").
SoldNotOffered ==
    [][(\E o \in Order : order[o].status \in Owning /\ order[o].item = NoItem)
       => listing'.status # "active" \/ listing.status = "active"]_vars

\* The buyer's money never leaves an order waiting: once a payment of it went
\* through, whichever one and whatever crashed meanwhile, the order is
\* fulfilled, compensated or cancelled (handle_stripe_webhook).
PaidOrderDecided ==
    \A o \in Order :
        Captured(o) /\ order[o].status = Unpaid ~> order[o].status # Unpaid
=============================================================================

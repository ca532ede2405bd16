--------------------------- MODULE CheckoutProofs ---------------------------
(***************************************************************************)
(* Theorems about Checkout for any number of orders, items, offers and     *)
(* concurrent requests, any mix of requests and any prices.                *)
(***************************************************************************)
EXTENDS Checkout, FiniteSetTheorems, TLAPS

USE PriceAssumption, SizeAssumption, KindAssumption, NullAssumption

-----------------------------------------------------------------------------
\* The rows the operators build are rows.

LEMMA Nulls == NoOrder \in OrderRow /\ NoListing \in ListingRow
               /\ NoIntent \in IntentRow /\ Idle \in RequestRow
<1>1. NoOrder \in OrderRow
  BY DEF NoOrder, OrderRow, OrderStatus, PaymentStatus, NoPayment
<1>2. NoListing \in ListingRow
  BY DEF NoListing, ListingRow
<1>3. NoIntent \in IntentRow
  BY DEF NoIntent, IntentRow, IntentState
<1>4. Idle \in RequestRow
  BY <1>1, <1>2 DEF Idle, RequestRow, RequestOp, OfferStatus, NoPayment
<1> QED
  BY <1>1, <1>2, <1>3, <1>4

LEMMA MergeOrderType ==
  ASSUME NEW now \in OrderRow, NEW read \in OrderRow, NEW new \in OrderRow
  PROVE  MergeOrder(now, read, new) \in OrderRow
  BY DEF MergeOrder, OrderRow, Put

LEMMA StatusType ==
  ASSUME NEW row \in OrderRow, NEW status \in OrderStatus
  PROVE  [row EXCEPT !.status = status] \in OrderRow
  BY DEF OrderRow

LEMMA MergeListingType ==
  ASSUME NEW now \in ListingRow, NEW read \in ListingRow, NEW new \in ListingRow
  PROVE  MergeListing(now, read, new) \in ListingRow
  BY DEF MergeListing, ListingRow, Put

LEMMA CheckoutAmountType ==
  ASSUME NEW l \in ListingRow PROVE CheckoutAmount(l) \in Nat
<1>1. Cardinality(l.sold) \in Nat
  BY FS_Subset, FS_CardinalityType DEF ListingRow
<1>2. Share * Cardinality(l.sold) \in Nat
  BY <1>1
<1> QED
  BY <1>2 DEF CheckoutAmount, ListingRow

LEMMA SellToType ==
  ASSUME NEW l \in ListingRow, NEW row \in OrderRow
  PROVE  SellTo(l, row) \in ListingRow
  BY DEF SellTo, ListingRow, OrderRow

LEMMA NewOrderType ==
  ASSUME listing \in ListingRow, NEW i \in Item \cup {NoItem}
  PROVE  NewOrder(i) \in OrderRow
  BY Nulls, CheckoutAmountType DEF NewOrder, OrderRow, OrderStatus

\* An order column keeps its value or takes the one the request gave it.
LEMMA MergeOrderColumns ==
  ASSUME NEW now, NEW read, NEW new
  PROVE  LET m == MergeOrder(now, read, new)
         IN  /\ \/ m.status = now.status
                \/ m.status = new.status /\ new.status # read.status
             /\ \/ m.payment = now.payment
                \/ m.payment = new.payment /\ new.payment # read.payment
             /\ \/ m.txId = now.txId
                \/ m.txId = new.txId /\ new.txId # read.txId
             /\ new.offer = read.offer => m.offer = now.offer
             /\ new.item = read.item => m.item = now.item
<1> DEFINE m == MergeOrder(now, read, new)
<1>1. /\ m.status = Put(now.status, read.status, new.status)
      /\ m.payment = Put(now.payment, read.payment, new.payment)
      /\ m.txId = Put(now.txId, read.txId, new.txId)
      /\ m.offer = Put(now.offer, read.offer, new.offer)
      /\ m.item = Put(now.item, read.item, new.item)
  BY DEF MergeOrder
<1> QED
  BY <1>1 DEF Put

-----------------------------------------------------------------------------
\* Type correctness.

\* A request that opens keeps every other part of the state.
LEMMA OpenType ==
  ASSUME TypeOK, NEW r \in Request, NEW q \in RequestRow, Open(r, q)
  PROVE  TypeOK'
  BY DEF TypeOK, Open

LEMMA ReadUnpaidType ==
  ASSUME TypeOK, NEW r \in Request, NEW op \in RequestOp, NEW o \in Order,
         NEW pay \in Payment \cup {NoPayment}, ReadUnpaid(r, op, o, pay)
  PROVE  TypeOK'
<1> DEFINE q == [Idle EXCEPT !.op = op, !.o = o, !.row = order[o], !.pay = pay,
                             !.lst = IF op \in {"pay", "update"} THEN listing
                                     ELSE NoListing]
<1>1. q \in RequestRow
  BY Nulls DEF TypeOK, RequestRow
<1>2. Open(r, q)
  BY DEF ReadUnpaid
<1> HIDE DEF q
<1> QED
  BY <1>1, <1>2, OpenType

\* Whatever a request begins, it opens its session and nothing else.
LEMMA BeginOpens ==
  ASSUME NEW r \in Request, Begin(r)
  PROVE  \E q : Open(r, q)
<1> DEFINE opened == \E q : Open(r, q)
<1>1. ASSUME NEW q, Open(r, q) PROVE opened
  BY <1>1
<1>2. ASSUME NEW op, NEW o, NEW pay, ReadUnpaid(r, op, o, pay) PROVE opened
  BY <1>2 DEF ReadUnpaid
<1> HIDE DEF opened
<1>3. opened
  BY <1>1, <1>2 DEF Begin, BeginPay, BeginSettled, BeginReturn, BeginCapture,
     BeginConfirm, BeginFailed, BeginApproved, BeginCancel, BeginPspCancel, BeginCheckout,
     BeginUpdate, BeginAdjust, BeginExpire, BeginCloseOffer, BeginDeactivate, BeginActivate,
     BeginReprice
<1> QED
  BY <1>3 DEF opened

\* Begin is a disjunction of these; each begins with ReadUnpaid or Open.
LEMMA BeginType == ASSUME TypeOK, NEW r \in Request, Begin(r) PROVE TypeOK'
<1> DEFINE Reads(o) == \E op \in RequestOp, pay \in Payment \cup {NoPayment} :
                         ReadUnpaid(r, op, o, pay)
<1>0. ASSUME NEW o \in Order, NEW op \in RequestOp, NEW pay \in Payment \cup {NoPayment},
             ReadUnpaid(r, op, o, pay)
      PROVE  Reads(o)
  BY <1>0
<1>1. ASSUME NEW o \in Order, Reads(o) PROVE TypeOK'
  BY <1>1, ReadUnpaidType
<1> HIDE DEF Reads
<1>2. ASSUME NEW o \in Order,
             \/ BeginPay(r, o) \/ BeginFailed(r, o) \/ BeginCancel(r, o)
             \/ BeginPspCancel(r, o) \/ BeginCheckout(r, o) \/ BeginUpdate(r, o)
             \/ BeginAdjust(r, o) \/ BeginExpire(r, o)
             \/ \E n \in 1..MaxIntent : BeginApproved(r, o, n)
      PROVE  Reads(o)
  BY <1>0, <1>2 DEF BeginPay, BeginFailed, BeginCancel, BeginPspCancel, BeginCheckout,
              BeginUpdate, BeginAdjust, BeginExpire, BeginApproved, RequestOp
<1>3. ASSUME NEW o \in Order, BeginCapture(r, o) \/ BeginConfirm(r, o)
      PROVE  Reads(o)
  <2>1. order[o].pspId \in 1..MaxIntent
    BY <1>3 DEF BeginCapture, BeginConfirm, TypeOK, OrderRow
  <2>2. <<o, order[o].pspId>> \in Payment
    BY <2>1 DEF Payment
  <2> QED
    BY <1>0, <1>3, <2>2 DEF BeginCapture, BeginConfirm, RequestOp
<1>4. ASSUME NEW o \in Order, NEW p \in Order, NEW n \in 1..MaxIntent,
             BeginSettled(r, o, n) \/ BeginReturn(r, o, p, n)
      PROVE  Reads(o)
  <2>1. <<o, n>> \in Payment /\ <<p, n>> \in Payment
    BY DEF Payment
  <2> QED
    BY <1>0, <1>4, <2>1 DEF BeginSettled, BeginReturn, RequestOp
<1>6. ASSUME NEW f \in Offer, NEW val \in {"VIEWED", "REJECTED", "CANCELLED", "EXPIRED"},
             BeginCloseOffer(r, f, val)
      PROVE  TypeOK'
  <2>1. [Idle EXCEPT !.op = "offer", !.f = f, !.val = val] \in RequestRow
    BY Nulls DEF RequestRow, RequestOp, OfferStatus, OfferActive
  <2> QED
    BY <1>6, <2>1, OpenType DEF BeginCloseOffer
<1>7. ASSUME BeginDeactivate(r) \/ BeginActivate(r) \/ BeginReprice(r)
      PROVE  TypeOK'
  <2>1. \A op \in RequestOp : [Idle EXCEPT !.op = op, !.lst = listing] \in RequestRow
    BY Nulls DEF RequestRow, TypeOK
  <2>2. \E op \in RequestOp : Open(r, [Idle EXCEPT !.op = op, !.lst = listing])
    BY <1>7 DEF BeginDeactivate, BeginActivate, BeginReprice, RequestOp
  <2> QED
    BY <2>1, <2>2, OpenType
<1> QED
  BY <1>1, <1>2, <1>3, <1>4, <1>6, <1>7 DEF Begin

\* What a confirmation, a checkout or a plain handler has in memory is a row.
LEMMA WrittenType ==
  ASSUME TypeOK, NEW r \in Request
  PROVE  /\ PaidRow(r) \in OrderRow
         /\ req[r].op \in PlainOp => Written(req[r]) \in OrderRow
<1>1. /\ req[r].row \in OrderRow /\ req[r].pay \in Payment \cup {NoPayment}
      /\ req[r].lst \in ListingRow
  BY DEF TypeOK, RequestRow
<1>2. PaidRow(r) \in OrderRow
  BY <1>1 DEF PaidRow, OrderRow, PaymentStatus
<1>3. Repriced(req[r]) \in Nat
  BY <1>1, CheckoutAmountType DEF Repriced
<1>4. ASSUME req[r].op \in PlainOp PROVE Written(req[r]) \in OrderRow
  <2>1. CASE req[r].op \in {"cancel", "expire", "pspCancel"}
    BY <1>1, <2>1 DEF Written, OrderRow, OrderStatus, PaymentStatus
  <2>2. CASE req[r].op \in {"failed", "refused", "approved"}
    BY <1>1, <2>2 DEF Written, OrderRow, PaymentStatus
  <2>3. CASE req[r].op \in {"confirm", "update", "adjust"}
    BY <1>1, <1>3, <2>3, PriceAssumption DEF Written, OrderRow, PaymentStatus
  <2> QED
    BY <1>4, <2>1, <2>2, <2>3 DEF PlainOp
<1> QED
  BY <1>2, <1>4

LEMMA CommitType ==
  ASSUME TypeOK, NEW r \in Request, NEW new \in OrderRow, Commit(r, new)
  PROVE  order' \in [Order -> OrderRow]
<1>1. \A o \in Order : MergeOrder(order[o], req[r].row, new) \in OrderRow
  BY MergeOrderType DEF TypeOK, RequestRow
<1> QED
  BY <1>1 DEF Commit, TypeOK

LEMMA CloseType ==
  ASSUME TypeOK, NEW r \in Request, Close(r)
  PROVE  req' \in [Request -> RequestRow]
  BY Nulls DEF Close, TypeOK

\* The provider's three changes to a payment.
LEMMA CaptureRow ==
  ASSUME NEW g \in [1..MaxIntent -> IntentRow], NEW n, NEW state \in IntentState
  PROVE  [g EXCEPT ![n].state = state] \in [1..MaxIntent -> IntentRow]
<1>1. ASSUME n \in 1..MaxIntent PROVE [g[n] EXCEPT !.state = state] \in IntentRow
  <2>1. g[n] \in IntentRow
    BY <1>1
  <2> QED
    BY <2>1 DEF IntentRow
<1> QED
  BY <1>1

LEMMA CaptureType ==
  ASSUME TypeOK, NEW o, NEW n, NEW state \in IntentState
  PROVE  [intent EXCEPT ![o][n].state = state] \in [Order -> [1..MaxIntent -> IntentRow]]
<1>1. \A p \in Order : intent[p] \in [1..MaxIntent -> IntentRow]
  BY DEF TypeOK
<1>2. \A p \in Order : [intent[p] EXCEPT ![n].state = state] \in [1..MaxIntent -> IntentRow]
  BY <1>1, CaptureRow
<1> QED
  BY <1>2 DEF TypeOK

LEMMA RefundRow ==
  ASSUME NEW g \in [1..MaxIntent -> IntentRow], NEW n, NEW x \in Nat
  PROVE  [g EXCEPT ![n].refunded = @ + x] \in [1..MaxIntent -> IntentRow]
<1>1. \A h \in IntentRow, y \in Nat : [h EXCEPT !.refunded = y] \in IntentRow
  BY DEF IntentRow
<1>2. ASSUME n \in 1..MaxIntent PROVE [g[n] EXCEPT !.refunded = @ + x] \in IntentRow
  <2>1. g[n] \in IntentRow /\ g[n].refunded + x \in Nat
    BY <1>2 DEF IntentRow
  <2> QED
    BY <1>1, <2>1
<1> QED
  BY <1>2

LEMMA StateWritten ==
  ASSUME NEW o, NEW n, NEW state, NEW p \in Order, NEW m \in 1..MaxIntent, TypeOK
  PROVE  [intent EXCEPT ![o][n].state = state][p][m].state \in {intent[p][m].state, state}
<1>1. /\ intent \in [Order -> [1..MaxIntent -> IntentRow]]
      /\ intent[p] \in [1..MaxIntent -> IntentRow] /\ intent[p][m] \in IntentRow
  BY DEF TypeOK
<1>2. CASE p = o /\ m = n
  BY <1>1, <1>2 DEF IntentRow
<1>3. CASE p # o \/ m # n
  BY <1>1, <1>3
<1> QED
  BY <1>2, <1>3

LEMMA RefundState ==
  ASSUME NEW o, NEW n, NEW x, NEW p \in Order, NEW m \in 1..MaxIntent, TypeOK
  PROVE  [intent EXCEPT ![o][n].refunded = x][p][m].state = intent[p][m].state
<1>1. /\ intent \in [Order -> [1..MaxIntent -> IntentRow]]
      /\ intent[p] \in [1..MaxIntent -> IntentRow] /\ intent[p][m] \in IntentRow
  BY DEF TypeOK
<1>2. CASE p = o /\ m = n
  BY <1>1, <1>2 DEF IntentRow
<1>3. CASE p # o \/ m # n
  BY <1>1, <1>3
<1> QED
  BY <1>2, <1>3

LEMMA RefundType ==
  ASSUME TypeOK, NEW o, NEW n, NEW x \in Nat
  PROVE  [intent EXCEPT ![o][n].refunded = @ + x]
            \in [Order -> [1..MaxIntent -> IntentRow]]
<1>1. \A p \in Order : intent[p] \in [1..MaxIntent -> IntentRow]
  BY DEF TypeOK
<1>2. \A p \in Order : [intent[p] EXCEPT ![n].refunded = @ + x] \in [1..MaxIntent -> IntentRow]
  BY <1>1, RefundRow
<1> QED
  BY <1>2 DEF TypeOK

LEMMA OpenIntentType ==
  ASSUME TypeOK, NEW o, NEW n, NEW state \in IntentState, NEW amount \in Nat,
         OpenIntent(o, n, state, amount)
  PROVE  intent' \in [Order -> [1..MaxIntent -> IntentRow]]
<1> DEFINE row == [state |-> state, amount |-> amount, refunded |-> 0]
<1>1. row \in IntentRow
  BY DEF IntentRow
<1> HIDE DEF row
<1>2. \A p \in Order : [intent[p] EXCEPT ![n] = row] \in [1..MaxIntent -> IntentRow]
  BY <1>1 DEF TypeOK
<1> QED
  BY <1>2 DEF OpenIntent, TypeOK, row

LEMMA ConfirmType ==
  ASSUME TypeOK, NEW r \in Request,
         CapturePayment(r) \/ FinishFulfil(r) \/ FinishConflict(r) \/ RefundLost(r)
  PROVE  TypeOK'
<1>1. ASSUME CapturePayment(r) PROVE TypeOK'
  <2>1. \A op \in RequestOp : [req[r] EXCEPT !.op = op] \in RequestRow
    BY DEF TypeOK, RequestRow
  <2>2. req' \in [Request -> RequestRow]
    BY <1>1, <2>1 DEF CapturePayment, TypeOK, RequestOp
  <2>3. intent' \in [Order -> [1..MaxIntent -> IntentRow]]
    <3>1. "captured" \in IntentState
      BY DEF IntentState, Finished
    <3>2. [intent EXCEPT ![req[r].pay[1]][req[r].pay[2]].state = "captured"]
            \in [Order -> [1..MaxIntent -> IntentRow]]
      BY <3>1, CaptureType
    <3> QED
      BY <1>1, <3>2 DEF CapturePayment, TypeOK
  <2> QED
    BY <1>1, <2>2, <2>3 DEF CapturePayment, TypeOK
<1>2. ASSUME RefundAccepted(r) PROVE intent' \in [Order -> [1..MaxIntent -> IntentRow]]
  <2>1. req[r].row.amount \in Nat
    BY DEF TypeOK, RequestRow, OrderRow
  <2> QED
    BY <1>2, <2>1, RefundType DEF RefundAccepted
<1>3. req[r].row \in OrderRow /\ ListingSeen(r) \in ListingRow /\ listing \in ListingRow
  BY DEF TypeOK, RequestRow, ListingSeen
<1>4. ASSUME FinishFulfil(r) PROVE TypeOK'
  <2>1. order' \in [Order -> OrderRow]
    <3> DEFINE new == [PaidRow(r) EXCEPT !.status = IF Kind = "service"
                         THEN "pendingService" ELSE "pendingShip"]
    <3>1. new \in OrderRow
      BY WrittenType DEF OrderRow, OrderStatus, Fulfilled, Owning
    <3>2. Commit(r, new)
      BY <1>4 DEF FinishFulfil
    <3> QED
      BY <3>1, <3>2, CommitType
  <2>2. listing' \in ListingRow
    BY <1>3, <1>4, SellToType, MergeListingType DEF FinishFulfil
  <2>3. offer' \in [Offer -> OfferStatus]
    BY <1>4 DEF FinishFulfil, TypeOK, OfferStatus
  <2> QED
    BY <1>4, <2>1, <2>2, <2>3, CloseType DEF FinishFulfil, TypeOK
<1>5. ASSUME FinishConflict(r) PROVE TypeOK'
  <2>1. ASSUME NEW status \in Conflicted, NEW payment \in PaymentStatus,
               NEW refund \in {"none", "pending", "succeeded"},
               ConflictOutcome(r, status, payment, refund)
        PROVE  order' \in [Order -> OrderRow]
    <3> DEFINE new == [PaidRow(r) EXCEPT !.status = status, !.payment = payment,
                                         !.refund = refund]
    <3>1. new \in OrderRow
      BY WrittenType DEF OrderRow, OrderStatus
    <3>2. Commit(r, new)
      BY <2>1 DEF ConflictOutcome
    <3> QED
      BY <3>1, <3>2, CommitType
  <2>2. req[r].row.refund \in {"none", "pending", "succeeded"}
    BY <1>3 DEF OrderRow
  <2>3. order' \in [Order -> OrderRow]
    BY <1>5, <2>1, <2>2 DEF FinishConflict, Conflicted, PaymentStatus
  <2>4. intent' \in [Order -> [1..MaxIntent -> IntentRow]]
    BY <1>2, <1>5 DEF FinishConflict, TypeOK
  <2> QED
    BY <1>5, <2>3, <2>4, CloseType DEF FinishConflict, TypeOK
<1>6. ASSUME RefundLost(r) PROVE TypeOK'
  BY <1>2, <1>6, CloseType DEF RefundLost, TypeOK
<1> QED
  BY <1>1, <1>4, <1>5, <1>6

LEMMA CheckoutType ==
  ASSUME TypeOK, NEW r \in Request, FinishCheckout(r) \/ CheckoutLost(r)
  PROVE  TypeOK'
<1> DEFINE q == req[r]
<1>1. q.row \in OrderRow /\ q.row.amount \in Nat
  BY DEF TypeOK, RequestRow, OrderRow
<1>2. ASSUME NEW n \in NextIntent(q.o), NEW state \in {"open", "captured"},
             OpenIntent(q.o, n, state, q.row.amount)
      PROVE  intent' \in [Order -> [1..MaxIntent -> IntentRow]]
  <2>1. state \in IntentState
    BY DEF IntentState, Finished
  <2> HIDE DEF q
  <2> QED
    BY <1>1, <1>2, <2>1, OpenIntentType
<1>3. ASSUME FinishCheckout(r)
      PROVE  /\ order' \in [Order -> OrderRow]
             /\ intent' \in [Order -> [1..MaxIntent -> IntentRow]]
  <2>1. ASSUME NEW n \in NextIntent(q.o), NEW payment \in PaymentStatus
        PROVE  [q.row EXCEPT !.payment = payment, !.pspId = n] \in OrderRow
    <3>1. n \in 0..MaxIntent
      BY DEF NextIntent
    <3> QED
      BY <1>1, <3>1 DEF OrderRow
  <2>2. CASE Commit(r, [q.row EXCEPT !.status = "cancelled"]) /\ UNCHANGED intent
    BY <1>1, <2>2, CommitType DEF OrderRow, OrderStatus, TypeOK
  <2>3. CASE Commit(r, [q.row EXCEPT !.payment = "failed"]) /\ UNCHANGED intent
    BY <1>1, <2>3, CommitType DEF OrderRow, PaymentStatus, TypeOK
  <2>4. CASE \E n \in NextIntent(q.o) :
               \/ /\ OpenIntent(q.o, n, "open", q.row.amount)
                  /\ Commit(r, [q.row EXCEPT !.payment = "open", !.pspId = n])
               \/ /\ OpenIntent(q.o, n, "captured", q.row.amount)
                  /\ Commit(r, [q.row EXCEPT !.payment = "succeeded", !.pspId = n])
    <3>1. PICK n \in NextIntent(q.o) :
               \/ /\ OpenIntent(q.o, n, "open", q.row.amount)
                  /\ Commit(r, [q.row EXCEPT !.payment = "open", !.pspId = n])
               \/ /\ OpenIntent(q.o, n, "captured", q.row.amount)
                  /\ Commit(r, [q.row EXCEPT !.payment = "succeeded", !.pspId = n])
      BY <2>4
    <3>2. /\ [q.row EXCEPT !.payment = "open", !.pspId = n] \in OrderRow
          /\ [q.row EXCEPT !.payment = "succeeded", !.pspId = n] \in OrderRow
      BY <2>1 DEF PaymentStatus
    <3>3. order' \in [Order -> OrderRow]
      BY <3>1, <3>2, CommitType
    <3> QED
      BY <3>1, <3>3, <1>2
  <2> QED
    BY <1>3, <2>2, <2>3, <2>4 DEF FinishCheckout
<1>4. ASSUME FinishCheckout(r) PROVE TypeOK'
  BY <1>3, <1>4, CloseType DEF FinishCheckout, TypeOK
<1>5. ASSUME CheckoutLost(r) PROVE TypeOK'
  <2>1. intent' \in [Order -> [1..MaxIntent -> IntentRow]]
    BY <1>2, <1>5 DEF CheckoutLost
  <2> QED
    BY <1>5, <2>1, CloseType DEF CheckoutLost, TypeOK
<1> QED
  BY <1>4, <1>5

LEMMA PlainType ==
  ASSUME TypeOK, NEW r \in Request,
         FinishOrderUpdate(r) \/ FinishOffer(r) \/ FinishListingEdit(r) \/ Abandon(r)
  PROVE  TypeOK'
<1>1. ASSUME FinishOrderUpdate(r) PROVE TypeOK'
  <2>1. order' \in [Order -> OrderRow]
    BY <1>1, WrittenType, CommitType DEF FinishOrderUpdate
  <2>2. offer' \in [Offer -> OfferStatus]
    BY <1>1 DEF FinishOrderUpdate, OffersExpired, TypeOK, OfferStatus
  <2> QED
    BY <1>1, <2>1, <2>2, CloseType DEF FinishOrderUpdate, TypeOK
<1>2. ASSUME FinishOffer(r) PROVE TypeOK'
  <2>1. offer' \in [Offer -> OfferStatus]
    BY <1>2 DEF FinishOffer, TypeOK, RequestRow
  <2> QED
    BY <1>2, <2>1, CloseType DEF FinishOffer, TypeOK
<1>3. ASSUME FinishListingEdit(r) PROVE TypeOK'
  <2>1. Edited(req[r]) \in ListingRow
    BY <1>3 DEF FinishListingEdit, Edited, TypeOK, RequestRow, ListingRow
  <2>2. listing' \in ListingRow
    BY <1>3, <2>1, MergeListingType DEF FinishListingEdit, TypeOK, RequestRow
  <2> QED
    BY <1>3, <2>2, CloseType DEF FinishListingEdit, TypeOK
<1>4. ASSUME Abandon(r) PROVE TypeOK'
  BY <1>4, CloseType DEF Abandon, TypeOK
<1> QED
  BY <1>1, <1>2, <1>3, <1>4

LEMMA ExpiredType ==
  ASSUME TypeOK, NEW stale
  PROVE  /\ Expired(stale) \in [Order -> OrderRow]
         /\ OffersExpired(stale) \in [Offer -> OfferStatus]
<1>1. \A o \in Order : [order[o] EXCEPT !.status = "cancelled"] \in OrderRow
  BY StatusType DEF TypeOK, OrderStatus
<1> QED
  BY <1>1 DEF Expired, OffersExpired, TypeOK, OfferStatus

LEMMA CreateType ==
  ASSUME TypeOK, NEW r \in Request,
         \/ BeginCreate(r)
         \/ \E i \in Item \cup {NoItem} : CheckCreate(r, i)
         \/ \E o \in Order : FinishCreate(r, o)
  PROVE  TypeOK'
<1>1. ASSUME BeginCreate(r) PROVE TypeOK'
  <2>1. [Idle EXCEPT !.op = "create"] \in RequestRow
    BY Nulls DEF RequestRow, RequestOp
  <2> QED
    BY <1>1, <2>1, ExpiredType DEF BeginCreate, TypeOK
<1>2. ASSUME NEW i \in Item \cup {NoItem}, CheckCreate(r, i) PROVE TypeOK'
  <2>1. [Idle EXCEPT !.op = "insert", !.row = NewOrder(i)] \in RequestRow
    BY Nulls, NewOrderType DEF RequestRow, RequestOp, TypeOK
  <2> QED
    BY <1>2, <2>1 DEF CheckCreate, TypeOK
<1>3. ASSUME NEW o \in Order, FinishCreate(r, o) PROVE TypeOK'
  BY <1>3, CloseType DEF FinishCreate, TypeOK, RequestRow
<1> QED
  BY <1>1, <1>2, <1>3

\* The steps outside a request.
LEMMA WorldType ==
  ASSUME TypeOK,
         \/ \E o \in Order, i \in Item \cup {NoItem} : CreateOrder(o, i)
         \/ \E f \in Offer : CreateOffer(f) \/ AcceptLapsedOffer(f) \/ OfferLapses(f)
         \/ \E f \in Offer, o \in Order : AcceptOffer(f, o)
         \/ \E o \in Order, n \in 1..MaxIntent : BuyerPays(o, n) \/ SessionSettles(o, n)
         \/ \E o \in Order : OrderAges(o) \/ Complete(o)
  PROVE  TypeOK'
<1>1. ASSUME NEW o \in Order, NEW i \in Item \cup {NoItem}, CreateOrder(o, i) PROVE TypeOK'
  BY <1>1, NewOrderType DEF CreateOrder, TypeOK
<1>2. ASSUME NEW f \in Offer, CreateOffer(f) \/ AcceptLapsedOffer(f) PROVE TypeOK'
  BY <1>2 DEF CreateOffer, AcceptLapsedOffer, TypeOK, OfferStatus, OfferActive
<1>3. ASSUME NEW f \in Offer, OfferLapses(f) PROVE TypeOK'
  BY <1>3 DEF OfferLapses, TypeOK
<1>4. ASSUME NEW f \in Offer, NEW o \in Order, AcceptOffer(f, o) PROVE TypeOK'
  <2>1. [NoOrder EXCEPT !.status = Unpaid, !.offer = f, !.amount = OfferPrice] \in OrderRow
    BY Nulls DEF OrderRow, OrderStatus
  <2>2. offer' \in [Offer -> OfferStatus]
    BY <1>4 DEF AcceptOffer, TypeOK, OfferStatus
  <2> QED
    BY <1>4, <2>1, <2>2 DEF AcceptOffer, TypeOK
<1>5. ASSUME NEW o \in Order, NEW n \in 1..MaxIntent, BuyerPays(o, n) \/ SessionSettles(o, n)
      PROVE  TypeOK'
  <2>1. PICK state \in IntentState : intent' = [intent EXCEPT ![o][n].state = state]
    BY <1>5 DEF BuyerPays, SessionSettles, IntentState, Finished
  <2>2. intent' \in [Order -> [1..MaxIntent -> IntentRow]]
    BY <2>1, CaptureType
  <2> QED
    BY <1>5, <2>2 DEF BuyerPays, SessionSettles, TypeOK
<1>6. ASSUME NEW o \in Order, OrderAges(o) PROVE TypeOK'
  BY <1>6 DEF OrderAges, TypeOK
<1>7. ASSUME NEW o \in Order, Complete(o) PROVE TypeOK'
  <2>1. [order[o] EXCEPT !.status = "completed"] \in OrderRow
    BY StatusType DEF TypeOK, OrderStatus, Fulfilled
  <2>2. [listing EXCEPT !.status = "sold"] \in ListingRow
    BY DEF TypeOK, ListingRow
  <2> QED
    BY <1>7, <2>1, <2>2 DEF Complete, TypeOK
<1> QED
  BY <1>1, <1>2, <1>3, <1>4, <1>5, <1>6, <1>7

LEMMA InitType == Init => TypeOK
  BY Nulls, 0 \in Nat DEF Init, TypeOK, ListingRow, OfferStatus

LEMMA TypeStep == TypeOK /\ [Next]_vars => TypeOK'
<1>1. ASSUME TypeOK, UNCHANGED vars PROVE TypeOK'
  BY <1>1 DEF vars, TypeOK
<1> QED
  BY <1>1, BeginType, CreateType, ConfirmType, CheckoutType, PlainType, WorldType
     DEF Next, Finish, Dies

\* Every reachable state is well typed.
THEOREM TypeCorrect == Spec => []TypeOK
<1> QED
  BY InitType, TypeStep, PTL DEF Spec

-----------------------------------------------------------------------------
(***************************************************************************)
(* What a step does to one order.  The order's columns are written far     *)
(* apart, from rows read long before, so the invariants below rest on one  *)
(* fact about every step: it creates the order, accepts an offer as that   *)
(* order, or keeps what Kept says.                                         *)
(***************************************************************************)

\* The database says that the order was paid for.
Paid(o) == order[o].status \in Fulfilled \cup Conflicted \/ order[o].payment = "succeeded"

\* What it rests on.
Covered(o) == Captured(o) \/ CheckedOut(order[o].txId)

\* FulfilledWasPaid is not inductive: a confirmation fulfils from a row it read
\* earlier, so what entitled it to begin has to last until it ends, and a
\* transaction it had read already is not written again.
PaidOp == {"pay", "settled", "return", "capture", "captured", "confirm"}
Entitled(q) ==
    /\ q.op \in PaidOp => /\ q.o \in Order /\ order[q.o].status # "none"
                          /\ q.row.txId # NoPayment \/ q.op = "pay" => Covered(q.o)
    /\ q.op = "capture" => q.pay \in Payment
    /\ q.op \in PaidOp \ {"pay", "capture"} => CheckedOut(q.pay)
    /\ q.op = "insert" => /\ q.row.status = Unpaid /\ q.row.payment = "none"
                          /\ q.row.offer = NoOffer /\ q.row.txId = NoPayment
Evidence ==
    /\ \A o \in Order : Paid(o) \/ order[o].txId # NoPayment => Covered(o)
    /\ \A r \in Request : Entitled(req[r])

IInv == TypeOK /\ Evidence

Created(o) ==
    /\ order[o].status = "none" /\ order'[o].status = Unpaid
    /\ order'[o].payment = "none" /\ order'[o].offer = NoOffer
    /\ order'[o].txId = NoPayment

Kept(o) ==
    /\ order'[o].offer = order[o].offer /\ order'[o].item = order[o].item
    /\ order'[o].status = order[o].status
       \/ order'[o].status \in {"cancelled"} \cup Fulfilled \cup Conflicted
    /\ Paid(o)' => Paid(o) \/ Covered(o)'
    /\ order'[o].txId = order[o].txId \/ CheckedOut(order[o].txId)'
    /\ order'[o].status \in Fulfilled =>
         order[o].status \in Fulfilled \/ \E r \in Request : FinishFulfil(r) /\ req[r].o = o

\* A payment that went through stays so, and so does a finished checkout.
LEMMA PaymentStays ==
  ASSUME TypeOK, [Next]_vars, NEW o \in Order, NEW n \in 1..MaxIntent
  PROVE  /\ intent[o][n].state = "captured" => intent'[o][n].state = "captured"
         /\ intent[o][n].state \in Finished => intent'[o][n].state \in Finished
<1> DEFINE Stays == /\ intent[o][n].state = "captured" => intent'[o][n].state = "captured"
                    /\ intent[o][n].state \in Finished => intent'[o][n].state \in Finished
<1>2. intent \in [Order -> [1..MaxIntent -> IntentRow]]
  BY DEF TypeOK
<1>3. ASSUME NEW p, NEW m, NEW state,
             intent' = [intent EXCEPT ![p][m].state = state]
      PROVE  intent'[o][n].state \in {intent[o][n].state, state}
  <2>1. [intent EXCEPT ![p][m].state = state][o][n].state \in {intent[o][n].state, state}
    BY StateWritten
  <2> QED
    BY <1>3, <2>1
<1>4. ASSUME NEW r \in Request, CapturePayment(r) PROVE Stays
  <2>1. \/ intent' = [intent EXCEPT ![req[r].pay[1]][req[r].pay[2]].state = "captured"]
        \/ intent' = intent
    BY <1>4 DEF CapturePayment
  <2>2. PICK p, m : p = req[r].pay[1] /\ m = req[r].pay[2]
    OBVIOUS
  <2>3. [intent EXCEPT ![p][m].state = "captured"][o][n].state
          \in {intent[o][n].state, "captured"}
    BY StateWritten
  <2>4. intent'[o][n].state \in {intent[o][n].state, "captured"}
    BY <2>1, <2>2, <2>3
  <2> QED
    BY <2>4 DEF Finished
<1>5. ASSUME NEW r \in Request, RefundAccepted(r) PROVE Stays
  <2>1. PICK p, m, x : intent' = [intent EXCEPT ![p][m].refunded = x]
    BY <1>5 DEF RefundAccepted
  <2>2. [intent EXCEPT ![p][m].refunded = x][o][n].state = intent[o][n].state
    BY RefundState
  <2> QED
    BY <2>1, <2>2
<1>6. ASSUME NEW r \in Request, FinishCheckout(r) \/ CheckoutLost(r), intent' # intent
      PROVE  Stays
  <2>1. PICK m \in NextIntent(req[r].o), state \in IntentState :
               OpenIntent(req[r].o, m, state, req[r].row.amount)
    BY <1>6 DEF FinishCheckout, CheckoutLost, IntentState, Finished
  <2>2. CASE req[r].o # o \/ m # n
    BY <1>2, <2>1, <2>2 DEF OpenIntent
  <2>3. CASE req[r].o = o /\ m = n
    BY <2>3, <2>1 DEF NextIntent, Finished
  <2> QED
    BY <2>2, <2>3
<1>7. ASSUME NEW p \in Order, NEW m \in 1..MaxIntent,
             BuyerPays(p, m) \/ SessionSettles(p, m)
      PROVE  Stays
  <2>1. CASE p = o /\ m = n
    <3>1. PICK state : /\ intent' = [intent EXCEPT ![o][n].state = state]
                       /\ \/ intent[o][n].state = "open"
                          \/ intent[o][n].state = "complete" /\ state \in Finished
      BY <1>7, <2>1 DEF BuyerPays, SessionSettles, Finished
    <3>2. intent'[o][n].state \in {intent[o][n].state, state}
      BY <3>1, <1>3
    <3> QED
      BY <3>1, <3>2 DEF Finished
  <2>2. CASE p # o \/ m # n
    <3>1. PICK state : intent' = [intent EXCEPT ![p][m].state = state]
      BY <1>7 DEF BuyerPays, SessionSettles
    <3> QED
      BY <1>2, <2>2, <3>1
  <2> QED
    BY <2>1, <2>2
<1>8. CASE intent' = intent
  BY <1>8
<1>9. CASE intent' # intent
  <2>1. \/ \E r \in Request : \/ CapturePayment(r) \/ FinishConflict(r) \/ RefundLost(r)
                               \/ FinishCheckout(r) \/ CheckoutLost(r)
        \/ \E p \in Order, m \in 1..MaxIntent : BuyerPays(p, m) \/ SessionSettles(p, m)
    <3>1. ASSUME NEW r \in Request, Begin(r) PROVE intent' = intent
      BY <3>1, BeginOpens DEF Open
    <3>2. ASSUME NEW r \in Request,
                 \/ BeginCreate(r) \/ FinishFulfil(r) \/ FinishOrderUpdate(r)
                 \/ FinishOffer(r) \/ FinishListingEdit(r) \/ Abandon(r)
                 \/ \E i \in Item \cup {NoItem} : CheckCreate(r, i)
                 \/ \E p \in Order : FinishCreate(r, p)
          PROVE  intent' = intent
      BY <3>2 DEF BeginCreate, FinishFulfil, FinishOrderUpdate, FinishOffer,
                  FinishListingEdit, Abandon, CheckCreate, FinishCreate
    <3>3. ASSUME \/ \E p \in Order, i \in Item \cup {NoItem} : CreateOrder(p, i)
                 \/ \E f \in Offer : CreateOffer(f) \/ AcceptLapsedOffer(f) \/ OfferLapses(f)
                 \/ \E f \in Offer, p \in Order : AcceptOffer(f, p)
                 \/ \E p \in Order : OrderAges(p) \/ Complete(p)
                 \/ UNCHANGED vars
          PROVE  intent' = intent
      BY <3>3 DEF CreateOrder, CreateOffer, AcceptLapsedOffer, OfferLapses, AcceptOffer,
                  OrderAges, Complete, vars
    <3> QED
      BY <1>9, <3>1, <3>2, <3>3 DEF Next, Finish, Dies
  <2> QED
    BY <1>4, <1>5, <1>6, <1>7, <1>9, <2>1 DEF FinishConflict, RefundLost
<1> QED
  BY <1>8, <1>9

LEMMA CapturedStays ==
  ASSUME TypeOK, [Next]_vars, NEW o \in Order, Captured(o)
  PROVE  Captured(o)'
  BY PaymentStays DEF Captured

LEMMA CheckedOutStays ==
  ASSUME TypeOK, [Next]_vars, NEW pay, CheckedOut(pay)
  PROVE  CheckedOut(pay)'
<1>1. pay[1] \in Order /\ pay[2] \in 1..MaxIntent
  BY DEF CheckedOut, Payment
<1> QED
  BY <1>1, PaymentStays DEF CheckedOut

LEMMA CoveredStays ==
  ASSUME TypeOK, [Next]_vars, NEW o \in Order, Covered(o), Kept(o)
  PROVE  Covered(o)'
<1>1. Captured(o) => Captured(o)'
  BY CapturedStays
<1>2. PICK pay : pay = order[o].txId
  OBVIOUS
<1>3. CheckedOut(pay) => CheckedOut(pay)'
  BY CheckedOutStays
<1>4. order'[o].txId = pay => (CheckedOut(pay)' => CheckedOut(order[o].txId)')
  BY DEF CheckedOut
<1> QED
  BY <1>1, <1>2, <1>3, <1>4 DEF Covered, Kept

\* A commit that settles an order needs the evidence, one that does not revive
\* it keeps its status in bounds, and none touches its offer or its item.
LEMMA CommitKept ==
  ASSUME TypeOK, [Next]_vars, NEW o \in Order, NEW r \in Request, NEW new, Commit(r, new),
         new.offer = req[r].row.offer /\ new.item = req[r].row.item,
         \/ new.status = req[r].row.status
         \/ new.status \in {"cancelled"} \cup Fulfilled \cup Conflicted,
         NEW tx, tx = new.txId, tx # req[r].row.txId => CheckedOut(tx),
         o = req[r].o /\ new.status # req[r].row.status
           /\ new.status \in Fulfilled \cup Conflicted => Covered(o)',
         o = req[r].o /\ new.payment # req[r].row.payment
           /\ new.payment = "succeeded" => Covered(o)',
         new.status \in Fulfilled => new.status = req[r].row.status \/ FinishFulfil(r)
  PROVE  Kept(o)
<1>1. order \in [Order -> OrderRow]
  BY DEF TypeOK
<1>2. CASE o # req[r].o
  <2>1. order'[o] = order[o]
    BY <1>1, <1>2 DEF Commit
  <2> QED
    BY <2>1 DEF Kept, Paid
<1>3. CASE o = req[r].o
  <2> DEFINE m == MergeOrder(order[o], req[r].row, new)
  <2>1. order'[o] = m
    BY <1>1, <1>3 DEF Commit
  <2>2. /\ m.offer = order[o].offer /\ m.item = order[o].item
        /\ \/ m.status = order[o].status
           \/ m.status = new.status /\ new.status # req[r].row.status
        /\ \/ m.payment = order[o].payment
           \/ m.payment = new.payment /\ new.payment # req[r].row.payment
        /\ \/ m.txId = order[o].txId
           \/ m.txId = tx /\ tx # req[r].row.txId
    BY MergeOrderColumns
  <2> HIDE DEF m
  <2>3. Paid(o)' => Paid(o) \/ Covered(o)'
    BY <1>3, <2>1, <2>2 DEF Paid
  <2>4. order'[o].status = order[o].status
        \/ order'[o].status \in {"cancelled"} \cup Fulfilled \cup Conflicted
    BY <2>1, <2>2
  <2>5. order'[o].status \in Fulfilled => order[o].status \in Fulfilled \/ FinishFulfil(r)
    BY <2>1, <2>2
  <2>6. order'[o].offer = order[o].offer /\ order'[o].item = order[o].item
    BY <2>1, <2>2
  <2>7. order'[o].txId = order[o].txId \/ CheckedOut(order[o].txId)'
    <3>1. tx # req[r].row.txId => CheckedOut(tx)'
      BY CheckedOutStays
    <3> QED
      BY <2>1, <2>2, <3>1 DEF CheckedOut
  <2> QED
    BY <1>3, <2>3, <2>4, <2>5, <2>6, <2>7 DEF Kept
<1> QED
  BY <1>2, <1>3

\* A commit with a finished checkout as its transaction covers its order, written
\* now or found there before.
LEMMA CommitCovers ==
  ASSUME TypeOK, [Next]_vars, NEW o \in Order, NEW r \in Request, NEW new, Commit(r, new),
         o = req[r].o, NEW tx, tx = new.txId,
         tx # req[r].row.txId => CheckedOut(tx),
         tx = req[r].row.txId => Covered(o)
  PROVE  Covered(o)'
<1>1. order'[o] = MergeOrder(order[o], req[r].row, new)
  BY DEF Commit, TypeOK
<1>2. CASE tx # req[r].row.txId
  <2>1. order'[o].txId = tx
    BY <1>1, <1>2 DEF MergeOrder, Put
  <2>2. CheckedOut(tx)'
    BY <1>2, CheckedOutStays
  <2> QED
    BY <2>1, <2>2 DEF Covered, CheckedOut
<1>3. CASE tx = req[r].row.txId
  <2>1. order'[o].txId = order[o].txId
    BY <1>1, <1>3 DEF MergeOrder, Put
  <2>2. PICK pay : pay = order[o].txId
    OBVIOUS
  <2>3. /\ CheckedOut(pay) => CheckedOut(pay)'
        /\ Captured(o) => Captured(o)'
    BY CheckedOutStays, CapturedStays
  <2> QED
    BY <1>3, <2>1, <2>2, <2>3 DEF Covered, CheckedOut
<1> QED
  BY <1>2, <1>3

LEMMA KeptStutter ==
  ASSUME NEW o \in Order, order'[o] = order[o] PROVE Kept(o)
  BY DEF Kept, Paid

LEMMA CancelKept ==
  ASSUME TypeOK, NEW o \in Order, order'[o] = [order[o] EXCEPT !.status = "cancelled"]
  PROVE  Kept(o)
<1>1. /\ order'[o].offer = order[o].offer /\ order'[o].item = order[o].item
      /\ order'[o].status = "cancelled"
      /\ order'[o].payment = order[o].payment /\ order'[o].txId = order[o].txId
  BY DEF TypeOK, OrderRow
<1> QED
  BY <1>1 DEF Kept, Paid, Fulfilled, Owning, Conflicted

\* Finishing a request.
LEMMA FinishKept ==
  ASSUME IInv, [Next]_vars, NEW r \in Request, NEW o \in Order,
         \/ FinishFulfil(r) \/ FinishConflict(r) \/ FinishCheckout(r)
         \/ FinishOrderUpdate(r)
  PROVE  Kept(o)
<1> USE DEF IInv
<1>1. req[r].row \in OrderRow
  BY DEF TypeOK, RequestRow
\* A confirmation covers its order; the transaction it writes is finished.
<1>2. ASSUME req[r].op \in PaidOp \ {"capture"}, o = req[r].o, NEW new, Commit(r, new),
             new.txId = IF req[r].op = "pay" THEN req[r].row.txId ELSE req[r].pay
      PROVE  Covered(o)'
  <2>1. PICK tx : tx = new.txId
    OBVIOUS
  <2>2. Entitled(req[r])
    BY DEF Evidence
  <2>3. CASE req[r].op = "pay"
    BY <1>2, <2>1, <2>2, <2>3, CommitCovers DEF Entitled, PaidOp
  <2>4. CASE req[r].op # "pay"
    <3>1. CheckedOut(tx)
      BY <1>2, <2>1, <2>2, <2>4 DEF Entitled
    <3>2. tx # NoPayment
      BY <3>1 DEF CheckedOut, Payment, NoPayment
    <3>3. tx = req[r].row.txId => Covered(o)
      BY <1>2, <2>2, <3>2 DEF Entitled
    <3> QED
      BY <1>2, <2>1, <3>1, <3>3, CommitCovers
  <2> QED
    BY <2>3, <2>4
<1>tx. ASSUME req[r].op \in PaidOp \ {"capture"}, NEW tx, tx # req[r].row.txId,
             tx = IF req[r].op = "pay" THEN req[r].row.txId ELSE req[r].pay
      PROVE  CheckedOut(tx)
  BY <1>tx DEF Evidence, Entitled
<1>3. CASE FinishFulfil(r)
  <2> DEFINE new == [PaidRow(r) EXCEPT !.status = IF Kind = "service"
                       THEN "pendingService" ELSE "pendingShip"]
  <2>1. Commit(r, new) /\ req[r].op \in PaidOp \ {"capture"}
    BY <1>3 DEF FinishFulfil, Confirming, PaidOp
  <2>2. /\ new.offer = req[r].row.offer /\ new.item = req[r].row.item
        /\ new.status \in Fulfilled
        /\ new.txId = IF req[r].op = "pay" THEN req[r].row.txId ELSE req[r].pay
    BY <1>1 DEF PaidRow, OrderRow, Fulfilled, Owning
  <2> HIDE DEF new
  <2>3. PICK tx : tx = new.txId
    OBVIOUS
  <2>4. tx # req[r].row.txId => CheckedOut(tx)
    BY <1>tx, <2>1, <2>2, <2>3
  <2>5. o = req[r].o => Covered(o)'
    BY <1>2, <2>1, <2>2
  <2> QED
    BY <1>3, <2>1, <2>2, <2>3, <2>4, <2>5, CommitKept
<1>4. CASE FinishConflict(r)
  <2>1. req[r].op \in PaidOp \ {"capture"}
    BY <1>4 DEF FinishConflict, Confirming, PaidOp
  <2>2. ASSUME NEW status \in Conflicted, NEW payment, NEW refund,
               ConflictOutcome(r, status, payment, refund)
        PROVE  Kept(o)
    <3> DEFINE new == [PaidRow(r) EXCEPT !.status = status, !.payment = payment,
                                         !.refund = refund]
    <3>1. Commit(r, new)
      BY <2>2 DEF ConflictOutcome
    <3>2. /\ new.offer = req[r].row.offer /\ new.item = req[r].row.item
          /\ new.status \in Conflicted
          /\ new.txId = IF req[r].op = "pay" THEN req[r].row.txId ELSE req[r].pay
      BY <1>1 DEF PaidRow, OrderRow
    <3>3. Conflicted \cap Fulfilled = {}
      BY DEF Conflicted, Fulfilled, Owning
    <3> HIDE DEF new
    <3>4. PICK tx : tx = new.txId
      OBVIOUS
    <3>5. tx # req[r].row.txId => CheckedOut(tx)
      BY <1>tx, <2>1, <3>2, <3>4
    <3>6. o = req[r].o => Covered(o)'
      BY <1>2, <2>1, <3>1, <3>2
    <3> QED
      BY <3>1, <3>2, <3>3, <3>4, <3>5, <3>6, CommitKept
  <2>3. \E status \in Conflicted : \E payment, refund : ConflictOutcome(r, status, payment, refund)
    <3>1. CASE ConflictOutcome(r, "refunded", "refunded", "succeeded")
      BY <3>1 DEF Conflicted
    <3>2. CASE ConflictOutcome(r, "refundInProgress", "succeeded", "pending")
      BY <3>2 DEF Conflicted
    <3>3. CASE ConflictOutcome(r, "inDispute", "succeeded", req[r].row.refund)
      BY <3>3 DEF Conflicted
    <3> QED
      BY <1>4, <3>1, <3>2, <3>3 DEF FinishConflict
  <2> QED
    BY <2>2, <2>3
<1>5. CASE FinishCheckout(r)
  <2>1. CASE Commit(r, [req[r].row EXCEPT !.status = "cancelled"])
    <3> DEFINE new == [req[r].row EXCEPT !.status = "cancelled"]
    <3>1. /\ new.offer = req[r].row.offer /\ new.item = req[r].row.item /\ new.status = "cancelled"
          /\ new.payment = req[r].row.payment /\ new.txId = req[r].row.txId
      BY <1>1 DEF OrderRow
    <3>2. "cancelled" \notin Fulfilled \cup Conflicted
      BY DEF Fulfilled, Owning, Conflicted
    <3> HIDE DEF new
    <3> QED
      BY <2>1, <3>1, <3>2, CommitKept DEF new
  <2>2. ASSUME NEW n, NEW payment,
               Commit(r, [req[r].row EXCEPT !.payment = payment, !.pspId = n]),
               payment = "succeeded" /\ o = req[r].o => Covered(o)'
        PROVE  Kept(o)
    <3> DEFINE new == [req[r].row EXCEPT !.payment = payment, !.pspId = n]
    <3>1. /\ new.offer = req[r].row.offer /\ new.item = req[r].row.item
          /\ new.status = req[r].row.status
          /\ new.payment = payment /\ new.txId = req[r].row.txId
      BY <1>1 DEF OrderRow
    <3> HIDE DEF new
    <3> QED
      BY <2>2, <3>1, CommitKept DEF new
  <2>3. CASE Commit(r, [req[r].row EXCEPT !.payment = "failed"])
    <3> DEFINE new == [req[r].row EXCEPT !.payment = "failed"]
    <3>1. /\ new.offer = req[r].row.offer /\ new.item = req[r].row.item
          /\ new.status = req[r].row.status
          /\ new.payment = "failed" /\ new.txId = req[r].row.txId
      BY <1>1 DEF OrderRow
    <3> HIDE DEF new
    <3> QED
      BY <2>3, <3>1, CommitKept DEF new
  <2>4. ASSUME NEW n \in NextIntent(req[r].o),
               OpenIntent(req[r].o, n, "captured", req[r].row.amount), o = req[r].o
        PROVE  Covered(o)'
    <3>1. n \in 1..MaxIntent
      BY DEF NextIntent
    <3>2. intent'[o][n].state = "captured"
      BY <2>4, <3>1 DEF OpenIntent, TypeOK
    <3> QED
      BY <3>1, <3>2 DEF Covered, Captured
  <2> QED
    BY <1>5, <2>1, <2>2, <2>3, <2>4 DEF FinishCheckout
<1>6. CASE FinishOrderUpdate(r)
  <2> DEFINE new == Written(req[r])
  <2>1. Commit(r, new) /\ req[r].op \in PlainOp
    BY <1>6 DEF FinishOrderUpdate
  <2>2. /\ new.offer = req[r].row.offer /\ new.item = req[r].row.item
        /\ new.status \in {req[r].row.status, "cancelled"}
        /\ new.payment \in {req[r].row.payment, "cancelled", "failed", "approved"}
           \/ req[r].op = "confirm"
        /\ new.txId = IF req[r].op = "confirm" THEN req[r].pay ELSE req[r].row.txId
    BY <1>1, <2>1 DEF Written, PlainOp, OrderRow
  <2>3. "cancelled" \notin Fulfilled \cup Conflicted
    BY DEF Fulfilled, Owning, Conflicted
  <2> HIDE DEF new
  <2>4. PICK tx : tx = new.txId
    OBVIOUS
  <2>5. tx # req[r].row.txId => CheckedOut(tx)
    BY <1>tx, <2>2, <2>4 DEF PaidOp
  <2>6. req[r].op = "confirm" /\ o = req[r].o => Covered(o)'
    BY <1>2, <2>1, <2>2 DEF PaidOp
  <2> QED
    BY <2>1, <2>2, <2>3, <2>4, <2>5, <2>6, CommitKept
<1> QED
  BY <1>3, <1>4, <1>5, <1>6

\* Steps that write no order at all.
LEMMA OrderUntouched ==
  ASSUME \/ \E r \in Request :
               \/ Begin(r) \/ CapturePayment(r) \/ FinishOffer(r) \/ FinishListingEdit(r)
               \/ Dies(r) \/ \E i \in Item \cup {NoItem} : CheckCreate(r, i)
         \/ \E f \in Offer : CreateOffer(f) \/ AcceptLapsedOffer(f) \/ OfferLapses(f)
         \/ \E o \in Order, n \in 1..MaxIntent : BuyerPays(o, n) \/ SessionSettles(o, n)
         \/ \E o \in Order : OrderAges(o)
         \/ UNCHANGED vars
  PROVE  order' = order
<1>1. ASSUME NEW r \in Request, Begin(r) PROVE order' = order
  BY <1>1, BeginOpens DEF Open
<1>2. ASSUME NEW r \in Request,
             \/ CapturePayment(r) \/ FinishOffer(r) \/ FinishListingEdit(r) \/ Dies(r)
             \/ \E i \in Item \cup {NoItem} : CheckCreate(r, i)
      PROVE  order' = order
  BY <1>2 DEF CapturePayment, FinishOffer, FinishListingEdit, Dies, RefundLost,
              CheckoutLost, Abandon, CheckCreate
<1>3. ASSUME \/ \E f \in Offer : CreateOffer(f) \/ AcceptLapsedOffer(f) \/ OfferLapses(f)
             \/ \E o \in Order, n \in 1..MaxIntent : BuyerPays(o, n) \/ SessionSettles(o, n)
             \/ \E o \in Order : OrderAges(o)
             \/ UNCHANGED vars
      PROVE  order' = order
  BY <1>3 DEF CreateOffer, AcceptLapsedOffer, OfferLapses, BuyerPays, SessionSettles, OrderAges, vars
<1> QED
  BY <1>1, <1>2, <1>3

LEMMA OrderStep ==
  ASSUME IInv, [Next]_vars, NEW o \in Order
  PROVE  Created(o) \/ (\E f \in Offer : AcceptOffer(f, o)) \/ Kept(o)
<1> USE DEF IInv
<1>0. order \in [Order -> OrderRow]
  BY DEF TypeOK
<1>1. ASSUME order' = order PROVE Kept(o)
  BY <1>1, KeptStutter
<1>2. ASSUME NEW p \in Order, NEW i \in Item \cup {NoItem}, CreateOrder(p, i)
      PROVE  Created(o) \/ Kept(o)
  <2>1. CASE o = p
    <3>1. /\ NewOrder(i).status = Unpaid /\ NewOrder(i).payment = "none"
          /\ NewOrder(i).offer = NoOffer /\ NewOrder(i).txId = NoPayment
      BY DEF NewOrder, NoOrder
    <3> QED
      BY <1>0, <1>2, <2>1, <3>1 DEF CreateOrder, Created
  <2>2. CASE o # p
    BY <1>0, <1>2, <2>2, KeptStutter DEF CreateOrder
  <2> QED
    BY <2>1, <2>2
<1>3. ASSUME NEW r \in Request, NEW p \in Order, FinishCreate(r, p)
      PROVE  Created(o) \/ Kept(o)
  <2>1. CASE o = p
    BY <1>0, <1>3, <2>1 DEF FinishCreate, Created, Evidence, Entitled
  <2>2. CASE o # p
    BY <1>0, <1>3, <2>2, KeptStutter DEF FinishCreate
  <2> QED
    BY <2>1, <2>2
<1>4. ASSUME NEW r \in Request, BeginCreate(r) PROVE Kept(o)
  <2>1. order'[o] \in {order[o], [order[o] EXCEPT !.status = "cancelled"]}
    BY <1>4 DEF BeginCreate, Expired
  <2> QED
    BY <2>1, KeptStutter, CancelKept
<1>5. ASSUME NEW r \in Request,
             \/ FinishFulfil(r) \/ FinishConflict(r) \/ FinishCheckout(r)
             \/ FinishOrderUpdate(r)
      PROVE  Kept(o)
  BY <1>5, FinishKept
<1>6. ASSUME NEW f \in Offer, NEW p \in Order, AcceptOffer(f, p), p # o PROVE Kept(o)
  BY <1>0, <1>6, KeptStutter DEF AcceptOffer
<1>7. ASSUME NEW p \in Order, Complete(p) PROVE Kept(o)
  <2>1. CASE o # p
    BY <1>0, <1>7, <2>1, KeptStutter DEF Complete
  <2>2. CASE o = p
    <3>1. /\ order'[o].status = "completed" /\ order'[o].offer = order[o].offer
          /\ order'[o].item = order[o].item
          /\ order[o].status \in Fulfilled /\ order'[o].txId = order[o].txId
      BY <1>0, <1>7, <2>2 DEF Complete, OrderRow, Fulfilled
    <3> QED
      BY <3>1 DEF Kept, Paid, Fulfilled
  <2> QED
    BY <2>1, <2>2
<1> QED
  BY <1>1, <1>2, <1>3, <1>4, <1>5, <1>6, <1>7, OrderUntouched DEF Next, Finish, Dies

LEMMA PaidStep ==
  ASSUME IInv, [Next]_vars, NEW o \in Order, Paid(o)' \/ order'[o].txId # NoPayment
  PROVE  Covered(o)'
<1>1. CASE Kept(o)
  <2>1. Covered(o) => Covered(o)'
    BY <1>1, CoveredStays DEF IInv
  <2>2. CheckedOut(order[o].txId)' => Covered(o)'
    BY DEF Covered
  <2> QED
    BY <1>1, <2>1, <2>2 DEF Kept, IInv, Evidence
<1>2. CASE Created(o)
  BY <1>2 DEF Created, Paid, Unpaid, Fulfilled, Owning, Conflicted
<1>3. ASSUME NEW f \in Offer, AcceptOffer(f, o) PROVE FALSE
  <2>1. /\ order'[o].status = Unpaid /\ order'[o].payment = "none"
        /\ order'[o].txId = NoPayment
    BY <1>3 DEF AcceptOffer, IInv, TypeOK, NoOrder
  <2> QED
    BY <2>1 DEF Paid, Unpaid, Fulfilled, Owning, Conflicted
<1> QED
  BY <1>1, <1>2, <1>3, OrderStep

LEMMA OrderStays ==
  ASSUME IInv, [Next]_vars, NEW o \in Order, order[o].status # "none"
  PROVE  Kept(o) /\ order'[o].status # "none" /\ (Covered(o) => Covered(o)')
<1>1. ~Created(o) /\ ~\E f \in Offer : AcceptOffer(f, o)
  BY DEF Created, AcceptOffer
<1>2. Kept(o)
  BY <1>1, OrderStep
<1> QED
  BY <1>2, CoveredStays DEF IInv, Kept, Fulfilled, Owning, Conflicted

LEMMA EntitledStays ==
  ASSUME IInv, [Next]_vars, NEW q, Entitled(q)
  PROVE  Entitled(q)'
<1>1. ASSUME NEW o \in Order, o = q.o, order[o].status # "none"
      PROVE  order'[o].status # "none" /\ (Covered(o) => Covered(o)')
  BY <1>1, OrderStays
<1>2. PICK pay : pay = q.pay
  OBVIOUS
<1>3. CheckedOut(pay) => CheckedOut(pay)'
  BY CheckedOutStays DEF IInv
<1> QED
  BY <1>1, <1>2, <1>3 DEF Entitled

\* A request that opens on an unpaid order.
LEMMA BeginEntitled ==
  ASSUME IInv, [Next]_vars, NEW r \in Request, Begin(r)
  PROVE  Entitled(req'[r])
<1> USE DEF IInv
<1>0. req \in [Request -> RequestRow] /\ order \in [Order -> OrderRow]
  BY DEF TypeOK
<1>1. ASSUME NEW o \in Order, NEW op, NEW pay, ReadUnpaid(r, op, o, pay)
      PROVE  /\ req'[r].op = op /\ req'[r].o = o /\ req'[r].pay = pay
             /\ req'[r].row = order[o] /\ order[o].status # "none"
             /\ req'[r].row.txId # NoPayment => Covered(o)
  BY <1>0, <1>1 DEF ReadUnpaid, Open, Idle, Evidence, Unpaid
<1>2. ASSUME NEW q, Open(r, q) PROVE req'[r] = q
  BY <1>0, <1>2 DEF Open
<1>3. ASSUME NEW o \in Order, BeginPay(r, o) PROVE Entitled(req'[r])
  <2>1. Covered(o)
    BY <1>3 DEF BeginPay, Evidence, Paid
  <2> QED
    BY <1>1, <1>3, <2>1 DEF BeginPay, Entitled, PaidOp
<1>4. ASSUME NEW o \in Order, NEW p \in Order, NEW n \in 1..MaxIntent,
             BeginSettled(r, o, n) \/ BeginReturn(r, o, p, n)
      PROVE  Entitled(req'[r])
  <2>1. /\ BeginSettled(r, o, n) => CheckedOut(<<o, n>>)
        /\ BeginReturn(r, o, p, n) => CheckedOut(<<p, n>>)
    BY DEF BeginSettled, BeginReturn, CheckedOut, Payment
  <2> QED
    BY <1>1, <1>4, <2>1 DEF BeginSettled, BeginReturn, Entitled
<1>5. ASSUME NEW o \in Order, BeginCapture(r, o) \/ BeginConfirm(r, o)
      PROVE  Entitled(req'[r])
  <2>1. order[o].pspId # 0 /\ order[o].pspId \in 1..MaxIntent
    BY <1>0, <1>5 DEF BeginCapture, BeginConfirm, OrderRow
  <2>2. <<o, order[o].pspId>> \in Payment
    BY <2>1 DEF Payment
  <2>3. BeginConfirm(r, o) => CheckedOut(<<o, order[o].pspId>>)
    BY <2>2 DEF BeginConfirm, CheckedOut, Finished
  <2> QED
    BY <1>1, <1>5, <2>2, <2>3 DEF BeginCapture, BeginConfirm, Entitled
<1>6. ASSUME NEW o \in Order,
             \/ BeginFailed(r, o) \/ BeginCancel(r, o) \/ BeginPspCancel(r, o)
             \/ BeginCheckout(r, o) \/ BeginUpdate(r, o) \/ BeginAdjust(r, o)
             \/ BeginExpire(r, o) \/ \E n \in 1..MaxIntent : BeginApproved(r, o, n)
      PROVE  Entitled(req'[r])
  BY <1>1, <1>6 DEF BeginFailed, BeginCancel, BeginPspCancel, BeginCheckout, BeginUpdate,
                    BeginAdjust, BeginExpire, BeginApproved, Entitled, PaidOp
<1>7. ASSUME \/ \E f \in Offer, val \in {"VIEWED", "REJECTED", "CANCELLED", "EXPIRED"} :
                  BeginCloseOffer(r, f, val)
             \/ BeginDeactivate(r) \/ BeginActivate(r) \/ BeginReprice(r)
      PROVE  Entitled(req'[r])
  <2>1. req'[r].op \in {"offer", "deactivate", "activate", "reprice"}
    BY <1>2, <1>7 DEF BeginCloseOffer, BeginDeactivate, BeginActivate, BeginReprice, Idle
  <2> QED
    BY <2>1 DEF Entitled, PaidOp
<1> QED
  BY <1>3, <1>4, <1>5, <1>6, <1>7 DEF Begin

\* The steps of other requests leave a request alone.
LEMMA RequestStep ==
  ASSUME TypeOK, [Next]_vars, NEW r \in Request
  PROVE  \/ req'[r] = req[r] \/ req'[r] = Idle
         \/ Begin(r) \/ CapturePayment(r) \/ BeginCreate(r)
         \/ \E i \in Item \cup {NoItem} : CheckCreate(r, i)
<1>0. req \in [Request -> RequestRow]
  BY DEF TypeOK
<1>1. ASSUME NEW x \in Request, Begin(x), x # r PROVE req'[r] = req[r]
  BY <1>0, <1>1, BeginOpens DEF Open
<1>2. ASSUME NEW x \in Request, x # r,
             \/ CapturePayment(x) \/ BeginCreate(x)
             \/ \E i \in Item \cup {NoItem} : CheckCreate(x, i)
      PROVE  req'[r] = req[r]
  BY <1>0, <1>2 DEF CapturePayment, BeginCreate, CheckCreate
<1>3. ASSUME NEW x \in Request, Close(x) PROVE req'[r] = req[r] \/ req'[r] = Idle
  BY <1>0, <1>3 DEF Close
<1>4. ASSUME NEW x \in Request,
             \/ FinishFulfil(x) \/ FinishConflict(x) \/ FinishCheckout(x)
             \/ FinishOrderUpdate(x) \/ FinishOffer(x) \/ FinishListingEdit(x) \/ Dies(x)
             \/ \E o \in Order : FinishCreate(x, o)
      PROVE  Close(x)
  BY <1>4 DEF FinishFulfil, FinishConflict, FinishCheckout, FinishOrderUpdate, FinishOffer,
              FinishListingEdit, Dies, RefundLost, CheckoutLost, Abandon, FinishCreate
<1>5. ASSUME \/ \E o \in Order, i \in Item \cup {NoItem} : CreateOrder(o, i)
             \/ \E f \in Offer : CreateOffer(f) \/ AcceptLapsedOffer(f) \/ OfferLapses(f)
             \/ \E f \in Offer, o \in Order : AcceptOffer(f, o)
             \/ \E o \in Order, n \in 1..MaxIntent : BuyerPays(o, n) \/ SessionSettles(o, n)
             \/ \E o \in Order : OrderAges(o) \/ Complete(o)
             \/ UNCHANGED vars
      PROVE  req' = req
  BY <1>5 DEF CreateOrder, CreateOffer, AcceptLapsedOffer, OfferLapses, AcceptOffer,
              BuyerPays, SessionSettles, OrderAges, Complete, vars
<1> QED
  BY <1>1, <1>2, <1>3, <1>4, <1>5 DEF Next, Finish

LEMMA EvidenceStep == IInv /\ [Next]_vars => Evidence'
<1> SUFFICES ASSUME IInv, [Next]_vars PROVE Evidence'
  OBVIOUS
<1>0. TypeOK /\ Evidence
  BY DEF IInv
<1>1. ASSUME NEW o \in Order, Paid(o)' \/ order'[o].txId # NoPayment PROVE Covered(o)'
  BY <1>1, PaidStep
<1>2. ASSUME NEW r \in Request PROVE \A q : q = req'[r] => Entitled(q)'
  <2>1. CASE req'[r] = req[r]
    BY <1>0, <2>1, EntitledStays DEF Evidence
  <2>2. CASE req'[r] = Idle
    BY <2>2 DEF Entitled, Idle, PaidOp
  <2>3. CASE Begin(r)
    BY <2>3, BeginEntitled, EntitledStays
  <2>4. CASE CapturePayment(r)
    <3>1. /\ req[r] \in RequestRow /\ req[r].op = "capture"
          /\ \/ /\ intent' = [intent EXCEPT ![req[r].pay[1]][req[r].pay[2]].state = "captured"]
                /\ req'[r] = [req[r] EXCEPT !.op = "captured"]
             \/ req'[r] = [req[r] EXCEPT !.op = "refused"]
      BY <1>0, <2>4 DEF CapturePayment, TypeOK
    <3>2. /\ req'[r].o = req[r].o /\ req'[r].pay = req[r].pay /\ req'[r].row = req[r].row
          /\ req'[r].op \in {"captured", "refused"}
      BY <3>1 DEF RequestRow
    <3>3. /\ req[r].o \in Order /\ req[r].pay \in Payment
          /\ order[req[r].o].status # "none"
          /\ req[r].row.txId # NoPayment => Covered(req[r].o)
      BY <1>0, <3>1 DEF Evidence, Entitled, PaidOp
    <3>4. PICK p, n, pay : /\ p = req[r].pay[1] /\ n = req[r].pay[2]
                           /\ pay = req[r].pay
      OBVIOUS
    <3>5. p \in Order /\ n \in 1..MaxIntent /\ pay \in Payment
      BY <3>3, <3>4 DEF Payment
    <3>6. ASSUME req'[r].op = "captured" PROVE CheckedOut(pay)'
      <4>1. intent' = [intent EXCEPT ![p][n].state = "captured"]
        BY <3>1, <3>4, <3>6 DEF RequestRow
      <4>2. /\ intent \in [Order -> [1..MaxIntent -> IntentRow]]
            /\ intent[p][n] \in IntentRow
        BY <1>0, <3>5 DEF TypeOK
      <4>3. intent'[p][n].state = "captured"
        BY <3>5, <4>1, <4>2 DEF IntentRow
      <4>4. pay[1] = p /\ pay[2] = n
        BY <3>4
      <4> QED
        BY <3>5, <4>3, <4>4 DEF CheckedOut, Finished
    <3>7. PICK o \in Order : o = req[r].o
      BY <3>3
    <3>8. order'[o].status # "none" /\ (Covered(o) => Covered(o)')
      BY <3>3, <3>7, OrderStays
    <3> QED
      BY <3>2, <3>3, <3>4, <3>5, <3>6, <3>7, <3>8 DEF Entitled, PaidOp
  <2>5. CASE BeginCreate(r)
    BY <1>0, <2>5 DEF BeginCreate, Entitled, Idle, TypeOK, PaidOp
  <2>6. ASSUME NEW i \in Item \cup {NoItem}, CheckCreate(r, i)
        PROVE  \A q : q = req'[r] => Entitled(q)'
    <3>1. /\ req'[r].op = "insert" /\ req'[r].row = NewOrder(i)
      BY <1>0, <2>6 DEF CheckCreate, Idle, TypeOK
    <3>2. /\ NewOrder(i).status = Unpaid /\ NewOrder(i).payment = "none"
          /\ NewOrder(i).offer = NoOffer /\ NewOrder(i).txId = NoPayment
      BY DEF NewOrder, NoOrder
    <3> QED
      BY <3>1, <3>2 DEF Entitled, PaidOp
  <2> QED
    BY <1>0, <2>1, <2>2, <2>3, <2>4, <2>5, <2>6, RequestStep
<1> QED
  BY <1>1, <1>2 DEF Evidence

LEMMA InitEvidence == Init => Evidence
  BY DEF Init, Evidence, Paid, Entitled, PaidOp, NoOrder, Idle, Fulfilled, Owning, Conflicted

LEMMA Inductive == Spec => []IInv
<1>1. Init => IInv
  BY InitType, InitEvidence DEF IInv
<1>2. IInv /\ [Next]_vars => IInv'
  BY TypeStep, EvidenceStep DEF IInv
<1> QED
  BY <1>1, <1>2, PTL DEF Spec

\* Nothing is handed over or compensated on an unfinished checkout, whatever
\* requests run concurrently and whichever of them die: a payment of the order
\* went through, or the order keeps as its transaction one that was completed.
THEOREM FulfilledOnlyWhenPaid == Spec => []FulfilledWasPaid
<1>1. IInv => FulfilledWasPaid
  BY DEF IInv, Evidence, Paid, Covered, FulfilledWasPaid
<1> QED
  BY <1>1, Inductive, PTL

-----------------------------------------------------------------------------
\* Private offers.

LEMMA Accepted ==
  ASSUME TypeOK, NEW f \in Offer, NEW o \in Order, AcceptOffer(f, o)
  PROVE  /\ order'[o].offer = f /\ order'[o].status = Unpaid
         /\ \A p \in Order : p # o => order'[p] = order[p]
         /\ \A p \in Order : order[p].offer # f
         /\ \A p \in Order : ~(order[p].status = Unpaid /\ order[p].offer # NoOffer)
  BY DEF AcceptOffer, TypeOK, NoOrder, ReservedForOffer

\* An offer is never converted into two orders, however its acceptance races
\* with its rejection, its withdrawal or its expiry.
THEOREM OneOrderPerOffer == Spec => []OfferMakesOneOrder
<1>1. Init => OfferMakesOneOrder
  BY DEF Init, OfferMakesOneOrder, NoOrder
<1>2. IInv /\ OfferMakesOneOrder /\ [Next]_vars => OfferMakesOneOrder'
  <2> SUFFICES ASSUME IInv, OfferMakesOneOrder, [Next]_vars,
                      NEW p \in Order, NEW q \in Order,
                      order'[p].offer # NoOffer, order'[p].offer = order'[q].offer
               PROVE  p = q
    BY DEF OfferMakesOneOrder
  <2>1. ~Created(p) /\ ~Created(q)
    BY DEF Created
  <2>2. ASSUME NEW f \in Offer, AcceptOffer(f, p) \/ AcceptOffer(f, q) PROVE p = q
    BY <2>2, Accepted DEF IInv
  <2>3. CASE Kept(p) /\ Kept(q)
    BY <2>3 DEF Kept, OfferMakesOneOrder
  <2> QED
    BY <2>1, <2>2, <2>3, OrderStep
<1> QED
  BY <1>1, <1>2, Inductive, PTL DEF Spec

\* An accepted offer reserves the listing: no second accepted offer waits for
\* payment beside it.
THEOREM OneReservationAtATime == Spec => []OneReservation
<1>1. Init => OneReservation
  BY DEF Init, OneReservation, NoOrder, Unpaid
<1>2. IInv /\ OneReservation /\ [Next]_vars => OneReservation'
  <2> SUFFICES ASSUME IInv, OneReservation, [Next]_vars,
                      NEW p \in Order, NEW q \in Order,
                      order'[p].status = Unpaid, order'[p].offer # NoOffer,
                      order'[q].status = Unpaid, order'[q].offer # NoOffer
               PROVE  p = q
    BY DEF OneReservation
  <2>1. ~Created(p) /\ ~Created(q)
    BY DEF Created
  <2>2. ASSUME NEW f \in Offer, AcceptOffer(f, p) \/ AcceptOffer(f, q) PROVE p = q
    BY <2>2, Accepted DEF IInv
  <2>3. CASE Kept(p) /\ Kept(q)
    BY <2>3 DEF Kept, OneReservation, Unpaid, Fulfilled, Owning, Conflicted
  <2> QED
    BY <2>1, <2>2, <2>3, OrderStep
<1> QED
  BY <1>1, <1>2, Inductive, PTL DEF Spec

-----------------------------------------------------------------------------
\* The order of a request.

\* Requests that have read an unpaid order.
OrderOp == {"pay", "settled", "return", "capture", "captured", "refused", "confirm",
            "failed", "approved", "cancel", "pspCancel", "checkout", "update", "adjust", "expire"}

\* A request that opens on an order has read it, unpaid, as it is.
LEMMA BeginWaits ==
  ASSUME TypeOK, NEW r \in Request, Begin(r), req'[r].op \in OrderOp
  PROVE  /\ req'[r].o \in Order /\ order'[req'[r].o].status = Unpaid
         /\ req'[r].row.status = Unpaid /\ req'[r].row = order'[req'[r].o]
         /\ req'[r].op = "pay" => req'[r].lst = listing
<1>0. req \in [Request -> RequestRow] /\ order' = order
  BY BeginOpens DEF TypeOK, Open
<1>1. ASSUME NEW o \in Order, NEW op, NEW pay, ReadUnpaid(r, op, o, pay)
      PROVE  /\ req'[r].o \in Order /\ order'[req'[r].o].status = Unpaid
             /\ req'[r].row.status = Unpaid /\ req'[r].row = order'[req'[r].o]
             /\ req'[r].op = "pay" => req'[r].lst = listing
  <2>1. /\ order[o].status = Unpaid
        /\ req'[r] = [Idle EXCEPT !.op = op, !.o = o, !.row = order[o], !.pay = pay,
                                  !.lst = IF op \in {"pay", "update"} THEN listing
                                          ELSE NoListing]
    BY <1>0, <1>1 DEF ReadUnpaid, Open
  <2>2. /\ req'[r].o = o /\ req'[r].row = order[o] /\ req'[r].op = op
        /\ req'[r].lst = IF op \in {"pay", "update"} THEN listing ELSE NoListing
    BY <2>1 DEF Idle
  <2> QED
    BY <1>0, <2>1, <2>2
<1>2. ASSUME NEW q, Open(r, q) PROVE req'[r] = q
  BY <1>0, <1>2 DEF Open
<1>3. ASSUME \/ \E f \in Offer, val \in {"VIEWED", "REJECTED", "CANCELLED", "EXPIRED"} :
                  BeginCloseOffer(r, f, val)
             \/ BeginDeactivate(r) \/ BeginActivate(r) \/ BeginReprice(r)
      PROVE  FALSE
  <2>1. req'[r].op \in {"offer", "deactivate", "activate", "reprice"}
    BY <1>2, <1>3 DEF BeginCloseOffer, BeginDeactivate, BeginActivate, BeginReprice, Idle
  <2> QED
    BY <2>1 DEF OrderOp
<1>4. \E o \in Order : \E op, pay : ReadUnpaid(r, op, o, pay)
  <2>1. ASSUME NEW o \in Order,
               \/ BeginPay(r, o) \/ BeginCapture(r, o) \/ BeginConfirm(r, o)
               \/ BeginFailed(r, o) \/ BeginCancel(r, o) \/ BeginPspCancel(r, o)
               \/ BeginCheckout(r, o) \/ BeginUpdate(r, o) \/ BeginAdjust(r, o)
               \/ BeginExpire(r, o)
               \/ \E n \in 1..MaxIntent : BeginSettled(r, o, n) \/ BeginApproved(r, o, n)
               \/ \E p \in Order, n \in 1..MaxIntent : BeginReturn(r, o, p, n)
        PROVE  \E op, pay : ReadUnpaid(r, op, o, pay)
    BY <2>1 DEF BeginPay, BeginSettled, BeginReturn, BeginCapture, BeginConfirm, BeginFailed,
                BeginApproved, BeginCancel, BeginPspCancel, BeginCheckout, BeginUpdate,
                BeginAdjust, BeginExpire
  <2> QED
    BY <1>3, <2>1 DEF Begin
<1> QED
  BY <1>1, <1>4

\* An order keeps its item, so what an open request has read of it is true.
ItemKnown ==
    \A r \in Request : req[r].op \in OrderOp =>
        /\ req[r].o \in Order /\ order[req[r].o].status # "none"
        /\ req[r].row.item = order[req[r].o].item

LEMMA ItemStays ==
  ASSUME IInv, [Next]_vars, NEW o \in Order, order[o].status # "none"
  PROVE  Kept(o) /\ order'[o].status # "none" /\ order'[o].item = order[o].item
<1>1. ~Created(o) /\ ~\E f \in Offer : AcceptOffer(f, o)
  BY DEF Created, AcceptOffer
<1>2. Kept(o)
  BY <1>1, OrderStep
<1> QED
  BY <1>2 DEF Kept, Fulfilled, Owning, Conflicted

LEMMA ItemKnownStep ==
  ASSUME IInv, ItemKnown, [Next]_vars
  PROVE  ItemKnown'
<1> SUFFICES ASSUME NEW r \in Request, req'[r].op \in OrderOp
             PROVE  /\ req'[r].o \in Order /\ order'[req'[r].o].status # "none"
                    /\ req'[r].row.item = order'[req'[r].o].item
  BY DEF ItemKnown
<1>0. TypeOK /\ req \in [Request -> RequestRow]
  BY DEF IInv, TypeOK
<1>1. ASSUME req[r].op \in OrderOp, req'[r].o = req[r].o, req'[r].row = req[r].row
      PROVE  /\ req'[r].o \in Order /\ order'[req'[r].o].status # "none"
             /\ req'[r].row.item = order'[req'[r].o].item
  <2>1. /\ req[r].o \in Order /\ order[req[r].o].status # "none"
        /\ req[r].row.item = order[req[r].o].item
    BY <1>1 DEF ItemKnown
  <2> QED
    BY <1>1, <2>1, ItemStays
<1>2. CASE Begin(r)
  BY <1>0, <1>2, BeginWaits DEF Unpaid
<1>3. CASE CapturePayment(r)
  <2>1. /\ req[r].op = "capture"
        /\ \E op : req' = [req EXCEPT ![r] = [req[r] EXCEPT !.op = op]]
    BY <1>0, <1>3 DEF CapturePayment
  <2>2. req'[r].o = req[r].o /\ req'[r].row = req[r].row
    BY <1>0, <2>1 DEF RequestRow
  <2>3. req[r].op \in OrderOp
    BY <2>1 DEF OrderOp
  <2> QED
    BY <1>1, <2>2, <2>3
<1>4. CASE BeginCreate(r) \/ \E i \in Item \cup {NoItem} : CheckCreate(r, i)
  <2>1. req'[r].op \in {"create", "insert"}
    BY <1>0, <1>4 DEF BeginCreate, CheckCreate, Idle
  <2> QED
    BY <2>1 DEF OrderOp
<1>5. CASE req'[r] = Idle
  BY <1>5 DEF Idle, OrderOp
<1>6. CASE req'[r] = req[r]
  BY <1>1, <1>6
<1> QED
  BY <1>0, <1>2, <1>3, <1>4, <1>5, <1>6, RequestStep

-----------------------------------------------------------------------------
(***************************************************************************)
(* Overselling.  A confirmation that locks the listing and then reads it    *)
(* never sells it twice.  Three kinds of requests write the listing from a  *)
(* row read before: /pay, and the seller's activation and deactivation.     *)
(* Without them SoldOnce holds.                                             *)
(***************************************************************************)

StaleOps == {"pay", "activate", "deactivate"}

\* Whoever holds an order has what it is for marked as sold: the item of a bundle, or
\* the listing.
Marked(i) == IF i = NoItem THEN listing.status = "sold" ELSE i \in listing.sold

SoldIsMarked ==
    /\ \A o \in Order : order[o].status \in Fulfilled => Marked(order[o].item)
    /\ \A r \in Request : req[r].op \notin StaleOps

LEMMA StaleOpsStay ==
  ASSUME TypeOK, StaleOps \cap Op = {}, SoldIsMarked, [Next]_vars, NEW r \in Request
  PROVE  req'[r].op \notin StaleOps
<1>0. req \in [Request -> RequestRow]
  BY DEF TypeOK
<1>1. CASE Begin(r)
  BY <1>0, <1>1, BeginOpens DEF Open
<1>2. CASE req'[r] = req[r] \/ req'[r] = Idle
  BY <1>2 DEF SoldIsMarked, Idle, StaleOps
<1>3. CASE CapturePayment(r)
  <2>1. req'[r].op \in {"captured", "refused"}
    BY <1>0, <1>3 DEF CapturePayment, RequestRow
  <2> QED
    BY <2>1 DEF StaleOps
<1>4. CASE BeginCreate(r) \/ \E i \in Item \cup {NoItem} : CheckCreate(r, i)
  <2>1. req'[r].op \in {"create", "insert"}
    BY <1>0, <1>4 DEF BeginCreate, CheckCreate, Idle
  <2> QED
    BY <2>1 DEF StaleOps
<1> QED
  BY <1>1, <1>2, <1>3, <1>4, RequestStep

\* A confirmation sells what an active listing still has, and marks it.
LEMMA FulfilMarks ==
  ASSUME TypeOK, SoldIsMarked, NEW r \in Request, FinishFulfil(r), NEW i, i = req[r].row.item
  PROVE  /\ listing.status = "active" /\ ~Marked(i) /\ Marked(i)'
         /\ listing.sold \subseteq listing'.sold
<1> DEFINE l == SellTo(listing, req[r].row)
<1>1. ListingSeen(r) = listing
  BY DEF ListingSeen, SoldIsMarked, StaleOps
<1>2. listing.status = "active" /\ (i # NoItem => i \notin listing.sold)
  BY <1>1 DEF FinishFulfil, InventoryAvailable
<1>3. listing \in ListingRow /\ i \in Item \cup {NoItem}
  BY DEF TypeOK, RequestRow, OrderRow
<1>4. i = NoItem => l.status = "sold" /\ l.sold = Item
  BY <1>3 DEF SellTo, ListingRow
<1>5. i # NoItem => l.sold = listing.sold \cup {i}
  BY <1>3 DEF SellTo, ListingRow
<1>6. listing' = MergeListing(listing, listing, l)
  BY <1>1 DEF FinishFulfil
<1>7. listing'.sold = l.sold /\ (l.status = "sold" => listing'.status = "sold")
  <2> HIDE DEF l
  <2> QED
    BY <1>6 DEF MergeListing, Put
<1>8. listing.sold \subseteq Item
  BY <1>3 DEF ListingRow
<1> HIDE DEF l
<1>9. /\ listing.sold \subseteq listing'.sold
      /\ IF i = NoItem THEN listing'.status = "sold" ELSE i \in listing'.sold
  BY <1>4, <1>5, <1>7, <1>8
<1> QED
  BY <1>2, <1>9 DEF Marked

LEMMA SoldStays ==
  ASSUME TypeOK, SoldIsMarked, [Next]_vars, NEW j, Marked(j)
  PROVE  Marked(j)'
<1> DEFINE Stays == listing.sold \subseteq listing'.sold
                    /\ (listing.status = "sold" => listing'.status = "sold")
<1>0. listing' = listing => Stays
  OBVIOUS
<1>1. ASSUME NEW r \in Request, FinishListingEdit(r) PROVE Stays
  <2>1. req[r].op = "reprice" /\ req[r].lst \in ListingRow
    BY <1>1 DEF FinishListingEdit, SoldIsMarked, StaleOps, TypeOK, RequestRow
  <2>2. Edited(req[r]).status = req[r].lst.status /\ Edited(req[r]).sold = req[r].lst.sold
    BY <2>1 DEF Edited, ListingRow
  <2> QED
    BY <1>1, <2>2 DEF FinishListingEdit, MergeListing, Put
<1>2. ASSUME NEW r \in Request, FinishFulfil(r) PROVE Stays
  BY <1>2, FulfilMarks
<1>3. ASSUME NEW o \in Order, Complete(o) PROVE Stays
  BY <1>3 DEF Complete, TypeOK, ListingRow
<1>4. ASSUME NEW r \in Request, Begin(r) PROVE listing' = listing
  BY <1>4, BeginOpens DEF Open
<1>5. ASSUME NEW r \in Request,
             \/ BeginCreate(r) \/ CapturePayment(r) \/ FinishConflict(r) \/ FinishCheckout(r)
             \/ FinishOrderUpdate(r) \/ FinishOffer(r) \/ Dies(r)
             \/ \E i \in Item \cup {NoItem} : CheckCreate(r, i)
             \/ \E o \in Order : FinishCreate(r, o)
      PROVE  listing' = listing
  BY <1>5 DEF BeginCreate, CapturePayment, FinishConflict, FinishCheckout, FinishOrderUpdate,
              FinishOffer, Dies, RefundLost, CheckoutLost, Abandon, CheckCreate, FinishCreate
<1>6. ASSUME \/ \E o \in Order, i \in Item \cup {NoItem} : CreateOrder(o, i)
             \/ \E f \in Offer : CreateOffer(f) \/ AcceptLapsedOffer(f) \/ OfferLapses(f)
             \/ \E f \in Offer, o \in Order : AcceptOffer(f, o)
             \/ \E o \in Order, n \in 1..MaxIntent : BuyerPays(o, n) \/ SessionSettles(o, n)
             \/ \E o \in Order : OrderAges(o)
             \/ UNCHANGED vars
      PROVE  listing' = listing
  BY <1>6 DEF CreateOrder, CreateOffer, AcceptLapsedOffer, OfferLapses, AcceptOffer,
              BuyerPays, SessionSettles, OrderAges, vars
<1> HIDE DEF Stays
<1>7. Stays
  BY <1>0, <1>1, <1>2, <1>3, <1>4, <1>5, <1>6 DEF Next, Finish
<1> QED
  BY <1>7 DEF Stays, Marked

\* No request but a confirmation fulfils an order.
LEMMA NewlyFulfilled ==
  ASSUME IInv, [Next]_vars, NEW o \in Order,
         order[o].status \notin Fulfilled, order'[o].status \in Fulfilled
  PROVE  Kept(o) /\ \E r \in Request : FinishFulfil(r) /\ req[r].o = o
<1>1. ~Created(o)
  BY DEF Created, Unpaid, Fulfilled, Owning
<1>2. ASSUME NEW f \in Offer, AcceptOffer(f, o) PROVE FALSE
  BY <1>2, Accepted DEF IInv, Unpaid, Fulfilled, Owning
<1> QED
  BY <1>1, <1>2, OrderStep DEF Kept

\* What it sells is the item that the order is for, and was not marked.
LEMMA NewlySold ==
  ASSUME IInv, ItemKnown, SoldIsMarked, [Next]_vars, NEW o \in Order,
         order[o].status \notin Fulfilled, order'[o].status \in Fulfilled
  PROVE  /\ order'[o].item = order[o].item /\ Marked(order[o].item)'
         /\ listing.status = "active" /\ ~Marked(order[o].item)
<1>1. PICK r \in Request : FinishFulfil(r) /\ req[r].o = o
  BY NewlyFulfilled
<1>2. req[r].row.item = order[o].item
  BY <1>1 DEF ItemKnown, FinishFulfil, Confirming, OrderOp
<1>3. PICK i : i = req[r].row.item
  OBVIOUS
<1>4. listing.status = "active" /\ ~Marked(i) /\ Marked(i)'
  BY <1>1, <1>3, FulfilMarks DEF IInv
<1>5. order'[o].item = order[o].item
  BY NewlyFulfilled DEF Kept
<1> QED
  BY <1>2, <1>3, <1>4, <1>5 DEF Marked

\* The same stock, a listing or an item of a bundle, is never handed to two buyers by
\* the confirmations that come from the provider, however many orders compete for it.
THEOREM WebhooksSellOnce ==
  ASSUME StaleOps \cap Op = {}
  PROVE  Spec => SoldOnce
<1>1. Init => SoldIsMarked /\ ItemKnown
  BY DEF Init, SoldIsMarked, ItemKnown, NoOrder, Idle, Fulfilled, Owning, StaleOps, OrderOp
<1>2. IInv /\ ItemKnown /\ SoldIsMarked /\ [Next]_vars => SoldIsMarked'
  <2> SUFFICES ASSUME IInv, ItemKnown, SoldIsMarked, [Next]_vars PROVE SoldIsMarked'
    OBVIOUS
  <2>1. ASSUME NEW o \in Order, order'[o].status \in Fulfilled
        PROVE  IF order'[o].item = NoItem THEN listing'.status = "sold"
               ELSE order'[o].item \in listing'.sold
    <3>1. CASE order[o].status \in Fulfilled
      <4>1. PICK i : i = order[o].item
        OBVIOUS
      <4>2. Marked(i)
        BY <3>1, <4>1 DEF SoldIsMarked
      <4>3. Marked(i)'
        BY <4>2, SoldStays DEF IInv
      <4>4. order'[o].item = i
        BY <3>1, <4>1, ItemStays DEF Fulfilled, Owning
      <4> QED
        BY <4>3, <4>4 DEF Marked
    <3>2. CASE order[o].status \notin Fulfilled
      BY <2>1, <3>2, NewlySold DEF Marked
    <3> QED
      BY <3>1, <3>2
  <2> QED
    BY <2>1, StaleOpsStay DEF SoldIsMarked, Marked, IInv
<1>3. IInv /\ ItemKnown /\ [Next]_vars => ItemKnown'
  BY ItemKnownStep
<1>4. IInv /\ ItemKnown /\ SoldIsMarked /\ [Next]_vars =>
        [\A o \in Order :
           order[o].status \notin Fulfilled /\ order'[o].status \in Fulfilled =>
           \A p \in Order \ {o} :
               order[p].status \in Fulfilled =>
                   order[p].item # NoItem /\ order[p].item # order[o].item]_vars
  BY NewlySold DEF SoldIsMarked, Marked, IInv
<1> QED
  BY <1>1, <1>2, <1>3, <1>4, Inductive, PTL DEF Spec, SoldOnce

-----------------------------------------------------------------------------
\* One request at a time.

OneRequest == \A r \in Request, s \in Request : r = s

\* The order that an open request has read as unpaid still is.
Waiting ==
    \A r \in Request : req[r].op \in OrderOp =>
        /\ req[r].o \in Order /\ order[req[r].o].status = Unpaid
        /\ req[r].row.status = Unpaid

\* What a commit does to the status of an order.
LEMMA CommitStatus ==
  ASSUME TypeOK, NEW r \in Request, NEW new, Commit(r, new), NEW o \in Order
  PROVE  \/ order'[o] = order[o]
         \/ o = req[r].o /\ order'[o].status = order[o].status
         \/ o = req[r].o /\ order'[o].status = new.status /\ new.status # req[r].row.status
<1>1. order \in [Order -> OrderRow]
  BY DEF TypeOK
<1>2. CASE o # req[r].o
  BY <1>1, <1>2 DEF Commit
<1>3. CASE o = req[r].o
  <2>1. order'[o] = MergeOrder(order[o], req[r].row, new)
    BY <1>1, <1>3 DEF Commit
  <2> QED
    BY <1>3, <2>1, MergeOrderColumns
<1> QED
  BY <1>2, <1>3

\* Every commit of an order is a Commit.
LEMMA Commits ==
  ASSUME NEW r \in Request,
         FinishFulfil(r) \/ FinishConflict(r) \/ FinishCheckout(r) \/ FinishOrderUpdate(r)
  PROVE  (\E new : Commit(r, new)) /\ req[r].op \in OrderOp /\ req' = [req EXCEPT ![r] = Idle]
<1>1. req[r].op \in OrderOp /\ req' = [req EXCEPT ![r] = Idle]
  BY DEF FinishFulfil, FinishConflict, FinishCheckout, FinishOrderUpdate, Confirming,
         PlainOp, OrderOp, Close
<1> DEFINE committed == \E new : Commit(r, new)
<1>0. ASSUME NEW new, Commit(r, new) PROVE committed
  BY <1>0
<1> HIDE DEF committed
<1>2. ASSUME FinishFulfil(r) PROVE committed
  BY <1>0, <1>2 DEF FinishFulfil
<1>3. ASSUME FinishConflict(r) PROVE committed
  BY <1>0, <1>3 DEF FinishConflict, ConflictOutcome
<1>4. ASSUME FinishCheckout(r) PROVE committed
  BY <1>0, <1>4 DEF FinishCheckout
<1>5. ASSUME FinishOrderUpdate(r) PROVE committed
  BY <1>0, <1>5 DEF FinishOrderUpdate
<1> QED
  BY <1>1, <1>2, <1>3, <1>4, <1>5 DEF committed

\* Steps outside a request keep unpaid orders unpaid.
LEMMA WorldKeepsUnpaid ==
  ASSUME TypeOK, NEW o \in Order, order[o].status = Unpaid,
         \/ \E p \in Order, i \in Item \cup {NoItem} : CreateOrder(p, i)
         \/ \E f \in Offer : CreateOffer(f) \/ AcceptLapsedOffer(f) \/ OfferLapses(f)
         \/ \E f \in Offer, p \in Order : AcceptOffer(f, p)
         \/ \E p \in Order, n \in 1..MaxIntent : BuyerPays(p, n) \/ SessionSettles(p, n)
         \/ \E p \in Order : OrderAges(p) \/ Complete(p)
         \/ UNCHANGED vars
  PROVE  order'[o].status = Unpaid
<1>0. order \in [Order -> OrderRow]
  BY DEF TypeOK
<1>1. ASSUME NEW p \in Order, order[p].status # Unpaid,
             \E row : order' = [order EXCEPT ![p] = row]
      PROVE  order'[o].status = Unpaid
  BY <1>0, <1>1
<1>2. CASE \E p \in Order, i \in Item \cup {NoItem} : CreateOrder(p, i)
  BY <1>1, <1>2 DEF CreateOrder, Unpaid
<1>3. CASE \E f \in Offer, p \in Order : AcceptOffer(f, p)
  BY <1>1, <1>3 DEF AcceptOffer, Unpaid
<1>4. CASE \E p \in Order : Complete(p)
  <2>1. PICK p \in Order : Complete(p)
    BY <1>4
  <2>2. /\ order[p].status # Unpaid
        /\ order' = [order EXCEPT ![p] = [order[p] EXCEPT !.status = "completed"]]
    BY <1>0, <2>1 DEF Complete, Owning, Unpaid
  <2> QED
    BY <1>1, <2>2
<1>5. CASE \/ \E f \in Offer : CreateOffer(f) \/ AcceptLapsedOffer(f) \/ OfferLapses(f)
           \/ \E p \in Order, n \in 1..MaxIntent : BuyerPays(p, n) \/ SessionSettles(p, n)
           \/ \E p \in Order : OrderAges(p)
           \/ UNCHANGED vars
  <2>1. order' = order
    BY <1>5, OrderUntouched
  <2> QED
    BY <2>1
<1> QED
  BY <1>2, <1>3, <1>4, <1>5

\* The statuses of the orders only move on.
LEMMA StatusStep ==
  ASSUME TypeOK, Waiting, [Next]_vars, NEW o \in Order, order[o].status \notin {"none", Unpaid}
  PROVE  \/ order'[o].status = order[o].status
         \/ order[o].status \in Owning /\ order'[o].status = "completed"
<1>0. order \in [Order -> OrderRow]
  BY DEF TypeOK
<1>1. ASSUME NEW p \in Order, order[p].status = "none",
             \E row : order' = [order EXCEPT ![p] = row]
      PROVE  order'[o] = order[o]
  BY <1>0, <1>1
<1>2. ASSUME NEW p \in Order, NEW i \in Item \cup {NoItem}, CreateOrder(p, i)
      PROVE  order'[o] = order[o]
  BY <1>1, <1>2 DEF CreateOrder
<1>3. ASSUME NEW p \in Order, NEW r \in Request, FinishCreate(r, p)
      PROVE  order'[o] = order[o]
  BY <1>1, <1>3 DEF FinishCreate
<1>4. ASSUME NEW p \in Order, NEW f \in Offer, AcceptOffer(f, p)
      PROVE  order'[o] = order[o]
  BY <1>1, <1>4 DEF AcceptOffer
<1>5. ASSUME NEW r \in Request, BeginCreate(r) PROVE order'[o] = order[o]
  BY <1>5 DEF BeginCreate, Expired, StaleOrders
<1>6. ASSUME NEW r \in Request,
             FinishFulfil(r) \/ FinishConflict(r) \/ FinishCheckout(r) \/ FinishOrderUpdate(r)
      PROVE  order'[o] = order[o]
  <2>1. PICK new : Commit(r, new)
    BY <1>6, Commits
  <2>2. req[r].op \in OrderOp
    BY <1>6, Commits
  <2>3. o # req[r].o
    BY <2>2 DEF Waiting
  <2> QED
    BY <2>1, <2>3, CommitStatus
<1>7. ASSUME NEW p \in Order, Complete(p)
      PROVE  \/ order'[o] = order[o]
             \/ order[o].status \in Owning /\ order'[o].status = "completed"
  <2>1. /\ order[p].status \in Owning
        /\ order' = [order EXCEPT ![p] = [order[p] EXCEPT !.status = "completed"]]
    BY <1>0, <1>7 DEF Complete
  <2> QED
    BY <1>0, <2>1 DEF OrderRow
<1>8. ASSUME order' = order PROVE order'[o] = order[o]
  BY <1>8
<1> QED
  BY <1>2, <1>3, <1>4, <1>5, <1>6, <1>7, <1>8, OrderUntouched DEF Next, Finish, Dies

\* While one request is open nothing but its own commit touches its order.
LEMMA WaitingStep ==
  ASSUME OneRequest, IInv, Waiting, [Next]_vars
  PROVE  Waiting'
<1> SUFFICES ASSUME NEW r \in Request, req'[r].op \in OrderOp
             PROVE  /\ req'[r].o \in Order /\ order'[req'[r].o].status = Unpaid
                    /\ req'[r].row.status = Unpaid
  BY DEF Waiting
<1>0. TypeOK /\ req \in [Request -> RequestRow] /\ \A p \in Request : p = r
  BY DEF IInv, TypeOK, OneRequest
<1>1. Idle.op \notin OrderOp
  BY DEF Idle, OrderOp
<1>2. CASE Begin(r)
  BY <1>0, <1>2, BeginWaits
<1>3. CASE CapturePayment(r)
  <2>1. /\ req[r].op = "capture" /\ order' = order
        /\ \E op : req' = [req EXCEPT ![r] = [req[r] EXCEPT !.op = op]]
    BY <1>0, <1>3 DEF CapturePayment
  <2>2. req'[r].o = req[r].o /\ req'[r].row = req[r].row
    BY <1>0, <2>1 DEF RequestRow
  <2>3. req[r].op \in OrderOp
    BY <2>1 DEF OrderOp
  <2> QED
    BY <2>1, <2>2, <2>3 DEF Waiting
<1>4. CASE BeginCreate(r) \/ \E i \in Item \cup {NoItem} : CheckCreate(r, i)
  <2>1. req'[r].op \in {"create", "insert"}
    BY <1>0, <1>4 DEF BeginCreate, CheckCreate, Idle
  <2> QED
    BY <2>1 DEF OrderOp
<1>5. CASE req'[r] = Idle
  BY <1>1, <1>5
<1>6. CASE req'[r] = req[r] /\ ~Begin(r) /\ ~CapturePayment(r) /\ ~BeginCreate(r)
           /\ ~\E i \in Item \cup {NoItem} : CheckCreate(r, i)
  <2>1. /\ req[r].op \in OrderOp /\ req[r].o \in Order /\ order[req[r].o].status = Unpaid
        /\ req[r].row.status = Unpaid
    BY <1>6 DEF Waiting
  <2>2. ASSUME NEW x \in Request, Close(x) PROVE FALSE
    <3>1. req'[r] = Idle
      BY <1>0, <2>2 DEF Close
    <3> QED
      BY <1>1, <3>1
  <2>3. ASSUME NEW x \in Request,
               \/ FinishFulfil(x) \/ FinishConflict(x) \/ FinishCheckout(x)
               \/ FinishOrderUpdate(x) \/ FinishOffer(x) \/ FinishListingEdit(x) \/ Dies(x)
               \/ \E p \in Order : FinishCreate(x, p)
        PROVE  FALSE
    BY <2>2, <2>3 DEF FinishFulfil, FinishConflict, FinishCheckout, FinishOrderUpdate,
                FinishOffer, FinishListingEdit, Dies, RefundLost, CheckoutLost, Abandon,
                FinishCreate
  <2>4. \/ \E p \in Order, i \in Item \cup {NoItem} : CreateOrder(p, i)
        \/ \E f \in Offer : CreateOffer(f) \/ AcceptLapsedOffer(f) \/ OfferLapses(f)
        \/ \E f \in Offer, p \in Order : AcceptOffer(f, p)
        \/ \E p \in Order, n \in 1..MaxIntent : BuyerPays(p, n) \/ SessionSettles(p, n)
        \/ \E p \in Order : OrderAges(p) \/ Complete(p)
        \/ UNCHANGED vars
    <3>1. ASSUME NEW x \in Request, Begin(x) \/ BeginCreate(x) \/ Finish(x) \/ Dies(x)
          PROVE  FALSE
      <4>1. x = r
        BY <1>0
      <4> QED
        BY <1>6, <2>3, <3>1, <4>1 DEF Finish
    <3> QED
      BY <3>1 DEF Next
  <2>5. order'[req[r].o].status = Unpaid
    BY <1>0, <2>1, <2>4, WorldKeepsUnpaid
  <2> QED
    BY <1>6, <2>1, <2>5
<1> QED
  BY <1>0, <1>2, <1>3, <1>4, <1>5, <1>6, RequestStep

LEMMA InitWaiting == Init => Waiting
  BY DEF Init, Waiting, Idle, OrderOp

LEMMA WaitingInductive == OneRequest => (Spec => []Waiting)
<1>1. ASSUME OneRequest PROVE Spec => []Waiting
  <2>1. Init => Waiting
    BY InitWaiting
  <2>2. IInv /\ Waiting /\ [Next]_vars => Waiting'
    BY <1>1, WaitingStep
  <2> QED
    BY <2>1, <2>2, Inductive, PTL DEF Spec
<1> QED
  BY <1>1

\* When requests come one at a time, a decided order stays decided, for any listing,
\* orders, offers and mix of requests (fulfill_paid_order, cancel_order and the
\* others that begin by refusing an order that is not pendingPay).
THEOREM DecidedOrdersStay == OneRequest => (Spec => DecidedStays)
<1>1. ASSUME OneRequest PROVE Spec => DecidedStays
  <2>1. Spec => []Waiting
    BY <1>1, WaitingInductive
  <2>2. IInv /\ Waiting /\ [Next]_vars =>
          [\A o \in Order :
             order[o].status \notin {"none", Unpaid} =>
                 \/ order'[o].status = order[o].status
                 \/ order[o].status \in Owning /\ order'[o].status = "completed"]_vars
    BY StatusStep DEF IInv
  <2> QED
    BY <2>1, <2>2, Inductive, PTL DEF Spec, DecidedStays
<1> QED
  BY <1>1

-----------------------------------------------------------------------------
\* Turning buyers down.  A listing that is sold whole and that nobody takes down
\* is off the market only when some order has bought it; so is it in the eyes of
\* /pay, which has read it before.

Bought == \E p \in Order : order[p].status \in Fulfilled

SaleHasBuyer ==
    /\ listing.status # "active" => Bought
    /\ \A r \in Request : /\ req[r].op # "deactivate"
                          /\ req[r].op = "pay" /\ req[r].lst.status # "active" => Bought

LEMMA BoughtStays ==
  ASSUME TypeOK, Waiting, [Next]_vars, Bought
  PROVE  Bought'
<1>1. PICK p \in Order : order[p].status \in Fulfilled
  BY DEF Bought
<1>2. order[p].status \notin {"none", Unpaid}
  BY <1>1 DEF Fulfilled, Owning, Unpaid
<1>3. order'[p].status \in Fulfilled
  BY <1>1, <1>2, StatusStep DEF Fulfilled
<1> QED
  BY <1>3 DEF Bought

\* A confirmation fulfils its order.
LEMMA FulfilBuys ==
  ASSUME TypeOK, Waiting, NEW r \in Request, FinishFulfil(r)
  PROVE  Bought'
<1> DEFINE new == [PaidRow(r) EXCEPT !.status = IF Kind = "service"
                     THEN "pendingService" ELSE "pendingShip"]
<1>1. Commit(r, new) /\ req[r].op \in OrderOp
  BY Commits DEF FinishFulfil
<1>2. /\ req[r].o \in Order /\ order[req[r].o].status = Unpaid /\ req[r].row.status = Unpaid
  BY <1>1 DEF Waiting
<1>3. new.status \in Owning
  BY WrittenType DEF OrderRow, Owning
<1>4. order'[req[r].o] = MergeOrder(order[req[r].o], req[r].row, new)
  BY <1>1, <1>2 DEF Commit, TypeOK
<1> HIDE DEF new
<1>5. order'[req[r].o].status = new.status
  BY <1>2, <1>3, <1>4 DEF MergeOrder, Put, Owning, Unpaid
<1> QED
  BY <1>2, <1>3, <1>5 DEF Bought, Fulfilled

LEMMA SaleStep ==
  ASSUME OneRequest, IInv, Waiting, SaleHasBuyer, "deactivate" \notin Op, [Next]_vars
  PROVE  SaleHasBuyer'
<1>0. TypeOK /\ req \in [Request -> RequestRow] /\ listing \in ListingRow
  BY DEF IInv, TypeOK
<1>1. Bought => Bought'
  BY <1>0, BoughtStays
<1>2. ASSUME listing'.status # "active" PROVE Bought'
  <2>1. CASE listing'.status = listing.status
    BY <1>1, <1>2, <2>1 DEF SaleHasBuyer
  <2>2. ASSUME NEW r \in Request, FinishFulfil(r) PROVE Bought'
    BY <1>0, <2>2, FulfilBuys
  <2>3. ASSUME NEW r \in Request, FinishListingEdit(r) PROVE listing'.status = listing.status
    <3>1. req[r].op \in {"activate", "reprice"} /\ req[r].lst \in ListingRow
      BY <1>0, <2>3 DEF FinishListingEdit, SaleHasBuyer, RequestRow
    <3>2. Edited(req[r]).status \in {req[r].lst.status, "active"}
      BY <3>1 DEF Edited, ListingRow
    <3>3. listing'.status \in {listing.status, "active"}
      BY <2>3, <3>2 DEF FinishListingEdit, MergeListing, Put
    <3> QED
      BY <1>2, <3>3
  <2>4. ASSUME NEW o \in Order, Complete(o) PROVE Bought'
    BY <2>4, <1>1 DEF Complete, Bought, Fulfilled
  <2>5. ASSUME NEW r \in Request, Begin(r) PROVE listing' = listing
    BY <2>5, BeginOpens DEF Open
  <2>6. ASSUME NEW r \in Request,
             \/ BeginCreate(r) \/ CapturePayment(r) \/ FinishConflict(r) \/ FinishCheckout(r)
             \/ FinishOrderUpdate(r) \/ FinishOffer(r) \/ Dies(r)
             \/ \E i \in Item \cup {NoItem} : CheckCreate(r, i)
             \/ \E o \in Order : FinishCreate(r, o)
        PROVE  listing' = listing
    BY <2>6 DEF BeginCreate, CapturePayment, FinishConflict, FinishCheckout, FinishOrderUpdate,
              FinishOffer, Dies, RefundLost, CheckoutLost, Abandon, CheckCreate, FinishCreate
  <2>7. ASSUME listing' = listing PROVE Bought'
    BY <2>1, <2>7
  <2>8. ASSUME NEW r \in Request, FinishListingEdit(r) PROVE Bought'
    BY <2>1, <2>3, <2>8
  <2>9. ASSUME NEW r \in Request, Begin(r) \/ BeginCreate(r) \/ Finish(r) \/ Dies(r)
         PROVE  Bought'
    <3> HIDE DEF Bought
    <3>1. CASE Begin(r)
      BY <2>5, <2>7, <3>1
    <3>2. CASE FinishFulfil(r) \/ FinishListingEdit(r)
      BY <2>2, <2>8, <3>2
    <3> QED
      BY <2>6, <2>7, <2>9, <3>1, <3>2 DEF Finish
  <2>10. CASE \E o \in Order : Complete(o)
    BY <2>4, <2>10
  <2>11. CASE UNCHANGED vars
    <3>1. listing' = listing
      BY <2>11 DEF vars
    <3> QED
      BY <2>7, <3>1
  <2>12. CASE \/ \E o \in Order, i \in Item \cup {NoItem} : CreateOrder(o, i)
              \/ \E f \in Offer : CreateOffer(f) \/ AcceptLapsedOffer(f) \/ OfferLapses(f)
              \/ \E f \in Offer, o \in Order : AcceptOffer(f, o)
              \/ \E o \in Order, n \in 1..MaxIntent : BuyerPays(o, n) \/ SessionSettles(o, n)
              \/ \E o \in Order : OrderAges(o)
    <3>1. listing' = listing
      BY <2>12 DEF CreateOrder, CreateOffer, AcceptLapsedOffer, OfferLapses, AcceptOffer,
                 BuyerPays, SessionSettles, OrderAges
    <3> QED
      BY <2>7, <3>1
  <2> QED
    BY <2>9, <2>10, <2>11, <2>12 DEF Next
<1>3. ASSUME NEW r \in Request
      PROVE  /\ req'[r].op # "deactivate"
             /\ req'[r].op = "pay" /\ req'[r].lst.status # "active" => Bought'
  <2>1. CASE req'[r] = req[r]
    BY <1>1, <2>1 DEF SaleHasBuyer
  <2>2. CASE req'[r] = Idle
    BY <2>2 DEF Idle
  <2>3. CASE Begin(r)
    <3>1. req'[r].op \in Op
      BY <1>0, <2>3, BeginOpens DEF Open
    <3>2. req'[r].op = "pay" => req'[r].lst = listing
      BY <1>0, <2>3, BeginWaits DEF OrderOp
    <3> QED
      BY <1>1, <3>1, <3>2 DEF SaleHasBuyer
  <2>4. CASE CapturePayment(r)
    <3>1. req'[r].op \in {"captured", "refused"}
      BY <1>0, <2>4 DEF CapturePayment, RequestRow
    <3> QED
      BY <3>1
  <2>5. CASE BeginCreate(r) \/ \E i \in Item \cup {NoItem} : CheckCreate(r, i)
    <3>1. req'[r].op \in {"create", "insert"}
      BY <1>0, <2>5 DEF BeginCreate, CheckCreate, Idle
    <3> QED
      BY <3>1
  <2> QED
    BY <1>0, <2>1, <2>2, <2>3, <2>4, <2>5, RequestStep
<1> QED
  BY <1>2, <1>3 DEF SaleHasBuyer

\* What a checkout may do to the status of its order.
LEMMA CheckoutOutcome ==
  ASSUME IInv, NEW r \in Request, FinishCheckout(r)
  PROVE  \E new : /\ Commit(r, new)
                  /\ \/ new.status = req[r].row.status
                     \/ /\ new.status = "cancelled"
                        /\ ~InventoryAvailable(listing, req[r].row)
<1> DEFINE Outcome == \E new : /\ Commit(r, new)
                               /\ \/ new.status = req[r].row.status
                                  \/ /\ new.status = "cancelled"
                                     /\ ~InventoryAvailable(listing, req[r].row)
<1>0. req[r].row \in OrderRow
  BY DEF IInv, TypeOK, RequestRow
<1>1. ASSUME NEW new, Commit(r, new), new.status = req[r].row.status PROVE Outcome
  BY <1>1
<1>2. ASSUME Commit(r, [req[r].row EXCEPT !.status = "cancelled"]),
             ~InventoryAvailable(listing, req[r].row)
      PROVE  Outcome
  <2> DEFINE new == [req[r].row EXCEPT !.status = "cancelled"]
  <2>1. new.status = "cancelled" /\ Commit(r, new)
    BY <1>0, <1>2 DEF OrderRow
  <2> HIDE DEF new
  <2> QED
    BY <1>2, <2>1
<1>3. ASSUME Commit(r, [req[r].row EXCEPT !.payment = "failed"]) PROVE Outcome
  <2> DEFINE new == [req[r].row EXCEPT !.payment = "failed"]
  <2>1. new.status = req[r].row.status /\ Commit(r, new)
    BY <1>0, <1>3 DEF OrderRow
  <2> HIDE DEF new, Outcome
  <2> QED
    BY <1>1, <2>1
<1>4. ASSUME NEW n, NEW payment,
             Commit(r, [req[r].row EXCEPT !.payment = payment, !.pspId = n])
      PROVE  Outcome
  <2> DEFINE new == [req[r].row EXCEPT !.payment = payment, !.pspId = n]
  <2>1. new.status = req[r].row.status /\ Commit(r, new)
    BY <1>0, <1>4 DEF OrderRow
  <2> HIDE DEF new, Outcome
  <2> QED
    BY <1>1, <2>1
<1> HIDE DEF Outcome
<1>5. Outcome
  BY <1>2, <1>3, <1>4 DEF FinishCheckout
<1> QED
  BY <1>5 DEF Outcome

\* Only a confirmation puts an order in conflict.
LEMMA NewlyConflicted ==
  ASSUME IInv, Waiting, [Next]_vars, NEW o \in Order,
         order[o].status \notin Conflicted, order'[o].status \in Conflicted
  PROVE  \E r \in Request : FinishConflict(r) /\ req[r].o = o
<1>0. TypeOK /\ order \in [Order -> OrderRow]
  BY DEF IInv, TypeOK
<1>1. order'[o].status # order[o].status
  OBVIOUS
<1>2. order'[o].status \notin {Unpaid, "cancelled"} \cup Fulfilled
  BY DEF Unpaid, Conflicted, Fulfilled, Owning
<1>3. ASSUME NEW r \in Request, FinishConflict(r) PROVE req[r].o = o
  <2>1. PICK new : Commit(r, new)
    BY <1>3, Commits
  <2> QED
    BY <1>0, <1>1, <2>1, CommitStatus
<1>4. ASSUME NEW r \in Request, FinishFulfil(r) PROVE FALSE
  <2> DEFINE new == [PaidRow(r) EXCEPT !.status = IF Kind = "service"
                       THEN "pendingService" ELSE "pendingShip"]
  <2>1. Commit(r, new)
    BY <1>4 DEF FinishFulfil
  <2>2. new.status \in Fulfilled
    BY <1>0, WrittenType DEF OrderRow, Fulfilled, Owning
  <2> HIDE DEF new
  <2> QED
    BY <1>0, <1>1, <1>2, <2>1, <2>2, CommitStatus
<1>5. ASSUME NEW r \in Request, FinishCheckout(r) PROVE FALSE
  <2>1. PICK new : /\ Commit(r, new)
                   /\ \/ new.status = req[r].row.status
                      \/ /\ new.status = "cancelled"
                         /\ ~InventoryAvailable(listing, req[r].row)
    BY <1>5, CheckoutOutcome
  <2> QED
    BY <1>0, <1>1, <1>2, <2>1, CommitStatus
<1>6. ASSUME NEW r \in Request, FinishOrderUpdate(r) PROVE FALSE
  <2>1. req[r].row \in OrderRow
    BY <1>0 DEF TypeOK, RequestRow
  <2>2. PICK new : new = Written(req[r])
    OBVIOUS
  <2>3. Commit(r, new) /\ req[r].op \in PlainOp
    BY <1>6, <2>2 DEF FinishOrderUpdate
  <2>4. new.status \in {req[r].row.status, "cancelled"}
    BY <2>1, <2>2, <2>3 DEF Written, PlainOp, OrderRow
  <2> QED
    BY <1>0, <1>1, <1>2, <2>3, <2>4, CommitStatus
<1>7. ASSUME NEW p \in Order, NEW i \in Item \cup {NoItem}, CreateOrder(p, i) PROVE FALSE
  <2>1. NewOrder(i).status = Unpaid
    BY DEF NewOrder, NoOrder
  <2>2. order'[o] \in {order[o], NewOrder(i)}
    BY <1>0, <1>7 DEF CreateOrder
  <2> QED
    BY <1>1, <1>2, <2>1, <2>2
<1>8. ASSUME NEW r \in Request, NEW p \in Order, FinishCreate(r, p) PROVE FALSE
  <2>1. req[r].row.status = Unpaid
    BY <1>8 DEF FinishCreate, IInv, Evidence, Entitled
  <2>2. order'[o] \in {order[o], req[r].row}
    BY <1>0, <1>8 DEF FinishCreate
  <2> QED
    BY <1>1, <1>2, <2>1, <2>2
<1>9. ASSUME NEW r \in Request, BeginCreate(r) PROVE FALSE
  <2>1. order'[o] \in {order[o], [order[o] EXCEPT !.status = "cancelled"]}
    BY <1>9 DEF BeginCreate, Expired
  <2>2. [order[o] EXCEPT !.status = "cancelled"].status = "cancelled"
    BY <1>0 DEF OrderRow
  <2> QED
    BY <1>1, <1>2, <2>1, <2>2
<1>10. ASSUME NEW f \in Offer, NEW p \in Order, AcceptOffer(f, p) PROVE FALSE
  <2>1. order'[p].status = Unpaid /\ \A q \in Order : q # p => order'[q] = order[q]
    BY <1>0, <1>10, Accepted
  <2> QED
    BY <1>1, <1>2, <2>1
<1>11. ASSUME NEW p \in Order, Complete(p) PROVE FALSE
  <2>1. order' = [order EXCEPT ![p] = [order[p] EXCEPT !.status = "completed"]]
    BY <1>0, <1>11 DEF Complete
  <2>2. order'[o] = order[o] \/ order'[o].status = "completed"
    BY <1>0, <2>1 DEF OrderRow
  <2> QED
    BY <1>1, <1>2, <2>2 DEF Fulfilled
<1>12. order' # order
  BY <1>1
<1> QED
  BY <1>3, <1>4, <1>5, <1>6, <1>7, <1>8, <1>9, <1>10, <1>11, <1>12, OrderUntouched
     DEF Next, Finish, Dies

\* An open checkout is closed by its own steps.
LEMMA CheckoutCloses ==
  ASSUME OneRequest, IInv, [Next]_vars, NEW r \in Request, NEW o \in Order,
         req[r].op = "checkout", req[r].o = o, req'[r] = Idle,
         order[o].status # "cancelled", order'[o].status = "cancelled"
  PROVE  ~InventoryAvailable(listing, req[r].row)
<1>0. /\ TypeOK /\ order \in [Order -> OrderRow] /\ \A p \in Request : p = r
      /\ req[r] # Idle /\ req[r].row \in OrderRow
  BY DEF IInv, TypeOK, OneRequest, Idle, RequestRow
<1>1. order'[o].status # order[o].status
  OBVIOUS
<1>2. order' # order /\ req' # req
  BY <1>0, <1>1
<1>3. ~Begin(r) /\ ~Dies(r) /\ ~CapturePayment(r) /\ ~FinishOffer(r) /\ ~FinishListingEdit(r)
      /\ ~(\E i \in Item \cup {NoItem} : CheckCreate(r, i)) /\ ~(UNCHANGED vars)
  BY <1>2, OrderUntouched
<1>4. ~FinishFulfil(r) /\ ~FinishConflict(r) /\ ~FinishOrderUpdate(r) /\ ~BeginCreate(r)
      /\ ~\E p \in Order : FinishCreate(r, p)
  BY <1>0 DEF FinishFulfil, FinishConflict, FinishOrderUpdate, BeginCreate, FinishCreate,
              Confirming, PlainOp
<1>5. ~(\/ \E p \in Order, i \in Item \cup {NoItem} : CreateOrder(p, i)
        \/ \E f \in Offer : CreateOffer(f) \/ AcceptLapsedOffer(f) \/ OfferLapses(f)
        \/ \E f \in Offer, p \in Order : AcceptOffer(f, p)
        \/ \E p \in Order, n \in 1..MaxIntent : BuyerPays(p, n) \/ SessionSettles(p, n)
        \/ \E p \in Order : OrderAges(p) \/ Complete(p))
  BY <1>2 DEF CreateOrder, CreateOffer, AcceptLapsedOffer, OfferLapses, AcceptOffer,
              BuyerPays, SessionSettles, OrderAges, Complete
<1>6. FinishCheckout(r)
  <2>1. ASSUME NEW x \in Request, Begin(x) \/ BeginCreate(x) \/ Finish(x) \/ Dies(x)
        PROVE  FinishCheckout(r)
    <3>1. x = r
      BY <1>0
    <3> QED
      BY <1>3, <1>4, <2>1, <3>1 DEF Finish
  <2> QED
    BY <1>3, <1>5, <2>1 DEF Next
<1>7. ASSUME NEW new, Commit(r, new), new.status = req[r].row.status PROVE FALSE
  BY <1>0, <1>1, <1>7, CommitStatus
<1> QED
  BY <1>6, <1>7, CheckoutOutcome

\* When requests come one at a time, a buyer of a listing that is sold whole and that
\* nobody takes down is turned down only because another order has bought it
\* (create_checkout, _refund_unavailable_paid_order).
THEOREM TurnedDownBecauseSold ==
  OneRequest /\ Kind # "bundle" /\ "deactivate" \notin Op => (Spec => TurnedDownOnlyWhenSold)
<1> SUFFICES ASSUME OneRequest, Kind # "bundle", "deactivate" \notin Op
             PROVE  Spec => TurnedDownOnlyWhenSold
  OBVIOUS
<1>1. Spec => []Waiting
  BY WaitingInductive
<1>2. Init => SaleHasBuyer
  BY DEF Init, SaleHasBuyer, Idle
<1>3. IInv /\ Waiting /\ SaleHasBuyer /\ [Next]_vars => SaleHasBuyer'
  BY SaleStep
<1>4. IInv /\ Waiting /\ SaleHasBuyer /\ [Next]_vars =>
        [\A o \in Order : TurnedDown(o) =>
           \E p \in Order \ {o} : /\ order[p].status \in Fulfilled
                                  /\ Overlap(order[p], order[o])]_vars
  <2> SUFFICES ASSUME IInv, Waiting, SaleHasBuyer, [Next]_vars, NEW o \in Order, TurnedDown(o)
               PROVE  \E p \in Order \ {o} : /\ order[p].status \in Fulfilled
                                             /\ Overlap(order[p], order[o])
    OBVIOUS
  <2>0. TypeOK /\ order \in [Order -> OrderRow]
    BY DEF IInv, TypeOK
  <2>1. PICK r \in Request :
          /\ req[r].o = o /\ req[r].op \in OrderOp
          /\ \/ ~InventoryAvailable(listing, req[r].row)
             \/ req[r].op = "pay" /\ ~InventoryAvailable(req[r].lst, req[r].row)
    <3>1. CASE order[o].status \notin Conflicted /\ order'[o].status \in Conflicted
      <4>1. PICK r \in Request : FinishConflict(r) /\ req[r].o = o
        BY <3>1, NewlyConflicted
      <4> QED
        BY <4>1, Commits DEF FinishConflict, ListingSeen
    <3>2. CASE /\ order[o].status # "cancelled" /\ order'[o].status = "cancelled"
               /\ \E r \in Request : req[r].op = "checkout" /\ req[r].o = o
                                     /\ req'[r] = Idle
      BY <3>2, CheckoutCloses DEF OrderOp
    <3> QED
      BY <3>1, <3>2 DEF TurnedDown
  <2>2. order[o].status = Unpaid
    BY <2>1 DEF Waiting
  <2>3. req[r].row.item = NoItem /\ \A p \in Order : order[p].item = NoItem
    BY <2>0, KindAssumption DEF TypeOK, RequestRow, OrderRow
  <2>4. \A l : ~InventoryAvailable(l, req[r].row) => l.status # "active"
    BY <2>3 DEF InventoryAvailable
  <2>5. Bought
    BY <2>1, <2>4 DEF SaleHasBuyer
  <2>6. PICK p \in Order : order[p].status \in Fulfilled
    BY <2>5 DEF Bought
  <2>7. p # o
    BY <2>2, <2>6 DEF Fulfilled, Owning, Unpaid
  <2> QED
    BY <2>3, <2>6, <2>7 DEF Overlap
<1> QED
  BY <1>1, <1>2, <1>3, <1>4, Inductive, PTL DEF Spec, TurnedDownOnlyWhenSold

-----------------------------------------------------------------------------
\* Offering what is sold.  When requests come one at a time a listing that was bought
\* as a whole is marked sold until its order has come to an end: a seller's request
\* that changes the status began with no such order, and none begins while it is open.

\* The listing has been bought as a whole, and is on its way to the buyer.
Owned(o) == order[o].status \in Owning /\ order[o].item = NoItem

OffSale ==
    /\ \A o \in Order : Owned(o) => listing.status = "sold"
    /\ \A r \in Request : req[r].op \in {"activate", "deactivate"} =>
           \A o \in Order : ~Owned(o)

LEMMA BeginOffSale ==
  ASSUME TypeOK, NEW r \in Request, Begin(r)
  PROVE  /\ order' = order /\ listing' = listing
         /\ req'[r].op = "activate" => listing.status = "inactive"
         /\ req'[r].op = "deactivate" => \A o \in Order : order[o].status \notin Owning
<1>0. req \in [Request -> RequestRow] /\ order' = order /\ listing' = listing
  BY BeginOpens DEF TypeOK, Open
<1>1. ASSUME NEW q, Open(r, q) PROVE req'[r] = q
  BY <1>0, <1>1 DEF Open
<1>2. ASSUME \E o \in Order : \E op, pay : ReadUnpaid(r, op, o, pay) /\ op \in OrderOp
      PROVE  req'[r].op \notin {"activate", "deactivate"}
  <2>1. PICK o \in Order : \E op, pay : ReadUnpaid(r, op, o, pay) /\ op \in OrderOp
    BY <1>2
  <2>2. PICK op : \E pay : ReadUnpaid(r, op, o, pay) /\ op \in OrderOp
    BY <2>1
  <2>3. req'[r].op = op
    BY <1>1, <2>2 DEF ReadUnpaid, Idle
  <2> QED
    BY <2>2, <2>3 DEF OrderOp
<1>3. ASSUME NEW o \in Order,
             \/ BeginPay(r, o) \/ BeginCapture(r, o) \/ BeginConfirm(r, o)
             \/ BeginFailed(r, o) \/ BeginCancel(r, o) \/ BeginPspCancel(r, o)
             \/ BeginCheckout(r, o) \/ BeginUpdate(r, o) \/ BeginAdjust(r, o)
             \/ BeginExpire(r, o)
             \/ \E n \in 1..MaxIntent : BeginSettled(r, o, n) \/ BeginApproved(r, o, n)
             \/ \E p \in Order, n \in 1..MaxIntent : BeginReturn(r, o, p, n)
      PROVE  \E op, pay : ReadUnpaid(r, op, o, pay) /\ op \in OrderOp
  BY <1>3 DEF BeginPay, BeginSettled, BeginReturn, BeginCapture, BeginConfirm, BeginFailed,
              BeginApproved, BeginCancel, BeginPspCancel, BeginCheckout, BeginUpdate,
              BeginAdjust, BeginExpire, OrderOp
<1>4. ASSUME \/ \E f \in Offer, val \in {"VIEWED", "REJECTED", "CANCELLED", "EXPIRED"} :
                  BeginCloseOffer(r, f, val)
             \/ BeginReprice(r)
      PROVE  req'[r].op \notin {"activate", "deactivate"}
  BY <1>1, <1>4 DEF BeginCloseOffer, BeginReprice, Idle
<1>5. ASSUME BeginActivate(r)
      PROVE  req'[r].op = "activate" /\ listing.status = "inactive"
  BY <1>1, <1>5 DEF BeginActivate, Idle
<1>6. ASSUME BeginDeactivate(r)
      PROVE  req'[r].op = "deactivate" /\ \A o \in Order : order[o].status \notin Owning
  BY <1>1, <1>6 DEF BeginDeactivate, Idle, OpenStatus
<1> QED
  BY <1>0, <1>2, <1>3, <1>4, <1>5, <1>6 DEF Begin

\* Only the seller moves the status of a listing, except for selling it.
LEMMA ListingStatusStep ==
  ASSUME TypeOK, [Next]_vars
  PROVE  \/ listing'.status \in {listing.status, "sold"}
         \/ \E r \in Request : FinishListingEdit(r) /\ req[r].op \in {"activate", "deactivate"}
<1> DEFINE Moves == \E r \in Request : FinishListingEdit(r)
                                       /\ req[r].op \in {"activate", "deactivate"}
           Same == listing'.status \in {listing.status, "sold"}
<1>0. listing' = listing => Same
  OBVIOUS
<1>1. ASSUME NEW r \in Request, FinishListingEdit(r) PROVE Same \/ Moves
  <2>1. CASE req[r].op \in {"activate", "deactivate"}
    BY <1>1, <2>1
  <2>2. CASE req[r].op = "reprice"
    <3>1. req[r].lst \in ListingRow
      BY DEF TypeOK, RequestRow
    <3>2. Edited(req[r]).status = req[r].lst.status
      BY <2>2, <3>1 DEF Edited, ListingRow
    <3> QED
      BY <1>1, <3>2 DEF FinishListingEdit, MergeListing, Put
  <2> QED
    BY <1>1, <2>1, <2>2 DEF FinishListingEdit
<1>2. ASSUME NEW r \in Request, FinishFulfil(r) PROVE Same
  <2>1. PICK l : l = ListingSeen(r)
    OBVIOUS
  <2>2. PICK new : new = SellTo(l, req[r].row)
    OBVIOUS
  <2>3. l \in ListingRow /\ listing' = MergeListing(listing, l, new)
    BY <1>2, <2>1, <2>2 DEF FinishFulfil, ListingSeen, TypeOK, RequestRow
  <2>4. new.status \in {l.status, "sold"}
    BY <2>2, <2>3 DEF SellTo, ListingRow
  <2> QED
    BY <2>3, <2>4 DEF MergeListing, Put
<1>3. ASSUME NEW o \in Order, Complete(o) PROVE Same
  BY <1>3 DEF Complete, TypeOK, ListingRow
<1>4. ASSUME NEW r \in Request, Begin(r) PROVE listing' = listing
  BY <1>4, BeginOpens DEF Open
<1>5. ASSUME NEW r \in Request,
             \/ BeginCreate(r) \/ CapturePayment(r) \/ FinishConflict(r) \/ FinishCheckout(r)
             \/ FinishOrderUpdate(r) \/ FinishOffer(r) \/ Dies(r)
             \/ \E i \in Item \cup {NoItem} : CheckCreate(r, i)
             \/ \E o \in Order : FinishCreate(r, o)
      PROVE  listing' = listing
  BY <1>5 DEF BeginCreate, CapturePayment, FinishConflict, FinishCheckout, FinishOrderUpdate,
              FinishOffer, Dies, RefundLost, CheckoutLost, Abandon, CheckCreate, FinishCreate
<1>6. ASSUME \/ \E o \in Order, i \in Item \cup {NoItem} : CreateOrder(o, i)
             \/ \E f \in Offer : CreateOffer(f) \/ AcceptLapsedOffer(f) \/ OfferLapses(f)
             \/ \E f \in Offer, o \in Order : AcceptOffer(f, o)
             \/ \E o \in Order, n \in 1..MaxIntent : BuyerPays(o, n) \/ SessionSettles(o, n)
             \/ \E o \in Order : OrderAges(o)
             \/ UNCHANGED vars
      PROVE  listing' = listing
  BY <1>6 DEF CreateOrder, CreateOffer, AcceptLapsedOffer, OfferLapses, AcceptOffer,
              BuyerPays, SessionSettles, OrderAges, vars
<1> HIDE DEF Same, Moves
<1>7. Same \/ Moves
  BY <1>0, <1>1, <1>2, <1>3, <1>4, <1>5, <1>6 DEF Next, Finish
<1> QED
  BY <1>7 DEF Same, Moves

\* A listing that comes to be owned as a whole has just been bought by the one request.
LEMMA NewlyOwned ==
  ASSUME IInv, Waiting, ItemKnown, [Next]_vars, NEW o \in Order, ~Owned(o), Owned(o)'
  PROVE  /\ listing'.status = "sold"
         /\ \E r \in Request : FinishFulfil(r)
<1>1. order'[o].status \in Owning /\ order'[o].item = NoItem
  BY DEF Owned
<1>2. order[o].status \in {"none", Unpaid}
  <2>1. CASE order[o].status \in {"none", Unpaid}
    BY <2>1
  <2>2. CASE order[o].status \notin {"none", Unpaid}
    <3>1. order[o].status = order'[o].status /\ order[o].item = order'[o].item
      BY <1>1, <2>2, StatusStep, ItemStays DEF Owning, IInv
    <3> QED
      BY <1>1, <3>1 DEF Owned
  <2> QED
    BY <2>1, <2>2
<1>3. order[o].status \notin Fulfilled /\ order'[o].status \in Fulfilled
  BY <1>1, <1>2 DEF Fulfilled, Owning, Unpaid
<1>4. PICK r \in Request : FinishFulfil(r) /\ req[r].o = o
  BY <1>3, NewlyFulfilled
<1>5. order'[o].item = order[o].item
  BY <1>3, NewlyFulfilled DEF Kept
<1>6. req[r].row.item = NoItem
  BY <1>1, <1>4, <1>5 DEF ItemKnown, FinishFulfil, Confirming, OrderOp
<1>7. PICK l : l = ListingSeen(r)
  OBVIOUS
<1>8. PICK new : new = SellTo(l, req[r].row)
  OBVIOUS
<1>9. l \in ListingRow /\ l.status = "active" /\ listing' = MergeListing(listing, l, new)
  BY <1>4, <1>7, <1>8 DEF FinishFulfil, ListingSeen, IInv, TypeOK, RequestRow,
                         InventoryAvailable
<1>10. new.status = "sold"
  BY <1>6, <1>8, <1>9 DEF SellTo, ListingRow
<1> QED
  BY <1>4, <1>9, <1>10 DEF MergeListing, Put

LEMMA OffSaleStep ==
  ASSUME OneRequest, IInv, Waiting, ItemKnown, OffSale, [Next]_vars
  PROVE  OffSale'
<1>0. TypeOK /\ req \in [Request -> RequestRow]
  BY DEF IInv, TypeOK
<1>1. ASSUME NEW o \in Order, Owned(o)' PROVE listing'.status = "sold"
  <2>1. CASE Owned(o)
    BY <1>0, <2>1, ListingStatusStep DEF OffSale
  <2>2. CASE ~Owned(o)
    BY <1>1, <2>2, NewlyOwned
  <2> QED
    BY <2>1, <2>2
<1>2. ASSUME NEW r \in Request, req'[r].op \in {"activate", "deactivate"}, NEW o \in Order,
             Owned(o)'
      PROVE  FALSE
  <2>1. CASE Begin(r)
    <3>1. order'[o] = order[o] /\ Owned(o)
      BY <1>0, <1>2, <2>1, BeginOffSale DEF Owned
    <3> QED
      BY <1>0, <1>2, <2>1, <3>1, BeginOffSale DEF OffSale, Owned
  <2>2. CASE CapturePayment(r)
    <3>1. req'[r].op \in {"captured", "refused"}
      BY <1>0, <2>2 DEF CapturePayment, RequestRow
    <3> QED
      BY <1>2, <3>1
  <2>3. CASE BeginCreate(r) \/ \E i \in Item \cup {NoItem} : CheckCreate(r, i)
    <3>1. req'[r].op \in {"create", "insert"}
      BY <1>0, <2>3 DEF BeginCreate, CheckCreate, Idle
    <3> QED
      BY <1>2, <3>1
  <2>4. CASE req'[r] = Idle
    BY <1>2, <2>4 DEF Idle
  <2>5. CASE req'[r] = req[r]
    <3>1. ~Owned(o)
      BY <1>2, <2>5 DEF OffSale
    <3>2. PICK x \in Request : FinishFulfil(x)
      BY <1>2, <3>1, NewlyOwned
    <3>3. x = r
      BY DEF OneRequest
    <3> QED
      BY <1>2, <2>5, <3>2, <3>3 DEF FinishFulfil, Confirming
  <2> QED
    BY <1>0, <2>1, <2>2, <2>3, <2>4, <2>5, RequestStep
<1>3. \A o \in Order : Owned(o)' => listing'.status = "sold"
  BY <1>1
<1>4. \A r \in Request : req'[r].op \in {"activate", "deactivate"} =>
          \A o \in Order : ~Owned(o)'
  BY <1>2
<1> QED
  BY <1>3, <1>4 DEF OffSale

\* When requests come one at a time, no seller's request offers again what an order on
\* its way has bought as a whole, for any listing, orders, offers and mix of requests
\* (update_listing, delete_listing).
THEOREM SoldListingsAreNotOffered == OneRequest => (Spec => SoldNotOffered)
<1>1. ASSUME OneRequest PROVE Spec => SoldNotOffered
  <2>1. Spec => []Waiting
    BY <1>1, WaitingInductive
  <2>2. Init => OffSale /\ ItemKnown
    BY DEF Init, OffSale, Owned, ItemKnown, NoOrder, Idle, Owning, OrderOp
  <2>3. IInv /\ ItemKnown /\ [Next]_vars => ItemKnown'
    BY ItemKnownStep
  <2>4. IInv /\ Waiting /\ ItemKnown /\ OffSale /\ [Next]_vars => OffSale'
    BY <1>1, OffSaleStep
  <2>5. IInv /\ OffSale /\ [Next]_vars =>
          [(\E o \in Order : order[o].status \in Owning /\ order[o].item = NoItem)
           => listing'.status # "active" \/ listing.status = "active"]_vars
    BY ListingStatusStep DEF OffSale, Owned, IInv
  <2> QED
    BY <2>1, <2>2, <2>3, <2>4, <2>5, Inductive, PTL DEF Spec, SoldNotOffered
<1> QED
  BY <1>1
=============================================================================

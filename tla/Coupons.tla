------------------------------- MODULE Coupons -------------------------------
(***************************************************************************)
(* A user's coupon (app/coupon_service.py) on its way through orders       *)
(* (app/routers/orders.py, app/payments/fulfillment.py): applied when an   *)
(* order is placed, put on an unpaid order or taken off it, given back by  *)
(* cancelling, and used up by the payment.  Checkout models the orders     *)
(* without coupons.                                                        *)
(*                                                                         *)
(* Placing an order locks its listing, so that orders for different        *)
(* listings are placed at the same time, and nothing locks the coupon:     *)
(* applying it looks for another unpaid order that has it, reads the       *)
(* coupon, and commits, in three steps.  A payment reads the order before  *)
(* it talks to the provider and fulfils it afterwards.                     *)
(***************************************************************************)
EXTENDS Naturals, FiniteSets

CONSTANT Order     \* the user's orders, each for a listing of its own

VARIABLES
    coupon,     \* the coupon's row
    late,       \* its time is over
    order,      \* the orders' status, and whether they have the coupon
    doing,      \* for each order the request that works on it
    spent,      \* the orders that were fulfilled at the reduced price
    mixed     \* two applications overlapped, or an order changed under a request

vars == <<coupon, late, order, doing, spent, mixed>>

OrderRow == [status : {"none", "pendingPay", "cancelled", "paid"}, coupon : BOOLEAN]
NoOrder == [status |-> "none", coupon |-> FALSE]

Free(o) == doing[o].op = "idle"
Applying(o) == doing[o].op \in {"unclaimed", "available"}

\* A request that has got this far with an order it has read.
Work(o, op) == doing' = [doing EXCEPT ![o] = [op |-> op, read |-> order[o]]]
Continue(o, op) == doing' = [doing EXCEPT ![o].op = op]
Done(o) == doing' = [doing EXCEPT ![o] = [op |-> "idle", read |-> NoOrder]]

-----------------------------------------------------------------------------
\* issue_coupon gives a user one coupon of a kind.
IssueCoupon ==
    /\ coupon = "none"
    /\ coupon' = "available"
    /\ UNCHANGED <<late, order, doing, spent, mixed>>

\* refresh_expired_coupons marks all coupons of the user whose time is over.
\* Listing and redeeming them does not commit it, nor does an application that
\* fails; it lasts when another coupon is applied.
RefreshExpired ==
    /\ coupon = "available" /\ late
    /\ coupon' = "expired"
    /\ UNCHANGED <<late, order, doing, spent, mixed>>

\* _apply_coupon begins: no other unpaid order may have the coupon.  The order
\* is placed (status none) or updated.
\* (Mutation: the other unpaid orders are not looked at.)
ClaimedOrNot(o) == o \in Order

Unclaimed(o) == \A p \in Order \ {o} : order[p] # [status |-> "pendingPay", coupon |-> TRUE]

ApplyBegin(o) ==
    /\ Free(o)
    /\ order[o].status \in {"none", "pendingPay"}
    /\ coupon # "none"
    /\ Unclaimed(o)
    /\ Work(o, "unclaimed")
    /\ mixed' = (mixed \/ \E p \in Order : Applying(p))
    /\ UNCHANGED <<coupon, late, order, spent>>

\* Its second query: the coupon must be available, or the request fails.
ApplyCheck(o) ==
    /\ doing[o].op = "unclaimed"
    /\ IF coupon = "available" /\ ~late THEN Continue(o, "available") ELSE Done(o)
    /\ UNCHANGED <<coupon, late, order, spent, mixed>>

\* The row is written: what the request changes of what it has read.
Committed(o, with) ==
    /\ order' = [order EXCEPT ![o] =
          [status |-> IF doing[o].read.status = "none" THEN "pendingPay" ELSE @.status,
           coupon |-> IF doing[o].read.coupon # with THEN with ELSE @.coupon]]
    /\ mixed' = (mixed \/ order[o] # doing[o].read)
    /\ Done(o)

ApplyCommit(o) ==
    /\ doing[o].op = "available"
    /\ Committed(o, TRUE)
    /\ UNCHANGED <<coupon, late, spent>>

\* Placing or updating an order without the coupon.
WithoutBegin(o) ==
    /\ Free(o)
    /\ order[o].status \in {"none", "pendingPay"}
    /\ Work(o, "without")
    /\ UNCHANGED <<coupon, late, order, spent, mixed>>

WithoutCommit(o) ==
    /\ doing[o].op = "without"
    /\ Committed(o, FALSE)
    /\ UNCHANGED <<coupon, late, spent>>

\* The buyer and the seller who cancel take the coupon off; the end of the time
\* to pay, and a payment given up at the provider, leave it on the cancelled
\* order.  (A cancellation that overlaps a payment is Checkout's.)
CancelOrder(o, off) ==
    /\ order[o].status = "pendingPay"
    /\ order' = [order EXCEPT ![o].status = "cancelled",
                              ![o].coupon = @ /\ ~off]
    /\ UNCHANGED <<coupon, late, doing, spent, mixed>>

\* The payment takes the order as it has read it.  _mark_coupon_used leaves an
\* expired coupon as it is: the order keeps its price.
PayBegin(o) ==
    /\ Free(o)
    /\ order[o].status = "pendingPay"
    /\ Work(o, "pay")
    /\ UNCHANGED <<coupon, late, order, spent, mixed>>

Used == IF coupon = "available" THEN "used" ELSE coupon

FulfillPaidOrder(o) ==
    /\ doing[o].op = "pay"
    /\ order' = [order EXCEPT ![o].status = "paid"]
    /\ coupon' = IF doing[o].read.coupon THEN Used ELSE coupon
    /\ spent' = IF doing[o].read.coupon THEN spent \cup {o} ELSE spent
    /\ mixed' = (mixed \/ order[o] # doing[o].read)
    /\ Done(o)
    /\ UNCHANGED late

TimePasses ==
    /\ coupon # "none"
    /\ late' = TRUE
    /\ UNCHANGED <<coupon, order, doing, spent, mixed>>

Init ==
    /\ coupon = "none" /\ late = FALSE
    /\ order = [o \in Order |-> NoOrder]
    /\ doing = [o \in Order |-> [op |-> "idle", read |-> NoOrder]]
    /\ spent = {} /\ mixed = FALSE

Next ==
    \/ IssueCoupon \/ RefreshExpired \/ TimePasses
    \/ \E o \in Order :
          \/ ApplyBegin(o) \/ ApplyCheck(o) \/ ApplyCommit(o)
          \/ WithoutBegin(o) \/ WithoutCommit(o)
          \/ PayBegin(o) \/ FulfillPaidOrder(o)
          \/ \E off \in BOOLEAN : CancelOrder(o, off)

Spec == Init /\ [][Next]_vars

-----------------------------------------------------------------------------
TypeOK ==
    /\ coupon \in {"none", "available", "used", "expired"}
    /\ order \in [Order -> OrderRow]
    /\ \A o \in Order : doing[o].read \in OrderRow
    /\ spent \subseteq Order

\* One coupon reduces the price of one order, however often it is applied,
\* taken off, given back and applied again, and then it is gone; as long as no
\* two applications overlap and no order changes under a request.
SpentOnce ==
    ~mixed => Cardinality(spent) <= 1 /\ (spent # {} => coupon # "available")
=============================================================================

----------------------------- MODULE Settlement -----------------------------
(***************************************************************************)
(* One paid order until its money is settled: delivery and receipt,        *)
(* reviews and disputes (app/routers/orders.py), automatic confirmation    *)
(* (app/order_jobs.py), the seller's payout (app/payout_release.py), the   *)
(* buyer's refund (app/payments/refunds.py), the provider's refund events  *)
(* (app/payments/webhooks.py) and the administrator's decisions            *)
(* (app/routers/admin_routes.py).                                          *)
(*                                                                         *)
(* As in Checkout, a request reads the order, works on its own copy and    *)
(* commits the columns it changed; nothing locks the row.  The calls to    *)
(* the provider take effect when they are made, between the read and the   *)
(* commit; whatever becomes of the commit, they are not taken back.        *)
(*                                                                         *)
(* The provider is external: it sends the seller transfers, returns the    *)
(* buyer's money at once or later, and reports refunds by events.          *)
(*                                                                         *)
(* Left out: amounts (one whole payment), the seller's onboarding (a       *)
(* payout without a usable destination is blocked), notifications,         *)
(* simulated payments, dispute_status "open", which nothing writes.        *)
(***************************************************************************)
EXTENDS Naturals, FiniteSets

CONSTANTS
    Request,       \* database sessions open at the same time
    Op,            \* the requests that arrive; "lost": calls and commits get
                   \* lost; "late": refund events may report an old state
    Rails,         \* how sellers are paid: "stripe" transfers; "batch" payouts
                   \* under an id derived from the order's (PayPal, Alipay) and
                   \* "wechat" ones; "delayed": PayPal holds the buyer's payment
                   \* until it is told to pay it out
    MaxTransfer,   \* transfers and refunds the provider makes at most
    MaxRefund

ASSUME RailAssumption == Rails \subseteq {"stripe", "batch", "wechat", "delayed"}
ASSUME BoundAssumption == MaxTransfer \in Nat /\ MaxRefund \in Nat

VARIABLES
    order,      \* the order's row
    review,     \* who has reviewed it
    rail,       \* the seller's rail
    transfer,   \* the provider's transfers to the seller
    refund,     \* and refunds to the buyer, with the states each has been in
    req         \* open requests

vars == <<order, review, rail, transfer, refund, req>>
provider == <<transfer, refund>>

-----------------------------------------------------------------------------
\* Rows.

Party == {"buyer", "seller"}
OrderStatus == {"pendingShip", "pendingService", "pendingReceive", "pendingReview",
                "completed", "refundInProgress", "inDispute", "refunded"}
Disputed == {"inDispute", "refundInProgress"}
PayoutStatus == {"pending", "processing", "blocked", "released", "failed", "reversed"}
RefundStatus == {"none", "pending", "succeeded", "failed"}

OrderRow == [status : OrderStatus,
             payment : {"succeeded", "refunded"},
             refund : RefundStatus,
             payout : PayoutStatus,
             payRef : 0..MaxTransfer,          \* payout_reference
             paused : BOOLEAN,                 \* payout_paused
             dispute : {"none", "refund_requested", "refund_pending",
                        "refund_failed", "resolved"},
             auto : {"none", "set", "passed"}] \* auto_confirm_at

TransferState == {"none", "pending", "paid", "failed", "reversed"}
RefundState == {"pending", "succeeded", "failed"}

\* An order as Checkout leaves it: fulfilled, or in conflict over its stock.
Paid(status) ==
    [status |-> status, payment |-> "succeeded", refund |-> "none",
     payout |-> "pending", payRef |-> 0, paused |-> FALSE, dispute |-> "none",
     auto |-> "none"]
Conflict ==
    [Paid("inDispute") EXCEPT !.paused = TRUE, !.dispute = "refund_failed"]

Put(now, read, new) == IF new # read THEN new ELSE now

\* The columns of a row that a commit writes: those the request changed.
Merge(now, read, new) ==
    [status  |-> Put(now.status, read.status, new.status),
     payment |-> Put(now.payment, read.payment, new.payment),
     refund  |-> Put(now.refund, read.refund, new.refund),
     payout  |-> Put(now.payout, read.payout, new.payout),
     payRef  |-> Put(now.payRef, read.payRef, new.payRef),
     paused  |-> Put(now.paused, read.paused, new.paused),
     dispute |-> Put(now.dispute, read.dispute, new.dispute),
     auto    |-> Put(now.auto, read.auto, new.auto)]

Idle == [op |-> "idle", who |-> "none", row |-> Paid("pendingShip"),
         new |-> Paid("pendingShip")]

-----------------------------------------------------------------------------
\* The seller's payout.  An outcome is the order as the request then has it
\* in memory and the provider's transfers and refunds.

Outcome(row, tr, rf) == [row |-> row, transfer |-> tr, refund |-> rf]
NoCall(row) == Outcome(row, transfer, refund)

Blocked(row) == [row EXCEPT !.payout = "blocked"]
Failed(row)  == [row EXCEPT !.payout = "failed"]

\* (Mutation: an accepted transfer counts as paid on every rail.)
RecordedAtOnce(state) ==
    {IF state \in {"paid", "pending"} THEN "released" ELSE "failed"}

\* What the handlers record of a transfer in that state.  PayPal may hold a
\* pending one for review.  A WeChat batch is finished whatever became of the
\* transfer in it, and PayPal's answer to a release is not looked at.
Recorded(state) ==
    IF rail = "delayed" THEN {"released"}
    ELSE CASE state = "paid"     -> {"released"}
           [] state = "pending"  -> {"processing", "blocked"}
           [] state = "failed"   -> {"failed"} \cup IF rail = "wechat" THEN {"released"} ELSE {}
           [] state = "reversed" -> {"reversed"}

\* The order once the provider has answered that transfer n is in that state.
Answered(row, n, state) ==
    {[row EXCEPT !.payout = status, !.payRef = n] : status \in Recorded(state)}

\* Stripe makes a new transfer on every call; a batch id is used once, and a
\* held payment is paid out once.
FreshTransfer ==
    {n \in 1..MaxTransfer : /\ transfer[n] = "none"
                            /\ \A m \in 1..(n - 1) : transfer[m] # "none"
                            /\ rail # "stripe" => n = 1}

FirstState == IF rail = "stripe" THEN {"paid"} ELSE {"pending", "paid", "failed"}

\* The call took effect, the answer got lost.
LostAnswer(row) == IF "lost" \in Op THEN {Failed(row)} ELSE {}

\* A new transfer, and the answer that the order's payout exists.
NewTransfer(row) ==
    UNION {{Outcome(a, [transfer EXCEPT ![n] = s], refund) :
              a \in Answered(row, n, s) \cup LostAnswer(row)} :
            n \in FreshTransfer, s \in FirstState}
SameTransfer(row) ==
    IF rail # "stripe" /\ MaxTransfer > 0 /\ transfer[1] # "none"
    THEN {NoCall(a) : a \in Answered(row, 1, transfer[1])} ELSE {}

\* _release_stripe_payout, _release_paypal_payout, _release_alipay_payout and
\* _release_wechat_payout: no usable destination, a refusal, or a transfer.
PayOutcomes(row) ==
    {NoCall(Blocked(row)), NoCall(Failed(row))}
    \cup NewTransfer(row) \cup SameTransfer(row)

\* _sync_provider_payout of a batch under way; the method it needs may be gone.
SyncOutcomes(row) ==
    {NoCall(Blocked(row)), NoCall(Failed(row))}
    \cup IF row.payRef # 0 /\ transfer[row.payRef] # "none"
         THEN {NoCall(a) : a \in Answered(row, row.payRef, transfer[row.payRef])}
         ELSE {}

\* (Mutation: the pause is not looked at.)
WithheldUnlessPaused(row) ==
    \/ row.dispute = "refund_requested"
    \/ row.status \notin {"pendingReview", "completed"}
    \/ row.payment # "succeeded"

\* Why _release_payout_for_order withholds the money.
Withheld(row) ==
    \/ row.paused
    \/ row.dispute = "refund_requested"
    \/ row.status \notin {"pendingReview", "completed"}
    \/ row.payment # "succeeded"

\* (Mutations: what has been released is released again; a refund under way
\* does not matter.)
ReleaseAgain(row) ==
    IF row.refund \in {"pending", "failed"} THEN {NoCall(Blocked(row))}
    ELSE IF rail # "stripe" /\ row.payout = "processing" THEN SyncOutcomes(row)
    ELSE IF Withheld(row) THEN {NoCall(Blocked(row))}
    ELSE PayOutcomes(row)
ReleaseWhileRefunding(row) ==
    IF rail # "stripe" /\ row.payout = "processing" THEN SyncOutcomes(row)
    ELSE IF row.payout = "released" /\ row.payRef # 0 THEN {NoCall(row)}
    ELSE IF Withheld(row) THEN {NoCall(Blocked(row))}
    ELSE PayOutcomes(row)

\* release_payout_for_order.
ReleaseOutcomes(row) ==
    IF row.refund \in {"pending", "failed"} THEN {NoCall(Blocked(row))}
    ELSE IF rail # "stripe" /\ row.payout = "processing" THEN SyncOutcomes(row)
    ELSE IF row.payout = "released" /\ row.payRef # 0 THEN {NoCall(row)}
    ELSE IF Withheld(row) THEN {NoCall(Blocked(row))}
    ELSE PayOutcomes(row)

\* reverse_released_payout_for_order: only Stripe can, and it may refuse.
ReverseOutcomes(row) ==
    IF row.payout # "released" \/ row.payRef = 0 THEN {NoCall(row)}
    ELSE IF rail # "stripe" THEN {NoCall(Blocked(row))}
    ELSE {NoCall(Failed(row))}
         \cup IF transfer[row.payRef] = "paid"
              THEN {Outcome(a, [transfer EXCEPT ![row.payRef] = "reversed"], refund) :
                      a \in {[row EXCEPT !.payout = "reversed"]} \cup LostAnswer(row)}
              ELSE {}

-----------------------------------------------------------------------------
\* The buyer's refund.

UnlessReleased(row, status) == IF row.payout = "released" THEN "released" ELSE status

\* (Mutation: a pending refund counts as made.)
AppliedAtOnce(row, state) ==
    CASE state \in {"succeeded", "pending"} ->
           [row EXCEPT !.payment = "refunded", !.refund = "succeeded",
                       !.payout = UnlessReleased(row, "reversed")]
      [] state = "failed" ->
           [row EXCEPT !.refund = state, !.paused = TRUE,
                       !.payout = UnlessReleased(row, "blocked")]

\* _set_refunded, _set_pending and _set_failed, as apply_stripe_refund_update
\* and apply_paypal_refund_update choose among them.
Applied(row, state) ==
    CASE state = "succeeded" ->
           [row EXCEPT !.payment = "refunded", !.refund = "succeeded",
                       !.payout = UnlessReleased(row, "reversed")]
      [] state \in {"pending", "failed"} ->
           [row EXCEPT !.refund = state, !.paused = TRUE,
                       !.payout = UnlessReleased(row, "blocked")]

\* (Mutation: a dispute status is written to the order's.)
DecidedWrongColumn(row, state) ==
    [row EXCEPT !.status = IF state = "succeeded" THEN "resolved" ELSE "inDispute"]

\* What the handlers make of it: refunded, pending or failed.
Decided(row, state) ==
    CASE state = "succeeded" ->
           [row EXCEPT !.status = "refunded", !.dispute = "resolved", !.paused = FALSE]
      [] state = "pending" ->
           [row EXCEPT !.status = "refundInProgress", !.dispute = "refund_pending",
                       !.paused = TRUE]
      [] state = "failed" ->
           [row EXCEPT !.status = "inDispute", !.dispute = "refund_failed",
                       !.paused = TRUE]

\* The payment can be returned once: a failed refund frees the money again.
FreshRefund ==
    {n \in 1..MaxRefund : /\ refund[n] = {}
                          /\ \A m \in 1..(n - 1) : "failed" \in refund[m]}

\* The early returns of refund_order_payment.
Returned(row) == row.payment = "refunded" \/ row.refund = "succeeded"
Asked(row) == Returned(row) \/ row.refund = "pending"

\* refund_order_payment, where it does not fail: nothing to do, or the
\* provider has accepted.
RefundOutcomes(out) ==
    IF Asked(out.row) THEN {out}
    ELSE {Outcome(Applied(out.row, s), out.transfer, [refund EXCEPT ![n] = {s}]) :
            n \in FreshRefund, s \in {"pending", "succeeded"}}

\* The states of a refund whose request has failed for the backend.
UnseenState == IF "lost" \in Op THEN RefundState ELSE {"failed"}

\* ... and where it does: refused, failed at once, or the answer was lost.
RefusedOutcomes(out) ==
    {out} \cup {Outcome(out.row, out.transfer, [refund EXCEPT ![n] = {s}]) :
                  n \in FreshRefund, s \in UnseenState}

-----------------------------------------------------------------------------
\* Requests: reading the order, calling the provider.

Start(r, op, who, out) ==
    /\ req[r] = Idle /\ op \in Op
    /\ req' = [req EXCEPT ![r] = [op |-> op, who |-> who, row |-> order,
                                  new |-> out.row]]
    /\ transfer' = out.transfer /\ refund' = out.refund
    /\ UNCHANGED <<order, review, rail>>

\* The handler calls the provider, then raises: only the calls remain.
Raise(r, op, out) ==
    /\ req[r] = Idle /\ op \in Op
    /\ transfer' = out.transfer /\ refund' = out.refund
    /\ UNCHANGED <<order, review, rail, req>>

\* (Mutation: no deadline is set.)
ShipUnscheduled(r) ==
    /\ order.status \in {"pendingShip", "pendingService"}
    /\ Start(r, "ship", "none", NoCall([order EXCEPT !.status = "pendingReceive"]))

\* ship_order, complete_service_order.
Ship(r) ==
    /\ order.status \in {"pendingShip", "pendingService"}
    /\ Start(r, "ship", "none",
             NoCall([order EXCEPT !.status = "pendingReceive", !.auto = "set"]))

\* confirm_receive.
ConfirmReceive(r) ==
    /\ order.status \in {"pendingReceive", "pendingService"}
    /\ \E out \in ReleaseOutcomes([order EXCEPT !.status = "pendingReview"]) :
         Start(r, "confirm", "none", [out EXCEPT !.row.auto = "none"])

\* process_auto_confirm_orders.
AutoConfirm(r) ==
    /\ order.status \in {"pendingReceive", "pendingService"}
    /\ order.auto = "passed" /\ ~order.paused
    /\ \E out \in ReleaseOutcomes([order EXCEPT !.status = "pendingReview"]) :
         Start(r, "auto", "none", out)

\* (Mutation: the status is not checked.)
RequestRefundAnytime(r) ==
    Start(r, "dispute", "none",
          NoCall([order EXCEPT !.status = "refundInProgress", !.paused = TRUE,
                               !.dispute = "refund_requested"]))

\* request_refund, open_dispute.
RequestRefund(r) ==
    /\ order.status \in {"pendingShip", "pendingService", "pendingReceive", "completed"}
    /\ Start(r, "dispute", "none",
             NoCall([order EXCEPT !.status = "refundInProgress", !.paused = TRUE,
                                  !.dispute = "refund_requested"]))

\* (Mutation: the reviews are counted before the new one is flushed.)
CountedBeforeFlush(who) ==
    /\ order.status = "pendingReview"
    /\ review = Party

\* Whether who's review is the second one, as its session counts them.
LastReview(who) ==
    /\ order.status = "pendingReview"
    /\ review \cup {who} = Party

\* submit_review with _maybe_complete_order_after_review.
SubmitReview(r, who) ==
    /\ order.status \in {"pendingReview", "completed", "refunded"}
    /\ who \notin review
    /\ \E out \in IF LastReview(who)
                  THEN ReleaseOutcomes([order EXCEPT !.status = "completed"])
                  ELSE {NoCall(order)} :
         Start(r, "review", who, out)

\* The state refund n is in, and no later one has been asked for.
Current(n, s) ==
    /\ s = "pending" => refund[n] = {"pending"}
    /\ \A m \in (n + 1)..MaxRefund : refund[m] = {}

\* A refund event, whatever the order's status; late ones report an older
\* state or an older refund.
RefundEvent(r, n) ==
    \E s \in refund[n] :
        /\ Current(n, s) \/ "late" \in Op
        /\ Start(r, "event", "none", NoCall(Decided(Applied(order, s), s)))

PausePayout(r) ==
    Start(r, "pause", "none",
          NoCall([order EXCEPT !.paused = TRUE,
                    !.payout = IF @ \in {"released", "reversed"} THEN @ ELSE "blocked"]))

ReleasePayout(r) ==
    \E out \in ReleaseOutcomes(order) : Start(r, "release", "none", out)

InDecision == [order EXCEPT !.paused = TRUE, !.dispute = "resolved"]

\* resolve_dispute with a refund: take the payout back, then refund.
ResolveRefund(r) ==
    /\ order.status \in Disputed
    /\ \E rev \in ReverseOutcomes(InDecision) :
         IF rev.row.payout = "released" THEN Raise(r, "resolve", rev)
         ELSE \/ \E out \in RefundOutcomes(rev) :
                   Start(r, "resolve", "none",
                         [out EXCEPT !.row = Decided(@, IF Returned(@) THEN "succeeded"
                                                        ELSE "pending")])
              \/ /\ ~Asked(rev.row)
                 /\ \E out \in RefusedOutcomes(rev) : Raise(r, "resolve", out)

\* resolve_dispute in the seller's favour.
ResolveComplete(r) ==
    /\ order.status \in Disputed
    /\ \E out \in ReleaseOutcomes([InDecision EXCEPT !.status = "completed",
                                                     !.paused = FALSE]) :
         IF out.row.payout = "released" THEN Start(r, "resolve", "none", out)
         ELSE Raise(r, "resolve", out)

Begin(r) ==
    \/ Ship(r) \/ ConfirmReceive(r) \/ AutoConfirm(r) \/ RequestRefund(r)
    \/ \E who \in Party : SubmitReview(r, who)
    \/ \E n \in 1..MaxRefund : RefundEvent(r, n)
    \/ PausePayout(r) \/ ReleasePayout(r) \/ ResolveRefund(r) \/ ResolveComplete(r)

-----------------------------------------------------------------------------
\* The commit.  Nobody reviews twice: the table's unique constraint.

Finish(r) ==
    /\ req[r] # Idle
    /\ req[r].op = "review" => req[r].who \notin review
    /\ order' = Merge(order, req[r].row, req[r].new)
    /\ review' = IF req[r].op = "review" THEN review \cup {req[r].who} ELSE review
    /\ req' = [req EXCEPT ![r] = Idle]
    /\ UNCHANGED <<rail, provider>>

\* The commit fails or the process dies.
Abandon(r) ==
    /\ req[r] # Idle
    /\ "lost" \in Op
    /\ req' = [req EXCEPT ![r] = Idle]
    /\ UNCHANGED <<order, review, rail, provider>>

\* The provider's own steps, and the deadline for the buyer's confirmation.
TransferSettles(n) ==
    /\ transfer[n] = "pending"
    /\ \E s \in {"paid", "failed", "reversed"} :
         transfer' = [transfer EXCEPT ![n] = s]
    /\ UNCHANGED <<order, review, rail, refund, req>>
RefundSettles(n) ==
    /\ refund[n] = {"pending"}
    /\ \E s \in {"succeeded", "failed"} :
         refund' = [refund EXCEPT ![n] = @ \cup {s}]
    /\ UNCHANGED <<order, review, rail, transfer, req>>
DeadlinePasses ==
    /\ order.auto = "set"
    /\ order' = [order EXCEPT !.auto = "passed"]
    /\ UNCHANGED <<review, rail, provider, req>>

Init ==
    /\ order \in {Paid("pendingShip"), Paid("pendingService"), Conflict}
    /\ review = {}
    /\ rail \in Rails
    /\ transfer = [n \in 1..MaxTransfer |-> "none"]
    /\ refund = [n \in 1..MaxRefund |-> {}]
    /\ req = [r \in Request |-> Idle]

Next ==
    \/ \E r \in Request : Begin(r) \/ Finish(r) \/ Abandon(r)
    \/ \E n \in 1..MaxTransfer : TransferSettles(n)
    \/ \E n \in 1..MaxRefund : RefundSettles(n)
    \/ DeadlinePasses

Spec == Init /\ [][Next]_vars

\* Deadlines pass, requests come to an end, and the confirmation job keeps
\* finding its turn.
FairSpec ==
    /\ Spec
    /\ WF_vars(DeadlinePasses)
    /\ \A r \in Request : WF_vars(Finish(r))
    /\ SF_vars(\E r \in Request : AutoConfirm(r))

-----------------------------------------------------------------------------
\* Type invariant.
RequestOp == {"idle", "ship", "confirm", "auto", "dispute", "review", "event",
              "pause", "release", "resolve"}
TypeOK ==
    /\ order \in OrderRow
    /\ review \subseteq Party
    /\ rail \in Rails
    /\ transfer \in [1..MaxTransfer -> TransferState]
    /\ refund \in [1..MaxRefund -> SUBSET RefundState]
    /\ req \in [Request -> [op : RequestOp, who : Party \cup {"none"},
                            row : OrderRow, new : OrderRow]]

\* A payout is recorded as released only when the provider has paid a transfer
\* of this order; on the rails whose answer the code takes for the payment
\* (_release_paypal_payout of a DELAYED order, _apply_wechat_status "FINISHED")
\* only when the provider has accepted one.  An order or its payment is recorded
\* as refunded only when the provider has returned the money.  Both across lost
\* calls, stale commits and late events (_set_released, _set_refunded, "pending
\* ... rather than incorrectly telling the buyer that their money has been
\* returned").
Unverified == {"wechat", "delayed"}
AcceptedIn(tr) == \E n \in 1..MaxTransfer : tr[n] # "none"
PaidIn(tr) == \E n \in 1..MaxTransfer : tr[n] \in {"paid", "reversed"}
ReturnedIn(rf) == \E n \in 1..MaxRefund : "succeeded" \in rf[n]

ReleasedWasPaid ==
    order.payout = "released" =>
        IF rail \in Unverified THEN AcceptedIn(transfer) ELSE PaidIn(transfer)
RefundedWasReturned ==
    order.status = "refunded" \/ order.payment = "refunded"
    \/ order.refund = "succeeded" => ReturnedIn(refund)

\* The seller is not paid twice: one transfer at most is under way or kept.
PaidOnce == Cardinality({n \in 1..MaxTransfer : transfer[n] \in {"pending", "paid"}}) <= 1

\* No money is sent to the seller while a refund is under way or made, however
\* the order got there (_release_payout_for_order, "Payout is blocked while the
\* buyer refund is pending").
NotPaidAfterRefund ==
    [][(\E n \in 1..MaxTransfer : transfer[n] = "none" /\ transfer'[n] # "none")
       => \A n \in 1..MaxRefund : refund[n] \cap {"pending", "succeeded"} # {}
                                  => "failed" \in refund[n]]_vars

\* While the payout is paused money is sent only by deciding the dispute.
PausedIsHeld ==
    [][(\E n \in 1..MaxTransfer : transfer[n] = "none" /\ transfer'[n] # "none")
       /\ order.paused => order.status \in Disputed]_vars

\* A refunded order stays refunded.
RefundedStays == [][order.status = "refunded" => order'.status = "refunded"]_vars

\* Once both parties have reviewed it, the order does not wait for a review
\* (_maybe_complete_order_after_review).
ReviewedIsCompleted == review = Party => order.status # "pendingReview"

\* A shipped order does not wait for its buyer for ever: unless its payout is
\* paused, the deadline confirms it (process_auto_confirm_orders).
ReceiptHappens ==
    (order.status = "pendingReceive" /\ ~order.paused)
        ~> (order.status # "pendingReceive" \/ order.paused)

\* The seller does not keep the money of an order that was refunded: a decision
\* for the buyer takes the payout back first, or is refused (resolve_dispute,
\* PAYOUT_REVERSAL_REQUIRED).
RefundTakesPayoutBack ==
    order.status = "refunded" => \A n \in 1..MaxTransfer : transfer[n] # "paid"
=============================================================================

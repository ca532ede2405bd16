-------------------------- MODULE SettlementProofs --------------------------
(***************************************************************************)
(* Theorems about Settlement for any number of concurrent requests, any    *)
(* mix of requests, every rail, any number of transfers and refunds.      *)
(***************************************************************************)
EXTENDS Settlement, TLAPS, FiniteSetTheorems

-----------------------------------------------------------------------------
\* What the row claims about money, the provider's ledgers bear out; the same
\* of the copies that requests have not committed yet.

TransferLedger == [1..MaxTransfer -> TransferState]
RefundLedger == [1..MaxRefund -> SUBSET RefundState]

\* What bears out a release on this rail.
BorneOut(tr) == IF rail \in Unverified THEN AcceptedIn(tr) ELSE PaidIn(tr)

Backed(row, tr, rf) ==
    /\ row.payout = "released" => BorneOut(tr)
    /\ \/ row.status = "refunded" \/ row.payment = "refunded"
       \/ row.refund = "succeeded"
       => ReturnedIn(rf)

IInv ==
    /\ TypeOK
    /\ Backed(order, transfer, refund)
    /\ \A r \in Request : /\ Backed(req[r].new, transfer, refund)
                          /\ req[r].op = "review" => req[r].who \in Party

\* An outcome that a request may keep: well typed, no money forgotten, and the
\* order in memory backed by it.
Good(out) ==
    /\ out \in [row : OrderRow, transfer : TransferLedger, refund : RefundLedger]
    /\ BorneOut(transfer) => BorneOut(out.transfer)
    /\ ReturnedIn(refund) => ReturnedIn(out.refund)
    /\ Backed(out.row, out.transfer, out.refund)

LEMMA NoCallGood ==
  ASSUME TypeOK, NEW row \in OrderRow, Backed(row, transfer, refund)
  PROVE  Good(NoCall(row))
  BY DEF TypeOK, NoCall, Outcome, Good, TransferLedger, RefundLedger

\* Columns that no claim is made about, and claims given up, change nothing.
LEMMA BlockedGood ==
  ASSUME TypeOK, NEW row \in OrderRow, NEW tr, NEW rf, Backed(row, tr, rf)
  PROVE  /\ Blocked(row) \in OrderRow /\ Backed(Blocked(row), tr, rf)
         /\ Failed(row) \in OrderRow /\ Backed(Failed(row), tr, rf)
  BY DEF Blocked, Failed, OrderRow, PayoutStatus, Backed

-----------------------------------------------------------------------------
\* The seller's payout.

LEMMA AnsweredGood ==
  ASSUME NEW row \in OrderRow, NEW n \in 1..MaxTransfer, NEW tr, NEW rf,
         tr[n] \in TransferState \ {"none"}, Backed(row, tr, rf),
         NEW a \in Answered(row, n, tr[n])
  PROVE  a \in OrderRow /\ Backed(a, tr, rf)
<1> DEFINE with(status) == [row EXCEPT !.payout = status, !.payRef = n]
<1>1. \A status \in PayoutStatus :
        /\ with(status) \in OrderRow
        /\ with(status).payout = status
        /\ with(status).status = row.status /\ with(status).payment = row.payment
        /\ with(status).refund = row.refund
  <2> TAKE status \in PayoutStatus
  <2>1. [row EXCEPT !.payout = status] \in OrderRow
    BY DEF OrderRow
  <2>2. n \in 0..MaxTransfer
    BY BoundAssumption
  <2>3. \A w \in OrderRow : [w EXCEPT !.payRef = n] \in OrderRow
    BY <2>2 DEF OrderRow
  <2>4. with(status) = [[row EXCEPT !.payout = status] EXCEPT !.payRef = n]
    OBVIOUS
  <2> QED
    BY <2>1, <2>3, <2>4 DEF OrderRow
<1>2. PICK status \in Recorded(tr[n]) : a = with(status)
  BY DEF Answered
<1>3. /\ status \in PayoutStatus
      /\ status = "released" => rail \in Unverified \/ tr[n] = "paid"
  <2>1. rail = "delayed" => status = "released" /\ rail \in Unverified
    BY DEF Recorded, Unverified
  <2>2. rail # "delayed" /\ tr[n] = "paid" => status = "released"
    BY DEF Recorded
  <2>3. rail # "delayed" /\ tr[n] = "pending" => status \in {"processing", "blocked"}
    BY DEF Recorded
  <2>4. rail # "delayed" /\ tr[n] = "failed" =>
           status = "failed" \/ (status = "released" /\ rail \in Unverified)
    BY DEF Recorded, Unverified
  <2>5. rail # "delayed" /\ tr[n] = "reversed" => status = "reversed"
    BY DEF Recorded
  <2> QED
    BY <2>1, <2>2, <2>3, <2>4, <2>5 DEF TransferState, PayoutStatus
<1> HIDE DEF with
<1> QED
  BY <1>1, <1>2, <1>3 DEF Backed, BorneOut, AcceptedIn, PaidIn

\* Recording a new transfer forgets none.
LEMMA RecordedTransfer ==
  ASSUME TypeOK, NEW n \in FreshTransfer, NEW s \in TransferState
  PROVE  LET tr == [transfer EXCEPT ![n] = s]
         IN  /\ n \in 1..MaxTransfer
             /\ tr \in TransferLedger /\ tr[n] = s
             /\ BorneOut(transfer) => BorneOut(tr)
  BY DEF TypeOK, FreshTransfer, TransferLedger, TransferState, BorneOut, AcceptedIn, PaidIn

LEMMA PayGood ==
  ASSUME TypeOK, NEW row \in OrderRow, Backed(row, transfer, refund),
         NEW out \in PayOutcomes(row)
  PROVE  Good(out)
<1>1. CASE out \in {NoCall(Blocked(row)), NoCall(Failed(row))}
  BY <1>1, BlockedGood, NoCallGood
<1>2. ASSUME NEW n \in FreshTransfer, NEW s \in FirstState,
             NEW a \in Answered(row, n, s)
                       \cup LostAnswer(row),
             out = Outcome(a, [transfer EXCEPT ![n] = s], refund)
      PROVE  Good(out)
  <2> DEFINE tr == [transfer EXCEPT ![n] = s]
  <2>1. s \in TransferState \ {"none"}
    BY DEF FirstState, TransferState
  <2>2. /\ n \in 1..MaxTransfer /\ tr \in TransferLedger /\ tr[n] = s
        /\ BorneOut(transfer) => BorneOut(tr)
    BY <2>1, RecordedTransfer
  <2>3. Backed(row, tr, refund)
    BY <2>2 DEF Backed
  <2>4. a \in OrderRow /\ Backed(a, tr, refund)
    <3>1. CASE a \in Answered(row, n, tr[n])
      BY <2>1, <2>2, <2>3, <3>1, AnsweredGood
    <3>2. CASE a = Failed(row)
      BY <2>3, <3>2, BlockedGood
    <3> QED
      BY <2>2, <3>1, <3>2 DEF LostAnswer
  <2>5. refund \in RefundLedger
    BY DEF TypeOK, RefundLedger
  <2> QED
    BY <1>2, <2>2, <2>4, <2>5 DEF Outcome, Good
<1>3. ASSUME rail # "stripe", MaxTransfer > 0, transfer[1] # "none",
             NEW a \in Answered(row, 1, transfer[1]), out = NoCall(a)
      PROVE  Good(out)
  <2>1. 1 \in 1..MaxTransfer /\ transfer[1] \in TransferState \ {"none"}
    BY <1>3, BoundAssumption DEF TypeOK
  <2> QED
    BY <1>3, <2>1, AnsweredGood, NoCallGood
<1>4. CASE out \in NewTransfer(row)
  <2>1. PICK n \in FreshTransfer, s \in FirstState :
          out \in {Outcome(a, [transfer EXCEPT ![n] = s], refund) :
                     a \in Answered(row, n, s) \cup LostAnswer(row)}
    BY <1>4 DEF NewTransfer
  <2> QED
    BY <1>2, <2>1
<1>5. CASE out \in SameTransfer(row)
  BY <1>3, <1>5 DEF SameTransfer
<1> QED
  BY <1>1, <1>4, <1>5 DEF PayOutcomes

LEMMA SyncGood ==
  ASSUME TypeOK, NEW row \in OrderRow, Backed(row, transfer, refund),
         NEW out \in SyncOutcomes(row)
  PROVE  Good(out)
<1>1. CASE out \in {NoCall(Blocked(row)), NoCall(Failed(row))}
  BY <1>1, BlockedGood, NoCallGood
<1>2. ASSUME row.payRef # 0, transfer[row.payRef] # "none",
             NEW a \in Answered(row, row.payRef, transfer[row.payRef]), out = NoCall(a)
      PROVE  Good(out)
  <2>1. row.payRef \in 1..MaxTransfer
    BY <1>2, BoundAssumption DEF OrderRow
  <2>2. transfer[row.payRef] \in TransferState \ {"none"}
    BY <1>2, <2>1 DEF TypeOK
  <2> QED
    BY <1>2, <2>1, <2>2, AnsweredGood, NoCallGood
<1> QED
  BY <1>1, <1>2 DEF SyncOutcomes

LEMMA ReleaseGood ==
  ASSUME TypeOK, NEW row \in OrderRow, Backed(row, transfer, refund),
         NEW out \in ReleaseOutcomes(row)
  PROVE  Good(out)
<1>1. Good(NoCall(row)) /\ Good(NoCall(Blocked(row)))
  BY NoCallGood, BlockedGood
<1>2. \/ out \in {NoCall(row), NoCall(Blocked(row))}
      \/ out \in SyncOutcomes(row) \/ out \in PayOutcomes(row)
  BY DEF ReleaseOutcomes
<1> QED
  BY <1>1, <1>2, SyncGood, PayGood

LEMMA ReverseGood ==
  ASSUME TypeOK, NEW row \in OrderRow, Backed(row, transfer, refund),
         NEW out \in ReverseOutcomes(row)
  PROVE  Good(out) /\ out.refund = refund
<1>1. CASE out \in {NoCall(row), NoCall(Blocked(row)), NoCall(Failed(row))}
  BY <1>1, NoCallGood, BlockedGood DEF NoCall, Outcome
<1>2. ASSUME row.payout = "released", row.payRef # 0, transfer[row.payRef] = "paid",
             NEW a \in {[row EXCEPT !.payout = "reversed"], Failed(row)},
             out = Outcome(a, [transfer EXCEPT ![row.payRef] = "reversed"], refund)
      PROVE  Good(out) /\ out.refund = refund
  <2> DEFINE n == row.payRef
             tr == [transfer EXCEPT ![n] = "reversed"]
  <2>1. n \in 1..MaxTransfer
    BY <1>2, BoundAssumption DEF OrderRow
  <2>2. tr \in TransferLedger /\ tr[n] = "reversed"
    BY <2>1 DEF TypeOK, TransferLedger, TransferState
  <2>3. BorneOut(tr)
    BY <2>1, <2>2 DEF BorneOut, AcceptedIn, PaidIn
  <2>4. Backed(row, tr, refund)
    BY <2>3 DEF Backed
  <2>5. a \in OrderRow /\ Backed(a, tr, refund)
    <3>1. CASE a = [row EXCEPT !.payout = "reversed"]
      BY <2>4, <3>1 DEF OrderRow, PayoutStatus, Backed
    <3>2. CASE a = Failed(row)
      BY <2>4, <3>2, BlockedGood
    <3> QED
      BY <1>2, <3>1, <3>2
  <2>6. refund \in RefundLedger
    BY DEF TypeOK, RefundLedger
  <2> QED
    BY <1>2, <2>2, <2>3, <2>5, <2>6 DEF Outcome, Good
<1> QED
  BY <1>1, <1>2 DEF ReverseOutcomes, LostAnswer

-----------------------------------------------------------------------------
\* The buyer's refund.

LEMMA AppliedGood ==
  ASSUME NEW row \in OrderRow, NEW state \in RefundState, NEW tr, NEW rf,
         Backed(row, tr, rf), state = "succeeded" => ReturnedIn(rf)
  PROVE  /\ Applied(row, state) \in OrderRow /\ Backed(Applied(row, state), tr, rf)
         /\ state = "succeeded" => Returned(Applied(row, state))
<1> DEFINE a == Applied(row, state)
<1>1. \A s \in {"reversed", "blocked"} :
        /\ UnlessReleased(row, s) \in PayoutStatus
        /\ UnlessReleased(row, s) = "released" => row.payout = "released"
  BY DEF UnlessReleased, PayoutStatus
<1>2. CASE state = "succeeded"
  <2>1. a = [row EXCEPT !.payment = "refunded", !.refund = "succeeded",
                        !.payout = UnlessReleased(row, "reversed")]
    BY <1>2 DEF Applied
  <2>2. a \in OrderRow /\ a.payment = "refunded"
    BY <1>1, <2>1 DEF OrderRow, RefundStatus
  <2>3. a.payout = "released" => row.payout = "released"
    BY <1>1, <2>1 DEF OrderRow
  <2> QED
    BY <1>2, <2>2, <2>3 DEF Backed, Returned
<1>3. CASE state \in {"pending", "failed"}
  <2>1. a = [row EXCEPT !.refund = state, !.paused = TRUE,
                        !.payout = UnlessReleased(row, "blocked")]
    BY <1>3 DEF Applied
  <2>2. a \in OrderRow /\ a.refund = state
        /\ a.payment = row.payment /\ a.status = row.status
    BY <1>1, <1>3, <2>1 DEF OrderRow, RefundStatus
  <2>3. a.payout = "released" => row.payout = "released"
    BY <1>1, <2>1 DEF OrderRow
  <2> QED
    BY <1>3, <2>2, <2>3 DEF Backed
<1> QED
  BY <1>2, <1>3 DEF RefundState

LEMMA DecidedGood ==
  ASSUME NEW row \in OrderRow, NEW state \in RefundState, NEW tr, NEW rf,
         Backed(row, tr, rf), state = "succeeded" => ReturnedIn(rf)
  PROVE  Decided(row, state) \in OrderRow /\ Backed(Decided(row, state), tr, rf)
<1> DEFINE d == Decided(row, state)
<1>1. CASE state = "succeeded"
  <2>1. d = [row EXCEPT !.status = "refunded", !.dispute = "resolved", !.paused = FALSE]
    BY <1>1 DEF Decided
  <2> QED
    BY <1>1, <2>1 DEF OrderRow, OrderStatus, Backed
<1>2. CASE state = "pending"
  <2>1. d = [row EXCEPT !.status = "refundInProgress", !.dispute = "refund_pending",
                        !.paused = TRUE]
    BY <1>2 DEF Decided
  <2> QED
    BY <2>1 DEF OrderRow, OrderStatus, Backed
<1>3. CASE state = "failed"
  <2>1. d = [row EXCEPT !.status = "inDispute", !.dispute = "refund_failed",
                        !.paused = TRUE]
    BY <1>3 DEF Decided
  <2> QED
    BY <2>1 DEF OrderRow, OrderStatus, Backed
<1> QED
  BY <1>1, <1>2, <1>3 DEF RefundState

\* A fresh refund forgets none.
LEMMA RecordedRefund ==
  ASSUME TypeOK, NEW n \in FreshRefund, NEW s \in RefundState
  PROVE  LET rf == [refund EXCEPT ![n] = {s}]
         IN  /\ rf \in RefundLedger
             /\ ReturnedIn(refund) => ReturnedIn(rf)
             /\ s = "succeeded" => ReturnedIn(rf)
<1> DEFINE rf == [refund EXCEPT ![n] = {s}]
<1>1. n \in 1..MaxRefund /\ refund[n] = {}
  BY DEF FreshRefund
<1>2. rf \in RefundLedger
  BY <1>1 DEF TypeOK, RefundLedger
<1>3. rf[n] = {s} /\ \A m \in (1..MaxRefund) \ {n} : rf[m] = refund[m]
  BY <1>1 DEF TypeOK
<1>4. ReturnedIn(refund) => ReturnedIn(rf)
  BY <1>1, <1>3 DEF ReturnedIn
<1>5. s = "succeeded" => ReturnedIn(rf)
  BY <1>1, <1>3 DEF ReturnedIn
<1> QED
  BY <1>2, <1>4, <1>5

LEMMA RefundGood ==
  ASSUME TypeOK, NEW out, Good(out), out.refund = refund,
         NEW new \in RefundOutcomes(out) \cup RefusedOutcomes(out)
  PROVE  Good(new)
<1> USE DEF Good
<1>1. CASE new = out
  BY <1>1
<1>2. ASSUME NEW n \in FreshRefund, NEW s \in {"pending", "succeeded"},
             new = Outcome(Applied(out.row, s), out.transfer, [refund EXCEPT ![n] = {s}])
      PROVE  Good(new)
  <2> DEFINE rf == [refund EXCEPT ![n] = {s}]
  <2>1. s \in RefundState
    BY DEF RefundState
  <2>2. /\ rf \in RefundLedger
        /\ ReturnedIn(refund) => ReturnedIn(rf)
        /\ s = "succeeded" => ReturnedIn(rf)
    BY <2>1, RecordedRefund
  <2>3. Backed(out.row, out.transfer, rf)
    BY <2>2 DEF Backed
  <2>4. Applied(out.row, s) \in OrderRow /\ Backed(Applied(out.row, s), out.transfer, rf)
    BY <2>1, <2>2, <2>3, AppliedGood
  <2> HIDE DEF rf
  <2> QED
    BY <1>2, <2>2, <2>4 DEF Outcome, rf
<1>3. ASSUME NEW n \in FreshRefund, NEW s \in RefundState,
             new = Outcome(out.row, out.transfer, [refund EXCEPT ![n] = {s}])
      PROVE  Good(new)
  <2> DEFINE rf == [refund EXCEPT ![n] = {s}]
  <2>1. rf \in RefundLedger /\ (ReturnedIn(refund) => ReturnedIn(rf))
    BY RecordedRefund
  <2>2. Backed(out.row, out.transfer, rf)
    BY <2>1 DEF Backed
  <2> HIDE DEF rf
  <2> QED
    BY <1>3, <2>1, <2>2 DEF Outcome, rf
<1> HIDE DEF Good
<1>4. CASE new \in RefundOutcomes(out)
  <2>1. CASE Asked(out.row)
    BY <1>1, <1>4, <2>1 DEF RefundOutcomes
  <2>2. CASE ~Asked(out.row)
    <3> DEFINE o(n, s) == Outcome(Applied(out.row, s), out.transfer,
                                  [refund EXCEPT ![n] = {s}])
    <3>1. RefundOutcomes(out) =
            {o(n, s) : n \in FreshRefund, s \in {"pending", "succeeded"}}
      BY <2>2 DEF RefundOutcomes
    <3>2. ASSUME NEW n \in FreshRefund, NEW s \in {"pending", "succeeded"}, new = o(n, s)
          PROVE  Good(new)
      BY <1>2, <3>2
    <3> HIDE DEF o
    <3> QED
      BY <1>4, <3>1, <3>2
  <2> QED
    BY <2>1, <2>2
<1>5. CASE new \in RefusedOutcomes(out)
  <2> DEFINE o(n, s) == Outcome(out.row, out.transfer, [refund EXCEPT ![n] = {s}])
  <2>1. RefusedOutcomes(out) = {out} \cup {o(n, s) : n \in FreshRefund, s \in UnseenState}
    BY DEF RefusedOutcomes
  <2>2. UnseenState \subseteq RefundState
    BY DEF UnseenState, RefundState
  <2>3. ASSUME NEW n \in FreshRefund, NEW s \in RefundState, new = o(n, s)
        PROVE  Good(new)
    BY <1>3, <2>3
  <2> HIDE DEF o
  <2> QED
    BY <1>1, <1>5, <2>1, <2>2, <2>3
<1> QED
  BY <1>4, <1>5

-----------------------------------------------------------------------------
\* The steps of a request.

LEMMA StartStep ==
  ASSUME IInv, NEW r \in Request, NEW op \in RequestOp, NEW who \in Party \cup {"none"},
         op = "review" => who \in Party,
         NEW out, Good(out), Start(r, op, who, out)
  PROVE  IInv'
<1>1. /\ order' = order /\ review' = review /\ rail' = rail
      /\ transfer' = out.transfer /\ refund' = out.refund
      /\ req' = [req EXCEPT ![r] = [op |-> op, who |-> who, row |-> order,
                                    new |-> out.row]]
  BY DEF Start
<1>2. /\ out.row \in OrderRow
      /\ transfer' \in TransferLedger /\ refund' \in RefundLedger
      /\ BorneOut(transfer) => BorneOut(transfer')
      /\ ReturnedIn(refund) => ReturnedIn(refund')
      /\ Backed(out.row, transfer', refund')
  BY <1>1 DEF Good
<1>3. TypeOK'
  BY <1>1, <1>2 DEF IInv, TypeOK, TransferLedger, RefundLedger
<1>4. \A row : Backed(row, transfer, refund) => Backed(row, transfer', refund')
  BY <1>2 DEF Backed
<1>5. \A p \in Request :
        /\ req'[p].new = IF p = r THEN out.row ELSE req[p].new
        /\ req'[p].op = IF p = r THEN op ELSE req[p].op
        /\ req'[p].who = IF p = r THEN who ELSE req[p].who
  BY <1>1 DEF IInv, TypeOK
<1> QED
  BY <1>1, <1>2, <1>3, <1>4, <1>5 DEF IInv, Backed, BorneOut

LEMMA RaiseStep ==
  ASSUME IInv, NEW r \in Request, NEW op, NEW out, Good(out), Raise(r, op, out)
  PROVE  IInv'
<1>1. /\ order' = order /\ review' = review /\ rail' = rail /\ req' = req
      /\ transfer' = out.transfer /\ refund' = out.refund
  BY DEF Raise
<1>2. /\ transfer' \in TransferLedger /\ refund' \in RefundLedger
      /\ BorneOut(transfer) => BorneOut(transfer')
      /\ ReturnedIn(refund) => ReturnedIn(refund')
  BY <1>1 DEF Good
<1>3. TypeOK'
  BY <1>1, <1>2 DEF IInv, TypeOK, TransferLedger, RefundLedger
<1>4. \A row : Backed(row, transfer, refund) => Backed(row, transfer', refund')
  BY <1>2 DEF Backed
<1> QED
  BY <1>1, <1>3, <1>4 DEF IInv, Backed, BorneOut

\* Handlers that call nobody change the row they have in memory; a status
\* other than "refunded" claims nothing.
LEMMA LocalGood ==
  ASSUME IInv, NEW row \in OrderRow, row.status # "refunded",
         row.payment = order.payment, row.refund = order.refund,
         row.payout = "released" => order.payout = "released"
  PROVE  Backed(row, transfer, refund) /\ Good(NoCall(row))
<1>1. Backed(row, transfer, refund)
  BY DEF IInv, Backed
<1> QED
  BY <1>1, NoCallGood DEF IInv

LEMMA BeginStep == ASSUME IInv, NEW r \in Request, Begin(r) PROVE IInv'
<1> USE DEF RequestOp, Party
<1>0. TypeOK /\ order \in OrderRow /\ Backed(order, transfer, refund)
  BY DEF IInv, TypeOK
<1>1. ASSUME NEW status \in {"pendingReview", "completed"}
      PROVE  /\ [order EXCEPT !.status = status] \in OrderRow
             /\ Backed([order EXCEPT !.status = status], transfer, refund)
  <2>1. [order EXCEPT !.status = status] \in OrderRow
    BY <1>0 DEF OrderRow, OrderStatus
  <2> QED
    BY <1>0, <2>1 DEF OrderRow, Backed
<1>2. CASE Ship(r)
  <2> DEFINE row == [order EXCEPT !.status = "pendingReceive", !.auto = "set"]
  <2>1. row \in OrderRow
    BY <1>0 DEF OrderRow, OrderStatus
  <2>2. Good(NoCall(row))
    BY <1>0, <2>1, LocalGood DEF OrderRow
  <2> QED
    BY <1>2, <2>2, StartStep DEF Ship
<1>3. CASE ConfirmReceive(r)
  <2>1. PICK out \in ReleaseOutcomes([order EXCEPT !.status = "pendingReview"]) :
          Start(r, "confirm", "none", [out EXCEPT !.row.auto = "none"])
    BY <1>3 DEF ConfirmReceive
  <2>2. Good(out)
    BY <1>0, <1>1, ReleaseGood
  <2> DEFINE new == [out EXCEPT !.row.auto = "none"]
  <2>3. /\ new \in [row : OrderRow, transfer : TransferLedger, refund : RefundLedger]
        /\ new.transfer = out.transfer /\ new.refund = out.refund
        /\ new.row = [out.row EXCEPT !.auto = "none"]
    BY <2>2 DEF Good, OrderRow
  <2>4. Good(new)
    BY <2>2, <2>3 DEF Good, Backed, OrderRow
  <2> QED
    BY <2>1, <2>4, StartStep
<1>4. CASE AutoConfirm(r)
  <2>1. PICK out \in ReleaseOutcomes([order EXCEPT !.status = "pendingReview"]) :
          Start(r, "auto", "none", out)
    BY <1>4 DEF AutoConfirm
  <2> QED
    BY <1>0, <1>1, <2>1, ReleaseGood, StartStep
<1>5. CASE RequestRefund(r)
  <2> DEFINE row == [order EXCEPT !.status = "refundInProgress", !.paused = TRUE,
                                  !.dispute = "refund_requested"]
  <2>1. row \in OrderRow
    BY <1>0 DEF OrderRow, OrderStatus
  <2>2. Good(NoCall(row))
    BY <1>0, <2>1, LocalGood DEF OrderRow
  <2> QED
    BY <1>5, <2>2, StartStep DEF RequestRefund
<1>6. ASSUME NEW who \in Party, SubmitReview(r, who) PROVE IInv'
  <2>1. PICK out \in IF LastReview(who)
                     THEN ReleaseOutcomes([order EXCEPT !.status = "completed"])
                     ELSE {NoCall(order)} :
          Start(r, "review", who, out)
    BY <1>6 DEF SubmitReview
  <2>2. Good(out)
    BY <1>0, <1>1, <2>1, ReleaseGood, NoCallGood
  <2> QED
    BY <2>1, <2>2, StartStep
<1>7. ASSUME NEW n \in 1..MaxRefund, RefundEvent(r, n) PROVE IInv'
  <2>1. PICK s \in refund[n] :
          Start(r, "event", "none", NoCall(Decided(Applied(order, s), s)))
    BY <1>7 DEF RefundEvent
  <2>2. s \in RefundState /\ (s = "succeeded" => ReturnedIn(refund))
    BY <1>0 DEF TypeOK, ReturnedIn
  <2>3. /\ Decided(Applied(order, s), s) \in OrderRow
        /\ Backed(Decided(Applied(order, s), s), transfer, refund)
    BY <1>0, <2>2, AppliedGood, DecidedGood
  <2> QED
    BY <1>0, <2>1, <2>3, NoCallGood, StartStep
<1>8. CASE PausePayout(r)
  <2> DEFINE row == [order EXCEPT !.paused = TRUE,
                       !.payout = IF @ \in {"released", "reversed"} THEN @ ELSE "blocked"]
  <2>1. row \in OrderRow
    BY <1>0 DEF OrderRow, PayoutStatus
  <2>2. Backed(row, transfer, refund)
    BY <1>0, <2>1 DEF OrderRow, Backed
  <2> QED
    BY <1>0, <1>8, <2>1, <2>2, NoCallGood, StartStep DEF PausePayout
<1>9. CASE ReleasePayout(r)
  BY <1>0, <1>9, ReleaseGood, StartStep DEF ReleasePayout
<1>10. InDecision \in OrderRow /\ Backed(InDecision, transfer, refund)
  <2>1. InDecision \in OrderRow
    BY <1>0 DEF InDecision, OrderRow
  <2> QED
    BY <1>0, <2>1 DEF InDecision, OrderRow, Backed
<1>11. CASE ResolveRefund(r)
  <2>1. PICK rev \in ReverseOutcomes(InDecision) :
          \/ Raise(r, "resolve", rev)
          \/ \E out \in RefundOutcomes(rev) :
               Start(r, "resolve", "none",
                     [out EXCEPT !.row = Decided(@, IF Returned(@) THEN "succeeded"
                                                    ELSE "pending")])
          \/ \E out \in RefusedOutcomes(rev) : Raise(r, "resolve", out)
    BY <1>11 DEF ResolveRefund
  <2>2. Good(rev) /\ rev.refund = refund
    BY <1>0, <1>10, ReverseGood
  <2>3. \A out \in RefundOutcomes(rev) \cup RefusedOutcomes(rev) : Good(out)
    BY <1>0, <2>2, RefundGood
  <2>4. ASSUME NEW out \in RefundOutcomes(rev),
               Start(r, "resolve", "none",
                     [out EXCEPT !.row = Decided(@, IF Returned(@) THEN "succeeded"
                                                    ELSE "pending")])
        PROVE  IInv'
    <3> DEFINE s == IF Returned(out.row) THEN "succeeded" ELSE "pending"
               new == [out EXCEPT !.row = Decided(@, IF Returned(@) THEN "succeeded"
                                                     ELSE "pending")]
    <3>1. Good(out)
      BY <2>3
    <3>2. s \in RefundState /\ (s = "succeeded" => ReturnedIn(out.refund))
      BY <3>1 DEF RefundState, Returned, Good, Backed
    <3>3. Decided(out.row, s) \in OrderRow
          /\ Backed(Decided(out.row, s), out.transfer, out.refund)
      BY <3>1, <3>2, DecidedGood DEF Good
    <3>4. new = [out EXCEPT !.row = Decided(out.row, s)]
      OBVIOUS
    <3>5. Good(new)
      BY <3>1, <3>3, <3>4 DEF Good
    <3> QED
      BY <2>4, <3>5, StartStep
  <2> QED
    BY <2>1, <2>2, <2>3, <2>4, RaiseStep
<1>12. CASE ResolveComplete(r)
  <2> DEFINE row == [InDecision EXCEPT !.status = "completed", !.paused = FALSE]
  <2>1. row \in OrderRow
    BY <1>10 DEF OrderRow, OrderStatus
  <2>2. Backed(row, transfer, refund)
    BY <1>10, <2>1 DEF OrderRow, Backed
  <2>3. PICK out \in ReleaseOutcomes(row) :
          Start(r, "resolve", "none", out) \/ Raise(r, "resolve", out)
    BY <1>12 DEF ResolveComplete
  <2>4. Good(out)
    BY <1>0, <2>1, <2>2, ReleaseGood
  <2> QED
    BY <2>3, <2>4, StartStep, RaiseStep
<1> QED
  BY <1>2, <1>3, <1>4, <1>5, <1>6, <1>7, <1>8, <1>9, <1>11, <1>12 DEF Begin

\* A commit mixes the row with the request's copy; both are backed.
LEMMA FinishStep == ASSUME IInv, NEW r \in Request, Finish(r) PROVE IInv'
<1>1. /\ order' = Merge(order, req[r].row, req[r].new)
      /\ review' = IF req[r].op = "review" THEN review \cup {req[r].who} ELSE review
      /\ req' = [req EXCEPT ![r] = Idle]
      /\ rail' = rail /\ transfer' = transfer /\ refund' = refund
      /\ req[r].op = "review" => req[r].who \notin review
  BY DEF Finish, provider
<1>2. order \in OrderRow /\ req[r].row \in OrderRow /\ req[r].new \in OrderRow
  BY DEF IInv, TypeOK
<1>3. order' \in OrderRow
  BY <1>1, <1>2 DEF Merge, Put, OrderRow
<1>4. /\ order'.payout \in {order.payout, req[r].new.payout}
      /\ order'.status \in {order.status, req[r].new.status}
      /\ order'.payment \in {order.payment, req[r].new.payment}
      /\ order'.refund \in {order.refund, req[r].new.refund}
  BY <1>1 DEF Merge, Put
<1>5. Backed(order', transfer', refund')
  BY <1>1, <1>4 DEF IInv, Backed
<1>6. Idle.new = Paid("pendingShip") /\ Backed(Idle.new, transfer, refund)
  BY DEF Idle, Paid, Backed
<1>7. \A p \in Request :
        /\ req'[p].new = IF p = r THEN Idle.new ELSE req[p].new
        /\ req'[p].op = IF p = r THEN Idle.op ELSE req[p].op
        /\ req'[p].who = IF p = r THEN Idle.who ELSE req[p].who
  BY <1>1 DEF IInv, TypeOK
<1>8. TypeOK'
  <2>1. Paid("pendingShip") \in OrderRow
    BY BoundAssumption DEF Paid, OrderRow, OrderStatus, PayoutStatus, RefundStatus
  <2>2. Idle \in [op : RequestOp, who : Party \cup {"none"}, row : OrderRow, new : OrderRow]
    BY <2>1 DEF Idle, RequestOp
  <2>3. review' \subseteq Party
    BY <1>1 DEF IInv, TypeOK, Party
  <2> QED
    BY <1>1, <1>3, <2>2, <2>3 DEF IInv, TypeOK
<1> QED
  BY <1>1, <1>5, <1>6, <1>7, <1>8 DEF IInv, Idle, Backed, BorneOut

\* What happens outside requests: the ledgers only grow, a deadline is no claim.
LEMMA WorldStep ==
  ASSUME IInv,
         \/ \E r \in Request : Abandon(r)
         \/ \E n \in 1..MaxTransfer : TransferSettles(n)
         \/ \E n \in 1..MaxRefund : RefundSettles(n)
         \/ DeadlinePasses
         \/ UNCHANGED vars
  PROVE  IInv'
<1> USE DEF provider
<1>1. ASSUME NEW r \in Request, Abandon(r) PROVE IInv'
  <2>1. Idle.new = Paid("pendingShip") /\ Backed(Idle.new, transfer, refund)
    BY DEF Idle, Paid, Backed
  <2>2. Paid("pendingShip") \in OrderRow
    BY BoundAssumption DEF Paid, OrderRow, OrderStatus, PayoutStatus, RefundStatus
  <2>3. Idle \in [op : RequestOp, who : Party \cup {"none"}, row : OrderRow, new : OrderRow]
    BY <2>2 DEF Idle, RequestOp
  <2>4. /\ order' = order /\ review' = review /\ rail' = rail
        /\ transfer' = transfer /\ refund' = refund
        /\ req' = [req EXCEPT ![r] = Idle]
    BY <1>1 DEF Abandon
  <2>5. TypeOK'
    BY <2>3, <2>4 DEF IInv, TypeOK
  <2>6. \A p \in Request : req'[p] = IF p = r THEN Idle ELSE req[p]
    BY <2>4 DEF IInv, TypeOK
  <2>7. Idle.op # "review"
    BY DEF Idle
  <2> QED
    BY <2>1, <2>4, <2>5, <2>6, <2>7 DEF IInv, Backed, BorneOut
<1>2. ASSUME NEW n \in 1..MaxTransfer, TransferSettles(n) PROVE IInv'
  <2>1. PICK s \in {"paid", "failed", "reversed"} : transfer' = [transfer EXCEPT ![n] = s]
    BY <1>2 DEF TransferSettles
  <2>2. transfer[n] = "pending" /\ UNCHANGED <<order, review, rail, refund, req>>
    BY <1>2 DEF TransferSettles
  <2>3. TypeOK'
    BY <2>1, <2>2 DEF IInv, TypeOK, TransferState
  <2>4. \A m \in 1..MaxTransfer : m # n => transfer'[m] = transfer[m]
    BY <2>1 DEF IInv, TypeOK
  <2>5. BorneOut(transfer) => BorneOut(transfer')
    BY <2>1, <2>2, <2>4 DEF BorneOut, AcceptedIn, PaidIn, IInv, TypeOK
  <2>6. \A row : Backed(row, transfer, refund) => Backed(row, transfer', refund')
    BY <2>2, <2>5 DEF Backed
  <2> QED
    BY <2>2, <2>3, <2>6 DEF IInv, Backed, BorneOut
<1>3. ASSUME NEW n \in 1..MaxRefund, RefundSettles(n) PROVE IInv'
  <2>1. PICK s \in {"succeeded", "failed"} :
          refund' = [refund EXCEPT ![n] = @ \cup {s}]
    BY <1>3 DEF RefundSettles
  <2>2. UNCHANGED <<order, review, rail, transfer, req>>
    BY <1>3 DEF RefundSettles
  <2>3. TypeOK'
    BY <2>1, <2>2 DEF IInv, TypeOK, RefundState
  <2>4. \A m \in 1..MaxRefund : refund[m] \subseteq refund'[m]
    BY <2>1 DEF IInv, TypeOK
  <2>5. ReturnedIn(refund) => ReturnedIn(refund')
    BY <2>4 DEF ReturnedIn
  <2>6. \A row : Backed(row, transfer, refund) => Backed(row, transfer', refund')
    BY <2>2, <2>5 DEF Backed
  <2> QED
    BY <2>2, <2>3, <2>6 DEF IInv, Backed, BorneOut
<1>4. CASE DeadlinePasses
  <2>1. /\ order' = [order EXCEPT !.auto = "passed"]
        /\ UNCHANGED <<review, rail, transfer, refund, req>>
    BY <1>4 DEF DeadlinePasses
  <2>2. order' \in OrderRow
    BY <2>1 DEF IInv, TypeOK, OrderRow
  <2>3. Backed(order', transfer, refund)
    BY <2>1 DEF IInv, TypeOK, OrderRow, Backed
  <2> QED
    BY <2>1, <2>2, <2>3 DEF IInv, TypeOK, Backed, BorneOut
<1>5. CASE UNCHANGED vars
  BY <1>5 DEF vars, IInv, TypeOK, Backed, BorneOut
<1> QED
  BY <1>1, <1>2, <1>3, <1>4, <1>5

LEMMA InitIInv == Init => IInv
<1> SUFFICES ASSUME Init PROVE IInv
  OBVIOUS
<1>1. \A status \in {"pendingShip", "pendingService", "inDispute"} :
        Paid(status) \in OrderRow /\ Backed(Paid(status), transfer, refund)
  BY BoundAssumption
     DEF Paid, OrderRow, OrderStatus, PayoutStatus, RefundStatus, Backed
<1>2. Conflict \in OrderRow /\ Backed(Conflict, transfer, refund)
  <2>1. Paid("inDispute") \in OrderRow /\ Backed(Paid("inDispute"), transfer, refund)
    BY <1>1
  <2> QED
    BY <2>1 DEF Conflict, OrderRow, Backed
<1>3. order \in OrderRow /\ Backed(order, transfer, refund)
  BY <1>1, <1>2 DEF Init
<1>4. Idle \in [op : RequestOp, who : Party \cup {"none"}, row : OrderRow, new : OrderRow]
      /\ Idle.new = Paid("pendingShip") /\ Idle.op # "review"
  BY <1>1 DEF Idle, RequestOp
<1>5. TypeOK
  BY <1>3, <1>4 DEF Init, TypeOK, TransferState
<1> QED
  BY <1>1, <1>3, <1>4, <1>5 DEF Init, IInv

LEMMA IInvStep == IInv /\ [Next]_vars => IInv'
  BY BeginStep, FinishStep, WorldStep DEF Next

LEMMA Inductive == Spec => []IInv
<1>1. Init => IInv
  BY InitIInv
<1>2. IInv /\ [Next]_vars => IInv'
  BY IInvStep
<1> QED
  BY <1>1, <1>2, PTL DEF Spec

-----------------------------------------------------------------------------
\* Every request, however stale its copy, commits a well-typed order (payout,
\* refund and dispute columns of orders).
THEOREM TypeCorrect == Spec => []TypeOK
<1>1. IInv => TypeOK
  BY DEF IInv
<1> QED
  BY <1>1, Inductive, PTL

\* A payout is recorded as released only after the provider has paid a transfer
\* of this order (_set_released).
THEOREM ReleasedOnlyWhenPaid == Spec => []ReleasedWasPaid
<1>1. IInv => ReleasedWasPaid
  BY DEF IInv, Backed, BorneOut, ReleasedWasPaid
<1> QED
  BY <1>1, Inductive, PTL

\* An order, its payment or its refund is recorded as returned only after the
\* provider has returned the money (_set_refunded).
THEOREM RefundedOnlyWhenReturned == Spec => []RefundedWasReturned
<1>1. IInv => RefundedWasReturned
  BY DEF IInv, Backed, RefundedWasReturned
<1> QED
  BY <1>1, Inductive, PTL

-----------------------------------------------------------------------------
\* One request at a time.  A request that calls the provider and commits later
\* may meet another that has read the same row, a lost answer or an old event;
\* where it does not, the ledgers and the row agree whenever nothing is open,
\* and an open request has read the row that its commit changes.
\* One request at a time, no call or commit lost, and no event out of date.
OneAtATime == /\ \A r \in Request, s \in Request : r = s
              /\ "lost" \notin Op /\ "late" \notin Op

\* The provider's ledgers: a batch id is used once, a Stripe transfer is paid at once
\* and one at most is kept; a refund follows only failed ones, and ends once.
Ledgers(tr, rf) ==
    /\ rail # "stripe" => \A n \in 1..MaxTransfer : n # 1 => tr[n] = "none"
    /\ rail = "stripe" =>
           /\ \A n \in 1..MaxTransfer : tr[n] # "pending"
           /\ \A m \in 1..MaxTransfer, n \in 1..MaxTransfer :
                  tr[m] = "paid" /\ tr[n] = "paid" => m = n
    /\ \A m \in 1..MaxRefund, n \in 1..MaxRefund :
           m < n /\ rf[n] # {} => "failed" \in rf[m]
    /\ \A n \in 1..MaxRefund : ~({"succeeded", "failed"} \subseteq rf[n])

\* What the row says of refunds: none only when none is under way or made.
RefundKnown(row, rf) ==
    /\ row.refund = "succeeded" => row.payment = "refunded"
    /\ row.payment = "refunded" => row.refund # "none"
    /\ \A n \in 1..MaxRefund : rf[n] # {} /\ "failed" \notin rf[n] => row.refund # "none"

\* What it says of transfers: one that Stripe has paid is recorded as released,
\* unless the buyer is refunded.
TransferKnown(row, tr) ==
    rail = "stripe" => \A n \in 1..MaxTransfer :
        tr[n] = "paid" => \/ row.payout = "released" /\ row.payRef = n
                          \/ row.refund # "none"

\* Reviews come after receipt, and the second one completes the order.
Reviewed(row, who) ==
    /\ who # {} => row.status \notin {"pendingShip", "pendingService", "pendingReceive"}
    /\ who = Party => row.status # "pendingReview"

\* The request has read the row as it is, but for a deadline that passes; what it is
\* about to commit knows the ledgers.
Progress(q) ==
    /\ order.status = q.row.status /\ order.payment = q.row.payment
    /\ order.refund = q.row.refund /\ order.payout = q.row.payout
    /\ order.payRef = q.row.payRef /\ order.paused = q.row.paused
    /\ order.dispute = q.row.dispute
    /\ RefundKnown(q.new, refund) /\ TransferKnown(q.new, transfer)
    /\ q.row.status = "refunded" => q.new.status = "refunded"
    /\ Reviewed(q.new, IF q.op = "review" THEN review \cup {q.who} ELSE review)

SerialInv ==
    /\ Ledgers(transfer, refund)
    /\ Reviewed(order, review)
    /\ (\A r \in Request : req[r] = Idle) =>
           RefundKnown(order, refund) /\ TransferKnown(order, transfer)
    /\ \A r \in Request : req[r] # Idle => Progress(req[r])

\* A new transfer is sent.
Sent(tr) == \E n \in 1..MaxTransfer : transfer[n] = "none" /\ tr[n] # "none"

\* No refund is under way or made.
NoneOwed == \A n \in 1..MaxRefund :
    refund[n] \cap {"pending", "succeeded"} # {} => "failed" \in refund[n]

\* Money is sent for a row only when nothing withholds it, whatever runs at the same
\* time.
LEMMA SentWhenDue ==
  ASSUME TypeOK, NEW row \in OrderRow, NEW out \in ReleaseOutcomes(row), Sent(out.transfer)
  PROVE  ~Withheld(row) /\ row.refund \notin {"pending", "failed"}
<1>1. \A w : NoCall(w).transfer = transfer
  BY DEF NoCall, Outcome
<1>2. out.transfer # transfer
  BY DEF Sent
<1>3. ~\E w : out = NoCall(w)
  BY <1>1, <1>2
<1>4. out \notin SyncOutcomes(row)
  BY <1>3 DEF SyncOutcomes
<1> QED
  BY <1>3, <1>4 DEF ReleaseOutcomes

\* The row of a release keeps its columns but those of the payout.
LEMMA PayoutColumns ==
  ASSUME NEW row \in OrderRow, NEW p \in PayoutStatus, NEW n \in 0..MaxTransfer
  PROVE  /\ [row EXCEPT !.payout = p].status = row.status
         /\ [row EXCEPT !.payout = p].payment = row.payment
         /\ [row EXCEPT !.payout = p].refund = row.refund
         /\ [row EXCEPT !.payout = p].payRef = row.payRef
         /\ [row EXCEPT !.payout = p].payout = p
         /\ [row EXCEPT !.payout = p, !.payRef = n].status = row.status
         /\ [row EXCEPT !.payout = p, !.payRef = n].payment = row.payment
         /\ [row EXCEPT !.payout = p, !.payRef = n].refund = row.refund
         /\ [row EXCEPT !.payout = p, !.payRef = n].payRef = n
         /\ [row EXCEPT !.payout = p, !.payRef = n].payout = p
<1>1. PICK a : a = [row EXCEPT !.payout = p]
  OBVIOUS
<1>2. /\ a \in OrderRow /\ a.status = row.status /\ a.payment = row.payment
      /\ a.refund = row.refund /\ a.payRef = row.payRef /\ a.payout = p
  BY <1>1 DEF OrderRow
<1>3. [row EXCEPT !.payout = p, !.payRef = n] = [a EXCEPT !.payRef = n]
  BY <1>1
<1>4. PICK b : b = [a EXCEPT !.payRef = n]
  OBVIOUS
<1>5. /\ b.status = a.status /\ b.payment = a.payment
      /\ b.refund = a.refund /\ b.payRef = n /\ b.payout = p
  BY <1>2, <1>4 DEF OrderRow
<1> QED
  BY <1>1, <1>2, <1>3, <1>4, <1>5

LEMMA AnsweredColumns ==
  ASSUME NEW row \in OrderRow, NEW n \in 1..MaxTransfer, NEW s \in TransferState \ {"none"},
         NEW a \in Answered(row, n, s)
  PROVE  /\ a.status = row.status /\ a.payment = row.payment /\ a.refund = row.refund
         /\ s = "paid" => a.payout = "released" /\ a.payRef = n
<1>1. n \in 0..MaxTransfer
  BY BoundAssumption
<1>2. PICK p \in Recorded(s) : a = [row EXCEPT !.payout = p, !.payRef = n]
  BY DEF Answered
<1>3. p \in PayoutStatus /\ (s = "paid" => p = "released")
  <2>1. rail = "delayed" => p = "released"
    BY DEF Recorded
  <2>2. rail # "delayed" /\ s = "paid" => p = "released"
    BY DEF Recorded
  <2>3. rail # "delayed" /\ s = "pending" => p \in {"processing", "blocked"}
    BY DEF Recorded
  <2>4. rail # "delayed" /\ s = "failed" => p \in {"failed", "released"}
    BY DEF Recorded
  <2>5. rail # "delayed" /\ s = "reversed" => p = "reversed"
    BY DEF Recorded
  <2> QED
    BY <2>1, <2>2, <2>3, <2>4, <2>5 DEF TransferState, PayoutStatus
<1> QED
  BY <1>1, <1>2, <1>3, PayoutColumns


\* The copy of a request knows what is to be known of the ledgers.
Knows(row, tr, rf) == Ledgers(tr, rf) /\ RefundKnown(row, rf) /\ TransferKnown(row, tr)

\* A payout is given up where none is recorded, or where the buyer is refunded.
LEMMA GivenUpKnows ==
  ASSUME NEW row \in OrderRow, Knows(row, transfer, refund),
         \/ rail # "stripe" \/ row.refund # "none" \/ row.payout # "released" \/ row.payRef = 0,
         NEW out \in {NoCall(Blocked(row)), NoCall(Failed(row))}
  PROVE  /\ out.refund = refund /\ out.transfer = transfer
         /\ Knows(out.row, transfer, refund)
         /\ out.row.status = row.status /\ out.row.refund = row.refund
<1>1. PICK p \in {"blocked", "failed"} : out = NoCall([row EXCEPT !.payout = p])
  BY DEF Blocked, Failed
<1>2. /\ out.refund = refund /\ out.transfer = transfer /\ out.row = [row EXCEPT !.payout = p]
  BY <1>1 DEF NoCall, Outcome
<1>3. p \in PayoutStatus /\ 0 \in 0..MaxTransfer
  BY BoundAssumption DEF PayoutStatus
<1>4. /\ out.row.status = row.status /\ out.row.payment = row.payment
      /\ out.row.refund = row.refund
  BY <1>2, <1>3, PayoutColumns
<1>5. TransferKnown(out.row, transfer)
  <2>1. rail = "stripe" => \A n \in 1..MaxTransfer : transfer[n] = "paid" => row.refund # "none"
    <3> SUFFICES ASSUME rail = "stripe", NEW n \in 1..MaxTransfer, transfer[n] = "paid"
                 PROVE  row.refund # "none"
      OBVIOUS
    <3>1. n # 0
      OBVIOUS
    <3> QED
      BY <3>1 DEF Knows, TransferKnown
  <2> QED
    BY <1>4, <2>1 DEF TransferKnown
<1>6. RefundKnown(out.row, refund)
  BY <1>4 DEF Knows, RefundKnown
<1> QED
  BY <1>2, <1>4, <1>5, <1>6 DEF Knows

\* Money is sent while no refund is owed, and the copy says so.
LEMMA PayKnows ==
  ASSUME TypeOK, "lost" \notin Op, NEW row \in OrderRow, Knows(row, transfer, refund),
         row.refund = "none", row.payout # "released" \/ row.payRef = 0,
         NEW out \in PayOutcomes(row)
  PROVE  /\ out.refund = refund /\ Knows(out.row, out.transfer, refund)
         /\ out.row.status = row.status /\ out.row.refund = row.refund
<1>2. CASE out \in {NoCall(Blocked(row)), NoCall(Failed(row))}
  BY <1>2, GivenUpKnows
<1>3. ASSUME NEW n \in FreshTransfer, NEW s \in FirstState, NEW a \in Answered(row, n, s),
             out = Outcome(a, [transfer EXCEPT ![n] = s], refund)
      PROVE  /\ out.refund = refund /\ Knows(out.row, out.transfer, refund)
             /\ out.row.status = row.status /\ out.row.refund = row.refund
  <2>1. /\ n \in 1..MaxTransfer /\ transfer[n] = "none" /\ (rail # "stripe" => n = 1)
        /\ s \in TransferState \ {"none"} /\ (rail = "stripe" => s = "paid")
    BY DEF FreshTransfer, FirstState, TransferState
  <2>2. /\ a.status = row.status /\ a.payment = row.payment /\ a.refund = row.refund
        /\ s = "paid" => a.payout = "released" /\ a.payRef = n
    BY <2>1, AnsweredColumns
  <2>3. /\ out.row = a /\ out.refund = refund /\ out.transfer = [transfer EXCEPT ![n] = s]
    BY <1>3 DEF Outcome
  <2>4. \A m \in 1..MaxTransfer : out.transfer[m] = IF m = n THEN s ELSE transfer[m]
    BY <2>1, <2>3 DEF TypeOK
  <2>5. rail = "stripe" => \A m \in 1..MaxTransfer : transfer[m] # "paid"
    BY DEF Knows, TransferKnown
  <2>6. Ledgers(out.transfer, refund)
    <3>1. rail # "stripe" => \A m \in 1..MaxTransfer : m # 1 => out.transfer[m] = "none"
      BY <2>1, <2>4 DEF Knows, Ledgers
    <3>2. rail = "stripe" =>
           /\ \A m \in 1..MaxTransfer : out.transfer[m] # "pending"
           /\ \A m \in 1..MaxTransfer, k \in 1..MaxTransfer :
                  out.transfer[m] = "paid" /\ out.transfer[k] = "paid" => m = k
      BY <2>1, <2>4, <2>5 DEF Knows, Ledgers
    <3> QED
      BY <3>1, <3>2 DEF Knows, Ledgers
  <2>7. RefundKnown(out.row, refund)
    BY <2>2, <2>3 DEF Knows, RefundKnown
  <2>8. TransferKnown(out.row, out.transfer)
    BY <2>1, <2>2, <2>3, <2>4, <2>5 DEF TransferKnown
  <2> QED
    BY <2>2, <2>3, <2>6, <2>7, <2>8 DEF Knows
<1>4. ASSUME rail # "stripe", 1 \in 1..MaxTransfer, transfer[1] # "none",
             NEW a \in Answered(row, 1, transfer[1]), out = NoCall(a)
      PROVE  /\ out.refund = refund /\ Knows(out.row, out.transfer, refund)
             /\ out.row.status = row.status /\ out.row.refund = row.refund
  <2>1. transfer[1] \in TransferState \ {"none"}
    BY <1>4 DEF TypeOK
  <2>2. a.status = row.status /\ a.payment = row.payment /\ a.refund = row.refund
    BY <1>4, <2>1, AnsweredColumns
  <2>3. out.row = a /\ out.refund = refund /\ out.transfer = transfer
    BY <1>4 DEF NoCall, Outcome
  <2> QED
    BY <1>4, <2>2, <2>3 DEF Knows, RefundKnown, TransferKnown
<1>5. CASE out \in NewTransfer(row)
  <2>1. PICK n \in FreshTransfer, s \in FirstState :
          out \in {Outcome(a, [transfer EXCEPT ![n] = s], refund) :
                     a \in Answered(row, n, s) \cup LostAnswer(row)}
    BY <1>5 DEF NewTransfer
  <2>2. LostAnswer(row) = {}
    BY DEF LostAnswer
  <2> QED
    BY <1>3, <2>1, <2>2
<1>6. CASE out \in SameTransfer(row)
  BY <1>4, <1>6, BoundAssumption DEF SameTransfer
<1> QED
  BY <1>2, <1>5, <1>6 DEF PayOutcomes

\* The outcomes of a release, when requests come one at a time.
LEMMA ReleaseKnows ==
  ASSUME TypeOK, "lost" \notin Op, NEW row \in OrderRow, Knows(row, transfer, refund),
         NEW out \in ReleaseOutcomes(row)
  PROVE  /\ out.refund = refund /\ Knows(out.row, out.transfer, refund)
         /\ out.row.status = row.status /\ out.row.refund = row.refund
         /\ Sent(out.transfer) => NoneOwed
<1> USE RailAssumption, BoundAssumption
<1>1. row.refund \in RefundStatus
  BY DEF TypeOK, OrderRow
<1>2. Sent(out.transfer) => NoneOwed
  <2> SUFFICES ASSUME Sent(out.transfer), NEW n \in 1..MaxRefund, refund[n] # {}
               PROVE  "failed" \in refund[n]
    BY DEF NoneOwed
  <2>1. row.payment = "succeeded" /\ row.refund \notin {"pending", "failed"}
    BY SentWhenDue DEF Withheld
  <2>2. row.refund = "none"
    BY <1>1, <2>1 DEF Knows, RefundKnown, RefundStatus
  <2> QED
    BY <2>2 DEF Knows, RefundKnown
<1>3. CASE out = NoCall(row)
  BY <1>2, <1>3 DEF NoCall, Outcome
<1>4. CASE out \in {NoCall(Blocked(row)), NoCall(Failed(row))}
           /\ (rail # "stripe" \/ row.refund # "none" \/ row.payout # "released" \/ row.payRef = 0)
  BY <1>1, <1>2, <1>4, GivenUpKnows
<1>5. CASE rail # "stripe" /\ out \in SyncOutcomes(row)
  <2>1. CASE out \in {NoCall(Blocked(row)), NoCall(Failed(row))}
    BY <1>4, <1>5, <2>1
  <2>2. CASE row.payRef # 0 /\ transfer[row.payRef] # "none"
             /\ \E a \in Answered(row, row.payRef, transfer[row.payRef]) : out = NoCall(a)
    <3>1. PICK a \in Answered(row, row.payRef, transfer[row.payRef]) : out = NoCall(a)
      BY <2>2
    <3>2. row.payRef \in 1..MaxTransfer
      BY <2>2 DEF OrderRow
    <3>3. transfer[row.payRef] \in TransferState \ {"none"}
      BY <2>2, <3>2 DEF TypeOK
    <3>4. a.status = row.status /\ a.payment = row.payment /\ a.refund = row.refund
      BY <3>2, <3>3, AnsweredColumns
    <3>5. out.row = a /\ out.refund = refund /\ out.transfer = transfer
      BY <3>1 DEF NoCall, Outcome
    <3> QED
      BY <1>2, <1>5, <3>4, <3>5 DEF Knows, RefundKnown, TransferKnown
  <2> QED
    BY <1>5, <2>1, <2>2 DEF SyncOutcomes
<1>6. CASE ~Withheld(row) /\ row.refund \notin {"pending", "failed"}
           /\ (row.payout # "released" \/ row.payRef = 0)
           /\ out \in PayOutcomes(row)
  <2>1. row.refund = "none"
    BY <1>1, <1>6 DEF Knows, RefundKnown, RefundStatus, Withheld
  <2> QED
    BY <1>2, <1>6, <2>1, PayKnows
<1> QED
  BY <1>3, <1>4, <1>5, <1>6 DEF ReleaseOutcomes

\* Taking a payout back sends nothing, and records that only for the buyer's sake.
LEMMA ReverseKnows ==
  ASSUME TypeOK, "lost" \notin Op, NEW row \in OrderRow, Knows(row, transfer, refund),
         NEW rev \in ReverseOutcomes(row)
  PROVE  /\ rev.refund = refund /\ Ledgers(rev.transfer, refund)
         /\ RefundKnown(rev.row, refund) /\ ~Sent(rev.transfer)
         /\ \A n \in 1..MaxTransfer : rev.transfer[n] = "paid" => transfer[n] = "paid"
<1>1. ASSUME NEW p \in PayoutStatus, rev.row = [row EXCEPT !.payout = p]
      PROVE  RefundKnown(rev.row, refund)
  <2>1. 0 \in 0..MaxTransfer
    BY BoundAssumption
  <2>2. rev.row.payment = row.payment /\ rev.row.refund = row.refund
    BY <1>1, <2>1, PayoutColumns
  <2> QED
    BY <2>2 DEF Knows, RefundKnown
<1>2. CASE rev \in {NoCall(row), NoCall(Blocked(row)), NoCall(Failed(row))}
  <2>1. rev.refund = refund /\ rev.transfer = transfer
    BY <1>2 DEF NoCall, Outcome
  <2>2. \/ rev.row = row \/ rev.row = [row EXCEPT !.payout = "blocked"]
        \/ rev.row = [row EXCEPT !.payout = "failed"]
    BY <1>2 DEF NoCall, Outcome, Blocked, Failed
  <2>3. RefundKnown(rev.row, refund)
    BY <1>1, <2>2 DEF PayoutStatus, Knows
  <2> QED
    BY <2>1, <2>3 DEF Knows, Sent
<1>3. CASE /\ row.payRef # 0 /\ transfer[row.payRef] = "paid"
           /\ rev = Outcome([row EXCEPT !.payout = "reversed"],
                            [transfer EXCEPT ![row.payRef] = "reversed"], refund)
  <2>1. row.payRef \in 1..MaxTransfer
    BY <1>3 DEF OrderRow
  <2>2. /\ rev.refund = refund /\ rev.row = [row EXCEPT !.payout = "reversed"]
        /\ rev.transfer = [transfer EXCEPT ![row.payRef] = "reversed"]
    BY <1>3 DEF Outcome
  <2>3. \A n \in 1..MaxTransfer :
          rev.transfer[n] = IF n = row.payRef THEN "reversed" ELSE transfer[n]
    BY <2>1, <2>2 DEF TypeOK
  <2>4. RefundKnown(rev.row, refund)
    BY <1>1, <2>2 DEF PayoutStatus
  <2>5. ~Sent(rev.transfer)
    BY <1>3, <2>3 DEF Sent
  <2>6. Ledgers(rev.transfer, refund)
    BY <1>3, <2>1, <2>3 DEF Knows, Ledgers
  <2> QED
    BY <2>2, <2>3, <2>4, <2>5, <2>6
<1> QED
  BY <1>2, <1>3 DEF ReverseOutcomes, LostAnswer

\* A fresh refund keeps the ledger in order.
LEMMA FreshLedger ==
  ASSUME TypeOK, NEW tr, Ledgers(tr, refund), NEW n \in FreshRefund, NEW s \in RefundState
  PROVE  /\ Ledgers(tr, [refund EXCEPT ![n] = {s}])
         /\ \A m \in 1..MaxRefund :
              [refund EXCEPT ![n] = {s}][m] = IF m = n THEN {s} ELSE refund[m]
<1>1. PICK rf : rf = [refund EXCEPT ![n] = {s}]
  OBVIOUS
<1>2. /\ n \in 1..MaxRefund /\ refund[n] = {}
      /\ \A m \in 1..(n - 1) : "failed" \in refund[m]
  BY DEF FreshRefund
<1>3. \A m \in 1..MaxRefund : rf[m] = IF m = n THEN {s} ELSE refund[m]
  BY <1>1, <1>2 DEF TypeOK
<1>4. ASSUME NEW m \in 1..MaxRefund, NEW k \in 1..MaxRefund, m < k, rf[k] # {}
      PROVE  "failed" \in rf[m]
  <2>1. CASE k = n
    <3>1. m \in 1..(n - 1) /\ m # n
      BY <1>4, <2>1
    <3> QED
      BY <1>2, <1>3, <3>1
  <2>2. CASE k # n
    <3>1. "failed" \in refund[m]
      BY <1>3, <1>4, <2>2 DEF Ledgers
    <3>2. m # n
      BY <1>2, <3>1
    <3> QED
      BY <1>3, <3>1, <3>2
  <2> QED
    BY <2>1, <2>2
<1>5. \A m \in 1..MaxRefund : ~({"succeeded", "failed"} \subseteq rf[m])
  BY <1>3 DEF Ledgers
<1> QED
  BY <1>1, <1>3, <1>4, <1>5 DEF Ledgers

\* What Applied and Decided write.
LEMMA AppliedColumns ==
  ASSUME NEW row \in OrderRow, NEW s \in RefundState
  PROVE  /\ Applied(row, s).refund = s
         /\ Applied(row, s).payment = IF s = "succeeded" THEN "refunded" ELSE row.payment
<1>1. CASE s = "succeeded"
  <2>1. Applied(row, s) = [row EXCEPT !.payment = "refunded", !.refund = "succeeded",
                                      !.payout = UnlessReleased(row, "reversed")]
    BY <1>1 DEF Applied
  <2> QED
    BY <1>1, <2>1 DEF OrderRow
<1>2. CASE s \in {"pending", "failed"}
  <2>1. Applied(row, s) = [row EXCEPT !.refund = s, !.paused = TRUE,
                                      !.payout = UnlessReleased(row, "blocked")]
    BY <1>2 DEF Applied
  <2> QED
    BY <1>2, <2>1 DEF OrderRow
<1> QED
  BY <1>1, <1>2 DEF RefundState

LEMMA DecidedColumns ==
  ASSUME NEW row \in OrderRow, NEW s \in RefundState
  PROVE  /\ Decided(row, s).refund = row.refund /\ Decided(row, s).payment = row.payment
         /\ Decided(row, s).status \in {"refunded", "refundInProgress", "inDispute"}
         /\ s = "succeeded" => Decided(row, s).status = "refunded"
<1>1. CASE s = "succeeded"
  <2>1. Decided(row, s) = [row EXCEPT !.status = "refunded", !.dispute = "resolved",
                                      !.paused = FALSE]
    BY <1>1 DEF Decided
  <2> QED
    BY <1>1, <2>1 DEF OrderRow
<1>2. CASE s = "pending"
  <2>1. Decided(row, s) = [row EXCEPT !.status = "refundInProgress",
                                      !.dispute = "refund_pending", !.paused = TRUE]
    BY <1>2 DEF Decided
  <2> QED
    BY <1>2, <2>1 DEF OrderRow
<1>3. CASE s = "failed"
  <2>1. Decided(row, s) = [row EXCEPT !.status = "inDispute", !.dispute = "refund_failed",
                                      !.paused = TRUE]
    BY <1>3 DEF Decided
  <2> QED
    BY <1>3, <2>1 DEF OrderRow
<1> QED
  BY <1>1, <1>2, <1>3 DEF RefundState

\* A refund that was asked for is known to the copy.
LEMMA RefundKnows ==
  ASSUME TypeOK, NEW rev, rev.row \in OrderRow, rev.refund = refund,
         Ledgers(rev.transfer, refund), RefundKnown(rev.row, refund),
         NEW out \in RefundOutcomes(rev)
  PROVE  /\ out.transfer = rev.transfer /\ Ledgers(out.transfer, out.refund)
         /\ RefundKnown(out.row, out.refund) /\ out.row.refund # "none"
<1>1. CASE Asked(rev.row)
  <2>1. out = rev
    BY <1>1 DEF RefundOutcomes
  <2> QED
    BY <1>1, <2>1 DEF Asked, Returned, RefundKnown
<1>2. CASE ~Asked(rev.row)
  <2>1. PICK n \in FreshRefund, s \in {"pending", "succeeded"} :
          out = Outcome(Applied(rev.row, s), rev.transfer, [refund EXCEPT ![n] = {s}])
    <3> DEFINE o(n, s) == Outcome(Applied(rev.row, s), rev.transfer,
                                  [refund EXCEPT ![n] = {s}])
    <3>1. RefundOutcomes(rev) =
            {o(n, s) : n \in FreshRefund, s \in {"pending", "succeeded"}}
      BY <1>2 DEF RefundOutcomes
    <3>2. PICK n \in FreshRefund, s \in {"pending", "succeeded"} : out = o(n, s)
      <4> HIDE DEF o
      <4> QED
        BY <3>1
    <3> QED
      BY <3>2
  <2>2. s \in RefundState
    BY DEF RefundState
  <2>3. /\ out.row = Applied(rev.row, s) /\ out.transfer = rev.transfer
        /\ out.refund = [refund EXCEPT ![n] = {s}]
    BY <2>1 DEF Outcome
  <2>4. Ledgers(rev.transfer, [refund EXCEPT ![n] = {s}])
    BY <2>2, FreshLedger
  <2>5. /\ out.row.refund = s
        /\ out.row.payment = IF s = "succeeded" THEN "refunded" ELSE rev.row.payment
    BY <2>2, <2>3, AppliedColumns
  <2>6. RefundKnown(out.row, out.refund)
    BY <2>5 DEF RefundKnown
  <2> QED
    BY <2>3, <2>4, <2>5, <2>6
<1> QED
  BY <1>1, <1>2

\* A refund that was refused leaves a failed one, or nothing.
LEMMA RefusedKnows ==
  ASSUME TypeOK, "lost" \notin Op, NEW rev, rev.refund = refund,
         Ledgers(rev.transfer, refund), NEW row, RefundKnown(row, refund),
         NEW out \in RefusedOutcomes(rev)
  PROVE  /\ out.transfer = rev.transfer /\ Ledgers(out.transfer, out.refund)
         /\ RefundKnown(row, out.refund)
<1>1. CASE out = rev
  BY <1>1
<1>2. CASE \E n \in FreshRefund :
             out = Outcome(rev.row, rev.transfer, [refund EXCEPT ![n] = {"failed"}])
  <2>1. PICK n \in FreshRefund :
             out = Outcome(rev.row, rev.transfer, [refund EXCEPT ![n] = {"failed"}])
    BY <1>2
  <2>2. "failed" \in RefundState
    BY DEF RefundState
  <2>3. out.transfer = rev.transfer /\ out.refund = [refund EXCEPT ![n] = {"failed"}]
    BY <2>1 DEF Outcome
  <2>4. /\ Ledgers(rev.transfer, [refund EXCEPT ![n] = {"failed"}])
        /\ \A m \in 1..MaxRefund :
             [refund EXCEPT ![n] = {"failed"}][m] = IF m = n THEN {"failed"} ELSE refund[m]
    BY <2>2, FreshLedger
  <2>5. RefundKnown(row, out.refund)
    BY <2>3, <2>4 DEF RefundKnown
  <2> QED
    BY <2>3, <2>4, <2>5
<1> DEFINE o(n, s) == Outcome(rev.row, rev.transfer, [refund EXCEPT ![n] = {s}])
<1>3. RefusedOutcomes(rev) = {rev} \cup {o(n, s) : n \in FreshRefund, s \in {"failed"}}
  BY DEF RefusedOutcomes, UnseenState
<1>4. out = rev \/ \E n \in FreshRefund : out = o(n, "failed")
  <2> HIDE DEF o
  <2> QED
    BY <1>3
<1> QED
  BY <1>1, <1>2, <1>4

\* A request that has read the order while nothing else is open.
LEMMA StartSerial ==
  ASSUME OneAtATime, IInv, SerialInv, NEW r \in Request, NEW op \in RequestOp \ {"idle"},
         NEW who \in Party \cup {"none"}, NEW out, Start(r, op, who, out),
         Knows(out.row, out.transfer, out.refund),
         order.status = "refunded" => out.row.status = "refunded",
         Reviewed(out.row, IF op = "review" THEN review \cup {who} ELSE review)
  PROVE  SerialInv'
<1>1. /\ order' = order /\ review' = review /\ rail' = rail
      /\ transfer' = out.transfer /\ refund' = out.refund
      /\ req' = [req EXCEPT ![r] = [op |-> op, who |-> who, row |-> order,
                                    new |-> out.row]]
  BY DEF Start
<1>2. /\ req'[r].op = op /\ req'[r].who = who /\ req'[r].row = order
      /\ req'[r].new = out.row
  BY <1>1 DEF IInv, TypeOK
<1>3. req'[r] # Idle
  BY <1>2 DEF Idle, RequestOp
<1>4. Ledgers(transfer, refund)'
  BY <1>1 DEF Knows, Ledgers
<1>5. Reviewed(order, review)'
  BY <1>1 DEF SerialInv, Reviewed
<1>6. Progress(req[r])'
  <2>1. RefundKnown(req[r].new, refund)'
    BY <1>1, <1>2 DEF Knows, RefundKnown
  <2>2. TransferKnown(req[r].new, transfer)'
    BY <1>1, <1>2 DEF Knows, TransferKnown
  <2>3. Reviewed(req[r].new, IF req[r].op = "review" THEN review \cup {req[r].who} ELSE review)'
    BY <1>1, <1>2 DEF Reviewed
  <2>4. order.status = "refunded" => req'[r].new.status = "refunded"
    BY <1>2
  <2> QED
    BY <1>1, <1>2, <2>1, <2>2, <2>3, <2>4 DEF Progress
<1>7. \A p \in Request : p = r
  BY DEF OneAtATime
<1> QED
  BY <1>3, <1>4, <1>5, <1>6, <1>7 DEF SerialInv

\* What an open request has read, it has read while nothing else was open.
LEMMA IdleKnows ==
  ASSUME OneAtATime, SerialInv, NEW r \in Request, req[r] = Idle
  PROVE  Knows(order, transfer, refund) /\ Reviewed(order, review)
<1>1. \A p \in Request : req[p] = Idle
  BY DEF OneAtATime
<1> QED
  BY <1>1 DEF SerialInv, Knows

LEMMA RaiseSerial ==
  ASSUME OneAtATime, IInv, SerialInv, NEW r \in Request, NEW op, NEW out,
         Raise(r, op, out), Knows(order, out.transfer, out.refund)
  PROVE  SerialInv'
<1>1. /\ req[r] = Idle /\ order' = order /\ review' = review /\ rail' = rail
      /\ req' = req /\ transfer' = out.transfer /\ refund' = out.refund
  BY DEF Raise
<1>2. \A p \in Request : req[p] = Idle
  BY <1>1 DEF OneAtATime
<1>3. Ledgers(transfer, refund)'
  BY <1>1 DEF Knows, Ledgers
<1>4. Reviewed(order, review)'
  BY <1>1 DEF SerialInv, Reviewed
<1>5. RefundKnown(order, refund)'
  BY <1>1 DEF Knows, RefundKnown
<1>6. TransferKnown(order, transfer)'
  BY <1>1 DEF Knows, TransferKnown
<1> QED
  BY <1>1, <1>2, <1>3, <1>4, <1>5, <1>6 DEF SerialInv

\* A row that differs from the order in columns that tell nothing of money.
LEMMA SameMoneyKnows ==
  ASSUME NEW row, NEW row2, NEW tr, NEW rf, Knows(row, tr, rf),
         row2.refund = row.refund, row2.payment = row.payment,
         row2.payout = row.payout, row2.payRef = row.payRef
  PROVE  Knows(row2, tr, rf)
  BY DEF Knows, RefundKnown, TransferKnown

\* A release that starts from such a row.
LEMMA ReleaseStarts ==
  ASSUME OneAtATime, IInv, SerialInv, NEW r \in Request, NEW row \in OrderRow,
         req[r] = Idle,
         row.refund = order.refund, row.payment = order.payment,
         row.payout = order.payout, row.payRef = order.payRef,
         NEW out \in ReleaseOutcomes(row)
  PROVE  /\ Knows(out.row, out.transfer, out.refund) /\ out.refund = refund
         /\ out.row.status = row.status /\ out.row.refund = row.refund
         /\ Sent(out.transfer) => NoneOwed
<1>1. Knows(order, transfer, refund)
  BY IdleKnows
<1>2. Knows(row, transfer, refund)
  BY <1>1, SameMoneyKnows
<1>3. TypeOK /\ "lost" \notin Op
  BY DEF IInv, OneAtATime
<1>4. /\ out.refund = refund /\ Knows(out.row, out.transfer, refund)
      /\ out.row.status = row.status /\ out.row.refund = row.refund
      /\ Sent(out.transfer) => NoneOwed
  BY <1>2, <1>3, ReleaseKnows
<1> QED
  BY <1>4

LEMMA RaiseSends ==
  ASSUME NEW r, NEW op, NEW out, Raise(r, op, out)
  PROVE  transfer' = out.transfer
  BY DEF Raise

LEMMA StartSends ==
  ASSUME NEW r, NEW op, NEW who, NEW out, Start(r, op, who, out)
  PROVE  transfer' = out.transfer /\ req[r] = Idle
  BY DEF Start

\* A step sends the seller money only while no refund is owed.
Heedful == Sent(transfer') => NoneOwed

LEMMA StartedRelease ==
  ASSUME OneAtATime, IInv, SerialInv, NEW r \in Request, NEW row \in OrderRow,
         row.refund = order.refund, row.payment = order.payment,
         row.payout = order.payout, row.payRef = order.payRef,
         NEW out \in ReleaseOutcomes(row),
         NEW op \in RequestOp \ {"idle"}, NEW who \in Party \cup {"none"},
         Start(r, op, who, out),
         order.status = "refunded" => row.status = "refunded",
         Reviewed(row, IF op = "review" THEN review \cup {who} ELSE review)
  PROVE  SerialInv' /\ Heedful
<1>1. req[r] = Idle /\ transfer' = out.transfer
  BY StartSends
<1>2. /\ Knows(out.row, out.transfer, out.refund) /\ out.row.status = row.status
      /\ Sent(out.transfer) => NoneOwed
  BY <1>1, ReleaseStarts
<1>3. Reviewed(out.row, IF op = "review" THEN review \cup {who} ELSE review)
  BY <1>2 DEF Reviewed
<1>4. order.status = "refunded" => out.row.status = "refunded"
  BY <1>2
<1>5. SerialInv'
  BY <1>2, <1>3, <1>4, StartSerial
<1> QED
  BY <1>1, <1>2, <1>5 DEF Heedful

\* A request that calls nobody.
LEMMA StartedLocal ==
  ASSUME OneAtATime, IInv, SerialInv, NEW r \in Request, NEW row,
         NEW op \in RequestOp \ {"idle"}, NEW who \in Party \cup {"none"},
         Start(r, op, who, NoCall(row)), Knows(row, transfer, refund),
         order.status = "refunded" => row.status = "refunded",
         Reviewed(row, IF op = "review" THEN review \cup {who} ELSE review)
  PROVE  SerialInv' /\ Heedful
<1>1. PICK out : out = NoCall(row)
  OBVIOUS
<1>2. out.row = row /\ out.transfer = transfer /\ out.refund = refund
  BY <1>1 DEF NoCall, Outcome
<1>3. Start(r, op, who, out)
  BY <1>1
<1>4. transfer' = transfer
  BY <1>2, <1>3, StartSends
<1>5. SerialInv'
  BY <1>2, <1>3, StartSerial
<1> QED
  BY <1>4, <1>5 DEF Heedful, Sent

\* A handler's copy of the order, column by column.
LEMMA OrderCopies ==
  ASSUME TypeOK
  PROVE  /\ LET row == [order EXCEPT !.status = "pendingReceive", !.auto = "set"]
            IN  row \in OrderRow /\ row.status = "pendingReceive" /\ row.refund = order.refund
                /\ row.payment = order.payment /\ row.payout = order.payout
                /\ row.payRef = order.payRef
         /\ \A status \in {"pendingReview", "completed"} :
              LET row == [order EXCEPT !.status = status]
              IN  row \in OrderRow /\ row.status = status /\ row.refund = order.refund
                  /\ row.payment = order.payment /\ row.payout = order.payout
                  /\ row.payRef = order.payRef /\ row.paused = order.paused
         /\ LET row == [order EXCEPT !.status = "refundInProgress", !.paused = TRUE,
                                     !.dispute = "refund_requested"]
            IN  row \in OrderRow /\ row.status = "refundInProgress"
                /\ row.refund = order.refund /\ row.payment = order.payment
                /\ row.payout = order.payout /\ row.payRef = order.payRef
         /\ /\ InDecision \in OrderRow /\ InDecision.status = order.status
            /\ InDecision.refund = order.refund /\ InDecision.payment = order.payment
            /\ InDecision.payout = order.payout /\ InDecision.payRef = order.payRef
<1>0. order \in OrderRow
  BY DEF TypeOK
<1>1. LET row == [order EXCEPT !.status = "pendingReceive", !.auto = "set"]
      IN  row \in OrderRow /\ row.status = "pendingReceive" /\ row.refund = order.refund
          /\ row.payment = order.payment /\ row.payout = order.payout
          /\ row.payRef = order.payRef
  BY <1>0 DEF OrderRow, OrderStatus
<1>2. ASSUME NEW status \in {"pendingReview", "completed"}
      PROVE  LET row == [order EXCEPT !.status = status]
             IN  row \in OrderRow /\ row.status = status /\ row.refund = order.refund
                 /\ row.payment = order.payment /\ row.payout = order.payout
                 /\ row.payRef = order.payRef /\ row.paused = order.paused
  BY <1>0 DEF OrderRow, OrderStatus
<1>3. LET row == [order EXCEPT !.status = "refundInProgress", !.paused = TRUE,
                               !.dispute = "refund_requested"]
      IN  row \in OrderRow /\ row.status = "refundInProgress"
          /\ row.refund = order.refund /\ row.payment = order.payment
          /\ row.payout = order.payout /\ row.payRef = order.payRef
  BY <1>0 DEF OrderRow, OrderStatus
<1>4. /\ InDecision \in OrderRow /\ InDecision.status = order.status
      /\ InDecision.refund = order.refund /\ InDecision.payment = order.payment
      /\ InDecision.payout = order.payout /\ InDecision.payRef = order.payRef
  BY <1>0 DEF InDecision, OrderRow
<1> QED
  BY <1>1, <1>2, <1>3, <1>4

\* What an administrator decides on for the seller.
SellerWins == [InDecision EXCEPT !.status = "completed", !.paused = FALSE]

LEMMA SellerWinsColumns ==
  ASSUME TypeOK
  PROVE  /\ SellerWins \in OrderRow /\ SellerWins.status = "completed"
         /\ SellerWins.refund = order.refund /\ SellerWins.payment = order.payment
         /\ SellerWins.payout = order.payout /\ SellerWins.payRef = order.payRef
<1>1. /\ InDecision \in OrderRow
      /\ InDecision.refund = order.refund /\ InDecision.payment = order.payment
      /\ InDecision.payout = order.payout /\ InDecision.payRef = order.payRef
  BY OrderCopies
<1> QED
  BY <1>1 DEF SellerWins, OrderRow, OrderStatus

\* Shipping, and asking for the money back.
LEMMA LocalSerial ==
  ASSUME OneAtATime, IInv, SerialInv, NEW r \in Request,
         Ship(r) \/ RequestRefund(r) \/ PausePayout(r)
  PROVE  SerialInv' /\ Heedful
<1>1. req[r] = Idle
  BY StartSends DEF Ship, RequestRefund, PausePayout
<1>2. Knows(order, transfer, refund) /\ Reviewed(order, review)
  BY <1>1, IdleKnows
<1>3. TypeOK /\ order \in OrderRow
  BY DEF IInv, TypeOK
<1>4. CASE Ship(r)
  <2>1. PICK row : row = [order EXCEPT !.status = "pendingReceive", !.auto = "set"]
    OBVIOUS
  <2>2. /\ row.status = "pendingReceive" /\ row.refund = order.refund
        /\ row.payment = order.payment /\ row.payout = order.payout
        /\ row.payRef = order.payRef
    BY <1>3, <2>1, OrderCopies
  <2>3. /\ order.status \in {"pendingShip", "pendingService"}
        /\ Start(r, "ship", "none", NoCall(row))
    BY <1>4, <2>1 DEF Ship
  <2>4. Knows(row, transfer, refund)
    BY <1>2, <2>2, SameMoneyKnows
  <2>5. Reviewed(row, review)
    BY <1>2, <2>2, <2>3 DEF Reviewed, Party
  <2>6. "ship" \in RequestOp \ {"idle"} /\ "none" \in Party \cup {"none"}
    BY DEF RequestOp
  <2> QED
    BY <2>2, <2>3, <2>4, <2>5, <2>6, StartedLocal
<1>5. CASE RequestRefund(r)
  <2>1. PICK row : row = [order EXCEPT !.status = "refundInProgress", !.paused = TRUE,
                                       !.dispute = "refund_requested"]
    OBVIOUS
  <2>2. /\ row.status = "refundInProgress" /\ row.refund = order.refund
        /\ row.payment = order.payment /\ row.payout = order.payout
        /\ row.payRef = order.payRef
    BY <1>3, <2>1, OrderCopies
  <2>3. /\ order.status # "refunded"
        /\ Start(r, "dispute", "none", NoCall(row))
    BY <1>5, <2>1 DEF RequestRefund
  <2>4. Knows(row, transfer, refund)
    BY <1>2, <2>2, SameMoneyKnows
  <2>5. Reviewed(row, review)
    BY <2>2 DEF Reviewed
  <2>6. "dispute" \in RequestOp \ {"idle"} /\ "none" \in Party \cup {"none"}
    BY DEF RequestOp
  <2> QED
    BY <2>3, <2>4, <2>5, <2>6, StartedLocal
<1>6. CASE PausePayout(r)
  <2>1. PICK row : row = [order EXCEPT !.paused = TRUE,
                            !.payout = IF @ \in {"released", "reversed"} THEN @ ELSE "blocked"]
    OBVIOUS
  <2>2. /\ row.status = order.status /\ row.refund = order.refund
        /\ row.payment = order.payment /\ row.payRef = order.payRef
        /\ order.payout = "released" => row.payout = "released"
    BY <1>3, <2>1 DEF OrderRow
  <2>3. Start(r, "pause", "none", NoCall(row))
    BY <1>6, <2>1 DEF PausePayout
  <2>4. Knows(row, transfer, refund)
    BY <1>2, <2>2 DEF Knows, RefundKnown, TransferKnown
  <2>5. Reviewed(row, review)
    BY <1>2, <2>2 DEF Reviewed
  <2>6. "pause" \in RequestOp \ {"idle"} /\ "none" \in Party \cup {"none"}
    BY DEF RequestOp
  <2> QED
    BY <2>2, <2>3, <2>4, <2>5, <2>6, StartedLocal
<1> QED
  BY <1>4, <1>5, <1>6

\* Receipt confirmed by the buyer or by the job, and the administrator's release.
LEMMA ReceiptSerial ==
  ASSUME OneAtATime, IInv, SerialInv, NEW r \in Request,
         ConfirmReceive(r) \/ AutoConfirm(r) \/ ReleasePayout(r)
  PROVE  SerialInv' /\ Heedful
<1>3. TypeOK /\ order \in OrderRow /\ Reviewed(order, review)
  BY DEF IInv, TypeOK, SerialInv
<1>4. PICK row : row = [order EXCEPT !.status = "pendingReview"]
  OBVIOUS
<1>5. /\ row \in OrderRow /\ row.status = "pendingReview" /\ row.refund = order.refund
      /\ row.payment = order.payment /\ row.payout = order.payout
      /\ row.payRef = order.payRef
  BY <1>3, <1>4, OrderCopies
<1>6. ASSUME order.status \in {"pendingReceive", "pendingService"}
      PROVE  Reviewed(row, review)
  BY <1>3, <1>5, <1>6 DEF Reviewed, Party
<1>7. /\ "confirm" \in RequestOp \ {"idle"} /\ "auto" \in RequestOp \ {"idle"}
      /\ "release" \in RequestOp \ {"idle"} /\ "none" \in Party \cup {"none"}
  BY DEF RequestOp
<1>8. CASE ConfirmReceive(r)
  <2>1. PICK out \in ReleaseOutcomes(row) :
          Start(r, "confirm", "none", [out EXCEPT !.row.auto = "none"])
    BY <1>4, <1>8 DEF ConfirmReceive
  <2>2. order.status \in {"pendingReceive", "pendingService"}
    BY <1>8 DEF ConfirmReceive
  <2>3. PICK new : new = [out EXCEPT !.row.auto = "none"]
    OBVIOUS
  <2>4. req[r] = Idle /\ transfer' = new.transfer /\ Start(r, "confirm", "none", new)
    BY <2>1, <2>3, StartSends
  <2>5. /\ Knows(out.row, out.transfer, out.refund) /\ out.row.status = row.status
        /\ Sent(out.transfer) => NoneOwed
    BY <1>5, <2>4, ReleaseStarts
  <2>6. out \in [row : OrderRow, transfer : TransferLedger, refund : RefundLedger]
    <3>1. Backed(row, transfer, refund)
      BY <1>5 DEF IInv, Backed
    <3> QED
      BY <1>3, <1>5, <3>1, ReleaseGood DEF Good
  <2>7. /\ new.row.status = out.row.status /\ new.row.refund = out.row.refund
        /\ new.row.payment = out.row.payment /\ new.row.payout = out.row.payout
        /\ new.row.payRef = out.row.payRef
        /\ new.transfer = out.transfer /\ new.refund = out.refund
    BY <2>3, <2>6 DEF OrderRow
  <2>8. Knows(new.row, new.transfer, new.refund)
    BY <2>5, <2>7, SameMoneyKnows
  <2>9. Reviewed(new.row, review)
    BY <1>5, <1>6, <2>2, <2>5, <2>7 DEF Reviewed
  <2>10. SerialInv'
    BY <1>7, <2>2, <2>4, <2>8, <2>9, StartSerial
  <2> QED
    BY <2>4, <2>5, <2>7, <2>10 DEF Heedful
<1>9. CASE AutoConfirm(r)
  <2>1. PICK out \in ReleaseOutcomes(row) : Start(r, "auto", "none", out)
    BY <1>4, <1>9 DEF AutoConfirm
  <2>2. order.status \in {"pendingReceive", "pendingService"}
    BY <1>9 DEF AutoConfirm
  <2> QED
    BY <1>5, <1>6, <1>7, <2>1, <2>2, StartedRelease
<1>10. CASE ReleasePayout(r)
  <2>1. PICK out \in ReleaseOutcomes(order) : Start(r, "release", "none", out)
    BY <1>10 DEF ReleasePayout
  <2> QED
    BY <1>3, <1>7, <2>1, StartedRelease
<1> QED
  BY <1>8, <1>9, <1>10

\* A review, the last of which completes the order.
LEMMA ReviewSerial ==
  ASSUME OneAtATime, IInv, SerialInv, NEW r \in Request, NEW who \in Party,
         SubmitReview(r, who)
  PROVE  SerialInv' /\ Heedful
<1>1. /\ order.status \in {"pendingReview", "completed", "refunded"} /\ who \notin review
      /\ TypeOK /\ order \in OrderRow
  BY DEF SubmitReview, IInv, TypeOK
<1>2. "review" \in RequestOp \ {"idle"} /\ who \in Party \cup {"none"}
  BY DEF RequestOp
<1>3. CASE LastReview(who)
  <2>1. PICK row : row = [order EXCEPT !.status = "completed"]
    OBVIOUS
  <2>2. /\ row \in OrderRow /\ row.status = "completed" /\ row.refund = order.refund
        /\ row.payment = order.payment /\ row.payout = order.payout
        /\ row.payRef = order.payRef
    BY <1>1, <2>1, OrderCopies
  <2>3. PICK out \in ReleaseOutcomes(row) : Start(r, "review", who, out)
    BY <1>3, <2>1 DEF SubmitReview
  <2>4. order.status # "refunded"
    BY <1>3 DEF LastReview
  <2>5. Reviewed(row, review \cup {who})
    BY <2>2 DEF Reviewed
  <2> QED
    BY <1>2, <2>2, <2>3, <2>4, <2>5, StartedRelease
<1>4. CASE ~LastReview(who)
  <2>1. Start(r, "review", who, NoCall(order))
    BY <1>4 DEF SubmitReview
  <2>2. req[r] = Idle
    BY <2>1, StartSends
  <2>3. Knows(order, transfer, refund)
    BY <2>2, IdleKnows
  <2>4. Reviewed(order, review \cup {who})
    BY <1>1, <1>4 DEF Reviewed, LastReview
  <2> QED
    BY <1>2, <2>1, <2>3, <2>4, StartedLocal
<1> QED
  BY <1>3, <1>4

\* A refund event reports the last state of the last refund.
LEMMA EventSerial ==
  ASSUME OneAtATime, IInv, SerialInv, NEW r \in Request, NEW n \in 1..MaxRefund,
         RefundEvent(r, n)
  PROVE  SerialInv' /\ Heedful
<1>1. PICK s \in refund[n] :
        Current(n, s) /\ Start(r, "event", "none", NoCall(Decided(Applied(order, s), s)))
  BY DEF RefundEvent, OneAtATime
<1>2. s \in RefundState /\ order \in OrderRow
  BY DEF IInv, TypeOK
<1>3. Backed(order, transfer, refund) /\ (s = "succeeded" => ReturnedIn(refund))
  BY DEF IInv, ReturnedIn
<1>4. Applied(order, s) \in OrderRow
  BY <1>2, <1>3, AppliedGood
<1>5. PICK row : row = Decided(Applied(order, s), s)
  OBVIOUS
<1>6. /\ row.refund = s
      /\ row.payment = IF s = "succeeded" THEN "refunded" ELSE order.payment
      /\ row.status \in {"refunded", "refundInProgress", "inDispute"}
      /\ s = "succeeded" => row.status = "refunded"
  <2>1. /\ Applied(order, s).refund = s
        /\ Applied(order, s).payment = IF s = "succeeded" THEN "refunded" ELSE order.payment
    BY <1>2, AppliedColumns
  <2>2. /\ row.refund = Applied(order, s).refund /\ row.payment = Applied(order, s).payment
        /\ row.status \in {"refunded", "refundInProgress", "inDispute"}
        /\ s = "succeeded" => row.status = "refunded"
    BY <1>2, <1>4, <1>5, DecidedColumns
  <2> QED
    BY <2>1, <2>2
<1>7. Start(r, "event", "none", NoCall(row)) /\ req[r] = Idle
  BY <1>1, <1>5, StartSends
<1>8. Knows(order, transfer, refund)
  BY <1>7, IdleKnows
<1>9. Knows(row, transfer, refund)
  <2>1. s # "none"
    BY <1>2 DEF RefundState
  <2> QED
    BY <1>6, <1>8, <2>1 DEF Knows, RefundKnown, TransferKnown
<1>10. order.status = "refunded" => row.status = "refunded"
  <2> SUFFICES ASSUME order.status = "refunded" PROVE s = "succeeded"
    BY <1>6
  <2>1. PICK m \in 1..MaxRefund : "succeeded" \in refund[m]
    BY <1>3 DEF Backed, ReturnedIn
  <2>2. ~(m > n)
    <3>1. \A k \in (n + 1)..MaxRefund : refund[k] = {}
      BY <1>1 DEF Current
    <3> QED
      BY <2>1, <3>1, BoundAssumption
  <2>3. ~(m < n)
    BY <1>1, <1>8, <2>1 DEF Knows, Ledgers
  <2>4. m = n
    BY <2>2, <2>3
  <2>5. s # "pending"
    BY <1>1, <2>1, <2>4 DEF Current
  <2>6. s # "failed"
    BY <1>1, <1>8, <2>1, <2>4 DEF Knows, Ledgers
  <2> QED
    BY <1>2, <2>5, <2>6 DEF RefundState
<1>11. Reviewed(row, review)
  BY <1>6 DEF Reviewed
<1>12. "event" \in RequestOp \ {"idle"} /\ "none" \in Party \cup {"none"}
  BY DEF RequestOp
<1> QED
  BY <1>7, <1>9, <1>10, <1>11, <1>12, StartedLocal

\* A dispute decided for the buyer.
LEMMA BuyerSerial ==
  ASSUME OneAtATime, IInv, SerialInv, NEW r \in Request, ResolveRefund(r)
  PROVE  SerialInv' /\ Heedful
<1>1. order.status \in Disputed /\ order.status # "refunded"
  BY DEF ResolveRefund, Disputed
<1>2. PICK rev \in ReverseOutcomes(InDecision) :
        \/ Raise(r, "resolve", rev)
        \/ \E out \in RefundOutcomes(rev) :
             Start(r, "resolve", "none",
                   [out EXCEPT !.row = Decided(@, IF Returned(@) THEN "succeeded"
                                                  ELSE "pending")])
        \/ \E out \in RefusedOutcomes(rev) : Raise(r, "resolve", out)
  BY DEF ResolveRefund
<1>3. req[r] = Idle
  BY <1>2 DEF Start, Raise
<1>4. Knows(order, transfer, refund)
  BY <1>3, IdleKnows
<1>5. /\ TypeOK /\ InDecision \in OrderRow /\ "lost" \notin Op
      /\ InDecision.refund = order.refund /\ InDecision.payment = order.payment
      /\ InDecision.payout = order.payout /\ InDecision.payRef = order.payRef
      /\ InDecision.status = order.status
  BY OrderCopies DEF IInv, OneAtATime
<1>6. Knows(InDecision, transfer, refund)
  BY <1>4, <1>5, SameMoneyKnows
<1>7. /\ rev.refund = refund /\ Ledgers(rev.transfer, refund)
      /\ RefundKnown(rev.row, refund) /\ ~Sent(rev.transfer)
      /\ \A n \in 1..MaxTransfer : rev.transfer[n] = "paid" => transfer[n] = "paid"
  BY <1>5, <1>6, ReverseKnows
<1>8. TransferKnown(order, rev.transfer)
  BY <1>4, <1>7 DEF Knows, TransferKnown
<1>9. Good(rev)
  <2>1. Backed(InDecision, transfer, refund)
    BY <1>5 DEF IInv, Backed
  <2> QED
    BY <1>5, <2>1, ReverseGood
<1>10. rev.row \in OrderRow
  BY <1>9 DEF Good
<1>11. CASE Raise(r, "resolve", rev)
  <2>1. Knows(order, rev.transfer, rev.refund)
    BY <1>4, <1>7, <1>8 DEF Knows
  <2>2. SerialInv'
    BY <1>11, <2>1, RaiseSerial
  <2>3. transfer' = rev.transfer
    BY <1>11, RaiseSends
  <2> QED
    BY <1>7, <2>2, <2>3 DEF Heedful
<1>12. ASSUME NEW out \in RefusedOutcomes(rev), Raise(r, "resolve", out)
       PROVE  SerialInv' /\ Heedful
  <2>1. RefundKnown(order, refund)
    BY <1>4 DEF Knows
  <2>2. /\ out.transfer = rev.transfer /\ Ledgers(out.transfer, out.refund)
        /\ RefundKnown(order, out.refund)
    <3>1. PICK row : row = order
      OBVIOUS
    <3>2. RefundKnown(row, refund)
      BY <2>1, <3>1
    <3>3. /\ out.transfer = rev.transfer /\ Ledgers(out.transfer, out.refund)
          /\ RefundKnown(row, out.refund)
      BY <1>5, <1>7, <3>2, RefusedKnows
    <3> QED
      BY <3>1, <3>3
  <2>3. Knows(order, out.transfer, out.refund)
    BY <1>8, <2>2 DEF Knows
  <2>4. SerialInv'
    BY <1>12, <2>3, RaiseSerial
  <2>5. transfer' = out.transfer
    BY <1>12, RaiseSends
  <2> QED
    BY <1>7, <2>2, <2>4, <2>5 DEF Heedful
<1>13. ASSUME NEW out \in RefundOutcomes(rev),
              Start(r, "resolve", "none",
                    [out EXCEPT !.row = Decided(@, IF Returned(@) THEN "succeeded"
                                                   ELSE "pending")])
       PROVE  SerialInv' /\ Heedful
  <2>1. /\ out.transfer = rev.transfer /\ Ledgers(out.transfer, out.refund)
        /\ RefundKnown(out.row, out.refund) /\ out.row.refund # "none"
    BY <1>5, <1>7, <1>10, RefundKnows
  <2>2. Good(out)
    BY <1>5, <1>7, <1>9, RefundGood
  <2>3. /\ out \in [row : OrderRow, transfer : TransferLedger, refund : RefundLedger]
        /\ out.row \in OrderRow
    BY <2>2 DEF Good
  <2>4. PICK s : s = IF Returned(out.row) THEN "succeeded" ELSE "pending"
    OBVIOUS
  <2>5. s \in RefundState
    BY <2>4 DEF RefundState
  <2>6. PICK new : new = [out EXCEPT !.row = Decided(out.row, s)]
    OBVIOUS
  <2>7. Start(r, "resolve", "none", new)
    BY <1>13, <2>4, <2>6
  <2>8. /\ new.row = Decided(out.row, s) /\ new.transfer = out.transfer
        /\ new.refund = out.refund
    BY <2>3, <2>6
  <2>9. /\ new.row.refund = out.row.refund /\ new.row.payment = out.row.payment
        /\ new.row.status \in {"refunded", "refundInProgress", "inDispute"}
    BY <2>3, <2>5, <2>8, DecidedColumns
  <2>10. Knows(new.row, new.transfer, new.refund)
    BY <2>1, <2>8, <2>9 DEF Knows, RefundKnown, TransferKnown
  <2>11. Reviewed(new.row, review)
    BY <2>9 DEF Reviewed
  <2>12. "resolve" \in RequestOp \ {"idle"} /\ "none" \in Party \cup {"none"}
    BY DEF RequestOp
  <2>13. SerialInv'
    BY <1>1, <2>7, <2>10, <2>11, <2>12, StartSerial
  <2>14. transfer' = rev.transfer
    BY <2>1, <2>7, <2>8, StartSends
  <2> QED
    BY <1>7, <2>13, <2>14 DEF Heedful
<1> QED
  BY <1>2, <1>11, <1>12, <1>13

\* A dispute decided for the seller.
LEMMA SellerSerial ==
  ASSUME OneAtATime, IInv, SerialInv, NEW r \in Request, ResolveComplete(r)
  PROVE  SerialInv' /\ Heedful
<1>1. order.status # "refunded" /\ TypeOK
  BY DEF ResolveComplete, Disputed, IInv
<1>2. PICK row : row = SellerWins
  OBVIOUS
<1>3. /\ row \in OrderRow /\ row.status = "completed"
      /\ row.refund = order.refund /\ row.payment = order.payment
      /\ row.payout = order.payout /\ row.payRef = order.payRef
  BY <1>1, <1>2, SellerWinsColumns
<1>4. PICK out \in ReleaseOutcomes(row) :
        IF out.row.payout = "released" THEN Start(r, "resolve", "none", out)
        ELSE Raise(r, "resolve", out)
  BY <1>2 DEF ResolveComplete, SellerWins
<1>5. "resolve" \in RequestOp \ {"idle"} /\ "none" \in Party \cup {"none"}
  BY DEF RequestOp
<1>6. CASE Start(r, "resolve", "none", out)
  <2>1. Reviewed(row, review)
    BY <1>3 DEF Reviewed
  <2> QED
    BY <1>1, <1>3, <1>5, <1>6, <2>1, StartedRelease
<1>7. CASE out.row.payout # "released" /\ Raise(r, "resolve", out)
  <2>1. req[r] = Idle
    BY <1>7 DEF Raise
  <2>2. Knows(order, transfer, refund)
    BY <2>1, IdleKnows
  <2>3. /\ Knows(out.row, out.transfer, out.refund) /\ out.refund = refund
        /\ out.row.refund = order.refund
        /\ Sent(out.transfer) => NoneOwed
    BY <1>3, <2>1, ReleaseStarts
  <2>4. Knows(order, out.transfer, out.refund)
    BY <1>7, <2>2, <2>3 DEF Knows, TransferKnown
  <2>5. SerialInv'
    BY <1>7, <2>4, RaiseSerial
  <2>6. transfer' = out.transfer
    BY <1>7, RaiseSends
  <2> QED
    BY <2>3, <2>5, <2>6 DEF Heedful
<1> QED
  BY <1>4, <1>6, <1>7

\* The commit of the only request writes what it has in memory.
LEMMA FinishSerial ==
  ASSUME OneAtATime, IInv, SerialInv, NEW r \in Request, Finish(r)
  PROVE  /\ SerialInv' /\ transfer' = transfer
         /\ order.status = "refunded" => order'.status = "refunded"
<1>1. /\ order' = Merge(order, req[r].row, req[r].new) /\ req[r] # Idle
      /\ review' = IF req[r].op = "review" THEN review \cup {req[r].who} ELSE review
      /\ req' = [req EXCEPT ![r] = Idle]
      /\ rail' = rail /\ transfer' = transfer /\ refund' = refund
  BY DEF Finish, provider
<1>2. PICK q : q = req[r]
  OBVIOUS
<1>3. Progress(q)
  BY <1>1, <1>2 DEF SerialInv
<1>4. /\ order'.status = q.new.status /\ order'.payment = q.new.payment
      /\ order'.refund = q.new.refund /\ order'.payout = q.new.payout
      /\ order'.payRef = q.new.payRef
  <2>1. order' = Merge(order, q.row, q.new)
    BY <1>1, <1>2
  <2>2. /\ order.status = q.row.status /\ order.payment = q.row.payment
        /\ order.refund = q.row.refund /\ order.payout = q.row.payout
        /\ order.payRef = q.row.payRef
    BY <1>3 DEF Progress
  <2> QED
    BY <2>1, <2>2 DEF Merge, Put
<1>5. /\ RefundKnown(q.new, refund) /\ TransferKnown(q.new, transfer)
      /\ q.row.status = "refunded" => q.new.status = "refunded"
      /\ Reviewed(q.new, IF q.op = "review" THEN review \cup {q.who} ELSE review)
      /\ order.status = q.row.status
  BY <1>3 DEF Progress
<1>6. RefundKnown(order, refund)'
  BY <1>1, <1>4, <1>5 DEF RefundKnown
<1>7. TransferKnown(order, transfer)'
  BY <1>1, <1>4, <1>5 DEF TransferKnown
<1>8. Reviewed(order, review)'
  BY <1>1, <1>2, <1>4, <1>5 DEF Reviewed
<1>9. Ledgers(transfer, refund)'
  BY <1>1 DEF SerialInv, Ledgers
<1>10. \A p \in Request : req'[p] = Idle
  BY <1>1 DEF OneAtATime, IInv, TypeOK
<1>11. SerialInv'
  BY <1>6, <1>7, <1>8, <1>9, <1>10 DEF SerialInv
<1> QED
  BY <1>1, <1>4, <1>5, <1>11

\* The ledgers move on, and a deadline passes.
LEMMA WorldSerial ==
  ASSUME OneAtATime, IInv, SerialInv,
         \/ \E r \in Request : Abandon(r)
         \/ \E n \in 1..MaxTransfer : TransferSettles(n)
         \/ \E n \in 1..MaxRefund : RefundSettles(n)
         \/ DeadlinePasses
         \/ UNCHANGED vars
  PROVE  SerialInv' /\ ~Sent(transfer') /\ order'.status = order.status
<1>1. CASE \E r \in Request : Abandon(r)
  BY <1>1 DEF Abandon, OneAtATime
<1>2. ASSUME NEW n \in 1..MaxTransfer, TransferSettles(n)
      PROVE  SerialInv' /\ ~Sent(transfer') /\ order'.status = order.status
  <2>1. PICK s \in {"paid", "failed", "reversed"} : transfer' = [transfer EXCEPT ![n] = s]
    BY <1>2 DEF TransferSettles
  <2>2. /\ transfer[n] = "pending" /\ order' = order /\ review' = review /\ rail' = rail
        /\ refund' = refund /\ req' = req
    BY <1>2 DEF TransferSettles
  <2>3. \A m \in 1..MaxTransfer : transfer'[m] = IF m = n THEN s ELSE transfer[m]
    BY <2>1 DEF IInv, TypeOK
  <2>4. rail # "stripe"
    BY <2>2 DEF SerialInv, Ledgers
  <2>5. Ledgers(transfer, refund)'
    BY <2>2, <2>3, <2>4 DEF SerialInv, Ledgers
  <2>6. ASSUME NEW row, RefundKnown(row, refund)
        PROVE  RefundKnown(row, refund') /\ TransferKnown(row, transfer)'
    BY <2>2, <2>4, <2>6 DEF RefundKnown, TransferKnown
  <2>7. Reviewed(order, review)'
    BY <2>2 DEF SerialInv, Reviewed
  <2>8. (\A r \in Request : req[r] = Idle)' => (RefundKnown(order, refund) /\ TransferKnown(order, transfer))'
    BY <2>2, <2>4 DEF SerialInv, RefundKnown, TransferKnown
  <2>9. ASSUME NEW r \in Request, req[r] # Idle PROVE Progress(req[r])'
    <3>1. Progress(req[r])
      BY <2>9 DEF SerialInv
    <3> QED
      BY <2>2, <2>4, <3>1 DEF Progress, RefundKnown, TransferKnown, Reviewed
  <2>10. ~Sent(transfer')
    BY <2>2, <2>3 DEF Sent
  <2> QED
    BY <2>2, <2>5, <2>7, <2>8, <2>9, <2>10 DEF SerialInv
<1>3. ASSUME NEW n \in 1..MaxRefund, RefundSettles(n)
      PROVE  SerialInv' /\ ~Sent(transfer') /\ order'.status = order.status
  <2>1. PICK s \in {"succeeded", "failed"} : refund' = [refund EXCEPT ![n] = @ \cup {s}]
    BY <1>3 DEF RefundSettles
  <2>2. /\ refund[n] = {"pending"} /\ order' = order /\ review' = review /\ rail' = rail
        /\ transfer' = transfer /\ req' = req
    BY <1>3 DEF RefundSettles
  <2>3. \A m \in 1..MaxRefund : refund'[m] = IF m = n THEN {"pending", s} ELSE refund[m]
    BY <2>1, <2>2 DEF IInv, TypeOK
  <2>4. Ledgers(transfer, refund)'
    <3>1. \A m \in 1..MaxRefund, k \in 1..MaxRefund :
             m < k /\ refund'[k] # {} => "failed" \in refund'[m]
      BY <2>2, <2>3 DEF SerialInv, Ledgers
    <3>2. \A m \in 1..MaxRefund : ~({"succeeded", "failed"} \subseteq refund'[m])
      BY <2>3 DEF SerialInv, Ledgers
    <3> QED
      BY <2>2, <3>1, <3>2 DEF SerialInv, Ledgers
  <2>5. \A m \in 1..MaxRefund : refund'[m] # {} /\ "failed" \notin refund'[m]
                               => refund[m] # {} /\ "failed" \notin refund[m]
    BY <2>2, <2>3
  <2>6. Reviewed(order, review)'
    BY <2>2 DEF SerialInv, Reviewed
  <2>7. (\A r \in Request : req[r] = Idle)' => (RefundKnown(order, refund) /\ TransferKnown(order, transfer))'
    BY <2>2, <2>5 DEF SerialInv, RefundKnown, TransferKnown
  <2>8. ASSUME NEW r \in Request, req[r] # Idle PROVE Progress(req[r])'
    <3>1. Progress(req[r])
      BY <2>8 DEF SerialInv
    <3> QED
      BY <2>2, <2>5, <3>1 DEF Progress, RefundKnown, TransferKnown, Reviewed
  <2> QED
    BY <2>2, <2>4, <2>6, <2>7, <2>8 DEF SerialInv, Sent
<1>4. CASE DeadlinePasses
  <2>1. /\ order' = [order EXCEPT !.auto = "passed"] /\ review' = review /\ rail' = rail
        /\ transfer' = transfer /\ refund' = refund /\ req' = req
    BY <1>4 DEF DeadlinePasses, provider
  <2>2. /\ order'.status = order.status /\ order'.payment = order.payment
        /\ order'.refund = order.refund /\ order'.payout = order.payout
        /\ order'.payRef = order.payRef /\ order'.paused = order.paused
        /\ order'.dispute = order.dispute
    BY <2>1 DEF IInv, TypeOK, OrderRow
  <2>3. Ledgers(transfer, refund)' /\ Reviewed(order, review)'
    BY <2>1, <2>2 DEF SerialInv, Ledgers, Reviewed
  <2>4. (\A r \in Request : req[r] = Idle)' => (RefundKnown(order, refund) /\ TransferKnown(order, transfer))'
    BY <2>1, <2>2 DEF SerialInv, RefundKnown, TransferKnown
  <2>5. ASSUME NEW r \in Request, req[r] # Idle PROVE Progress(req[r])'
    <3>1. Progress(req[r])
      BY <2>5 DEF SerialInv
    <3> QED
      BY <2>1, <2>2, <3>1 DEF Progress, RefundKnown, TransferKnown, Reviewed
  <2> QED
    BY <2>1, <2>2, <2>3, <2>4, <2>5 DEF SerialInv, Sent
<1>5. CASE UNCHANGED vars
  <2>1. /\ order' = order /\ review' = review /\ rail' = rail
        /\ transfer' = transfer /\ refund' = refund /\ req' = req
    BY <1>5 DEF vars
  <2>2. Ledgers(transfer, refund)' /\ Reviewed(order, review)'
    BY <2>1 DEF SerialInv, Ledgers, Reviewed
  <2>3. (\A r \in Request : req[r] = Idle)' => (RefundKnown(order, refund) /\ TransferKnown(order, transfer))'
    BY <2>1 DEF SerialInv, RefundKnown, TransferKnown
  <2>4. ASSUME NEW r \in Request, req[r] # Idle PROVE Progress(req[r])'
    <3>1. Progress(req[r])
      BY <2>4 DEF SerialInv
    <3> QED
      BY <2>1, <3>1 DEF Progress, RefundKnown, TransferKnown, Reviewed
  <2> QED
    BY <2>1, <2>2, <2>3, <2>4 DEF SerialInv, Sent
<1> QED
  BY <1>1, <1>2, <1>3, <1>4, <1>5

LEMMA InitSerial == Init => SerialInv
<1> SUFFICES ASSUME Init PROVE SerialInv
  OBVIOUS
<1>1. /\ \A n \in 1..MaxTransfer : transfer[n] = "none"
      /\ \A n \in 1..MaxRefund : refund[n] = {}
      /\ review = {} /\ \A r \in Request : req[r] = Idle
  BY DEF Init
<1>2. order.payment = "succeeded" /\ order.refund = "none"
  <2>1. Paid("inDispute") \in OrderRow
    BY BoundAssumption DEF Paid, OrderRow, OrderStatus, PayoutStatus, RefundStatus
  <2>2. \A status : Paid(status).payment = "succeeded" /\ Paid(status).refund = "none"
    BY DEF Paid
  <2>3. Conflict.payment = "succeeded" /\ Conflict.refund = "none"
    BY <2>1, <2>2 DEF Conflict, OrderRow
  <2> QED
    BY <2>2, <2>3 DEF Init
<1>3. Ledgers(transfer, refund)
  BY <1>1 DEF Ledgers
<1>4. Reviewed(order, review)
  BY <1>1 DEF Reviewed, Party
<1> QED
  BY <1>1, <1>2, <1>3, <1>4 DEF SerialInv, RefundKnown, TransferKnown

LEMMA BeginSerial ==
  ASSUME OneAtATime, IInv, SerialInv, NEW r \in Request, Begin(r)
  PROVE  SerialInv' /\ Heedful
<1>1. CASE Ship(r) \/ RequestRefund(r) \/ PausePayout(r)
  BY <1>1, LocalSerial
<1>2. CASE ConfirmReceive(r) \/ AutoConfirm(r) \/ ReleasePayout(r)
  BY <1>2, ReceiptSerial
<1>3. CASE \E who \in Party : SubmitReview(r, who)
  BY <1>3, ReviewSerial
<1>4. CASE \E n \in 1..MaxRefund : RefundEvent(r, n)
  BY <1>4, EventSerial
<1>5. CASE ResolveRefund(r)
  BY <1>5, BuyerSerial
<1>6. CASE ResolveComplete(r)
  BY <1>6, SellerSerial
<1> QED
  BY <1>1, <1>2, <1>3, <1>4, <1>5, <1>6 DEF Begin

\* A request that begins leaves the order to the commit.
LEMMA BeginKeepsOrder ==
  ASSUME NEW r \in Request, Begin(r)
  PROVE  order' = order
<1>1. ASSUME NEW op, NEW who, NEW out, Start(r, op, who, out) PROVE order' = order
  BY <1>1 DEF Start
<1>2. ASSUME NEW op, NEW out, Raise(r, op, out) PROVE order' = order
  BY <1>2 DEF Raise
<1>3. CASE Ship(r) \/ RequestRefund(r) \/ PausePayout(r) \/ ReleasePayout(r)
  BY <1>1, <1>3 DEF Ship, RequestRefund, PausePayout, ReleasePayout
<1>4. CASE ConfirmReceive(r) \/ AutoConfirm(r)
  BY <1>1, <1>4 DEF ConfirmReceive, AutoConfirm
<1>5. CASE \E who \in Party : SubmitReview(r, who)
  BY <1>1, <1>5 DEF SubmitReview
<1>6. CASE \E n \in 1..MaxRefund : RefundEvent(r, n)
  BY <1>1, <1>6 DEF RefundEvent
<1>7. CASE ResolveRefund(r)
  BY <1>1, <1>2, <1>7 DEF ResolveRefund
<1>8. CASE ResolveComplete(r)
  BY <1>1, <1>2, <1>8 DEF ResolveComplete
<1> QED
  BY <1>3, <1>4, <1>5, <1>6, <1>7, <1>8 DEF Begin

\* What each step does, one request at a time.
LEMMA SerialStep ==
  ASSUME OneAtATime, IInv, SerialInv, [Next]_vars
  PROVE  SerialInv' /\ Heedful /\ (order.status = "refunded" => order'.status = "refunded")
<1>1. ASSUME NEW r \in Request, Begin(r)
      PROVE  SerialInv' /\ Heedful /\ order' = order
  BY <1>1, BeginSerial, BeginKeepsOrder
<1>2. ASSUME NEW r \in Request, Finish(r)
      PROVE  /\ SerialInv' /\ Heedful
             /\ order.status = "refunded" => order'.status = "refunded"
  BY <1>2, FinishSerial DEF Heedful, Sent
<1>3. CASE \/ \E r \in Request : Abandon(r)
           \/ \E n \in 1..MaxTransfer : TransferSettles(n)
           \/ \E n \in 1..MaxRefund : RefundSettles(n)
           \/ DeadlinePasses
           \/ UNCHANGED vars
  <2>1. SerialInv' /\ ~Sent(transfer') /\ order'.status = order.status
    BY <1>3, WorldSerial
  <2> QED
    BY <2>1 DEF Heedful
<1> QED
  BY <1>1, <1>2, <1>3 DEF Next

LEMMA SerialInductive == OneAtATime => (Spec => []SerialInv)
<1> SUFFICES ASSUME OneAtATime PROVE Spec => []SerialInv
  OBVIOUS
<1>1. Init => SerialInv
  BY InitSerial
<1>2. IInv /\ SerialInv /\ [Next]_vars => SerialInv'
  BY SerialStep
<1>3. Spec => []IInv
  BY Inductive
<1> QED
  BY <1>1, <1>2, <1>3, PTL DEF Spec

\* When requests come one at a time and nothing is lost, the provider holds one
\* transfer to the seller at most (release_payout_for_order, whose early return
\* is the recorded transfer).
THEOREM PaidAtMostOnce == OneAtATime => (Spec => []PaidOnce)
<1>1. ASSUME TypeOK, SerialInv PROVE PaidOnce
  <2> DEFINE S == {n \in 1..MaxTransfer : transfer[n] \in {"pending", "paid"}}
  <2>2. \A m \in S, n \in S : m = n
    <3>1. CASE rail # "stripe"
      <4>1. \A n \in 1..MaxTransfer : n # 1 => transfer[n] = "none"
        BY <1>1, <3>1 DEF SerialInv, Ledgers
      <4>2. \A n \in S : n = 1
        BY <4>1
      <4> QED
        BY <4>2
    <3>2. CASE rail = "stripe"
      <4>1. /\ \A n \in 1..MaxTransfer : transfer[n] # "pending"
            /\ \A m \in 1..MaxTransfer, n \in 1..MaxTransfer :
                  transfer[m] = "paid" /\ transfer[n] = "paid" => m = n
        BY <1>1, <3>2 DEF SerialInv, Ledgers
      <4> QED
        BY <4>1
    <3> QED
      BY <3>1, <3>2
  <2> HIDE DEF S
  <2>3. S = {} \/ \E n : S = {n}
    <3>1. CASE \E n : n \in S
      <4>1. PICK n : n \in S
        BY <3>1
      <4>2. S = {n}
        BY <2>2, <4>1
      <4> QED
        BY <4>2
    <3>2. CASE ~\E n : n \in S
      BY <3>2
    <3> QED
      BY <3>1, <3>2
  <2>4. Cardinality(S) \in {0, 1}
    BY <2>3, FS_EmptySet, FS_Singleton
  <2> QED
    BY <2>4 DEF PaidOnce, S
<1>2. ASSUME OneAtATime PROVE Spec => []PaidOnce
  <2>1. Spec => []SerialInv
    BY <1>2, SerialInductive
  <2>2. TypeOK /\ SerialInv => PaidOnce
    BY <1>1
  <2> QED
    BY <2>1, <2>2, TypeCorrect, PTL
<1> QED
  BY <1>2

\* When requests come one at a time, an order that both parties have reviewed
\* does not wait for a review (_maybe_complete_order_after_review).
THEOREM ReviewedOrdersAreCompleted == OneAtATime => (Spec => []ReviewedIsCompleted)
<1>1. SerialInv => ReviewedIsCompleted
  BY DEF SerialInv, Reviewed, ReviewedIsCompleted
<1>2. ASSUME OneAtATime PROVE Spec => []ReviewedIsCompleted
  <2>1. Spec => []SerialInv
    BY <1>2, SerialInductive
  <2> QED
    BY <1>1, <2>1, PTL
<1> QED
  BY <1>2

\* When requests come one at a time, no money is sent to the seller while a refund
\* is under way or made (_release_payout_for_order).
THEOREM NoPayoutWhileRefunding == OneAtATime => (Spec => NotPaidAfterRefund)
<1>1. ASSUME OneAtATime PROVE Spec => NotPaidAfterRefund
  <2>1. Spec => []SerialInv
    BY <1>1, SerialInductive
  <2>2. IInv /\ SerialInv /\ [Next]_vars =>
          [(\E n \in 1..MaxTransfer : transfer[n] = "none" /\ transfer'[n] # "none")
           => \A n \in 1..MaxRefund : refund[n] \cap {"pending", "succeeded"} # {}
                                      => "failed" \in refund[n]]_vars
    BY <1>1, SerialStep DEF Heedful, Sent, NoneOwed
  <2> QED
    BY <2>1, <2>2, Inductive, PTL DEF Spec, NotPaidAfterRefund
<1> QED
  BY <1>1

\* When requests come one at a time and events are up to date, a refunded order
\* stays refunded (apply_stripe_refund_update, apply_paypal_refund_update).
THEOREM RefundedOrdersStay == OneAtATime => (Spec => RefundedStays)
<1>1. ASSUME OneAtATime PROVE Spec => RefundedStays
  <2>1. Spec => []SerialInv
    BY <1>1, SerialInductive
  <2>2. IInv /\ SerialInv /\ [Next]_vars =>
          [order.status = "refunded" => order'.status = "refunded"]_vars
    BY <1>1, SerialStep
  <2> QED
    BY <2>1, <2>2, Inductive, PTL DEF Spec, RefundedStays
<1> QED
  BY <1>1

-----------------------------------------------------------------------------
\* The pause, whatever runs at the same time.

LEMMA LocalSends ==
  ASSUME NEW r \in Request, Ship(r) \/ RequestRefund(r) \/ PausePayout(r)
  PROVE  ~Sent(transfer')
<1>1. ASSUME NEW op, NEW who, NEW row, Start(r, op, who, NoCall(row))
      PROVE  ~Sent(transfer')
  BY <1>1 DEF Start, NoCall, Outcome, Sent
<1> QED
  BY <1>1 DEF Ship, RequestRefund, PausePayout

LEMMA PauseStep ==
  ASSUME IInv, NEW r \in Request, Begin(r), Sent(transfer'), order.paused
  PROVE  order.status \in Disputed
<1>0. TypeOK /\ order \in OrderRow
  BY DEF IInv, TypeOK
<1>1. CASE Ship(r) \/ RequestRefund(r) \/ PausePayout(r)
  BY <1>1, LocalSends
<1>2. ASSUME NEW status \in {"pendingReview", "completed"}
      PROVE  /\ [order EXCEPT !.status = status] \in OrderRow
             /\ [order EXCEPT !.status = status].paused
             /\ Backed([order EXCEPT !.status = status], transfer, refund)
  <2>1. PICK row : row = [order EXCEPT !.status = status]
    OBVIOUS
  <2>2. /\ row \in OrderRow /\ row.status = status /\ row.refund = order.refund
        /\ row.payment = order.payment /\ row.payout = order.payout
        /\ row.paused = order.paused
    BY <1>0, <2>1, OrderCopies
  <2>3. row.paused /\ Backed(row, transfer, refund)
    BY <2>2 DEF IInv, Backed
  <2> QED
    BY <2>1, <2>2, <2>3
<1>3. ASSUME NEW row \in OrderRow, row.paused, NEW out \in ReleaseOutcomes(row)
      PROVE  ~Sent(out.transfer)
  BY <1>0, <1>3, SentWhenDue DEF Withheld
<1>4. CASE ConfirmReceive(r)
  <2>1. PICK row : row = [order EXCEPT !.status = "pendingReview"]
    OBVIOUS
  <2>2. row \in OrderRow /\ row.paused /\ Backed(row, transfer, refund)
    BY <1>2, <2>1
  <2>3. PICK out \in ReleaseOutcomes(row) :
          Start(r, "confirm", "none", [out EXCEPT !.row.auto = "none"])
    BY <1>4, <2>1 DEF ConfirmReceive
  <2>4. out \in [row : OrderRow, transfer : TransferLedger, refund : RefundLedger]
    BY <1>0, <2>2, ReleaseGood DEF Good
  <2>5. [out EXCEPT !.row.auto = "none"].transfer = out.transfer
    BY <2>4
  <2>6. transfer' = out.transfer
    BY <2>3, <2>5, StartSends
  <2> QED
    BY <1>3, <2>2, <2>6
<1>5. CASE AutoConfirm(r)
  <2>1. PICK row : row = [order EXCEPT !.status = "pendingReview"]
    OBVIOUS
  <2>2. row \in OrderRow /\ row.paused
    BY <1>2, <2>1
  <2>3. PICK out \in ReleaseOutcomes(row) : Start(r, "auto", "none", out)
    BY <1>5, <2>1 DEF AutoConfirm
  <2> QED
    BY <1>3, <2>2, <2>3, StartSends
<1>6. ASSUME NEW who \in Party, SubmitReview(r, who)
      PROVE  order.status \in Disputed
  <2>1. PICK row : row = [order EXCEPT !.status = "completed"]
    OBVIOUS
  <2>2. row \in OrderRow /\ row.paused
    BY <1>2, <2>1
  <2>3. PICK out \in IF LastReview(who) THEN ReleaseOutcomes(row) ELSE {NoCall(order)} :
          Start(r, "review", who, out)
    BY <1>6, <2>1 DEF SubmitReview
  <2>4. out = NoCall(order) => ~Sent(out.transfer)
    BY DEF NoCall, Outcome, Sent
  <2> QED
    BY <1>3, <2>2, <2>3, <2>4, StartSends
<1>7. ASSUME NEW n \in 1..MaxRefund, RefundEvent(r, n)
      PROVE  order.status \in Disputed
  <2>1. PICK out : Start(r, "event", "none", out) /\ out.transfer = transfer
    BY <1>7 DEF RefundEvent, NoCall, Outcome
  <2>2. transfer' = transfer
    BY <2>1, StartSends
  <2> QED
    BY <2>2 DEF Sent
<1>8. CASE ReleasePayout(r)
  <2>1. PICK out \in ReleaseOutcomes(order) : Start(r, "release", "none", out)
    BY <1>8 DEF ReleasePayout
  <2> QED
    BY <1>0, <1>3, <2>1, StartSends
<1>9. CASE ResolveRefund(r) \/ ResolveComplete(r)
  BY <1>9 DEF ResolveRefund, ResolveComplete
<1> QED
  BY <1>1, <1>4, <1>5, <1>6, <1>7, <1>8, <1>9 DEF Begin

\* While the payout is paused money is sent only by deciding the dispute, for any
\* number of requests, lost calls and late events: every release looks at the pause
\* in the row that it reads, in the step that calls the provider
\* (_release_payout_for_order, payout_paused).
THEOREM PausedPayoutsAreHeld == Spec => PausedIsHeld
<1>1. IInv /\ [Next]_vars =>
        [(\E n \in 1..MaxTransfer : transfer[n] = "none" /\ transfer'[n] # "none")
         /\ order.paused => order.status \in Disputed]_vars
  <2> SUFFICES ASSUME IInv, [Next]_vars, Sent(transfer'), order.paused
               PROVE  order.status \in Disputed
    BY DEF Sent
  <2>1. ASSUME NEW r \in Request, Begin(r) PROVE order.status \in Disputed
    BY <2>1, PauseStep
  <2>2. CASE \E r \in Request : Finish(r) \/ Abandon(r)
    BY <2>2 DEF Finish, Abandon, provider, Sent
  <2>3. ASSUME NEW n \in 1..MaxTransfer, TransferSettles(n)
        PROVE  order.status \in Disputed
    <3>1. transfer[n] = "pending" /\ \E s : transfer' = [transfer EXCEPT ![n] = s]
      BY <2>3 DEF TransferSettles
    <3>2. \A m \in 1..MaxTransfer : m # n => transfer'[m] = transfer[m]
      BY <3>1 DEF IInv, TypeOK
    <3> QED
      BY <3>1, <3>2 DEF Sent
  <2>4. CASE (\E n \in 1..MaxRefund : RefundSettles(n)) \/ DeadlinePasses \/ UNCHANGED vars
    BY <2>4 DEF RefundSettles, DeadlinePasses, provider, vars, Sent
  <2> QED
    BY <2>1, <2>2, <2>3, <2>4 DEF Next
<1> QED
  BY <1>1, Inductive, PTL DEF Spec, PausedIsHeld
=============================================================================

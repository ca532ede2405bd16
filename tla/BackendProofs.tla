---------------------------- MODULE BackendProofs ----------------------------
(***************************************************************************)
(* What the components of Backend have in common: each keeps its types     *)
(* because its inductive invariant says so.                                *)
(***************************************************************************)
EXTENDS AccountProofs, TradeProofs, DeliveryProofs

\* TypeOK: whatever its requests, workers and jobs do at the same time, the rows and
\* requests of the component that runs stay what their columns can hold, with the
\* counters of guesses, failures and retries within their limits.
THEOREM RowsKeepTheirTypes == Spec => []TypeOK
<1>1. IdentitiesHold /\ SessionsHold /\ CodesHold =>
          /\ component = "identities" => Id!TypeOK
          /\ component = "sessions" => Se!TypeOK
          /\ component = "phone codes" => Pc!TypeOK
  BY IdTypes DEF IdentitiesHold, SessionsHold, SeInv, SeType, CodesHold, PcInv, PcType
<1>2. OutboxHolds /\ MediaHolds /\ MessagesHold =>
          /\ component = "outbox" => Ob!TypeOK
          /\ component = "media" => Me!TypeOK
          /\ component = "messages" => Ms!TypeOK
  BY DEF OutboxHolds, ObInv, ObType, MediaHolds, MeInv, MeType, MessagesHold, MsInv, MsType
<1>3. ListingsHold /\ PayoutsHold /\ SharingHolds /\ CouponsHold =>
          /\ component = "listings" => Li!TypeOK
          /\ component = "payouts" => Po!TypeOK
          /\ component = "sharing" => Sh!TypeOK
          /\ component = "coupons" => Co!TypeOK
  BY DEF ListingsHold, LiInv, LiType, PayoutsHold, PoInv, PoType, SharingHolds, ShInv, ShType,
     CouponsHold, CoInv, CoType
<1>4. IdentitiesHold /\ SessionsHold /\ CodesHold /\ OutboxHolds /\ MediaHolds /\ MessagesHold
      /\ ListingsHold /\ PayoutsHold /\ SharingHolds /\ CouponsHold => TypeOK
  BY <1>1, <1>2, <1>3 DEF TypeOK
<1> QED
  BY <1>4, IdentitiesInvariant, SessionsInvariant, CodesInvariant, OutboxInvariant,
     MediaInvariant, MessagesInvariant, ListingsInvariant, PayoutsInvariant,
     SharingInvariant, CouponsInvariant, PTL
=============================================================================

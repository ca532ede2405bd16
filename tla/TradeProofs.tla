---------------------------- MODULE TradeProofs -----------------------------
(***************************************************************************)
(* Theorems about Listings, Coupons, Sharing and Payouts, as components of *)
(* Backend: for any number of requests that run at the same time, any      *)
(* texts, orders, users, payout methods and accounts at the providers.     *)
(***************************************************************************)
EXTENDS Backend, NaturalLemmas, FiniteSetTheorems, TLAPS

-----------------------------------------------------------------------------
\* Listings.

\* A request has decided about a listing that it has read.
LiRequest(q) ==
    /\ q.kind \in {"none", "update", "approve"}
    /\ q.kind # "none" => q.read \in Li!Listing /\ q.set \in Li!Listing

LiType ==
    /\ Li!TypeOK
    /\ DOMAIN req = Reviewer /\ \A r \in Reviewer : LiRequest(req[r])
    /\ crossed \in BOOLEAN

\* An approved listing that is not a draft has the text that was approved, and
\* what is approved shows approved media, or media that an administrator overlooked.
LiReviewed(l) ==
    l.review = "approved" /\ l.status \notin {"none", "gone"} =>
        /\ l.status # "draft" => l.text = approved.text
        /\ l.media = "own" => asset.ready \/ Li!Unseen

\* A request that nothing has crossed writes what it has decided about the
\* listing as it still is.
LiFresh(q) ==
    q.kind # "none" =>
        /\ q.read = row /\ Li!Exists
        /\ q.set.status \notin {"none", "gone"}
        /\ q.set.status = "draft" => orders # "open"
        /\ q.kind = "approve" => q.set.text = row.text /\ Li!MediaApproved
        /\ q.kind = "update" => LiReviewed(q.set) /\ (q.attach => asset.ready)

\* While nothing crosses: what is on sale was reviewed, an order is only open
\* on it, and one request at most is in progress.
LiInReview ==
    /\ LiReviewed(row)
    /\ orders = "open" => row.status \notin {"none", "draft", "gone"}
    /\ \A r \in Reviewer : LiFresh(req[r])
    /\ \A r1, r2 \in Reviewer : req[r1].kind # "none" /\ req[r2].kind # "none" => r1 = r2

LiInv == LiType /\ (~crossed => LiInReview)

\* A new listing is a draft.
LEMMA LiInit == Li!Init => LiInv
<1> SUFFICES ASSUME Li!Init PROVE LiInv
  OBVIOUS
<1>1. /\ DOMAIN req = Reviewer
      /\ \A r \in Reviewer : req[r].kind = "none"
  BY DEF Li!Init, Li!NoRequest
<1>2. row \in Li!Listing /\ row.review = "draft"
  BY DEF Li!Init, Li!Listing
<1>3. LiType
  BY <1>1, <1>2 DEF Li!Init, LiType, Li!TypeOK, LiRequest
<1> QED
  BY <1>1, <1>2, <1>3 DEF Li!Init, LiInv, LiInReview, LiReviewed, LiFresh

\* A step that crosses what is in progress and leaves the requests alone.
LEMMA LiCrossing ==
  ASSUME LiInv, crossed' = (crossed \/ Li!Across), req' = req, Li!TypeOK',
         ~crossed => LiReviewed(row)' /\ (orders' = "open" => row'.status \notin {"none", "draft", "gone"})
  PROVE  LiInv'
<1>1. LiType'
  BY DEF LiInv, LiType, LiRequest, Li!Listing
<1>2. ASSUME ~crossed' PROVE LiInReview'
  <2>1. ~crossed /\ \A r \in Reviewer : req'[r].kind = "none"
    BY <1>2 DEF Li!Across, LiInv, LiType
  <2> QED
    BY <2>1 DEF LiInReview, LiFresh
<1> QED
  BY <1>1, <1>2 DEF LiInv

\* The seller or a buyer makes the row.
LEMMA LiCreate ==
  ASSUME LiInv, crossed' = (crossed \/ Li!Across), NEW s \in {"draft", "active"}, NEW t \in Text,
         Li!Create(s, t) \/ Li!CreateResale(t)
  PROVE  LiInv'
<1>1. row.status = "none" /\ UNCHANGED <<orders, req, approved>>
  BY DEF Li!Create, Li!CreateResale
<1>2. row' \in Li!Listing /\ row'.review # "approved"
  BY DEF Li!Create, Li!CreateResale, Li!Moderated, Li!Listing
<1>3. Li!TypeOK'
  BY <1>2 DEF Li!Create, Li!CreateResale, Li!Attached, LiInv, LiType, Li!TypeOK
<1> QED
  BY <1>1, <1>2, <1>3, LiCrossing DEF LiInv, LiInReview, LiReviewed

\* Decisions about a listing that exists.
LEMMA LiDecision ==
  ASSUME LiInv, crossed' = (crossed \/ Li!Across),
         \/ Li!Delete \/ Li!Reject \/ Li!Remove \/ Li!Restore \/ Li!RestoreReported
         \/ Li!DeleteContent
         \/ \E t \in Text : Li!EditContent(t)
  PROVE  LiInv'
<1>1. UNCHANGED <<orders, req, asset>> /\ Li!Exists
  BY DEF Li!Delete, Li!Reject, Li!Remove, Li!Restore, Li!RestoreReported,
         Li!DeleteContent, Li!EditContent
<1>2. /\ row' \in Li!Listing /\ row'.status # "none" /\ row'.media = row.media
      /\ row'.status = "draft" => row.status = "draft"
      /\ row'.status = "gone" => orders # "open"
      /\ ~crossed => LiReviewed(row)'
  <2> row \in Li!Listing
    BY DEF LiInv, LiType, Li!TypeOK
  <2>1. CASE Li!Delete
    <3>1. row' = [row EXCEPT !.status = "gone"]
            \/ (row' = [row EXCEPT !.status = "inactive"] /\ row.status # "draft")
      BY <2>1 DEF Li!Delete
    <3>2. /\ row' \in Li!Listing /\ row'.review = row.review /\ row'.media = row.media
          /\ row'.text = row.text
          /\ row'.status = "gone" \/ (row'.status = "inactive" /\ row.status # "draft")
      BY <3>1 DEF Li!Listing
    <3>3. approved' = approved
      BY <2>1 DEF Li!Delete
    <3>4. row'.status # "none" /\ row'.status # "draft" /\ orders # "open"
      BY <2>1, <3>2 DEF Li!Delete
    <3> QED
      BY <1>1, <3>2, <3>3, <3>4 DEF LiInv, LiInReview, LiReviewed, Li!MediaApproved, Li!Unseen, Li!Exists
  <2>2. CASE Li!Reject \/ Li!Remove
    BY <2>2 DEF Li!Reject, Li!Remove, Li!Listing, LiReviewed, Li!Exists
  <2>3. CASE Li!Restore \/ Li!RestoreReported
    <3>1. /\ row' = [row EXCEPT !.review = "approved", !.status = "active"]
          /\ approved'.text = row.text /\ approved'.ready = asset.ready
          /\ Li!MediaApproved \/ approved'.by = "report"
      BY <2>3 DEF Li!Restore, Li!RestoreReported, Li!Decided
    <3>2. /\ row' \in Li!Listing /\ row'.status = "active"
          /\ row'.text = row.text /\ row'.media = row.media
      BY <3>1 DEF Li!Listing
    <3> QED
      BY <1>1, <3>1, <3>2 DEF LiReviewed, Li!MediaApproved, Li!Unseen
  <2>4. CASE Li!DeleteContent
    <3>1. \/ orders = "none" /\ row' = [row EXCEPT !.status = "gone"]
          \/ row' = [row EXCEPT !.review = "removed", !.status = "deleted"]
      BY <2>4 DEF Li!DeleteContent
    <3>2. /\ row' \in Li!Listing /\ row'.media = row.media
          /\ \/ row'.status = "gone" /\ orders = "none"
             \/ row'.status = "deleted" /\ row'.review = "removed"
      BY <3>1 DEF Li!Listing
    <3>3. approved' = approved
      BY <2>4 DEF Li!DeleteContent
    <3> QED
      BY <1>1, <3>2, <3>3 DEF LiReviewed
  <2>5. ASSUME NEW t \in Text, Li!EditContent(t)
        PROVE  /\ row' \in Li!Listing /\ row'.status # "none" /\ row'.media = row.media
               /\ row'.status = "draft" => row.status = "draft"
               /\ row'.status # "gone"
               /\ ~crossed => LiReviewed(row)'
    <3>1. row' = [row EXCEPT !.text = t] /\ approved' = [approved EXCEPT !.text = t]
      BY <2>5 DEF Li!EditContent
    <3>3. approved'.text = t /\ approved'.by = approved.by /\ approved'.ready = approved.ready
      BY <3>1 DEF LiInv, LiType, Li!TypeOK
    <3>2. /\ row' \in Li!Listing /\ row'.media = row.media
          /\ row'.status = row.status /\ row'.review = row.review /\ row'.text = t
      BY <3>1 DEF Li!Listing
    <3> QED
      BY <1>1, <3>3, <3>2 DEF LiInv, LiInReview, LiReviewed, Li!Unseen, Li!Exists
  <2> QED
    BY <2>1, <2>2, <2>3, <2>4, <2>5
<1>3. approved' \in [text : Text \cup {Li!Unset}, by : {"nobody", "review", "report"},
                     ready : BOOLEAN]
  <2> DEFINE A == [text : Text \cup {Li!Unset}, by : {"nobody", "review", "report"},
                   ready : BOOLEAN]
  <2>1. row.text \in Text /\ asset.ready \in BOOLEAN /\ approved \in A
    BY DEF LiInv, LiType, Li!TypeOK, Li!Listing
  <2>2. \/ approved' = approved
        \/ \E b \in {"review", "report"} :
               approved' = [text |-> row.text, by |-> b, ready |-> asset.ready]
        \/ \E t \in Text : approved' = [approved EXCEPT !.text = t]
    BY DEF Li!Delete, Li!Reject, Li!Remove, Li!Restore, Li!RestoreReported,
           Li!DeleteContent, Li!EditContent, Li!Decided
  <2> QED
    BY <2>1, <2>2
<1>4. Li!TypeOK'
  BY <1>1, <1>2, <1>3 DEF LiInv, LiType, Li!TypeOK
<1> QED
  BY <1>1, <1>2, <1>4, LiCrossing DEF LiInv, LiInReview

\* Decisions about the media: a listing that shows rejected media is rejected.
LEMMA LiMedia ==
  ASSUME LiInv, crossed' = (crossed \/ Li!Across), Li!RejectMedia \/ Li!ApproveMedia
  PROVE  LiInv'
<1>1. UNCHANGED <<orders, req, approved>>
  BY DEF Li!RejectMedia, Li!ApproveMedia
<1>2. /\ row' \in Li!Listing /\ row'.status = row.status
      /\ row'.text = row.text /\ row'.media = row.media
      /\ row'.review \in {row.review, "rejected"}
  BY DEF Li!RejectMedia, Li!ApproveMedia, LiInv, LiType, Li!TypeOK, Li!Listing
<1>3. asset' \in [ready : BOOLEAN, at : {"none", "here", "other"}]
  BY DEF Li!RejectMedia, Li!ApproveMedia, LiInv, LiType, Li!TypeOK
<1>4. ~crossed => LiReviewed(row)'
  BY <1>1, <1>2, <1>3 DEF Li!RejectMedia, Li!ApproveMedia, Li!Exists, LiInv, LiInReview, LiReviewed, Li!MediaApproved, Li!Unseen,
     LiType, Li!TypeOK, Li!Listing
<1> QED
  BY <1>1, <1>2, <1>3, <1>4, LiCrossing DEF LiInv, LiInReview, LiType, Li!TypeOK

\* Orders are placed on what is active, and sell it.
LEMMA LiOrder ==
  ASSUME LiInv, crossed' = (crossed \/ Li!Across),
         Li!OrderPlaced \/ \E b \in BOOLEAN : Li!OrderClosed(b)
  PROVE  LiInv'
<1>1. UNCHANGED <<asset, req, approved>>
  BY DEF Li!OrderPlaced, Li!OrderClosed
<1>2. row' = row \/ (orders = "open" /\ row' = [row EXCEPT !.status = "sold"])
  BY DEF Li!OrderPlaced, Li!OrderClosed
<1>3. /\ row' \in Li!Listing /\ row'.review = row.review
      /\ row'.text = row.text /\ row'.media = row.media
      /\ row'.status = row.status \/ (orders = "open" /\ row'.status = "sold")
  BY <1>2 DEF LiInv, LiType, Li!TypeOK, Li!Listing
<1>4. ~crossed => LiReviewed(row)'
  BY <1>1, <1>3 DEF LiInv, LiInReview, LiReviewed, Li!MediaApproved, Li!Unseen
<1>5. orders' = "open" => orders = "open" \/ row.status = "active"
  BY DEF Li!OrderPlaced, Li!OrderClosed
<1> QED
  BY <1>1, <1>3, <1>4, <1>5, LiCrossing DEF LiInv, LiInReview, LiType, Li!TypeOK

\* A request that begins: alone, unless it crosses another.
LEMMA LiBegin ==
  ASSUME LiInv, NEW r \in Reviewer, NEW q, req' = [req EXCEPT ![r] = q],
         crossed' = (crossed \/ Li!Across), UNCHANGED <<row, asset, orders, approved>>,
         LiRequest(q), ~crossed => LiFresh(q)
  PROVE  LiInv'
<1>1. /\ DOMAIN req' = Reviewer /\ req'[r] = q
      /\ \A p \in Reviewer : p # r => req'[p] = req[p]
  BY DEF LiInv, LiType
<1>2. LiType'
  BY <1>1 DEF LiInv, LiType, Li!TypeOK, Li!Listing, LiRequest
<1>3. ASSUME ~crossed' PROVE LiInReview'
  <2>1. ~crossed /\ \A p \in Reviewer : req[p].kind = "none"
    BY <1>3 DEF LiInv, LiType, Li!Across
  <2>2. LiFresh(q) /\ \A p \in Reviewer : p # r => req'[p].kind = "none"
    BY <1>1, <2>1
  <2> QED
    BY <1>1, <2>1, <2>2 DEF LiInv, LiInReview, LiReviewed, LiFresh, Li!Exists, Li!MediaApproved,
       Li!Unseen
<1> QED
  BY <1>2, <1>3 DEF LiInv

\* An approval reads the listing and the media it shows.
LEMMA LiApproveBegin ==
  ASSUME LiInv, crossed' = (crossed \/ Li!Across), NEW r \in Reviewer, Li!ApproveBegin(r)
  PROVE  LiInv'
<1> DEFINE l == [row EXCEPT !.review = "approved",
                            !.status = IF @ = "draft" THEN "active" ELSE @]
           q == [kind |-> "approve", read |-> row, attach |-> FALSE, set |-> l]
<1>1. /\ req' = [req EXCEPT ![r] = q] /\ UNCHANGED <<row, asset, orders, approved>>
      /\ Li!Exists /\ Li!MediaApproved
  BY DEF Li!ApproveBegin
<1>2. /\ row \in Li!Listing /\ l \in Li!Listing /\ l.text = row.text
      /\ l.status \notin {"none", "gone", "draft"}
  BY <1>1 DEF LiInv, LiType, Li!TypeOK, Li!Listing, Li!Exists
<1> HIDE DEF l
<1>3. LiRequest(q) /\ LiFresh(q)
  BY <1>1, <1>2 DEF LiRequest, LiFresh
<1> HIDE DEF q
<1> QED
  BY <1>1, <1>3, LiBegin

\* An edit decides what the listing becomes.
LEMMA LiUpdateBegin ==
  ASSUME LiInv, crossed' = (crossed \/ Li!Across), NEW r \in Reviewer, NEW c \in Li!Change,
         Li!UpdateBegin(r, c)
  PROVE  LiInv'
<1> DEFINE after == Li!Changed(row, c)
           set == IF Li!NeedsReview(row, after) THEN Li!Moderated(after) ELSE after
           attach == c.images \/ after.status # "draft"
           q == [kind |-> "update", read |-> row, attach |-> attach, set |-> set]
<1>1. /\ req' = [req EXCEPT ![r] = q] /\ UNCHANGED <<row, asset, orders, approved>>
      /\ Li!Exists
      /\ c.images => asset.ready
      /\ after.status # row.status /\ after.status # "active" => orders # "open"
      /\ after.status # "draft" => Li!OwnedReady(after.media)
  BY DEF Li!UpdateBegin
<1> HIDE DEF after
<1>2. /\ row \in Li!Listing /\ after \in Li!Listing /\ after.review = row.review
      /\ after.media = (IF c.images THEN "own" ELSE row.media)
      /\ after.status = row.status
           \/ (after.status = "active" /\ row.status \in {"inactive", "draft"})
           \/ (after.status \in {"inactive", "draft"} /\ row.status = "active")
  <2> DEFINE t == IF c.text = Li!Unset THEN row.text ELSE c.text
             m == IF c.images THEN "own" ELSE row.media
             s == IF \/ c.status = "active" /\ row.status \in {"inactive", "draft"}
                     \/ c.status \in {"inactive", "draft"} /\ row.status = "active"
                  THEN c.status ELSE row.status
  <2>1. row \in Li!Listing
    BY DEF LiInv, LiType, Li!TypeOK
  <2>2. t \in Text /\ m \in {"own", "foreign"}
    BY <2>1 DEF Li!Listing, Li!Change
  <2>3. /\ s \in {"none", "draft", "active", "inactive", "sold", "deleted", "gone"}
        /\ \/ s = row.status
           \/ s = "active" /\ row.status \in {"inactive", "draft"}
           \/ s \in {"inactive", "draft"} /\ row.status = "active"
    BY <2>1 DEF Li!Listing
  <2>4. after = [row EXCEPT !.text = t, !.media = m, !.status = s]
    BY <2>1 DEF after, Li!Changed, Li!Listing
  <2> HIDE DEF t, s, m
  <2>5. /\ after.text = t /\ after.media = m /\ after.status = s
        /\ after.review = row.review /\ after \in Li!Listing
    BY <2>1, <2>2, <2>3, <2>4 DEF Li!Listing
  <2> QED
    BY <2>1, <2>3, <2>5 DEF m
<1>3. /\ set \in Li!Listing /\ set.status = after.status /\ set.text = after.text
      /\ set.media = after.media
      /\ set.review = "approved" => after.review = "approved" /\ ~Li!NeedsReview(row, after)
  BY <1>2 DEF Li!Moderated, Li!Listing
<1> HIDE DEF set
<1>4. attach => asset.ready
  BY <1>1 DEF Li!OwnedReady
<1>5. ~crossed => LiReviewed(set)
  <2>1. SUFFICES ASSUME ~crossed, set.review = "approved"
                 PROVE  /\ set.status # "draft" => set.text = approved.text
                        /\ set.media = "own" => asset.ready \/ Li!Unseen
    BY DEF LiReviewed
  <2>2. row.review = "approved" /\ ~Li!NeedsReview(row, after) /\ LiReviewed(row)
    BY <1>2, <1>3, <2>1 DEF LiInv, LiInReview
  <2> row.status \notin {"none", "gone"}
    BY <1>1 DEF Li!Exists
  <2>3. ASSUME set.status # "draft" PROVE set.text = approved.text
    BY <1>2, <1>3, <2>2, <2>3 DEF Li!NeedsReview, LiReviewed
  <2>4. ASSUME set.media = "own" PROVE asset.ready \/ Li!Unseen
    BY <1>1, <1>2, <1>3, <2>2, <2>4 DEF LiReviewed
  <2> QED
    BY <2>3, <2>4
<1>6. ~crossed => set.status \notin {"none", "gone"} /\ (set.status = "draft" => orders # "open")
  BY <1>1, <1>2, <1>3 DEF LiInv, LiInReview, Li!Exists
<1> HIDE DEF attach
<1>7. LiRequest(q)
  BY <1>2, <1>3 DEF LiRequest
<1>8. ~crossed => LiFresh(q)
  BY <1>1, <1>4, <1>5, <1>6 DEF LiFresh
<1> HIDE DEF q
<1> QED
  BY <1>1, <1>7, <1>8, LiBegin

\* What a request has decided becomes the row, unless something has crossed it.
LEMMA LiCommit ==
  ASSUME LiInv, UNCHANGED crossed, NEW r \in Reviewer, Li!Commit(r)
  PROVE  LiInv'
<1> DEFINE q == req[r]
<1>1. /\ q.kind # "none" /\ req' = [req EXCEPT ![r] = Li!NoRequest] /\ UNCHANGED orders
      /\ approved' = IF q.kind = "approve"
                     THEN [text |-> q.read.text, by |-> "review", ready |-> asset.ready]
                     ELSE approved
      /\ asset' = IF Li!Exists /\ q.kind = "update" /\ q.attach THEN Li!Attached(asset) ELSE asset
      /\ row' = IF ~Li!Exists THEN row
                ELSE [status |-> Li!Saved(row.status, q.read.status, q.set.status),
                      review |-> Li!Saved(row.review, q.read.review, q.set.review),
                      text |-> Li!Saved(row.text, q.read.text, q.set.text),
                      media |-> Li!Saved(row.media, q.read.media, q.set.media)]
  BY DEF Li!Commit, Li!Decided
<1>2. /\ DOMAIN req' = Reviewer /\ req'[r].kind = "none"
      /\ \A p \in Reviewer : p # r => req'[p] = req[p]
  BY <1>1 DEF LiInv, LiType, Li!NoRequest
<1>3. q.read \in Li!Listing /\ q.set \in Li!Listing /\ q.kind \in {"update", "approve"}
  BY <1>1 DEF LiInv, LiType, LiRequest
<1>4. row' \in Li!Listing
  BY <1>1, <1>3 DEF Li!Saved, LiInv, LiType, Li!TypeOK, Li!Listing
<1>5. /\ asset' \in [ready : BOOLEAN, at : {"none", "here", "other"}]
      /\ asset'.ready = asset.ready
  BY <1>1 DEF Li!Attached, LiInv, LiType, Li!TypeOK
<1>6. approved' \in [text : Text \cup {Li!Unset}, by : {"nobody", "review", "report"},
                     ready : BOOLEAN]
  BY <1>1, <1>3 DEF LiInv, LiType, Li!TypeOK, Li!Listing
<1>7. LiType'
  BY <1>1, <1>2, <1>4, <1>5, <1>6 DEF LiInv, LiType, Li!TypeOK, LiRequest, Li!Listing
<1>8. ASSUME ~crossed' PROVE LiInReview'
  <2>1. ~crossed /\ LiInReview /\ LiFresh(q)
    BY <1>8 DEF LiInv, LiInReview
  <2>2. /\ row'.status = q.set.status /\ row'.review = q.set.review
        /\ row'.text = q.set.text /\ row'.media = q.set.media
    BY <1>1, <2>1 DEF LiFresh, Li!Saved
  <2>3. LiReviewed(row)'
    <3>1. CASE q.kind = "approve"
      BY <1>1, <2>1, <2>2, <3>1 DEF LiFresh, LiReviewed, Li!MediaApproved, Li!Unseen
    <3>2. CASE q.kind = "update"
      BY <1>1, <1>5, <2>1, <2>2, <3>2 DEF LiFresh, LiReviewed, Li!MediaApproved, Li!Unseen
    <3> QED
      BY <1>3, <3>1, <3>2
  <2>4. orders' = "open" => row'.status \notin {"none", "draft", "gone"}
    BY <1>1, <2>1, <2>2 DEF LiFresh
  <2>5. \A p \in Reviewer : req'[p].kind = "none"
    BY <1>1, <1>2, <2>1 DEF LiInReview
  <2> QED
    BY <2>3, <2>4, <2>5 DEF LiInReview, LiFresh
<1> QED
  BY <1>7, <1>8 DEF LiInv

\* What the invariant is about stays.
LEMMA LiStutter ==
  ASSUME LiInv, UNCHANGED <<row, asset, orders, req, approved, crossed>>
  PROVE  LiInv'
<1>1. LiType'
  BY DEF LiInv, LiType, Li!TypeOK, Li!Listing, LiRequest
<1>2. ~crossed' => LiInReview'
  BY DEF LiInv, LiInReview, LiReviewed, LiFresh, Li!Exists, Li!MediaApproved, Li!Unseen
<1> QED
  BY <1>1, <1>2 DEF LiInv

\* Every step of Listings keeps it.
LEMMA LiStep == LiInv /\ Li!Next => LiInv'
<1> SUFFICES ASSUME LiInv, Li!Next PROVE LiInv'
  OBVIOUS
<1>1. ASSUME UNCHANGED crossed, NEW r \in Reviewer, Li!Commit(r) PROVE LiInv'
  BY <1>1, LiCommit
<1>2. CASE crossed' = (crossed \/ Li!Across)
           /\ ~(UNCHANGED crossed /\ \E r \in Reviewer : Li!Commit(r))
  <2>1. ASSUME NEW s \in {"draft", "active"}, NEW t \in Text, Li!Create(s, t) PROVE LiInv'
    BY <1>2, <2>1, LiCreate
  <2>2. ASSUME NEW t \in Text, Li!CreateResale(t) PROVE LiInv'
    BY <1>2, <2>2, LiCreate
  <2>3. CASE \E t \in Text : Li!EditContent(t)
    BY <1>2, <2>3, LiDecision
  <2>4. ASSUME NEW r \in Reviewer, Li!ApproveBegin(r) PROVE LiInv'
    BY <1>2, <2>4, LiApproveBegin
  <2>5. ASSUME NEW r \in Reviewer, NEW c \in Li!Change, Li!UpdateBegin(r, c) PROVE LiInv'
    BY <1>2, <2>5, LiUpdateBegin
  <2>6. CASE Li!Delete \/ Li!Reject \/ Li!Remove \/ Li!Restore \/ Li!RestoreReported
             \/ Li!DeleteContent
    BY <1>2, <2>6, LiDecision
  <2>7. CASE Li!RejectMedia \/ Li!ApproveMedia
    BY <1>2, <2>7, LiMedia
  <2>8. CASE Li!OrderPlaced \/ \E b \in BOOLEAN : Li!OrderClosed(b)
    BY <1>2, <2>8, LiOrder
  <2> QED
    BY <1>2, <2>1, <2>2, <2>3, <2>4, <2>5, <2>6, <2>7, <2>8 DEF Li!Next
<1> QED
  BY <1>1, <1>2 DEF Li!Next

\* The invariant, of the component when it is the one that runs.
ListingsHold == component = "listings" => LiInv

\* It holds in every state.
LEMMA ListingsInvariant == Spec => []ListingsHold
<1>1. Init => ListingsHold
  BY LiInit DEF Init, ListingsHold
<1>2. ListingsHold /\ [Next]_vars => ListingsHold'
  <2> SUFFICES ASSUME ListingsHold, [Next]_vars, component' = "listings" PROVE LiInv'
    BY DEF ListingsHold
  <2>1. CASE ListingsStep
    BY <2>1, LiStep DEF ListingsStep, ListingsHold
  <2>2. CASE UNCHANGED vars
    BY <2>2, LiStutter DEF vars, liVars, ListingsHold
  <2>3. CASE Next /\ ~ListingsStep
    BY <2>3 DEF Next, IdentitiesStep, SessionsStep, PhoneCodesStep, CouponsStep, OutboxStep,
       MediaStep, MessagesStep, PayoutsStep, SharingStep
  <2> QED
    BY <2>1, <2>2, <2>3
<1> QED
  BY <1>1, <1>2, PTL DEF Spec

\* OnSaleWasReviewed: while no decision is made about a listing between what
\* another request has read and its commit, a listing that is on sale has the
\* text that an administrator approved or wrote, and shows an asset of its
\* seller only if that is approved, or if the administrator who put it on sale
\* did so from a report or with the asset attached elsewhere (listings.py,
\* admin_routes.py).
THEOREM ListingOnSaleWasReviewed == Spec => []OnSaleWasReviewed
<1>1. ListingsHold => OnSaleWasReviewed
  BY DEF ListingsHold, OnSaleWasReviewed, LiInv, LiInReview, LiReviewed, Li!OnSale,
     Li!OnSaleWasReviewed
<1> QED
  BY <1>1, ListingsInvariant, PTL

-----------------------------------------------------------------------------
\* Coupons.

\* What a request is doing.
CoOp == {"idle", "unclaimed", "available", "without", "pay"}

\* An unpaid order that has the coupon.
Claims(o) == order[o].status = "pendingPay" /\ order[o].coupon

CoType ==
    /\ Co!TypeOK
    /\ doing \in [Order -> [op : CoOp, read : Co!OrderRow]]
    /\ late \in BOOLEAN /\ mixed \in BOOLEAN

\* Whoever has the coupon in hand was given one that exists ...
CoIssued ==
    /\ \A o \in Order :
          /\ doing[o].op = "pay" => doing[o].read.status = "pendingPay"
          /\ order[o].coupon \/ doing[o].read.coupon \/ Co!Applying(o) => coupon # "none"
    /\ spent # {} => coupon # "none"

\* ... and one order at most has it, is about to have it, or has spent it.
CoClaimed ==
    /\ \A o, p \in spent : o = p
    /\ spent # {} => coupon # "available" /\ \A o \in Order : ~Claims(o)
    /\ \A o, p \in Order : o # p =>
          /\ Claims(o) => ~Claims(p)
          /\ Co!Applying(o) => ~Co!Applying(p) /\ ~Claims(p)
    /\ \A o \in Order : doing[o].op = "available" => spent = {}

CoInv == CoType /\ CoIssued /\ (~mixed => CoClaimed)

\* To begin with there is no coupon and no order.
LEMMA CoInit == Co!Init => CoInv
<1> SUFFICES ASSUME Co!Init PROVE CoInv
  OBVIOUS
<1>1. Co!NoOrder \in Co!OrderRow /\ Co!NoOrder.coupon = FALSE
  BY DEF Co!NoOrder, Co!OrderRow
<1>2. /\ coupon = "none" /\ late = FALSE /\ spent = {} /\ mixed = FALSE
      /\ order = [o \in Order |-> Co!NoOrder]
      /\ doing = [o \in Order |-> [op |-> "idle", read |-> Co!NoOrder]]
  BY DEF Co!Init
<1>3. CoType
  BY <1>1, <1>2 DEF CoType, Co!TypeOK, CoOp
<1>4. \A o \in Order : ~order[o].coupon /\ doing[o].op = "idle" /\ ~doing[o].read.coupon
  BY <1>1, <1>2
<1> QED
  BY <1>2, <1>3, <1>4 DEF CoInv, CoIssued, CoClaimed, Claims, Co!Applying

\* What a request that goes on, begins or ends does to `doing`.
LEMMA CoDoing ==
  ASSUME CoType, NEW o \in Order, NEW op \in CoOp, NEW was \in Co!OrderRow,
         doing' = [doing EXCEPT ![o] = [op |-> op, read |-> was]]
  PROVE  /\ doing' \in [Order -> [op : CoOp, read : Co!OrderRow]]
         /\ doing'[o].op = op /\ doing'[o].read = was
         /\ \A p \in Order : p # o => doing'[p] = doing[p]
  BY DEF CoType

\* A request reads the order that it is to apply the coupon to.
LEMMA CoApplyBegin == ASSUME CoInv, NEW o \in Order, Co!ApplyBegin(o) PROVE CoInv'
<1>1. /\ order' = order /\ coupon' = coupon /\ late' = late /\ spent' = spent
      /\ mixed' = (mixed \/ \E p \in Order : Co!Applying(p))
      /\ doing' = [doing EXCEPT ![o] = [op |-> "unclaimed", read |-> order[o]]]
      /\ coupon # "none"
  BY DEF Co!ApplyBegin, Co!Work
<1>2. order[o] \in Co!OrderRow
  BY DEF CoInv, CoType, Co!TypeOK
<1>3. /\ doing' \in [Order -> [op : CoOp, read : Co!OrderRow]]
      /\ doing'[o].op = "unclaimed" /\ doing'[o].read = order[o]
      /\ \A p \in Order : p # o => doing'[p] = doing[p]
  BY <1>1, <1>2, CoDoing DEF CoInv, CoOp
<1>4. CoType'
  BY <1>1, <1>3 DEF CoInv, CoType, Co!TypeOK
<1>5. CoIssued'
  BY <1>1, <1>3 DEF CoInv, CoIssued, Co!Applying
<1>6. \A p \in Order : p # o => ~Claims(p)
  BY DEF Co!ApplyBegin, Co!Unclaimed, Claims, CoInv, CoType, Co!TypeOK, Co!OrderRow
<1>7. ~mixed' => CoClaimed'
  BY <1>1, <1>3, <1>6 DEF CoInv, CoClaimed, Claims, Co!Applying
<1> QED
  BY <1>4, <1>5, <1>7 DEF CoInv

\* The order is paid: it spends the coupon that it has.
LEMMA CoFulfil == ASSUME CoInv, NEW o \in Order, Co!FulfillPaidOrder(o) PROVE CoInv'
<1>1. /\ doing[o].op = "pay"
      /\ order' = [order EXCEPT ![o].status = "paid"]
      /\ coupon' = IF doing[o].read.coupon THEN Co!Used ELSE coupon
      /\ spent' = IF doing[o].read.coupon THEN spent \cup {o} ELSE spent
      /\ mixed' = (mixed \/ order[o] # doing[o].read)
      /\ late' = late
      /\ doing' = [doing EXCEPT ![o] = [op |-> "idle", read |-> Co!NoOrder]]
  BY DEF Co!FulfillPaidOrder, Co!Done
<1>2. Co!NoOrder \in Co!OrderRow /\ ~Co!NoOrder.coupon
  BY DEF Co!OrderRow, Co!NoOrder
<1>3. /\ doing' \in [Order -> [op : CoOp, read : Co!OrderRow]]
      /\ doing'[o].op = "idle" /\ doing'[o].read = Co!NoOrder
      /\ \A p \in Order : p # o => doing'[p] = doing[p]
  BY <1>1, <1>2, CoDoing DEF CoInv, CoOp
<1>4. /\ order' \in [Order -> Co!OrderRow]
      /\ order'[o].status = "paid" /\ order'[o].coupon = order[o].coupon
      /\ \A p \in Order : p # o => order'[p] = order[p]
  BY <1>1 DEF CoInv, CoType, Co!TypeOK, Co!OrderRow
<1>5. /\ coupon' \in {"none", "available", "used", "expired"}
      /\ coupon = "none" <=> coupon' = "none"
      /\ coupon' = "available" => coupon = "available" /\ ~doing[o].read.coupon
  BY <1>1 DEF Co!Used, CoInv, CoType, Co!TypeOK
<1>6. CoType'
  BY <1>1, <1>3, <1>4, <1>5 DEF CoInv, CoType, Co!TypeOK
<1>7. CoIssued'
  BY <1>1, <1>2, <1>3, <1>4, <1>5 DEF CoInv, CoIssued, Co!Applying
<1>8. ASSUME ~mixed' PROVE CoClaimed'
  <2>1. ~mixed /\ order[o] = doing[o].read /\ CoClaimed
    BY <1>1, <1>8 DEF CoInv
  <2>2. \A p \in Order : (Claims(p)' => Claims(p)) /\ (Co!Applying(p)' => Co!Applying(p))
    BY <1>1, <1>3, <1>4 DEF Claims, Co!Applying
  <2>3. CASE doing[o].read.coupon
    <3>1. Claims(o)
      BY <1>1, <2>1, <2>3 DEF CoInv, CoIssued, Claims
    <3>2. spent' = {o}
      BY <1>1, <2>1, <2>3, <3>1 DEF CoClaimed
    <3>3. \A p \in Order : ~Claims(p)'
      BY <1>4, <2>1, <2>2, <3>1 DEF CoClaimed, Claims
    <3>4. \A p \in Order : doing'[p].op # "available"
      BY <1>1, <1>3, <2>1, <3>1 DEF CoClaimed, Co!Applying
    <3> QED
      BY <1>5, <2>1, <2>2, <2>3, <3>2, <3>3, <3>4 DEF CoClaimed
  <2>4. CASE ~doing[o].read.coupon
    BY <1>1, <1>3, <1>5, <2>1, <2>2, <2>4 DEF CoClaimed
  <2> QED
    BY <2>3, <2>4
<1> QED
  BY <1>6, <1>7, <1>8 DEF CoInv

\* ApplyCheck: the coupon is available, or the request ends.
LEMMA CoApplyCheck == ASSUME CoInv, NEW o \in Order, Co!ApplyCheck(o) PROVE CoInv'
<1> DEFINE ok == coupon = "available" /\ ~late
<1>1. /\ doing[o].op = "unclaimed"
      /\ order' = order /\ coupon' = coupon /\ late' = late /\ spent' = spent /\ mixed' = mixed
      /\ doing' = IF ok THEN [doing EXCEPT ![o].op = "available"]
                  ELSE [doing EXCEPT ![o] = [op |-> "idle", read |-> Co!NoOrder]]
  BY DEF Co!ApplyCheck, Co!Continue, Co!Done
<1>2. Co!NoOrder \in Co!OrderRow /\ ~Co!NoOrder.coupon
  BY DEF Co!OrderRow, Co!NoOrder
<1>3. /\ doing' \in [Order -> [op : CoOp, read : Co!OrderRow]]
      /\ doing'[o].op = IF ok THEN "available" ELSE "idle"
      /\ ~doing'[o].read.coupon \/ doing'[o].read = doing[o].read
      /\ \A p \in Order : p # o => doing'[p] = doing[p]
  <2>1. CASE ok
    BY <1>1, <2>1 DEF CoInv, CoType, CoOp
  <2>2. CASE ~ok
    BY <1>1, <1>2, <2>2, CoDoing DEF CoInv, CoOp
  <2> QED
    BY <2>1, <2>2
<1>4. CoType'
  BY <1>1, <1>3 DEF CoInv, CoType, Co!TypeOK
<1>5. CoIssued'
  BY <1>1, <1>3 DEF CoInv, CoIssued, Co!Applying
<1>6. ~mixed' => CoClaimed'
  BY <1>1, <1>3 DEF CoInv, CoClaimed, Claims, Co!Applying
<1> QED
  BY <1>4, <1>5, <1>6 DEF CoInv

\* The two commits that write what a request has made of the order it read.
LEMMA CoCommitted ==
  ASSUME CoInv, NEW o \in Order, NEW with \in BOOLEAN, Co!Committed(o, with),
         doing[o].op = IF with THEN "available" ELSE "without",
         UNCHANGED <<coupon, late, spent>>
  PROVE  CoInv'
<1> DEFINE read == doing[o].read
           new == [status |-> IF read.status = "none" THEN "pendingPay" ELSE order[o].status,
                   coupon |-> IF read.coupon # with THEN with ELSE order[o].coupon]
<1>1. /\ coupon' = coupon /\ late' = late /\ spent' = spent
      /\ order' = [order EXCEPT ![o] = new]
      /\ mixed' = (mixed \/ order[o] # read)
      /\ doing' = [doing EXCEPT ![o] = [op |-> "idle", read |-> Co!NoOrder]]
  BY DEF Co!Committed, Co!Done
<1>2. Co!NoOrder \in Co!OrderRow /\ ~Co!NoOrder.coupon
  BY DEF Co!OrderRow, Co!NoOrder
<1>3. /\ doing' \in [Order -> [op : CoOp, read : Co!OrderRow]]
      /\ doing'[o].op = "idle" /\ doing'[o].read = Co!NoOrder
      /\ \A p \in Order : p # o => doing'[p] = doing[p]
  BY <1>1, <1>2, CoDoing DEF CoInv, CoOp
<1>4. /\ order[o] \in Co!OrderRow /\ read \in Co!OrderRow /\ new \in Co!OrderRow
      /\ new.coupon => with \/ order[o].coupon
      /\ order[o] = read => new.coupon = with
  BY DEF CoInv, CoType, Co!TypeOK, Co!OrderRow
<1> HIDE DEF read, new
<1>5. /\ order' \in [Order -> Co!OrderRow] /\ order'[o] = new
      /\ \A p \in Order : p # o => order'[p] = order[p]
  BY <1>1, <1>4 DEF CoInv, CoType, Co!TypeOK
<1>6. CoType'
  BY <1>1, <1>3, <1>5 DEF CoInv, CoType, Co!TypeOK
<1>7. CoIssued'
  BY <1>1, <1>2, <1>3, <1>4, <1>5 DEF CoInv, CoIssued, Co!Applying
<1>8. ASSUME ~mixed' PROVE CoClaimed'
  <2>1. ~mixed /\ CoClaimed /\ (Claims(o)' => with)
    BY <1>1, <1>4, <1>5, <1>8 DEF CoInv, Claims
  <2>2. /\ ~Co!Applying(o)'
        /\ with => Co!Applying(o) /\ spent = {}
    BY <1>3, <2>1 DEF Co!Applying, CoClaimed
  <2>3. \A p \in Order : p # o =>
          (Claims(p)' <=> Claims(p)) /\ (Co!Applying(p)' <=> Co!Applying(p))
    BY <1>3, <1>5 DEF Claims, Co!Applying
  <2>4. \A p \in Order : doing'[p].op = "available" => spent' = {}
    BY <1>1, <1>3, <2>1 DEF CoClaimed
  <2> QED
    BY <1>1, <2>1, <2>2, <2>3, <2>4 DEF CoClaimed
<1> QED
  BY <1>6, <1>7, <1>8 DEF CoInv

\* The coupon is on the order.
LEMMA CoApplyCommit == ASSUME CoInv, NEW o \in Order, Co!ApplyCommit(o) PROVE CoInv'
  BY CoCommitted DEF Co!ApplyCommit

\* The coupon is off the order.
LEMMA CoWithoutCommit == ASSUME CoInv, NEW o \in Order, Co!WithoutCommit(o) PROVE CoInv'
  BY CoCommitted DEF Co!WithoutCommit

\* Requests that read an order.
LEMMA CoRead ==
  ASSUME CoInv, NEW o \in Order, NEW op \in {"without", "pay"}, Co!Work(o, op),
         op = "pay" => order[o].status = "pendingPay",
         UNCHANGED <<coupon, late, order, spent, mixed>>
  PROVE  CoInv'
<1>1. /\ order' = order /\ coupon' = coupon /\ late' = late /\ spent' = spent /\ mixed' = mixed
      /\ doing' = [doing EXCEPT ![o] = [op |-> op, read |-> order[o]]]
  BY DEF Co!Work
<1>2. order[o] \in Co!OrderRow /\ op \in CoOp
  BY DEF CoInv, CoType, Co!TypeOK, CoOp
<1>3. /\ doing' \in [Order -> [op : CoOp, read : Co!OrderRow]]
      /\ doing'[o].op = op /\ doing'[o].read = order[o]
      /\ \A p \in Order : p # o => doing'[p] = doing[p]
  BY <1>1, <1>2, CoDoing DEF CoInv
<1>4. CoType'
  BY <1>1, <1>3 DEF CoInv, CoType, Co!TypeOK
<1>5. CoIssued'
  BY <1>1, <1>3 DEF CoInv, CoIssued, Co!Applying
<1>6. ~mixed' => CoClaimed'
  BY <1>1, <1>3 DEF CoInv, CoClaimed, Claims, Co!Applying
<1> QED
  BY <1>4, <1>5, <1>6 DEF CoInv

\* The order ends unpaid.
LEMMA CoCancel ==
  ASSUME CoInv, NEW o \in Order, NEW off \in BOOLEAN, Co!CancelOrder(o, off)
  PROVE  CoInv'
<1>1. /\ coupon' = coupon /\ late' = late /\ doing' = doing /\ spent' = spent /\ mixed' = mixed
      /\ order' = [order EXCEPT ![o].status = "cancelled", ![o].coupon = @ /\ ~off]
  BY DEF Co!CancelOrder
<1>2. /\ order' \in [Order -> Co!OrderRow]
      /\ order'[o].status = "cancelled" /\ order'[o].coupon = (order[o].coupon /\ ~off)
      /\ \A p \in Order : p # o => order'[p] = order[p]
  BY <1>1 DEF CoInv, CoType, Co!TypeOK, Co!OrderRow
<1>3. CoType'
  BY <1>1, <1>2 DEF CoInv, CoType, Co!TypeOK
<1>4. CoIssued'
  BY <1>1, <1>2 DEF CoInv, CoIssued, Co!Applying
<1>5. ~mixed' => CoClaimed'
  BY <1>1, <1>2 DEF CoInv, CoClaimed, Claims, Co!Applying
<1> QED
  BY <1>3, <1>4, <1>5 DEF CoInv

\* The coupon itself, and its time.
LEMMA CoCoupon ==
  ASSUME CoInv, Co!IssueCoupon \/ Co!RefreshExpired \/ Co!TimePasses \/ UNCHANGED Co!vars
  PROVE  CoInv'
<1>1. /\ order' = order /\ doing' = doing /\ spent' = spent /\ mixed' = mixed
      /\ late' \in {late, TRUE}
      /\ \/ coupon' = coupon
         \/ coupon = "none" /\ coupon' = "available"
         \/ coupon' = "expired"
  BY DEF Co!IssueCoupon, Co!RefreshExpired, Co!TimePasses, Co!vars
<1>2. CoType'
  BY <1>1 DEF CoInv, CoType, Co!TypeOK
<1>3. CoIssued'
  BY <1>1 DEF CoInv, CoIssued, Co!Applying
<1>4. ~mixed' => CoClaimed'
  BY <1>1 DEF CoInv, CoIssued, CoClaimed, Claims, Co!Applying
<1> QED
  BY <1>2, <1>3, <1>4 DEF CoInv

\* Every step of Coupons keeps the invariant.
LEMMA CoStep == CoInv /\ [Co!Next]_(Co!vars) => CoInv'
<1> SUFFICES ASSUME CoInv, [Co!Next]_(Co!vars) PROVE CoInv'
  OBVIOUS
<1>1. ASSUME NEW o \in Order, Co!WithoutBegin(o) \/ Co!PayBegin(o) PROVE CoInv'
  BY <1>1, CoRead DEF Co!WithoutBegin, Co!PayBegin
<1>2. ASSUME NEW o \in Order, NEW off \in BOOLEAN, Co!CancelOrder(o, off) PROVE CoInv'
  BY <1>2, CoCancel
<1>3. ASSUME NEW o \in Order,
             \/ Co!ApplyBegin(o) \/ Co!ApplyCheck(o) \/ Co!ApplyCommit(o)
             \/ Co!WithoutCommit(o) \/ Co!FulfillPaidOrder(o)
      PROVE  CoInv'
  BY <1>3, CoApplyBegin, CoApplyCheck, CoApplyCommit, CoWithoutCommit, CoFulfil
<1> QED
  BY <1>1, <1>2, <1>3, CoCoupon DEF Co!Next

\* Cardinality is the same operator wherever it is instantiated.
LEMMA CoCardinality == \A S : Co!Cardinality(S) = Cardinality(S)
  BY DEF Co!Cardinality, Cardinality

\* One order at most has spent the coupon.
LEMMA CoSpentOnce == CoInv => Co!SpentOnce
<1> SUFFICES ASSUME CoInv, ~mixed
             PROVE  Cardinality(spent) <= 1 /\ (spent # {} => coupon # "available")
  BY CoCardinality DEF Co!SpentOnce
<1>1. CoClaimed
  BY DEF CoInv
<1>2. CASE spent = {}
  BY <1>2, FS_EmptySet
<1>3. ASSUME NEW o \in spent PROVE Cardinality(spent) <= 1
  <2>1. spent = {o}
    BY <1>1 DEF CoClaimed
  <2> QED
    BY <2>1, FS_Singleton
<1> QED
  BY <1>1, <1>2, <1>3 DEF CoClaimed

\* The invariant, of the component when it is the one that runs.
CouponsHold == component = "coupons" => CoInv

\* It holds in every state.
LEMMA CouponsInvariant == Spec => []CouponsHold
<1>1. Init => CouponsHold
  BY CoInit DEF Init, CouponsHold
<1>2. CouponsHold /\ [Next]_vars => CouponsHold'
  <2> SUFFICES ASSUME CouponsHold, [Next]_vars, component' = "coupons" PROVE CoInv'
    BY DEF CouponsHold
  <2>1. CASE CouponsStep
    BY <2>1, CoStep DEF CouponsStep, CouponsHold
  <2>2. CASE UNCHANGED vars
    BY <2>2, CoStep DEF vars, coVars, Co!vars, CouponsHold
  <2>3. CASE Next /\ ~CouponsStep
    BY <2>3 DEF Next, IdentitiesStep, SessionsStep, PhoneCodesStep, OutboxStep, MediaStep,
       MessagesStep, ListingsStep, PayoutsStep, SharingStep
  <2> QED
    BY <2>1, <2>2, <2>3
<1> QED
  BY <1>1, <1>2, PTL DEF Spec

\* SpentOnce: one coupon reduces the price of one paid order, unless the coupon is
\* applied to two orders at the same time or to one that is being paid
\* (orders.py, apply_coupon_to_order).
THEOREM CouponSpentOnce == Spec => []SpentOnce
<1>1. CouponsHold => SpentOnce
  BY CoSpentOnce DEF CouponsHold, SpentOnce
<1> QED
  BY <1>1, CouponsInvariant, PTL

-----------------------------------------------------------------------------
\* Sharing.

\* What a request has read of the session.
ShAssociation == [consent : BOOLEAN, linked : User \cup {Nobody}]

\* A request knows its user and what it has read.
ShRequest(q) ==
    /\ q.op \in {"idle", "event", "link", "consume"}
    /\ q.op = "event" =>
          q.user \in User \cup {Nobody} /\ q.kind \in Kind /\ q.anon \in BOOLEAN
    /\ q.op \in {"link", "consume"} => q.user \in User /\ q.read \in ShAssociation

ShType ==
    /\ Sh!TypeOK
    /\ DOMAIN req = Request /\ \A r \in Request : ShRequest(req[r])
    /\ stale \in BOOLEAN

\* Requests that associate the session have seen it linked to nobody else; it
\* exists.
ShMayAssociate(q) ==
    /\ q.op = "link" => anon.exists /\ q.read.linked \in {q.user, Nobody}
    /\ q.op = "consume" =>
          action.status # "none" /\ (action.anon => q.read.linked \in {q.user, Nobody})

\* What is attributed to a user by the session, or is about to be.
ShAttributed(e) == e.anon /\ e.user # Nobody => anon.linked = e.user

ShSession ==
    /\ \A r \in Request : ShMayAssociate(req[r])
    /\ (anon.linked # Nobody) \/ action.anon => anon.exists
    /\ action.anon => action.status # "none"

\* While nothing stale is written: a linked session has the consent, and all that
\* is attributed to a user by it is attributed to whom it is linked to.
ShOfOne ==
    /\ anon.linked # Nobody => anon.consent
    /\ \A e \in events : ShAttributed(e)
    /\ \A r \in Request : req[r].op = "event" => ShAttributed(req[r])

ShInv == ShType /\ ShSession /\ (~stale => ShOfOne)

\* To begin with nobody has come.
LEMMA ShInit == Sh!Init => ShInv
<1> SUFFICES ASSUME Sh!Init PROVE ShInv
  OBVIOUS
<1>1. /\ \A r \in Request : req[r].op = "idle"
      /\ DOMAIN req = Request
  BY DEF Sh!Init, Sh!Idle
<1>2. Sh!TypeOK
  BY ShareAssumption DEF Sh!Init, Sh!TypeOK, Sh!ShareRecord, Sh!AnonymousSession, Sh!PendingAction
<1> QED
  BY <1>1, <1>2 DEF Sh!Init, ShInv, ShType, ShSession, ShOfOne, ShRequest, ShMayAssociate,
     ShAttributed

\* Steps of the link: nothing else changes.
LEMMA ShLink ==
  ASSUME ShInv, Sh!CreateShareLink \/ Sh!MarkExpired \/ Sh!ResolveShareLink
  PROVE  ShInv'
<1>1. UNCHANGED <<world, anon, action, events, req, stale>>
  BY DEF Sh!CreateShareLink, Sh!MarkExpired, Sh!ResolveShareLink
<1>2. share' \in Sh!ShareRecord
  BY ShareAssumption DEF Sh!CreateShareLink, Sh!MarkExpired, Sh!ResolveShareLink,
     ShInv, ShType, Sh!TypeOK, Sh!ShareRecord
<1> QED
  BY <1>1, <1>2 DEF ShInv, ShType, Sh!TypeOK, ShSession, ShOfOne, ShRequest, ShMayAssociate,
     ShAttributed, Sh!AnonymousSession, Sh!PendingAction, Sh!World, Sh!Business

\* A request that begins, and changes nothing else.
LEMMA ShBegin ==
  ASSUME ShInv, NEW r \in Request, NEW q, req' = [req EXCEPT ![r] = q],
         ShRequest(q), ShMayAssociate(q), q.op = "event" => ShAttributed(q),
         UNCHANGED <<world, share, anon, action, events, stale>>
  PROVE  ShInv'
<1>1. /\ DOMAIN req' = Request /\ req'[r] = q
      /\ \A p \in Request : p # r => req'[p] = req[p]
  BY DEF ShInv, ShType
<1>2. \A p \in Request : ShRequest(req'[p])
  BY <1>1 DEF ShInv, ShType
<1>3. ShType'
  BY <1>1, <1>2 DEF ShInv, ShType, Sh!TypeOK, Sh!ShareRecord, Sh!AnonymousSession,
     Sh!PendingAction, Sh!World, Sh!Business, ShRequest, ShAssociation
<1>4. ShSession'
  BY <1>1 DEF ShInv, ShSession, ShMayAssociate
<1>5. ~stale' => ShOfOne'
  BY <1>1 DEF ShInv, ShOfOne, ShAttributed
<1> QED
  BY <1>3, <1>4, <1>5 DEF ShInv

\* An event is let through.
LEMMA ShEventBegin ==
  ASSUME ShInv, NEW r \in Request, NEW u \in User \cup {Nobody}, NEW k \in Kind,
         NEW withAnon \in BOOLEAN, Sh!EventBegin(r, u, k, withAnon)
  PROVE  ShInv'
<1> DEFINE q == [op |-> "event", user |-> u, kind |-> k, anon |-> withAnon]
<1>1. /\ req' = [req EXCEPT ![r] = q]
      /\ UNCHANGED <<world, share, anon, action, events, stale>>
  BY DEF Sh!EventBegin
<1>2. ShRequest(q) /\ ShMayAssociate(q)
  BY DEF ShRequest, ShMayAssociate
<1>3. ShAttributed(q)
  BY DEF ShAttributed, Sh!EventBegin, Sh!SessionAllows
<1> HIDE DEF q
<1> QED
  BY <1>1, <1>2, <1>3, ShBegin

\* A request is to link the session to its user.
LEMMA ShLinkBegin ==
  ASSUME ShInv, NEW r \in Request, NEW u \in User, Sh!LinkBegin(r, u)
  PROVE  ShInv'
<1> DEFINE q == [op |-> "link", user |-> u, read |-> Sh!Association]
<1>1. /\ req' = [req EXCEPT ![r] = q]
      /\ UNCHANGED <<world, share, anon, action, events, stale>>
  BY DEF Sh!LinkBegin
<1>2. Sh!Association \in ShAssociation
  BY DEF ShInv, ShType, Sh!TypeOK, Sh!AnonymousSession, Sh!Association, ShAssociation
<1>3. Sh!Association.linked \in {u, Nobody} /\ anon.exists
  BY DEF Sh!LinkBegin, Sh!LinkedTo, Sh!Association, Sh!Usable
<1>4. ShRequest(q) /\ ShMayAssociate(q) /\ q.op # "event"
  BY <1>2, <1>3 DEF ShRequest, ShMayAssociate
<1> HIDE DEF q
<1> QED
  BY <1>1, <1>4, ShBegin

\* A request is to finish the pending action of the session.
LEMMA ShConsumeBegin ==
  ASSUME ShInv, NEW r \in Request, NEW u \in User, Sh!ConsumeBegin(r, u)
  PROVE  ShInv'
<1> DEFINE q == [op |-> "consume", user |-> u, read |-> Sh!Association]
<1>1. /\ req' = [req EXCEPT ![r] = q]
      /\ UNCHANGED <<world, share, anon, action, events, stale>>
  BY DEF Sh!ConsumeBegin
<1>2. Sh!Association \in ShAssociation
  BY DEF ShInv, ShType, Sh!TypeOK, Sh!AnonymousSession, Sh!Association, ShAssociation
<1>3. /\ action.status # "none"
      /\ action.anon => Sh!Association.linked \in {u, Nobody}
  BY DEF Sh!ConsumeBegin, Sh!LinkedTo, Sh!Association
<1>4. ShRequest(q) /\ ShMayAssociate(q) /\ q.op # "event"
  BY <1>2, <1>3 DEF ShRequest, ShMayAssociate
<1> HIDE DEF q
<1> QED
  BY <1>1, <1>4, ShBegin

\* An event is recorded as the request was let through.
LEMMA ShEventCommit ==
  ASSUME ShInv, NEW r \in Request, Sh!EventCommit(r)
  PROVE  ShInv'
<1> DEFINE e0 == [user |-> req[r].user, kind |-> req[r].kind, anon |-> req[r].anon]
<1>1. /\ req' = [req EXCEPT ![r] = Sh!Idle] /\ req[r].op = "event"
      /\ UNCHANGED <<world, anon, action, stale>>
  BY DEF Sh!EventCommit
<1>2. /\ DOMAIN req' = Request /\ req'[r].op = "idle"
      /\ \A p \in Request : p # r => req'[p] = req[p]
  BY <1>1 DEF ShInv, ShType, Sh!Idle
<1>3. share' \in Sh!ShareRecord
  BY DEF Sh!EventCommit, ShInv, ShType, Sh!TypeOK, Sh!ShareRecord
<1>4. events' = events \/ events' = events \cup {e0}
  BY DEF Sh!EventCommit
<1>5. /\ e0.user = req[r].user /\ e0.kind = req[r].kind /\ e0.anon = req[r].anon
      /\ e0.user \in User \cup {Nobody} /\ e0.kind \in Kind
  BY <1>1 DEF ShInv, ShType, ShRequest
<1> HIDE DEF e0
<1>6. \A e \in events' : e.user \in User \cup {Nobody} /\ e.kind \in Kind
  BY <1>4, <1>5 DEF ShInv, ShType, Sh!TypeOK
<1>7. \A p \in Request : ShRequest(req'[p])
  BY <1>2 DEF ShInv, ShType, ShRequest
<1>8. ShType'
  BY <1>1, <1>2, <1>3, <1>6, <1>7 DEF ShInv, ShType, Sh!TypeOK, Sh!ShareRecord,
     Sh!AnonymousSession, Sh!PendingAction, Sh!World, Sh!Business, ShRequest, ShAssociation
<1>9. ShSession'
  BY <1>1, <1>2 DEF ShInv, ShSession, ShMayAssociate
<1>10. ~stale' => ShOfOne'
  BY <1>1, <1>2, <1>4, <1>5 DEF ShInv, ShOfOne, ShAttributed
<1> QED
  BY <1>8, <1>9, <1>10 DEF ShInv

\* A request that associates the session with its user and ends.
LEMMA ShAssociated ==
  ASSUME ShInv, NEW r \in Request, req[r].op \in {"link", "consume"}, Sh!Associated(req[r]),
         anon.exists, req[r].read.linked \in {req[r].user, Nobody},
         req' = [req EXCEPT ![r] = Sh!Idle], UNCHANGED <<world, share, events>>,
         action' \in Sh!PendingAction, action'.anon = action.anon,
         action'.status # "none" \/ action'.status = action.status
  PROVE  ShInv'
<1> DEFINE q == req[r]
<1>1. /\ DOMAIN req' = Request /\ req'[r].op = "idle"
      /\ \A p \in Request : p # r => req'[p] = req[p]
  BY DEF ShInv, ShType, Sh!Idle
<1>2. q.user \in User /\ q.read \in ShAssociation
  BY DEF ShInv, ShType, ShRequest
<1>3. stale' = (stale \/ Sh!Association # q.read)
  BY DEF Sh!Associated
<1>4. \/ anon' = anon /\ ~(q.read.consent /\ q.read.linked # q.user)
      \/ /\ anon' = [anon EXCEPT !.linked = q.user]
         /\ q.read.consent /\ q.read.linked # q.user
  BY DEF Sh!Associated
<1>5. anon' \in Sh!AnonymousSession /\ anon'.exists /\ anon'.consent = anon.consent
  BY <1>2, <1>4 DEF ShInv, ShType, Sh!TypeOK, Sh!AnonymousSession
<1>6. \A p \in Request : ShRequest(req'[p])
  BY <1>1 DEF ShInv, ShType, ShRequest
<1>7. ShType'
  <2>1. stale' \in BOOLEAN
    BY <1>3 DEF ShInv, ShType
  <2> QED
    BY <1>1, <1>5, <1>6, <2>1 DEF ShInv, ShType, Sh!TypeOK, Sh!ShareRecord,
     Sh!AnonymousSession, Sh!PendingAction, Sh!World, Sh!Business, ShRequest, ShAssociation
<1>8. ShSession'
  BY <1>1, <1>5 DEF ShInv, ShSession, ShMayAssociate
<1>9. ASSUME ~stale' PROVE ShOfOne'
  <2>1. ~stale /\ anon.consent = q.read.consent /\ anon.linked = q.read.linked
    <3>1. ~stale /\ Sh!Association = q.read
      BY <1>3, <1>9 DEF ShInv, ShType
    <3>2. Sh!Association.consent = anon.consent /\ Sh!Association.linked = anon.linked
      BY DEF Sh!Association
    <3> QED
      BY <3>1, <3>2
  <2>2. anon' = anon \/ (anon.consent /\ anon.linked = Nobody /\ anon'.linked = q.user)
    BY <1>4, <2>1 DEF ShInv, ShType, Sh!TypeOK, Sh!AnonymousSession
  <2>3. anon'.linked # Nobody => anon'.consent
    BY <1>5, <2>1, <2>2 DEF ShInv, ShOfOne
  <2>4. \A e \in events : ShAttributed(e)'
    BY <2>1, <2>2 DEF ShInv, ShOfOne, ShAttributed
  <2>5. \A p \in Request : req'[p].op = "event" =>
          (req'[p].anon /\ req'[p].user # Nobody => anon'.linked = req'[p].user)
    BY <1>1, <2>1, <2>2 DEF ShInv, ShOfOne, ShAttributed
  <2> QED
    BY <2>3, <2>4, <2>5 DEF ShOfOne, ShAttributed
<1> QED
  BY <1>7, <1>8, <1>9 DEF ShInv

\* The session is linked.
LEMMA ShLinkCommit ==
  ASSUME ShInv, NEW r \in Request, Sh!LinkCommit(r)
  PROVE  ShInv'
<1>1. /\ req[r].op = "link" /\ Sh!Associated(req[r]) /\ req' = [req EXCEPT ![r] = Sh!Idle]
      /\ UNCHANGED <<world, share, action, events>>
  BY DEF Sh!LinkCommit
<1>2. /\ anon.exists /\ req[r].read.linked \in {req[r].user, Nobody}
      /\ action' \in Sh!PendingAction
  BY <1>1 DEF ShInv, ShType, Sh!TypeOK, ShSession, ShMayAssociate
<1> QED
  BY <1>1, <1>2, ShAssociated

\* The pending action is finished.
LEMMA ShConsumeCommit ==
  ASSUME ShInv, NEW r \in Request, Sh!ConsumeCommit(r)
  PROVE  ShInv'
<1>1. /\ req[r].op = "consume" /\ req' = [req EXCEPT ![r] = Sh!Idle]
      /\ action' = [action EXCEPT !.status = "consumed", !.user = req[r].user]
      /\ UNCHANGED <<world, share, events>>
      /\ IF action.anon THEN Sh!Associated(req[r]) ELSE UNCHANGED <<anon, stale>>
  BY DEF Sh!ConsumeCommit
<1>2. req[r].user \in User
  BY <1>1 DEF ShInv, ShType, ShRequest
<1>3. /\ action' \in Sh!PendingAction /\ action'.status = "consumed"
      /\ action'.anon = action.anon
  BY <1>1, <1>2 DEF ShInv, ShType, Sh!TypeOK, Sh!PendingAction
<1>4. CASE action.anon
  <2>1. anon.exists /\ req[r].read.linked \in {req[r].user, Nobody}
    BY <1>1, <1>4 DEF ShInv, ShSession, ShMayAssociate
  <2> QED
    BY <1>1, <1>3, <1>4, <2>1, ShAssociated
<1>5. CASE ~action.anon
  <2>1. /\ DOMAIN req' = Request /\ req'[r].op = "idle"
        /\ \A p \in Request : p # r => req'[p] = req[p]
    BY <1>1 DEF ShInv, ShType, Sh!Idle
  <2>2. \A p \in Request : ShRequest(req'[p])
    BY <2>1 DEF ShInv, ShType, ShRequest
  <2>3. ShType'
    BY <1>1, <1>3, <1>5, <2>1, <2>2 DEF ShInv, ShType, Sh!TypeOK, Sh!ShareRecord,
     Sh!AnonymousSession, Sh!PendingAction, Sh!World, Sh!Business, ShRequest, ShAssociation
  <2>4. ShSession'
    BY <1>1, <1>3, <1>5, <2>1 DEF ShInv, ShSession, ShMayAssociate
  <2>5. ~stale' => ShOfOne'
    BY <1>1, <1>5, <2>1 DEF ShInv, ShOfOne, ShAttributed
  <2> QED
    BY <2>3, <2>4, <2>5 DEF ShInv
<1> QED
  BY <1>4, <1>5

\* Steps of the session on its own: it is not linked to anybody else, and keeps
\* the consent when it is linked.
LEMMA ShSessionStep ==
  ASSUME ShInv, NEW consent \in BOOLEAN,
         Sh!CreateAnonymousSession(consent) \/ Sh!UpdateConsent(consent) \/ Sh!SessionEnds
  PROVE  ShInv'
<1>1. UNCHANGED <<world, share, action, events, req, stale>>
  BY DEF Sh!CreateAnonymousSession, Sh!UpdateConsent, Sh!SessionEnds
<1>2. /\ anon' \in Sh!AnonymousSession /\ anon'.exists
      /\ anon'.linked = anon.linked
      /\ anon.linked = Nobody \/ anon'.consent = anon.consent
  BY DEF Sh!CreateAnonymousSession, Sh!UpdateConsent, Sh!SessionEnds, Sh!MayChangeConsent,
     Sh!Usable, ShInv, ShType, ShSession, Sh!TypeOK, Sh!AnonymousSession
<1>3. ShType'
  BY <1>1, <1>2 DEF ShInv, ShType, Sh!TypeOK, Sh!ShareRecord,
     Sh!AnonymousSession, Sh!PendingAction, Sh!World, Sh!Business, ShRequest, ShAssociation
<1>4. ShSession'
  BY <1>1, <1>2 DEF ShInv, ShSession, ShMayAssociate
<1>5. ~stale' => ShOfOne'
  BY <1>1, <1>2 DEF ShInv, ShOfOne, ShAttributed
<1> QED
  BY <1>3, <1>4, <1>5 DEF ShInv

\* Steps of the action on its own.
LEMMA ShActionStep ==
  ASSUME ShInv, NEW withAnon \in BOOLEAN, Sh!CreatePendingAction(withAnon) \/ Sh!ConsumeExpired
  PROVE  ShInv'
<1>1. UNCHANGED <<world, share, anon, events, req, stale>>
  BY DEF Sh!CreatePendingAction, Sh!ConsumeExpired
<1>2. /\ action' \in Sh!PendingAction /\ action'.status # "none"
      /\ action'.anon => anon.exists
      /\ action.status = "none" \/ action'.anon = action.anon
  BY DEF Sh!CreatePendingAction, Sh!ConsumeExpired, Sh!Usable, ShInv, ShType, ShSession,
     Sh!TypeOK, Sh!PendingAction
<1>3. ShType'
  BY <1>1, <1>2 DEF ShInv, ShType, Sh!TypeOK, Sh!ShareRecord,
     Sh!AnonymousSession, Sh!PendingAction, Sh!World, Sh!Business, ShRequest, ShAssociation
<1>4. ShSession'
  BY <1>1, <1>2 DEF ShInv, ShSession, ShMayAssociate
<1>5. ~stale' => ShOfOne'
  BY <1>1, <1>2 DEF ShInv, ShOfOne, ShAttributed
<1> QED
  BY <1>3, <1>4, <1>5 DEF ShInv

\* What the invariant is about stays.
LEMMA ShStutter ==
  ASSUME ShInv, UNCHANGED <<world, share, anon, action, events, req, stale>>
  PROVE  ShInv'
<1>1. ShType'
  BY DEF ShInv, ShType, Sh!TypeOK, Sh!ShareRecord,
     Sh!AnonymousSession, Sh!PendingAction, Sh!World, Sh!Business, ShRequest, ShAssociation
<1>2. ShSession'
  BY DEF ShInv, ShSession, ShMayAssociate
<1>3. ~stale' => ShOfOne'
  BY DEF ShInv, ShOfOne, ShAttributed
<1> QED
  BY <1>1, <1>2, <1>3 DEF ShInv

\* Every step of Sharing keeps it.
LEMMA ShStep == ShInv /\ Sh!Next => ShInv'
<1> SUFFICES ASSUME ShInv, Sh!Next PROVE ShInv'
  OBVIOUS
<1>1. CASE Sh!CreateShareLink \/ Sh!MarkExpired \/ Sh!ResolveShareLink
  BY <1>1, ShLink
<1>2. ASSUME NEW consent \in BOOLEAN,
             Sh!CreateAnonymousSession(consent) \/ Sh!UpdateConsent(consent)
      PROVE  ShInv'
  BY <1>2, ShSessionStep
<1>3. CASE Sh!SessionEnds
  BY <1>3, ShSessionStep
<1>4. ASSUME NEW withAnon \in BOOLEAN, Sh!CreatePendingAction(withAnon) PROVE ShInv'
  BY <1>4, ShActionStep
<1>5. CASE Sh!ConsumeExpired
  BY <1>5, ShActionStep
<1>6. ASSUME NEW r \in Request, Sh!EventCommit(r) \/ Sh!LinkCommit(r) \/ Sh!ConsumeCommit(r)
      PROVE  ShInv'
  BY <1>6, ShEventCommit, ShLinkCommit, ShConsumeCommit
<1>7. ASSUME NEW r \in Request, NEW u \in User, Sh!LinkBegin(r, u) \/ Sh!ConsumeBegin(r, u)
      PROVE  ShInv'
  BY <1>7, ShLinkBegin, ShConsumeBegin
<1>8. ASSUME NEW r \in Request, NEW u \in User \cup {Nobody}, NEW k \in Kind,
             NEW withAnon \in BOOLEAN, Sh!EventBegin(r, u, k, withAnon)
      PROVE  ShInv'
  BY <1>8, ShEventBegin
<1> QED
  BY <1>1, <1>2, <1>3, <1>4, <1>5, <1>6, <1>7, <1>8 DEF Sh!Next

\* The invariant, of the component when it is the one that runs.
SharingHolds == component = "sharing" => ShInv

\* It holds in every state.
LEMMA SharingInvariant == Spec => []SharingHolds
<1>1. Init => SharingHolds
  BY ShInit DEF Init, SharingHolds
<1>2. SharingHolds /\ [Next]_vars => SharingHolds'
  <2> SUFFICES ASSUME SharingHolds, [Next]_vars, component' = "sharing" PROVE ShInv'
    BY DEF SharingHolds
  <2>1. CASE SharingStep
    BY <2>1, ShStep DEF SharingStep, SharingHolds
  <2>2. CASE UNCHANGED vars
    BY <2>2, ShStutter DEF vars, shVars, SharingHolds
  <2>3. CASE Next /\ ~SharingStep
    BY <2>3 DEF Next, IdentitiesStep, SessionsStep, PhoneCodesStep, CouponsStep, OutboxStep,
       MediaStep, MessagesStep, ListingsStep, PayoutsStep
  <2> QED
    BY <2>1, <2>2, <2>3
<1> QED
  BY <1>1, <1>2, PTL DEF Spec

\* SessionOfOne: what a guest's session has collected is attributed to one account,
\* with the guest's consent, unless a request commits what it decided before
\* another changed the session (sharing.py).
THEOREM SessionGoesToOne == Spec => []SessionOfOne
<1>1. SharingHolds => SessionOfOne
  BY DEF SharingHolds, SessionOfOne, ShInv, ShOfOne, ShAttributed, Sh!SessionOfOne
<1> QED
  BY <1>1, SharingInvariant, PTL

-----------------------------------------------------------------------------
\* Where a seller is paid.

\* What a request keeps.
PoRecord ==
    [kind : {"none", "promote", "connect", "status", "grant", "deny"},
     row : Nat, account : Nat,
     read : Po!PayoutMethod \cup {Po!NoRow}, seen : Po!StripeAccount]

\* A request knows the account that it is to replace or to report, or the row and
\* the link that the seller comes back to.
PoRequest(q) ==
    /\ q.kind = "connect" =>
           /\ q.account \in Po!Account /\ q.row \in 0..MaxConnect
           /\ q.row # 0 => ~q.seen.submitted
    /\ q.kind = "status" =>
           /\ q.row \in Po!Account
           /\ q.seen.enabled => account[q.row].ever
    /\ q.kind \in {"grant", "deny"} =>
           /\ q.row \in Po!Row /\ q.read.type = "paypal" /\ q.read.link \in 1..MaxLink

PoType ==
    /\ Po!TypeOK
    /\ country \in {"none", "old", "new"} /\ link \in 0..MaxLink /\ overtaken \in BOOLEAN
    /\ req \in [Request -> PoRecord]
    /\ \A r \in Request : PoRequest(req[r])

\* Stripe enables what was submitted.
PoOnboarded ==
    \A a \in Po!Account : /\ account[a].enabled => account[a].ever
                          /\ account[a].ever => account[a].submitted

\* A row says enabled when the account or the link that it stands for was.
PoEarned(m) ==
    /\ m.type = "bank" /\ m.enabled => connect # 0 /\ account[connect].ever
    /\ m.type = "paypal" /\ m.enabled => m.link \in granted

PoInv == PoType /\ PoOnboarded /\ (~overtaken => \A i \in Po!Row : PoEarned(method[i]))

\* The first row of some is one of them.
LEMMA PoFirst == ASSUME NEW S, S \subseteq Po!Row, S # {} PROVE Po!First(S) \in S
<1>1. S \subseteq Nat
  BY PayoutAssumption DEF Po!Row
<1>2. \E i \in S : \A j \in S : i <= j
  BY <1>1, LeastNatural
<1> QED
  BY <1>2 DEF Po!First

\* Fields of a request and of an account that is not there.
LEMMA PoIdle ==
  /\ Po!Idle \in PoRecord /\ Po!Idle.kind = "none"
  /\ Po!NoAccount \in Po!StripeAccount /\ ~Po!NoAccount.enabled /\ ~Po!NoAccount.ever
  /\ ~Po!NoAccount.submitted /\ ~Po!NoRow.enabled /\ Po!NoRow.type = "none"
<1>1. /\ Po!NoAccount \in Po!StripeAccount /\ ~Po!NoAccount.enabled /\ ~Po!NoAccount.ever
      /\ ~Po!NoAccount.submitted /\ ~Po!NoRow.enabled /\ Po!NoRow.type = "none"
  BY DEF Po!NoAccount, Po!StripeAccount, Po!NoRow
<1> QED
  BY <1>1 DEF Po!Idle, PoRecord

\* To begin with there are no rows and no accounts.
LEMMA PoInit == Po!Init => PoInv
<1> SUFFICES ASSUME Po!Init PROVE PoInv
  OBVIOUS
<1>1. PoRequest(Po!Idle)
  BY PoIdle DEF PoRequest
<1>2. Po!TypeOK
  BY PoIdle, PayoutAssumption DEF Po!Init, Po!TypeOK
<1>3. PoType
  <2>1. req \in [Request -> PoRecord] /\ \A r \in Request : req[r] = Po!Idle
    BY PoIdle DEF Po!Init
  <2>2. country \in {"none", "old", "new"} /\ link \in 0..MaxLink
    BY PayoutAssumption DEF Po!Init
  <2>3. overtaken \in BOOLEAN
    BY DEF Po!Init
  <2> QED
    BY <1>1, <1>2, <2>1, <2>2, <2>3 DEF PoType
<1> QED
  BY <1>3, PoIdle DEF PoInv, PoOnboarded, PoEarned, Po!Init

\* A request begins with what it has read, or ends; accounts keep having been
\* enabled.
LEMMA PoRequests ==
  ASSUME PoInv, NEW r \in Request, NEW q, PoRequest(q)', q \in PoRecord,
         req' = [req EXCEPT ![r] = q], Po!TypeOK',
         \A a \in Po!Account : account[a].ever => account'[a].ever
  PROVE  req' \in [Request -> PoRecord] /\ \A p \in Request : PoRequest(req[p])'
<1>1. /\ req' \in [Request -> PoRecord] /\ req'[r] = q
      /\ \A p \in Request : p # r => req'[p] = req[p]
  BY DEF PoInv, PoType
<1>2. ASSUME NEW p \in Request, p # r PROVE PoRequest(req[p])'
  BY <1>1, <1>2 DEF PoInv, PoType, PoRequest
<1>3. PoRequest(req[r])'
  BY <1>1 DEF PoRequest
<1> QED
  BY <1>1, <1>2, <1>3

\* Steps that leave accounts, requests and consents alone and keep what rows have
\* earned.
LEMMA PoRowsStep ==
  ASSUME PoInv, UNCHANGED <<connect, account, granted, req, overtaken>>,
         country' \in {"none", "old", "new"}, link' \in 0..MaxLink,
         method' \in [Po!Row -> Po!PayoutMethod \cup {Po!NoRow}],
         ~overtaken => \A i \in Po!Row : PoEarned(method'[i])
  PROVE  PoInv'
<1>1. Po!TypeOK'
  BY DEF PoInv, PoType, Po!TypeOK, Po!Row, Po!Account, Po!PayoutMethod, Po!StripeAccount, Po!NoRow
<1>2. \A r \in Request : PoRequest(req[r])'
  BY DEF PoInv, PoType, PoRequest, Po!Account, Po!Row
<1>3. PoType'
  BY <1>1, <1>2 DEF PoInv, PoType
<1>4. PoOnboarded'
  BY DEF PoInv, PoOnboarded, Po!Account
<1>5. ~overtaken' => (\A i \in Po!Row : PoEarned(method[i]))'
  BY DEF PoEarned, Po!Row
<1> QED
  BY <1>3, <1>4, <1>5 DEF PoInv

\* What the invariant is about stays.
LEMMA PoStutter ==
  ASSUME PoInv, UNCHANGED <<method, connect, account, country, link, granted, req, overtaken>>
  PROVE  PoInv'
<1>1. method' \in [Po!Row -> Po!PayoutMethod \cup {Po!NoRow}]
      /\ country' \in {"none", "old", "new"} /\ link' \in 0..MaxLink
  BY DEF PoInv, PoType, Po!TypeOK
<1>2. ~overtaken => \A i \in Po!Row : PoEarned(method'[i])
  BY DEF PoInv
<1> QED
  BY <1>1, <1>2, PoRowsStep

\* A row is written.
LEMMA PoWritten ==
  ASSUME PoInv, NEW i \in Po!Row, NEW m \in Po!PayoutMethod \cup {Po!NoRow},
         method' = [method EXCEPT ![i] = m], ~overtaken => PoEarned(m)
  PROVE  /\ method' \in [Po!Row -> Po!PayoutMethod \cup {Po!NoRow}]
         /\ ~overtaken => \A j \in Po!Row : PoEarned(method'[j])
<1>1. /\ method' \in [Po!Row -> Po!PayoutMethod \cup {Po!NoRow}] /\ method'[i] = m
      /\ \A j \in Po!Row : j # i => method'[j] = method[j]
  BY DEF PoInv, PoType, Po!TypeOK
<1>2. ASSUME ~overtaken, NEW j \in Po!Row PROVE PoEarned(method'[j])
  <2>1. CASE j = i
    BY <1>1, <1>2, <2>1
  <2>2. CASE j # i
    BY <1>1, <1>2, <2>2 DEF PoInv
  <2> QED
    BY <2>1, <2>2
<1> QED
  BY <1>1, <1>2

\* A new row, before it is filled in.
PoNew(t) == [Po!NoRow EXCEPT !.type = t, !.default = (Po!Rows = {})]

\* A new row is a row.
LEMMA PoNewRow ==
  ASSUME NEW t \in Po!Type
  PROVE  PoNew(t) \in Po!PayoutMethod /\ PoNew(t).type = t /\ ~PoNew(t).enabled
<1>1. PICK d \in BOOLEAN : d = (Po!Rows = {})
  OBVIOUS
<1>2. Po!NoRow \in [type : Po!Type \cup {"none"}, default : BOOLEAN, enabled : BOOLEAN,
                   link : {0}]
      /\ ~Po!NoRow.enabled
  BY DEF Po!NoRow
<1>3. \A m \in [type : Po!Type \cup {"none"}, default : BOOLEAN, enabled : BOOLEAN, link : {0}] :
        /\ [m EXCEPT !.type = t, !.default = d] \in
               [type : Po!Type, default : BOOLEAN, enabled : BOOLEAN, link : {0}]
        /\ [m EXCEPT !.type = t, !.default = d].type = t
        /\ [m EXCEPT !.type = t, !.default = d].enabled = m.enabled
  OBVIOUS
<1>4. \A m \in [type : Po!Type, default : BOOLEAN, enabled : BOOLEAN, link : {0}] :
          m \in Po!PayoutMethod
  BY PayoutAssumption DEF Po!PayoutMethod
<1> QED
  BY <1>1, <1>2, <1>3, <1>4 DEF PoNew

\* The seller types an account in.
LEMMA PoAddMethod == ASSUME PoInv, Po!AddMethod PROVE PoInv'
<1>1. UNCHANGED <<configured, connect, account, country, link, granted, req, overtaken>>
  BY DEF Po!AddMethod
<1>2. \E i \in Po!Row :
        \/ /\ method[i] # Po!NoRow /\ method[i].type = "alipay"
           /\ method' = [method EXCEPT ![i] = [method[i] EXCEPT !.enabled = TRUE]]
        \/ method' = [method EXCEPT ![i] =
               [PoNew("alipay") EXCEPT !.enabled = TRUE]]
  <2>1. CASE Po!RowsOf("alipay") # {}
    <3>1. \E i \in Po!RowsOf("alipay") :
              method' = [method EXCEPT ![i] = [method[i] EXCEPT !.enabled = TRUE]]
      BY <2>1 DEF Po!AddMethod, Po!Upserted
    <3> QED
      BY <3>1 DEF Po!RowsOf, Po!Rows
  <2>2. CASE Po!RowsOf("alipay") = {}
    BY <2>2 DEF Po!AddMethod, Po!Upserted, PoNew
  <2> QED
    BY <2>1, <2>2
<1>3. PICK i \in Po!Row, m \in Po!PayoutMethod :
        /\ m.type = "alipay"
        /\ method' = [method EXCEPT ![i] = m]
  <2>1. PICK i \in Po!Row :
        \/ /\ method[i] # Po!NoRow /\ method[i].type = "alipay"
           /\ method' = [method EXCEPT ![i] = [method[i] EXCEPT !.enabled = TRUE]]
        \/ method' = [method EXCEPT ![i] =
               [PoNew("alipay") EXCEPT !.enabled = TRUE]]
    BY <1>2
  <2>2. method[i] \in Po!PayoutMethod \cup {Po!NoRow}
    BY DEF PoInv, PoType, Po!TypeOK
  <2>3. \A m \in Po!PayoutMethod : m.type = "alipay" =>
          /\ [m EXCEPT !.enabled = TRUE] \in Po!PayoutMethod
          /\ [m EXCEPT !.enabled = TRUE].type = "alipay"
    BY DEF Po!PayoutMethod
  <2>4. PoNew("alipay") \in Po!PayoutMethod /\ PoNew("alipay").type = "alipay"
    BY PoNewRow DEF Po!Type
  <2> QED
    BY <2>1, <2>2, <2>3, <2>4
<1>4. PoEarned(m)
  BY <1>3 DEF PoEarned
<1> QED
  BY <1>1, <1>3, <1>4, PoWritten, PoRowsStep DEF PoInv, PoType

\* A new link; what an older one had brought is given up.
LEMMA PoPaypalLink == ASSUME PoInv, Po!PaypalLink PROVE PoInv'
<1>1. /\ UNCHANGED <<configured, connect, account, country, granted, req, overtaken>>
      /\ link' = link + 1 /\ link < MaxLink
  BY DEF Po!PaypalLink
<1>2. link' \in 0..MaxLink /\ link + 1 \in 0..MaxLink
  BY <1>1, PayoutAssumption DEF PoInv, PoType
<1>3. \E i \in Po!Row :
        \/ /\ method[i] # Po!NoRow /\ method[i].type = "paypal"
           /\ method' = [method EXCEPT ![i] =
                            [method[i] EXCEPT !.link = link + 1, !.enabled = FALSE]]
        \/ method' = [method EXCEPT ![i] =
                         [PoNew("paypal") EXCEPT !.link = link + 1, !.enabled = FALSE]]
  <2>1. CASE Po!RowsOf("paypal") # {}
    <3>1. \E i \in Po!RowsOf("paypal") :
              method' = [method EXCEPT ![i] =
                            [method[i] EXCEPT !.link = link + 1, !.enabled = FALSE]]
      BY <2>1 DEF Po!PaypalLink, Po!Upserted
    <3> QED
      BY <3>1 DEF Po!RowsOf, Po!Rows
  <2>2. CASE Po!RowsOf("paypal") = {}
    BY <2>2 DEF Po!PaypalLink, Po!Upserted, PoNew
  <2> QED
    BY <2>1, <2>2
<1>4. PICK i \in Po!Row, m \in Po!PayoutMethod :
        /\ m.type = "paypal" /\ ~m.enabled
        /\ method' = [method EXCEPT ![i] = m]
  <2>1. PICK i \in Po!Row :
        \/ /\ method[i] # Po!NoRow /\ method[i].type = "paypal"
           /\ method' = [method EXCEPT ![i] =
                            [method[i] EXCEPT !.link = link + 1, !.enabled = FALSE]]
        \/ method' = [method EXCEPT ![i] =
                         [PoNew("paypal") EXCEPT !.link = link + 1, !.enabled = FALSE]]
    BY <1>3
  <2>2. method[i] \in Po!PayoutMethod \cup {Po!NoRow}
    BY DEF PoInv, PoType, Po!TypeOK
  <2>3. \A m \in Po!PayoutMethod : m.type = "paypal" =>
          /\ [m EXCEPT !.link = link + 1, !.enabled = FALSE] \in Po!PayoutMethod
          /\ [m EXCEPT !.link = link + 1, !.enabled = FALSE].type = "paypal"
          /\ ~[m EXCEPT !.link = link + 1, !.enabled = FALSE].enabled
    BY <1>2 DEF Po!PayoutMethod
  <2>4. PoNew("paypal") \in Po!PayoutMethod /\ PoNew("paypal").type = "paypal"
    BY PoNewRow DEF Po!Type
  <2> QED
    BY <2>1, <2>2, <2>3, <2>4
<1>5. PoEarned(m)
  BY <1>4 DEF PoEarned
<1> QED
  BY <1>1, <1>2, <1>4, <1>5, PoWritten, PoRowsStep DEF PoInv, PoType

\* Another row becomes the default.
LEMMA PoSetDefault ==
  ASSUME PoInv, NEW i \in Po!Row, NEW isDefault \in BOOLEAN, Po!SetDefault(i, isDefault)
  PROVE  PoInv'
<1>1. UNCHANGED <<configured, connect, account, country, link, granted, req, overtaken>>
  BY DEF Po!SetDefault
<1>2. \A j \in Po!Row, d \in BOOLEAN :
        /\ method[j] # Po!NoRow => [method[j] EXCEPT !.default = d] \in Po!PayoutMethod
        /\ method[j] # Po!NoRow => (PoEarned(method[j]) => PoEarned([method[j] EXCEPT !.default = d]))
  <2> SUFFICES ASSUME NEW j \in Po!Row, NEW d \in BOOLEAN, method[j] \in Po!PayoutMethod
               PROVE  /\ [method[j] EXCEPT !.default = d] \in Po!PayoutMethod
                      /\ PoEarned(method[j]) => PoEarned([method[j] EXCEPT !.default = d])
    BY DEF PoInv, PoType, Po!TypeOK
  <2> QED
    BY DEF Po!PayoutMethod, PoEarned
<1>3. \A j \in Po!Row : /\ method[j] \in Po!PayoutMethod \cup {Po!NoRow}
                        /\ ~overtaken => PoEarned(method[j])
  BY DEF PoInv, PoType, Po!TypeOK
<1>4. PoEarned(Po!NoRow)
  BY PoIdle DEF PoEarned
<1>5. CASE isDefault
  <2>1. method' = [j \in Po!Row |-> IF j \in Po!Rows THEN [method[j] EXCEPT !.default = (j = i)]
                                    ELSE Po!NoRow]
    BY <1>5 DEF Po!SetDefault
  <2>2. \A j \in Po!Row : /\ method'[j] \in Po!PayoutMethod \cup {Po!NoRow}
                          /\ ~overtaken => PoEarned(method'[j])
    <3> TAKE j \in Po!Row
    <3>1. PICK d \in BOOLEAN : d = (j = i)
      OBVIOUS
    <3>2. CASE j \in Po!Rows
      <4>1. method'[j] = [method[j] EXCEPT !.default = d] /\ method[j] # Po!NoRow
        BY <2>1, <3>1, <3>2 DEF Po!Rows
      <4> QED
        BY <4>1, <1>2, <1>3
    <3>3. CASE j \notin Po!Rows
      BY <2>1, <3>3, <1>4
    <3> QED
      BY <3>2, <3>3
  <2>3. method' \in [Po!Row -> Po!PayoutMethod \cup {Po!NoRow}]
    BY <2>1, <2>2
  <2> QED
    BY <1>1, <2>2, <2>3, PoRowsStep DEF PoInv, PoType
<1>6. CASE ~isDefault
  <2>1. /\ method' = [method EXCEPT ![i] = [method[i] EXCEPT !.default = FALSE]]
        /\ method[i] # Po!NoRow
    BY <1>6 DEF Po!SetDefault, Po!Rows
  <2>2. PICK m : m = [method[i] EXCEPT !.default = FALSE]
    OBVIOUS
  <2>3. m \in Po!PayoutMethod /\ (~overtaken => PoEarned(m))
    BY <1>2, <1>3, <2>1, <2>2
  <2> QED
    BY <1>1, <2>1, <2>2, <2>3, PoWritten, PoRowsStep DEF PoInv, PoType
<1> QED
  BY <1>5, <1>6

\* A request that does nothing but begin or end.
LEMMA PoRequestStep ==
  ASSUME PoInv, NEW r \in Request, NEW q, PoRequest(q), q \in PoRecord,
         req' = [req EXCEPT ![r] = q],
         UNCHANGED <<method, connect, account, country, link, granted, overtaken>>
  PROVE  PoInv'
<1>1. Po!TypeOK'
  BY DEF PoInv, PoType, Po!TypeOK, Po!Row, Po!Account, Po!PayoutMethod, Po!StripeAccount, Po!NoRow
<1>2. PoRequest(q)'
  BY DEF PoRequest, Po!Account, Po!Row
<1>3. req' \in [Request -> PoRecord] /\ \A p \in Request : PoRequest(req[p])'
  BY <1>1, <1>2, PoRequests
<1>4. PoType'
  <2>1. req' \in [Request -> PoRecord]'
    BY <1>3 DEF PoRecord, Po!PayoutMethod, Po!NoRow, Po!StripeAccount
  <2> QED
    BY <1>1, <1>3, <2>1 DEF PoInv, PoType
<1>5. PoOnboarded'
  BY DEF PoInv, PoOnboarded, Po!Account
<1>6. ~overtaken' => (\A i \in Po!Row : PoEarned(method[i]))'
  BY DEF PoInv, PoEarned, Po!Row
<1> QED
  BY <1>4, <1>5, <1>6 DEF PoInv

\* A request dies, or finds nothing to promote.
LEMMA PoEnds ==
  ASSUME PoInv, NEW r \in Request, Po!RequestDies(r)
  PROVE  PoInv'
<1>1. PoRequest(Po!Idle)
  BY PoIdle DEF PoRequest
<1> QED
  BY <1>1, PoIdle, PoRequestStep DEF Po!RequestDies

\* The account is read.
LEMMA PoStatusRead ==
  ASSUME PoInv, NEW r \in Request, Po!StatusRead(r)
  PROVE  PoInv'
<1> DEFINE q == [Po!Idle EXCEPT !.kind = "status", !.row = connect, !.seen = account[connect]]
<1>1. /\ req' = [req EXCEPT ![r] = q] /\ connect \in Po!Account
      /\ UNCHANGED <<method, connect, account, country, link, granted, overtaken>>
  BY PayoutAssumption DEF Po!StatusRead, PoInv, PoType, Po!TypeOK, Po!Account
<1>2. account[connect] \in Po!StripeAccount /\ connect \in Nat
  BY <1>1, PayoutAssumption DEF PoInv, PoType, Po!TypeOK, Po!Account
<1>3. q \in PoRecord /\ q.kind = "status" /\ q.row = connect /\ q.seen = account[connect]
  BY <1>2, PoIdle DEF PoRecord
<1>4. account[connect].enabled => account[connect].ever
  BY <1>1 DEF PoInv, PoOnboarded
<1> HIDE DEF q
<1>5. PoRequest(q)
  BY <1>1, <1>3, <1>4 DEF PoRequest
<1> QED
  BY <1>1, <1>3, <1>5, PoRequestStep

\* The seller comes back from a link.
LEMMA PoPaypalReturn ==
  ASSUME PoInv, NEW r \in Request, NEW l \in 1..MaxLink, NEW consents \in BOOLEAN,
         Po!PaypalReturn(r, l, consents)
  PROVE  PoInv'
<1>1. PICK i \in Po!RowsOf("paypal") :
        /\ method[i].link = l
        /\ req' = [req EXCEPT ![r] = [Po!Idle EXCEPT
               !.kind = IF consents THEN "grant" ELSE "deny", !.row = i, !.read = method[i]]]
  BY DEF Po!PaypalReturn
<1>2. i \in Po!Row /\ i \in Nat /\ method[i].type = "paypal"
      /\ method[i] \in Po!PayoutMethod \cup {Po!NoRow}
  BY PayoutAssumption DEF Po!RowsOf, Po!Rows, PoInv, PoType, Po!TypeOK, Po!Row
<1>3. PICK k \in {"grant", "deny"} : k = IF consents THEN "grant" ELSE "deny"
  OBVIOUS
<1> DEFINE q == [Po!Idle EXCEPT !.kind = k, !.row = i, !.read = method[i]]
<1>4. q \in PoRecord /\ q.kind = k /\ q.row = i /\ q.read = method[i]
  BY <1>2, PoIdle DEF PoRecord
<1>5. req' = [req EXCEPT ![r] = q]
  BY <1>1, <1>3
<1> HIDE DEF q
<1>6. PoRequest(q)
  BY <1>1, <1>2, <1>4 DEF PoRequest
<1>7. UNCHANGED <<method, connect, account, country, link, granted, overtaken>>
  BY DEF Po!PaypalReturn
<1> QED
  BY <1>4, <1>5, <1>6, <1>7, PoRequestStep

\* The account is there, or one is made and the request keeps what it replaces.
LEMMA PoConnectLink ==
  ASSUME PoInv, NEW r \in Request, Po!ConnectLink(r)
  PROVE  PoInv'
<1>1. UNCHANGED <<configured, method, connect, country, link, granted, overtaken>>
  BY DEF Po!ConnectLink
<1>2. CASE UNCHANGED <<account, req>>
  BY <1>1, <1>2, PoStutter
<1>3. CASE ~UNCHANGED <<account, req>>
  <2> DEFINE seen == IF connect = 0 THEN Po!NoAccount ELSE account[connect]
  <2>1. PICK a \in Po!Account :
          /\ connect # 0 => Po!Replaced(account[connect])
          /\ account[a] = Po!NoAccount
          /\ account' = [account EXCEPT ![a].country = country]
          /\ req' = [req EXCEPT ![r] = [Po!Idle EXCEPT
                !.kind = "connect", !.account = a, !.row = connect, !.seen = seen]]
    BY <1>3 DEF Po!ConnectLink
  <2>2. /\ seen \in Po!StripeAccount /\ connect \in 0..MaxConnect /\ connect \in Nat /\ a \in Nat
        /\ connect # 0 => ~seen.submitted
    BY <2>1, PoIdle, PayoutAssumption DEF PoInv, PoType, Po!TypeOK, Po!Account, Po!Replaced
  <2> HIDE DEF seen
  <2>q. PICK q : q = [Po!Idle EXCEPT !.kind = "connect", !.account = a, !.row = connect, !.seen = seen]
    OBVIOUS
  <2>3. /\ q \in PoRecord /\ q.kind = "connect" /\ q.account = a /\ q.row = connect
        /\ q.seen = seen
    BY <2>2, <2>q, PoIdle DEF PoRecord
  <2>4. req' = [req EXCEPT ![r] = q]
    BY <2>1, <2>q
  <2>5. PoRequest(q)'
    BY <2>2, <2>3 DEF PoRequest, Po!Account
  <2>6. /\ account' \in [Po!Account -> Po!StripeAccount]
        /\ \A b \in Po!Account : /\ account'[b].ever = account[b].ever
                                 /\ account'[b].enabled = account[b].enabled
                                 /\ account'[b].submitted = account[b].submitted
    BY <2>1, <1>1 DEF PoInv, PoType, Po!TypeOK, Po!StripeAccount
  <2>7. Po!TypeOK'
    BY <1>1, <2>6 DEF PoInv, PoType, Po!TypeOK, Po!Row, Po!Account, Po!PayoutMethod, Po!StripeAccount, Po!NoRow
  <2>8. req' \in [Request -> PoRecord] /\ \A p \in Request : PoRequest(req[p])'
    BY <2>3, <2>4, <2>5, <2>6, <2>7, PoRequests
  <2>9. PoType'
    BY <1>1, <2>7, <2>8 DEF PoInv, PoType
  <2>10. PoOnboarded'
    BY <2>6 DEF PoInv, PoOnboarded, Po!Account
  <2>11. ~overtaken' => (\A i \in Po!Row : PoEarned(method[i]))'
    BY <1>1, <2>6 DEF PoInv, PoEarned, Po!Row, PoType, Po!TypeOK, Po!Account
  <2> QED
    BY <2>9, <2>10, <2>11 DEF PoInv
<1> QED
  BY <1>2, <1>3

\* A request commits what it writes, and ends or goes on.
LEMMA PoCommit ==
  ASSUME PoInv, NEW r \in Request, NEW q, PoRequest(q), q.kind # "status", q \in PoRecord,
         req' = [req EXCEPT ![r] = q], UNCHANGED <<account, country, link>>,
         method' \in [Po!Row -> Po!PayoutMethod \cup {Po!NoRow}],
         connect' \in 0..MaxConnect, granted' \subseteq 1..MaxLink, overtaken' \in BOOLEAN,
         ~overtaken' => (\A i \in Po!Row : PoEarned(method[i]))'
  PROVE  PoInv'
<1>1. Po!TypeOK'
  BY DEF PoInv, PoType, Po!TypeOK, Po!Row, Po!Account, Po!PayoutMethod, Po!StripeAccount, Po!NoRow
<1>2. PoRequest(q)'
  BY DEF PoRequest, Po!Account, Po!Row
<1>3. req' \in [Request -> PoRecord] /\ \A p \in Request : PoRequest(req[p])'
  BY <1>1, <1>2, PoRequests
<1>4. PoType'
  BY <1>1, <1>3 DEF PoInv, PoType
<1>5. PoOnboarded'
  BY DEF PoInv, PoOnboarded, Po!Account
<1> QED
  BY <1>4, <1>5 DEF PoInv

\* A row is deleted; if it was the default, the request goes on to promote another.
LEMMA PoRemoveMethod ==
  ASSUME PoInv, NEW r \in Request, NEW i \in Po!Row, Po!RemoveMethod(r, i)
  PROVE  PoInv'
<1>1. /\ method' = [method EXCEPT ![i] = Po!NoRow]
      /\ UNCHANGED <<configured, connect, account, country, link, granted, overtaken>>
      /\ \/ req' = req
         \/ req' = [req EXCEPT ![r] = [Po!Idle EXCEPT !.kind = "promote"]]
  BY DEF Po!RemoveMethod
<1>2. PoEarned(Po!NoRow)
  BY PoIdle DEF PoEarned
<1>3. /\ method' \in [Po!Row -> Po!PayoutMethod \cup {Po!NoRow}]
      /\ ~overtaken => \A j \in Po!Row : PoEarned(method'[j])
  BY <1>1, <1>2, PoWritten
<1>4. CASE req' = req
  BY <1>1, <1>3, <1>4, PoRowsStep DEF PoInv, PoType
<1>5. CASE req' = [req EXCEPT ![r] = [Po!Idle EXCEPT !.kind = "promote"]]
  <2>1. PICK q : q = [Po!Idle EXCEPT !.kind = "promote"]
    OBVIOUS
  <2>2. q \in PoRecord /\ q.kind = "promote"
    BY <2>1, PoIdle DEF PoRecord
  <2>3. PoRequest(q)
    BY <2>2 DEF PoRequest
  <2>4. ~overtaken' => (\A j \in Po!Row : PoEarned(method[j]))'
    BY <1>1, <1>3 DEF PoEarned, Po!Row
  <2>5. /\ connect' \in 0..MaxConnect /\ granted' \subseteq 1..MaxLink
        /\ overtaken' \in BOOLEAN
    BY <1>1 DEF PoInv, PoType, Po!TypeOK
  <2>6. UNCHANGED <<account, country, link>>
    BY <1>1
  <2>7. req' = [req EXCEPT ![r] = q]
    BY <1>5, <2>1
  <2> QED
    BY <1>3, <2>2, <2>3, <2>4, <2>5, <2>6, <2>7, PoCommit
<1> QED
  BY <1>1, <1>4, <1>5

\* The first row that is left becomes the default.
LEMMA PoPromote ==
  ASSUME PoInv, NEW r \in Request, Po!Promote(r)
  PROVE  PoInv'
<1>1. /\ req' = [req EXCEPT ![r] = Po!Idle]
      /\ UNCHANGED <<configured, connect, account, country, link, granted, overtaken>>
  BY DEF Po!Promote
<1>2. /\ method' \in [Po!Row -> Po!PayoutMethod \cup {Po!NoRow}]
      /\ ~overtaken => \A j \in Po!Row : PoEarned(method'[j])
  <2>1. CASE Po!Rows = {}
    BY <2>1 DEF Po!Promote, PoInv, PoType, Po!TypeOK
  <2>2. CASE Po!Rows # {}
    <3>1. PICK i : i = Po!First(Po!Rows)
      OBVIOUS
    <3>2. i \in Po!Rows
      BY <2>2, <3>1, PoFirst DEF Po!Rows
    <3>3. PICK m : m = [method[i] EXCEPT !.default = TRUE]
      OBVIOUS
    <3>4. i \in Po!Row /\ method[i] \in Po!PayoutMethod /\ (~overtaken => PoEarned(method[i]))
      BY <3>2 DEF Po!Rows, PoInv, PoType, Po!TypeOK
    <3>5. m \in Po!PayoutMethod /\ (~overtaken => PoEarned(m))
      BY <3>3, <3>4 DEF Po!PayoutMethod, PoEarned
    <3>6. method' = [method EXCEPT ![i] = m]
      BY <2>2, <3>1, <3>3 DEF Po!Promote
    <3> QED
      BY <3>4, <3>5, <3>6, PoWritten
  <2> QED
    BY <2>1, <2>2
<1>3. PoRequest(Po!Idle)
  BY PoIdle DEF PoRequest
<1>4. ~overtaken' => (\A j \in Po!Row : PoEarned(method[j]))'
  BY <1>1, <1>2 DEF PoEarned, Po!Row
<1>5. connect' \in 0..MaxConnect /\ granted' \subseteq 1..MaxLink /\ overtaken' \in BOOLEAN
  BY <1>1 DEF PoInv, PoType, Po!TypeOK
<1> QED
  BY <1>1, <1>2, <1>3, <1>4, <1>5, PoIdle, PoCommit

\* The account becomes the seller's: it replaces one that was never enabled, or none.
LEMMA PoConnectCommit ==
  ASSUME PoInv, NEW r \in Request, Po!ConnectCommit(r)
  PROVE  PoInv'
<1>1. /\ req[r].kind = "connect" /\ connect' = req[r].account
      /\ req' = [req EXCEPT ![r] = Po!Idle]
      /\ UNCHANGED <<configured, method, account, country, link, granted>>
      /\ overtaken' = (overtaken \/ connect # req[r].row
                                 \/ (connect # 0 /\ account[connect] # req[r].seen))
  BY DEF Po!ConnectCommit
<1>2. /\ req[r].account \in Po!Account
      /\ req[r].row # 0 => ~req[r].seen.submitted
  BY <1>1 DEF PoInv, PoType, PoRequest
<1>3. connect' \in 0..MaxConnect
  BY <1>1, <1>2, PayoutAssumption DEF Po!Account
<1>4. ASSUME ~overtaken' PROVE (\A i \in Po!Row : PoEarned(method[i]))'
  <2>1. ~overtaken /\ connect = req[r].row /\ (connect # 0 => account[connect] = req[r].seen)
    BY <1>1, <1>4
  <2>2. connect # 0 => ~account[connect].submitted /\ connect \in Po!Account
    BY <1>2, <2>1, PayoutAssumption DEF PoInv, PoType, Po!TypeOK, Po!Account
  <2>3. connect # 0 => ~account[connect].ever
    BY <2>2 DEF PoInv, PoOnboarded
  <2>4. \A i \in Po!Row : /\ ~(method[i].type = "bank" /\ method[i].enabled)
                          /\ method[i].type = "paypal" /\ method[i].enabled =>
                                 method[i].link \in granted
    BY <2>1, <2>3 DEF PoInv, PoEarned
  <2> QED
    BY <1>1, <2>4 DEF PoEarned, Po!Row
<1>5. PoRequest(Po!Idle)
  BY PoIdle DEF PoRequest
<1>6. /\ granted' \subseteq 1..MaxLink
      /\ method' \in [Po!Row -> Po!PayoutMethod \cup {Po!NoRow}]
  BY <1>1 DEF PoInv, PoType, Po!TypeOK
<1>7. overtaken' \in BOOLEAN
  BY <1>1 DEF PoInv, PoType
<1> QED
  BY <1>1, <1>3, <1>4, <1>5, <1>6, <1>7, PoIdle, PoCommit

\* What Stripe said of the account is written to the bank row.
LEMMA PoStatusCommit ==
  ASSUME PoInv, NEW r \in Request, Po!StatusCommit(r)
  PROVE  PoInv'
<1> DEFINE e == req[r].seen.enabled
<1>1. /\ req[r].kind = "status" /\ req' = [req EXCEPT ![r] = Po!Idle]
      /\ UNCHANGED <<configured, connect, account, country, link, granted>>
      /\ overtaken' = (overtaken \/ connect # req[r].row)
  BY DEF Po!StatusCommit
<1>2. /\ req[r].row \in Po!Account
      /\ e => account[req[r].row].ever
      /\ e \in BOOLEAN
  <2>1. req[r].seen \in Po!StripeAccount
    BY DEF PoInv, PoType, PoRecord
  <2> QED
    BY <1>1, <2>1 DEF PoInv, PoType, PoRequest, Po!StripeAccount
<1>3. \E i \in Po!Row :
        \/ /\ method[i] # Po!NoRow /\ method[i].type = "bank"
           /\ method' = [method EXCEPT ![i] = [method[i] EXCEPT !.enabled = e]]
        \/ method' = [method EXCEPT ![i] = [PoNew("bank") EXCEPT !.enabled = e]]
  <2>1. CASE Po!RowsOf("bank") # {}
    <3>1. \E i \in Po!RowsOf("bank") :
              method' = [method EXCEPT ![i] = [method[i] EXCEPT !.enabled = e]]
      BY <2>1 DEF Po!StatusCommit, Po!Upserted
    <3> QED
      BY <3>1 DEF Po!RowsOf, Po!Rows
  <2>2. CASE Po!RowsOf("bank") = {}
    BY <2>2 DEF Po!StatusCommit, Po!Upserted, PoNew
  <2> QED
    BY <2>1, <2>2
<1> HIDE DEF e
<1>4. PICK i \in Po!Row, m \in Po!PayoutMethod :
        /\ m.type = "bank" /\ m.enabled = e
        /\ method' = [method EXCEPT ![i] = m]
  <2>1. PICK i \in Po!Row :
        \/ /\ method[i] # Po!NoRow /\ method[i].type = "bank"
           /\ method' = [method EXCEPT ![i] = [method[i] EXCEPT !.enabled = e]]
        \/ method' = [method EXCEPT ![i] = [PoNew("bank") EXCEPT !.enabled = e]]
    BY <1>3
  <2>2. method[i] \in Po!PayoutMethod \cup {Po!NoRow}
    BY DEF PoInv, PoType, Po!TypeOK
  <2>3. \A m \in Po!PayoutMethod : m.type = "bank" =>
          /\ [m EXCEPT !.enabled = e] \in Po!PayoutMethod
          /\ [m EXCEPT !.enabled = e].type = "bank"
          /\ [m EXCEPT !.enabled = e].enabled = e
    BY <1>2 DEF Po!PayoutMethod
  <2>4. PoNew("bank") \in Po!PayoutMethod /\ PoNew("bank").type = "bank"
    BY PoNewRow DEF Po!Type
  <2> QED
    BY <2>1, <2>2, <2>3, <2>4
<1>5. /\ method' \in [Po!Row -> Po!PayoutMethod \cup {Po!NoRow}] /\ method'[i] = m
      /\ \A j \in Po!Row : j # i => method'[j] = method[j]
  BY <1>4 DEF PoInv, PoType, Po!TypeOK
<1>6. ASSUME ~overtaken' PROVE (\A j \in Po!Row : PoEarned(method[j]))'
  <2>1. ~overtaken /\ connect = req[r].row
    BY <1>1, <1>6
  <2>2. e => connect # 0 /\ account[connect].ever
    BY <1>2, <2>1, PayoutAssumption DEF Po!Account
  <2>3. PoEarned(m)
    BY <1>4, <2>2 DEF PoEarned
  <2>4. \A j \in Po!Row : PoEarned(method'[j])
    <3> TAKE j \in Po!Row
    <3>1. CASE j = i
      BY <1>5, <2>3, <3>1
    <3>2. CASE j # i
      BY <1>5, <2>1, <3>2 DEF PoInv
    <3> QED
      BY <3>1, <3>2
  <2> QED
    BY <1>1, <2>4 DEF PoEarned, Po!Row
<1>7. PoRequest(Po!Idle)
  BY PoIdle DEF PoRequest
<1>8. connect' \in 0..MaxConnect /\ granted' \subseteq 1..MaxLink
  BY <1>1 DEF PoInv, PoType, Po!TypeOK
<1>9. overtaken' \in BOOLEAN
  BY <1>1 DEF PoInv, PoType
<1> QED
  BY <1>1, <1>5, <1>6, <1>7, <1>8, <1>9, PoIdle, PoCommit

\* The return from a link is recorded on its row.
LEMMA PoReturnCommit ==
  ASSUME PoInv, NEW r \in Request, Po!ReturnCommit(r)
  PROVE  PoInv'
<1>1. /\ req[r].kind \in {"grant", "deny"} /\ req' = [req EXCEPT ![r] = Po!Idle]
      /\ UNCHANGED <<configured, connect, account, country, link>>
  BY DEF Po!ReturnCommit
<1>2. PICK i \in Po!Row : /\ i = req[r].row
                          /\ req[r].read.type = "paypal" /\ req[r].read.link \in 1..MaxLink
  BY <1>1 DEF PoInv, PoType, PoRequest
<1>3. PoRequest(Po!Idle)
  BY PoIdle DEF PoRequest
<1>4. connect' \in 0..MaxConnect
  BY <1>1 DEF PoInv, PoType, Po!TypeOK
<1>5. CASE method[i] = Po!NoRow
  <2>1. UNCHANGED <<method, granted, overtaken>>
    BY <1>2, <1>5 DEF Po!ReturnCommit
  <2>2. /\ method' \in [Po!Row -> Po!PayoutMethod \cup {Po!NoRow}]
        /\ granted' \subseteq 1..MaxLink
    BY <2>1 DEF PoInv, PoType, Po!TypeOK
  <2>3. overtaken' \in BOOLEAN
    BY <2>1 DEF PoInv, PoType
  <2>4. ~overtaken' => (\A j \in Po!Row : PoEarned(method[j]))'
    BY <1>1, <2>1 DEF PoInv, PoEarned, Po!Row
  <2> QED
    BY <1>1, <1>3, <1>4, <2>2, <2>3, <2>4, PoIdle, PoCommit
<1>6. CASE method[i] # Po!NoRow
  <2>1. PICK b \in BOOLEAN : b = (req[r].kind = "grant")
    OBVIOUS
  <2>2. /\ method' = [method EXCEPT ![i] = [method[i] EXCEPT !.enabled =
               IF b = req[r].read.enabled THEN method[i].enabled ELSE b]]
        /\ granted' = IF b THEN granted \cup {req[r].read.link} ELSE granted
        /\ overtaken' = (overtaken \/ method[i] # req[r].read)
    BY <1>2, <1>6, <2>1 DEF Po!ReturnCommit
  <2>3. method[i] \in Po!PayoutMethod
    BY <1>6 DEF PoInv, PoType, Po!TypeOK
  <2>4. PICK x \in BOOLEAN : x = IF b = req[r].read.enabled THEN method[i].enabled ELSE b
    BY <2>3 DEF Po!PayoutMethod
  <2>5. PICK m : m = [method[i] EXCEPT !.enabled = x]
    OBVIOUS
  <2>6. /\ m \in Po!PayoutMethod /\ m.enabled = x /\ m.type = method[i].type
        /\ m.link = method[i].link
    BY <2>3, <2>5 DEF Po!PayoutMethod
  <2>7. method' = [method EXCEPT ![i] = m]
    BY <2>2, <2>4, <2>5
  <2>8. /\ method' \in [Po!Row -> Po!PayoutMethod \cup {Po!NoRow}] /\ method'[i] = m
        /\ \A j \in Po!Row : j # i => method'[j] = method[j]
    BY <2>6, <2>7 DEF PoInv, PoType, Po!TypeOK
  <2>9. granted' \subseteq 1..MaxLink /\ granted \subseteq granted'
    BY <1>2, <2>2 DEF PoInv, PoType, Po!TypeOK
  <2>10. overtaken' \in BOOLEAN
    BY <2>2 DEF PoInv, PoType
  <2>11. ASSUME ~overtaken' PROVE (\A j \in Po!Row : PoEarned(method[j]))'
    <3>1. ~overtaken /\ method[i] = req[r].read
      BY <2>2, <2>11
    <3>2. m.enabled => m.link \in granted' /\ m.type = "paypal"
      <4>1. m.type = "paypal" /\ m.link = req[r].read.link
        BY <1>2, <2>6, <3>1
      <4>2. CASE b
        BY <2>2, <4>1, <4>2
      <4>3. CASE ~b
        <5>1. ~x
          BY <2>3, <2>4, <3>1, <4>3 DEF Po!PayoutMethod
        <5> QED
          BY <2>6, <5>1
      <4> QED
        BY <4>2, <4>3
    <3>3. \A j \in Po!Row : PoEarned(method[j])
      BY <3>1 DEF PoInv
    <3>4. \A j \in Po!Row : j # i =>
            /\ method'[j].type = "bank" /\ method'[j].enabled => connect # 0 /\ account[connect].ever
            /\ method'[j].type = "paypal" /\ method'[j].enabled => method'[j].link \in granted'
      BY <2>8, <2>9, <3>3 DEF PoEarned
    <3>5. \A j \in Po!Row :
            /\ method'[j].type = "bank" /\ method'[j].enabled => connect # 0 /\ account[connect].ever
            /\ method'[j].type = "paypal" /\ method'[j].enabled => method'[j].link \in granted'
      BY <2>8, <3>2, <3>4
    <3> QED
      BY <1>1, <3>5 DEF PoEarned, Po!Row
  <2> QED
    BY <1>1, <1>3, <1>4, <2>8, <2>9, <2>10, <2>11, PoIdle, PoCommit
<1> QED
  BY <1>5, <1>6

\* The seller completes an account; Stripe enables it, or no longer does.
LEMMA PoAccountStep ==
  ASSUME PoInv, NEW a \in Po!Account,
         Po!Onboard(a) \/ \E enabled \in BOOLEAN : Po!Enable(a, enabled)
  PROVE  PoInv'
<1>1. UNCHANGED <<configured, method, connect, country, link, granted, req, overtaken>>
  BY DEF Po!Onboard, Po!Enable
<1>2. /\ account[a] \in Po!StripeAccount
      /\ account[a].enabled => account[a].ever
      /\ account[a].ever => account[a].submitted
  BY DEF PoInv, PoOnboarded, PoType, Po!TypeOK
<1>3. /\ account' \in [Po!Account -> Po!StripeAccount]
      /\ account[a].ever => account'[a].ever
      /\ account'[a].enabled => account'[a].ever
      /\ account'[a].ever => account'[a].submitted
      /\ \A b \in Po!Account : b # a => account'[b] = account[b]
  <2>1. CASE Po!Onboard(a)
    <3>1. PICK x : x = [account[a] EXCEPT !.submitted = TRUE]
      OBVIOUS
    <3>2. /\ x \in Po!StripeAccount /\ x.submitted
          /\ x.ever = account[a].ever /\ x.enabled = account[a].enabled
      BY <1>2, <3>1 DEF Po!StripeAccount
    <3>3. account' = [account EXCEPT ![a] = x]
      BY <2>1, <3>1 DEF Po!Onboard
    <3> QED
      BY <1>2, <3>2, <3>3 DEF PoInv, PoType, Po!TypeOK
  <2>2. CASE \E enabled \in BOOLEAN : Po!Enable(a, enabled)
    <3>1. PICK enabled \in BOOLEAN : Po!Enable(a, enabled)
      BY <2>2
    <3>2. PICK v \in BOOLEAN : v = (account[a].ever \/ enabled)
      OBVIOUS
    <3>3. PICK x : x = [account[a] EXCEPT !.enabled = enabled, !.ever = v]
      OBVIOUS
    <3>4. /\ x \in Po!StripeAccount /\ x.ever = v /\ x.enabled = enabled
          /\ x.submitted = account[a].submitted
      BY <1>2, <3>3 DEF Po!StripeAccount
    <3>5. account' = [account EXCEPT ![a] = x] /\ account[a].submitted
      <4>1. account' = [account EXCEPT ![a] = [account[a] EXCEPT !.enabled = enabled,
                                                   !.ever = account[a].ever \/ enabled]]
        BY <1>2, <3>1 DEF Po!Enable, Po!StripeAccount, PoInv, PoType, Po!TypeOK
      <4> QED
        BY <4>1, <3>1, <3>2, <3>3 DEF Po!Enable
    <3> QED
      BY <1>2, <3>2, <3>4, <3>5 DEF PoInv, PoType, Po!TypeOK
  <2> QED
    BY <2>1, <2>2
<1>4. \A b \in Po!Account : /\ account[b].ever => account'[b].ever
                            /\ account'[b].enabled => account'[b].ever
                            /\ account'[b].ever => account'[b].submitted
  BY <1>3 DEF PoInv, PoOnboarded
<1>5. Po!TypeOK'
  BY <1>1, <1>3 DEF PoInv, PoType, Po!TypeOK, Po!Row, Po!Account, Po!PayoutMethod, Po!StripeAccount, Po!NoRow
<1>6. \A p \in Request : PoRequest(req[p])'
  BY <1>1, <1>4 DEF PoInv, PoType, PoRequest, Po!Account, Po!Row
<1>7. PoType'
  BY <1>1, <1>5, <1>6 DEF PoInv, PoType
<1>8. PoOnboarded'
  BY <1>4 DEF PoOnboarded, Po!Account
<1>9. ~overtaken' => (\A i \in Po!Row : PoEarned(method[i]))'
  BY <1>1, <1>4, PayoutAssumption DEF PoInv, PoEarned, Po!Row, PoType, Po!TypeOK, Po!Account
<1> QED
  BY <1>7, <1>8, <1>9 DEF PoInv

\* Another setting is deployed.
LEMMA PoDeploy == ASSUME PoInv, Po!Deploy PROVE PoInv'
<1>1. /\ country' = "new"
      /\ UNCHANGED <<configured, method, connect, account, link, granted, req, overtaken>>
  BY DEF Po!Deploy
<1>2. /\ method' \in [Po!Row -> Po!PayoutMethod \cup {Po!NoRow}] /\ link' \in 0..MaxLink
      /\ ~overtaken => \A i \in Po!Row : PoEarned(method'[i])
  BY <1>1 DEF PoInv, PoType, Po!TypeOK
<1> QED
  BY <1>1, <1>2, PoRowsStep

\* Every step of Payouts keeps the invariant.
LEMMA PoStep == PoInv /\ Po!Next => PoInv'
<1> SUFFICES ASSUME PoInv, Po!Next PROVE PoInv'
  OBVIOUS
<1>1. CASE Po!AddMethod \/ Po!PaypalLink \/ Po!Deploy
  BY <1>1, PoAddMethod, PoPaypalLink, PoDeploy
<1>2. ASSUME NEW i \in Po!Row, NEW d \in BOOLEAN, Po!SetDefault(i, d) PROVE PoInv'
  BY <1>2, PoSetDefault
<1>3. ASSUME NEW a \in Po!Account, Po!Onboard(a) \/ \E e \in BOOLEAN : Po!Enable(a, e)
      PROVE  PoInv'
  BY <1>3, PoAccountStep
<1>4. ASSUME NEW r \in Request,
             Po!Promote(r) \/ Po!ConnectLink(r) \/ Po!ConnectCommit(r) \/ Po!StatusRead(r)
             \/ Po!StatusCommit(r) \/ Po!ReturnCommit(r) \/ Po!RequestDies(r)
      PROVE  PoInv'
  BY <1>4, PoPromote, PoConnectLink, PoConnectCommit, PoStatusRead, PoStatusCommit,
     PoReturnCommit, PoEnds
<1>5. ASSUME NEW r \in Request, NEW i \in Po!Row, Po!RemoveMethod(r, i) PROVE PoInv'
  BY <1>5, PoRemoveMethod
<1>6. ASSUME NEW r \in Request, NEW l \in 1..MaxLink, NEW c \in BOOLEAN, Po!PaypalReturn(r, l, c)
      PROVE  PoInv'
  BY <1>6, PoPaypalReturn
<1> QED
  BY <1>1, <1>2, <1>3, <1>4, <1>5, <1>6 DEF Po!Next

\* The row that an order is paid out to has earned that it is enabled.
LEMMA PoPaid == PoInv => Po!PaidWhereOnboarded
<1> SUFFICES ASSUME PoInv, NEW psp, Po!Candidates(psp) # {}, ~overtaken,
                    method[Po!Preferred(psp)].enabled
             PROVE  LET m == method[Po!Preferred(psp)]
                    IN  /\ m.type = "bank" => connect # 0 /\ account[connect].ever
                        /\ m.type = "paypal" => m.link \in granted
  BY DEF Po!PaidWhereOnboarded
<1>1. Po!Candidates(psp) \subseteq Po!Row
  BY DEF Po!Candidates, Po!RowsOf, Po!Rows
<1>2. Po!Preferred(psp) \in Po!Row
  <2> DEFINE D == {i \in Po!Candidates(psp) : method[i].default}
  <2>1. D # {} => Po!First(D) \in Po!Row
    BY <1>1, PoFirst
  <2>2. Po!First(Po!Candidates(psp)) \in Po!Row
    BY <1>1, PoFirst
  <2>3. Po!Preferred(psp) = IF D # {} THEN Po!First(D) ELSE Po!First(Po!Candidates(psp))
    BY DEF Po!Preferred
  <2> HIDE DEF D
  <2> QED
    BY <2>1, <2>2, <2>3
<1>3. PoEarned(method[Po!Preferred(psp)])
  BY <1>2 DEF PoInv
<1> QED
  BY <1>3 DEF PoEarned

\* The invariant, of the component when it is the one that runs.
PayoutsHold == component = "payouts" => PoInv

\* It holds in every state.
LEMMA PayoutsInvariant == Spec => []PayoutsHold
<1>1. Init => PayoutsHold
  BY PoInit DEF Init, PayoutsHold
<1>2. PayoutsHold /\ [Next]_vars => PayoutsHold'
  <2> SUFFICES ASSUME PayoutsHold, [Next]_vars, component' = "payouts" PROVE PoInv'
    BY DEF PayoutsHold
  <2>1. CASE PayoutsStep
    BY <2>1, PoStep DEF PayoutsStep, PayoutsHold
  <2>2. CASE UNCHANGED vars
    BY <2>2, PoStutter DEF vars, poVars, PayoutsHold
  <2>3. CASE Next /\ ~PayoutsStep
    BY <2>3 DEF Next, IdentitiesStep, SessionsStep, PhoneCodesStep, CouponsStep, OutboxStep,
       MediaStep, MessagesStep, ListingsStep, SharingStep
  <2> QED
    BY <2>1, <2>2, <2>3
<1> QED
  BY <1>1, <1>2, PTL DEF Spec

\* PaidWhereOnboarded: an order is paid out to the Stripe account that was enabled
\* or on the consents of the latest PayPal link, whatever is typed in, removed,
\* promoted, linked and reported at the same time (users.py, payout_release.py),
\* unless a link, a return or a status request is overtaken by another.
THEOREM PaidWhereTheOwnerOnboarded == Spec => []PaidWhereOnboarded
<1>1. PayoutsHold => PaidWhereOnboarded
  BY PoPaid DEF PayoutsHold, PaidWhereOnboarded
<1> QED
  BY <1>1, PayoutsInvariant, PTL
=============================================================================

------------------------------ MODULE Listings ------------------------------
(***************************************************************************)
(* One listing between its seller (app/routers/listings.py), the keyword    *)
(* filter (app/moderation.py) and the administrators who review it          *)
(* (app/routers/admin_routes.py): its state on the market, the state of its *)
(* review, its text, and the media asset that its images come from.         *)
(*                                                                          *)
(* No request locks the listing.  The seller's update and the approval read *)
(* it, decide, and write at their commit the columns that got another value *)
(* than the one they read; the other requests are short and are one step.   *)
(* Besides the two handlers of the review, handling a report can put a       *)
(* listing on sale, and it looks at no media.                               *)
(***************************************************************************)
EXTENDS Naturals

CONSTANTS
    Text,          \* titles and descriptions
    Blocked,       \* those that have a blocked keyword
    Request        \* requests that can be in progress at the same time

VARIABLES
    row,        \* the row of listings
    asset,      \* the seller's media asset: READY and approved, and attached to
    orders,     \* the orders of the listing: none, only closed ones, an open one
    req,        \* the requests in progress
    approved,   \* what an administrator decided last: the text he approved or wrote,
                \* how he put the listing on sale, and whether its asset was ready then
    crossed     \* an update or an approval ran across something that decides

vars == <<row, asset, orders, req, approved, crossed>>

Unset == "unset"

Listing ==
    [status : {"none", "draft", "active", "inactive", "sold", "deleted", "gone"},
     review : {"draft", "pendingReview", "approved", "rejected", "removed"},
     text : Text, media : {"own", "foreign"}]

Exists == row.status \notin {"none", "gone"}

\* What a request that changes the listing asks for.
Change ==
    [status : {Unset, "active", "inactive", "draft"}, text : Text \cup {Unset},
     images : BOOLEAN]

NoRequest == [kind |-> "none"]

Idle(r) == req[r].kind = "none" /\ r = CHOOSE x \in Request : req[x].kind = "none"

Saved(now, read, set) == IF set = read THEN now ELSE set

\* An update or an approval is in progress.
Across == \E x \in Request : req[x].kind # "none"

-----------------------------------------------------------------------------
\* Media: who may show it, and whose it becomes.

\* _validate_owned_ready_media
OwnedReady(media) == media = "own" /\ asset.ready

\* _attach_media_assets
Attached(a) == [a EXCEPT !.at = IF @ = "none" THEN "here" ELSE @]

\* _require_listing_media_approved looks at the assets attached to the listing,
\* not at those it shows.
MediaApproved == asset.at = "here" => asset.ready

\* The administrator's decision about a text.
Decided(by, t) == [text |-> t, by |-> by, ready |-> asset.ready]

\* The row of an asset that is attached keeps the listing's row from being deleted.
Unreferenced == asset.at # "here"

-----------------------------------------------------------------------------
\* The keyword filter: what is not blocked waits for review.

Moderated(l) == [l EXCEPT !.review = IF l.text \in Blocked THEN "rejected" ELSE "pendingReview"]

\* (Mutation: only new texts are reviewed.)
ReviewNewText(before, after) ==
    after.status # "draft" /\
        (after.text # before.text \/ before.review \in {"rejected", "removed"})

NeedsReview(before, after) ==
    after.status # "draft" /\
        (\/ after.text # before.text
         \/ before.status = "draft" /\ after.status = "active"
         \/ before.status = "inactive" /\ after.status = "active" /\ before.review = "draft"
         \/ before.review \in {"rejected", "removed"})

-----------------------------------------------------------------------------
\* The seller.

Create(status, t) ==
    LET l == [status |-> status, review |-> "draft", text |-> t, media |-> "own"]
    IN  /\ row.status = "none"
        /\ asset.ready
        /\ row' = IF status = "draft" THEN l ELSE Moderated(l)
        /\ asset' = Attached(asset)
        /\ UNCHANGED <<orders, req, approved>>

\* A buyer offers again what was bought: a draft, with the images of the seller
\* it was bought from and the default of review_status.
CreateResale(t) ==
    /\ row.status = "none"
    /\ row' = [status |-> "draft", review |-> "pendingReview", text |-> t, media |-> "foreign"]
    /\ UNCHANGED <<asset, orders, req, approved>>

\* The listing as the change leaves it, before the filter.
Changed(l, c) ==
    [l EXCEPT
        !.text = IF c.text = Unset THEN @ ELSE c.text,
        !.media = IF c.images THEN "own" ELSE @,
        !.status = IF \/ c.status = "active" /\ @ \in {"inactive", "draft"}
                      \/ c.status \in {"inactive", "draft"} /\ @ = "active"
                   THEN c.status ELSE @]

UpdateBegin(r, c) ==
    LET after == Changed(row, c)
    IN  /\ Idle(r)
        /\ Exists /\ row.status # "sold"
        /\ c.text # Unset \/ c.images => orders # "open"
        /\ c.images => asset.ready
        /\ after.status # row.status /\ after.status # "active" => orders # "open"
        /\ after.status # "draft" => OwnedReady(after.media)
        /\ req' = [req EXCEPT ![r] =
               [kind |-> "update", read |-> row, attach |-> c.images \/ after.status # "draft",
                set |-> IF NeedsReview(row, after) THEN Moderated(after) ELSE after]]
        /\ UNCHANGED <<row, asset, orders, approved>>

Commit(r) ==
    LET q == req[r]
    IN  /\ q.kind # "none"
        /\ row' = IF ~Exists THEN row   \* the row is gone: the request fails
                  ELSE [status |-> Saved(row.status, q.read.status, q.set.status),
                        review |-> Saved(row.review, q.read.review, q.set.review),
                        text |-> Saved(row.text, q.read.text, q.set.text),
                        media |-> Saved(row.media, q.read.media, q.set.media)]
        /\ asset' = IF Exists /\ q.kind = "update" /\ q.attach THEN Attached(asset) ELSE asset
        /\ approved' = IF q.kind = "approve" THEN Decided("review", q.read.text) ELSE approved
        /\ req' = [req EXCEPT ![r] = NoRequest]
        /\ UNCHANGED orders

\* delete_listing: what nobody has ordered or asked about goes, the rest rests.
Delete ==
    /\ Exists /\ orders # "open"
    /\ IF row.status \in {"draft", "inactive"}
       THEN orders = "none" /\ Unreferenced /\ row' = [row EXCEPT !.status = "gone"]
       ELSE row' = [row EXCEPT !.status = "inactive"]
    /\ UNCHANGED <<asset, orders, req, approved>>

-----------------------------------------------------------------------------
\* The administrators.

ApproveBegin(r) ==
    /\ Idle(r)
    /\ Exists /\ MediaApproved
    /\ req' = [req EXCEPT ![r] =
           [kind |-> "approve", read |-> row, attach |-> FALSE,
            set |-> [row EXCEPT !.review = "approved",
                                !.status = IF @ = "draft" THEN "active" ELSE @]]]
    /\ UNCHANGED <<row, asset, orders, approved>>

Reject ==
    /\ Exists
    /\ row' = [row EXCEPT !.review = "rejected"]
    /\ UNCHANGED <<asset, orders, req, approved>>

EditContent(t) ==
    /\ Exists
    /\ row' = [row EXCEPT !.text = t]
    /\ approved' = [approved EXCEPT !.text = t]
    /\ UNCHANGED <<asset, orders, req>>

Remove ==
    /\ Exists
    /\ row' = [row EXCEPT !.review = "removed", !.status = "inactive"]
    /\ UNCHANGED <<asset, orders, req, approved>>

Restore ==
    /\ Exists /\ MediaApproved
    /\ row' = [row EXCEPT !.review = "approved", !.status = "active"]
    /\ approved' = Decided("review", row.text)
    /\ UNCHANGED <<asset, orders, req>>

\* handle_report with "restore_content"; with "remove_content" it is Remove.
RestoreReported ==
    /\ Exists
    /\ row' = [row EXCEPT !.review = "approved", !.status = "active"]
    /\ approved' = Decided("report", row.text)
    /\ UNCHANGED <<asset, orders, req>>

\* delete_content keeps what has orders.
DeleteContent ==
    /\ Exists
    /\ IF orders = "none" THEN Unreferenced /\ row' = [row EXCEPT !.status = "gone"]
       ELSE row' = [row EXCEPT !.review = "removed", !.status = "deleted"]
    /\ UNCHANGED <<asset, orders, req, approved>>

\* The decision about the asset (Media): a rejection reaches every listing of
\* the seller that shows it.
RejectMedia ==
    /\ asset.ready
    /\ asset' = [asset EXCEPT !.ready = FALSE]
    /\ row' = IF Exists /\ row.media = "own" THEN [row EXCEPT !.review = "rejected"] ELSE row
    /\ UNCHANGED <<orders, req, approved>>

ApproveMedia ==
    /\ ~asset.ready
    /\ asset' = [asset EXCEPT !.ready = TRUE]
    /\ UNCHANGED <<row, orders, req, approved>>

-----------------------------------------------------------------------------
\* Orders (Checkout): placed on what is active, reviewed or not; closed, sold.

OnSale == row.status = "active" /\ row.review = "approved"

OrderPlaced ==
    /\ row.status = "active" /\ orders # "open"
    /\ orders' = "open"
    /\ UNCHANGED <<row, asset, req, approved>>

OrderClosed(sold) ==
    /\ orders = "open"
    /\ orders' = IF sold THEN "open" ELSE "closed"
    /\ row' = IF sold THEN [row EXCEPT !.status = "sold"] ELSE row
    /\ UNCHANGED <<asset, req, approved>>

-----------------------------------------------------------------------------
Init ==
    /\ \E t \in Text : row = [status |-> "none", review |-> "draft", text |-> t, media |-> "own"]
    /\ asset \in [ready : {TRUE}, at : {"none", "other"}]
    /\ orders = "none"
    /\ req = [r \in Request |-> NoRequest]
    /\ approved = [text |-> Unset, by |-> "nobody", ready |-> FALSE]
    /\ crossed = FALSE

\* Whoever decides about a listing, its media or its order while a request that
\* has read it goes on, crosses that request.
Next ==
    \/ /\ crossed' = (crossed \/ Across)
       /\ \/ \E s \in {"draft", "active"}, t \in Text : Create(s, t)
          \/ \E t \in Text : CreateResale(t) \/ EditContent(t)
          \/ \E r \in Request : ApproveBegin(r) \/ \E c \in Change : UpdateBegin(r, c)
          \/ Delete \/ Reject \/ Remove \/ Restore \/ RestoreReported \/ DeleteContent
          \/ RejectMedia \/ ApproveMedia
          \/ OrderPlaced \/ \E b \in BOOLEAN : OrderClosed(b)
    \/ /\ UNCHANGED crossed
       /\ \E r \in Request : Commit(r)

Spec == Init /\ [][Next]_vars

-----------------------------------------------------------------------------
TypeOK ==
    /\ row \in Listing
    /\ asset \in [ready : BOOLEAN, at : {"none", "here", "other"}]
    /\ approved \in [text : Text \cup {Unset}, by : {"nobody", "review", "report"},
                     ready : BOOLEAN]

\* An administrator put the listing on sale with its seller's asset not approved:
\* from a report, or while the asset was attached to another listing.
Unseen == ~approved.ready /\ (approved.by = "report" \/ asset.at # "here")

\* What buyers see was reviewed: the text is the one that an administrator
\* approved or wrote, and the seller's asset it shows is approved now, whatever
\* edits, removals and rejections came in between, except where an administrator
\* himself overlooked it in one of the two ways that the code leaves open.
OnSaleWasReviewed ==
    OnSale /\ ~crossed =>
        /\ row.text = approved.text
        /\ row.media = "own" => asset.ready \/ Unseen
=============================================================================

# Formal models of the HeiShi marketplace backend

This directory holds TLA+ specifications of the backend in `src/app/`, the
configurations that check them on small instances with TLC, and theorems about
them proved with TLAPS. File names and line numbers below refer to `src/`.

| module | what it models | lines of the source |
|---|---|---|
| `SingleRunner` | what the scheduler lease promises: one cycle at a time | abstract |
| `SchedulerLease` | the lease that elects a worker for each periodic cycle | `background_jobs.py`, `main.py` |
| `Checkout` | buying one listing: orders, offers, payments, stock | `routers/orders.py`, `payments/`, `catalog_helpers.py`, offers of `routers/platform_features.py`, status edits of `routers/listings.py` |
| `Settlement` | a paid order until its money is settled | `routers/orders.py`, `order_jobs.py`, `payout_release.py`, `payments/refunds.py`, refund events of `payments/webhooks.py`, payouts and disputes of `routers/admin_routes.py` |
| `Identities` | accounts, the ways to sign in to them, merging them | `routers/auth.py`, `account_merge.py`, `routers/admin_routes.py` |
| `Sessions` | refresh tokens and device sessions of an account | `auth.py`, `routers/auth.py` |
| `PhoneCodes` | one-time codes of a phone number | `phone_verification.py`, `twilio_otp.py`, `routers/auth.py` |
| `Outbox` | one notification, from its cause to the provider's answer | `notification_jobs.py`, `push_notifications.py`, `sms_notifications.py` |
| `Media` | one uploaded file until it can be shown | `routers/platform_features.py`, `storage.py`, `media_processing.py` |
| `Messages` | conversations, watermarks, unread counters | `routers/messages.py`, `messaging_read.py`, `conversation_inbox.py` |
| `Listings` | a listing's way through review | `routers/listings.py`, `moderation.py`, `routers/admin_routes.py` |
| `Payouts` | where a seller is paid | `routers/users.py`, `stripe_service.py`, `payout_release.py` |
| `Sharing` | share links, guests' sessions, pending actions | `routers/platform_features.py` |
| `Coupons` | one coupon on its way through orders | `coupon_service.py`, `routers/orders.py`, `payments/fulfillment.py` |
| `Backend` | the ten modules above, side by side | composition |
| `MCBackend` | `Backend`'s small instance | |
| `MC...` | the instance parameters TLC needs (symmetry, the providers' table) | |
| `SchedulerLeaseProofs`, `CheckoutProofs`, `SettlementProofs` | theorems about these three | |
| `AccountProofs` | theorems about `Identities`, `Sessions`, `PhoneCodes` in `Backend` | |
| `TradeProofs` | theorems about `Listings`, `Payouts`, `Sharing`, `Coupons` in `Backend` | |
| `DeliveryProofs` | theorems about `Outbox`, `Messages`, `Media` in `Backend` | |
| `BackendProofs` | `Backend`'s type invariant, from the three above | |
| `NaturalLemmas` | least and greatest elements of sets of numbers | |

## 1. The system

A FastAPI application over PostgreSQL (SQLAlchemy, one session per request,
`autoflush=False`, default isolation READ COMMITTED). It runs as several worker
processes. Every handler is a synchronous function on a thread of its own; the
only things handlers share are the database's rows and the external services.

### Components

Each line names the state, what happens to it, and what has to be true.

* **Periodic scheduler** (`background_jobs.py`, loop in `main.py`). State: the
  one row of `background_job_leases`. Every process wakes up each interval,
  claims the slot, runs the jobs, releases the lease. Hard: two processes
  claiming together, crashes, a cycle longer than its lease. Correct when one
  process runs the jobs at a time, cycles keep their distance and a crash delays
  the next one by a lease at most.
* **Checkout and payment** (`routers/orders.py`, `payments/`). State: orders with
  their payment columns; at the provider, checkout sessions, intents, captures.
  Operations: create, checkout, pay, provider events (settled, approved, failed),
  return pages, cancel, seller's cancel and price adjustment, expiry. Hard:
  events late, twice, or racing with the return page; crashes between a
  provider's effect and the commit; the row read long before it is written.
  Correct when an order is fulfilled only if paid, stock is sold once, a decided
  order stays decided and a paid order is eventually decided.
* **Inventory** (`catalog_helpers.py`). State: listing status and the bundle's
  items. Called by checkout, payment, expiry and completion.
* **Private offers** (`routers/platform_features.py`, `notification_jobs.py`).
  State: an offer's status. Created, viewed, accepted, rejected, cancelled,
  expired, invalidated by a sale. Correct when an offer makes one order at most
  and an accepted offer reserves the listing alone.
* **Settlement** (`routers/orders.py`, `order_jobs.py`, `payout_release.py`,
  `payments/refunds.py`, `payments/webhooks.py`, `routers/admin_routes.py`).
  State: the order's status, payment, refund, payout, pause, dispute and
  confirmation deadline; the provider's transfers and refunds. Hard: provider
  calls take effect whatever becomes of the commit; answers get lost; refund
  events are late; reviews, confirmations and decisions overlap. Correct when
  the row never claims money that did not move, the seller is paid once, never
  after a refund or during a pause, and a shipped order is confirmed in the end.
* **Payout methods** (`routers/users.py`, `stripe_service.py`,
  `payout_release.py`). State: rows of `payout_methods`, one of them the default,
  the account at Stripe, the latest PayPal link. Hard: the seller works in the
  provider's pages while links are replaced, countries change and returns come
  late. Correct when a payout goes only to what its owner has completed.
* **Payout providers** (`paypal_payout_service.py`, `alipay_payout_service.py`,
  `wechat_payout_service.py`, `paypal_partner_service.py`). Request signing and
  parsing; their outcomes are inputs of `Settlement` and `Payouts`.
* **Listings and moderation** (`routers/listings.py`, `moderation.py`,
  `routers/admin_routes.py`). State: a listing's status, price, review status,
  text and media. Hard: updates, decisions, orders and the media's own
  moderation meet on one row that nobody locks. Correct when what is on sale was
  reviewed and no edit changes an order under way.
* **Coupons** (`coupon_service.py`, `routers/orders.py`). State: a user's coupon
  and the orders that carry it. Correct when it reduces the price of one order.
* **Notification outbox and push** (`notification_jobs.py`,
  `push_notifications.py`, `sms_notifications.py`). State: rows with
  deduplication keys, delivery state and attempts, the user's preferences. Hard:
  one commit at the end of a cycle for calls that cannot be taken back. Correct
  when an event is told once and the rows say what happened.
* **Media pipeline** (`routers/platform_features.py`, `storage.py`,
  `media_processing.py`, `media_security.py`, `video_processing.py`). State: upload
  session, staged file, stored objects, asset with its lease. Hard: files and rows
  do not commit together. Correct when a worker is given the client's file, and
  what is shown has passed.
* **Accounts and ways to sign in** (`routers/auth.py`). State: columns of a user's
  row and rows of `auth_identities`, which say the same twice. Hard: signing in
  takes two transactions, and binding, unbinding and merging work on the other
  record. Correct when both records agree and nobody is locked out.
* **Account merge** (`account_merge.py`, `routers/auth.py`,
  `routers/admin_routes.py`). Correct when nothing stays behind on an account that
  was merged away and nobody has traded with himself.
* **Sessions and one-time codes** (`auth.py`, `routers/auth.py`,
  `phone_verification.py`, `twilio_otp.py`). State: refresh tokens, device
  sessions, codes with attempts. Hard: they are read, used and written in steps of
  their own. Correct when a token or code is used once, and what is live is shown
  to its owner, who can end it.
* **Messaging** (`routers/messages.py`, `messaging_read.py`,
  `conversation_inbox.py`). State: messages, read watermarks, unread counters.
  Correct when what counts as read was shown.
* **Sharing and attribution** (`routers/platform_features.py`). State: share links
  with counters, events, anonymous sessions with consent, pending actions. Correct
  when what a guest leaves behind goes to one account, with consent.
* **Users, addresses, cards, verification** (`routers/users.py`,
  `routers/user_data.py`, `avatar_photos.py`): edits of the user's own rows.
* **Support, announcements, exposure rules** (`routers/platform_features.py`),
  **catalogue queries, administration, region safety, schema, scripts**: reads,
  reports, configuration rows, declarations and one-off tools.

Calls between them: the scheduler runs three jobs, automatic confirmation
(`order_jobs`), scheduled notifications (order reminders, which expire unpaid
orders first, expired offers, the outbox's deliveries) and queued media; listing
and reading orders and the catalogue expire unpaid orders too. Checkout and
settlement write orders and the listing and enqueue notifications; completing an
order sells the listing and releases the payout; disputes and refund events reach
settlement through the administrator and the provider.

## 2. How a request is modelled

No order row is locked or versioned in the handlers modelled here. A handler
queries the order, tests it, changes attributes of the Python object and
commits; the ORM then writes the columns whose value changed since it was read.
So a request is an entry of `req` and two steps:

* a *Begin* step reads the rows and applies the handler's tests to them. The
  entry keeps the row as read;
* a *Finish* step commits: `MergeOrder` / `Merge` (built on `Put`) writes the
  changed columns over whatever the row has become and leaves the rest.

Between the two anything may happen. Handlers that lock the listing
(`SELECT ... FOR UPDATE`) and have not loaded it before see its value of the
moment in their second step. `/pay` has loaded it with the order, and a locked
query does not refresh attributes that are loaded already (no
`populate_existing`), so it keeps the listing as read (`ListingSeen`).
`create_order` and `accept_private_offer` hold their locks from the first read to
the commit and are one step each; `create_order` with expired orders around is
three, because expiry commits and gives the lock up (`orders.py:300`).

In `Checkout` the provider is called in the second step, after the lock; in
`Settlement` it is called in the Begin step, which also computes the new row from
the provider's answer, and the commit comes later. A call's effect stays whether
or not the commit happens (`RefundLost`, `CheckoutLost`, `Raise`, `Abandon`).

The other modules follow the same pattern, with one step more or less where the
code commits in the middle. They keep a request's copy of what it read only as
far as its commit depends on it: the ORM writes the columns that got another
value than was read (`Saved`, `Written`, `Committed`). A request that locks its
row (`FOR UPDATE`), or whose steps touch nothing another request writes, is one
step. Requests die at a commit (`Die`, `RequestDies`, `WorkerDies`).

## 3. The modules

### SchedulerLease and SingleRunner

`row` is the lease row, `worker[w]` the place of process w inside
`run_periodic_cycle` with the clock value it read. `Wake` reads clock and row,
`InsertLease`/`InsertConflict` are the first-row race (`background_jobs.py:57`),
`ClaimLease`/`LoseClaim` the conditional UPDATE with the *old* clock value,
`RunJob` a job that returns or raises, `ReleaseLease`/`ReleaseFails` the finally
clause, `Crash` a process death. `SingleRunner` has one variable, who is running,
and starts and ends; `RunnerOf` is the refinement mapping.

### Checkout

One listing (product, service or bundle), its orders, private offers, the
provider's payments per order, open requests, and which orders and offers are
past their time. `Begin...` and `Finish...` follow the handlers by name;
`FinishFulfil` and `FinishConflict` are `fulfill_paid_order` and
`_refund_unavailable_paid_order`, which every confirmation (`/pay`, Stripe event
or return page, PayPal capture) ends in. `BuyerPays` is the buyer at the
provider. A Stripe checkout session can be completed before its money is there (for
wallets the money comes, or fails, later): the payment is then "complete", and
`SessionSettles` makes it "captured" or "bounced". The backend does not make the
difference: `BeginSettled` is any event about a finished session, `BeginReturn` the
return page, which is given the order and the session's id separately and compares
neither with the other. `Complete` stands for the whole of Settlement as far as the listing is
concerned. `Op` chooses the requests that arrive, so that a run can look at the
ones that interact.

### Settlement

One order from the state Checkout leaves it in: fulfilled, or in dispute because
its stock was gone. An *outcome* is the order as the handler has it in memory
together with the provider's ledgers: `ReleaseOutcomes`, `ReverseOutcomes` and
`RefundOutcomes` are the sets of outcomes of `release_payout_for_order`,
`reverse_released_payout_for_order` and `refund_order_payment`, and handlers
compose them. `transfer[n]` and `refund[n]` are the provider's books; a refund
keeps the set of states it has passed, since a late event reports an old one.
The rails differ in what an answer is taken for (`Recorded`): Stripe makes a new
transfer per call; batches derive the id from the order (PayPal, Alipay) and are
released when they are reported paid; a finished WeChat batch counts as released
whatever became of the transfer in it; and of a payment that PayPal holds back
(DELAYED) the release is recorded without a look at the answer.

### Identities

`user` has the columns of the users' rows that sign-in looks at, `row` the rows of
`auth_identities`, `history` the facts that other tables hold of an account or of
two together that a merge looks at, `belongings` the accounts with a coupon, an asset
or an upload, which the owner's merge does not look at and every registration gives
(`issue_welcome_coupon`). `SignIn` is the first transaction of a sign-in, `IssueTokens`
the second, with `_sync_auth_identities` (`InSync`, `Synced`). A registration is two
steps, for any number of requests at the same time: `RegisterBegin` finds nobody with
the subject, `Register` makes the account, whoever has the subject by then, unless a
unique constraint stands against it (`Unique`: phone numbers, and Alipay by its row);
`twice` keeps the subjects for which that happened. `Unbind`/`UnbindCommit` are two
steps; a merge, which writes everything in one flush, is one (`MergeByPhone`,
`MergeByIdentity`, `MergeByAdmin`); `retired` are the accounts their owner has merged.

### Sessions

`Refresh` presents a token, which its row lock makes one step; `FindSession`,
`StoreToken`, `Rotate` and `NewSession` are what follows in `_issue_tokens`, whose
first commit makes the session's row be read again. `spawn[t]` remembers which
tokens `t` was exchanged for, `alone` the tokens made by requests that nothing
overlapped.

### PhoneCodes

For one purpose: `SendCode` and `IssueCode` around the row they read, `CheckCode`
and then `WrongCode`, `RightCode` or `RefuseCode`, `CreateAccount` after a code for
registration. `accepted` are the codes that let somebody in, `guesses` the wrong
guesses that nothing overlapped.

### Outbox

One deduplication key. `event` says which transaction or which reminder of the
cycle writes it (`Enqueue`, `RemindersDue`, `OffersDue`, `InterestsDue`), `dispatch`
and `inbox` are its rows, `accepted[c]` counts how often the provider of channel c
took it. A cycle is `Begin`, one `Call` for each channel, `Commit`. `cutShort` and
`overlapped` record that a cycle died or lost an answer after a call, or that two
ran together, which `SchedulerLease` says cannot happen within a lease.

### Media

`upload` and `asset` are the two rows, `part` the staged file, `store` the stored
objects, as sequences of the client's blocks, so that a hole or a wrong order shows.
Chunk and finalize are three steps each: begin, write the file, commit. A worker
takes, downloads, decides and commits (`Take`, `Refuse`/`ProcessAssetBytes`/
`FindDuplicate`, `WorkCommit`); `LeaseEnds` lets another one take the asset too.

### Messages

`row` are the conversations' rows, `messages` what is committed. A message gets its
time in `SendFlush`, which holds the row's lock to the commit. `shown[u]` are the
messages that were committed when u's reading looked for them. A conversation that
the clean-up has removed is `gone`: its key is a UUID, which no other one gets.

### Listings

One listing, what an administrator decided last (`approved`: the text, by which
handler, and whether the seller's asset was approved then), and one asset.
`UpdateBegin` and `ApproveBegin` read, `Commit` writes; other requests are short and
one step. `MediaApproved` is the code's own guard, which looks at the assets attached
to the listing; the property speaks of the asset it shows. `RestoreReported` is a
report handled with "restore_content", which has no such guard. `OrderPlaced` asks for
an active listing only, as `create_order` does.

### Payouts

`method` are the rows, `account` the accounts at Stripe with what the seller has
done there, `link` and `granted` the PayPal links made and completed. `ConnectLink`,
`StatusRead` and `PaypalReturn` read or call, their commits come later.

### Sharing

One link, one guest's session, one pending action, and two users. Consent is changed
under a lock; associating the session with a user (`LinkBegin`/`LinkCommit`,
`ConsumeBegin`/`ConsumeCommit`) and recording an event read it without one.

### Coupons

One coupon and two orders. `ApplyBegin`, `ApplyCheck` and `ApplyCommit` are the two
queries and the commit of an application; `PayBegin`/`FulfillPaidOrder` the payment,
which uses up the coupon the order had when it was read.

### Backend and MCBackend

The ten modules share no variable that one writes and another reads, so their
product would only multiply their states. `Backend` gives each a disjunct of
`Init` and a step that is enabled only in its own behaviours; the variables of the
others are constant. Names that several modules use (`row`, `req`, `asset`,
`accepted`) are one variable, which belongs to the component of the behaviour.
`Backend` names its assumptions about the constants and states the components'
properties; `MCBackend` narrows `Init` and `Next` to what TLC can explore, which it
names one by one. The theorems are about `Backend`, without these restrictions.

## 4. What TLC checks

`CHECK_DEADLOCK FALSE` stands wherever a bounded instance may run out of orders,
payments or transfers, which is no fault. Symmetry is used in safety runs only.

| run | instance | shows |
|---|---|---|
| `SchedulerLease` | 3 processes, interval 2, lease 3, calls of at most 2, time 7, 2 crashes | `SingleOwner`, `CadenceKept`, refinement of `SingleRunner` |
| `SchedulerLeaseOverrun` | 2 processes, calls of up to 5 that outlive the lease of 3, time 8 | `LeaseKeptWhileRunning`, `SlotsKeepComing` |
| `CheckoutConcurrent` | bundle of 2 items, 2 orders, 2 sessions, 1 payment each; orders, checkouts, events, return pages, cancellations | `FulfilledWasPaid`, `SoldOnce` |
| `CheckoutSerial` | 2 orders, 1 session, 2 payments per order (Stripe, then PayPal), all requests of a buyer | `DecidedStays`, `TurnedDownOnlyWhenSold` |
| `CheckoutOffers` | 2 offers, 3 orders, 2 sessions | `OneReservation`, `OfferMakesOneOrder` |
| `CheckoutLive` | 2 orders, 1 session, seller's edits, completion | `PaidOrderDecided` (liveness), `SoldNotOffered` |
| `Settlement` | 1 session, the four rails, 2 transfers, 2 refunds | `PaidOnce`, `NotPaidAfterRefund`, `PausedIsHeld`, `RefundedStays`, `ReviewedIsCompleted`, `ReceiptHappens` (liveness) |
| `SettlementConcurrent` | 2 sessions, the four rails, a service from its payment on, lost calls and commits, late events, 1 transfer, 1 refund | `ReleasedWasPaid`, `RefundedWasReturned` |
| `Backend` | ten components, bounds below | below |
| `CheckoutOversell`, `CheckoutSelfConflict`, `SettlementReversal` | | the disagreements of section 7 |

Why the bounds are enough for these questions. A lost race needs two parties:
two sessions and two orders show every pair of overlapping requests, a third
order leaves room for an ordinary purchase beside two accepted offers. A second
payment of an order is what supersedes `psp_payment_id`; a third adds nothing the
code distinguishes. A second transfer or refund is the first one that may be
wrong; a third would follow from the same state. Prices matter only by being
equal or not and by the bundle's share being subtracted, so three distinct small
values do. In the lease, a call of 2 under a lease of 3 reaches the last moment
the claim is safe, a call of 5 overruns it past the next owner's claim; 7 or 8
units give three or four slots. Amounts, names and messages are left out except
where an amount decides (`InventoryAvailable`, the size of a refund).

The run `Backend`, by component (about 1.3 million states together):

| component | bounds | shows |
|---|---|---|
| identities | 2 accounts, 2 phone numbers, one of WeChat, Alipay and Google configured, 1 unbinding under way; 2 registrations of one subject under way, 1 row of history, 1 of the accounts banned | `SignInFindsOwner`, `KeepsAMethod`, `MergedIsEmpty` |
| sessions | 1 device, 3 tokens, 2 requests at a time and 3 in all | `RotateNeverClone`, `LiveIsShown` |
| one-time codes | each purpose by itself, 2 codes, 2 requests, 2 attempts, 1 failed password | `CodeIsProof` |
| outbox | 5 of the events, 2 overlapping cycles, 2 attempts | `ToldOnce`, `RowsAreTrue` |
| media | 2 blocks, 2 workers, 2 automatic attempts; or 1 retry by the owner, with a duplicate or an object store | `SourceIsWhole`, `ReadyIsApproved` |
| messages | 2 conversations, 2 requests, 3 moments | `AckedWasShown` |
| listings | 2 texts, one of them blocked, 1 request under way beside the short ones | `OnSaleWasReviewed` |
| payouts | 2 rows, 2 Stripe accounts, 2 PayPal links, 2 requests; Stripe, or PayPal and Alipay | `PaidWhereOnboarded` |
| sharing | 2 users, 2 requests, 1 event, a view or a payment | `SessionOfOne` |
| coupons | 2 orders | `SpentOnce` |

`MCBackend` lets a registration overlap with another of the same subject and with
identities being written, and begin when no sign-in or unbinding is under way (`Joining`);
that leaves room for both requests to find nobody and for the second commit. It does
not go on from states that no property speaks of any more (`Excepted`). The theorems are
without these restrictions.

Two is enough for what these ask: a race has two parties, a merge two accounts, a
replacement an old and a new. Three tokens are one that is exchanged, its successor,
and one of a sign-in that overlaps; three moments let a message be earlier, at the
same time or later. Two attempts instead of three or five reach the limit after one
that is below it. Two blocks make a file with a beginning that may be missing or
repeated.

What each property excludes is part of what it says. `LiveIsShown` speaks of tokens
from requests that nothing overlapped, `ToldOnce` of cycles that neither died nor
overlapped, `SourceIsWhole` of files no write of which was torn, `ReadyIsApproved`
of workers that kept within their lease, and `SignInFindsOwner`, `KeepsAMethod`,
`MergedIsEmpty`, `OnSaleWasReviewed`, `PaidWhereOnboarded`, `SessionOfOne` and
`SpentOnce` of behaviours in which no commit wrote over what its request had not
seen. Three properties have an exception for what the code does outright:
`SignInFindsOwner` for WeChat and Google subjects that were registered when somebody
had them, `MergedIsEmpty` for coupons, assets and uploads after the owner's own merge,
`OnSaleWasReviewed` for an administrator who restores a listing from a report or whose
guard looks past an asset attached elsewhere. And two ask for no more than the code
does: `FulfilledWasPaid` for a completed checkout, not for its money, and
`ReleasedWasPaid`, on the rails "wechat" and "delayed", for an accepted transfer.
Without these conditions the code does not keep them; section 7 says how.
`RotateNeverClone`, `CodeIsProof` (the part about codes that were used),
`AckedWasShown` and the first half of `RowsAreTrue` hold whatever overlaps.

Where a run has one session (`CheckoutSerial`, `CheckoutLive`, `Settlement`), its
properties do not survive two, and section 7 says which and why. (`PausedIsHeld`
does, and is proved without the restriction.) They are still worth checking: they
rule out illegal *sequences* of legal requests, events, crashes and redeliveries, of
which each of these runs explores all.

### Fairness

* `SchedulerLease`: the clock advances; the loop in `main.py` never stops waking
  the worker up (`Wake` is weakly fair) and a call that has begun goes on
  (`Cycle`). Crashes and failing releases are not fair; they may happen or not.
* `Checkout`: Stripe redelivers an event until it is acknowledged, so for every
  payment the event's handler is strongly fair (the handler may be refused a
  session and come back); a session ends, normally or not; and not every
  delivery of an event is cut short (strong fairness of the two outcomes of a
  confirmation). Nothing is assumed about PayPal, the buyer or the seller.
* `Settlement`: the deadline passes, sessions end, and the confirmation job,
  which runs every cycle, eventually finds the order. No fairness of the buyer,
  the administrator or the provider.

Settlement's liveness needs the strong fairness of the job because other requests
may hold the one session of that instance again and again.

## 5. What is proved

Every safety property that a passing run checks is also a theorem, for every value of
the constants that satisfies the named assumptions: any number of orders, requests,
workers, processes, payments, tokens, messages, blocks. Each proofs module has a lemma
per action, a lemma for `Next`, and a temporal step. What is proved about
`Checkout`, `Settlement` and `SchedulerLease` is about their own `Spec`; what is proved
about the other ten is about `Backend`'s, where a component's invariant (`...Hold`) is
kept by its own step and untouched by the others'.

The assumptions about constants say that bounds are numbers, that the names of what is
absent (`Nobody`, `NoItem`) name nothing else, that a product or service has no items,
that there is at least one block and token, and that the conversations are finitely
many. They are `ASSUME`s of `Checkout`, `Settlement`, `SchedulerLease` and `Backend`,
so TLC evaluates them on the instances. What a theorem needs beyond them is in its
statement: `MaxCycle < LeaseLength`, one request at a time, the kinds of requests that
arrive.

### The scheduler's lease

`TypeCorrect`, `CyclesKeepTheCadence` and `NobodyEndsAnothersLease` hold with no
assumption about how long a cycle takes: they follow from the type of the row, since a
claim tests the very columns it writes. `OneCycleAtATime` (`SingleOwner`) and
`LeaseImplementsSingleRunner` assume that no call outlives its lease (`MaxCycle <
LeaseLength`; nothing in the code enforces it, and the Overrun run shows what happens
otherwise). `SingleOwner` alone is not inductive: that nobody else can claim follows
from the lease in the row, which is why the invariant adds `Punctual` (every clock
value in use is recent) and `LeaseCovers` (a running worker owns the row, and its lease
ends after any clock value another may still be using).

### Checkout

For any mix of concurrent requests:

* `TypeCorrect`; `FulfilledOnlyWhenPaid`; `OneOrderPerOffer`; `OneReservationAtATime`.
  A commit writes what an earlier step decided, so the invariant speaks of requests
  too: every one about to confirm is `Entitled`, every row that says paid is backed by
  a capture or a completed checkout (`Evidence`). Orders change one way (`OrderStep`):
  they are created, accepted or `Kept`, which keeps the offer and the item, and a
  capture or a completed checkout stays one; this lets the evidence of an old read
  justify a late write.
* `WebhooksSellOnce` (`SoldOnce`), for products, services and bundles of any number of
  items, when the requests that act on a listing read before the lock (`pay`,
  `activate`, `deactivate`) are excluded. `SoldIsMarked`: what an owning order is for,
  the listing or an item of it, is marked sold, so the locked test sees it.
  `ItemKnown`: the row a request has read names the item its order still has.

When requests come one at a time (`OneRequest`; with two, section 7):

* `DecidedOrdersStay`. Every handler that changes an order begins by refusing one that
  is not unpaid. `Waiting` says that this test is still true when the handler commits:
  the order of an open request is unpaid, and so is the row it has read.
* `TurnedDownBecauseSold`, for what is sold whole and not taken down by the seller.
  `SaleHasBuyer`: whenever the listing is off the market, or `/pay` has read it so,
  some order has bought it. (A bundle that is adjusted is turned down unsold.)
* `SoldListingsAreNotOffered` (`SoldNotOffered`). `OffSale`: what an order on its way
  has bought as a whole is marked sold, and a seller's request that changes the
  status is open only while there is no such order.

### Settlement

For any number of requests, with lost calls, answers and commits, dying processes and
late events:

* `TypeCorrect`, `ReleasedOnlyWhenPaid`, `RefundedOnlyWhenReturned`. Not inductive
  alone, because a commit merges a copy computed long before: the invariant demands
  the same of the row and of both copies in every request (`Backed`), and the ledgers
  only grow in what they witness (`PaidIn`, `ReturnedIn`), so that a copy once backed
  stays backed. The merge of backed rows is backed column by column.
* `PausedPayoutsAreHeld` (`PausedIsHeld`). A release reads the row and calls the
  provider in one step of the model, so the pause it obeys is the row's at that moment;
  the time between the query and the call is not modelled.

Under `OneAtATime` (one request at a time, none lost, no late event: the setting of the
run `Settlement`), for every rail and any number of transfers and refunds:
`PaidAtMostOnce`, `ReviewedOrdersAreCompleted`, `NoPayoutWhileRefunding`,
`RefundedOrdersStay`. Their invariant, `SerialInv`, has one part per way in which the
row and the provider may disagree:

* `Ledgers`: the provider keeps one Stripe transfer at most and one batch; a new refund
  follows failed ones only;
* `RefundKnown` and `TransferKnown`: with nothing open, the row knows of every refund
  and transfer that the provider has;
* `Reviewed`: reviews follow receipt, and the second one has completed the order;
* `Progress`: an open request has read the row as it still is, and what it will commit
  knows the ledgers as they are now. This part is false as soon as two requests
  overlap, which is exactly where the disagreements of section 7 come from.

### The components of Backend

Each property is stated with its exception (a commit that wrote over what its request
had not seen, a cycle cut short, a lease overrun), and so is the invariant: a part that
holds always, and a part that holds until the exception has happened.

| theorem | invariant, and why the property is not inductive alone |
|---|---|
| `SigningInFindsTheOwner`, `MergedAccountsAreEmpty`, `AMethodIsKept` | `IdInv`: the columns and the rows agree on who has a subject (`IdAgree`), accounts that are not there or retired have nothing (`IdEmpty`), a recorded way is verified, and an unbinding under way has read that its subject was not the only one (`IdLeaving`); beside it `IdMore`, of what accounts own and of registrations (`IdJoining`, `IdStranded`). A registration that somebody was faster than puts the subject into `twice`, for which the columns' uniqueness is no longer claimed. A merge moves what both records say, so it needs their agreement beforehand |
| `TokensRotateNeverClone`, `LiveTokensAreShown` | `SeInv`: a token in use is revoked and used by one request (`SeUsed`); a live token of a lone request has a session that carries it, and every request that might replace or end this session knows the token and revokes it (`SeCarries`, `SeKnows`) |
| `CodeLetsInOnce` | `PcInv`: codes are new and differ between purposes; what a request has read is the purpose's code or gone for good; guesses are counted in the row and in what a lone guess has read |
| `ListingOnSaleWasReviewed` | `LiInv`: until decisions cross, one request is under way, has read the listing as it is and writes something that was reviewed (`LiFresh`); what is on sale shows an approved asset or one an administrator overlooked |
| `CouponSpentOnce` | `CoInv`: one order has the coupon, is about to have it, or has spent it (`CoClaimed`) |
| `SessionGoesToOne` | `ShInv`: requests that associate the session saw it linked to nobody else; what is attributed, or about to be, is the linked user's |
| `PaidWhereTheOwnerOnboarded` | `PoInv`: every row that says enabled has earned it, not only the preferred one (`PoEarned`), and open requests know the account or link they speak of |
| `OutboxToldOnce`, `OutboxRowsAreTrue` | `ObInv`: what was accepted is in the row or in the memory of the cycle that will commit it (`ObOnce`); a cycle that runs alone finds the rows as it read them (`ObAlone`) |
| `AcknowledgedWasShown` | `MsInv`: a message that is not committed is later than everything its row knows of and than every watermark about to be written (`MsLatest`), since the sender holds the row's lock; an unread counter that is zero means that there is nothing unread (`MsUnread`, `MsSendings`) |
| `WorkersGetTheWholeFile` | `MeInv`: the staged file is a beginning of the client's, a chunk continues it and a copy has all of it (`MeStaged`); an object is whole or absent but for the one being copied (`MeStored`) |
| `PublishedMediaIsApproved` | `MeAlone`: until a worker outlives its lease, one has the asset, and no decision is made under it |
| `RowsKeepTheirTypes` | the type parts of all the invariants above |

### Only model-checked

`SlotsKeepComing`, `PaidOrderDecided` and `ReceiptHappens` are liveness under fairness,
which needs ENABLED and is outside what the proof system handles. That the properties
fail without their restrictions is shown by the three runs that expect a violation, and
otherwise said in section 7.

## 6. Not modelled

In the modules:

* `Checkout`: the escrow fee, blocked users, notifications and their texts, simulated
  payments (a development mode that skips the provider), the chat card of an offer;
  coupons have a module of their own. A seller's edit of a bundle's prices while no
  order is open only changes initial values. `Checkout` ends an order at `Complete`,
  `Settlement` starts from what Checkout leaves; the two share no other columns than
  those `Complete` names.
* `Checkout`'s events come from Stripe: with no webhook secret configured the code
  takes them unsigned (`payments/webhooks.py:72`), and that is not modelled.
* `Settlement`: partial amounts; a payout without a usable destination is one of the
  blocked outcomes, `Payouts` says when there is one.
* `Identities`: Supabase's sign-in, profiles, passwords; the tables that a merge
  moves are one set of facts. Signing in to an account that exists and binding are one
  transaction each: their overlap with another commit is modelled for registrations
  and unbindings only. `Sessions`: several accounts. `Listings`: labels, notes,
  tags, bundles, the direct upload of an image. `Messages`: the manual unread mark,
  several parties. `Outbox`: texts, announcements, the immediate push of a chat
  message. `Media`: what is done to pixels and codecs is one outcome.

Components left out, and why:

* saved cards, addresses, favourites, follows, history, profiles
  (`routers/users.py`, `routers/user_data.py`): each request edits one row of its
  user's own, and nothing else in the program depends on the order of two of them;
* verification (`routers/users.py`, `routers/admin_routes.py`): a submission and one
  decision on it;
* support conversations, announcements, exposure rules (`routers/platform_features.py`),
  safety reports and blocklist, configuration rows: inserts and single-row edits;
* catalogue queries, ranking, serializers and schemas: reads;
* payout providers' signing, image search, video and image work: computation on
  payloads behind calls whose outcomes the models choose freely;
* `migrations.py`, `seed.py`, `database.py`, `scripts/`: run once, or by hand.

## 7. Where code and comments disagree

Shown by a run:

* **Oversell** (`payments/fulfillment.py:133`). `/pay` tests the listing it
  loaded before the lock. A webhook sells the listing to another buyer meanwhile;
  `/pay` sells it again. "Fulfillment performs the final locked inventory check"
  (`orders.py:536`) is not so.
* **Self-conflict** (`payments/fulfillment.py:135`). Two confirmations of one
  payment both read the order unpaid. The first sells it the listing; the second
  finds the listing sold and refunds the order as "purchased by another buyer".
* **Reversal** (`routers/admin_routes.py:1808`). When taking a payout back fails
  at Stripe, the row's payout becomes "failed", the guard that looks for
  "released" lets the refund through, and the seller keeps the money.

Seen in the models, without a run of their own (they are behaviours of the
models; where one is the reason a property of section 4 is checked under a
restriction, it says so):

* scheduler: cycles overlap when one outlives its lease (`background_jobs.py:130`);
* checkout: `checkout.session.completed` fulfils the order without a look at
  `payment_status` (`payments/webhooks.py:123-137`), and so does the return page for a
  session that is "complete" (`payments/router.py:416`); when the money fails later,
  the event (`:142`) finds the order paid. "Transition pendingPay order to
  pendingShip after successful payment" (`payments/fulfillment.py:126`) is then not so. The return page takes any session's
  id: nothing ties it to the order (`router.py:412`);
* an order can be placed on an active listing that no one has reviewed
  (`orders.py:301`);
* a cancellation that read the order before it was paid overwrites the paid
  status (`orders.py:853`), so `DecidedStays` needs one session; the expiry of an
  order does not ask the provider and cancels captured ones
  (`catalog_helpers.py:598`);
* a seller's price adjustment is possible after the capture and before the
  fulfilment (`orders.py:488`); a refund then asks for the new amount;
* adjusting a bundle order makes its amount differ from the bundle's, and the
  next checkout cancels it as sold (`payments/router.py:137,144`);
* PayPal: a crash between capture and commit leaves the order waiting, since the
  capture's event is looked up by an id no order has (`webhooks.py:178-184`);
* removing a sold and delivered listing makes it inactive, from where it can be
  activated and sold again (`listings.py:895` against `:698` and `:848`);
* two confirmations together, or one whose answer was lost, make two Stripe
  transfers: the calls carry no idempotency key (`stripe_service.py:258-277`),
  so `PaidOnce` needs one session and no lost answers;
* an administrator's decision "complete" that meets a batch still processing is
  answered 409 while the batch goes on; a refund decided next pays both parties;
* a payment held by PayPal is recorded as released whatever PayPal answers to the
  release (`payout_release.py:314-333`), and a finished WeChat batch although its
  transfer failed;
* a resolver's stale commit can put "refund in progress" over the webhook's
  "refunded"; a late refund event moves a refunded order back;
* two reviews submitted together each count one and nobody completes the order;
* accounts: two unbindings at once leave an account without a way to sign in, and an
  unbinding or binding that overlaps another puts the two records apart
  (`routers/auth.py:2277`); lifting a ban makes a retired account usable again
  (`admin_routes.py:644`); a retired account keeps its address, by which Google finds
  it; a phone number cannot move to the account with the smaller key, since one flush
  writes both rows (`routers/auth.py:2094-2113`);
* accounts: two first sign-ins with one WeChat or Google subject make two accounts
  (`routers/auth.py:599-647,885-903`): the columns have an index but no unique
  constraint (`models.py:55-58`), and only an equal `heishi_id` may stop the second;
* accounts: the owner's merge tests "whether retiring this account would strand
  user-visible state" (`account_merge.py:251`), but not for coupons, assets and uploads,
  which the administrator's merge moves; the welcome coupon that every account gets
  stays on the retired one;
* sessions: a refresh or sign-in that has read its session before it is revoked
  makes it current again (`routers/auth.py:1166`), and two sign-ins on one device make
  sessions or tokens that the list does not show;
* codes: guesses that overlap are counted once (`phone_verification.py:71`);
* outbox: a cycle that dies between a call and the commit repeats all its calls
  (`notification_jobs.py:796-803`); listing the preferences writes default rows for a
  role, which from then on hide a choice made for both
  (`platform_features.py:1792-1823`);
* exposure rules: the key of the first notice is made from an id the row does not have
  yet, so that later notices are taken for repetitions (`platform_features.py:2313`);
* media: a chunk sent after the upload was complete sets a READY or REJECTED asset
  back (`platform_features.py:617-639`); asking for an expired session marks an asset
  that is being processed as failed (`:576`); a worker that outlives its lease commits
  over its successor; a duplicate's bytes are deleted before the commit that says so;
* messages: the notice of a new price gets its time before it waits for the locks
  (`listings.py:781`), so it may count as read unseen; the clean-up at start-up may
  delete a conversation that has just got its first message
  (`conversation_inbox.py:63-91`); two first requests open two conversations;
* listings: an approval approves the text of the moment it commits at
  (`admin_routes.py:1100`); a report handled with "restore_content" approves and
  activates without the test of the media (`:1604`), and that test passes for an asset
  that is attached to another listing (`:1073`); a draft made from a purchase shows
  the first seller's images, which nothing of the second's checks; deleting a listing with attached media violates a foreign
  key (`listings.py:844-870`);
* payouts: two first links at Stripe make two accounts, of which the seller may
  complete the one that is not kept (`users.py:1031-1043`); a return of an older
  PayPal link that overlaps a new link switches payouts on; removing the default row
  and dying before the second commit leaves none (`users.py:984-994`); saved cards
  that are added and synchronised at once appear twice (`users.py:654-728,816-818`);
* sharing: a session can be associated with an account that withdrew its consent in
  between, or with two accounts in turn (`platform_features.py:1648-1666`); consuming
  an action associates a session that has expired (`:1749-1759`); the payment of one
  order is attributed once for each spelling of its number (`:1518-1546`);
* coupons: two orders placed together both get the coupon (`orders.py:113`), and both
  keep the price; one that expires after it was applied is not marked used
  (`fulfillment.py:31`); listing and redeeming refresh what has expired and do not
  commit it (`user_data.py:280,292`);
* verification: decisions that overlap or come out of order leave the user's flags and
  the submissions apart (`admin_routes.py:1366-1402`);
* a failed refund blocks the decision "complete" for ever; a payout paused by hand
  is resumed by a dispute decision only.

## 8. Plan

Done: all components of section 1 that are modelled, checked by TLC; theorems for
every safety property that a passing run checks. Next, in this order:

1. *Weaker conditions.* The serial theorems of `Checkout` and `Settlement` ask for one
   request at a time. Several of them should hold for some overlaps: `DecidedStays`
   when the requests that overlap are confirmations of different orders, `PaidOnce` on
   the batch rail for any number of requests, since the id comes from the order.
2. *Refinement.* An abstract specification of a purchase (offered, sold once, undone
   only by a refund) that `Checkout` implements step by step under the conditions of
   `WebhooksSellOnce`; one of a payout (owed, sent, kept or taken back) for
   `Settlement`.
3. *Compositions*: `Outbox` with `SchedulerLease`, so that `overlapped` follows from
   an overrun; `Coupons` with `Checkout`'s stale reads; `Media` with `Listings`.
4. *Bundle completion*, now the action `Complete` of Checkout; saved cards against
   what Stripe keeps.

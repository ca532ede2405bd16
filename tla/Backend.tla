------------------------------- MODULE Backend -------------------------------
(***************************************************************************)
(* The components that share no state with checkout, settlement and the    *)
(* scheduler, side by side: in each behaviour one component runs, named by *)
(* `component`, and the variables that it does not have are Unused.        *)
(* Components have some names in common (row, req, asset, accepted); such  *)
(* a variable is the running component's.                                  *)
(***************************************************************************)
EXTENDS Naturals, FiniteSets

CONSTANTS
    Request, Worker, Nobody,                                  \* in several
    MaxAccount, Phone, MaxLeaving, MaxJoining, Deployments,   \* Identities
    Device, MaxToken, MaxOpened,                              \* Sessions
    Purpose, MaxCode, MaxAttempts, MaxFailures,               \* PhoneCodes
    Choices, MaxCycles,                                       \* Outbox
    Block, MaxRetries, MaxAuto, MaxTaken,                     \* Media
    Conv, MaxClock,                                           \* Messages
    Text, Blocked, Reviewer,                                  \* Listings
    Platforms, MaxRow, MaxConnect, MaxLink,                   \* Payouts
    User, Kind, MaxAccess, MaxEvents,                         \* Sharing
    Order                                                     \* Coupons

\* What the proofs use of the constants: bounds are numbers, the names of what
\* is absent name nothing else, and a token can be handed out.
ASSUME IdentityAssumption ==
    /\ MaxAccount \in Nat /\ Nobody \notin 1..MaxAccount /\ Nobody \notin Phone
    /\ Phone \cap {"wechat", "google", "alipay"} = {} /\ MaxJoining \in Nat
ASSUME SessionAssumption ==
    MaxToken \in Nat \ {0} /\ MaxOpened \in Nat /\ "none" \notin Device
ASSUME CodesAssumption == MaxCode \in Nat /\ MaxAttempts \in Nat /\ MaxFailures \in Nat
ASSUME ChatAssumption == MaxClock \in Nat /\ IsFiniteSet(Conv)
ASSUME ShareAssumption == Nobody \notin User /\ MaxAccess \in Nat
ASSUME PayoutAssumption == MaxRow \in Nat /\ MaxConnect \in Nat /\ MaxLink \in Nat
ASSUME MediaAssumption == Block \in Nat \ {0} /\ MaxRetries \in Nat

VARIABLES
    component,
    row, req, asset, accepted,                                \* in several
    offered, user, history, belongings, retired,              \* Identities
    joining, twice, pending, leaving, raced,
    status, token, session, alone, spawn, opened,             \* Sessions
    registered, otp, failures, request, guesses,              \* PhoneCodes
    event, subject, prefs, wants, device, written, inbox,     \* Outbox
    dispatch, cycle, started, overlapped, cutShort,
    upload, part, store, getter, worker, local, twin,         \* Media
    taken, overran, torn,
    messages, clock, shown,                                   \* Messages
    orders, approved, crossed,                                \* Listings
    method, configured, connect, account, country, link,      \* Payouts
    granted, overtaken,
    world, share, anon, action, events, stale,                \* Sharing
    coupon, late, order, doing, spent, mixed                  \* Coupons

Unused == 0

-----------------------------------------------------------------------------
Id == INSTANCE Identities
Se == INSTANCE Sessions
Pc == INSTANCE PhoneCodes
Ob == INSTANCE Outbox
Me == INSTANCE Media
Ms == INSTANCE Messages
Li == INSTANCE Listings WITH Request <- Reviewer
Po == INSTANCE Payouts WITH MaxAccount <- MaxConnect
Sh == INSTANCE Sharing
Co == INSTANCE Coupons

-----------------------------------------------------------------------------
\* What a component has for itself.

idVars == <<offered, user, history, belongings, retired, joining, twice,
            pending, leaving, raced>>
seVars == <<status, token, session, alone, spawn, opened>>
pcVars == <<registered, otp, failures, request, guesses>>
obVars == <<event, subject, prefs, wants, device, written, inbox,
            dispatch, cycle, started, overlapped, cutShort>>
meVars == <<upload, part, store, getter, worker, local, twin, taken, overran, torn>>
msVars == <<messages, clock, shown>>
liVars == <<orders, approved, crossed>>
poVars == <<method, configured, connect, account, country, link, granted, overtaken>>
shVars == <<world, share, anon, action, events, stale>>
coVars == <<coupon, late, order, doing, spent, mixed>>

vars == <<component, row, req, asset, accepted, idVars, seVars, pcVars, obVars,
          meVars, msVars, liVars, poVars, shVars, coVars>>

NoRow == row = Unused
NoReq == req = Unused
NoAsset == asset = Unused
NoAccepted == accepted = Unused

NoId == /\ offered = Unused /\ user = Unused /\ history = Unused
        /\ belongings = Unused /\ retired = Unused /\ joining = Unused
        /\ twice = Unused /\ pending = Unused /\ leaving = Unused /\ raced = Unused
NoSe == /\ status = Unused /\ token = Unused /\ session = Unused
        /\ alone = Unused /\ spawn = Unused /\ opened = Unused
NoPc == /\ registered = Unused /\ otp = Unused /\ failures = Unused
        /\ request = Unused /\ guesses = Unused
NoOb == /\ event = Unused /\ subject = Unused /\ prefs = Unused /\ wants = Unused
        /\ device = Unused /\ written = Unused /\ inbox = Unused /\ dispatch = Unused
        /\ cycle = Unused /\ started = Unused /\ overlapped = Unused /\ cutShort = Unused
NoMe == /\ upload = Unused /\ part = Unused /\ store = Unused /\ getter = Unused
        /\ worker = Unused /\ local = Unused /\ twin = Unused /\ taken = Unused
        /\ overran = Unused /\ torn = Unused
NoMs == messages = Unused /\ clock = Unused /\ shown = Unused
NoLi == orders = Unused /\ approved = Unused /\ crossed = Unused
NoPo == /\ method = Unused /\ configured = Unused /\ connect = Unused /\ account = Unused
        /\ country = Unused /\ link = Unused /\ granted = Unused /\ overtaken = Unused
NoSh == /\ world = Unused /\ share = Unused /\ anon = Unused
        /\ action = Unused /\ events = Unused /\ stale = Unused
NoCo == /\ coupon = Unused /\ late = Unused /\ order = Unused
        /\ doing = Unused /\ spent = Unused /\ mixed = Unused

-----------------------------------------------------------------------------
Init ==
    \/ /\ component = "identities" /\ Id!Init
       /\ NoReq /\ NoAsset /\ NoAccepted
       /\ NoSe /\ NoPc /\ NoOb /\ NoMe /\ NoMs /\ NoLi /\ NoPo /\ NoSh /\ NoCo
    \/ /\ component = "sessions" /\ Se!Init
       /\ NoRow /\ NoAsset /\ NoAccepted
       /\ NoId /\ NoPc /\ NoOb /\ NoMe /\ NoMs /\ NoLi /\ NoPo /\ NoSh /\ NoCo
    \/ /\ component = "phone codes" /\ Pc!Init
       /\ NoRow /\ NoReq /\ NoAsset
       /\ NoId /\ NoSe /\ NoOb /\ NoMe /\ NoMs /\ NoLi /\ NoPo /\ NoSh /\ NoCo
    \/ /\ component = "outbox" /\ Ob!Init
       /\ NoRow /\ NoReq /\ NoAsset
       /\ NoId /\ NoSe /\ NoPc /\ NoMe /\ NoMs /\ NoLi /\ NoPo /\ NoSh /\ NoCo
    \/ /\ component = "media" /\ Me!Init
       /\ NoRow /\ NoAccepted
       /\ NoId /\ NoSe /\ NoPc /\ NoOb /\ NoMs /\ NoLi /\ NoPo /\ NoSh /\ NoCo
    \/ /\ component = "messages" /\ Ms!Init
       /\ NoAsset /\ NoAccepted
       /\ NoId /\ NoSe /\ NoPc /\ NoOb /\ NoMe /\ NoLi /\ NoPo /\ NoSh /\ NoCo
    \/ /\ component = "listings" /\ Li!Init
       /\ NoAccepted
       /\ NoId /\ NoSe /\ NoPc /\ NoOb /\ NoMe /\ NoMs /\ NoPo /\ NoSh /\ NoCo
    \/ /\ component = "payouts" /\ Po!Init
       /\ NoRow /\ NoAsset /\ NoAccepted
       /\ NoId /\ NoSe /\ NoPc /\ NoOb /\ NoMe /\ NoMs /\ NoLi /\ NoSh /\ NoCo
    \/ /\ component = "sharing" /\ Sh!Init
       /\ NoRow /\ NoAsset /\ NoAccepted
       /\ NoId /\ NoSe /\ NoPc /\ NoOb /\ NoMe /\ NoMs /\ NoLi /\ NoPo /\ NoCo
    \/ /\ component = "coupons" /\ Co!Init
       /\ NoRow /\ NoReq /\ NoAsset /\ NoAccepted
       /\ NoId /\ NoSe /\ NoPc /\ NoOb /\ NoMe /\ NoMs /\ NoLi /\ NoPo /\ NoSh

\* A step of each component; the rest does not move.
IdentitiesStep ==
    /\ component = "identities" /\ Id!Next
    /\ UNCHANGED <<component, req, asset, accepted, seVars, pcVars, obVars, meVars, msVars, liVars, poVars, shVars, coVars>>

SessionsStep ==
    /\ component = "sessions" /\ Se!Next
    /\ UNCHANGED <<component, row, asset, accepted, idVars, pcVars, obVars, meVars, msVars, liVars, poVars, shVars, coVars>>

PhoneCodesStep ==
    /\ component = "phone codes" /\ Pc!Next
    /\ UNCHANGED <<component, row, req, asset, idVars, seVars, obVars, meVars, msVars, liVars, poVars, shVars, coVars>>

OutboxStep ==
    /\ component = "outbox" /\ Ob!Next
    /\ UNCHANGED <<component, row, req, asset, idVars, seVars, pcVars, meVars, msVars, liVars, poVars, shVars, coVars>>

MediaStep ==
    /\ component = "media" /\ Me!Next
    /\ UNCHANGED <<component, row, accepted, idVars, seVars, pcVars, obVars, msVars, liVars, poVars, shVars, coVars>>

MessagesStep ==
    /\ component = "messages" /\ Ms!Next
    /\ UNCHANGED <<component, asset, accepted, idVars, seVars, pcVars, obVars, meVars, liVars, poVars, shVars, coVars>>

ListingsStep ==
    /\ component = "listings" /\ Li!Next
    /\ UNCHANGED <<component, accepted, idVars, seVars, pcVars, obVars, meVars, msVars, poVars, shVars, coVars>>

PayoutsStep ==
    /\ component = "payouts" /\ Po!Next
    /\ UNCHANGED <<component, row, asset, accepted, idVars, seVars, pcVars, obVars, meVars, msVars, liVars, shVars, coVars>>

SharingStep ==
    /\ component = "sharing" /\ Sh!Next
    /\ UNCHANGED <<component, row, asset, accepted, idVars, seVars, pcVars, obVars, meVars, msVars, liVars, poVars, coVars>>

CouponsStep ==
    /\ component = "coupons" /\ Co!Next
    /\ UNCHANGED <<component, row, req, asset, accepted, idVars, seVars, pcVars, obVars, meVars, msVars, liVars, poVars, shVars>>

Next ==
    \/ IdentitiesStep \/ SessionsStep \/ PhoneCodesStep \/ OutboxStep
    \/ MediaStep \/ MessagesStep \/ ListingsStep \/ PayoutsStep
    \/ SharingStep \/ CouponsStep

Spec == Init /\ [][Next]_vars

-----------------------------------------------------------------------------
\* The components' properties, of the component that runs.

\* The variables of the running component have their types; the bounds on
\* retries, attempts and failures are among them.
TypeOK ==
    /\ component = "identities" => Id!TypeOK
    /\ component = "sessions" => Se!TypeOK
    /\ component = "phone codes" => Pc!TypeOK
    /\ component = "outbox" => Ob!TypeOK
    /\ component = "media" => Me!TypeOK
    /\ component = "messages" => Ms!TypeOK
    /\ component = "listings" => Li!TypeOK
    /\ component = "payouts" => Po!TypeOK
    /\ component = "sharing" => Sh!TypeOK
    /\ component = "coupons" => Co!TypeOK

\* Signing in with a subject that auth_identities records leads to its owner,
\* unless the subject was registered twice.
SignInFindsOwner == component = "identities" => Id!SignInFindsOwner

\* A merge leaves nothing that it looks at on the account it retires.
MergedIsEmpty == component = "identities" => Id!MergedIsEmpty

\* unbind_auth_identity never leaves an account without a way to sign in.
KeepsAMethod == [][component = "identities" => Id!AMethodIsLeft]_<<row, user, raced>>

\* /refresh exchanges a token for at most one other.
RotateNeverClone == component = "sessions" => Se!RotateNeverClone

\* A usable refresh token belongs to a session that the user is shown.
LiveIsShown == component = "sessions" => Se!LiveIsShown

\* consume_otp_code lets a code in once, and counts the guesses.
CodeIsProof == component = "phone codes" => Pc!CodeIsProof

\* One event reaches a channel once.
ToldOnce == component = "outbox" => Ob!ToldOnce

\* notification_dispatches and the inbox say what the providers did.
RowsAreTrue == component = "outbox" => Ob!RowsAreTrue

\* A chunked upload puts the client's file together without holes.
SourceIsWhole == component = "media" => Me!SourceIsWhole

\* A READY asset is an approved one.
ReadyIsApproved == component = "media" => Me!ReadyIsApproved

\* A message is acknowledged as read only when the other party was shown it.
AckedWasShown == component = "messages" => Ms!AckedWasShown

\* What is on sale has passed review as it stands.
OnSaleWasReviewed == component = "listings" => Li!OnSaleWasReviewed

\* A payout goes to an account whose owner has finished onboarding.
PaidWhereOnboarded == component = "payouts" => Po!PaidWhereOnboarded

\* What a guest's session has collected goes to one account, with consent.
SessionOfOne == component = "sharing" => Sh!SessionOfOne

\* One coupon reduces the price of one order.
SpentOnce == component = "coupons" => Co!SpentOnce
=============================================================================

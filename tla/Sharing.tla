------------------------------- MODULE Sharing -------------------------------
(***************************************************************************)
(* Shared links and what guests leave behind before they sign in           *)
(* (app/routers/platform_features.py): a link to a listing, opened a       *)
(* bounded number of times, the events attributed to it, the anonymous     *)
(* session of a device, with the consent given to it, its association with *)
(* an account, and the action a guest is to resume after signing in.       *)
(*                                                                         *)
(* A request locks the link it works on, the action it consumes and the    *)
(* session whose consent it changes; but associating a session with an     *)
(* account, consuming an action and recording an event read the session    *)
(* without a lock, in a step of their own, and commit in another.          *)
(*                                                                         *)
(* There is one link, one session and one action.  A link or an action     *)
(* whose time is over can only be marked so, by whoever asks for it next;  *)
(* one step stands for both.                                               *)
(***************************************************************************)
EXTENDS Naturals, FiniteSets

CONSTANTS
    User, Nobody,
    Request,      \* the requests served at the same time
    Kind,         \* the kinds of event that clients report
    MaxAccess,    \* settings.share_max_access_count
    MaxEvents     \* bound on the events recorded

VARIABLES
    world,       \* what this component reads and does not write, below
    share,       \* share_records: the link and its counters
    anon,        \* anonymous_sessions
    action,      \* pending_actions
    events,      \* share_attribution_events
    req,         \* the requests in progress, with what they have read
    stale        \* one committed after the session it had read was changed

vars == <<world, share, anon, action, events, req, stale>>

-----------------------------------------------------------------------------
\* Rows.

\* Events that only a user can report, and those that a record must confirm.
Authenticated == {"favorite", "registration", "conversation", "order", "payment"}
Business == {"favorite", "conversation", "order", "payment"}

\* What does not change here, for it would only refuse requests that it now
\* lets through: whether the public sees the listing, which users have
\* registered since it was shared or have switched personalization off, and
\* what a user has done with the listing.
World == [listed : BOOLEAN, newer : SUBSET User, private : SUBSET User,
          facts : [User -> SUBSET Business]]

ShareRecord == [status : {"none", "active", "expired", "suspended"},
                accesses : 0..MaxAccess, conversions : Nat]

AnonymousSession == [exists : BOOLEAN, late : BOOLEAN,
                     consent : BOOLEAN,      \* "granted", not "denied" or "unknown"
                     linked : User \cup {Nobody}]

PendingAction == [status : {"none", "pending", "consumed", "expired"},
                  anon : BOOLEAN, user : User \cup {Nobody}]

Idle == [op |-> "idle"]
InProgress(op) == \E r \in Request : req[r].op = op

\* The session can be used, by this user (Nobody: a guest).
Usable == anon.exists /\ ~anon.late
Association == [consent |-> anon.consent, linked |-> anon.linked]
LinkedTo(u) == anon.linked \in {u, Nobody}

-----------------------------------------------------------------------------
\* The link.

CreateShareLink ==
    /\ world.listed
    /\ share.status = "none"
    /\ share' = [share EXCEPT !.status = "active"]
    /\ UNCHANGED <<world, anon, action, events, req, stale>>

\* A request holds the link's row from its first read to its commit.
Locked == InProgress("event")

\* Whoever finds the link's time to be over says so.
MarkExpired ==
    /\ share.status = "active" /\ ~Locked
    /\ share' = [share EXCEPT !.status = "expired"]
    /\ UNCHANGED <<world, anon, action, events, req, stale>>

ResolveShareLink ==
    /\ share.status = "active" /\ ~Locked
    /\ \/ /\ share.accesses >= MaxAccess
          /\ share' = [share EXCEPT !.status = "suspended"]
       \/ /\ share.accesses < MaxAccess
          /\ world.listed
          /\ share' = [share EXCEPT !.accesses = @ + 1]
    /\ UNCHANGED <<world, anon, action, events, req, stale>>

-----------------------------------------------------------------------------
\* Events.  u is Nobody for a guest, withAnon says that a session is named.

\* What the session that is named must be: not linked for a guest, linked to
\* the user for a user, and with consent.
SessionAllows(u, withAnon) ==
    withAnon => Usable /\ anon.linked = u /\ anon.consent

\* The event is confirmed by what is on record.
Confirmed(u, k) ==
    /\ k \in Business => k \in world.facts[u]
    /\ k = "registration" => u \in world.newer

EventBegin(r, u, k, withAnon) ==
    /\ req[r] = Idle
    /\ share.status = "active" /\ ~Locked /\ world.listed
    /\ u = Nobody => withAnon /\ k \notin Authenticated
    /\ k = "registration" => withAnon
    /\ SessionAllows(u, withAnon)
    /\ u \notin world.private
    /\ u # Nobody => Confirmed(u, k)
    /\ req' = [req EXCEPT ![r] = [op |-> "event", user |-> u, kind |-> k, anon |-> withAnon]]
    /\ UNCHANGED <<world, share, anon, action, events, stale>>

\* The same event is recorded once, by its kind, its business_id (there is one
\* of a kind) and who reports it, the user or, of guests, the session.
Recorded(q) == \E e \in events : e.kind = q.kind /\ e.user = q.user

EventCommit(r) ==
    LET q == req[r]
    IN  /\ q.op = "event"
        /\ req' = [req EXCEPT ![r] = Idle]
        /\ IF Recorded(q)
           THEN UNCHANGED <<share, events>>
           ELSE /\ Cardinality(events) < MaxEvents
                /\ events' = events \cup {[user |-> q.user, kind |-> q.kind, anon |-> q.anon]}
                /\ share' = IF q.kind = "payment"
                            THEN [share EXCEPT !.conversions = @ + 1] ELSE share
        /\ UNCHANGED <<world, anon, action, stale>>

-----------------------------------------------------------------------------
\* The session.

CreateAnonymousSession(consent) ==
    /\ ~anon.exists
    /\ anon' = [anon EXCEPT !.exists = TRUE, !.consent = consent]
    /\ UNCHANGED <<world, share, action, events, req, stale>>

\* (Mutation: consent can be changed at any time.)
Anytime == TRUE

MayChangeConsent == anon.linked = Nobody

UpdateConsent(consent) ==
    /\ Usable
    /\ MayChangeConsent
    /\ anon' = [anon EXCEPT !.consent = consent]
    /\ UNCHANGED <<world, share, action, events, req, stale>>

\* Without consent nothing is associated.
LinkBegin(r, u) ==
    /\ req[r] = Idle
    /\ Usable /\ LinkedTo(u) /\ anon.consent
    /\ req' = [req EXCEPT ![r] = [op |-> "link", user |-> u, read |-> Association]]
    /\ UNCHANGED <<world, share, anon, action, events, stale>>

\* The session read is associated with the user.
Associated(q) ==
    /\ anon' = IF q.read.consent /\ q.read.linked # q.user
               THEN [anon EXCEPT !.linked = q.user] ELSE anon
    /\ stale' = (stale \/ Association # q.read)

LinkCommit(r) ==
    /\ req[r].op = "link"
    /\ Associated(req[r])
    /\ req' = [req EXCEPT ![r] = Idle]
    /\ UNCHANGED <<world, share, action, events>>

-----------------------------------------------------------------------------
\* The action to resume.

CreatePendingAction(withAnon) ==
    /\ action.status = "none"
    /\ withAnon => Usable
    /\ action' = [action EXCEPT !.status = "pending", !.anon = withAnon]
    /\ UNCHANGED <<world, share, anon, events, req, stale>>

ConsumeExpired ==
    /\ action.status = "pending" /\ ~InProgress("consume")
    /\ action' = [action EXCEPT !.status = "expired"]
    /\ UNCHANGED <<world, share, anon, events, req, stale>>

ConsumeBegin(r, u) ==
    /\ req[r] = Idle
    /\ action.status = "pending" /\ ~InProgress("consume")
    /\ action.anon => LinkedTo(u)
    /\ req' = [req EXCEPT ![r] = [op |-> "consume", user |-> u, read |-> Association]]
    /\ UNCHANGED <<world, share, anon, action, events, stale>>

ConsumeCommit(r) ==
    /\ req[r].op = "consume"
    /\ IF action.anon THEN Associated(req[r]) ELSE UNCHANGED <<anon, stale>>
    /\ action' = [action EXCEPT !.status = "consumed", !.user = req[r].user]
    /\ req' = [req EXCEPT ![r] = Idle]
    /\ UNCHANGED <<world, share, events>>

-----------------------------------------------------------------------------
\* The session's 90 days are over.
SessionEnds ==
    /\ anon.exists
    /\ anon' = [anon EXCEPT !.late = TRUE]
    /\ UNCHANGED <<world, share, action, events, req, stale>>

-----------------------------------------------------------------------------
Init ==
    /\ world \in World
    /\ share = [status |-> "none", accesses |-> 0, conversions |-> 0]
    /\ anon = [exists |-> FALSE, late |-> FALSE, consent |-> FALSE, linked |-> Nobody]
    /\ action = [status |-> "none", anon |-> FALSE, user |-> Nobody]
    /\ events = {}
    /\ req = [r \in Request |-> Idle]
    /\ stale = FALSE

Next ==
    \/ CreateShareLink \/ MarkExpired \/ ResolveShareLink
    \/ \E consent \in BOOLEAN : CreateAnonymousSession(consent) \/ UpdateConsent(consent)
    \/ \E withAnon \in BOOLEAN : CreatePendingAction(withAnon)
    \/ ConsumeExpired
    \/ \E r \in Request :
          \/ EventCommit(r) \/ LinkCommit(r) \/ ConsumeCommit(r)
          \/ \E u \in User : LinkBegin(r, u) \/ ConsumeBegin(r, u)
          \/ \E u \in User \cup {Nobody}, k \in Kind, withAnon \in BOOLEAN :
                EventBegin(r, u, k, withAnon)
    \/ SessionEnds

Spec == Init /\ [][Next]_vars

-----------------------------------------------------------------------------
TypeOK ==
    /\ share \in ShareRecord
    /\ anon \in AnonymousSession
    /\ action \in PendingAction
    /\ world \in World
    /\ \A e \in events : e.user \in User \cup {Nobody} /\ e.kind \in Kind

\* What a guest's session has collected is associated with one account, and
\* only with consent, which then stays: every event of the session that names
\* a user names the one it is linked to.  Two requests that associate it, or
\* one and a change of consent, must not overlap for that.
SessionOfOne ==
    ~stale =>
        /\ anon.linked # Nobody => anon.consent
        /\ \A e \in events : e.anon /\ e.user # Nobody => anon.linked = e.user
=============================================================================

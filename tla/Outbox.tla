------------------------------- MODULE Outbox -------------------------------
(***************************************************************************)
(* One thing to tell one user (app/notification_jobs.py): the outbox rows  *)
(* that a business transaction or the notification cycle writes for it,    *)
(* and the cycle that sends them by push (app/push_notifications.py) and   *)
(* by SMS (app/sms_notifications.py).                                      *)
(*                                                                         *)
(* A cycle is one transaction: it writes rows for what is due, reads the   *)
(* pending rows, calls the providers for each of them, and commits what it *)
(* has learnt at the end.  Rows are neither locked nor claimed: when a     *)
(* cycle outlives its lease (SchedulerLease), two overlap.  It may die     *)
(* with its calls made and nothing committed; answers of the providers may *)
(* be lost.  An update at the commit writes the columns that got another   *)
(* value than the one that was read.                                       *)
(***************************************************************************)
EXTENDS Naturals, FiniteSets

CONSTANTS
    Choices,       \* what users choose among, as sets of "in_app", "push", "sms"
    Worker,        \* cycles that can run at the same time
    MaxCycles,     \* cycles that are started
    MaxAttempts    \* after so many refusals a row is given up: 3

VARIABLES
    event,      \* what there is to tell: one deduplication key
    subject,    \* the order, offer or listing it is about
    prefs,      \* notification_preferences: the choice, and the role it is for
    wants,      \* the user's switch for the reminders, or for recommendations
    device,     \* the user has a push token
    written,    \* the deduplication key is in notification_dispatches
    inbox,      \* system_notifications.push_status
    dispatch,   \* the rows in notification_dispatches, by channel
    cycle,      \* the cycles that run
    started,    \* how many cycles were started
    accepted,   \* calls that the provider accepted, by channel, counted to two
    overlapped, \* two cycles have run at the same time
    cutShort    \* a cycle has died, or the answer to a call was lost

user == <<prefs, wants, device>>
rows == <<written, inbox, dispatch>>
vars == <<event, subject, user, rows, cycle, started, accepted, overlapped, cutShort>>

-----------------------------------------------------------------------------
\* What there is to tell.

\* Requests tell these ...
Requested ==
    {"payment_failed", "new_order", "interest_milestone", "available_again", "payout"}

\* ... and the cycle these, when their time comes.
Reminder == {"unpaid", "deadline", "shipment", "receipt"}
Event == Requested \cup Reminder \cup {"interest", "offer_expired"}

\* Written with mandatory=True; categories that cannot be turned off.
Mandatory == {"payment_failed", "payout", "shipment", "receipt"}
MandatoryCategory == {"payment_failed", "unpaid", "deadline", "payout"}

\* An unpaid order past its time is cancelled by the cycle, before it reminds.
Unpaid == {"unpaid", "deadline"}

-----------------------------------------------------------------------------
\* Rows.

Channel == {"push", "sms"}

Dispatch == [status : {"none", "pending", "sent", "failed"}, attempts : Nat]

InboxStatus == {"none", "disabled", "pending", "sent", "failed"}

\* What a preference is until it is changed.
DefaultChoice == {"in_app", "push"}

\* A row for the role hides one for both from then on.
Preferred(context, p) ==
    IF prefs.context = "role" /\ context = "both" THEN prefs
    ELSE [context |-> context, choice |-> p]

\* The rows that the event gets under a preference.
InboxRow(p) ==
    IF ~(event \in Mandatory \/ "in_app" \in p) THEN "none"
    ELSE IF "push" \in p THEN "pending" ELSE "disabled"

Dispatches(p) ==
    [c \in Channel |-> [status |-> IF c \in p THEN "pending" ELSE "none", attempts |-> 0]]

Idle == [step |-> "idle", new |-> FALSE, prefs |-> {}, todo |-> FALSE, seen |-> "none",
         read |-> [c \in Channel |-> 0], result |-> [c \in Channel |-> "none"]]

\* Rows as the transaction of a cycle sees them: its own, or the committed.
DispatchIn(q) == IF q.new THEN Dispatches(q.prefs) ELSE dispatch
InboxIn(q) == IF q.new THEN InboxRow(q.prefs) ELSE inbox

\* A key that an open transaction has written makes other writers wait.
Unwritten == ~written /\ \A w \in Worker : ~cycle[w].new

-----------------------------------------------------------------------------
\* Requests.

\* A business transaction tells the user something.
Enqueue ==
    /\ event \in Requested
    /\ Unwritten
    /\ written' = TRUE
    /\ inbox' = InboxRow(prefs.choice)
    /\ dispatch' = Dispatches(prefs.choice)
    /\ UNCHANGED <<event, subject, user, cycle, started, accepted, overlapped, cutShort>>

\* (Bound, here and below: until the rows are written, when nothing reads the
\* preferences any more.)
SetPreference(context, p) ==
    /\ ~written
    /\ event \in MandatoryCategory => "in_app" \in p
    /\ prefs' = Preferred(context, p)
    /\ UNCHANGED <<event, subject, wants, device, rows, cycle, started, accepted,
                   overlapped, cutShort>>

\* Looking at the preferences writes the row for the role.
ListPreferences ==
    /\ ~written
    /\ prefs.context # "role"
    /\ prefs' = Preferred("role", DefaultChoice)
    /\ UNCHANGED <<event, subject, wants, device, rows, cycle, started, accepted,
                   overlapped, cutShort>>

SwitchReminders ==
    /\ event \in Reminder /\ ~written
    /\ wants' = ~wants
    /\ UNCHANGED <<event, subject, prefs, device, rows, cycle, started, accepted,
                   overlapped, cutShort>>

SwitchPersonalization ==
    /\ event = "interest" /\ ~written
    /\ wants' = ~wants
    /\ UNCHANGED <<event, subject, prefs, device, rows, cycle, started, accepted,
                   overlapped, cutShort>>

RegisterDevice ==
    /\ ~device
    /\ device' = TRUE
    /\ UNCHANGED <<event, subject, prefs, wants, rows, cycle, started, accepted,
                   overlapped, cutShort>>

\* The user removes the token, or another user registers it; a push of a chat
\* message removes a token that is no longer registered with the provider.
RemoveDevice ==
    /\ device
    /\ device' = FALSE
    /\ UNCHANGED <<event, subject, prefs, wants, rows, cycle, started, accepted,
                   overlapped, cutShort>>

-----------------------------------------------------------------------------
\* The cycle.

RemindersDue == event \in Reminder /\ subject = "due" /\ wants
OffersDue == event = "offer_expired" /\ subject = "due"
InterestsDue == event = "interest" /\ subject = "due" /\ wants

Due == RemindersDue \/ OffersDue \/ InterestsDue

\* Rows for what is due are flushed; the pending pushes are read.
Begin(w) ==
    LET q == [Idle EXCEPT !.step = "push", !.new = Due /\ ~written, !.prefs = prefs.choice]
    IN  /\ cycle[w].step = "idle"
        /\ w = CHOOSE v \in Worker : cycle[v].step = "idle"
        /\ started < MaxCycles
        /\ started' = started + 1
        /\ q.new => Unwritten
        /\ subject' = IF event \in Unpaid /\ subject = "late" THEN "over" ELSE subject
        /\ cycle' = [cycle EXCEPT ![w] =
               [q EXCEPT !.todo = DispatchIn(q)["push"].status = "pending",
                         !.read = [c \in Channel |-> DispatchIn(q)[c].attempts]]]
        /\ overlapped' = (overlapped \/ \E v \in Worker : cycle[v].step # "idle")
        /\ UNCHANGED <<event, user, rows, accepted, cutShort>>

\* The outcomes of a call: whether the provider took it, and what is heard.
Outcomes == {[took |-> FALSE, heard |-> "refused"],
             [took |-> TRUE, heard |-> "sent"],
             [took |-> TRUE, heard |-> "refused"]}

Twice(n) == IF n > 2 THEN 2 ELSE n

\* The call for the row that is due by the channel of the step.
Call(w, o) ==
    LET c == cycle[w].step
    IN  /\ accepted' = IF o.took THEN [accepted EXCEPT ![c] = Twice(@ + 1)] ELSE accepted
        /\ cutShort' = (cutShort \/ (o.took /\ o.heard = "refused"))
        /\ cycle' = [cycle EXCEPT ![w].todo = FALSE,
                                  ![w].seen = IF c = "push" THEN InboxIn(cycle[w]) ELSE @,
                                  ![w].result[c] = o.heard]
        /\ UNCHANGED <<event, subject, user, rows, started, overlapped>>

\* Without a device nothing is called.  The inbox row is read just before.
Push(w) ==
    /\ cycle[w].step = "push" /\ cycle[w].todo
    /\ \E o \in Outcomes : (o.took => device) /\ Call(w, o)

\* Without a phone number or a configured provider nothing is called.
Sms(w) ==
    /\ cycle[w].step = "sms" /\ cycle[w].todo
    /\ \E o \in Outcomes : Call(w, o)

\* The pushes are done; the pending SMS are read.
ReadSms(w) ==
    LET q == cycle[w]
    IN  /\ q.step = "push" /\ ~q.todo
        /\ cycle' = [cycle EXCEPT ![w].step = "sms",
                                  ![w].todo = DispatchIn(q)["sms"].status = "pending",
                                  ![w].read["sms"] = DispatchIn(q)["sms"].attempts]
        /\ UNCHANGED <<event, subject, user, rows, started, accepted, overlapped, cutShort>>

\* (Mutation: only rows with an inbox row are marked sent.)
StatusIfShown(q, c) ==
    IF q.result[c] = "sent" /\ InboxIn(q) # "none" THEN "sent"
    ELSE IF q.read[c] + 1 >= MaxAttempts THEN "failed" ELSE "pending"

\* (Mutation: given up means done.)
StatusAlways(q, c) ==
    IF q.result[c] = "sent" \/ q.read[c] + 1 >= MaxAttempts THEN "sent" ELSE "pending"

Status(q, c) ==
    IF q.result[c] = "sent" THEN "sent"
    ELSE IF q.read[c] + 1 >= MaxAttempts THEN "failed" ELSE "pending"

\* A row that was read as pending, when what the cycle learnt is written.
Written(q, c) ==
    LET row == DispatchIn(q)[c]
        status == Status(q, c)
    IN  IF q.result[c] = "none" THEN row
        ELSE [status |-> IF status = "pending" THEN row.status ELSE status,
              attempts |-> q.read[c] + 1]

InboxWritten(q) ==
    LET status == Status(q, "push")
    IN  IF q.result["push"] = "none" \/ q.seen \in {"none", status}
        THEN InboxIn(q) ELSE status

\* The one commit; an offer that is due has become EXPIRED.
Commit(w) ==
    LET q == cycle[w]
    IN  /\ q.step = "sms" /\ ~q.todo
        /\ written' = (written \/ q.new)
        /\ dispatch' = [c \in Channel |-> Written(q, c)]
        /\ inbox' = InboxWritten(q)
        /\ subject' = IF q.new /\ event = "offer_expired" THEN "over" ELSE subject
        /\ cycle' = [cycle EXCEPT ![w] = Idle]
        /\ UNCHANGED <<event, user, started, accepted, overlapped, cutShort>>

Die(w) ==
    /\ cycle[w].step # "idle"
    /\ cycle' = [cycle EXCEPT ![w] = Idle]
    /\ cutShort' = TRUE
    /\ UNCHANGED <<event, subject, user, rows, started, accepted, overlapped>>

-----------------------------------------------------------------------------
\* The order, the offer or the listing: its time comes, an unpaid order's time
\* is up, or somebody acts.

TimePasses ==
    /\ event \notin Requested
    /\ \/ subject = "quiet" /\ subject' = "due"
       \/ subject = "due" /\ event \in Unpaid /\ subject' = "late"
    /\ UNCHANGED <<event, user, rows, cycle, started, accepted, overlapped, cutShort>>

Settled ==
    /\ event \notin Requested
    /\ subject # "over"
    /\ subject' = "over"
    /\ UNCHANGED <<event, user, rows, cycle, started, accepted, overlapped, cutShort>>

Init ==
    /\ event \in Event
    /\ subject = "quiet"
    /\ prefs = [context |-> "none", choice |-> DefaultChoice]
    /\ wants = TRUE
    /\ device = TRUE
    /\ written = FALSE
    /\ inbox = "none"
    /\ dispatch = Dispatches({})
    /\ cycle = [w \in Worker |-> Idle]
    /\ started = 0
    /\ accepted = [c \in Channel |-> 0]
    /\ overlapped = FALSE
    /\ cutShort = FALSE

Next ==
    \/ Enqueue \/ ListPreferences \/ SwitchReminders \/ SwitchPersonalization
    \/ RegisterDevice \/ RemoveDevice \/ TimePasses \/ Settled
    \/ \E c \in {"role", "both"}, p \in Choices : SetPreference(c, p)
    \/ \E w \in Worker :
          Begin(w) \/ Push(w) \/ ReadSms(w) \/ Sms(w) \/ Commit(w) \/ Die(w)

Spec == Init /\ [][Next]_vars

-----------------------------------------------------------------------------
TypeOK ==
    /\ event \in Event
    /\ subject \in {"quiet", "due", "late", "over"}
    /\ prefs \in [context : {"none", "both", "role"}, choice : Choices \cup {DefaultChoice}]
    /\ inbox \in InboxStatus
    /\ dispatch \in [Channel -> Dispatch]
    /\ \A w \in Worker : cycle[w].step \in {"idle"} \cup Channel

\* The user is told once: a second call for the same row is accepted only if a
\* cycle died, an answer was lost or cycles overlapped
\* (_deliver_pending_pushes and _deliver_pending_sms send before they commit).
ToldOnce == ~cutShort /\ ~overlapped => \A c \in Channel : accepted[c] <= 1

\* What the rows say happened: "sent" only what a provider took, whatever is
\* lost or overlaps, and the inbox shows what the outbox knows.
RowsAreTrue ==
    /\ \A c \in Channel : dispatch[c].status = "sent" => accepted[c] > 0
    /\ ~overlapped /\ inbox \in {"pending", "sent", "failed"} =>
           inbox = dispatch["push"].status
=============================================================================

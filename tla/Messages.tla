------------------------------ MODULE Messages ------------------------------
(***************************************************************************)
(* The conversations of one buyer and one seller about one listing          *)
(* (app/routers/messages.py, app/messaging_read.py,                         *)
(* app/conversation_inbox.py): messages, the watermarks up to which each of *)
(* the two has read, the counters of unread messages, and what a starting   *)
(* process does to the rows (app/main.py).                                  *)
(*                                                                          *)
(* A request reads the row of the conversation without locking it.  One     *)
(* that sends flushes the row before its message, so it holds the row's     *)
(* lock from the moment the message gets its time to its commit; one that   *)
(* reads writes at its commit what it counted before.  A commit writes the  *)
(* columns that got another value than the one that was read.               *)
(***************************************************************************)
EXTENDS Naturals, FiniteSets

CONSTANTS
    Conv,          \* identities of conversations
    Request,       \* requests that can be in progress at the same time
    MaxClock       \* bound on the messages that get a time

VARIABLES
    row,        \* the rows of conversations
    messages,   \* the committed messages
    clock,      \* the time: it passes with each message that gets one
    req,        \* the requests in progress
    shown       \* what each has been shown: committed when a read looked

vars == <<row, messages, clock, req, shown>>

Party == {"buyer", "seller"}

Other(u) == IF u = "buyer" THEN "seller" ELSE "buyer"

\* Time 0 is NULL, in the columns as in the requests.  An identity whose row is
\* gone (removed) is never given to another.
Conversation ==
    [exists : BOOLEAN, gone : BOOLEAN, lastAt : Nat,
     unread : [Party -> Nat], readAt : [Party -> Nat]]

NoRow == [exists |-> FALSE, gone |-> FALSE, lastAt |-> 0, unread |-> [u \in Party |-> 0],
          readAt |-> [u \in Party |-> 0]]

NoRequest == [kind |-> "none", conv |-> {}, by |-> "buyer", now |-> 0, sent |-> 0,
              read |-> [c \in Conv |-> NoRow], set |-> [c \in Conv |-> NoRow]]

Saved(now, read, set) == IF set = read THEN now ELSE set

\* The row c after the commit of request r.
Written(r, c) ==
    LET now == row[c]
        read == req[r].read[c]
        set == req[r].set[c]
        column(a, b, d) == [u \in Party |-> Saved(a[u], b[u], d[u])]
    IN  [exists |-> now.exists, gone |-> now.gone,
         lastAt |-> Saved(now.lastAt, read.lastAt, set.lastAt),
         unread |-> column(now.unread, read.unread, set.unread),
         readAt |-> column(now.readAt, read.readAt, set.readAt)]

\* The columns of party u.
Columns(u, unread, readAt) == [NoRow EXCEPT !.unread[u] = unread, !.readAt[u] = readAt]

\* What a request needs of the rows C: the columns of party u.
Rows(C, u) ==
    [c \in Conv |-> IF c \in C THEN Columns(u, row[c].unread[u], row[c].readAt[u]) ELSE NoRow]

\* Locked from the flush to the commit.
Locked(c) == \E r \in Request : req[r].sent > 0 /\ c \in req[r].conv

Idle(r) == req[r].kind = "none" /\ r = CHOOSE x \in Request : req[x].kind = "none"

In(c, u) == {m \in messages : m.conv = c /\ m.by = Other(u)}

\* count_unread_incoming
CountUnread(c, u, readAt) == Cardinality({m \in In(c, u) : m.at > readAt})

Latest(S) == IF S = {} THEN 0 ELSE CHOOSE t \in S : \A x \in S : x <= t

-----------------------------------------------------------------------------
\* Sending: a chat message, the message of a private offer, the notice of a
\* price change to every conversation of the listing.

SendBegin(r, u, kind, C) ==
    /\ Idle(r)
    /\ clock < MaxClock
    /\ kind \in {"offer", "price"} => u = "seller"
    /\ C # {} /\ \A c \in C : row[c].exists
    /\ IF kind = "price" THEN \A c \in Conv : row[c].exists => c \in C
       ELSE Cardinality(C) = 1
    /\ clock' = IF kind = "price" THEN clock + 1 ELSE clock
    /\ req' = [req EXCEPT ![r] = [NoRequest EXCEPT !.kind = kind, !.conv = C, !.by = u,
                                                   !.now = clock',
                                                   !.read = Rows(C, Other(u))]]
    /\ UNCHANGED <<row, messages, shown>>

\* (Mutation: every message gets the time at which its request looked.)
TimeBefore(r) == req[r].now

\* A message gets its time when it is inserted; a price notice has one already.
SentAt(r) == IF req[r].kind = "price" THEN req[r].now ELSE clock + 1

\* What a sender changes of a row: the other's unread, and the time.
Updated(x, u, lastAt, unread) == [x EXCEPT !.lastAt = lastAt, !.unread[u] = unread]

\* The flush: the row is updated, the message inserted, the unread counted.  A
\* row that is gone ends the request.
SendFlush(r) ==
    LET q == req[r]
        u == Other(q.by)
        unread(c) == IF q.kind = "offer" THEN q.read[c].unread[u] + 1
                     ELSE CountUnread(c, u, q.read[c].readAt[u])
                          + (IF SentAt(r) > q.read[c].readAt[u] THEN 1 ELSE 0)
        set == [c \in Conv |-> IF c \in q.conv THEN Updated(q.read[c], u, q.now, unread(c))
                               ELSE q.read[c]]
    IN  /\ q.kind \in {"chat", "offer", "price"} /\ q.sent = 0
        /\ \A c \in q.conv : ~Locked(c)
        /\ clock < MaxClock \/ q.kind = "price"
        /\ IF \E c \in q.conv : ~row[c].exists
           THEN req' = [req EXCEPT ![r] = NoRequest] /\ UNCHANGED clock
           ELSE /\ req' = [req EXCEPT ![r] = [q EXCEPT !.sent = SentAt(r), !.set = set]]
                /\ clock' = IF q.kind = "price" THEN clock ELSE clock + 1
        /\ UNCHANGED <<row, messages, shown>>

SendCommit(r) ==
    LET q == req[r]
    IN  /\ q.sent > 0
        /\ row' = [c \in Conv |-> IF c \in q.conv THEN Written(r, c) ELSE row[c]]
        /\ messages' = messages \cup
               {[conv |-> c, by |-> q.by, at |-> q.sent, kind |-> q.kind] : c \in q.conv}
        /\ req' = [req EXCEPT ![r] = NoRequest]
        /\ UNCHANGED <<clock, shown>>

-----------------------------------------------------------------------------
\* Reading: up to a message the client names, or to the latest there is.

ReadUpTo(c, u, upto) ==
    LET named == {m \in messages : m.conv = c /\ m.at = upto}
        until == IF \E m \in named : m.by = u
                 THEN Latest({x.at : x \in {y \in In(c, u) : y.at <= upto}})
                 ELSE IF named # {} THEN upto ELSE 0
    IN  IF until = 0 THEN Latest({m.at : m \in In(c, u)}) ELSE until

\* mark_conversation_read; upto = 0 names no message.
ReadBegin(r, u, c, upto) ==
    LET until == ReadUpTo(c, u, upto)
        readAt == IF until >= row[c].readAt[u] THEN until ELSE row[c].readAt[u]
    IN  /\ Idle(r)
        /\ row[c].exists
        /\ req' = [req EXCEPT ![r] = [NoRequest EXCEPT
               !.kind = "read", !.conv = {c}, !.by = u, !.read = Rows({c}, u),
               !.set = [Rows({c}, u) EXCEPT ![c] = Columns(u, CountUnread(c, u, readAt), readAt)]]]
        /\ shown' = [shown EXCEPT ![u] = @ \cup In(c, u)]
        /\ shown' # shown \/ req'[r].set # req'[r].read   \* else nothing happens
        /\ UNCHANGED <<row, messages, clock>>

ReadCommit(r) ==
    LET q == req[r]
    IN  /\ q.kind = "read"
        /\ \A c \in q.conv : ~Locked(c)
        /\ row' = [c \in Conv |-> IF c \in q.conv /\ row[c].exists THEN Written(r, c) ELSE row[c]]
        /\ req' = [req EXCEPT ![r] = NoRequest]
        /\ UNCHANGED <<messages, clock, shown>>

-----------------------------------------------------------------------------
\* Opening: looked up and, where there is none, inserted.

OpenBegin(r) ==
    /\ Idle(r)
    /\ \A c \in Conv : ~row[c].exists
    /\ req' = [req EXCEPT ![r] = [NoRequest EXCEPT !.kind = "open"]]
    /\ UNCHANGED <<row, messages, clock, shown>>

OpenCommit(r) ==
    /\ req[r].kind = "open"
    /\ \E x \in Conv : ~row[x].exists /\ ~row[x].gone
    /\ LET c == CHOOSE x \in Conv : ~row[x].exists /\ ~row[x].gone
       IN  row' = [row EXCEPT ![c].exists = TRUE]
    /\ req' = [req EXCEPT ![r] = NoRequest]
    /\ UNCHANGED <<messages, clock, shown>>

-----------------------------------------------------------------------------
\* A process starts while others serve.

\* backfill_read_watermarks: who has nothing unread has read everything.
BackfillBegin(r) ==
    LET read(c) == [NoRow EXCEPT !.readAt = row[c].readAt]
        filled(c) == [NoRow EXCEPT !.readAt = [u \in Party |->
            IF row[c].unread[u] = 0 /\ row[c].readAt[u] = 0 THEN row[c].lastAt
            ELSE row[c].readAt[u]]]
        C == {c \in Conv : filled(c) # read(c)}
    IN  /\ Idle(r)
        /\ C # {}
        /\ req' = [req EXCEPT ![r] = [NoRequest EXCEPT
               !.kind = "read", !.conv = C,
               !.read = [c \in Conv |-> IF c \in C THEN read(c) ELSE NoRow],
               !.set = [c \in Conv |-> IF c \in C THEN filled(c) ELSE NoRow]]]
        /\ UNCHANGED <<row, messages, clock, shown>>

\* cleanup_duplicate_empty_conversations: of several, those without a text,
\* but one if none has any.
Redundant ==
    LET all == {c \in Conv : row[c].exists}
        empty == {c \in all : row[c].lastAt = 0}
    IN  IF Cardinality(all) < 2 THEN {}
        ELSE IF empty = all THEN all \ {CHOOSE c \in all : TRUE}
        ELSE empty

CleanupBegin(r) ==
    /\ Idle(r)
    /\ Redundant # {}
    /\ req' = [req EXCEPT ![r] = [NoRequest EXCEPT !.kind = "cleanup", !.conv = Redundant]]
    /\ UNCHANGED <<row, messages, clock, shown>>

CleanupCommit(r) ==
    LET C == req[r].conv
    IN  /\ req[r].kind = "cleanup"
        /\ \A c \in C : ~Locked(c)
        /\ row' = [c \in Conv |-> IF c \in C THEN [NoRow EXCEPT !.gone = TRUE] ELSE row[c]]
        /\ messages' = {m \in messages : m.conv \notin C}
        /\ req' = [req EXCEPT ![r] = NoRequest]
        /\ shown' = [u \in Party |-> {m \in shown[u] : m.conv \notin C}]
        /\ UNCHANGED clock

RequestDies(r) ==
    /\ req[r].kind # "none"
    /\ req' = [req EXCEPT ![r] = NoRequest]
    /\ UNCHANGED <<row, messages, clock, shown>>

-----------------------------------------------------------------------------
\* There is a conversation already, or none; the bound on the messages to come
\* is MaxClock - clock.
Init ==
    /\ row \in {[c \in Conv |-> NoRow]}
               \cup {[c \in Conv |-> [NoRow EXCEPT !.exists = c = x]] : x \in Conv}
    /\ messages = {}
    /\ clock \in 1..MaxClock
    /\ req = [r \in Request |-> NoRequest]
    /\ shown = [u \in Party |-> {}]

Next ==
    \E r \in Request :
          \/ \E u \in Party, C \in SUBSET Conv, k \in {"chat", "offer", "price"} :
                SendBegin(r, u, k, C)
          \/ SendFlush(r) \/ SendCommit(r)
          \/ \E u \in Party, c \in Conv, t \in {0} \cup {m.at : m \in messages} :
                ReadBegin(r, u, c, t)
          \/ ReadCommit(r) \/ OpenBegin(r) \/ OpenCommit(r)
          \/ BackfillBegin(r) \/ CleanupBegin(r) \/ CleanupCommit(r) \/ RequestDies(r)

Spec == Init /\ [][Next]_vars

-----------------------------------------------------------------------------
TypeOK ==
    /\ row \in [Conv -> Conversation]
    /\ clock \in 1..MaxClock

\* The sender is told that a message was read (message_ack_read) only when it
\* was there for a read of the other to find.
AckedWasShown ==
    \A m \in messages :
        m.kind # "price" /\ m.at <= row[m.conv].readAt[Other(m.by)] => m \in shown[Other(m.by)]
=============================================================================

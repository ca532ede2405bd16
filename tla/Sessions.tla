------------------------------ MODULE Sessions ------------------------------
(***************************************************************************)
(* Refresh tokens and device sessions of one account (app/auth.py and      *)
(* app/routers/auth.py): signing in on a device, exchanging a refresh      *)
(* token, logging out, changing the password, being merged away, revoking  *)
(* one device, administrators' tokens and bans (app/routers/               *)
(* admin_routes.py).                                                       *)
(*                                                                         *)
(* Requests run concurrently and read rows before they write them.  Tokens *)
(* are issued in two commits: the new refresh token, then the session that *)
(* carries it.  The first commit makes SQLAlchemy forget the session's row *)
(* and read it again, and whatever that finds, "revoked_at = None".        *)
(* The row lock of /refresh is held until the token is marked revoked, so  *)
(* that presenting a token is one step.  A request may die at any commit.  *)
(***************************************************************************)
EXTENDS Naturals, FiniteSets

CONSTANTS
    Request,       \* requests open at the same time
    Device,        \* devices that say who they are
    MaxToken,      \* refresh tokens, and sessions, that come to exist
    MaxOpened      \* requests opened in all

VARIABLES
    status,     \* account_status
    token,      \* refresh_tokens, in the order of their creation
    session,    \* device_sessions, in the order of their creation
    req,        \* open requests
    alone,      \* tokens handed out by a request that no other overlapped
    spawn,      \* which tokens were handed out for a refresh token
    opened      \* how many requests were opened

vars == <<status, token, session, req, alone, spawn, opened>>

Token == 1..MaxToken
NoToken == 0                    \* no token, no session
Legacy == "legacy"              \* the device of a session without a device id

TokenState == {"none", "live", "expired", "revoked"}
SessionRow == [token : 0..MaxToken, device : Device \cup {Legacy, "none"},
               revoked : BOOLEAN]
NoRow == [token |-> NoToken, device |-> "none", revoked |-> TRUE]

Idle == [op |-> "idle", device |-> Legacy, session |-> NoToken, old |-> NoToken,
         read |-> NoRow, tokens |-> {}, sessions |-> {}, used |-> NoToken,
         overlap |-> FALSE]

Exists(s) == session[s].device # "none"
Unrevoked == {s \in Token : Exists(s) /\ ~session[s].revoked}
Live == {t \in Token : token[t] \in {"live", "expired"}}

Newest(set) == CHOOSE s \in set : \A other \in set : other <= s
FreshToken == CHOOSE t \in Token : token[t] = "none" /\ \A o \in 1..(t - 1) : token[o] # "none"
FreshSession == CHOOSE s \in Token : ~Exists(s) /\ \A o \in 1..(s - 1) : Exists(o)

Busy(r) == \E other \in Request \ {r} : req[other].op # "idle"

\* A request that opens overlaps those that are open.
Open(r, record) ==
    /\ opened < MaxOpened
    /\ r = CHOOSE q \in Request : req[q].op = "idle"
    /\ opened' = opened + 1
    /\ req' = [q \in Request |->
                  IF q = r THEN [record EXCEPT !.overlap = Busy(r)]
                  ELSE [req[q] EXCEPT !.overlap = @ \/ req[q].op # "idle"]]
Go(r, record) == req' = [req EXCEPT ![r] = record] /\ UNCHANGED opened
Close(r) == Go(r, Idle)

-----------------------------------------------------------------------------
\* Issuing tokens.

\* The session that the device already has, if any.
KnownSession(d) ==
    LET known == {s \in Unrevoked : session[s].device = d}
    IN  IF known = {} THEN NoToken ELSE Newest(known)

\* Signing in, by any provider, once the proof has been accepted.
SignIn(r, d) ==
    /\ req[r].op = "idle"
    /\ status = "normal"
    /\ Open(r, [Idle EXCEPT !.op = "issue", !.device = d,
                            !.session = IF d = Legacy THEN NoToken ELSE KnownSession(d)])
    /\ UNCHANGED <<status, token, session, alone, spawn>>

\* (Mutation: a token that was used already may be used again.)
PresentedAgain(t) == token[t] \in {"live", "revoked"}

\* What /refresh accepts.
Presented(t) == token[t] = "live"

\* /refresh: the token is used up first, whatever follows.
Refresh(r, t) ==
    /\ req[r].op = "idle"
    /\ Presented(t)
    /\ token' = [token EXCEPT ![t] = "revoked"]
    /\ Open(r, [Idle EXCEPT !.op = "refresh", !.used = t])
    /\ UNCHANGED <<status, session, alone, spawn>>

\* An expired one is marked revoked and refused.
RefuseExpired(t) ==
    /\ token[t] = "expired"
    /\ token' = [token EXCEPT ![t] = "revoked"]
    /\ UNCHANGED <<status, session, req, alone, spawn, opened>>

\* The session it belongs to, if still active; the account's state.
FindSession(r) ==
    LET t == req[r].used
        found == {s \in Unrevoked : session[s].token = t}
    IN  /\ req[r].op = "refresh"
        /\ IF status = "normal"
           THEN Go(r, [req[r] EXCEPT !.op = "issue",
                          !.session = IF found = {} THEN NoToken ELSE Newest(found)])
           ELSE Close(r)
        /\ UNCHANGED <<status, token, session, alone, spawn>>

\* store_refresh_token commits.
StoreToken(r) ==
    /\ req[r].op = "issue"
    /\ \E t \in Token : token[t] = "none"
    /\ token' = [token EXCEPT ![FreshToken] = "live"]
    /\ spawn' = IF req[r].used = NoToken THEN spawn
                ELSE [spawn EXCEPT ![req[r].used] = @ \cup {FreshToken}]
    /\ Go(r, [req[r] EXCEPT !.op = "stored", !.old = FreshToken])
    /\ UNCHANGED <<status, session, alone>>

\* The session's row is read again.
Reload(r) ==
    /\ req[r].op = "stored"
    /\ Go(r, [req[r] EXCEPT !.op = "reloaded",
                 !.read = IF req[r].session = NoToken THEN NoRow
                          ELSE session[req[r].session]])
    /\ UNCHANGED <<status, token, session, alone, spawn>>

\* (Mutation: the session's previous token is left alone.)
KeepPrevious(s, t, read) ==
    /\ session' = [session EXCEPT ![s].token = t,
                                  ![s].revoked = IF read.revoked THEN FALSE ELSE @]
    /\ token' = token

\* An existing session gets the token, and its previous one is revoked; its
\* revocation is undone if the request has seen it.
Rotate(s, t, read) ==
    /\ session' = [session EXCEPT ![s].token = t,
                                  ![s].revoked = IF read.revoked THEN FALSE ELSE @]
    /\ token' = [token EXCEPT ![read.token] = "revoked"]

NewSession(d, t) ==
    /\ \E s \in Token : ~Exists(s)
    /\ session' = [session EXCEPT ![FreshSession] =
                      [token |-> t, device |-> d, revoked |-> FALSE]]
    /\ UNCHANGED token

\* The second commit: the client gets the token.
Issue(r) ==
    LET q == req[r]
    IN  /\ q.op = "reloaded"
        /\ \/ q.session # NoToken /\ Rotate(q.session, q.old, q.read)
           \/ q.session = NoToken /\ NewSession(q.device, q.old)
        /\ alone' = IF q.overlap THEN alone ELSE alone \cup {q.old}
        /\ Close(r)
        /\ UNCHANGED <<status, spawn>>

\* An administrator's sign-in always makes a session; it does not look at
\* the state of the account.
AdminSignIn(r) ==
    /\ req[r].op = "idle"
    /\ Open(r, [Idle EXCEPT !.op = "issue", !.device = Legacy])
    /\ UNCHANGED <<status, token, session, alone, spawn>>

-----------------------------------------------------------------------------
\* Revoking.

\* Logging out, changing the password or being merged: the tokens are read,
\* then the sessions, and both are written by one commit.
RevokeAll(r) ==
    /\ req[r].op = "idle"
    /\ status = "normal"
    /\ Unrevoked # {}
    /\ Open(r, [Idle EXCEPT !.op = "tokens", !.tokens = Live])
    /\ UNCHANGED <<status, token, session, alone, spawn>>

ReadSessions(r) ==
    /\ req[r].op = "tokens"
    /\ Go(r, [req[r] EXCEPT !.op = "revoke", !.sessions = Unrevoked])
    /\ UNCHANGED <<status, token, session, alone, spawn>>

\* One device: its session, and the token the session has when it is read.
RevokeDevice(r, s) ==
    /\ req[r].op = "idle"
    /\ status = "normal"
    /\ Exists(s)
    /\ Open(r, [Idle EXCEPT !.op = "revoke", !.tokens = {session[s].token},
                            !.sessions = {s}])
    /\ UNCHANGED <<status, token, session, alone, spawn>>

Revoke(r) ==
    LET q == req[r]
    IN  /\ q.op = "revoke"
        /\ token' = [t \in Token |-> IF t \in q.tokens THEN "revoked" ELSE token[t]]
        /\ session' = [s \in Token |->
               IF s \in q.sessions THEN [session[s] EXCEPT !.revoked = TRUE] ELSE session[s]]
        /\ Close(r)
        /\ UNCHANGED <<status, alone, spawn>>

-----------------------------------------------------------------------------
\* Outside the requests.

\* A ban turns requests away, and leaves tokens and sessions as they are.
Ban ==
    /\ status' = IF status = "normal" THEN "banned" ELSE "normal"
    /\ UNCHANGED <<token, session, req, alone, spawn, opened>>

Expire(t) ==
    /\ token[t] = "live"
    /\ token' = [token EXCEPT ![t] = "expired"]
    /\ UNCHANGED <<status, session, req, alone, spawn, opened>>

\* A commit fails, or the process dies; what was committed stays.
Die(r) ==
    /\ req[r].op # "idle"
    /\ Close(r)
    /\ UNCHANGED <<status, token, session, alone, spawn>>

\* The account has signed in once, on some device.
Init ==
    /\ status = "normal"
    /\ token = [t \in Token |-> IF t = 1 THEN "live" ELSE "none"]
    /\ \E d \in Device \cup {Legacy} :
           session = [s \in Token |->
               IF s = 1 THEN [token |-> 1, device |-> d, revoked |-> FALSE] ELSE NoRow]
    /\ req = [r \in Request |-> Idle]
    /\ alone = {1}
    /\ spawn = [t \in Token |-> {}]
    /\ opened = 0

Next ==
    \/ \E r \in Request :
          \/ \E d \in Device \cup {Legacy} : SignIn(r, d)
          \/ \E t \in Token : Refresh(r, t) \/ RevokeDevice(r, t)
          \/ FindSession(r) \/ StoreToken(r) \/ Reload(r) \/ Issue(r)
          \/ AdminSignIn(r) \/ RevokeAll(r) \/ ReadSessions(r) \/ Revoke(r) \/ Die(r)
    \/ \E t \in Token : RefuseExpired(t) \/ Expire(t)
    \/ Ban

Spec == Init /\ [][Next]_vars

-----------------------------------------------------------------------------
TypeOK ==
    /\ status \in {"normal", "banned"}
    /\ token \in [Token -> TokenState]
    /\ session \in [Token -> SessionRow]
    /\ alone \subseteq Token
    /\ spawn \in [Token -> SUBSET Token]
    /\ opened \in 0..MaxOpened

\* "Rotate, never clone": a refresh token is exchanged for at most one other,
\* whatever refreshes, sign-ins and revocations overlap, and whichever die.
RotateNeverClone == \A t \in Token : Cardinality(spawn[t]) <= 1

\* The user can see and end what is live: a token from a request that nothing
\* overlapped is usable only while an active session of the account carries it.
LiveIsShown ==
    \A t \in alone \cap Live : \E s \in Unrevoked : session[s].token = t
=============================================================================

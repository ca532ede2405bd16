----------------------------- MODULE PhoneCodes -----------------------------
(***************************************************************************)
(* The one-time codes of a phone number (app/phone_verification.py,        *)
(* app/twilio_otp.py) and the requests of app/routers/auth.py that send    *)
(* and check them: registering, signing in and binding the number; and the *)
(* limit on failed sign-ins.                                               *)
(*                                                                         *)
(* A number has one phone_otps row for each purpose.  A request reads it,  *)
(* and at its commit writes the columns that it gave another value than    *)
(* the one it had read; requests overlap between the two.  The database    *)
(* allows one row for a purpose, and one account for a number.  Clocks:    *)
(* a code expires, its cooldown ends, failures grow old, at any time.      *)
(***************************************************************************)
EXTENDS Naturals, FiniteSets

CONSTANTS
    Request,       \* requests open at the same time
    Purpose,       \* "register", "login", "bind_phone"
    MaxCode,       \* codes that are ever generated
    MaxAttempts,   \* MAX_VERIFY_ATTEMPTS
    MaxFailures    \* failed sign-ins after which the password is not looked at

VARIABLES
    registered,    \* the number belongs to an account
    otp,           \* phone_otps, by purpose
    failures,      \* recent failures in login_audit_logs
    request,       \* open requests
    accepted,      \* codes that a request was let in with
    guesses        \* wrong guesses at the code, of requests no other overlapped

vars == <<registered, otp, failures, request, accepted, guesses>>

-----------------------------------------------------------------------------
\* Rows and requests.

OtpRow == [code : 0..MaxCode, expired : BOOLEAN, consumed : BOOLEAN,
           attempts : Nat, cooling : BOOLEAN]
NoOtp == [code |-> 0, expired |-> FALSE, consumed |-> FALSE, attempts |-> 0,
          cooling |-> FALSE]

Idle == [op |-> "idle", purpose |-> "none", read |-> NoOtp, overlap |-> FALSE]

Generated == {otp[p].code : p \in Purpose} \cup accepted
FreshCode == CHOOSE c \in 1..MaxCode : \A d \in Generated : d < c

Unused(row) == row.code # 0 /\ ~row.consumed

Open(r, op, p) ==
    LET busy == \E q \in Request \ {r} : request[q].op # "idle"
    IN  /\ request[r].op = "idle"
        /\ r = CHOOSE q \in Request : request[q].op = "idle"
        /\ request' = [q \in Request |->
               IF q = r THEN [op |-> op, purpose |-> p, read |-> otp[p], overlap |-> busy]
               ELSE [request[q] EXCEPT !.overlap = @ \/ request[q].op # "idle"]]
Close(r) == request' = [request EXCEPT ![r] = Idle]

Failed == failures' = IF failures < MaxFailures THEN failures + 1 ELSE failures

-----------------------------------------------------------------------------
\* Sending a code.

\* Registering needs a number without an account, signing in one with one.
MayAsk(p) ==
    CASE p = "register" -> ~registered
      [] p = "login"    -> registered
      [] OTHER          -> TRUE

SendCode(r, p) ==
    /\ MayAsk(p)
    /\ ~(Unused(otp[p]) /\ otp[p].cooling)
    /\ Open(r, "send", p)
    /\ UNCHANGED <<registered, otp, failures, accepted, guesses>>

\* (Mutation: a code that is there is sent once more.)
SameCode(read, now) ==
    [code |-> IF read.code = 0 THEN FreshCode ELSE read.code,
     expired |-> FALSE, cooling |-> TRUE,
     consumed |-> IF read.consumed THEN FALSE ELSE now.consumed,
     attempts |-> IF read.attempts # 0 THEN 0 ELSE now.attempts]

\* The code and the times are new; "consumed" and "attempts" are written when
\* they were not as they should be when the row was read.
NewCode(read, now) ==
    [code |-> FreshCode, expired |-> FALSE, cooling |-> TRUE,
     consumed |-> IF read.consumed THEN FALSE ELSE now.consumed,
     attempts |-> IF read.attempts # 0 THEN 0 ELSE now.attempts]

\* The commit; a second first row of a purpose is refused.
IssueCode(r) ==
    LET p == request[r].purpose
        read == request[r].read
    IN  /\ request[r].op = "send"
        /\ \E c \in 1..MaxCode : \A d \in Generated : d < c
        /\ IF read.code = 0 /\ otp[p].code # 0
           THEN UNCHANGED <<otp, guesses>>
           ELSE /\ otp' = [otp EXCEPT ![p] = NewCode(read, otp[p])]
                /\ guesses' = [guesses EXCEPT ![p] = 0]
        /\ Close(r)
        /\ UNCHANGED <<registered, failures, accepted>>

-----------------------------------------------------------------------------
\* Checking a code.

\* (Mutation: one guess too many.)
TooManyButOne(row) == row.attempts > MaxAttempts

TooMany(row) == row.attempts >= MaxAttempts

\* No row, an expired code or too many guesses: refused as it stands.
Refused(row) == ~Unused(row) \/ row.expired \/ TooMany(row)

RefuseCode(p) ==
    /\ Refused(otp[p])
    /\ p = "login"
    /\ Failed
    /\ UNCHANGED <<registered, otp, request, accepted, guesses>>

\* The row is read; the code that is presented is right or wrong.
CheckCode(r, p) ==
    /\ p = "register" => ~registered
    /\ ~Refused(otp[p])
    /\ \E op \in {"wrong", "right"} : Open(r, op, p)
    /\ UNCHANGED <<registered, otp, failures, accepted, guesses>>

WrongCode(r) ==
    LET p == request[r].purpose
    IN  /\ request[r].op = "wrong"
        /\ otp' = [otp EXCEPT ![p].attempts = request[r].read.attempts + 1]
        /\ guesses' = IF request[r].overlap THEN guesses
                      ELSE [guesses EXCEPT ![p] = @ + 1]
        /\ IF p = "login" THEN Failed ELSE UNCHANGED failures
        /\ Close(r)
        /\ UNCHANGED <<registered, accepted>>

\* The code is used up before anything else is known to succeed.
RightCode(r) ==
    LET p == request[r].purpose
    IN  /\ request[r].op = "right"
        /\ otp' = [otp EXCEPT ![p].consumed = TRUE]
        /\ accepted' = accepted \cup {request[r].read.code}
        /\ IF p = "register" THEN request' = [request EXCEPT ![r].op = "create"]
                             ELSE Close(r)
        /\ UNCHANGED <<registered, failures, guesses>>

\* The account, in a second commit; the number is unique, the avatar may be
\* refused only now.
CreateAccount(r) ==
    /\ request[r].op = "create"
    /\ registered' \in {registered, TRUE}
    /\ Close(r)
    /\ UNCHANGED <<otp, failures, accepted, guesses>>

\* With Twilio the codes, their expiry and their limits are Twilio's: the
\* application learns whether a code was right.
TwilioCheck(p) ==
    \/ p = "register" /\ ~registered /\ registered' = TRUE
       /\ UNCHANGED <<otp, failures, request, accepted, guesses>>
    \/ p = "login" /\ Failed
       /\ UNCHANGED <<registered, otp, request, accepted, guesses>>

-----------------------------------------------------------------------------
\* Signing in with a password.

PasswordRefused ==
    /\ failures < MaxFailures
    /\ Failed
    /\ UNCHANGED <<registered, otp, request, accepted, guesses>>

-----------------------------------------------------------------------------
\* Time, and failing commits.

Expire(p) ==
    /\ otp[p].code # 0 /\ ~otp[p].expired
    /\ otp' = [otp EXCEPT ![p].expired = TRUE]
    /\ UNCHANGED <<registered, failures, request, accepted, guesses>>

Cool(p) ==
    /\ otp[p].cooling
    /\ otp' = [otp EXCEPT ![p].cooling = FALSE]
    /\ UNCHANGED <<registered, failures, request, accepted, guesses>>

FailuresGrowOld ==
    /\ failures > 0
    /\ failures' = 0
    /\ UNCHANGED <<registered, otp, request, accepted, guesses>>

Die(r) ==
    /\ request[r].op # "idle"
    /\ Close(r)
    /\ UNCHANGED <<registered, otp, failures, accepted, guesses>>

Init ==
    /\ registered \in BOOLEAN
    /\ otp = [p \in Purpose |-> NoOtp]
    /\ failures = 0
    /\ request = [r \in Request |-> Idle]
    /\ accepted = {}
    /\ guesses = [p \in Purpose |-> 0]

Next ==
    \/ \E r \in Request :
          \/ \E p \in Purpose : SendCode(r, p) \/ CheckCode(r, p)
          \/ IssueCode(r) \/ WrongCode(r) \/ RightCode(r) \/ CreateAccount(r) \/ Die(r)
    \/ \E p \in Purpose : RefuseCode(p) \/ TwilioCheck(p) \/ Expire(p) \/ Cool(p)
    \/ PasswordRefused \/ FailuresGrowOld

Spec == Init /\ [][Next]_vars

-----------------------------------------------------------------------------
TypeOK ==
    /\ registered \in BOOLEAN
    /\ otp \in [Purpose -> OtpRow]
    /\ failures \in 0..MaxFailures
    /\ \A r \in Request :
          /\ request[r].op \in {"idle", "send", "wrong", "right", "create"}
          /\ request[r].read \in OtpRow
    /\ accepted \subseteq 1..MaxCode
    /\ guesses \in [Purpose -> Nat]

\* A code that let someone in lets nobody in who asks later, whatever was sent,
\* guessed and accepted at the same time ...
WorksOnce == \A p \in Purpose : otp[p].code \in accepted => otp[p].consumed

\* ... and guesses that do not overlap are all counted: a code withstands
\* MaxAttempts of them.
GuessesCounted == \A p \in Purpose : guesses[p] <= MaxAttempts

\* Together: who presents an unused code has been sent it.
CodeIsProof == WorksOnce /\ GuessesCounted
=============================================================================

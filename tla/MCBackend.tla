------------------------------ MODULE MCBackend ------------------------------
(***************************************************************************)
(* Small instances of Backend's components.  Where two values of something *)
(* would only show the same twice, the initial states and the steps are    *)
(* restricted; each restriction is named here.                             *)
(***************************************************************************)
EXTENDS Backend

\* The world that a shared link is about: only one user has paid.
MCWorld ==
    [listed |-> TRUE, newer |-> {}, private |-> {},
     facts |-> [u \in User |-> IF u = CHOOSE v \in User : TRUE THEN {"payment"} ELSE {}]]

\* Few messages to come where a conversation is there already, or none is.
\* One listing's seller, one device, five things to tell.
MCInit ==
    /\ Init
    /\ component = "sessions" => session[1].device \in Device
    /\ component = "outbox" =>
           event \in {"payout", "new_order", "unpaid", "interest", "offer_expired"}
    /\ component = "media" => ~(twin /\ local)
    /\ component = "messages" =>
           \/ clock = 1 /\ row[CHOOSE c \in Conv : TRUE].exists
           \/ clock = 2 /\ \A c \in Conv : ~row[c].exists
    /\ component = "sharing" => world = MCWorld

\* One subject is registered at a time, one of the phone numbers, and what
\* happens meanwhile are other registrations of it and identities that are written.
Joined == {s \in Id!Subject : joining[s] > 0}
Joining ==
    component = "identities" =>
        \/ joining' = joining /\ (row' # row \/ Joined = {})
        \/ /\ joining' # joining
           /\ pending = {} \/ Joined # {}
           /\ leaving = {}
           /\ \E s \in {CHOOSE p \in Phone : TRUE, "wechat", "google", "alipay"} :
                  Joined' \subseteq {s}

\* One of the accounts is banned, and one row of other tables is about them.
OneEach ==
    component = "identities" =>
        /\ Cardinality(history) <= 1
        /\ \A a \in Id!Account : user[a].status = "banned" => a = MaxAccount

\* One purpose's codes at a time.
Asked(p) == otp[p].code # 0 \/ \E r \in Request : request[r].purpose = p
OnePurpose ==
    component = "phone codes" => \A p, q \in Purpose : Asked(p) /\ Asked(q) => p = q

\* An asset that two workers process, or one that its owner retries.
Once ==
    component = "media" => IF ~twin /\ ~local THEN asset.retries = 0 ELSE taken <= 1

\* A property with an exception says nothing of what comes after it: unbindings that
\* raced, or decisions that crossed a request, once that request is over.
Excepted ==
    \/ component = "identities" /\ raced
    \/ component = "listings" /\ crossed /\ ~Li!Across

MCNext == Next /\ ~Excepted /\ Joining /\ OneEach' /\ OnePurpose' /\ Once'

MCSpec == MCInit /\ [][MCNext]_vars
=============================================================================

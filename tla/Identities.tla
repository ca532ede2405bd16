----------------------------- MODULE Identities -----------------------------
(***************************************************************************)
(* The ways to sign in to an account (app/routers/auth.py): registration   *)
(* and sign-in by phone, WeChat, Alipay and Google, binding and unbinding, *)
(* the merge of a duplicate account by its owner or by an administrator    *)
(* (app/routers/admin_routes.py, app/account_merge.py).                    *)
(*                                                                         *)
(* A way to sign in is recorded twice: in columns of the user's row, where *)
(* signing in looks, and in a row of auth_identities, which binding,       *)
(* unbinding and merging work on; _sync_auth_identities derives the second *)
(* from the first.  A step is one transaction.  Signing in takes two: the  *)
(* columns first, the identities when tokens are issued; other requests    *)
(* may come in between.  Registering and unbinding, too, are a step that   *)
(* reads and one that commits: they take no lock.                          *)
(*                                                                         *)
(* There is one WeChat, one Google and one Alipay subject, always reported *)
(* with the same ids and, by Google, the same authoritative address; those *)
(* of them that are not configured are refused.  Left out: passwords and   *)
(* codes (PhoneCodes), tokens (Sessions), Supabase.                        *)
(***************************************************************************)
EXTENDS Naturals, FiniteSets

CONSTANTS
    MaxAccount,    \* accounts are numbered in the order of their primary keys
    Phone,         \* phone numbers
    Nobody,        \* no account, no phone number
    MaxLeaving,    \* bound on the requests that unbind at the same time
    MaxJoining,    \* bound on the requests that register one subject at the same time
    Deployments    \* the sets of third parties that may be configured

VARIABLES
    offered,    \* the third parties that are configured
    user,       \* the users' rows
    row,        \* auth_identities: who owns a subject, and whether verified
    history,    \* rows of other tables: <<a, Nobody>> of an account on its own,
                \* <<a, b>> of a trade or a conversation between two
    belongings, \* accounts with a coupon, a media asset or an upload
    retired,    \* the merged accounts that their owner has merged, not an administrator
    joining,    \* how many requests have found nobody with a subject, to register it
    twice,      \* subjects that were registered when somebody had them by then
    pending,    \* accounts signed in to whose tokens are yet to be issued
    leaving,    \* the requests that unbind, with what they have read
    raced       \* one of them committed after what it had read was changed

ownVars == <<belongings, retired>>
joinVars == <<joining, twice>>
vars == <<offered, user, row, history, ownVars, joinVars, pending, leaving, raced>>

Account == 1..MaxAccount
Subject == Phone \cup {"wechat", "google", "alipay"}

Provider(s) == IF s \in Phone THEN "phone" ELSE s

-----------------------------------------------------------------------------
\* Rows.

UserRow == [status : {"none", "normal", "banned", "merged"},
            phone  : Phone \cup {Nobody},
            wechat : BOOLEAN, alipay : BOOLEAN, google : BOOLEAN,
            email  : BOOLEAN]       \* email = the Google account's address

NoColumns == [status |-> "none", phone |-> Nobody, wechat |-> FALSE,
              alipay |-> FALSE, google |-> FALSE, email |-> FALSE]

NoOwner == [owner |-> Nobody, verified |-> FALSE]

\* The columns of an account after the subject is put into them.
WithSubject(u, s) ==
    CASE s \in Phone    -> [u EXCEPT !.phone = s]
      [] s = "wechat"   -> [u EXCEPT !.wechat = TRUE]
      [] s = "alipay"   -> [u EXCEPT !.alipay = TRUE]
      [] s = "google"   -> [u EXCEPT !.google = TRUE]

\* Google's profile also brings the address.
SignedIn(u, s) ==
    IF s = "google" THEN [WithSubject(u, s) EXCEPT !.email = TRUE]
                    ELSE WithSubject(u, s)

WithoutSubject(u, s) ==
    CASE s \in Phone    -> [u EXCEPT !.phone = Nobody]
      [] s = "wechat"   -> [u EXCEPT !.wechat = FALSE]
      [] s = "alipay"   -> [u EXCEPT !.alipay = FALSE]
      [] s = "google"   -> [u EXCEPT !.google = FALSE]

\* A merge empties the columns of the retired account, but for the address.
Cleared(u) ==
    [u EXCEPT !.phone = Nobody, !.wechat = FALSE, !.alipay = FALSE, !.google = FALSE]

InColumns(u) ==
    {s \in Phone : u.phone = s}
    \cup {s \in {"wechat"} : u.wechat} \cup {s \in {"google"} : u.google}

Offered(s) == s \in Phone \cup offered

Owned(a) == {s \in Subject : row[s].owner = a}
ProvidersOf(subjects) == {Provider(s) : s \in subjects}
Verified(a) == {s \in Owned(a) : row[s].verified}

-----------------------------------------------------------------------------
\* Lookups.

WithColumn(s) == {a \in Account : s \in InColumns(user[a])}

\* The accounts in which signing in with the subject may end up: the columns
\* say so, for Google an account with the same address, for Alipay the row.
Found(s) ==
    CASE s = "alipay" -> {row[s].owner} \ {Nobody}
      [] s = "google" -> IF WithColumn(s) # {} THEN WithColumn(s)
                         ELSE {a \in Account : user[a].email}
      [] OTHER        -> WithColumn(s)

Free == {a \in Account : user[a].status = "none"}
Active(a) == user[a].status = "normal"

-----------------------------------------------------------------------------
\* _sync_auth_identities for an account with these columns.  It is refused if
\* a subject belongs to another account, or if the account has another of the
\* same provider (a unique constraint).

InSync(a, u, r) ==
    \A s \in InColumns(u) :
        /\ r[s].owner \in {a, Nobody}
        /\ \A t \in Subject : r[t].owner = a /\ Provider(t) = Provider(s) => t = s

Synced(a, u, r) ==
    [s \in Subject |->
        IF s \in InColumns(u) THEN [owner |-> a, verified |-> TRUE] ELSE r[s]]

-----------------------------------------------------------------------------
\* Signing in and registering.

\* An account that signing in finds has its columns brought up to date.
SignIn(s) ==
    \E a \in Found(s) :
        /\ Offered(s)
        /\ a \notin pending
        /\ user' = [user EXCEPT ![a] = SignedIn(user[a], s)]
        /\ row' = IF s = "alipay" THEN [row EXCEPT ![s].verified = TRUE] ELSE row
        /\ pending' = pending \cup {a}
        /\ UNCHANGED <<offered, history, ownVars, joinVars, leaving, raced>>

\* A subject that is not found is to get an account.
RegisterBegin(s) ==
    /\ Offered(s)
    /\ Found(s) = {}
    /\ joining[s] < MaxJoining
    /\ joining' = [joining EXCEPT ![s] = @ + 1]
    /\ UNCHANGED <<offered, user, row, history, ownVars, twice, pending, leaving, raced>>

\* Phone numbers are unique in the users' rows, subjects in auth_identities.
\* Nothing makes the columns of WeChat and Google unique.
Unique(s) ==
    /\ s \in Phone => WithColumn(s) = {}
    /\ s = "alipay" => row[s].owner = Nobody

\* The account is made, whoever has the subject by now; Alipay's row comes with
\* it, and to everyone a coupon.
Register(s) ==
    /\ joining[s] > 0
    /\ Unique(s)
    /\ \E a \in Free :
           /\ user' = [user EXCEPT ![a] = [SignedIn(@, s) EXCEPT !.status = "normal"]]
           /\ row' = IF s = "alipay"
                     THEN [row EXCEPT ![s] = [owner |-> a, verified |-> TRUE]] ELSE row
           /\ belongings' = belongings \cup {a}
           /\ pending' = pending \cup {a}
    /\ joining' = [joining EXCEPT ![s] = @ - 1]
    /\ twice' = IF Found(s) # {} THEN twice \cup {s} ELSE twice
    /\ UNCHANGED <<offered, history, retired, leaving, raced>>

\* The request breaks a unique constraint (that of heishi_id, too, when another
\* has taken the same one meanwhile), or it dies.
RegisterFails(s) ==
    /\ joining[s] > 0
    /\ joining' = [joining EXCEPT ![s] = @ - 1]
    /\ UNCHANGED <<offered, user, row, history, ownVars, twice, pending, leaving, raced>>

LoginByPhone(p) == SignIn(p)
RegisterByPhone(p) == RegisterBegin(p)

\* These two make the account when there is none.
WechatLogin == SignIn("wechat") \/ RegisterBegin("wechat")
AlipayLogin == SignIn("alipay") \/ RegisterBegin("alipay")

\* Google has an endpoint for each.  Registering what is registered updates
\* the account it finds, and is then refused.
GoogleLogin == SignIn("google")
GoogleRegister ==
    \/ RegisterBegin("google")
    \/ /\ Offered("google")
       /\ \E a \in Found("google") :
              user' = [user EXCEPT ![a] = SignedIn(user[a], "google")]
       /\ UNCHANGED <<offered, row, history, ownVars, joinVars, pending, leaving, raced>>

\* The second transaction: restricted accounts are refused.
IssueTokens(a) ==
    /\ a \in pending
    /\ pending' = pending \ {a}
    /\ row' = IF Active(a) /\ InSync(a, user[a], row)
              THEN Synced(a, user[a], row) ELSE row
    /\ UNCHANGED <<offered, user, history, ownVars, joinVars, leaving, raced>>

-----------------------------------------------------------------------------
\* Binding and unbinding.

\* (Mutation: the columns are not looked at.)
OwnersInRows(s) == {row[s].owner} \ {Nobody}

\* Who has the subject: the row says, and where there is none the columns.
Owners(s) == IF row[s].owner # Nobody THEN {row[s].owner} ELSE WithColumn(s)

\* The account has another subject of the provider.
HasAnother(a, s) == \E t \in Owned(a) : Provider(t) = Provider(s) /\ t # s

\* The columns are set and the identities derived from them.
PutColumns(a, s) ==
    LET new == SignedIn(user[a], s)
    IN  /\ InSync(a, new, row)
        /\ user' = [user EXCEPT ![a] = new]
        /\ row' = Synced(a, new, row)
        /\ UNCHANGED <<offered, history, ownVars, joinVars, pending, leaving, raced>>

BindPhone(a, p) ==
    /\ Active(a)
    /\ WithColumn(p) \subseteq {a}
    /\ ~HasAnother(a, p)
    /\ PutColumns(a, p)

BindWechat(a) ==
    /\ Active(a)
    /\ Offered("wechat")
    /\ Owners("wechat") \subseteq {a}
    /\ PutColumns(a, "wechat")

BindGoogle(a) ==
    /\ Active(a)
    /\ Offered("google")
    /\ Owners("google") \subseteq {a}
    /\ PutColumns(a, "google")

\* Alipay's identity is not derived from a column.
BindAlipay(a) ==
    /\ Active(a)
    /\ Offered("alipay")
    /\ row["alipay"].owner \in {a, Nobody}
    /\ ~HasAnother(a, "alipay")
    /\ user' = [user EXCEPT ![a] = SignedIn(@, "alipay")]
    /\ row' = [row EXCEPT !["alipay"] = [owner |-> a, verified |-> TRUE]]
    /\ UNCHANGED <<offered, history, ownVars, joinVars, pending, leaving, raced>>

\* (Mutation: one verified way to sign in is enough to unbind it.)
MayUnbindLast(a, s) == Cardinality(Verified(a)) >= 1 \/ ~row[s].verified

MayUnbind(a, s) == Cardinality(Verified(a)) > 1 \/ ~row[s].verified

Unbind(a, s) ==
    /\ Active(a)
    /\ s \in Owned(a)
    /\ MayUnbind(a, s)
    /\ Cardinality(leaving) < MaxLeaving
    /\ leaving' = leaving \cup {[account |-> a, subject |-> s, read |-> user[a], rows |-> Owned(a)]}
    /\ leaving' # leaving
    /\ UNCHANGED <<offered, user, row, history, ownVars, joinVars, pending, raced>>

\* What is gone meanwhile was unbound by another request.
UnbindCommit(l) ==
    /\ user' = [user EXCEPT ![l.account] = WithoutSubject(@, l.subject)]
    /\ row' = [row EXCEPT ![l.subject] = NoOwner]
    /\ leaving' = leaving \ {l}
    /\ raced' = (raced \/ user[l.account] # l.read \/ Owned(l.account) # l.rows)
    /\ UNCHANGED <<offered, history, ownVars, joinVars, pending>>

-----------------------------------------------------------------------------
\* Merging.

\* Rows after both accounts are synchronised, when they can be.
Both(a, t) == Synced(a, user[a], Synced(t, user[t], row))
BothInSync(a, t) ==
    /\ InSync(t, user[t], row)
    /\ InSync(a, user[a], Synced(t, user[t], row))

OwnedIn(r, a) == {s \in Subject : r[s].owner = a}

\* The account that keeps the subjects of the retired one.
Keeper(u, subjects) ==
    [u EXCEPT !.phone  = IF subjects \cap Phone # {}
                         THEN CHOOSE p \in subjects \cap Phone : TRUE ELSE @,
              !.wechat = @ \/ "wechat" \in subjects,
              !.alipay = @ \/ "alipay" \in subjects,
              !.google = @ \/ "google" \in subjects]

Moved(r, a, t) ==
    [s \in Subject |-> IF r[s].owner = t THEN [r[s] EXCEPT !.owner = a] ELSE r[s]]

\* r is auth_identities after the rows that were missing have been added.
Merged(a, t, r) ==
    /\ user' = [user EXCEPT ![a] = Keeper(@, OwnedIn(r, t)),
                            ![t] = [Cleared(@) EXCEPT !.status = "merged"]]
    /\ row' = Moved(r, a, t)
    /\ UNCHANGED <<joinVars, leaving, raced>>

HasHistory(a) == \E h \in history : a \in {h[1], h[2]}

\* (Mutation: an account with history may be merged by its owner.)
OnlyNormal(a, t) == a # t /\ Active(a) /\ Active(t)

MayMerge(a, t) == a # t /\ Active(a) /\ Active(t) /\ ~HasHistory(t)

\* The owner's merge.  One flush writes both rows, in the order of their keys:
\* a phone number that moves to the smaller key breaks its unique constraint.
\* The test of history looks at no coupon, asset or upload, and they stay behind.
MergeOwn(a, t) ==
    /\ MayMerge(a, t)
    /\ BothInSync(a, t)
    /\ ProvidersOf(OwnedIn(Both(a, t), a)) \cap ProvidersOf(OwnedIn(Both(a, t), t)) = {}
    /\ user[t].phone # Nobody => t < a
    /\ Merged(a, t, Both(a, t))
    /\ retired' = retired \cup {t}
    /\ UNCHANGED <<offered, history, belongings, pending>>

\* The proof of owning t is its phone number and password ...
MergeByPhone(a, t) == user[t].phone # Nobody /\ MergeOwn(a, t)

\* ... or signing in with the WeChat or the Alipay that is recorded for it.
MergeByIdentity(a, t) ==
    /\ \/ \E s \in {"wechat", "alipay"} : row[s].owner = t
       \/ row["wechat"].owner = Nobody /\ user[t].wechat
    /\ MergeOwn(a, t)

\* _backfill_merge_identities adds the rows that are missing.
Backfilled(a, u, r) ==
    [s \in Subject |-> IF s \in InColumns(u) /\ r[s].owner = Nobody
                       THEN [owner |-> a, verified |-> TRUE] ELSE r[s]]

\* The two accounts have dealt with each other: merged, they would have traded
\* with themselves.
Counterparts(a, t) == \E h \in history : {h[1], h[2]} = {a, t}

\* What refers to t refers to a.
Migrated(h, a, t) ==
    LET Of(x) == IF x = t THEN a ELSE x
    IN  {<<Of(e[1]), Of(e[2])>> : e \in h}

\* The administrator's merge moves the history and the belongings too, and
\* clears the columns first.
MergeByAdmin(a, t) ==
    /\ a # t
    /\ Active(a) /\ Active(t)
    /\ BothInSync(a, t)
    /\ ~Counterparts(a, t)
    /\ LET r == Backfilled(a, user[a], Backfilled(t, user[t], row))
       IN  /\ \A s \in OwnedIn(r, t), k \in OwnedIn(r, a) :
                  Provider(s) = Provider(k) => s = k
           /\ Merged(a, t, r)
    /\ history' = Migrated(history, a, t)
    /\ belongings' = {IF x = t THEN a ELSE x : x \in belongings}
    /\ UNCHANGED <<offered, retired, pending>>

-----------------------------------------------------------------------------
\* Other requests.

ListIdentities(a) ==
    /\ Active(a)
    /\ InSync(a, user[a], row)
    /\ row' = Synced(a, user[a], row)
    /\ UNCHANGED <<offered, user, history, ownVars, joinVars, pending, leaving, raced>>

\* The ban does not look at the state the account is in, nor does its end.
Ban(a) ==
    /\ user[a].status # "none"
    /\ user' = [user EXCEPT ![a].status = "banned"]
    /\ retired' = retired \ {a}
    /\ UNCHANGED <<offered, row, history, belongings, joinVars, pending, leaving, raced>>

Unban(a) ==
    /\ user[a].status # "none"
    /\ user' = [user EXCEPT ![a].status = "normal"]
    /\ retired' = retired \ {a}
    /\ UNCHANGED <<offered, row, history, belongings, joinVars, pending, leaving, raced>>

\* A coupon is issued, a file uploaded.
Acquire(a) ==
    /\ Active(a)
    /\ belongings' = belongings \cup {a}
    /\ UNCHANGED <<offered, user, row, history, retired, joinVars, pending, leaving, raced>>

\* A listing, a favourite, an address of the account ...
Use(a) ==
    /\ Active(a)
    /\ history' = history \cup {<<a, Nobody>>}
    /\ UNCHANGED <<offered, user, row, ownVars, joinVars, pending, leaving, raced>>

\* ... an order, a conversation or an offer between two.
Trade(a, b) ==
    /\ a < b
    /\ Active(a) /\ Active(b)
    /\ history' = history \cup {<<a, b>>}
    /\ UNCHANGED <<offered, user, row, ownVars, joinVars, pending, leaving, raced>>

Init ==
    /\ offered \in Deployments
    /\ user = [a \in Account |-> NoColumns]
    /\ row = [s \in Subject |-> NoOwner]
    /\ history = {} /\ belongings = {} /\ retired = {}
    /\ joining = [s \in Subject |-> 0] /\ twice = {}
    /\ pending = {}
    /\ leaving = {}
    /\ raced = FALSE

Next ==
    \/ \E p \in Phone : LoginByPhone(p) \/ RegisterByPhone(p)
    \/ WechatLogin \/ AlipayLogin \/ GoogleLogin \/ GoogleRegister
    \/ \E a \in Account :
          \/ IssueTokens(a) \/ ListIdentities(a)
          \/ Ban(a) \/ Unban(a) \/ Use(a) \/ Acquire(a)
          \/ \E p \in Phone : BindPhone(a, p)
          \/ BindWechat(a) \/ BindGoogle(a) \/ BindAlipay(a)
          \/ \E s \in Subject : Unbind(a, s)
          \/ \E t \in Account :
                \/ MergeByPhone(a, t) \/ MergeByIdentity(a, t) \/ MergeByAdmin(a, t)
                \/ Trade(a, t)
    \/ \E s \in Subject : Register(s) \/ RegisterFails(s)
    \/ \E l \in leaving : UnbindCommit(l)

Spec == Init /\ [][Next]_vars

-----------------------------------------------------------------------------
TypeOK ==
    /\ user \in [Account -> UserRow]
    /\ row \in [Subject -> [owner : Account \cup {Nobody}, verified : BOOLEAN]]
    /\ history \subseteq Account \X (Account \cup {Nobody})
    /\ belongings \subseteq Account /\ retired \subseteq Account
    /\ joining \in [Subject -> 0..MaxJoining]
    /\ twice \subseteq {"wechat", "google"}
    /\ pending \subseteq Account
    /\ \A l \in leaving : l.account \in Account /\ l.subject \in Subject

\* Whoever owns a subject in auth_identities is who signing in with it finds:
\* binding, unbinding and merging keep the two records of it together.  Of phone
\* numbers and Alipay this holds however registrations overlap; of WeChat and
\* Google unless one has been registered when somebody had it by then.
SignInFindsOwner ==
    ~raced => \A s \in Subject \ twice : row[s].owner # Nobody => Found(s) = {row[s].owner}

\* "Bind another verified login method before unbinding this one": an account
\* with a verified way to sign in has one until it is merged into another,
\* as long as unbinding does not overlap another unbinding or a merge.
AMethodIsLeft ==
    ~raced' => \A a \in Account :
        Verified(a) # {} => Verified(a)' # {} \/ user'[a].status = "merged"

KeepsAMethod == [][AMethodIsLeft]_vars

\* A retired account owns no subject, no phone or WeChat leads to it, and nothing
\* that either merge looks at refers to it (it keeps the address, so that signing
\* in with Google may still lead to it); only its owner's own merge leaves a
\* coupon, an asset or an upload on it.  And no account has traded with itself.
MergedIsEmpty ==
    ~raced =>
        /\ \A a \in Account : user[a].status = "merged" =>
               /\ Owned(a) = {} /\ InColumns(user[a]) \subseteq {"google"}
               /\ ~HasHistory(a)
               /\ a \in belongings => a \in retired
        /\ \A h \in history : h[1] # h[2]
=============================================================================

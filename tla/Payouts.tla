------------------------------ MODULE Payouts ------------------------------
(***************************************************************************)
(* Where a seller is paid (app/routers/users.py): the rows of              *)
(* payout_methods, the onboarding at Stripe and at PayPal that they stand  *)
(* for, and the choice among them when an order is paid out                *)
(* (app/payout_release.py).                                                *)
(*                                                                         *)
(* Requests read, talk to the provider and commit; nothing is locked, and  *)
(* other requests may commit in between.  The seller works in the          *)
(* provider's pages meanwhile.  Left out: WeChat, which is handled as      *)
(* Alipay is, labels and account numbers.                                  *)
(***************************************************************************)
EXTENDS Naturals, FiniteSets

CONSTANTS
    Request,       \* requests of the seller that can be under way
    Platforms,     \* providers of payouts that a platform may have configured
    MaxRow,        \* bound: rows; a new one gets any key that is free
    MaxAccount,    \* bound: Stripe accounts that are made for the seller
    MaxLink        \* bound: PayPal onboarding links

VARIABLES
    method,     \* the rows of payout_methods
    configured, \* the providers that this one has
    connect,    \* users.stripe_connect_id
    account,    \* the accounts at Stripe
    country,    \* the setting stripe_connect_country, as it is deployed
    link,       \* how many PayPal links were made
    granted,    \* links that the seller has come back from with all consents
    req,        \* requests under way
    overtaken   \* a link or a return has committed over what it had not read

vars == <<configured, method, connect, account, country, link, granted, req, overtaken>>

Row == 1..MaxRow
Account == 1..MaxAccount

Type == {"bank", "paypal", "alipay"}

NoRow == [type |-> "none", default |-> FALSE, enabled |-> FALSE, link |-> 0]

PayoutMethod == [type : Type, default : BOOLEAN, enabled : BOOLEAN, link : 0..MaxLink]

StripeAccount ==
    [country : {"none", "old", "new"}, submitted : BOOLEAN, enabled : BOOLEAN, ever : BOOLEAN]

NoAccount == [country |-> "none", submitted |-> FALSE, enabled |-> FALSE, ever |-> FALSE]

Idle == [kind |-> "none", row |-> 0, account |-> 0, read |-> NoRow, seen |-> NoAccount]

Rows == {i \in Row : method[i] # NoRow}
RowsOf(t) == {i \in Rows : method[i].type = t}

\* The first of the user's requests that is free.
Free(r) == req[r] = Idle /\ r = CHOOSE q \in Request : req[q] = Idle

First(set) == CHOOSE i \in set : \A j \in set : i <= j

-----------------------------------------------------------------------------
\* Rows.

\* A row of the type as `with` leaves it; the first row a seller gets is the
\* default one.
Upserted(t, with(_)) ==
    IF RowsOf(t) # {}
    THEN \E i \in RowsOf(t) : method' = [method EXCEPT ![i] = with(@)]
    ELSE \E i \in Row \ Rows :
             method' = [method EXCEPT ![i] =
                 with([NoRow EXCEPT !.type = t, !.default = (Rows = {})])]

\* add_payout_method: an account that the seller, who has bound Alipay to his
\* account, types in.
AddMethod ==
    /\ "alipay" \in configured
    /\ Upserted("alipay", LAMBDA m : [m EXCEPT !.enabled = TRUE])
    /\ UNCHANGED <<configured, connect, account, country, link, granted, req, overtaken>>

\* The row is deleted; promoting another row to the default is a transaction
\* of its own.
RemoveMethod(r, i) ==
    /\ Free(r)
    /\ i \in Rows
    /\ method' = [method EXCEPT ![i] = NoRow]
    /\ req' = IF method[i].default THEN [req EXCEPT ![r] = [Idle EXCEPT !.kind = "promote"]]
              ELSE req
    /\ UNCHANGED <<configured, connect, account, country, link, granted, overtaken>>

Promote(r) ==
    /\ req[r].kind = "promote"
    /\ method' = IF Rows = {} THEN method
                 ELSE [method EXCEPT ![First(Rows)].default = TRUE]
    /\ req' = [req EXCEPT ![r] = Idle]
    /\ UNCHANGED <<configured, connect, account, country, link, granted, overtaken>>

SetDefault(i, isDefault) ==
    /\ i \in Rows
    /\ method' = IF isDefault
                 THEN [j \in Row |-> IF j \in Rows THEN [method[j] EXCEPT !.default = (j = i)]
                                     ELSE NoRow]
                 ELSE [method EXCEPT ![i].default = FALSE]
    /\ UNCHANGED <<configured, connect, account, country, link, granted, req, overtaken>>

-----------------------------------------------------------------------------
\* Stripe.

\* (Mutation: an account of another country is replaced in any case.)
ReplacedAnyway(a) == a.country # country

\* ensure_connect_account keeps an account of the right country, and refuses to
\* replace one that the seller has completed.
Kept(a) == a.country = country
Replaced(a) == a.country # country /\ ~a.submitted /\ ~a.enabled

\* The account is retrieved, or made; the seller's row is read before.
ConnectLink(r) ==
    /\ "stripe" \in configured
    /\ Free(r)
    /\ IF connect # 0 /\ Kept(account[connect])
       THEN UNCHANGED <<account, req>>
       ELSE /\ connect # 0 => Replaced(account[connect])
            /\ \E a \in Account :
                   /\ account[a] = NoAccount /\ \A b \in 1..(a - 1) : account[b] # NoAccount
                   /\ account' = [account EXCEPT ![a].country = country]
                   /\ req' = [req EXCEPT ![r] = [Idle EXCEPT
                         !.kind = "connect", !.account = a, !.row = connect,
                         !.seen = IF connect = 0 THEN NoAccount ELSE account[connect]]]
    /\ UNCHANGED <<configured, method, connect, country, link, granted, overtaken>>

ConnectCommit(r) ==
    /\ req[r].kind = "connect"
    /\ connect' = req[r].account
    /\ overtaken' = (overtaken \/ connect # req[r].row
                               \/ (connect # 0 /\ account[connect] # req[r].seen))
    /\ req' = [req EXCEPT ![r] = Idle]
    /\ UNCHANGED <<configured, method, account, country, link, granted>>

\* get_payout_connect_status: what Stripe says is written to the bank row.
StatusRead(r) ==
    /\ Free(r)
    /\ connect # 0 /\ account[connect].submitted
    /\ req' = [req EXCEPT ![r] =
           [Idle EXCEPT !.kind = "status", !.row = connect, !.seen = account[connect]]]
    /\ UNCHANGED <<configured, method, connect, account, country, link, granted, overtaken>>

StatusCommit(r) ==
    /\ req[r].kind = "status"
    /\ Upserted("bank", LAMBDA m : [m EXCEPT !.enabled = req[r].seen.enabled])
    /\ overtaken' = (overtaken \/ connect # req[r].row)
    /\ req' = [req EXCEPT ![r] = Idle]
    /\ UNCHANGED <<configured, connect, account, country, link, granted>>

\* The seller completes an account whose link was shown to him, before or after
\* it is the one that is recorded; Stripe enables and disables payouts.
Onboard(a) ==
    /\ account[a] # NoAccount
    /\ account' = [account EXCEPT ![a].submitted = TRUE]
    /\ UNCHANGED <<configured, method, connect, country, link, granted, req, overtaken>>

Enable(a, enabled) ==
    /\ account[a].submitted
    /\ account' = [account EXCEPT ![a].enabled = enabled, ![a].ever = @ \/ enabled]
    /\ UNCHANGED <<configured, method, connect, country, link, granted, req, overtaken>>

\* Another setting is deployed, once.
Deploy ==
    /\ country = "old"
    /\ country' = "new"
    /\ UNCHANGED <<configured, method, connect, account, link, granted, req, overtaken>>

-----------------------------------------------------------------------------
\* PayPal.

\* A new link is committed, then asked for; what an older one had brought is
\* given up.
PaypalLink ==
    /\ "paypal" \in configured
    /\ link < MaxLink
    /\ link' = link + 1
    /\ Upserted("paypal", LAMBDA m : [m EXCEPT !.link = link + 1, !.enabled = FALSE])
    /\ UNCHANGED <<configured, connect, account, country, granted, req, overtaken>>

\* The seller comes back from a link, with all consents or not.  The row is
\* found by the link.
PaypalReturn(r, l, consents) ==
    /\ Free(r)
    /\ \E i \in RowsOf("paypal") :
           /\ method[i].link = l
           /\ req' = [req EXCEPT ![r] = [Idle EXCEPT
                  !.kind = IF consents THEN "grant" ELSE "deny", !.row = i, !.read = method[i]]]
    /\ UNCHANGED <<configured, method, connect, account, country, link, granted, overtaken>>

\* A row that is gone by then makes the update fail.
ReturnCommit(r) ==
    LET i == req[r].row
        enabled == req[r].kind = "grant"
    IN  /\ req[r].kind \in {"grant", "deny"}
        /\ IF method[i] = NoRow THEN UNCHANGED <<method, granted, overtaken>>
           ELSE /\ method' = [method EXCEPT ![i].enabled =
                       IF enabled = req[r].read.enabled THEN @ ELSE enabled]
                /\ granted' = IF enabled THEN granted \cup {req[r].read.link} ELSE granted
                /\ overtaken' = (overtaken \/ method[i] # req[r].read)
        /\ req' = [req EXCEPT ![r] = Idle]
        /\ UNCHANGED <<configured, connect, account, country, link>>

-----------------------------------------------------------------------------
RequestDies(r) ==
    /\ req[r] # Idle
    /\ req' = [req EXCEPT ![r] = Idle]
    /\ UNCHANGED <<configured, method, connect, account, country, link, granted, overtaken>>

Init ==
    /\ method = [i \in Row |-> NoRow]
    /\ configured \in Platforms
    /\ connect = 0
    /\ account = [a \in Account |-> NoAccount]
    /\ country = "old"
    /\ link = 0
    /\ granted = {}
    /\ req = [r \in Request |-> Idle]
    /\ overtaken = FALSE

Next ==
    \/ AddMethod \/ PaypalLink \/ Deploy
    \/ \E i \in Row, d \in BOOLEAN : SetDefault(i, d)
    \/ \E a \in Account : Onboard(a) \/ \E e \in BOOLEAN : Enable(a, e)
    \/ \E r \in Request :
          \/ Promote(r) \/ ConnectLink(r) \/ ConnectCommit(r)
          \/ StatusRead(r) \/ StatusCommit(r) \/ ReturnCommit(r) \/ RequestDies(r)
          \/ \E i \in Row : RemoveMethod(r, i)
          \/ \E l \in 1..MaxLink, c \in BOOLEAN : PaypalReturn(r, l, c)

Spec == Init /\ [][Next]_vars

-----------------------------------------------------------------------------
TypeOK ==
    /\ method \in [Row -> PayoutMethod \cup {NoRow}]
    /\ connect \in 0..MaxAccount
    /\ account \in [Account -> StripeAccount]
    /\ granted \subseteq 1..MaxLink

\* _preferred_release_method: the row an order is paid out to, by the provider
\* its buyer paid with, or else the default one.
Rail == [stripe |-> "bank", paypal |-> "paypal", alipay |-> "alipay"]

Candidates(psp) == IF psp \in DOMAIN Rail THEN RowsOf(Rail[psp]) ELSE Rows

Preferred(psp) ==
    LET default == {i \in Candidates(psp) : method[i].default}
    IN  IF default # {} THEN First(default) ELSE First(Candidates(psp))

\* Money goes only where its owner has finished onboarding: a Stripe payout to
\* the account that was enabled, not to one made after it, a PayPal payout on
\* the consents of the latest link.  The exception is a link, a return or a
\* status request that another has overtaken.
PaidWhereOnboarded ==
    \A psp \in DOMAIN Rail \cup {"none"} :
        Candidates(psp) # {} /\ method[Preferred(psp)].enabled /\ ~overtaken =>
            LET m == method[Preferred(psp)]
            IN  /\ m.type = "bank" => connect # 0 /\ account[connect].ever
                /\ m.type = "paypal" => m.link \in granted
=============================================================================

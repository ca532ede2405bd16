--------------------------- MODULE AccountProofs ----------------------------
(***************************************************************************)
(* Theorems about Identities, Sessions and PhoneCodes, as components of    *)
(* Backend: for any number of accounts, phone numbers, devices, purposes,  *)
(* tokens and codes, and of requests that run at the same time.            *)
(***************************************************************************)
EXTENDS Backend, NaturalLemmas, FiniteSetTheorems, TLAPS

-----------------------------------------------------------------------------
\* The two records of the ways to sign in.

\* What a request that unbinds has read: that its subject is not the only one.
IdLeaving(l) ==
    /\ l.account \in Id!Account /\ l.subject \in Id!Subject /\ l.read \in Id!UserRow
    /\ l.subject \in l.rows /\ l.rows # {l.subject}
    /\ l.read.status = "normal"

\* A recorded way to sign in is verified.
IdVerified == \A s \in Id!Subject : row[s].owner # Nobody => row[s].verified

\* What the columns hold.
IdTables ==
    /\ user \in [Id!Account -> Id!UserRow]
    /\ row \in [Id!Subject -> [owner : Id!Account \cup {Nobody}, verified : BOOLEAN]]
    /\ history \subseteq Id!Account \X (Id!Account \cup {Nobody})
    /\ pending \subseteq Id!Account
    /\ \A l \in leaving : l.account \in Id!Account /\ l.subject \in Id!Subject

IdType ==
    /\ IdTables
    /\ raced \in BOOLEAN
    /\ \A l \in leaving : IdLeaving(l)
    /\ IdVerified

\* The two records agree: whoever owns a subject has it in the columns, where it is
\* nobody else's unless somebody had it when it was registered.  (Alipay is found by
\* its row alone.)
IdAgree ==
    /\ \A s \in Id!Subject \ {"alipay"}, a \in Id!Account :
           row[s].owner = a => s \in Id!InColumns(user[a])
    /\ \A s \in Id!Subject \ ({"alipay"} \cup twice), a \in Id!Account, b \in Id!Account :
           s \in Id!InColumns(user[a]) /\ s \in Id!InColumns(user[b]) => a = b

\* An account that is not there, or is retired, has nothing.
IdEmpty ==
    \A a \in Id!Account :
        /\ user[a].status = "none" => user[a] = Id!NoColumns
        /\ user[a].status = "merged" =>
               Id!InColumns(user[a]) \subseteq {"google"} /\ ~Id!HasHistory(a)
        /\ user[a].status \in {"none", "merged"} => \A s \in Id!Subject : row[s].owner # a

\* Nobody has dealt with itself.
IdApart == \A h \in history : h[1] # h[2]

IdInv == IdType /\ (~raced => IdAgree /\ IdEmpty) /\ IdApart

\* A row of auth_identities.
IdRow == [owner : Id!Account \cup {Nobody}, verified : BOOLEAN]

\* What the columns say.
LEMMA IdColumn ==
  ASSUME NEW u, NEW s \in Id!Subject
  PROVE  /\ s \in Phone => (s \in Id!InColumns(u) <=> u.phone = s)
         /\ s = "wechat" => (s \in Id!InColumns(u) <=> u.wechat)
         /\ s = "google" => (s \in Id!InColumns(u) <=> u.google)
         /\ s = "alipay" => s \notin Id!InColumns(u)
         /\ s \in Phone \/ s = "wechat" \/ s = "google" \/ s = "alipay"
  BY IdentityAssumption DEF Id!InColumns, Id!Subject

\* A subject is put into the columns: its provider's other subject goes.
LEMMA IdSignedIn ==
  ASSUME NEW u \in Id!UserRow, NEW s \in Id!Subject
  PROVE  /\ Id!SignedIn(u, s) \in Id!UserRow
         /\ Id!SignedIn(u, s).status = u.status
         /\ s # "alipay" => s \in Id!InColumns(Id!SignedIn(u, s))
         /\ \A x \in Id!Subject : x \in Id!InColumns(Id!SignedIn(u, s)) =>
                x \in Id!InColumns(u) \/ (x = s /\ s # "alipay")
         /\ \A x \in Id!Subject : x \in Id!InColumns(u) =>
                x \in Id!InColumns(Id!SignedIn(u, s)) \/ (x \in Phone /\ s \in Phone /\ x # s)
<1>1. s \in Phone \/ s = "wechat" \/ s = "google" \/ s = "alipay"
  BY DEF Id!Subject
<1>2. CASE s \in Phone
  <2>1. s # "wechat" /\ s # "google" /\ s # "alipay"
    BY <1>2, IdentityAssumption
  <2>2. Id!SignedIn(u, s) = [u EXCEPT !.phone = s]
    BY <1>2, <2>1 DEF Id!SignedIn, Id!WithSubject
  <2>3. PICK v : v = [u EXCEPT !.phone = s]
    OBVIOUS
  <2>4. /\ v \in Id!UserRow /\ v.status = u.status /\ v.phone = s
        /\ v.wechat = u.wechat /\ v.google = u.google
    BY <1>2, <2>3 DEF Id!UserRow
  <2>5. \A x \in Id!Subject : x \in Id!InColumns(v) <=>
          IF x \in Phone THEN x = s ELSE x \in Id!InColumns(u)
    BY <2>4, IdColumn, IdentityAssumption
  <2> QED
    BY <1>2, <2>1, <2>2, <2>3, <2>4, <2>5
<1>3. CASE s = "wechat"
  <2>1. s \notin Phone
    BY <1>3, IdentityAssumption
  <2>2. Id!SignedIn(u, s) = [u EXCEPT !.wechat = TRUE]
    BY <1>3, <2>1 DEF Id!SignedIn, Id!WithSubject
  <2>3. PICK v : v = [u EXCEPT !.wechat = TRUE]
    OBVIOUS
  <2>4. /\ v \in Id!UserRow /\ v.status = u.status /\ v.phone = u.phone
        /\ v.wechat /\ v.google = u.google
    BY <2>3 DEF Id!UserRow
  <2>5. \A x \in Id!Subject : x \in Id!InColumns(v) <=> x = s \/ x \in Id!InColumns(u)
    BY <1>3, <2>4, IdColumn, IdentityAssumption
  <2> QED
    BY <1>3, <2>1, <2>2, <2>3, <2>4, <2>5
<1>4. CASE s = "google"
  <2>1. s \notin Phone
    BY <1>4, IdentityAssumption
  <2>2. Id!SignedIn(u, s) = [[u EXCEPT !.google = TRUE] EXCEPT !.email = TRUE]
    BY <1>4, <2>1 DEF Id!SignedIn, Id!WithSubject
  <2>3. PICK v : v = [[u EXCEPT !.google = TRUE] EXCEPT !.email = TRUE]
    OBVIOUS
  <2>4. /\ v \in Id!UserRow /\ v.status = u.status /\ v.phone = u.phone
        /\ v.wechat = u.wechat /\ v.google
    BY <2>3 DEF Id!UserRow
  <2>5. \A x \in Id!Subject : x \in Id!InColumns(v) <=> x = s \/ x \in Id!InColumns(u)
    BY <1>4, <2>4, IdColumn, IdentityAssumption
  <2> QED
    BY <1>4, <2>1, <2>2, <2>3, <2>4, <2>5
<1>5. CASE s = "alipay"
  <2>1. s \notin Phone
    BY <1>5, IdentityAssumption
  <2>2. Id!SignedIn(u, s) = [u EXCEPT !.alipay = TRUE]
    BY <1>5, <2>1 DEF Id!SignedIn, Id!WithSubject
  <2>3. PICK v : v = [u EXCEPT !.alipay = TRUE]
    OBVIOUS
  <2>4. /\ v \in Id!UserRow /\ v.status = u.status /\ v.phone = u.phone
        /\ v.wechat = u.wechat /\ v.google = u.google
    BY <2>3 DEF Id!UserRow
  <2>5. \A x \in Id!Subject : x \in Id!InColumns(v) <=> x \in Id!InColumns(u)
    BY <2>4, IdColumn, IdentityAssumption
  <2> QED
    BY <1>5, <2>1, <2>2, <2>3, <2>4, <2>5
<1> QED
  BY <1>1, <1>2, <1>3, <1>4, <1>5

\* A subject is taken out of the columns.
LEMMA IdWithout ==
  ASSUME NEW u \in Id!UserRow, NEW s \in Id!Subject
  PROVE  /\ Id!WithoutSubject(u, s) \in Id!UserRow
         /\ Id!WithoutSubject(u, s).status = u.status
         /\ \A x \in Id!Subject : x \in Id!InColumns(Id!WithoutSubject(u, s)) =>
                x \in Id!InColumns(u)
         /\ \A x \in Id!Subject : x \in Id!InColumns(u) =>
                \/ x \in Id!InColumns(Id!WithoutSubject(u, s))
                \/ x = s
                \/ x \in Phone /\ s \in Phone
<1>1. s \in Phone \/ s = "wechat" \/ s = "google" \/ s = "alipay"
  BY DEF Id!Subject
<1>2. CASE s \in Phone
  <2>1. Id!WithoutSubject(u, s) = [u EXCEPT !.phone = Nobody]
    BY <1>2, IdentityAssumption DEF Id!WithoutSubject
  <2>2. PICK v : v = [u EXCEPT !.phone = Nobody]
    OBVIOUS
  <2>3. /\ v \in Id!UserRow /\ v.status = u.status /\ v.phone = Nobody
        /\ v.wechat = u.wechat /\ v.google = u.google
    BY <2>2 DEF Id!UserRow
  <2>4. \A x \in Id!Subject : x \in Id!InColumns(v) <=>
          x \notin Phone /\ x \in Id!InColumns(u)
    BY <2>3, IdColumn, IdentityAssumption
  <2> QED
    BY <1>2, <2>1, <2>2, <2>3, <2>4
<1>3. CASE s \in {"wechat", "google", "alipay"}
  <2>1. PICK v : v = Id!WithoutSubject(u, s)
    OBVIOUS
  <2>2. s \notin Phone
    BY <1>3, IdentityAssumption
  <2>3. \/ s = "wechat" /\ v = [u EXCEPT !.wechat = FALSE]
        \/ s = "google" /\ v = [u EXCEPT !.google = FALSE]
        \/ s = "alipay" /\ v = [u EXCEPT !.alipay = FALSE]
    BY <1>3, <2>1, <2>2 DEF Id!WithoutSubject
  <2>4. /\ v \in Id!UserRow /\ v.status = u.status /\ v.phone = u.phone
        /\ v.wechat = (u.wechat /\ s # "wechat") /\ v.google = (u.google /\ s # "google")
    BY <2>3 DEF Id!UserRow
  <2>5. \A x \in Id!Subject : x \in Id!InColumns(v) <=> x # s /\ x \in Id!InColumns(u)
    BY <2>2, <2>4, IdColumn, IdentityAssumption
  <2> QED
    BY <2>1, <2>4, <2>5
<1> QED
  BY <1>1, <1>2, <1>3


\* One account's row is written, and it may get subjects that nobody owned, or that
\* somebody had when they were registered.
LEMMA IdJoinStep ==
  ASSUME IdInv, NEW a \in Id!Account, NEW new \in Id!UserRow,
         user' = [user EXCEPT ![a] = new],
         row' \in [Id!Subject -> IdRow],
         pending' \subseteq Id!Account,
         UNCHANGED <<history, leaving, raced>>, twice \subseteq twice',
         \A s \in Id!Subject :
             /\ row'[s].owner = row[s].owner \/ (row[s].owner = Nobody /\ row'[s].owner = a)
             /\ row'[s].owner # Nobody => row'[s].verified,
         ~raced =>
             /\ \A s \in Id!Subject \ {"alipay"} :
                    row'[s].owner = a => s \in Id!InColumns(new)
             /\ \A s \in Id!Subject \ ({"alipay"} \cup twice'), b \in Id!Account :
                    s \in Id!InColumns(new) /\ s \in Id!InColumns(user[b]) => b = a
             /\ new.status = "none" => new = Id!NoColumns
             /\ new.status = "merged" => Id!InColumns(new) \subseteq {"google"} /\ ~Id!HasHistory(a)
             /\ new.status \in {"none", "merged"} => \A s \in Id!Subject : row'[s].owner # a
  PROVE  IdInv' /\ Id!AMethodIsLeft
<1>1. Nobody \notin Id!Account
  BY IdentityAssumption DEF Id!Account
<1>2. /\ user \in [Id!Account -> Id!UserRow] /\ row \in [Id!Subject -> IdRow]
      /\ \A l \in leaving : IdLeaving(l)
  BY DEF IdInv, IdType, IdTables, IdRow
<1>3. user' \in [Id!Account -> Id!UserRow]
  BY <1>2
<1>4. /\ user'[a] = new
      /\ \A b \in Id!Account : b # a => user'[b] = user[b]
  BY <1>2
<1>5. IdType'
  <2>1. IdTables'
    BY <1>3 DEF IdTables, IdRow, IdInv, IdType
  <2>2. (\A l \in leaving : IdLeaving(l))'
    BY <1>2 DEF IdLeaving
  <2>3. IdVerified'
    BY DEF IdVerified
  <2>4. raced' \in BOOLEAN
    BY DEF IdInv, IdType
  <2> QED
    BY <2>1, <2>2, <2>3, <2>4 DEF IdType
<1>6. ASSUME ~raced
      PROVE  IdAgree'
  <2>1. IdAgree
    BY <1>6 DEF IdInv
  <2>2. \A s \in Id!Subject \ {"alipay"}, b \in Id!Account :
            row'[s].owner = b => s \in Id!InColumns(user'[b])
    BY <1>1, <1>4, <1>6, <2>1 DEF IdAgree
  <2>3. \A s \in Id!Subject \ ({"alipay"} \cup twice'), b \in Id!Account, c \in Id!Account :
            s \in Id!InColumns(user'[b]) /\ s \in Id!InColumns(user'[c]) => b = c
    BY <1>4, <1>6, <2>1 DEF IdAgree
  <2> QED
    BY <2>2, <2>3 DEF IdAgree, Id!InColumns
<1>7. ASSUME ~raced
      PROVE  IdEmpty'
  <2>1. IdEmpty
    BY <1>7 DEF IdInv
  <2>2. SUFFICES ASSUME NEW b \in Id!Account
                 PROVE  /\ user'[b].status = "none" => user'[b] = Id!NoColumns
                        /\ user'[b].status = "merged" =>
                               Id!InColumns(user'[b]) \subseteq {"google"} /\ ~Id!HasHistory(b)
                        /\ user'[b].status \in {"none", "merged"} =>
                               \A s \in Id!Subject : row'[s].owner # b
    BY DEF IdEmpty, Id!HasHistory, Id!InColumns, Id!NoColumns
  <2>3. CASE b = a
    BY <1>4, <1>7, <2>3
  <2>4. CASE b # a
    BY <1>1, <1>4, <2>1, <2>4 DEF IdEmpty
  <2> QED
    BY <2>3, <2>4
<1>8. Id!AMethodIsLeft
  <2>1. \A b \in Id!Account, s \in Id!Subject :
            row[s].owner = b => row'[s].owner = b /\ row'[s].verified
    BY <1>1
  <2> QED
    BY <2>1 DEF Id!AMethodIsLeft, Id!Verified, Id!Owned
<1>9. IdApart'
  BY DEF IdInv, IdApart
<1> QED
  BY <1>5, <1>6, <1>7, <1>8, <1>9 DEF IdInv


\* One account's row is written, and it may get subjects that nobody owned.
LEMMA IdUserStep ==
  ASSUME IdInv, NEW a \in Id!Account, NEW new \in Id!UserRow,
         user' = [user EXCEPT ![a] = new],
         row' \in [Id!Subject -> IdRow],
         pending' \subseteq Id!Account,
         UNCHANGED <<history, twice, leaving, raced>>,
         \A s \in Id!Subject :
             /\ row'[s].owner = row[s].owner \/ (row[s].owner = Nobody /\ row'[s].owner = a)
             /\ row'[s].owner # Nobody => row'[s].verified,
         ~raced =>
             /\ \A s \in Id!Subject \ {"alipay"} :
                    row'[s].owner = a => s \in Id!InColumns(new)
             /\ \A s \in Id!Subject \ ({"alipay"} \cup twice), b \in Id!Account :
                    s \in Id!InColumns(new) /\ s \in Id!InColumns(user[b]) => b = a
             /\ new.status = "none" => new = Id!NoColumns
             /\ new.status = "merged" => Id!InColumns(new) \subseteq {"google"} /\ ~Id!HasHistory(a)
             /\ new.status \in {"none", "merged"} => \A s \in Id!Subject : row'[s].owner # a
  PROVE  IdInv' /\ Id!AMethodIsLeft
<1>1. /\ twice' = twice /\ twice \subseteq twice'
      /\ UNCHANGED <<history, leaving, raced>>
  OBVIOUS
<1>2. ~raced =>
        /\ \A s \in Id!Subject \ {"alipay"} :
               row'[s].owner = a => s \in Id!InColumns(new)
        /\ \A s \in Id!Subject \ ({"alipay"} \cup twice'), b \in Id!Account :
               s \in Id!InColumns(new) /\ s \in Id!InColumns(user[b]) => b = a
        /\ new.status = "none" => new = Id!NoColumns
        /\ new.status = "merged" => Id!InColumns(new) \subseteq {"google"} /\ ~Id!HasHistory(a)
        /\ new.status \in {"none", "merged"} => \A s \in Id!Subject : row'[s].owner # a
  BY <1>1
<1> QED
  BY <1>1, <1>2, IdJoinStep

\* What the invariant says when two requests have not raced, in one place.
LEMMA IdFacts ==
  ASSUME IdInv
  PROVE  /\ Nobody \notin Id!Account /\ Nobody \notin Phone
         /\ user \in [Id!Account -> Id!UserRow] /\ row \in [Id!Subject -> IdRow]
         /\ pending \subseteq Id!Account
         /\ \A s \in Id!Subject : row[s].owner # Nobody => row[s].verified
         /\ \A s \in Id!Subject : row[s].owner \in Id!Account \cup {Nobody}
         /\ ~raced =>
             /\ \A s \in Id!Subject \ {"alipay"}, a \in Id!Account :
                    row[s].owner = a => s \in Id!InColumns(user[a])
             /\ \A s \in Id!Subject \ ({"alipay"} \cup twice), a \in Id!Account, b \in Id!Account :
                    s \in Id!InColumns(user[a]) /\ s \in Id!InColumns(user[b]) => a = b
             /\ \A a \in Id!Account :
                    /\ user[a].status = "none" => user[a] = Id!NoColumns
                    /\ user[a].status = "merged" =>
                           Id!InColumns(user[a]) \subseteq {"google"} /\ ~Id!HasHistory(a)
                    /\ user[a].status \in {"none", "merged"} =>
                           \A s \in Id!Subject : row[s].owner # a
<1>1. Nobody \notin Id!Account /\ Nobody \notin Phone
  BY IdentityAssumption DEF Id!Account
<1>2. /\ user \in [Id!Account -> Id!UserRow] /\ row \in [Id!Subject -> IdRow]
      /\ pending \subseteq Id!Account
      /\ \A s \in Id!Subject : row[s].owner # Nobody => row[s].verified
  BY DEF IdInv, IdType, IdVerified, IdTables, IdRow
<1>3. \A s \in Id!Subject : row[s].owner \in Id!Account \cup {Nobody}
  BY <1>2 DEF IdRow
<1>4. ~raced => IdAgree /\ IdEmpty
  BY DEF IdInv
<1> QED
  BY <1>1, <1>2, <1>3, <1>4 DEF IdAgree, IdEmpty

\* Nothing is in the columns of an account that does not exist.
LEMMA IdNoColumns ==
  /\ Id!NoColumns \in Id!UserRow /\ Id!NoColumns.status = "none" /\ ~Id!NoColumns.email
  /\ \A s \in Id!Subject : s \notin Id!InColumns(Id!NoColumns)
<1>1. /\ Id!NoColumns \in Id!UserRow /\ Id!NoColumns.status = "none" /\ ~Id!NoColumns.email
      /\ Id!NoColumns.phone = Nobody /\ ~Id!NoColumns.wechat /\ ~Id!NoColumns.google
  BY DEF Id!NoColumns, Id!UserRow
<1> QED
  BY <1>1, IdColumn, IdentityAssumption

\* The identities derived from the columns.
LEMMA IdSynced ==
  ASSUME IdInv, NEW a \in Id!Account, NEW u \in Id!UserRow, NEW r \in [Id!Subject -> IdRow],
         \A s \in Id!Subject : r[s].owner # Nobody => r[s].verified,
         Id!InSync(a, u, r)
  PROVE  /\ Id!Synced(a, u, r) \in [Id!Subject -> IdRow]
         /\ \A s \in Id!Subject :
                /\ Id!Synced(a, u, r)[s].owner = IF s \in Id!InColumns(u) THEN a ELSE r[s].owner
                /\ Id!Synced(a, u, r)[s].owner # Nobody => Id!Synced(a, u, r)[s].verified
                /\ s \in Id!InColumns(u) => r[s].owner \in {a, Nobody}
<1>1. [owner |-> a, verified |-> TRUE] \in IdRow
  BY DEF IdRow
<1>2. \A s \in Id!Subject : s \in Id!InColumns(u) => r[s].owner \in {a, Nobody}
  BY DEF Id!InSync
<1>3. Id!Synced(a, u, r) \in [Id!Subject -> IdRow]
  BY <1>1 DEF Id!Synced
<1>4. \A s \in Id!Subject :
          Id!Synced(a, u, r)[s] =
              IF s \in Id!InColumns(u) THEN [owner |-> a, verified |-> TRUE] ELSE r[s]
  BY DEF Id!Synced
<1> QED
  BY <1>2, <1>3, <1>4

\* Tokens are issued, and the identities brought in line with the columns.
LEMMA IdIssueTokens ==
  ASSUME IdInv, NEW a \in Id!Account, Id!IssueTokens(a)
  PROVE  IdInv' /\ Id!AMethodIsLeft
<1>1. /\ pending' = pending \ {a} /\ user' = user
      /\ UNCHANGED <<history, twice, leaving, raced>>
      /\ \/ Id!Active(a) /\ Id!InSync(a, user[a], row) /\ row' = Id!Synced(a, user[a], row)
         \/ row' = row
  BY DEF Id!IssueTokens, Id!joinVars
<1>2. user[a] \in Id!UserRow /\ user' = [user EXCEPT ![a] = user[a]]
  BY <1>1, IdFacts
<1>u. UNCHANGED <<history, twice, leaving, raced>>
  BY <1>1
<1>n. PICK new \in Id!UserRow : new = user[a] /\ user' = [user EXCEPT ![a] = new]
  BY <1>2
<1>3. CASE row' = row
  <2>1. /\ row' \in [Id!Subject -> IdRow] /\ pending' \subseteq Id!Account
        /\ \A s \in Id!Subject : row'[s].owner = row[s].owner
        /\ \A s \in Id!Subject : row'[s].owner # Nobody => row'[s].verified
    BY <1>1, <1>3, IdFacts
  <2>2. ~raced =>
          /\ \A s \in Id!Subject \ {"alipay"} :
                 row'[s].owner = a => s \in Id!InColumns(new)
          /\ \A s \in Id!Subject \ ({"alipay"} \cup twice), b \in Id!Account :
                 s \in Id!InColumns(new) /\ s \in Id!InColumns(user[b]) => b = a
          /\ new.status = "none" => new = Id!NoColumns
          /\ new.status = "merged" => Id!InColumns(new) \subseteq {"google"} /\ ~Id!HasHistory(a)
          /\ new.status \in {"none", "merged"} => \A s \in Id!Subject : row'[s].owner # a
    BY <1>n, <2>1, IdFacts
  <2> QED
    BY <1>u, <1>n, <2>1, <2>2, IdUserStep
<1>4. CASE Id!Active(a) /\ Id!InSync(a, user[a], row) /\ row' = Id!Synced(a, user[a], row)
  <2>1. /\ row' \in [Id!Subject -> IdRow]
        /\ \A s \in Id!Subject :
               /\ row'[s].owner = IF s \in Id!InColumns(user[a]) THEN a ELSE row[s].owner
               /\ row'[s].owner # Nobody => row'[s].verified
               /\ s \in Id!InColumns(user[a]) => row[s].owner \in {a, Nobody}
    BY <1>2, <1>4, IdFacts, IdSynced
  <2>2. user[a].status = "normal"
    BY <1>4 DEF Id!Active
  <2>3. /\ pending' \subseteq Id!Account
        /\ \A s \in Id!Subject :
               row'[s].owner = row[s].owner \/ (row[s].owner = Nobody /\ row'[s].owner = a)
    BY <1>1, <2>1, IdFacts
  <2>4. ~raced =>
          /\ \A s \in Id!Subject \ {"alipay"} :
                 row'[s].owner = a => s \in Id!InColumns(new)
          /\ \A s \in Id!Subject \ ({"alipay"} \cup twice), b \in Id!Account :
                 s \in Id!InColumns(new) /\ s \in Id!InColumns(user[b]) => b = a
          /\ new.status = "none" => new = Id!NoColumns
          /\ new.status = "merged" => Id!InColumns(new) \subseteq {"google"} /\ ~Id!HasHistory(a)
          /\ new.status \in {"none", "merged"} => \A s \in Id!Subject : row'[s].owner # a
    BY <1>n, <2>1, <2>2, IdFacts
  <2> QED
    BY <1>u, <1>n, <2>1, <2>3, <2>4, IdUserStep
<1> QED
  BY <1>1, <1>3, <1>4

\* So does the list of ways to sign in.
LEMMA IdListIdentities ==
  ASSUME IdInv, NEW a \in Id!Account, Id!ListIdentities(a)
  PROVE  IdInv' /\ Id!AMethodIsLeft
<1>1. /\ pending' = pending /\ user' = user
      /\ UNCHANGED <<history, twice, leaving, raced>>
      /\ Id!InSync(a, user[a], row) /\ row' = Id!Synced(a, user[a], row)
      /\ user[a].status = "normal"
  BY DEF Id!ListIdentities, Id!Active, Id!joinVars
<1>2. user[a] \in Id!UserRow /\ user' = [user EXCEPT ![a] = user[a]]
  BY <1>1, IdFacts
<1>3. /\ row' \in [Id!Subject -> IdRow]
      /\ \A s \in Id!Subject :
             /\ row'[s].owner = IF s \in Id!InColumns(user[a]) THEN a ELSE row[s].owner
             /\ row'[s].owner # Nobody => row'[s].verified
             /\ s \in Id!InColumns(user[a]) => row[s].owner \in {a, Nobody}
  BY <1>1, <1>2, IdFacts, IdSynced
<1>4. /\ pending' \subseteq Id!Account
      /\ \A s \in Id!Subject :
             row'[s].owner = row[s].owner \/ (row[s].owner = Nobody /\ row'[s].owner = a)
  BY <1>1, <1>3, IdFacts
<1>u. UNCHANGED <<history, twice, leaving, raced>>
  BY <1>1
<1>5. PICK new \in Id!UserRow : new = user[a] /\ user' = [user EXCEPT ![a] = new]
  BY <1>2
<1>6. ~raced =>
        /\ \A s \in Id!Subject \ {"alipay"} :
               row'[s].owner = a => s \in Id!InColumns(new)
        /\ \A s \in Id!Subject \ ({"alipay"} \cup twice), b \in Id!Account :
               s \in Id!InColumns(new) /\ s \in Id!InColumns(user[b]) => b = a
        /\ new.status = "none" => new = Id!NoColumns
        /\ new.status = "merged" => Id!InColumns(new) \subseteq {"google"} /\ ~Id!HasHistory(a)
        /\ new.status \in {"none", "merged"} => \A s \in Id!Subject : row'[s].owner # a
  BY <1>1, <1>3, <1>5, IdFacts
<1> QED
  BY <1>u, <1>3, <1>4, <1>5, <1>6, IdUserStep

\* The ban and its end touch the status alone.
LEMMA IdRestrict ==
  ASSUME IdInv, NEW a \in Id!Account, Id!Ban(a) \/ Id!Unban(a)
  PROVE  IdInv' /\ Id!AMethodIsLeft
<1>1. PICK st \in {"banned", "normal"} : user' = [user EXCEPT ![a].status = st]
  BY DEF Id!Ban, Id!Unban, Id!joinVars
<1>2. /\ UNCHANGED <<row, history, twice, pending, leaving, raced>>
      /\ user[a].status # "none"
  BY DEF Id!Ban, Id!Unban, Id!joinVars
<1>3. user[a] \in Id!UserRow
  BY IdFacts
<1>4. PICK new : new = [user[a] EXCEPT !.status = st]
  OBVIOUS
<1>5. user' = [user EXCEPT ![a] = new]
  BY <1>1, <1>4
<1>6. /\ new \in Id!UserRow /\ new.status = st /\ new.phone = user[a].phone
      /\ new.wechat = user[a].wechat /\ new.google = user[a].google
  BY <1>3, <1>4 DEF Id!UserRow
<1>7. Id!InColumns(new) = Id!InColumns(user[a])
  BY <1>6 DEF Id!InColumns
<1> QED
  BY <1>2, <1>5, <1>6, <1>7, IdFacts, IdUserStep


\* Whom signing in finds: only the account that has the subject, if one has it.
LEMMA IdFound ==
  ASSUME IdInv, ~raced, NEW s \in Id!Subject, NEW a \in Id!Found(s)
  PROVE  /\ a \in Id!Account
         /\ s # "alipay" /\ s \notin twice =>
                \A b \in Id!Account : s \in Id!InColumns(user[b]) => b = a
         /\ user[a].status # "none"
         /\ user[a].status = "merged" => s = "google"
         /\ s \in Phone => s \in Id!InColumns(user[a])
         /\ s = "alipay" => row[s].owner = a
<1>1. s \in Phone \/ s = "wechat" \/ s = "google" \/ s = "alipay"
  BY DEF Id!Subject
<1>2. s \in Phone => s # "wechat" /\ s # "google" /\ s # "alipay"
  BY IdentityAssumption
<1>3. CASE s = "alipay"
  <2>1. a = row[s].owner /\ a # Nobody
    BY <1>3 DEF Id!Found
  <2>2. a \in Id!Account
    BY <2>1, IdFacts
  <2> QED
    BY <1>2, <1>3, <2>1, <2>2, IdFacts
<1>4. CASE s # "alipay" /\ a \in Id!WithColumn(s)
  <2>1. a \in Id!Account /\ s \in Id!InColumns(user[a])
    BY <1>4 DEF Id!WithColumn
  <2>2. s \notin twice => \A b \in Id!Account : s \in Id!InColumns(user[b]) => b = a
    BY <1>4, <2>1, IdFacts
  <2>3. user[a].status # "none"
    BY <2>1, IdFacts, IdNoColumns
  <2>4. user[a].status = "merged" => s = "google"
    BY <2>1, IdFacts
  <2> QED
    BY <1>4, <2>1, <2>2, <2>3, <2>4
<1>5. CASE s = "google" /\ Id!WithColumn(s) = {}
  <2>1. a \in Id!Account /\ user[a].email
    BY <1>2, <1>5 DEF Id!Found
  <2>2. \A b \in Id!Account : s \notin Id!InColumns(user[b])
    BY <1>5 DEF Id!WithColumn
  <2>3. user[a].status # "none"
    BY <2>1, IdFacts, IdNoColumns
  <2> QED
    BY <1>2, <1>5, <2>1, <2>2, <2>3
<1>6. a \in Id!WithColumn(s) \/ s = "alipay" \/ (s = "google" /\ Id!WithColumn(s) = {})
  BY <1>1, <1>2 DEF Id!Found
<1> QED
  BY <1>3, <1>4, <1>5, <1>6

\* The columns of the account that signing in finds are brought up to date.
LEMMA IdTouch ==
  ASSUME IdInv, NEW s \in Id!Subject, NEW a \in Id!Account, a \in Id!Found(s),
         user' = [user EXCEPT ![a] = Id!SignedIn(user[a], s)],
         row' \in [Id!Subject -> IdRow],
         pending' \subseteq Id!Account,
         UNCHANGED <<history, twice, leaving, raced>>,
         \A x \in Id!Subject :
             row'[x].owner = row[x].owner /\ (row'[x].owner # Nobody => row'[x].verified)
  PROVE  IdInv' /\ Id!AMethodIsLeft
<1>1. PICK new : new = Id!SignedIn(user[a], s)
  OBVIOUS
<1>2. user[a] \in Id!UserRow
  BY IdFacts
<1>3. /\ new \in Id!UserRow /\ new.status = user[a].status
      /\ \A x \in Id!Subject : x \in Id!InColumns(new) =>
             x \in Id!InColumns(user[a]) \/ (x = s /\ s # "alipay")
      /\ \A x \in Id!Subject : x \in Id!InColumns(user[a]) =>
             x \in Id!InColumns(new) \/ (x \in Phone /\ s \in Phone /\ x # s)
  BY <1>1, <1>2, IdSignedIn
<1>4. user' = [user EXCEPT ![a] = new]
  BY <1>1
<1>5. ASSUME ~raced
      PROVE  /\ \A x \in Id!Subject \ {"alipay"} :
                    row'[x].owner = a => x \in Id!InColumns(new)
             /\ \A x \in Id!Subject \ ({"alipay"} \cup twice), b \in Id!Account :
                    x \in Id!InColumns(new) /\ x \in Id!InColumns(user[b]) => b = a
             /\ new.status = "none" => new = Id!NoColumns
             /\ new.status = "merged" => Id!InColumns(new) \subseteq {"google"} /\ ~Id!HasHistory(a)
             /\ new.status \in {"none", "merged"} => \A x \in Id!Subject : row'[x].owner # a
  <2>1. /\ s # "alipay" /\ s \notin twice =>
               \A b \in Id!Account : s \in Id!InColumns(user[b]) => b = a
        /\ user[a].status # "none"
        /\ user[a].status = "merged" => s = "google"
        /\ s \in Phone => s \in Id!InColumns(user[a])
    BY <1>5, IdFound
  <2>2. \A x \in Id!Subject \ {"alipay"} : row'[x].owner = a => x \in Id!InColumns(new)
    <3> SUFFICES ASSUME NEW x \in Id!Subject \ {"alipay"}, row'[x].owner = a
                 PROVE  x \in Id!InColumns(new)
      OBVIOUS
    <3>1. x \in Id!InColumns(user[a])
      BY <1>5, IdFacts
    <3>2. ~(x \in Phone /\ s \in Phone /\ x # s)
      BY <2>1, <3>1, IdColumn
    <3> QED
      BY <1>3, <3>1, <3>2
  <2>3. \A x \in Id!Subject \ ({"alipay"} \cup twice), b \in Id!Account :
            x \in Id!InColumns(new) /\ x \in Id!InColumns(user[b]) => b = a
    BY <1>3, <1>5, <2>1, IdFacts
  <2>4. new.status = "merged" => Id!InColumns(new) \subseteq {"google"} /\ ~Id!HasHistory(a)
    <3> SUFFICES ASSUME new.status = "merged"
                 PROVE  Id!InColumns(new) \subseteq {"google"} /\ ~Id!HasHistory(a)
      OBVIOUS
    <3>1. s = "google" /\ Id!InColumns(user[a]) \subseteq {"google"} /\ ~Id!HasHistory(a)
      BY <1>3, <1>5, <2>1, IdFacts
    <3>2. Id!InColumns(new) \subseteq Id!Subject
      BY DEF Id!InColumns, Id!Subject
    <3> QED
      BY <1>3, <3>1, <3>2
  <2>5. new.status \in {"none", "merged"} => \A x \in Id!Subject : row'[x].owner # a
    BY <1>3, <1>5, <2>1, IdFacts
  <2> QED
    BY <1>3, <2>1, <2>2, <2>3, <2>4, <2>5
<1>6. \A x \in Id!Subject :
          /\ row'[x].owner = row[x].owner \/ (row[x].owner = Nobody /\ row'[x].owner = a)
          /\ row'[x].owner # Nobody => row'[x].verified
  OBVIOUS
<1> QED
  BY <1>3, <1>4, <1>5, <1>6, IdUserStep

\* Signing in brings the columns up to date.
LEMMA IdSignIn ==
  ASSUME IdInv, NEW s \in Id!Subject, Id!SignIn(s)
  PROVE  IdInv' /\ Id!AMethodIsLeft
<1>1. PICK a \in Id!Found(s) :
          /\ user' = [user EXCEPT ![a] = Id!SignedIn(user[a], s)]
          /\ row' = IF s = "alipay" THEN [row EXCEPT ![s].verified = TRUE] ELSE row
          /\ pending' = pending \cup {a}
          /\ UNCHANGED <<history, twice, leaving, raced>>
  BY DEF Id!SignIn, Id!joinVars
<1>2. a \in Id!Account
  BY IdFacts DEF Id!Found, Id!WithColumn
<1>r. /\ row \in [Id!Subject -> IdRow]
      /\ \A x \in Id!Subject : row[x].owner # Nobody => row[x].verified
  BY IdFacts
<1>3. row' \in [Id!Subject -> IdRow]
  <2>1. \A v \in IdRow : [v EXCEPT !.verified = TRUE] \in IdRow
    BY DEF IdRow
  <2>2. row[s] \in IdRow
    BY <1>r
  <2>3. [row EXCEPT ![s].verified = TRUE] = [row EXCEPT ![s] = [row[s] EXCEPT !.verified = TRUE]]
    OBVIOUS
  <2> QED
    BY <1>1, <1>r, <2>1, <2>2, <2>3
<1>4. \A x \in Id!Subject :
          row'[x].owner = row[x].owner /\ (row'[x].owner # Nobody => row'[x].verified)
  <2>1. CASE row' = row
    BY <2>1, IdFacts
  <2>2. CASE row' = [row EXCEPT ![s].verified = TRUE]
    <3>1. \A x \in Id!Subject : row'[x] = IF x = s THEN [row[x] EXCEPT !.verified = TRUE] ELSE row[x]
      BY <1>r, <2>2
    <3>2. \A v \in IdRow : [v EXCEPT !.verified = TRUE].owner = v.owner /\ [v EXCEPT !.verified = TRUE].verified
      BY DEF IdRow
    <3>3. \A x \in Id!Subject : row[x] \in IdRow
      BY <1>r
    <3> QED
      BY <1>r, <3>1, <3>2, <3>3
  <2> QED
    BY <1>1, <2>1, <2>2
<1>5. pending' \subseteq Id!Account
  BY <1>1, <1>2, IdFacts
<1>6. UNCHANGED <<history, twice, leaving, raced>>
  BY <1>1
<1>7. user' = [user EXCEPT ![a] = Id!SignedIn(user[a], s)]
  BY <1>1
<1> QED
  BY <1>2, <1>3, <1>4, <1>5, <1>6, <1>7, IdTouch

\* A subject gets an account, which is there for it alone unless somebody has it.
LEMMA IdRegister ==
  ASSUME IdInv, NEW s \in Id!Subject, Id!Register(s)
  PROVE  IdInv' /\ Id!AMethodIsLeft
<1>1. PICK a \in Id!Free :
          /\ user' = [user EXCEPT ![a] = [Id!SignedIn(user[a], s) EXCEPT !.status = "normal"]]
          /\ row' = IF s = "alipay"
                    THEN [row EXCEPT ![s] = [owner |-> a, verified |-> TRUE]] ELSE row
          /\ pending' = pending \cup {a}
  BY DEF Id!Register
<1>2. /\ Id!Unique(s) /\ UNCHANGED <<history, leaving, raced>>
      /\ twice \subseteq twice' /\ (Id!Found(s) # {} => s \in twice')
  BY DEF Id!Register
<1>3. a \in Id!Account /\ user[a].status = "none" /\ user[a] \in Id!UserRow
  BY IdFacts DEF Id!Free
<1>4. PICK old : old = Id!SignedIn(user[a], s)
  OBVIOUS
<1>5. PICK new : new = [old EXCEPT !.status = "normal"]
  OBVIOUS
<1>6. old \in Id!UserRow
  BY <1>3, <1>4, IdSignedIn
<1>7. /\ new \in Id!UserRow /\ new.status = "normal" /\ new.phone = old.phone
      /\ new.wechat = old.wechat /\ new.google = old.google
  BY <1>5, <1>6 DEF Id!UserRow
<1>8. Id!InColumns(new) = Id!InColumns(old)
  BY <1>7 DEF Id!InColumns
<1>9. user' = [user EXCEPT ![a] = new]
  BY <1>1, <1>4, <1>5
<1>10. s = "alipay" => row[s].owner = Nobody
  BY <1>2 DEF Id!Unique
<1>11. row' \in [Id!Subject -> IdRow]
  BY <1>1, <1>3, IdFacts DEF IdRow
<1>12. \A x \in Id!Subject :
           /\ row'[x].owner = row[x].owner \/ (row[x].owner = Nobody /\ row'[x].owner = a)
           /\ row'[x].owner # Nobody => row'[x].verified
           /\ x # "alipay" => row'[x] = row[x]
  BY <1>1, <1>10, IdFacts
<1>13. ASSUME ~raced
       PROVE  /\ \A x \in Id!Subject \ {"alipay"} :
                    row'[x].owner = a => x \in Id!InColumns(new)
              /\ \A x \in Id!Subject \ ({"alipay"} \cup twice'), b \in Id!Account :
                    x \in Id!InColumns(new) /\ x \in Id!InColumns(user[b]) => b = a
              /\ new.status = "none" => new = Id!NoColumns
              /\ new.status = "merged" => Id!InColumns(new) \subseteq {"google"} /\ ~Id!HasHistory(a)
              /\ new.status \in {"none", "merged"} => \A x \in Id!Subject : row'[x].owner # a
  <2>1. user[a] = Id!NoColumns /\ \A x \in Id!Subject : row[x].owner # a
    BY <1>3, <1>13, IdFacts
  <2>2. \A x \in Id!Subject : x \in Id!InColumns(new) => x = s /\ s # "alipay"
    BY <1>3, <1>4, <1>8, <2>1, IdSignedIn, IdNoColumns
  <2>3. s # "alipay" /\ s \notin twice' => \A b \in Id!Account : s \notin Id!InColumns(user[b])
    BY <1>2 DEF Id!Found, Id!WithColumn
  <2> QED
    BY <1>7, <1>12, <2>1, <2>2, <2>3
<1>14. pending' \subseteq Id!Account
  BY <1>1, <1>3, IdFacts
<1>15. UNCHANGED <<history, leaving, raced>> /\ twice \subseteq twice'
  BY <1>2
<1> QED
  BY <1>3, <1>7, <1>9, <1>11, <1>12, <1>13, <1>14, <1>15, IdJoinStep


\* While a request finds nobody with a subject, or fails to register it, and when an
\* account gets a coupon or a file, the records of the ways to sign in stay.
LEMMA IdAside ==
  ASSUME IdInv, UNCHANGED <<user, row, history, twice, pending, leaving, raced>>
  PROVE  IdInv' /\ Id!AMethodIsLeft
<1>2. IdType'
  BY DEF IdInv, IdType, IdTables, IdLeaving, IdVerified
<1>3. (~raced => IdAgree /\ IdEmpty)' /\ IdApart'
  BY DEF IdInv, IdAgree, IdEmpty, IdApart, Id!InColumns, Id!HasHistory
<1>4. Id!AMethodIsLeft
  BY DEF Id!AMethodIsLeft, Id!Verified, Id!Owned
<1> QED
  BY <1>2, <1>3, <1>4 DEF IdInv

\* Registering with Google what is registered: the account it finds is updated.
LEMMA IdGoogleRegister ==
  ASSUME IdInv, Id!GoogleRegister
  PROVE  IdInv' /\ Id!AMethodIsLeft
<1>1. "google" \in Id!Subject
  BY DEF Id!Subject
<1>2. CASE Id!RegisterBegin("google")
  <2>1. UNCHANGED <<user, row, history, twice, pending, leaving, raced>>
    BY <1>2 DEF Id!RegisterBegin, Id!ownVars
  <2> QED
    BY <2>1, IdAside
<1>3. CASE ~Id!RegisterBegin("google")
  <2>1. PICK a \in Id!Found("google") : user' = [user EXCEPT ![a] = Id!SignedIn(user[a], "google")]
    BY <1>3 DEF Id!GoogleRegister, Id!joinVars
  <2>2. UNCHANGED <<row, history, twice, pending, leaving, raced>>
    BY <1>3 DEF Id!GoogleRegister, Id!joinVars
  <2>3. a \in Id!Account
    BY IdFacts DEF Id!Found, Id!WithColumn
  <2>4. row \in [Id!Subject -> IdRow] /\ pending \subseteq Id!Account
    BY IdFacts
  <2>5. \A x \in Id!Subject : row[x].owner # Nobody => row[x].verified
    BY IdFacts
  <2>6. /\ row' \in [Id!Subject -> IdRow] /\ pending' \subseteq Id!Account
        /\ UNCHANGED <<history, twice, leaving, raced>>
        /\ \A x \in Id!Subject :
             row'[x].owner = row[x].owner /\ (row'[x].owner # Nobody => row'[x].verified)
    BY <2>2, <2>4, <2>5
  <2> QED
    BY <1>1, <2>1, <2>3, <2>6, IdTouch
<1> QED
  BY <1>2, <1>3

\* A subject that is nobody else's is put into the columns.
LEMMA IdPutColumns ==
  ASSUME IdInv, NEW s \in Id!Subject \ {"alipay"}, NEW a \in Id!Account,
         user[a].status = "normal", Id!PutColumns(a, s),
         ~raced => s \in twice \/ \A b \in Id!Account : s \in Id!InColumns(user[b]) => b = a
  PROVE  IdInv' /\ Id!AMethodIsLeft
<1>1. PICK new : new = Id!SignedIn(user[a], s)
  OBVIOUS
<1>2. user[a] \in Id!UserRow
  BY IdFacts
<1>3. /\ new \in Id!UserRow /\ new.status = "normal"
      /\ s \in Id!InColumns(new)
      /\ \A x \in Id!Subject : x \in Id!InColumns(new) => x \in Id!InColumns(user[a]) \/ x = s
      /\ \A x \in Id!Subject : x \in Id!InColumns(user[a]) =>
             x \in Id!InColumns(new) \/ (x \in Phone /\ s \in Phone /\ x # s)
  BY <1>1, <1>2, IdSignedIn
<1>4. /\ Id!InSync(a, new, row) /\ user' = [user EXCEPT ![a] = new]
      /\ row' = Id!Synced(a, new, row)
      /\ UNCHANGED <<history, twice, pending, leaving, raced>>
  BY <1>1 DEF Id!PutColumns, Id!joinVars
<1>5. /\ row' \in [Id!Subject -> IdRow]
      /\ \A x \in Id!Subject :
             /\ row'[x].owner = IF x \in Id!InColumns(new) THEN a ELSE row[x].owner
             /\ row'[x].owner # Nobody => row'[x].verified
             /\ x \in Id!InColumns(new) => row[x].owner \in {a, Nobody}
  BY <1>3, <1>4, IdFacts, IdSynced
<1>6. \A x \in Id!Subject :
          /\ row'[x].owner = row[x].owner \/ (row[x].owner = Nobody /\ row'[x].owner = a)
          /\ row'[x].owner # Nobody => row'[x].verified
  BY <1>5
<1>7. ASSUME ~raced
      PROVE  /\ \A x \in Id!Subject \ {"alipay"} :
                    row'[x].owner = a => x \in Id!InColumns(new)
             /\ \A x \in Id!Subject \ ({"alipay"} \cup twice), b \in Id!Account :
                    x \in Id!InColumns(new) /\ x \in Id!InColumns(user[b]) => b = a
             /\ new.status = "none" => new = Id!NoColumns
             /\ new.status = "merged" => Id!InColumns(new) \subseteq {"google"} /\ ~Id!HasHistory(a)
             /\ new.status \in {"none", "merged"} => \A x \in Id!Subject : row'[x].owner # a
  <2>1. \A x \in Id!Subject \ {"alipay"} : row'[x].owner = a => x \in Id!InColumns(new)
    <3> SUFFICES ASSUME NEW x \in Id!Subject \ {"alipay"}, row'[x].owner = a,
                        x \notin Id!InColumns(new)
                 PROVE  FALSE
      OBVIOUS
    <3>1. row[x].owner = a
      BY <1>5
    <3>2. x \in Id!InColumns(user[a])
      BY <1>7, <3>1, IdFacts
    <3>3. x \in Phone /\ s \in Phone /\ x # s
      BY <1>3, <3>2
    <3>4. Id!Provider(x) = Id!Provider(s)
      BY <3>3 DEF Id!Provider
    <3> QED
      BY <1>3, <1>4, <3>1, <3>3, <3>4 DEF Id!InSync
  <2>2. \A x \in Id!Subject \ ({"alipay"} \cup twice), b \in Id!Account :
            x \in Id!InColumns(new) /\ x \in Id!InColumns(user[b]) => b = a
    BY <1>3, <1>7, IdFacts
  <2> QED
    BY <1>3, <2>1, <2>2
<1>8. pending' \subseteq Id!Account /\ UNCHANGED <<history, twice, leaving, raced>>
  BY <1>4, IdFacts
<1>9. user' = [user EXCEPT ![a] = new]
  BY <1>4
<1>10. row' \in [Id!Subject -> IdRow]
  BY <1>5
<1> QED
  BY <1>3, <1>6, <1>7, <1>8, <1>9, <1>10, IdUserStep

\* A phone number is bound.
LEMMA IdBindPhone ==
  ASSUME IdInv, NEW a \in Id!Account, NEW p \in Phone, Id!BindPhone(a, p)
  PROVE  IdInv' /\ Id!AMethodIsLeft
<1>1. p \in Id!Subject \ {"alipay"}
  BY IdentityAssumption DEF Id!Subject
<1>2. /\ user[a].status = "normal" /\ Id!WithColumn(p) \subseteq {a}
      /\ Id!PutColumns(a, p)
  BY DEF Id!BindPhone, Id!Active
<1>3. \A b \in Id!Account : p \in Id!InColumns(user[b]) => b = a
  BY <1>2 DEF Id!WithColumn
<1> QED
  BY <1>1, <1>2, <1>3, IdPutColumns

\* WeChat or Google is bound.
LEMMA IdBindOther ==
  ASSUME IdInv, NEW a \in Id!Account, Id!BindWechat(a) \/ Id!BindGoogle(a)
  PROVE  IdInv' /\ Id!AMethodIsLeft
<1>1. PICK s \in {"wechat", "google"} :
          /\ user[a].status = "normal" /\ Id!Owners(s) \subseteq {a} /\ Id!PutColumns(a, s)
  BY DEF Id!BindWechat, Id!BindGoogle, Id!Active
<1>2. s \in Id!Subject \ {"alipay"}
  BY DEF Id!Subject
<1>3. ASSUME ~raced, s \notin twice, NEW b \in Id!Account, s \in Id!InColumns(user[b])
      PROVE  b = a
  <2>1. CASE row[s].owner # Nobody
    <3>1. row[s].owner = a
      BY <1>1, <2>1 DEF Id!Owners
    <3>2. s \in Id!InColumns(user[a])
      BY <1>2, <1>3, <3>1, IdFacts
    <3> QED
      BY <1>2, <1>3, <3>2, IdFacts
  <2>2. CASE row[s].owner = Nobody
    BY <1>1, <1>3, <2>2 DEF Id!Owners, Id!WithColumn
  <2> QED
    BY <2>1, <2>2
<1> QED
  BY <1>1, <1>2, <1>3, IdPutColumns

\* Alipay is bound: its row is written, and no column looked up.
LEMMA IdBindAlipay ==
  ASSUME IdInv, NEW a \in Id!Account, Id!BindAlipay(a)
  PROVE  IdInv' /\ Id!AMethodIsLeft
<1>1. /\ user' = [user EXCEPT ![a] = Id!SignedIn(user[a], "alipay")]
      /\ row' = [row EXCEPT !["alipay"] = [owner |-> a, verified |-> TRUE]]
      /\ row["alipay"].owner \in {a, Nobody}
      /\ user[a].status = "normal"
      /\ UNCHANGED <<history, twice, pending, leaving, raced>>
  BY DEF Id!BindAlipay, Id!Active, Id!joinVars
<1>2. PICK new : new = Id!SignedIn(user[a], "alipay")
  OBVIOUS
<1>3. "alipay" \in Id!Subject /\ "alipay" \notin Phone
  BY IdentityAssumption DEF Id!Subject
<1>4. user[a] \in Id!UserRow
  BY IdFacts
<1>5. /\ new \in Id!UserRow /\ new.status = "normal"
      /\ \A x \in Id!Subject : x \in Id!InColumns(new) <=> x \in Id!InColumns(user[a])
  BY <1>1, <1>2, <1>3, <1>4, IdSignedIn
<1>6. row' \in [Id!Subject -> IdRow]
  BY <1>1, <1>3, IdFacts DEF IdRow
<1>7. \A x \in Id!Subject :
          /\ row'[x].owner = row[x].owner \/ (row[x].owner = Nobody /\ row'[x].owner = a)
          /\ row'[x].owner # Nobody => row'[x].verified
          /\ x # "alipay" => row'[x] = row[x]
  BY <1>1, <1>3, IdFacts
<1>8. ASSUME ~raced
      PROVE  /\ \A x \in Id!Subject \ {"alipay"} :
                    row'[x].owner = a => x \in Id!InColumns(new)
             /\ \A x \in Id!Subject \ ({"alipay"} \cup twice), b \in Id!Account :
                    x \in Id!InColumns(new) /\ x \in Id!InColumns(user[b]) => b = a
             /\ new.status = "none" => new = Id!NoColumns
             /\ new.status = "merged" => Id!InColumns(new) \subseteq {"google"} /\ ~Id!HasHistory(a)
             /\ new.status \in {"none", "merged"} => \A x \in Id!Subject : row'[x].owner # a
  BY <1>5, <1>7, <1>8, IdFacts
<1>9. pending' \subseteq Id!Account /\ UNCHANGED <<history, twice, leaving, raced>>
  BY <1>1, IdFacts
<1>10. user' = [user EXCEPT ![a] = new]
  BY <1>1, <1>2
<1>11. \A x \in Id!Subject :
          /\ row'[x].owner = row[x].owner \/ (row[x].owner = Nobody /\ row'[x].owner = a)
          /\ row'[x].owner # Nobody => row'[x].verified
  BY <1>7
<1> QED
  BY <1>5, <1>6, <1>8, <1>9, <1>10, <1>11, IdUserStep


\* Dealing: an active account gets a row in another table, on its own or with another.
LEMMA IdDeal ==
  ASSUME IdInv, NEW a \in Id!Account, NEW b \in Id!Account \cup {Nobody}, a # b,
         user[a].status = "normal", b # Nobody => user[b].status = "normal",
         history' = history \cup {<<a, b>>},
         UNCHANGED <<user, row, twice, pending, leaving, raced>>
  PROVE  IdInv' /\ Id!AMethodIsLeft
<1>1. IdType'
  <2>1. IdTables'
    BY DEF IdInv, IdType, IdTables
  <2>2. (\A l \in leaving : IdLeaving(l))'
    BY DEF IdInv, IdType, IdLeaving
  <2> QED
    BY <2>1, <2>2 DEF IdInv, IdType, IdVerified
<1>2. IdApart'
  BY DEF IdInv, IdApart
<1>3. ASSUME ~raced
      PROVE  IdAgree' /\ IdEmpty'
  <2>1. IdAgree'
    BY <1>3 DEF IdInv, IdAgree, Id!InColumns
  <2>2. \A c \in Id!Account : user[c].status = "merged" => (~Id!HasHistory(c))'
    <3> SUFFICES ASSUME NEW c \in Id!Account, user[c].status = "merged"
                 PROVE  (~Id!HasHistory(c))'
      OBVIOUS
    <3>1. ~Id!HasHistory(c)
      BY <1>3, IdFacts
    <3>2. c # a /\ c # b
      BY IdFacts
    <3> QED
      BY <3>1, <3>2 DEF Id!HasHistory
  <2> QED
    BY <1>3, <2>1, <2>2 DEF IdInv, IdEmpty, Id!InColumns
<1>4. Id!AMethodIsLeft
  BY DEF Id!AMethodIsLeft, Id!Verified, Id!Owned
<1> QED
  BY <1>1, <1>2, <1>3, <1>4 DEF IdInv

\* Dealing on its own ...
LEMMA IdUse ==
  ASSUME IdInv, NEW a \in Id!Account, Id!Use(a)
  PROVE  IdInv' /\ Id!AMethodIsLeft
<1>1. a # Nobody
  BY IdFacts
<1>2. PICK b : b = Nobody
  OBVIOUS
<1>3. /\ user[a].status = "normal" /\ history' = history \cup {<<a, b>>}
      /\ UNCHANGED <<user, row, twice, pending, leaving, raced>>
  BY <1>2 DEF Id!Use, Id!Active, Id!joinVars
<1> QED
  BY <1>1, <1>2, <1>3, IdDeal

\* ... and with another.
LEMMA IdTrade ==
  ASSUME IdInv, NEW a \in Id!Account, NEW b \in Id!Account, Id!Trade(a, b)
  PROVE  IdInv' /\ Id!AMethodIsLeft
<1>1. a # b
  BY IdentityAssumption DEF Id!Trade, Id!Account
<1>2. /\ user[a].status = "normal" /\ user[b].status = "normal"
      /\ history' = history \cup {<<a, b>>}
      /\ UNCHANGED <<user, row, twice, pending, leaving, raced>>
  BY DEF Id!Trade, Id!Active, Id!joinVars
<1> QED
  BY <1>1, <1>2, IdDeal

\* A request reads that its subject is not the only one that is left.
LEMMA IdUnbind ==
  ASSUME IdInv, NEW a \in Id!Account, NEW s \in Id!Subject, Id!Unbind(a, s)
  PROVE  IdInv' /\ Id!AMethodIsLeft
<1>1. /\ user[a].status = "normal" /\ s \in Id!Owned(a) /\ Id!MayUnbind(a, s)
      /\ leaving' = leaving \cup {[account |-> a, subject |-> s, read |-> user[a], rows |-> Id!Owned(a)]}
      /\ UNCHANGED <<user, row, history, twice, pending, raced>>
  BY DEF Id!Unbind, Id!Active, Id!joinVars
<1>2. PICK l : l = [account |-> a, subject |-> s, read |-> user[a], rows |-> Id!Owned(a)]
  OBVIOUS
<1>3. row[s].owner = a /\ row[s].verified
  BY <1>1, IdFacts DEF Id!Owned
<1>4. Id!Verified(a) = Id!Owned(a)
  BY IdFacts DEF Id!Verified, Id!Owned
<1>5. Id!Owned(a) # {s}
  <2>1. Id!Cardinality({s}) = Cardinality({s})
    BY DEF Id!Cardinality, Cardinality
  <2>2. Cardinality({s}) = 1
    BY FS_Singleton
  <2> QED
    BY <1>1, <1>3, <1>4, <2>1, <2>2 DEF Id!MayUnbind
<1>6. IdLeaving(l)
  BY <1>1, <1>2, <1>5, IdFacts DEF IdLeaving
<1>7. IdType'
  <2>1. \A m \in leaving' : IdLeaving(m)
    BY <1>1, <1>2, <1>6 DEF IdInv, IdType
  <2>2. (\A m \in leaving : IdLeaving(m))'
    BY <2>1 DEF IdLeaving
  <2>3. IdTables'
    BY <1>1, <2>1 DEF IdInv, IdType, IdTables, IdLeaving
  <2> QED
    BY <1>1, <2>2, <2>3 DEF IdInv, IdType, IdVerified
<1>8. (~raced => IdAgree /\ IdEmpty)' /\ IdApart'
  BY <1>1 DEF IdInv, IdAgree, IdEmpty, IdApart, Id!InColumns, Id!HasHistory
<1>9. Id!AMethodIsLeft
  BY <1>1 DEF Id!AMethodIsLeft, Id!Verified, Id!Owned
<1> QED
  BY <1>7, <1>8, <1>9 DEF IdInv

\* What was read still holds, or the requests have raced.
LEMMA IdUnbindCommit ==
  ASSUME IdInv, NEW l \in leaving, Id!UnbindCommit(l)
  PROVE  IdInv' /\ Id!AMethodIsLeft
<1>1. PICK a, s : a = l.account /\ s = l.subject
  OBVIOUS
<1>2. /\ user' = [user EXCEPT ![a] = Id!WithoutSubject(user[a], s)]
      /\ row' = [row EXCEPT ![s] = Id!NoOwner]
      /\ leaving' = leaving \ {l}
      /\ raced' = (raced \/ user[a] # l.read \/ Id!Owned(a) # l.rows)
      /\ UNCHANGED <<history, twice, pending>>
  BY <1>1 DEF Id!UnbindCommit, Id!joinVars
<1>3. /\ a \in Id!Account /\ s \in Id!Subject /\ s \in l.rows /\ l.rows # {s}
      /\ l.read.status = "normal"
  BY <1>1 DEF IdInv, IdType, IdLeaving
<1>4. PICK new : new = Id!WithoutSubject(user[a], s)
  OBVIOUS
<1>5. user[a] \in Id!UserRow
  BY <1>3, IdFacts
<1>6. /\ new \in Id!UserRow /\ new.status = user[a].status
      /\ \A x \in Id!Subject : x \in Id!InColumns(new) => x \in Id!InColumns(user[a])
      /\ \A x \in Id!Subject : x \in Id!InColumns(user[a]) =>
             \/ x \in Id!InColumns(new)
             \/ x = s
             \/ x \in Phone /\ s \in Phone
  BY <1>3, <1>4, <1>5, IdWithout
<1>7. /\ user' \in [Id!Account -> Id!UserRow] /\ user'[a] = new
      /\ \A b \in Id!Account : b # a => user'[b] = user[b]
  BY <1>2, <1>3, <1>4, <1>6, IdFacts
<1>8. /\ Id!NoOwner \in IdRow /\ Id!NoOwner.owner = Nobody
  BY DEF Id!NoOwner, IdRow
<1>9. /\ row' \in [Id!Subject -> IdRow] /\ row'[s].owner = Nobody
      /\ \A x \in Id!Subject : x # s => row'[x] = row[x]
  BY <1>2, <1>3, <1>8, IdFacts
<1>10. IdType'
  <2>1. IdTables'
    BY <1>2, <1>7, <1>9 DEF IdInv, IdType, IdTables, IdRow
  <2>2. (\A m \in leaving : IdLeaving(m))'
    BY <1>2 DEF IdInv, IdType, IdLeaving
  <2>3. IdVerified'
    BY <1>9, IdFacts DEF IdVerified
  <2>4. raced' \in BOOLEAN
    BY <1>2 DEF IdInv, IdType
  <2> QED
    BY <2>1, <2>2, <2>3, <2>4 DEF IdType
<1>11. IdApart'
  BY <1>2 DEF IdInv, IdApart
<1>12. ASSUME ~raced'
       PROVE  /\ ~raced /\ user[a].status = "normal" /\ row[s].owner = a
              /\ \E t \in Id!Subject : t # s /\ row[t].owner = a
  <2>1. ~raced /\ user[a] = l.read /\ Id!Owned(a) = l.rows
    BY <1>2, <1>12
  <2> QED
    BY <1>3, <2>1 DEF Id!Owned
<1>13. ASSUME ~raced'
       PROVE  IdAgree'
  <2>1. \A x \in Id!Subject \ {"alipay"}, b \in Id!Account :
            row'[x].owner = b => x \in Id!InColumns(user'[b])
    <3> SUFFICES ASSUME NEW x \in Id!Subject \ {"alipay"}, NEW b \in Id!Account,
                        row'[x].owner = b
                 PROVE  x \in Id!InColumns(user'[b])
      OBVIOUS
    <3>1. x # s /\ row[x].owner = b
      BY <1>9, IdFacts
    <3>2. x \in Id!InColumns(user[b])
      BY <1>12, <1>13, <3>1, IdFacts
    <3>3. CASE b # a
      BY <1>7, <3>2, <3>3
    <3>4. CASE b = a
      <4>1. ~(x \in Phone /\ s \in Phone)
        <5> SUFFICES ASSUME x \in Phone, s \in Phone
                     PROVE  FALSE
          OBVIOUS
        <5>1. s # "alipay"
          BY IdentityAssumption
        <5>2. s \in Id!InColumns(user[a])
          BY <1>3, <1>12, <1>13, <5>1, IdFacts
        <5> QED
          BY <1>3, <3>1, <3>2, <3>4, <5>2, IdColumn
      <4> QED
        BY <1>6, <1>7, <3>1, <3>2, <3>4, <4>1
    <3> QED
      BY <3>3, <3>4
  <2>2. \A x \in Id!Subject \ ({"alipay"} \cup twice), b \in Id!Account, c \in Id!Account :
            x \in Id!InColumns(user'[b]) /\ x \in Id!InColumns(user'[c]) => b = c
    <3>1. \A x \in Id!Subject, b \in Id!Account :
              x \in Id!InColumns(user'[b]) => x \in Id!InColumns(user[b])
      BY <1>6, <1>7
    <3> QED
      BY <1>12, <1>13, <3>1, IdFacts
  <2> QED
    BY <1>2, <2>1, <2>2 DEF IdAgree, Id!InColumns
<1>14. ASSUME ~raced'
       PROVE  IdEmpty'
  <2>1. \A b \in Id!Account :
            /\ user'[b].status = "none" => user'[b] = Id!NoColumns
            /\ user'[b].status = "merged" =>
                   Id!InColumns(user'[b]) \subseteq {"google"} /\ ~Id!HasHistory(b)
            /\ user'[b].status \in {"none", "merged"} =>
                   \A x \in Id!Subject : row'[x].owner # b
    <3> SUFFICES ASSUME NEW b \in Id!Account
                 PROVE  /\ user'[b].status = "none" => user'[b] = Id!NoColumns
                        /\ user'[b].status = "merged" =>
                               Id!InColumns(user'[b]) \subseteq {"google"} /\ ~Id!HasHistory(b)
                        /\ user'[b].status \in {"none", "merged"} =>
                               \A x \in Id!Subject : row'[x].owner # b
      OBVIOUS
    <3>1. CASE b = a
      BY <1>6, <1>7, <1>12, <1>14, <3>1
    <3>2. CASE b # a
      BY <1>7, <1>9, <1>12, <1>14, <3>2, IdFacts
    <3> QED
      BY <3>1, <3>2
  <2> QED
    BY <1>2, <2>1 DEF IdEmpty, Id!HasHistory, Id!InColumns, Id!NoColumns
<1>15. Id!AMethodIsLeft
  <2> SUFFICES ASSUME ~raced', NEW b \in Id!Account, Id!Verified(b) # {}
               PROVE  \E x \in Id!Subject : row'[x].owner = b /\ row'[x].verified
    BY DEF Id!AMethodIsLeft, Id!Verified, Id!Owned
  <2>1. PICK x \in Id!Subject : row[x].owner = b /\ row[x].verified
    BY DEF Id!Verified, Id!Owned
  <2>2. CASE b = a
    <3>1. PICK t \in Id!Subject : t # s /\ row[t].owner = a
      BY <1>12
    <3> QED
      BY <1>9, <2>2, <3>1, IdFacts
  <2>3. CASE b # a
    BY <1>9, <1>12, <2>1, <2>3
  <2> QED
    BY <2>2, <2>3
<1> QED
  BY <1>10, <1>11, <1>12, <1>13, <1>14, <1>15 DEF IdInv


\* What the keeper gets and what the retired account is left with.
LEMMA IdKeeper ==
  ASSUME NEW u \in Id!UserRow, NEW S \in SUBSET Id!Subject
  PROVE  /\ Id!Keeper(u, S) \in Id!UserRow
         /\ Id!Keeper(u, S).status = u.status
         /\ (\A p \in S \cap Phone, q \in S \cap Phone : p = q) =>
                \A s \in Id!Subject \ {"alipay"} : s \in S => s \in Id!InColumns(Id!Keeper(u, S))
         /\ \A s \in Id!Subject : s \in Id!InColumns(Id!Keeper(u, S)) =>
                s \in Id!InColumns(u) \/ (s \in S /\ s # "alipay")
         /\ \A s \in Id!Subject : s \in Id!InColumns(u) =>
                s \in Id!InColumns(Id!Keeper(u, S)) \/ (s \in Phone /\ S \cap Phone # {})
<1>1. PICK ph : ph = IF S \cap Phone # {} THEN CHOOSE p \in S \cap Phone : TRUE ELSE u.phone
  OBVIOUS
<1>2. PICK k : k = Id!Keeper(u, S)
  OBVIOUS
<1>3. u.phone \in Phone \cup {Nobody}
  BY DEF Id!UserRow
<1>4. /\ ph \in Phone \cup {Nobody}
      /\ S \cap Phone # {} => ph \in S \cap Phone
      /\ S \cap Phone = {} => ph = u.phone
  BY <1>1, <1>3
<1>5. k = [u EXCEPT !.phone = ph, !.wechat = u.wechat \/ "wechat" \in S,
                    !.alipay = u.alipay \/ "alipay" \in S, !.google = u.google \/ "google" \in S]
  BY <1>1, <1>2 DEF Id!Keeper
<1>6. /\ k \in Id!UserRow /\ k.status = u.status /\ k.phone = ph
      /\ k.wechat <=> (u.wechat \/ "wechat" \in S)
      /\ k.google <=> (u.google \/ "google" \in S)
  BY <1>4, <1>5 DEF Id!UserRow
<1>7. ASSUME NEW s \in Id!Subject, s \in Phone
      PROVE  /\ (\A p \in S \cap Phone, q \in S \cap Phone : p = q) =>
                    (s \in S => s \in Id!InColumns(k))
             /\ s \in Id!InColumns(k) => s \in Id!InColumns(u) \/ s \in S
             /\ s \in Id!InColumns(u) => s \in Id!InColumns(k) \/ S \cap Phone # {}
             /\ s # "alipay"
  <2>1. s \in Id!InColumns(k) <=> s = ph
    BY <1>6, <1>7, IdColumn
  <2>2. s \in Id!InColumns(u) <=> s = u.phone
    BY <1>7, IdColumn
  <2>3. s # "alipay"
    BY <1>7, IdentityAssumption
  <2> QED
    BY <1>4, <1>7, <2>1, <2>2, <2>3
<1>8. ASSUME NEW s \in Id!Subject, s \notin Phone
      PROVE  /\ s # "alipay" => (s \in Id!InColumns(k) <=> (s \in Id!InColumns(u) \/ s \in S))
             /\ s = "alipay" => s \notin Id!InColumns(k) /\ s \notin Id!InColumns(u)
  <2>1. s = "wechat" \/ s = "google" \/ s = "alipay"
    BY <1>8, IdColumn
  <2>2. CASE s = "wechat"
    BY <1>6, <2>2, IdColumn
  <2>3. CASE s = "google"
    BY <1>6, <2>3, IdColumn
  <2>4. CASE s = "alipay"
    BY <2>4, IdColumn
  <2> QED
    BY <2>1, <2>2, <2>3, <2>4
<1> QED
  BY <1>2, <1>6, <1>7, <1>8

\* The retired account keeps no column that leads to it.
LEMMA IdCleared ==
  ASSUME NEW u \in Id!UserRow, NEW c, c = [Id!Cleared(u) EXCEPT !.status = "merged"]
  PROVE  /\ c \in Id!UserRow /\ c.status = "merged"
         /\ \A s \in Id!Subject : s \notin Id!InColumns(c)
<1>1. PICK d : d = Id!Cleared(u)
  OBVIOUS
<1>2. d \in Id!UserRow /\ d.phone = Nobody /\ ~d.wechat /\ ~d.google
  BY <1>1 DEF Id!Cleared, Id!UserRow
<1>3. c \in Id!UserRow /\ c.status = "merged" /\ c.phone = Nobody /\ ~c.wechat /\ ~c.google
  BY <1>1, <1>2 DEF Id!UserRow
<1> QED
  BY <1>3, IdColumn, IdentityAssumption


\* One account takes over what the other has, r being the identities after those
\* that were missing have been added.
LEMMA IdMerge ==
  ASSUME IdInv, NEW a \in Id!Account, NEW t \in Id!Account, a # t,
         user[a].status = "normal", user[t].status = "normal",
         NEW r \in [Id!Subject -> IdRow],
         \A s \in Id!Subject :
             /\ r[s].owner # Nobody => r[s].verified
             /\ r[s].owner = row[s].owner \/ (row[s].owner = Nobody /\ r[s].owner \in {a, t}),
         ~raced => \A s \in Id!Subject \ {"alipay"}, b \in {a, t} :
                       r[s].owner = b => s \in Id!InColumns(user[b]),
         \A s \in Id!Subject, k \in Id!Subject :
             r[s].owner = a /\ r[k].owner = t => Id!Provider(s) # Id!Provider(k),
         Id!Merged(a, t, r),
         history' \subseteq Id!Account \X (Id!Account \cup {Nobody}),
         \A h \in history' :
             /\ h[1] # h[2] /\ t # h[1] /\ t # h[2]
             /\ \A c \in Id!Account : c # a /\ c \in {h[1], h[2]} => Id!HasHistory(c),
         pending' = pending
  PROVE  IdInv' /\ Id!AMethodIsLeft
<1>1. PICK S : S = Id!OwnedIn(r, t)
  OBVIOUS
<1>2. S \in SUBSET Id!Subject /\ \A s \in Id!Subject : s \in S <=> r[s].owner = t
  BY <1>1 DEF Id!OwnedIn
<1>3. PICK k : k = Id!Keeper(user[a], S)
  OBVIOUS
<1>4. PICK c : c = [Id!Cleared(user[t]) EXCEPT !.status = "merged"]
  OBVIOUS
<1>5. /\ user' = [user EXCEPT ![a] = k, ![t] = c]
      /\ row' = Id!Moved(r, a, t)
      /\ twice' = twice /\ leaving' = leaving /\ raced' = raced
  BY <1>1, <1>3, <1>4 DEF Id!Merged, Id!joinVars
<1>6. user[a] \in Id!UserRow /\ user[t] \in Id!UserRow
  BY IdFacts
<1>7. /\ k \in Id!UserRow /\ k.status = "normal"
      /\ (\A p \in S \cap Phone, q \in S \cap Phone : p = q) =>
             \A s \in Id!Subject \ {"alipay"} : s \in S => s \in Id!InColumns(k)
      /\ \A s \in Id!Subject : s \in Id!InColumns(k) =>
             s \in Id!InColumns(user[a]) \/ (s \in S /\ s # "alipay")
      /\ \A s \in Id!Subject : s \in Id!InColumns(user[a]) =>
             s \in Id!InColumns(k) \/ (s \in Phone /\ S \cap Phone # {})
  BY <1>2, <1>3, <1>6, IdKeeper
<1>8. c \in Id!UserRow /\ c.status = "merged" /\ \A s \in Id!Subject : s \notin Id!InColumns(c)
  BY <1>4, <1>6, IdCleared
<1>9. /\ user' \in [Id!Account -> Id!UserRow] /\ user'[a] = k /\ user'[t] = c
      /\ \A b \in Id!Account : b # a /\ b # t => user'[b] = user[b]
  BY <1>5, <1>7, <1>8, IdFacts
<1>10. \A s \in Id!Subject : row'[s] = IF r[s].owner = t THEN [r[s] EXCEPT !.owner = a] ELSE r[s]
  BY <1>5 DEF Id!Moved
<1>11. \A v \in IdRow : /\ [v EXCEPT !.owner = a] \in IdRow
                        /\ [v EXCEPT !.owner = a].owner = a
                        /\ [v EXCEPT !.owner = a].verified = v.verified
  BY DEF IdRow
<1>12. /\ row' \in [Id!Subject -> IdRow]
       /\ \A s \in Id!Subject :
              /\ row'[s].owner = IF r[s].owner = t THEN a ELSE r[s].owner
              /\ row'[s].owner # Nobody => row'[s].verified
  <2>1. \A s \in Id!Subject : row'[s] \in IdRow
    BY <1>10, <1>11
  <2>2. row' = [s \in Id!Subject |-> IF r[s].owner = t THEN [r[s] EXCEPT !.owner = a] ELSE r[s]]
    BY <1>5 DEF Id!Moved
  <2>3. \A s \in Id!Subject :
              /\ row'[s].owner = IF r[s].owner = t THEN a ELSE r[s].owner
              /\ row'[s].owner # Nobody => row'[s].verified
    <3> SUFFICES ASSUME NEW s \in Id!Subject
                 PROVE  /\ row'[s].owner = IF r[s].owner = t THEN a ELSE r[s].owner
                        /\ row'[s].owner # Nobody => row'[s].verified
      OBVIOUS
    <3>1. r[s] \in IdRow /\ t # Nobody /\ (r[s].owner # Nobody => r[s].verified)
      BY IdFacts
    <3>2. CASE r[s].owner = t
      BY <1>10, <1>11, <3>1, <3>2
    <3>3. CASE r[s].owner # t
      BY <1>10, <3>1, <3>3
    <3> QED
      BY <3>2, <3>3
  <2> QED
    BY <2>1, <2>2, <2>3
<1>13. IdType'
  <2>1. IdTables'
    <3>1. /\ pending' \subseteq Id!Account
          /\ \A l \in leaving' : l.account \in Id!Account /\ l.subject \in Id!Subject
      BY <1>5 DEF IdInv, IdType, IdTables
    <3> QED
      BY <1>9, <1>12, <3>1 DEF IdTables, IdRow
  <2>2. (\A l \in leaving : IdLeaving(l))'
    BY <1>5 DEF IdInv, IdType, IdLeaving
  <2>3. IdVerified'
    BY <1>12 DEF IdVerified
  <2> QED
    BY <1>5, <2>1, <2>2, <2>3 DEF IdInv, IdType
<1>14. IdApart'
  BY DEF IdApart
<1>15. ASSUME ~raced
       PROVE  IdAgree'
  <2>1. \A s \in Id!Subject \ {"alipay"} : s \in S => s \in Id!InColumns(user[t]) /\ s \in Id!InColumns(k)
    <3>1. \A s \in Id!Subject \ {"alipay"} : s \in S => s \in Id!InColumns(user[t])
      BY <1>2, <1>15
    <3>2. S \cap Phone \subseteq Id!Subject \ {"alipay"}
      BY IdentityAssumption DEF Id!Subject
    <3>3. \A p \in S \cap Phone, q \in S \cap Phone : p = q
      BY <3>1, <3>2, IdColumn
    <3> QED
      BY <1>7, <3>1, <3>3
  <2>2. \A s \in Id!Subject \ {"alipay"}, b \in Id!Account :
            row'[s].owner = b => s \in Id!InColumns(user'[b])
    <3> SUFFICES ASSUME NEW s \in Id!Subject \ {"alipay"}, NEW b \in Id!Account,
                        row'[s].owner = b
                 PROVE  s \in Id!InColumns(user'[b])
      OBVIOUS
    <3>1. CASE r[s].owner = t
      BY <1>2, <1>9, <1>12, <2>1, <3>1
    <3>2. CASE r[s].owner = a
      <4>1. b = a /\ s \in Id!InColumns(user[a])
        BY <1>12, <1>15, <3>2
      <4>2. ~(s \in Phone /\ S \cap Phone # {})
        <5> SUFFICES ASSUME NEW p \in S \cap Phone, s \in Phone
                     PROVE  FALSE
          OBVIOUS
        <5>1. Id!Provider(s) = Id!Provider(p)
          BY DEF Id!Provider
        <5> QED
          BY <1>2, <3>2, <5>1
      <4> QED
        BY <1>7, <1>9, <4>1, <4>2
    <3>3. CASE r[s].owner # t /\ r[s].owner # a
      <4>1. row[s].owner = b /\ b # a /\ b # t
        BY <1>12, <3>3, IdFacts
      <4> QED
        BY <1>9, <1>15, <4>1, IdFacts
    <3> QED
      BY <3>1, <3>2, <3>3
  <2>3. \A s \in Id!Subject \ ({"alipay"} \cup twice), b \in Id!Account, d \in Id!Account :
            s \in Id!InColumns(user'[b]) /\ s \in Id!InColumns(user'[d]) => b = d
    <3>1. \A s \in Id!Subject \ {"alipay"}, b \in Id!Account : s \in Id!InColumns(user'[b]) =>
              /\ b # t
              /\ b = a => s \in Id!InColumns(user[a]) \/ s \in Id!InColumns(user[t])
              /\ b # a => s \in Id!InColumns(user[b])
      BY <1>7, <1>8, <1>9, <2>1
    <3> QED
      BY <1>15, <3>1, IdFacts
  <2> QED
    BY <1>5, <2>2, <2>3 DEF IdAgree, Id!InColumns
<1>16. ASSUME ~raced
       PROVE  IdEmpty'
  <2> SUFFICES ASSUME NEW b \in Id!Account
               PROVE  (/\ user[b].status = "none" => user[b] = Id!NoColumns
                       /\ user[b].status = "merged" =>
                              Id!InColumns(user[b]) \subseteq {"google"} /\ ~Id!HasHistory(b)
                       /\ user[b].status \in {"none", "merged"} =>
                              \A s \in Id!Subject : row[s].owner # b)'
    BY DEF IdEmpty
  <2>1. b # a => (~Id!HasHistory(b) => (~Id!HasHistory(b))')
    BY DEF Id!HasHistory
  <2>2. CASE b = a
    BY <1>7, <1>9, <2>2
  <2>3. CASE b = t
    <3>1. user'[b] = c /\ Id!InColumns(c) = {}
      BY <1>8, <1>9, <2>3 DEF Id!InColumns, Id!Subject
    <3>2. (~Id!HasHistory(b))'
      BY <2>3 DEF Id!HasHistory
    <3>3. \A s \in Id!Subject : row'[s].owner # b
      BY <1>12, <2>3
    <3> QED
      BY <1>8, <3>1, <3>2, <3>3 DEF Id!InColumns
  <2>4. CASE b # a /\ b # t
    <3>1. user'[b] = user[b]
      BY <1>9, <2>4
    <3>2. \A s \in Id!Subject : row'[s].owner = b => row[s].owner = b
      BY <1>12, <2>4, IdFacts
    <3>3. /\ user[b].status = "none" => user[b] = Id!NoColumns
          /\ user[b].status = "merged" => Id!InColumns(user[b]) \subseteq {"google"} /\ ~Id!HasHistory(b)
          /\ user[b].status \in {"none", "merged"} => \A s \in Id!Subject : row[s].owner # b
      BY <1>16, IdFacts
    <3>4. Id!InColumns(user'[b]) = Id!InColumns(user[b])
      BY <3>1
    <3> QED
      BY <2>1, <2>4, <3>1, <3>2, <3>3, <3>4 DEF Id!InColumns, Id!NoColumns
  <2> QED
    BY <2>2, <2>3, <2>4
<1>17. Id!AMethodIsLeft
  <2> SUFFICES ASSUME NEW b \in Id!Account, Id!Verified(b) # {}, b # t
               PROVE  \E x \in Id!Subject : row'[x].owner = b /\ row'[x].verified
    BY <1>8, <1>9 DEF Id!AMethodIsLeft, Id!Verified, Id!Owned
  <2>1. PICK x \in Id!Subject : row[x].owner = b
    BY DEF Id!Verified, Id!Owned
  <2>2. r[x].owner = b /\ b # Nobody
    BY <2>1, IdFacts
  <2> QED
    BY <1>12, <2>2
<1> QED
  BY <1>5, <1>13, <1>14, <1>15, <1>16, <1>17 DEF IdInv


\* The owner's merge: the retired account has dealt with nobody.
LEMMA IdMergeOwn ==
  ASSUME IdInv, NEW a \in Id!Account, NEW t \in Id!Account, Id!MergeOwn(a, t)
  PROVE  IdInv' /\ Id!AMethodIsLeft
<1>1. /\ a # t /\ user[a].status = "normal" /\ user[t].status = "normal"
      /\ ~Id!HasHistory(t)
      /\ history' = history /\ pending' = pending
  BY DEF Id!MergeOwn, Id!MayMerge, Id!Active
<1>2. PICK q : q = Id!Synced(t, user[t], row)
  OBVIOUS
<1>3. PICK r : r = Id!Synced(a, user[a], q)
  OBVIOUS
<1>4. /\ Id!InSync(t, user[t], row) /\ Id!InSync(a, user[a], q)
      /\ Id!ProvidersOf(Id!OwnedIn(r, a)) \cap Id!ProvidersOf(Id!OwnedIn(r, t)) = {}
      /\ Id!Merged(a, t, r)
  BY <1>2, <1>3 DEF Id!MergeOwn, Id!BothInSync, Id!Both
<1>5. user[a] \in Id!UserRow /\ user[t] \in Id!UserRow
  BY IdFacts
<1>6. /\ q \in [Id!Subject -> IdRow]
      /\ \A s \in Id!Subject :
             /\ q[s].owner = IF s \in Id!InColumns(user[t]) THEN t ELSE row[s].owner
             /\ q[s].owner # Nobody => q[s].verified
             /\ s \in Id!InColumns(user[t]) => row[s].owner \in {t, Nobody}
  BY <1>2, <1>4, <1>5, IdFacts, IdSynced
<1>7. /\ r \in [Id!Subject -> IdRow]
      /\ \A s \in Id!Subject :
             /\ r[s].owner = IF s \in Id!InColumns(user[a]) THEN a ELSE q[s].owner
             /\ r[s].owner # Nobody => r[s].verified
             /\ s \in Id!InColumns(user[a]) => q[s].owner \in {a, Nobody}
  BY <1>3, <1>4, <1>5, <1>6, IdSynced
<1>8. t # Nobody /\ a # Nobody
  BY IdFacts
<1>9. \A s \in Id!Subject :
          /\ r[s].owner # Nobody => r[s].verified
          /\ r[s].owner = row[s].owner \/ (row[s].owner = Nobody /\ r[s].owner \in {a, t})
  BY <1>1, <1>6, <1>7, <1>8
<1>10. ~raced => \A s \in Id!Subject \ {"alipay"}, b \in {a, t} :
                     r[s].owner = b => s \in Id!InColumns(user[b])
  BY <1>1, <1>6, <1>7, IdFacts
<1>11. \A s \in Id!Subject, k \in Id!Subject :
           r[s].owner = a /\ r[k].owner = t => Id!Provider(s) # Id!Provider(k)
  BY <1>4 DEF Id!ProvidersOf, Id!OwnedIn
<1>12. /\ history' \subseteq Id!Account \X (Id!Account \cup {Nobody})
       /\ \A h \in history' :
             /\ h[1] # h[2] /\ t # h[1] /\ t # h[2]
             /\ \A c \in Id!Account : c # a /\ c \in {h[1], h[2]} => Id!HasHistory(c)
  BY <1>1 DEF IdInv, IdType, IdTables, IdApart, Id!HasHistory
<1> QED
  BY <1>1, <1>4, <1>7, <1>9, <1>10, <1>11, <1>12, IdMerge

\* The identities that are missing are added.
LEMMA IdBackfilled ==
  ASSUME NEW a \in Id!Account, NEW u, NEW r \in [Id!Subject -> IdRow],
         \A s \in Id!Subject : r[s].owner # Nobody => r[s].verified
  PROVE  /\ Id!Backfilled(a, u, r) \in [Id!Subject -> IdRow]
         /\ \A s \in Id!Subject :
                /\ Id!Backfilled(a, u, r)[s].owner =
                       IF s \in Id!InColumns(u) /\ r[s].owner = Nobody THEN a ELSE r[s].owner
                /\ Id!Backfilled(a, u, r)[s].owner # Nobody => Id!Backfilled(a, u, r)[s].verified
<1>1. [owner |-> a, verified |-> TRUE] \in IdRow
  BY DEF IdRow
<1>2. PICK b : b = Id!Backfilled(a, u, r)
  OBVIOUS
<1>3. b \in [Id!Subject -> IdRow]
  BY <1>1, <1>2 DEF Id!Backfilled
<1>4. \A s \in Id!Subject :
          b[s] = IF s \in Id!InColumns(u) /\ r[s].owner = Nobody
                 THEN [owner |-> a, verified |-> TRUE] ELSE r[s]
  BY <1>2 DEF Id!Backfilled
<1> QED
  BY <1>2, <1>3, <1>4

\* The administrator's merge takes the history along: what two accounts did with
\* each other would be left with one.
LEMMA IdMergeByAdmin ==
  ASSUME IdInv, NEW a \in Id!Account, NEW t \in Id!Account, Id!MergeByAdmin(a, t)
  PROVE  IdInv' /\ Id!AMethodIsLeft
<1>1. /\ a # t /\ user[a].status = "normal" /\ user[t].status = "normal"
      /\ ~Id!Counterparts(a, t)
      /\ history' = Id!Migrated(history, a, t) /\ pending' = pending
  BY DEF Id!MergeByAdmin, Id!Active
<1>2. PICK q : q = Id!Backfilled(t, user[t], row)
  OBVIOUS
<1>3. PICK r : r = Id!Backfilled(a, user[a], q)
  OBVIOUS
<1>4. /\ \A s \in Id!OwnedIn(r, t), k \in Id!OwnedIn(r, a) :
             Id!Provider(s) = Id!Provider(k) => s = k
      /\ Id!Merged(a, t, r)
  BY <1>2, <1>3 DEF Id!MergeByAdmin
<1>5. /\ q \in [Id!Subject -> IdRow]
      /\ \A s \in Id!Subject :
             /\ q[s].owner = IF s \in Id!InColumns(user[t]) /\ row[s].owner = Nobody
                             THEN t ELSE row[s].owner
             /\ q[s].owner # Nobody => q[s].verified
  BY <1>2, IdFacts, IdBackfilled
<1>6. /\ r \in [Id!Subject -> IdRow]
      /\ \A s \in Id!Subject :
             /\ r[s].owner = IF s \in Id!InColumns(user[a]) /\ q[s].owner = Nobody
                             THEN a ELSE q[s].owner
             /\ r[s].owner # Nobody => r[s].verified
  BY <1>3, <1>5, IdBackfilled
<1>7. t # Nobody /\ a # Nobody
  BY IdFacts
<1>8. \A s \in Id!Subject :
          /\ r[s].owner # Nobody => r[s].verified
          /\ r[s].owner = row[s].owner \/ (row[s].owner = Nobody /\ r[s].owner \in {a, t})
  BY <1>5, <1>6, <1>7
<1>9. ~raced => \A s \in Id!Subject \ {"alipay"}, b \in {a, t} :
                    r[s].owner = b => s \in Id!InColumns(user[b])
  BY <1>1, <1>5, <1>6, IdFacts
<1>10. \A s \in Id!Subject, k \in Id!Subject :
           r[s].owner = a /\ r[k].owner = t => Id!Provider(s) # Id!Provider(k)
  BY <1>1, <1>4 DEF Id!OwnedIn
<1>11. history \subseteq Id!Account \X (Id!Account \cup {Nobody})
  BY DEF IdInv, IdType, IdTables
<1>12. ASSUME NEW h \in history'
       PROVE  /\ h \in Id!Account \X (Id!Account \cup {Nobody})
              /\ h[1] # h[2] /\ t # h[1] /\ t # h[2]
              /\ \A c \in Id!Account : c # a /\ c \in {h[1], h[2]} => Id!HasHistory(c)
  <2>1. PICK e \in history : h = <<IF e[1] = t THEN a ELSE e[1], IF e[2] = t THEN a ELSE e[2]>>
    BY <1>1 DEF Id!Migrated
  <2>2. /\ e \in Id!Account \X (Id!Account \cup {Nobody}) /\ e[1] # e[2]
        /\ {e[1], e[2]} # {a, t}
    BY <1>1, <1>11 DEF IdInv, IdApart, Id!Counterparts
  <2>3. /\ h[1] = IF e[1] = t THEN a ELSE e[1]
        /\ h[2] = IF e[2] = t THEN a ELSE e[2]
    BY <2>1
  <2>4. h \in Id!Account \X (Id!Account \cup {Nobody})
    BY <2>1, <2>2
  <2>5. h[1] # h[2]
    BY <2>2, <2>3
  <2>6. t # h[1] /\ t # h[2]
    BY <1>1, <2>3
  <2>7. \A c \in Id!Account : c # a /\ c \in {h[1], h[2]} => Id!HasHistory(c)
    BY <2>3 DEF Id!HasHistory
  <2> QED
    BY <2>4, <2>5, <2>6, <2>7
<1>13. history' \subseteq Id!Account \X (Id!Account \cup {Nobody})
  BY <1>12
<1> QED
  BY <1>1, <1>4, <1>6, <1>8, <1>9, <1>10, <1>12, <1>13, IdMerge


\* To begin with there is no account, no identity and no history.
LEMMA IdInit == Id!Init => IdInv
<1> SUFFICES ASSUME Id!Init PROVE IdInv
  OBVIOUS
<1>1. /\ user = [a \in Id!Account |-> Id!NoColumns] /\ row = [s \in Id!Subject |-> Id!NoOwner]
      /\ history = {} /\ pending = {} /\ leaving = {} /\ raced = FALSE
  BY DEF Id!Init
<1>2. Nobody \notin Id!Account
  BY IdentityAssumption DEF Id!Account
<1>3. /\ user \in [Id!Account -> Id!UserRow] /\ row \in [Id!Subject -> IdRow]
      /\ \A a \in Id!Account : user[a] = Id!NoColumns
      /\ \A s \in Id!Subject : row[s].owner = Nobody
  BY <1>1, IdNoColumns DEF Id!NoOwner, IdRow
<1>4. IdType /\ IdApart
  BY <1>1, <1>3 DEF IdType, IdApart, IdVerified, IdRow, IdTables
<1>5. IdAgree
  BY <1>2, <1>3, IdNoColumns DEF IdAgree
<1>6. IdEmpty
  BY <1>2, <1>3, IdNoColumns DEF IdEmpty
<1> QED
  BY <1>4, <1>5, <1>6 DEF IdInv

\* What the invariant is about stays.
LEMMA IdStutter == IdInv /\ UNCHANGED Id!vars => IdInv' /\ Id!AMethodIsLeft
<1> SUFFICES ASSUME IdInv, UNCHANGED Id!vars PROVE IdInv' /\ Id!AMethodIsLeft
  OBVIOUS
<1>1. UNCHANGED <<user, row, history, twice, pending, leaving, raced>>
  BY DEF Id!vars, Id!ownVars, Id!joinVars
<1> QED
  BY <1>1, IdAside

\* Every step of Identities keeps the invariant, and a method.
LEMMA IdStep == IdInv /\ Id!Next => IdInv' /\ Id!AMethodIsLeft
<1> SUFFICES ASSUME IdInv, Id!Next PROVE IdInv' /\ Id!AMethodIsLeft
  OBVIOUS
<1>1. Phone \cup {"wechat", "google", "alipay"} = Id!Subject
  BY DEF Id!Subject
<1>2. ASSUME NEW s \in Id!Subject, Id!SignIn(s) PROVE IdInv' /\ Id!AMethodIsLeft
  BY <1>2, IdSignIn
<1>3. ASSUME NEW s \in Id!Subject, Id!Register(s) PROVE IdInv' /\ Id!AMethodIsLeft
  BY <1>3, IdRegister
<1>b. ASSUME NEW s \in Id!Subject, Id!RegisterBegin(s) \/ Id!RegisterFails(s)
      PROVE  IdInv' /\ Id!AMethodIsLeft
  <2>1. UNCHANGED <<user, row, history, twice, pending, leaving, raced>>
    BY <1>b DEF Id!RegisterBegin, Id!RegisterFails
  <2> QED
    BY <2>1, IdAside
<1>c. ASSUME NEW a \in Id!Account, Id!Acquire(a)
      PROVE  IdInv' /\ Id!AMethodIsLeft
  <2>1. UNCHANGED <<user, row, history, twice, pending, leaving, raced>>
    BY <1>c DEF Id!Acquire, Id!joinVars
  <2> QED
    BY <2>1, IdAside
<1>4. CASE Id!GoogleRegister
  BY <1>4, IdGoogleRegister
<1>5. ASSUME NEW a \in Id!Account,
             \/ Id!IssueTokens(a) \/ Id!ListIdentities(a)
             \/ Id!Ban(a) \/ Id!Unban(a) \/ Id!Use(a)
             \/ Id!BindWechat(a) \/ Id!BindGoogle(a) \/ Id!BindAlipay(a)
      PROVE  IdInv' /\ Id!AMethodIsLeft
  BY <1>5, IdIssueTokens, IdListIdentities, IdRestrict, IdUse, IdBindOther, IdBindAlipay
<1>6. ASSUME NEW a \in Id!Account, NEW p \in Phone, Id!BindPhone(a, p)
      PROVE  IdInv' /\ Id!AMethodIsLeft
  BY <1>6, IdBindPhone
<1>7. ASSUME NEW a \in Id!Account, NEW s \in Id!Subject, Id!Unbind(a, s)
      PROVE  IdInv' /\ Id!AMethodIsLeft
  BY <1>7, IdUnbind
<1>8. ASSUME NEW a \in Id!Account, NEW t \in Id!Account,
             \/ Id!MergeByPhone(a, t) \/ Id!MergeByIdentity(a, t) \/ Id!MergeByAdmin(a, t)
             \/ Id!Trade(a, t)
      PROVE  IdInv' /\ Id!AMethodIsLeft
  BY <1>8, IdMergeOwn, IdMergeByAdmin, IdTrade DEF Id!MergeByPhone, Id!MergeByIdentity
<1>9. ASSUME NEW l \in leaving, Id!UnbindCommit(l)
      PROVE  IdInv' /\ Id!AMethodIsLeft
  BY <1>9, IdUnbindCommit
<1> QED
  BY <1>1, <1>2, <1>3, <1>b, <1>c, <1>4, <1>5, <1>6, <1>7, <1>8, <1>9
  DEF Id!Next, Id!LoginByPhone, Id!RegisterByPhone, Id!WechatLogin, Id!AlipayLogin, Id!GoogleLogin

-----------------------------------------------------------------------------
\* Beside the records of the ways to sign in: what the accounts own, and the requests
\* that register.
IdJoining == joining \in [Id!Subject -> 0..MaxJoining] /\ twice \subseteq {"wechat", "google"}

\* Only its owner's merge leaves something on a retired account.
IdStranded ==
    \A a \in Id!Account : user[a].status = "merged" /\ a \in belongings => a \in retired

IdMore ==
    /\ belongings \subseteq Id!Account /\ retired \subseteq Id!Account
    /\ IdJoining /\ IdStranded

IdAll == IdInv /\ IdMore

\* What is owned stays where it is, and no account is retired.
LEMMA IdMoreKeeps ==
  ASSUME IdMore, UNCHANGED <<belongings, retired>>, IdJoining',
         \A a \in Id!Account : user'[a].status = "merged" => user[a].status = "merged"
  PROVE  IdMore'
  BY DEF IdMore, IdStranded

\* No account is retired when one row is written and keeps its status.
LEMMA IdOneStatus ==
  ASSUME IdInv, NEW a \in Id!Account, NEW new, user' = [user EXCEPT ![a] = new],
         new.status = user[a].status
  PROVE  \A b \in Id!Account : user'[b].status = "merged" => user[b].status = "merged"
<1>1. \A b \in Id!Account : user'[b] = IF b = a THEN new ELSE user[b]
  BY IdFacts
<1> QED
  BY <1>1

\* Steps that only put a subject into the columns, or none.
LEMMA IdMoreSigned ==
  ASSUME IdAll, NEW a \in Id!Account, NEW s \in Id!Subject,
         user' = user \/ user' = [user EXCEPT ![a] = Id!SignedIn(user[a], s)],
         UNCHANGED <<belongings, retired, joining, twice>>
  PROVE  IdMore'
<1>1. user[a] \in Id!UserRow
  BY IdFacts DEF IdAll
<1>2. Id!SignedIn(user[a], s).status = user[a].status
  BY <1>1, IdSignedIn
<1>3. IdJoining'
  BY DEF IdAll, IdMore, IdJoining
<1>4. \A b \in Id!Account : user'[b].status = "merged" => user[b].status = "merged"
  <2>1. CASE user' = user
    BY <2>1
  <2>2. CASE user' = [user EXCEPT ![a] = Id!SignedIn(user[a], s)]
    BY <1>2, <2>2, IdOneStatus DEF IdAll
  <2> QED
    BY <2>1, <2>2
<1> QED
  BY <1>3, <1>4, IdMoreKeeps DEF IdAll

\* The requests that register are counted.
LEMMA IdMoreJoin ==
  ASSUME IdAll, NEW s \in Id!Subject, Id!RegisterBegin(s) \/ Id!RegisterFails(s)
  PROVE  IdMore'
<1>1. /\ UNCHANGED <<user, belongings, retired, twice>>
      /\ \/ joining[s] < MaxJoining /\ joining' = [joining EXCEPT ![s] = joining[s] + 1]
         \/ joining[s] > 0 /\ joining' = [joining EXCEPT ![s] = joining[s] - 1]
  BY DEF Id!RegisterBegin, Id!RegisterFails, Id!ownVars
<1>2. MaxJoining \in Nat /\ joining \in [Id!Subject -> 0..MaxJoining]
  BY IdentityAssumption DEF IdAll, IdMore, IdJoining
<1>3. joining' \in [Id!Subject -> 0..MaxJoining]
  BY <1>1, <1>2
<1>4. IdJoining'
  BY <1>1, <1>3 DEF IdAll, IdMore, IdJoining
<1> QED
  BY <1>1, <1>4, IdMoreKeeps DEF IdAll

\* A new account is not retired; its coupon is its own.
LEMMA IdMoreRegister ==
  ASSUME IdAll, NEW s \in Id!Subject, Id!Register(s)
  PROVE  IdMore'
<1>1. PICK a \in Id!Free :
          /\ user' = [user EXCEPT ![a] = [Id!SignedIn(user[a], s) EXCEPT !.status = "normal"]]
          /\ belongings' = belongings \cup {a}
  BY DEF Id!Register
<1>2. /\ joining[s] > 0 /\ joining' = [joining EXCEPT ![s] = joining[s] - 1]
      /\ twice' = IF Id!Found(s) # {} THEN twice \cup {s} ELSE twice
      /\ retired' = retired /\ Id!Unique(s)
  BY DEF Id!Register
<1>3. MaxJoining \in Nat /\ joining \in [Id!Subject -> 0..MaxJoining]
  BY IdentityAssumption DEF IdAll, IdMore, IdJoining
<1>4. joining' \in [Id!Subject -> 0..MaxJoining]
  BY <1>2, <1>3
<1>5. Id!Found(s) # {} => s \in {"wechat", "google"}
  <2>1. s \in Phone \/ s = "wechat" \/ s = "google" \/ s = "alipay"
    BY DEF Id!Subject
  <2>2. s \in Phone => s # "google" /\ s # "alipay"
    BY IdentityAssumption
  <2>3. s \in Phone => Id!Found(s) = {}
    BY <1>2, <2>2 DEF Id!Unique, Id!Found
  <2>4. s = "alipay" => Id!Found(s) = {}
    BY <1>2 DEF Id!Unique, Id!Found
  <2> QED
    BY <2>1, <2>3, <2>4
<1>6. IdJoining'
  BY <1>2, <1>4, <1>5 DEF IdAll, IdMore, IdJoining
<1>7. a \in Id!Account /\ user[a] \in Id!UserRow
  BY IdFacts DEF IdAll, Id!Free
<1>8. PICK new : new = [Id!SignedIn(user[a], s) EXCEPT !.status = "normal"]
  OBVIOUS
<1>9. new.status = "normal"
  BY <1>7, <1>8, IdSignedIn DEF Id!UserRow
<1>10. \A b \in Id!Account : user'[b] = IF b = a THEN new ELSE user[b]
  BY <1>1, <1>7, <1>8, IdFacts DEF IdAll
<1>11. IdStranded'
  BY <1>1, <1>2, <1>9, <1>10 DEF IdAll, IdMore, IdStranded
<1>12. belongings' \subseteq Id!Account /\ retired' \subseteq Id!Account
  BY <1>1, <1>2, <1>7 DEF IdAll, IdMore
<1> QED
  BY <1>6, <1>11, <1>12 DEF IdMore

\* The ban and its end: the account no longer counts as retired.
LEMMA IdMoreRestrict ==
  ASSUME IdAll, NEW a \in Id!Account, Id!Ban(a) \/ Id!Unban(a)
  PROVE  IdMore'
<1>1. PICK st \in {"banned", "normal"} : user' = [user EXCEPT ![a].status = st]
  BY DEF Id!Ban, Id!Unban
<1>2. retired' = retired \ {a} /\ UNCHANGED <<belongings, joining, twice>>
  BY DEF Id!Ban, Id!Unban, Id!joinVars
<1>3. PICK new : new = [user[a] EXCEPT !.status = st]
  OBVIOUS
<1>4. user[a] \in Id!UserRow
  BY IdFacts DEF IdAll
<1>5. new.status = st
  BY <1>3, <1>4 DEF Id!UserRow
<1>6. \A b \in Id!Account : user'[b] = IF b = a THEN new ELSE user[b]
  BY <1>1, <1>3, IdFacts DEF IdAll
<1>7. IdStranded'
  BY <1>2, <1>5, <1>6 DEF IdAll, IdMore, IdStranded
<1> QED
  BY <1>2, <1>7 DEF IdAll, IdMore, IdJoining

\* A subject is taken out of the columns.
LEMMA IdMoreUnbind ==
  ASSUME IdAll, NEW l \in leaving, Id!UnbindCommit(l)
  PROVE  IdMore'
<1>1. PICK a, s : a = l.account /\ s = l.subject
  OBVIOUS
<1>2. /\ user' = [user EXCEPT ![a] = Id!WithoutSubject(user[a], s)]
      /\ UNCHANGED <<belongings, retired, joining, twice>>
  BY <1>1 DEF Id!UnbindCommit, Id!ownVars, Id!joinVars
<1>3. a \in Id!Account /\ s \in Id!Subject
  BY <1>1 DEF IdAll, IdInv, IdType, IdLeaving
<1>4. user[a] \in Id!UserRow
  BY <1>3, IdFacts DEF IdAll
<1>5. Id!WithoutSubject(user[a], s).status = user[a].status
  BY <1>3, <1>4, IdWithout
<1>6. \A b \in Id!Account : user'[b].status = "merged" => user[b].status = "merged"
  BY <1>2, <1>3, <1>5, IdOneStatus DEF IdAll
<1>7. IdJoining'
  BY <1>2 DEF IdAll, IdMore, IdJoining
<1> QED
  BY <1>2, <1>6, <1>7, IdMoreKeeps DEF IdAll

\* What a merge does to the statuses.
LEMMA IdMergedStatus ==
  ASSUME IdInv, NEW a \in Id!Account, NEW t \in Id!Account, NEW r, a # t, Id!Merged(a, t, r),
         user[a].status = "normal"
  PROVE  \A b \in Id!Account : user'[b].status = "merged" => b = t \/ user[b].status = "merged"
<1>1. PICK k : k = Id!Keeper(user[a], Id!OwnedIn(r, t))
  OBVIOUS
<1>2. PICK c : c = [Id!Cleared(user[t]) EXCEPT !.status = "merged"]
  OBVIOUS
<1>3. user' = [user EXCEPT ![a] = k, ![t] = c]
  BY <1>1, <1>2 DEF Id!Merged
<1>4. user[a] \in Id!UserRow
  BY IdFacts
<1>5. Id!OwnedIn(r, t) \in SUBSET Id!Subject
  BY DEF Id!OwnedIn
<1>6. k.status = "normal"
  BY <1>1, <1>4, <1>5, IdKeeper
<1>7. \A b \in Id!Account : b # t => user'[b] = IF b = a THEN k ELSE user[b]
  BY <1>3, IdFacts
<1> QED
  BY <1>6, <1>7

\* The owner's merge leaves behind what it does not look at ...
LEMMA IdMoreMergeOwn ==
  ASSUME IdAll, NEW a \in Id!Account, NEW t \in Id!Account, Id!MergeOwn(a, t)
  PROVE  IdMore'
<1>1. PICK r : r = Id!Both(a, t)
  OBVIOUS
<1>2. /\ a # t /\ user[a].status = "normal" /\ Id!Merged(a, t, r)
      /\ retired' = retired \cup {t} /\ belongings' = belongings
  BY <1>1 DEF Id!MergeOwn, Id!MayMerge, Id!Active
<1>3. UNCHANGED <<joining, twice>>
  BY <1>2 DEF Id!Merged, Id!joinVars
<1>4. \A b \in Id!Account : user'[b].status = "merged" => b = t \/ user[b].status = "merged"
  BY <1>2, IdMergedStatus DEF IdAll
<1>5. IdStranded'
  BY <1>2, <1>4 DEF IdAll, IdMore, IdStranded
<1> QED
  BY <1>2, <1>3, <1>5 DEF IdAll, IdMore, IdJoining

\* ... and the administrator's takes everything along.
LEMMA IdMoreMergeByAdmin ==
  ASSUME IdAll, NEW a \in Id!Account, NEW t \in Id!Account, Id!MergeByAdmin(a, t)
  PROVE  IdMore'
<1>1. PICK r : r = Id!Backfilled(a, user[a], Id!Backfilled(t, user[t], row))
  OBVIOUS
<1>2. /\ a # t /\ user[a].status = "normal" /\ Id!Merged(a, t, r) /\ retired' = retired
      /\ belongings' = {IF x = t THEN a ELSE x : x \in belongings}
  BY <1>1 DEF Id!MergeByAdmin, Id!Active
<1>3. UNCHANGED <<joining, twice>>
  BY <1>2 DEF Id!Merged, Id!joinVars
<1>4. \A b \in Id!Account : user'[b].status = "merged" => b = t \/ user[b].status = "merged"
  BY <1>2, IdMergedStatus DEF IdAll
<1>5. /\ t \notin belongings'
      /\ \A b \in belongings' : b = a \/ b \in belongings
  BY <1>2
<1>6. user'[a].status # "merged"
  BY <1>2, <1>4
<1>7. IdStranded'
  BY <1>2, <1>4, <1>5, <1>6 DEF IdAll, IdMore, IdStranded
<1>8. belongings' \subseteq Id!Account
  BY <1>5 DEF IdAll, IdMore
<1> QED
  BY <1>2, <1>3, <1>7, <1>8 DEF IdAll, IdMore, IdJoining

\* A coupon or a file comes to an active account.
LEMMA IdMoreAcquire ==
  ASSUME IdAll, NEW a \in Id!Account, Id!Acquire(a)
  PROVE  IdMore'
<1>1. /\ user[a].status = "normal" /\ belongings' = belongings \cup {a}
      /\ UNCHANGED <<user, retired, joining, twice>>
  BY DEF Id!Acquire, Id!Active, Id!joinVars
<1>2. IdStranded'
  BY <1>1 DEF IdAll, IdMore, IdStranded
<1> QED
  BY <1>1, <1>2 DEF IdAll, IdMore, IdJoining

\* Every step keeps that, too.
LEMMA IdMoreStep == IdAll /\ Id!Next => IdMore'
<1> SUFFICES ASSUME IdAll, Id!Next PROVE IdMore'
  OBVIOUS
<1>1. Phone \cup {"wechat", "google", "alipay"} = Id!Subject
  BY DEF Id!Subject
<1>2. ASSUME NEW s \in Id!Subject, Id!SignIn(s) PROVE IdMore'
  <2>1. PICK a \in Id!Found(s) :
            /\ user' = [user EXCEPT ![a] = Id!SignedIn(user[a], s)]
            /\ UNCHANGED <<belongings, retired, joining, twice>>
    BY <1>2 DEF Id!SignIn, Id!ownVars, Id!joinVars
  <2>2. a \in Id!Account
    BY <1>2, IdFacts DEF IdAll, Id!Found, Id!WithColumn
  <2> QED
    BY <2>1, <2>2, IdMoreSigned
<1>3. ASSUME NEW s \in Id!Subject, Id!RegisterBegin(s) \/ Id!RegisterFails(s) PROVE IdMore'
  BY <1>3, IdMoreJoin
<1>4. ASSUME NEW s \in Id!Subject, Id!Register(s) PROVE IdMore'
  BY <1>4, IdMoreRegister
<1>5. CASE Id!GoogleRegister
  <2>0. "google" \in Id!Subject
    BY DEF Id!Subject
  <2>1. CASE Id!RegisterBegin("google")
    BY <2>0, <2>1, IdMoreJoin
  <2>2. CASE ~Id!RegisterBegin("google")
    <3>1. PICK a \in Id!Found("google") : user' = [user EXCEPT ![a] = Id!SignedIn(user[a], "google")]
      BY <1>5, <2>2 DEF Id!GoogleRegister
    <3>2. UNCHANGED <<belongings, retired, joining, twice>>
      BY <1>5, <2>2 DEF Id!GoogleRegister, Id!ownVars, Id!joinVars
    <3>3. a \in Id!Account
      BY IdFacts DEF IdAll, Id!Found, Id!WithColumn
    <3> QED
      BY <2>0, <3>1, <3>2, <3>3, IdMoreSigned
  <2> QED
    BY <2>1, <2>2
<1>6. ASSUME NEW a \in Id!Account, Id!IssueTokens(a) \/ Id!ListIdentities(a) \/ Id!Use(a)
      PROVE  IdMore'
  <2>1. UNCHANGED <<user, belongings, retired, joining, twice>>
    BY <1>6 DEF Id!IssueTokens, Id!ListIdentities, Id!Use, Id!ownVars, Id!joinVars
  <2>2. "google" \in Id!Subject
    BY DEF Id!Subject
  <2> QED
    BY <2>1, <2>2, IdMoreSigned
<1>7. ASSUME NEW a \in Id!Account, NEW t \in Id!Account, Id!Trade(a, t)
      PROVE  IdMore'
  <2>1. UNCHANGED <<user, belongings, retired, joining, twice>>
    BY <1>7 DEF Id!Trade, Id!ownVars, Id!joinVars
  <2>2. "google" \in Id!Subject
    BY DEF Id!Subject
  <2> QED
    BY <2>1, <2>2, IdMoreSigned
<1>8. ASSUME NEW a \in Id!Account, NEW s \in Id!Subject, Id!Unbind(a, s)
      PROVE  IdMore'
  <2>1. UNCHANGED <<user, belongings, retired, joining, twice>>
    BY <1>8 DEF Id!Unbind, Id!ownVars, Id!joinVars
  <2> QED
    BY <2>1, IdMoreSigned
<1>9. ASSUME NEW a \in Id!Account, NEW s \in Id!Subject, Id!PutColumns(a, s)
      PROVE  IdMore'
  <2>1. /\ user' = [user EXCEPT ![a] = Id!SignedIn(user[a], s)]
        /\ UNCHANGED <<belongings, retired, joining, twice>>
    BY <1>9 DEF Id!PutColumns, Id!ownVars, Id!joinVars
  <2> QED
    BY <2>1, IdMoreSigned
<1>10. ASSUME NEW a \in Id!Account, Id!BindAlipay(a)
       PROVE  IdMore'
  <2>1. /\ user' = [user EXCEPT ![a] = Id!SignedIn(user[a], "alipay")]
        /\ UNCHANGED <<belongings, retired, joining, twice>>
    BY <1>10 DEF Id!BindAlipay, Id!ownVars, Id!joinVars
  <2>2. "alipay" \in Id!Subject
    BY DEF Id!Subject
  <2> QED
    BY <2>1, <2>2, IdMoreSigned
<1>11. ASSUME NEW a \in Id!Account,
              Id!BindWechat(a) \/ Id!BindGoogle(a) \/ \E p \in Phone : Id!BindPhone(a, p)
       PROVE  IdMore'
  BY <1>1, <1>9, <1>11 DEF Id!BindWechat, Id!BindGoogle, Id!BindPhone
<1>12. ASSUME NEW a \in Id!Account, Id!Ban(a) \/ Id!Unban(a)
       PROVE  IdMore'
  BY <1>12, IdMoreRestrict
<1>13. ASSUME NEW a \in Id!Account, NEW t \in Id!Account,
              Id!MergeByPhone(a, t) \/ Id!MergeByIdentity(a, t) \/ Id!MergeByAdmin(a, t)
       PROVE  IdMore'
  BY <1>13, IdMoreMergeOwn, IdMoreMergeByAdmin DEF Id!MergeByPhone, Id!MergeByIdentity
<1>14. ASSUME NEW l \in leaving, Id!UnbindCommit(l)
       PROVE  IdMore'
  BY <1>14, IdMoreUnbind
<1>15. ASSUME NEW a \in Id!Account, Id!Acquire(a)
       PROVE  IdMore'
  BY <1>15, IdMoreAcquire
<1> QED
  BY <1>1, <1>2, <1>3, <1>4, <1>5, <1>6, <1>7, <1>8, <1>10, <1>11, <1>12, <1>13, <1>14, <1>15
  DEF Id!Next, Id!LoginByPhone, Id!RegisterByPhone, Id!WechatLogin, Id!AlipayLogin, Id!GoogleLogin

\* Both parts of the invariant hold to begin with, and in every step.
LEMMA IdAllInit == Id!Init => IdAll
<1> SUFFICES ASSUME Id!Init PROVE IdAll
  OBVIOUS
<1>1. /\ belongings = {} /\ retired = {} /\ twice = {}
      /\ joining = [s \in Id!Subject |-> 0]
  BY DEF Id!Init
<1>2. IdMore
  BY <1>1, IdentityAssumption DEF IdMore, IdJoining, IdStranded
<1> QED
  BY <1>2, IdInit DEF IdAll

LEMMA IdAllStep == IdAll /\ Id!Next => IdAll' /\ Id!AMethodIsLeft
  BY IdStep, IdMoreStep DEF IdAll

LEMMA IdAllStutter == IdAll /\ UNCHANGED Id!vars => IdAll' /\ Id!AMethodIsLeft
<1> SUFFICES ASSUME IdAll, UNCHANGED Id!vars PROVE IdAll' /\ Id!AMethodIsLeft
  OBVIOUS
<1>1. UNCHANGED <<user, belongings, retired, joining, twice>>
  BY DEF Id!vars, Id!ownVars, Id!joinVars
<1>2. IdMore'
  BY <1>1 DEF IdAll, IdMore, IdJoining, IdStranded
<1> QED
  BY <1>2, IdStutter DEF IdAll

\* The types, in the two parts of the invariant.
LEMMA IdTypes == IdAll => Id!TypeOK
  BY DEF IdAll, IdInv, IdType, IdTables, IdMore, IdJoining, Id!TypeOK

\* What the invariant says of signing in and of merged accounts.
LEMMA IdShows == IdAll => Id!SignInFindsOwner /\ Id!MergedIsEmpty
<1> SUFFICES ASSUME IdAll PROVE Id!SignInFindsOwner /\ Id!MergedIsEmpty
  OBVIOUS
<1>0. IdInv
  BY DEF IdAll
<1>1. ASSUME ~raced, NEW s \in Id!Subject, s \notin twice, row[s].owner # Nobody
      PROVE  Id!Found(s) = {row[s].owner}
  <2>1. CASE s = "alipay"
    BY <1>1, <2>1 DEF Id!Found
  <2>2. CASE s # "alipay"
    <3>1. Id!WithColumn(s) = {row[s].owner}
      BY <1>0, <1>1, <2>2, IdFacts DEF Id!WithColumn
    <3> QED
      BY <2>2, <3>1 DEF Id!Found
  <2> QED
    BY <2>1, <2>2
<1>2. ASSUME ~raced, NEW a \in Id!Account, user[a].status = "merged"
      PROVE  /\ Id!Owned(a) = {} /\ Id!InColumns(user[a]) \subseteq {"google"}
             /\ ~Id!HasHistory(a)
  BY <1>0, <1>2, IdFacts DEF Id!Owned
<1>3. \A a \in Id!Account : user[a].status = "merged" => (a \in belongings => a \in retired)
  BY DEF IdAll, IdMore, IdStranded
<1>4. \A h \in history : h[1] # h[2]
  BY <1>0 DEF IdInv, IdApart
<1> QED
  BY <1>1, <1>2, <1>3, <1>4 DEF Id!SignInFindsOwner, Id!MergedIsEmpty

-----------------------------------------------------------------------------
\* The invariant, of the component when it is the one that runs.
IdentitiesHold == component = "identities" => IdAll

\* It holds to begin with.
LEMMA IdentitiesStart == Init => IdentitiesHold
  BY IdAllInit DEF Init, IdentitiesHold

\* Every step keeps it, and a way to sign in; other components do not touch either.
LEMMA IdentitiesMove ==
  IdentitiesHold /\ [Next]_vars =>
      IdentitiesHold' /\ (component = "identities" => Id!AMethodIsLeft)
<1> SUFFICES ASSUME IdentitiesHold, [Next]_vars, component = "identities" \/ component' = "identities"
             PROVE  IdAll' /\ Id!AMethodIsLeft
  BY DEF IdentitiesHold
<1>1. CASE IdentitiesStep
  BY <1>1, IdAllStep DEF IdentitiesStep, IdentitiesHold
<1>2. CASE UNCHANGED vars
  <2>1. UNCHANGED Id!vars /\ component = "identities"
    BY <1>2 DEF vars, idVars, Id!vars, Id!ownVars, Id!joinVars
  <2> QED
    BY <2>1, IdAllStutter DEF IdentitiesHold
<1>3. CASE Next /\ ~IdentitiesStep
  BY <1>3 DEF Next, SessionsStep, PhoneCodesStep, CouponsStep, OutboxStep, MediaStep,
     MessagesStep, ListingsStep, PayoutsStep, SharingStep
<1> QED
  BY <1>1, <1>2, <1>3

\* It holds in every state.
LEMMA IdentitiesInvariant == Spec => []IdentitiesHold
  BY IdentitiesStart, IdentitiesMove, PTL DEF Spec

\* SignInFindsOwner: whoever owns a subject in auth_identities is the one account
\* that signing in with it finds, whatever is registered, bound, unbound and merged,
\* and however registrations overlap, unless an unbinding commits after what it had
\* read has changed.  WeChat and Google subjects are excepted once they have been
\* registered when somebody had them by then: nothing makes their columns unique
\* (auth.py, account_merge.py, models.py).
THEOREM SigningInFindsTheOwner == Spec => []SignInFindsOwner
<1>1. IdentitiesHold => SignInFindsOwner
  BY IdShows DEF IdentitiesHold, SignInFindsOwner
<1> QED
  BY <1>1, IdentitiesInvariant, PTL

\* MergedIsEmpty: a merge leaves on the account that it retires no subject, no column
\* that finds it but Google's, and no row of the tables that either merge looks at;
\* coupons, assets and uploads stay only where the owner has merged, not an
\* administrator; and no account has traded with itself (account_merge.py).
THEOREM MergedAccountsAreEmpty == Spec => []MergedIsEmpty
<1>1. IdentitiesHold => MergedIsEmpty
  BY IdShows DEF IdentitiesHold, MergedIsEmpty
<1> QED
  BY <1>1, IdentitiesInvariant, PTL

\* KeepsAMethod: no step takes the last verified way to sign in from an account that
\* is not merged into another, unless an unbinding commits after what it had read
\* has changed (unbind_auth_identity).
THEOREM AMethodIsKept == Spec => KeepsAMethod
<1>1. IdentitiesHold /\ [Next]_vars =>
          [component = "identities" => Id!AMethodIsLeft]_<<row, user, raced>>
  BY IdentitiesMove
<1> QED
  BY <1>1, IdentitiesInvariant, PTL DEF Spec, KeepsAMethod

-----------------------------------------------------------------------------
\* Refresh tokens and the sessions that carry them.

SeRequest ==
    [op : {"idle", "issue", "refresh", "stored", "reloaded", "tokens", "revoke"},
     device : Device \cup {Se!Legacy}, session : 0..MaxToken, old : 0..MaxToken,
     read : Se!SessionRow, tokens : SUBSET (0..MaxToken), sessions : SUBSET Se!Token,
     used : 0..MaxToken, overlap : BOOLEAN]

\* A request keeps identities of tokens and sessions.
SeType ==
    /\ Se!TypeOK
    /\ req \in [Request -> SeRequest]

\* A token that is being used, or has been, is revoked and used by nobody else;
\* what was handed out for it is one token, by whoever used it.
SeUsed ==
    /\ \A t \in Se!Token : spawn[t] # {} => token[t] = "revoked" /\ \E x \in Se!Token : spawn[t] = {x}
    /\ \A r \in Request : req[r].used # 0 => token[req[r].used] = "revoked"
    /\ \A r1, r2 \in Request : req[r1].used # 0 /\ req[r1].used = req[r2].used => r1 = r2
    /\ \A r \in Request : req[r].op \in {"refresh", "issue"} /\ req[r].used # 0 =>
          spawn[req[r].used] = {}
    /\ \A r \in Request : req[r].op = "idle" => req[r].used = 0

\* A request that no other overlaps finds the session as it has read it.
SeAlone(r) ==
    /\ \A o \in Request : o # r => req[o].op = "idle"
    /\ req[r].op = "reloaded" /\ req[r].session # 0 =>
          session[req[r].session].revoked = req[r].read.revoked

\* What a request knows of session s, which carries token t: when it replaces
\* or ends the session, it revokes the token.
SeKnows(q, t, s) ==
    /\ q.op = "reloaded" /\ q.session = s => q.read.token = t
    /\ q.op = "tokens" => t \in q.tokens
    /\ q.op = "revoke" /\ s \in q.sessions => t \in q.tokens

\* Session s, which is shown, carries token t, and whoever may end it knows so.
SeCarries(s, t) ==
    /\ Se!Exists(s) /\ ~session[s].revoked /\ session[s].token = t
    /\ \A r \in Request : SeKnows(req[r], t, s)

\* A token that was handed out to its device alone and still works is carried by a
\* session; requests know only tokens and sessions that are there.
SeShown ==
    /\ \A t \in alone : token[t] # "none"
    /\ \A t \in alone : token[t] \in {"live", "expired"} => \E s \in Se!Token : SeCarries(s, t)
    /\ \A r \in Request : req[r].op \in {"stored", "reloaded"} => req[r].old \in Se!Token /\ token[req[r].old] # "none"
    /\ \A r \in Request : req[r].session # 0 => Se!Exists(req[r].session)
    /\ \A r \in Request : req[r].op # "idle" /\ ~req[r].overlap => SeAlone(r)

SeInv == SeType /\ SeUsed /\ SeShown

\* A request that is not there has nothing.
LEMMA SeIdle ==
  /\ Se!Idle \in SeRequest /\ Se!Idle.op = "idle" /\ Se!Idle.used = 0 /\ Se!Idle.session = 0
  /\ Se!Idle.overlap = FALSE /\ Se!Idle.device = Se!Legacy
BY SessionAssumption DEF Se!Idle, SeRequest, Se!Legacy, Se!NoToken, Se!NoRow, Se!SessionRow

\* The next token is one that nobody has had.
LEMMA SeFreshToken ==
  ASSUME \E t \in Se!Token : token[t] = "none"
  PROVE  Se!FreshToken \in Se!Token /\ token[Se!FreshToken] = "none"
<1> DEFINE S == {t \in Se!Token : token[t] = "none"}
<1>1. S \subseteq Nat /\ S # {}
  BY SessionAssumption DEF Se!Token
<1>2. PICK m \in S : \A n \in S : m <= n
  BY <1>1, LeastNatural
<1>3. \A o \in 1..(m - 1) : token[o] # "none"
  BY <1>2, SessionAssumption DEF Se!Token
<1>4. \E t \in Se!Token : token[t] = "none" /\ \A o \in 1..(t - 1) : token[o] # "none"
  BY <1>2, <1>3
<1> QED
  BY <1>4 DEF Se!FreshToken

\* The next session is one that does not exist.
LEMMA SeFreshSession ==
  ASSUME \E s \in Se!Token : ~Se!Exists(s)
  PROVE  Se!FreshSession \in Se!Token /\ ~Se!Exists(Se!FreshSession)
<1> DEFINE S == {s \in Se!Token : ~Se!Exists(s)}
<1>1. S \subseteq Nat /\ S # {}
  BY SessionAssumption DEF Se!Token
<1>2. PICK m \in S : \A n \in S : m <= n
  BY <1>1, LeastNatural
<1>3. \A o \in 1..(m - 1) : Se!Exists(o)
  BY <1>2, SessionAssumption DEF Se!Token
<1>4. \E s \in Se!Token : ~Se!Exists(s) /\ \A o \in 1..(s - 1) : Se!Exists(o)
  BY <1>2, <1>3
<1> QED
  BY <1>4 DEF Se!FreshSession

\* The session that a sign-in finds is one of the device.
LEMMA SeNewest ==
  ASSUME NEW S, S \subseteq Se!Unrevoked, S # {}
  PROVE  Se!Newest(S) \in Se!Token /\ Se!Exists(Se!Newest(S))
<1>1. S \subseteq 0..MaxToken /\ S \subseteq Se!Token
  BY SessionAssumption DEF Se!Unrevoked, Se!Token
<1>2. \E m \in S : \A n \in S : n <= m
  BY <1>1, GreatestNatural, SessionAssumption
<1>3. Se!Newest(S) \in S
  BY <1>2 DEF Se!Newest
<1> QED
  BY <1>1, <1>3 DEF Se!Unrevoked

\* To begin with nothing is handed out.
LEMMA SeInit == Se!Init => SeInv
<1> SUFFICES ASSUME Se!Init PROVE SeInv
  OBVIOUS
<1> 1 \in Se!Token /\ Se!Token \subseteq Nat
  BY SessionAssumption DEF Se!Token
<1>1. /\ req \in [Request -> SeRequest]
      /\ \A r \in Request : req[r].op = "idle" /\ req[r].used = 0 /\ req[r].session = 0
  BY SeIdle DEF Se!Init
<1>2. token \in [Se!Token -> Se!TokenState] /\ token[1] = "live"
  BY DEF Se!Init, Se!TokenState
<1>3. /\ session \in [Se!Token -> Se!SessionRow]
      /\ session[1].token = 1 /\ ~session[1].revoked /\ session[1].device # "none"
  <2>1. PICK d \in Device \cup {Se!Legacy} : session = [s \in Se!Token |->
               IF s = 1 THEN [token |-> 1, device |-> d, revoked |-> FALSE] ELSE Se!NoRow]
    BY DEF Se!Init
  <2>2. d # "none"
    BY SessionAssumption DEF Se!Legacy
  <2>3. Se!NoRow \in Se!SessionRow /\ [token |-> 1, device |-> d, revoked |-> FALSE] \in Se!SessionRow
    BY SessionAssumption DEF Se!NoRow, Se!SessionRow, Se!NoToken
  <2> QED
    BY <2>1, <2>2, <2>3
<1>4. SeType
  <2>1. /\ status \in {"normal", "banned"} /\ alone \subseteq Se!Token
        /\ spawn \in [Se!Token -> SUBSET Se!Token]
    BY DEF Se!Init
  <2>2. opened \in 0..MaxOpened
    BY SessionAssumption DEF Se!Init
  <2> QED
    BY <1>1, <1>2, <1>3, <2>1, <2>2 DEF SeType, Se!TypeOK
<1>5. SeUsed
  BY <1>1 DEF SeUsed, Se!Init
<1>6. SeShown
  BY <1>1, <1>2, <1>3 DEF SeShown, Se!Init, SeCarries, SeKnows, Se!Exists
<1> QED
  BY <1>4, <1>5, <1>6 DEF SeInv

\* A request that opens: the others know that they are overlapped.
LEMMA SeOpen ==
  ASSUME SeInv, NEW r \in Request, NEW q \in SeRequest, Se!Open(r, q)
  PROVE  /\ req' \in [Request -> SeRequest]
         /\ opened' \in 0..MaxOpened
         /\ \A o \in Request : o # r =>
               /\ req'[o].op = req[o].op /\ req'[o].session = req[o].session
               /\ req'[o].old = req[o].old /\ req'[o].read = req[o].read
               /\ req'[o].tokens = req[o].tokens /\ req'[o].sessions = req[o].sessions
               /\ req'[o].used = req[o].used
               /\ req'[o].op # "idle" => req'[o].overlap = TRUE
         /\ req'[r].op = q.op /\ req'[r].session = q.session /\ req'[r].old = q.old
         /\ req'[r].read = q.read /\ req'[r].tokens = q.tokens
         /\ req'[r].sessions = q.sessions /\ req'[r].used = q.used
         /\ ~req'[r].overlap => \A o \in Request : o # r => req'[o].op = "idle"
<1> DEFINE f(o) == IF o = r THEN [q EXCEPT !.overlap = Se!Busy(r)]
                   ELSE [req[o] EXCEPT !.overlap = @ \/ req[o].op # "idle"]
<1>1. req' = [o \in Request |-> f(o)] /\ opened < MaxOpened /\ opened' = opened + 1
  BY DEF Se!Open
<1>2. Se!Busy(r) \in BOOLEAN /\ (~Se!Busy(r) => \A o \in Request : o # r => req[o].op = "idle")
  BY DEF Se!Busy
<1>3. /\ f(r) \in SeRequest
      /\ f(r).op = q.op /\ f(r).session = q.session /\ f(r).old = q.old
      /\ f(r).read = q.read /\ f(r).tokens = q.tokens
      /\ f(r).sessions = q.sessions /\ f(r).used = q.used /\ f(r).overlap = Se!Busy(r)
  BY <1>2 DEF SeRequest
<1>4. ASSUME NEW o \in Request, o # r
      PROVE  /\ f(o) \in SeRequest
             /\ f(o).op = req[o].op /\ f(o).session = req[o].session
             /\ f(o).old = req[o].old /\ f(o).read = req[o].read
             /\ f(o).tokens = req[o].tokens /\ f(o).sessions = req[o].sessions
             /\ f(o).used = req[o].used
             /\ f(o).op # "idle" => f(o).overlap = TRUE
  <2>1. req[o] \in SeRequest
    BY DEF SeInv, SeType
  <2>2. f(o) = [req[o] EXCEPT !.overlap = req[o].overlap \/ req[o].op # "idle"]
    BY <1>4, <2>1 DEF SeRequest
  <2>3. (req[o].overlap \/ req[o].op # "idle") \in BOOLEAN
    OBVIOUS
  <2> HIDE DEF f
  <2> QED
    BY <2>1, <2>2, <2>3 DEF SeRequest
<1>5. opened' \in 0..MaxOpened
  BY <1>1, SessionAssumption DEF SeInv, SeType, Se!TypeOK
<1>7. \A o \in Request : req'[o] = f(o)
  BY <1>1
<1>8. req' \in [Request -> SeRequest]
  BY <1>1, <1>3, <1>4
<1> HIDE DEF f
<1>9. req'[r] = f(r) /\ \A o \in Request : o # r => req'[o].op = req[o].op
  BY <1>4, <1>7
<1>10. ~req'[r].overlap => \A o \in Request : o # r => req'[o].op = "idle"
  BY <1>2, <1>3, <1>9
<1>11. \A o \in Request : o # r =>
               /\ req'[o].op = req[o].op /\ req'[o].session = req[o].session
               /\ req'[o].old = req[o].old /\ req'[o].read = req[o].read
               /\ req'[o].tokens = req[o].tokens /\ req'[o].sessions = req[o].sessions
               /\ req'[o].used = req[o].used
               /\ req'[o].op # "idle" => req'[o].overlap = TRUE
  <2> SUFFICES ASSUME NEW o \in Request, o # r
               PROVE  /\ req'[o].op = req[o].op /\ req'[o].session = req[o].session
                      /\ req'[o].old = req[o].old /\ req'[o].read = req[o].read
                      /\ req'[o].tokens = req[o].tokens /\ req'[o].sessions = req[o].sessions
                      /\ req'[o].used = req[o].used
                      /\ req'[o].op # "idle" => req'[o].overlap = TRUE
    BY Zenon
  <2>1. req'[o] = f(o)
    BY <1>7
  <2> QED
    BY <1>4, <2>1
<1> QED
  BY <1>3, <1>5, <1>8, <1>9, <1>10, <1>11

\* A request that goes on, or ends: nobody else's record changes.
LEMMA SeGo ==
  ASSUME SeInv, NEW r \in Request, NEW q \in SeRequest, Se!Go(r, q)
  PROVE  /\ req' \in [Request -> SeRequest] /\ opened' = opened /\ req'[r] = q
         /\ \A o \in Request : o # r => req'[o] = req[o]
BY DEF SeInv, SeType, Se!Go

\* While a request is open, every other open one is overlapped.
LEMMA SeOthers ==
  ASSUME SeInv, NEW r \in Request, req[r].op # "idle"
  PROVE  \A o \in Request : o # r /\ req[o].op # "idle" => req[o].overlap
BY DEF SeInv, SeShown, SeAlone

\* A request that opens and changes nothing else.
LEMMA SeOpens ==
  ASSUME SeInv, NEW r \in Request, req[r].op = "idle", NEW q \in SeRequest, Se!Open(r, q),
         UNCHANGED <<status, token, session, alone, spawn>>,
         q.used = 0, q.op \in {"issue", "tokens", "revoke"},
         q.session # 0 => Se!Exists(q.session),
         \A t \in alone, s \in Se!Token :
            token[t] \in {"live", "expired"} /\ SeCarries(s, t) => SeKnows(q, t, s)
  PROVE  SeInv'
<1>1. /\ req' \in [Request -> SeRequest]
      /\ opened' \in 0..MaxOpened
      /\ \A o \in Request : o # r =>
               /\ req'[o].op = req[o].op /\ req'[o].session = req[o].session
               /\ req'[o].old = req[o].old /\ req'[o].read = req[o].read
               /\ req'[o].tokens = req[o].tokens /\ req'[o].sessions = req[o].sessions
               /\ req'[o].used = req[o].used
               /\ req'[o].op # "idle" => req'[o].overlap = TRUE
      /\ req'[r].op = q.op /\ req'[r].session = q.session /\ req'[r].old = q.old
      /\ req'[r].read = q.read /\ req'[r].tokens = q.tokens
      /\ req'[r].sessions = q.sessions /\ req'[r].used = q.used
      /\ ~req'[r].overlap => \A o \in Request : o # r => req'[o].op = "idle"
  BY SeOpen
<1>2. SeType'
  BY <1>1 DEF SeInv, SeType, Se!TypeOK, SeRequest, Se!SessionRow, Se!Token, Se!Legacy, Se!TokenState
<1>3. SeUsed'
  BY <1>1 DEF SeInv, SeUsed, Se!Token
<1>4. SeShown'
  <2>1. \A t \in alone : token[t] \in {"live", "expired"} => \E s \in Se!Token : SeCarries(s, t)'
    <3> SUFFICES ASSUME NEW t \in alone, token[t] \in {"live", "expired"}
                 PROVE  \E s \in Se!Token : SeCarries(s, t)'
      OBVIOUS
    <3>1. PICK s \in Se!Token : SeCarries(s, t)
      BY DEF SeInv, SeShown
    <3>2. SeKnows(q, t, s)
      BY <3>1
    <3>3. SeCarries(s, t)'
      BY <1>1, <3>1, <3>2 DEF SeCarries, SeKnows, Se!Exists
    <3> QED
      BY <3>3
  <2>2. \A o \in Request : req'[o].op # "idle" /\ ~req'[o].overlap => SeAlone(o)'
    BY <1>1 DEF SeAlone
  <2>3. /\ \A o \in Request : req'[o].op \in {"stored", "reloaded"} =>
              req'[o].old \in Se!Token /\ token[req'[o].old] # "none"
        /\ \A o \in Request : req'[o].session # 0 => Se!Exists(req'[o].session)
    BY <1>1 DEF SeInv, SeShown
  <2> QED
    BY <2>1, <2>2, <2>3 DEF SeInv, SeShown, Se!Token, Se!Exists
<1> QED
  BY <1>2, <1>3, <1>4 DEF SeInv

\* A user signs in: the request finds the session of the device.
LEMMA SeSignIn ==
  ASSUME SeInv, NEW r \in Request, NEW d \in Device \cup {Se!Legacy}, Se!SignIn(r, d)
  PROVE  SeInv'
<1> DEFINE known == IF d = Se!Legacy THEN Se!NoToken ELSE Se!KnownSession(d)
           q == [Se!Idle EXCEPT !.op = "issue", !.device = d, !.session = known]
<1>1. /\ req[r].op = "idle" /\ Se!Open(r, q)
      /\ UNCHANGED <<status, token, session, alone, spawn>>
  BY DEF Se!SignIn
<1>2. known \in 0..MaxToken /\ (known # 0 => Se!Exists(known))
  <2> DEFINE S == {s \in Se!Unrevoked : session[s].device = d}
  <2>1. S # {} => Se!Newest(S) \in Se!Token /\ Se!Exists(Se!Newest(S))
    BY SeNewest
  <2>2. Se!KnownSession(d) = IF S = {} THEN 0 ELSE Se!Newest(S)
    BY DEF Se!KnownSession, Se!NoToken
  <2> QED
    BY <2>1, <2>2, SessionAssumption DEF Se!Token, Se!NoToken
<1> HIDE DEF known
<1>3. q \in SeRequest /\ q.used = 0 /\ q.op = "issue" /\ q.session = known
  BY <1>2, SeIdle DEF SeRequest
<1> HIDE DEF q
<1>4. \A t \in alone, s \in Se!Token : SeKnows(q, t, s)
  BY <1>3 DEF SeKnows
<1> QED
  BY <1>1, <1>2, <1>3, <1>4, SeOpens

\* An administrator signs in, without a device.
LEMMA SeAdminSignIn ==
  ASSUME SeInv, NEW r \in Request, Se!AdminSignIn(r)
  PROVE  SeInv'
<1> DEFINE q == [Se!Idle EXCEPT !.op = "issue", !.device = Se!Legacy]
<1>1. /\ req[r].op = "idle" /\ Se!Open(r, q)
      /\ UNCHANGED <<status, token, session, alone, spawn>>
  BY DEF Se!AdminSignIn
<1>2. q \in SeRequest /\ q.used = 0 /\ q.op = "issue" /\ q.session = 0
  BY SeIdle DEF SeRequest
<1> HIDE DEF q
<1>3. \A t \in alone, s \in Se!Token : SeKnows(q, t, s)
  BY <1>2 DEF SeKnows
<1> QED
  BY <1>1, <1>2, <1>3, SeOpens

\* All sessions are to be revoked.
LEMMA SeRevokeAll ==
  ASSUME SeInv, NEW r \in Request, Se!RevokeAll(r)
  PROVE  SeInv'
<1> DEFINE q == [Se!Idle EXCEPT !.op = "tokens", !.tokens = Se!Live]
<1>1. /\ req[r].op = "idle" /\ Se!Open(r, q)
      /\ UNCHANGED <<status, token, session, alone, spawn>>
  BY DEF Se!RevokeAll
<1>2. Se!Live \subseteq Se!Token /\ Se!Token \subseteq 0..MaxToken
      /\ \A t \in Se!Token : token[t] \in {"live", "expired"} => t \in Se!Live
  BY SessionAssumption DEF Se!Live, Se!Token
<1>3. q \in SeRequest /\ q.used = 0 /\ q.op = "tokens" /\ q.session = 0 /\ q.tokens = Se!Live
  BY <1>2, SeIdle DEF SeRequest
<1> HIDE DEF q
<1>4. \A t \in alone, s \in Se!Token : token[t] \in {"live", "expired"} => SeKnows(q, t, s)
  BY <1>2, <1>3 DEF SeKnows, SeInv, SeType, Se!TypeOK
<1> QED
  BY <1>1, <1>3, <1>4, SeOpens

\* The sessions of one device are to be revoked.
LEMMA SeRevokeDevice ==
  ASSUME SeInv, NEW r \in Request, NEW s0 \in Se!Token, Se!RevokeDevice(r, s0)
  PROVE  SeInv'
<1> DEFINE q == [Se!Idle EXCEPT !.op = "revoke", !.tokens = {session[s0].token},
                                !.sessions = {s0}]
<1>1. /\ req[r].op = "idle" /\ Se!Open(r, q)
      /\ UNCHANGED <<status, token, session, alone, spawn>>
  BY DEF Se!RevokeDevice
<1>2. session[s0].token \in 0..MaxToken
  BY DEF SeInv, SeType, Se!TypeOK, Se!SessionRow
<1>3. q \in SeRequest /\ q.used = 0 /\ q.op = "revoke" /\ q.session = 0
      /\ q.tokens = {session[s0].token} /\ q.sessions = {s0}
  BY <1>2, SeIdle DEF SeRequest
<1> HIDE DEF q
<1>4. \A t \in alone, s \in Se!Token : SeCarries(s, t) => SeKnows(q, t, s)
  BY <1>3 DEF SeKnows, SeCarries
<1> QED
  BY <1>1, <1>3, <1>4, SeOpens

\* /refresh uses the token up, so that nobody else can use it.
LEMMA SeRefresh ==
  ASSUME SeInv, NEW r \in Request, NEW t0 \in Se!Token, Se!Refresh(r, t0)
  PROVE  SeInv'
<1> DEFINE q == [Se!Idle EXCEPT !.op = "refresh", !.used = t0]
<1>1. /\ req[r].op = "idle" /\ Se!Open(r, q) /\ token[t0] = "live"
      /\ token' = [token EXCEPT ![t0] = "revoked"]
      /\ UNCHANGED <<status, session, alone, spawn>>
  BY DEF Se!Refresh, Se!Presented
<1>2. t0 \in 0..MaxToken /\ t0 # 0
  BY SessionAssumption DEF Se!Token
<1>3. q \in SeRequest /\ q.used = t0 /\ q.op = "refresh" /\ q.session = 0
  BY <1>2, SeIdle DEF SeRequest
<1> HIDE DEF q
<1>4. /\ req' \in [Request -> SeRequest]
      /\ opened' \in 0..MaxOpened
      /\ \A o \in Request : o # r =>
               /\ req'[o].op = req[o].op /\ req'[o].session = req[o].session
               /\ req'[o].old = req[o].old /\ req'[o].read = req[o].read
               /\ req'[o].tokens = req[o].tokens /\ req'[o].sessions = req[o].sessions
               /\ req'[o].used = req[o].used
               /\ req'[o].op # "idle" => req'[o].overlap = TRUE
      /\ req'[r].op = "refresh" /\ req'[r].session = 0 /\ req'[r].used = t0
      /\ ~req'[r].overlap => \A o \in Request : o # r => req'[o].op = "idle"
  BY <1>1, <1>3, SeOpen
<1>5. /\ token' \in [Se!Token -> Se!TokenState] /\ token'[t0] = "revoked"
      /\ \A t \in Se!Token : t # t0 => token'[t] = token[t]
  BY <1>1 DEF SeInv, SeType, Se!TypeOK, Se!TokenState
<1>6. SeType'
  BY <1>1, <1>4, <1>5 DEF SeInv, SeType, Se!TypeOK, SeRequest, Se!SessionRow, Se!Token, Se!Legacy
<1>7. SeUsed'
  <2>1. spawn[t0] = {} /\ \A o \in Request : req[o].used # t0
    BY <1>1, <1>2 DEF SeInv, SeUsed
  <2>2. \A o \in Request : req[o].used # 0 => req[o].used \in Se!Token
    BY SessionAssumption DEF SeInv, SeType, SeRequest, Se!Token
  <2> QED
    BY <1>1, <1>2, <1>4, <1>5, <2>1, <2>2 DEF SeInv, SeUsed, Se!Token
<1>8. SeShown'
  <2>1. \A t \in alone : token'[t] \in {"live", "expired"} => \E s \in Se!Token : SeCarries(s, t)'
    <3> SUFFICES ASSUME NEW t \in alone, token'[t] \in {"live", "expired"}
                 PROVE  \E s \in Se!Token : SeCarries(s, t)'
      OBVIOUS
    <3>1. token[t] \in {"live", "expired"}
      BY <1>5 DEF SeInv, SeType, Se!TypeOK
    <3>2. PICK s \in Se!Token : SeCarries(s, t)
      BY <3>1 DEF SeInv, SeShown
    <3>3. SeCarries(s, t)'
      BY <1>1, <1>4, <3>2 DEF SeCarries, SeKnows, Se!Exists
    <3> QED
      BY <3>3
  <2>2. \A o \in Request : req'[o].op # "idle" /\ ~req'[o].overlap => SeAlone(o)'
    BY <1>4 DEF SeAlone
  <2>3. \A t \in Se!Token : token[t] # "none" => token'[t] # "none"
    BY <1>5
  <2>4. \A t \in alone : token'[t] # "none"
    BY <2>3 DEF SeInv, SeShown, SeType, Se!TypeOK
  <2>5. \A o \in Request : req'[o].op \in {"stored", "reloaded"} =>
              req'[o].old \in Se!Token /\ token'[req'[o].old] # "none"
    BY <1>4, <2>3 DEF SeInv, SeShown
  <2>6. \A o \in Request : req'[o].session # 0 => Se!Exists(req'[o].session)
    BY <1>4 DEF SeInv, SeShown
  <2> QED
    BY <1>1, <2>1, <2>2, <2>4, <2>5, <2>6 DEF SeShown, Se!Token, Se!Exists
<1> QED
  BY <1>6, <1>7, <1>8 DEF SeInv

\* A request that goes on, or ends, and changes nothing else.
LEMMA SeGoes ==
  ASSUME SeInv, NEW r \in Request, req[r].op # "idle", NEW q \in SeRequest, Se!Go(r, q),
         UNCHANGED <<status, token, session, alone, spawn>>,
         q.used \in {0, req[r].used}, q.op = "idle" => q.used = 0,
         q.op \in {"refresh", "issue"} => req[r].op \in {"refresh", "issue"},
         q.op \in {"stored", "reloaded"} =>
            q.old = req[r].old /\ req[r].op \in {"stored", "reloaded"},
         q.session # 0 => Se!Exists(q.session),
         q.op # "idle" => q.overlap = req[r].overlap,
         q.op = "reloaded" /\ q.session # 0 => q.read = session[q.session],
         q.op # "tokens",
         q.op = "revoke" => req[r].op = "tokens" /\ q.tokens = req[r].tokens
  PROVE  SeInv'
<1>1. /\ req' \in [Request -> SeRequest] /\ opened' = opened /\ req'[r] = q
      /\ \A o \in Request : o # r => req'[o] = req[o]
  BY SeGo
<1>2. SeType'
  BY <1>1 DEF SeInv, SeType, Se!TypeOK, SeRequest, Se!SessionRow, Se!Token, Se!Legacy, Se!TokenState
<1>3. SeUsed'
  BY <1>1 DEF SeInv, SeUsed, Se!Token
<1>4. SeShown'
  <2>1. \A t \in alone : token[t] \in {"live", "expired"} => \E s \in Se!Token : SeCarries(s, t)'
    <3> SUFFICES ASSUME NEW t \in alone, token[t] \in {"live", "expired"}
                 PROVE  \E s \in Se!Token : SeCarries(s, t)'
      OBVIOUS
    <3>1. PICK s \in Se!Token : SeCarries(s, t)
      BY DEF SeInv, SeShown
    <3>2. s # 0
      BY SessionAssumption DEF Se!Token
    <3>3. SeKnows(q, t, s)
      BY <3>1, <3>2 DEF SeCarries, SeKnows
    <3>4. \A o \in Request : SeKnows(req'[o], t, s)
      BY <1>1, <3>1, <3>3 DEF SeCarries
    <3>5. SeCarries(s, t)'
      BY <3>1, <3>4 DEF SeCarries, SeKnows, Se!Exists
    <3> QED
      BY <3>5
  <2>2. ASSUME NEW o \in Request, req'[o].op # "idle", ~req'[o].overlap PROVE SeAlone(o)'
    <3>1. o = r
      BY <1>1, <2>2, SeOthers
    <3>2. SeAlone(r)
      BY <1>1, <2>2, <3>1 DEF SeInv, SeShown
    <3> QED
      BY <1>1, <2>2, <3>1, <3>2 DEF SeAlone
  <2>3. /\ \A o \in Request : req'[o].op \in {"stored", "reloaded"} =>
              req'[o].old \in Se!Token /\ token[req'[o].old] # "none"
        /\ \A o \in Request : req'[o].session # 0 => Se!Exists(req'[o].session)
    BY <1>1 DEF SeInv, SeShown
  <2> QED
    BY <2>1, <2>2, <2>3 DEF SeInv, SeShown, Se!Token, Se!Exists
<1> QED
  BY <1>2, <1>3, <1>4 DEF SeInv

\* /refresh looks for the session of the token it has used.
LEMMA SeFindSession ==
  ASSUME SeInv, NEW r \in Request, Se!FindSession(r)
  PROVE  SeInv'
<1> DEFINE found == {s \in Se!Unrevoked : session[s].token = req[r].used}
           known == IF found = {} THEN Se!NoToken ELSE Se!Newest(found)
           q == [req[r] EXCEPT !.op = "issue", !.session = known]
<1>1. /\ req[r].op = "refresh" /\ UNCHANGED <<status, token, session, alone, spawn>>
      /\ Se!Go(r, q) \/ Se!Go(r, Se!Idle)
  BY DEF Se!FindSession, Se!Close
<1>2. known \in 0..MaxToken /\ (known # 0 => Se!Exists(known))
  BY SeNewest, SessionAssumption DEF Se!Token, Se!NoToken
<1> HIDE DEF known
<1>3. /\ q \in SeRequest /\ q.used = req[r].used /\ q.op = "issue" /\ q.session = known
      /\ q.overlap = req[r].overlap
  BY <1>2 DEF SeInv, SeType, SeRequest
<1> HIDE DEF q
<1>4. CASE Se!Go(r, q)
  BY <1>1, <1>2, <1>3, <1>4, SeGoes
<1>5. CASE Se!Go(r, Se!Idle)
  BY <1>1, <1>5, SeIdle, SeGoes
<1> QED
  BY <1>1, <1>4, <1>5

\* /refresh reads the session again.
LEMMA SeReload ==
  ASSUME SeInv, NEW r \in Request, Se!Reload(r)
  PROVE  SeInv'
<1> DEFINE read == IF req[r].session = Se!NoToken THEN Se!NoRow ELSE session[req[r].session]
           q == [req[r] EXCEPT !.op = "reloaded", !.read = read]
<1>1. /\ req[r].op = "stored" /\ UNCHANGED <<status, token, session, alone, spawn>>
      /\ Se!Go(r, q)
  BY DEF Se!Reload
<1>2. req[r] \in SeRequest /\ (req[r].session # 0 => Se!Exists(req[r].session))
  BY DEF SeInv, SeType, SeShown
<1>3. read \in Se!SessionRow /\ (req[r].session # 0 => read = session[req[r].session])
  BY <1>2, SessionAssumption DEF SeInv, SeType, Se!TypeOK, SeRequest, Se!NoToken, Se!NoRow,
     Se!SessionRow, Se!Token
<1> HIDE DEF read
<1>4. /\ q \in SeRequest /\ q.used = req[r].used /\ q.op = "reloaded"
      /\ q.session = req[r].session /\ q.old = req[r].old /\ q.read = read
      /\ q.overlap = req[r].overlap
  BY <1>2, <1>3 DEF SeRequest
<1> HIDE DEF q
<1> QED
  BY <1>1, <1>2, <1>3, <1>4, SeGoes

\* A revocation reads the sessions to revoke.
LEMMA SeReadSessions ==
  ASSUME SeInv, NEW r \in Request, Se!ReadSessions(r)
  PROVE  SeInv'
<1> DEFINE q == [req[r] EXCEPT !.op = "revoke", !.sessions = Se!Unrevoked]
<1>1. /\ req[r].op = "tokens" /\ UNCHANGED <<status, token, session, alone, spawn>>
      /\ Se!Go(r, q)
  BY DEF Se!ReadSessions
<1>2. req[r] \in SeRequest /\ (req[r].session # 0 => Se!Exists(req[r].session))
  BY DEF SeInv, SeType, SeShown
<1>3. /\ q \in SeRequest /\ q.used = req[r].used /\ q.op = "revoke"
      /\ q.session = req[r].session /\ q.tokens = req[r].tokens
      /\ q.overlap = req[r].overlap
  BY <1>2 DEF SeRequest, Se!Unrevoked
<1> HIDE DEF q
<1> QED
  BY <1>1, <1>2, <1>3, SeGoes

\* A request dies with what it has committed.
LEMMA SeDie ==
  ASSUME SeInv, NEW r \in Request, Se!Die(r)
  PROVE  SeInv'
<1>1. /\ req[r].op # "idle" /\ UNCHANGED <<status, token, session, alone, spawn>>
      /\ Se!Go(r, Se!Idle)
  BY DEF Se!Die, Se!Close
<1> QED
  BY <1>1, SeIdle, SeGoes

\* The new token exists from here on; it is the only one for the token used.
LEMMA SeStoreToken ==
  ASSUME SeInv, NEW r \in Request, Se!StoreToken(r)
  PROVE  SeInv'
<1> DEFINE new == Se!FreshToken
           q == [req[r] EXCEPT !.op = "stored", !.old = new]
<1>1. /\ req[r].op = "issue" /\ UNCHANGED <<status, session, alone>>
      /\ \E t \in Se!Token : token[t] = "none"
      /\ token' = [token EXCEPT ![new] = "live"]
      /\ spawn' = IF req[r].used = 0 THEN spawn
                  ELSE [spawn EXCEPT ![req[r].used] = @ \cup {new}]
      /\ Se!Go(r, q)
  BY DEF Se!StoreToken, Se!NoToken
<1>2. new \in Se!Token /\ token[new] = "none" /\ new \in 0..MaxToken
  BY <1>1, SeFreshToken, SessionAssumption DEF Se!Token
<1> HIDE DEF new
<1>3. req[r] \in SeRequest /\ (req[r].session # 0 => Se!Exists(req[r].session))
  BY DEF SeInv, SeType, SeShown
<1>4. /\ q \in SeRequest /\ q.used = req[r].used /\ q.op = "stored"
      /\ q.session = req[r].session /\ q.old = new /\ q.overlap = req[r].overlap
  BY <1>2, <1>3 DEF SeRequest
<1> HIDE DEF q
<1>5. /\ req' \in [Request -> SeRequest] /\ opened' = opened /\ req'[r] = q
      /\ \A o \in Request : o # r => req'[o] = req[o]
  BY <1>1, <1>4, SeGo
<1>6. /\ token' \in [Se!Token -> Se!TokenState] /\ token'[new] = "live"
      /\ \A t \in Se!Token : t # new => token'[t] = token[t]
  BY <1>1, <1>2 DEF SeInv, SeType, Se!TypeOK, Se!TokenState
<1>7. /\ spawn' \in [Se!Token -> SUBSET Se!Token]
      /\ req[r].used # 0 => spawn'[req[r].used] = {new}
      /\ \A t \in Se!Token : t # req[r].used => spawn'[t] = spawn[t]
  <2>1. req[r].used # 0 => req[r].used \in Se!Token /\ spawn[req[r].used] = {}
    BY <1>1, <1>3, SessionAssumption DEF SeInv, SeUsed, SeRequest, Se!Token
  <2> QED
    BY <1>1, <1>2, <2>1 DEF SeInv, SeType, Se!TypeOK
<1>8. SeType'
  BY <1>1, <1>5, <1>6, <1>7 DEF SeInv, SeType, Se!TypeOK, SeRequest, Se!SessionRow, Se!Token, Se!Legacy
<1>9. SeUsed'
  <2>1. \A t \in Se!Token : token[t] = "revoked" => token'[t] = "revoked"
    BY <1>2, <1>6
  <2>2. \A o \in Request : req[o].used # 0 => req[o].used \in Se!Token
    BY SessionAssumption DEF SeInv, SeType, SeRequest, Se!Token
  <2>3. \A t \in Se!Token : spawn'[t] # {} =>
            token'[t] = "revoked" /\ \E x \in Se!Token : spawn'[t] = {x}
    <3> SUFFICES ASSUME NEW t \in Se!Token, spawn'[t] # {}
                 PROVE  token'[t] = "revoked" /\ \E x \in Se!Token : spawn'[t] = {x}
      OBVIOUS
    <3>1. CASE t = req[r].used
      <4>1. t # 0
        BY SessionAssumption DEF Se!Token
      <4> QED
        BY <1>2, <1>7, <2>1, <3>1, <4>1 DEF SeInv, SeUsed
    <3>2. CASE t # req[r].used
      BY <1>7, <2>1, <3>2 DEF SeInv, SeUsed
    <3> QED
      BY <3>1, <3>2
  <2>4. /\ \A o \in Request : req'[o].used = req[o].used
        /\ \A o \in Request : req'[o].op \in {"refresh", "issue"} => o # r /\ req'[o].op = req[o].op
        /\ \A o \in Request : req'[o].op = "idle" => o # r /\ req'[o].op = req[o].op
    BY <1>4, <1>5
  <2>5. \A o \in Request : req'[o].op \in {"refresh", "issue"} /\ req'[o].used # 0 =>
            spawn'[req'[o].used] = {}
    <3> SUFFICES ASSUME NEW o \in Request, req'[o].op \in {"refresh", "issue"}, req'[o].used # 0
                 PROVE  spawn'[req'[o].used] = {}
      OBVIOUS
    <3>1. o # r /\ req[o].used # req[r].used /\ spawn[req[o].used] = {} /\ req[o].used \in Se!Token
      BY <2>2, <2>4 DEF SeInv, SeUsed
    <3> QED
      BY <1>7, <2>4, <3>1
  <2> QED
    BY <2>1, <2>2, <2>3, <2>4, <2>5 DEF SeInv, SeUsed, Se!Token
<1>10. SeShown'
  <2>1. \A t \in alone : token'[t] \in {"live", "expired"} => \E s \in Se!Token : SeCarries(s, t)'
    <3> SUFFICES ASSUME NEW t \in alone, token'[t] \in {"live", "expired"}
                 PROVE  \E s \in Se!Token : SeCarries(s, t)'
      OBVIOUS
    <3>1. token[t] \in {"live", "expired"}
      BY <1>2, <1>6 DEF SeInv, SeType, Se!TypeOK, SeShown
    <3>2. PICK s \in Se!Token : SeCarries(s, t)
      BY <3>1 DEF SeInv, SeShown
    <3>3. SeCarries(s, t)'
      BY <1>1, <1>4, <1>5, <3>2 DEF SeCarries, SeKnows, Se!Exists
    <3> QED
      BY <3>3
  <2>2. ASSUME NEW o \in Request, req'[o].op # "idle", ~req'[o].overlap PROVE SeAlone(o)'
    <3>1. o = r
      BY <1>1, <1>5, <2>2, SeOthers
    <3>2. SeAlone(r)
      BY <1>1, <1>4, <1>5, <2>2, <3>1 DEF SeInv, SeShown
    <3> QED
      BY <1>4, <1>5, <2>2, <3>1, <3>2 DEF SeAlone
  <2>3. \A t \in Se!Token : token[t] # "none" => token'[t] # "none"
    BY <1>6
  <2>4. \A t \in alone : token'[t] # "none"
    BY <2>3 DEF SeInv, SeShown, SeType, Se!TypeOK
  <2>5. \A o \in Request : req'[o].op \in {"stored", "reloaded"} =>
              req'[o].old \in Se!Token /\ token'[req'[o].old] # "none"
    BY <1>2, <1>4, <1>5, <1>6, <2>3 DEF SeInv, SeShown
  <2>6. \A o \in Request : req'[o].session # 0 => Se!Exists(req'[o].session)
    BY <1>3, <1>4, <1>5 DEF SeInv, SeShown
  <2> QED
    BY <1>1, <2>1, <2>2, <2>4, <2>5, <2>6 DEF SeShown, Se!Token, Se!Exists
<1> QED
  BY <1>8, <1>9, <1>10 DEF SeInv

\* Steps that revoke tokens or let them expire.
LEMMA SeTokensEnd ==
  ASSUME SeInv, token' \in [Se!Token -> Se!TokenState],
         \A t \in Se!Token :
            \/ token'[t] = token[t]
            \/ token'[t] = "revoked"
            \/ token[t] = "live" /\ token'[t] = "expired",
         status' \in {"normal", "banned"}, UNCHANGED <<session, req, alone, spawn, opened>>
  PROVE  SeInv'
<1>1. SeType'
  BY DEF SeInv, SeType, Se!TypeOK, SeRequest, Se!SessionRow, Se!Token, Se!Legacy
<1>2. \A o \in Request : req[o].used # 0 => req[o].used \in Se!Token
  BY SessionAssumption DEF SeInv, SeType, SeRequest, Se!Token
<1>3. SeUsed'
  BY <1>2 DEF SeInv, SeUsed, Se!Token
<1>4. SeShown'
  <2>1. \A t \in Se!Token : token[t] # "none" => token'[t] # "none"
    OBVIOUS
  <2>2. \A t \in Se!Token : token'[t] \in {"live", "expired"} => token[t] \in {"live", "expired"} \/ token[t] = token'[t]
    OBVIOUS
  <2>3. \A t \in alone : t \in Se!Token
    BY DEF SeInv, SeType, Se!TypeOK
  <2>4. \A t \in alone : token'[t] \in {"live", "expired"} => \E s \in Se!Token : SeCarries(s, t)'
    BY <2>2, <2>3 DEF SeInv, SeShown, SeCarries, SeKnows, Se!Exists
  <2>5. \A o \in Request : req'[o].op # "idle" /\ ~req'[o].overlap => SeAlone(o)'
    BY DEF SeInv, SeShown, SeAlone
  <2> QED
    BY <2>1, <2>3, <2>4, <2>5 DEF SeInv, SeShown, Se!Token, Se!Exists
<1> QED
  BY <1>1, <1>3, <1>4 DEF SeInv

\* Tokens expire and the account is disabled.
LEMMA SeOutside ==
  ASSUME SeInv, Se!Ban \/ \E t \in Se!Token : Se!RefuseExpired(t) \/ Se!Expire(t)
  PROVE  SeInv'
<1> token \in [Se!Token -> Se!TokenState] /\ status \in {"normal", "banned"}
  BY DEF SeInv, SeType, Se!TypeOK
<1>1. CASE Se!Ban
  BY <1>1, SeTokensEnd DEF Se!Ban
<1>2. ASSUME NEW t \in Se!Token, Se!RefuseExpired(t) \/ Se!Expire(t) PROVE SeInv'
  <2>1. token' \in [Se!Token -> Se!TokenState]
    BY <1>2 DEF Se!RefuseExpired, Se!Expire, Se!TokenState
  <2>2. \A o \in Se!Token : \/ token'[o] = token[o]
                            \/ token'[o] = "revoked"
                            \/ token[o] = "live" /\ token'[o] = "expired"
    BY <1>2 DEF Se!RefuseExpired, Se!Expire
  <2>3. UNCHANGED <<status, session, req, alone, spawn, opened>>
    BY <1>2 DEF Se!RefuseExpired, Se!Expire
  <2> QED
    BY <2>1, <2>2, <2>3, SeTokensEnd
<1> QED
  BY <1>1, <1>2

\* Sessions end with the tokens that they carry.
LEMMA SeRevoke ==
  ASSUME SeInv, NEW r \in Request, Se!Revoke(r)
  PROVE  SeInv'
<1> DEFINE q == req[r]
<1>1. /\ q.op = "revoke" /\ Se!Go(r, Se!Idle) /\ UNCHANGED <<status, alone, spawn>>
      /\ token' = [t \in Se!Token |-> IF t \in q.tokens THEN "revoked" ELSE token[t]]
      /\ session' = [s \in Se!Token |->
               IF s \in q.sessions THEN [session[s] EXCEPT !.revoked = TRUE] ELSE session[s]]
  BY DEF Se!Revoke, Se!Close
<1>2. /\ req' \in [Request -> SeRequest] /\ opened' = opened /\ req'[r] = Se!Idle
      /\ \A o \in Request : o # r => req'[o] = req[o]
  BY <1>1, SeIdle, SeGo
<1>3. /\ token' \in [Se!Token -> Se!TokenState]
      /\ \A t \in Se!Token : token'[t] = (IF t \in q.tokens THEN "revoked" ELSE token[t])
  BY <1>1 DEF SeInv, SeType, Se!TypeOK, Se!TokenState
<1>4. /\ session' \in [Se!Token -> Se!SessionRow]
      /\ \A s \in Se!Token :
            /\ session'[s].token = session[s].token
            /\ session'[s].device = session[s].device
            /\ s \notin q.sessions => session'[s].revoked = session[s].revoked
  BY <1>1 DEF SeInv, SeType, Se!TypeOK, Se!SessionRow
<1>5. SeType'
  BY <1>1, <1>2, <1>3, <1>4 DEF SeInv, SeType, Se!TypeOK, SeRequest, Se!SessionRow, Se!Token, Se!Legacy
<1>6. SeUsed'
  <2>1. \A o \in Request : req[o].used # 0 => req[o].used \in Se!Token
    BY SessionAssumption DEF SeInv, SeType, SeRequest, Se!Token
  <2>2. /\ \A o \in Request : req'[o].used # 0 => o # r /\ req'[o] = req[o]
        /\ \A o \in Request : req'[o].op = "idle" => req'[o].used = 0
    BY <1>2, SeIdle DEF SeInv, SeUsed
  <2>3. \A t \in Se!Token : token[t] = "revoked" => token'[t] = "revoked"
    BY <1>3
  <2> QED
    BY <1>1, <2>1, <2>2, <2>3 DEF SeInv, SeUsed, Se!Token
<1>7. SeShown'
  <2>1. \A t \in alone : token'[t] \in {"live", "expired"} => \E s \in Se!Token : SeCarries(s, t)'
    <3> SUFFICES ASSUME NEW t \in alone, token'[t] \in {"live", "expired"}
                 PROVE  \E s \in Se!Token : SeCarries(s, t)'
      OBVIOUS
    <3>1. token[t] \in {"live", "expired"} /\ t \notin q.tokens
      BY <1>3 DEF SeInv, SeType, Se!TypeOK
    <3>2. PICK s \in Se!Token : SeCarries(s, t)
      BY <3>1 DEF SeInv, SeShown
    <3>3. s \notin q.sessions
      BY <1>1, <3>1, <3>2 DEF SeCarries, SeKnows
    <3>4. SeCarries(s, t)'
      BY <1>2, <1>4, <3>2, <3>3, SeIdle DEF SeCarries, SeKnows, Se!Exists
    <3> QED
      BY <3>4
  <2>2. \A o \in Request : ~(req'[o].op # "idle" /\ ~req'[o].overlap)
    BY <1>1, <1>2, SeOthers, SeIdle
  <2>3. \A t \in Se!Token : token[t] # "none" => token'[t] # "none"
    BY <1>3
  <2>4. \A t \in alone : token'[t] # "none"
    BY <2>3 DEF SeInv, SeShown, SeType, Se!TypeOK
  <2>5. \A o \in Request : req'[o].op \in {"stored", "reloaded"} =>
              req'[o].old \in Se!Token /\ token'[req'[o].old] # "none"
    BY <1>2, <2>3, SeIdle DEF SeInv, SeShown
  <2>6. \A o \in Request : req'[o].session # 0 => session'[req'[o].session].device # "none"
    <3>1. \A o \in Request : req[o].session # 0 => req[o].session \in Se!Token
      BY SessionAssumption DEF SeInv, SeType, SeRequest, Se!Token
    <3> QED
      BY <1>2, <1>4, <3>1, SeIdle DEF SeInv, SeShown, Se!Exists
  <2> QED
    BY <1>1, <2>1, <2>2, <2>4, <2>5, <2>6 DEF SeShown, Se!Token, Se!Exists
<1> QED
  BY <1>5, <1>6, <1>7 DEF SeInv

\* The session that carries a token.
LEMMA SeIssueSession ==
  ASSUME SeInv, NEW r \in Request, req[r].op = "reloaded",
         \/ req[r].session # Se!NoToken /\ Se!Rotate(req[r].session, req[r].old, req[r].read)
         \/ req[r].session = Se!NoToken /\ Se!NewSession(req[r].device, req[r].old)
  PROVE  \E s0 \in Se!Token :
         /\ session' \in [Se!Token -> Se!SessionRow]
         /\ \A s \in Se!Token : s # s0 => session'[s] = session[s]
         /\ session'[s0].token = req[r].old /\ session'[s0].device # "none"
         /\ token' \in [Se!Token -> Se!TokenState]
         /\ \A t \in Se!Token : token'[t] \in {token[t], "revoked"}
         /\ req[r].session = 0 => token' = token /\ ~Se!Exists(s0) /\ ~session'[s0].revoked
         /\ req[r].session # 0 =>
               /\ s0 = req[r].session
               /\ req[r].read.token \in Se!Token => token'[req[r].read.token] = "revoked"
               /\ \A t \in Se!Token : t # req[r].read.token => token'[t] = token[t]
               /\ req[r].read.revoked = session[s0].revoked => ~session'[s0].revoked
<1> DEFINE q == req[r]
<1>1. /\ q \in SeRequest /\ q.old \in Se!Token /\ q.old \in 0..MaxToken
      /\ q.session # 0 => q.session \in Se!Token /\ Se!Exists(q.session)
      /\ q.read \in Se!SessionRow /\ q.device \in Device \cup {Se!Legacy} /\ q.device # "none"
  BY SessionAssumption DEF SeInv, SeType, SeShown, SeRequest, Se!Token, Se!Legacy
<1>2. session \in [Se!Token -> Se!SessionRow] /\ token \in [Se!Token -> Se!TokenState]
  BY DEF SeInv, SeType, Se!TypeOK
<1>3. CASE q.session # 0
  <2> DEFINE s0 == q.session
             revoked == IF q.read.revoked THEN FALSE ELSE session[s0].revoked
             row0 == [session[s0] EXCEPT !.token = q.old, !.revoked = revoked]
  <2>1. /\ session' = [session EXCEPT ![s0] = row0]
        /\ token' = [token EXCEPT ![q.read.token] = "revoked"]
    BY <1>1, <1>2, <1>3 DEF Se!Rotate, Se!NoToken, Se!SessionRow
  <2>2. /\ row0 \in Se!SessionRow /\ row0.token = q.old /\ row0.device = session[s0].device
        /\ row0.revoked = revoked
    BY <1>1, <1>2, <1>3 DEF Se!SessionRow
  <2>3. q.read.revoked = session[s0].revoked => ~revoked
    BY <1>1, <1>2, <1>3 DEF Se!SessionRow
  <2> HIDE DEF row0, revoked
  <2>4. /\ session' \in [Se!Token -> Se!SessionRow] /\ session'[s0] = row0
        /\ \A s \in Se!Token : s # s0 => session'[s] = session[s]
    BY <1>1, <1>2, <1>3, <2>1, <2>2
  <2>5. /\ token' \in [Se!Token -> Se!TokenState]
        /\ \A t \in Se!Token : t # q.read.token => token'[t] = token[t]
        /\ q.read.token \in Se!Token => token'[q.read.token] = "revoked"
    BY <1>2, <2>1 DEF Se!TokenState
  <2> QED
    BY <1>1, <1>3, <2>2, <2>3, <2>4, <2>5 DEF Se!Exists
<1>4. CASE q.session = 0
  <2> DEFINE s0 == Se!FreshSession
             row0 == [token |-> q.old, device |-> q.device, revoked |-> FALSE]
  <2>1. /\ \E s \in Se!Token : ~Se!Exists(s)
        /\ session' = [session EXCEPT ![s0] = row0] /\ token' = token
    BY <1>4 DEF Se!NewSession, Se!NoToken
  <2>2. s0 \in Se!Token /\ ~Se!Exists(s0)
    BY <2>1, SeFreshSession
  <2>3. /\ row0 \in Se!SessionRow /\ row0.token = q.old /\ row0.device # "none"
        /\ ~row0.revoked
    BY <1>1 DEF Se!SessionRow
  <2> HIDE DEF row0, s0
  <2>4. /\ session' \in [Se!Token -> Se!SessionRow] /\ session'[s0] = row0
        /\ \A s \in Se!Token : s # s0 => session'[s] = session[s]
    BY <1>2, <2>1, <2>2, <2>3
  <2> QED
    BY <1>2, <1>4, <2>1, <2>2, <2>3, <2>4
<1> QED
  BY <1>3, <1>4

\* A new session is made, or the one that was found is used again.
LEMMA SeIssue ==
  ASSUME SeInv, NEW r \in Request, Se!Issue(r)
  PROVE  SeInv'
<1> DEFINE q == req[r]
<1>1. /\ q.op = "reloaded" /\ Se!Go(r, Se!Idle) /\ UNCHANGED <<status, spawn>>
      /\ alone' = IF q.overlap THEN alone ELSE alone \cup {q.old}
      /\ \/ q.session # Se!NoToken /\ Se!Rotate(q.session, q.old, q.read)
         \/ q.session = Se!NoToken /\ Se!NewSession(q.device, q.old)
  BY DEF Se!Issue, Se!Close
<1>2. /\ req' \in [Request -> SeRequest] /\ opened' = opened /\ req'[r] = Se!Idle
      /\ \A o \in Request : o # r => req'[o] = req[o]
  BY <1>1, SeIdle, SeGo
<1>3. PICK s0 \in Se!Token :
         /\ session' \in [Se!Token -> Se!SessionRow]
         /\ \A s \in Se!Token : s # s0 => session'[s] = session[s]
         /\ session'[s0].token = q.old /\ session'[s0].device # "none"
         /\ token' \in [Se!Token -> Se!TokenState]
         /\ \A t \in Se!Token : token'[t] \in {token[t], "revoked"}
         /\ q.session = 0 => token' = token /\ ~Se!Exists(s0) /\ ~session'[s0].revoked
         /\ q.session # 0 =>
               /\ s0 = q.session
               /\ q.read.token \in Se!Token => token'[q.read.token] = "revoked"
               /\ \A t \in Se!Token : t # q.read.token => token'[t] = token[t]
               /\ q.read.revoked = session[s0].revoked => ~session'[s0].revoked
  BY <1>1, SeIssueSession
<1>4. q.old \in Se!Token /\ token[q.old] # "none" /\ q.overlap \in BOOLEAN
  BY <1>1 DEF SeInv, SeShown, SeType, SeRequest
<1> PICK t0 \in Se!Token : t0 = q.old
  BY <1>4
<1>5. SeType'
  <2>1. alone' \subseteq Se!Token
    BY <1>1, <1>4 DEF SeInv, SeType, Se!TypeOK
  <2> QED
    BY <1>1, <1>2, <1>3, <2>1 DEF SeInv, SeType, Se!TypeOK, SeRequest, Se!SessionRow, Se!Token, Se!Legacy
<1>6. SeUsed'
  <2>1. \A o \in Request : req[o].used # 0 => req[o].used \in Se!Token
    BY SessionAssumption DEF SeInv, SeType, SeRequest, Se!Token
  <2>2. /\ \A o \in Request : req'[o].used # 0 => o # r /\ req'[o] = req[o]
        /\ \A o \in Request : req'[o].op = "idle" => req'[o].used = 0
    BY <1>2, SeIdle DEF SeInv, SeUsed
  <2>3. \A t \in Se!Token : token[t] = "revoked" => token'[t] = "revoked"
    BY <1>3
  <2> QED
    BY <1>1, <2>1, <2>2, <2>3 DEF SeInv, SeUsed, Se!Token
<1>7. SeShown'
  <2>1. ASSUME NEW t \in alone, token'[t] \in {"live", "expired"}
        PROVE  \E s \in Se!Token : SeCarries(s, t)'
    <3>1. t \in Se!Token /\ token[t] \in {"live", "expired"} /\ token'[t] # "revoked"
      BY <1>3, <2>1 DEF SeInv, SeType, Se!TypeOK
    <3>2. PICK s \in Se!Token : SeCarries(s, t)
      BY <3>1 DEF SeInv, SeShown
    <3>3. s # s0
      <4>1. CASE q.session = 0
        BY <1>3, <3>2, <4>1 DEF SeCarries
      <4>2. CASE q.session # 0
        <5>1. s0 = s => q.read.token = t
          BY <1>1, <1>3, <3>2, <4>2 DEF SeCarries, SeKnows
        <5> QED
          BY <1>3, <3>1, <4>2, <5>1
      <4> QED
        BY <4>1, <4>2
    <3>4. SeCarries(s, t)'
      BY <1>2, <1>3, <3>2, <3>3, SeIdle DEF SeCarries, SeKnows, Se!Exists
    <3> QED
      BY <3>4
  <2>2. ASSUME ~q.overlap PROVE SeCarries(s0, t0)'
    <3>1. SeAlone(r)
      BY <1>1, <2>2 DEF SeInv, SeShown
    <3>2. \A o \in Request : req'[o].op = "idle"
      BY <1>2, <3>1, SeIdle DEF SeAlone
    <3>3. ~session'[s0].revoked
      BY <1>1, <1>3, <3>1 DEF SeAlone
    <3> QED
      BY <1>3, <3>2, <3>3 DEF SeCarries, SeKnows, Se!Exists
  <2>3. \A t \in alone' : token'[t] \in {"live", "expired"} => \E s \in Se!Token : SeCarries(s, t)'
    BY <1>1, <1>4, <2>1, <2>2
  <2>4. \A o \in Request : ~(req'[o].op # "idle" /\ ~req'[o].overlap)
    BY <1>1, <1>2, SeOthers, SeIdle
  <2>5. \A t \in Se!Token : token[t] # "none" => token'[t] # "none"
    BY <1>3
  <2>6. \A t \in alone' : token'[t] # "none"
    BY <1>1, <1>4, <2>5 DEF SeInv, SeShown, SeType, Se!TypeOK
  <2>7. \A o \in Request : req'[o].op \in {"stored", "reloaded"} =>
              req'[o].old \in Se!Token /\ token'[req'[o].old] # "none"
    BY <1>2, <2>5, SeIdle DEF SeInv, SeShown
  <2>8. \A o \in Request : req'[o].session # 0 => session'[req'[o].session].device # "none"
    <3>1. \A o \in Request : req[o].session # 0 => req[o].session \in Se!Token
      BY SessionAssumption DEF SeInv, SeType, SeRequest, Se!Token
    <3>2. ASSUME NEW o \in Request, req'[o].session # 0
          PROVE  o # r /\ req'[o] = req[o] /\ Se!Exists(req[o].session) /\ req[o].session \in Se!Token
      BY <1>2, <3>1, <3>2, SeIdle DEF SeInv, SeShown
    <3> QED
      BY <1>3, <3>2 DEF Se!Exists
  <2> QED
    BY <2>3, <2>4, <2>6, <2>7, <2>8 DEF SeShown, Se!Token, Se!Exists
<1> QED
  BY <1>5, <1>6, <1>7 DEF SeInv

\* What the invariant is about stays.
LEMMA SeStutter ==
  ASSUME SeInv, UNCHANGED <<status, token, session, req, alone, spawn, opened>>
  PROVE  SeInv'
BY SeTokensEnd DEF SeInv, SeType, Se!TypeOK

\* Every step of Sessions keeps it.
LEMMA SeStep == SeInv /\ Se!Next => SeInv'
<1> SUFFICES ASSUME SeInv, Se!Next PROVE SeInv'
  OBVIOUS
<1>1. ASSUME NEW r \in Request, NEW d \in Device \cup {Se!Legacy}, Se!SignIn(r, d) PROVE SeInv'
  BY <1>1, SeSignIn
<1>2. ASSUME NEW r \in Request, NEW t \in Se!Token, Se!Refresh(r, t) \/ Se!RevokeDevice(r, t)
      PROVE  SeInv'
  BY <1>2, SeRefresh, SeRevokeDevice
<1>3. ASSUME NEW r \in Request,
             \/ Se!FindSession(r) \/ Se!StoreToken(r) \/ Se!Reload(r) \/ Se!Issue(r)
             \/ Se!AdminSignIn(r) \/ Se!RevokeAll(r) \/ Se!ReadSessions(r) \/ Se!Revoke(r)
             \/ Se!Die(r)
      PROVE  SeInv'
  BY <1>3, SeFindSession, SeStoreToken, SeReload, SeIssue, SeAdminSignIn, SeRevokeAll,
     SeReadSessions, SeRevoke, SeDie
<1>4. CASE Se!Ban \/ \E t \in Se!Token : Se!RefuseExpired(t) \/ Se!Expire(t)
  BY <1>4, SeOutside
<1> QED
  BY <1>1, <1>2, <1>3, <1>4 DEF Se!Next

\* The invariant, of the component when it is the one that runs.
SessionsHold == component = "sessions" => SeInv

\* It holds in every state.
LEMMA SessionsInvariant == Spec => []SessionsHold
<1>1. Init => SessionsHold
  BY SeInit DEF Init, SessionsHold
<1>2. SessionsHold /\ [Next]_vars => SessionsHold'
  <2> SUFFICES ASSUME SessionsHold, [Next]_vars, component' = "sessions" PROVE SeInv'
    BY DEF SessionsHold
  <2>1. CASE SessionsStep
    BY <2>1, SeStep DEF SessionsStep, SessionsHold
  <2>2. CASE UNCHANGED vars
    BY <2>2, SeStutter DEF vars, seVars, SessionsHold
  <2>3. CASE Next /\ ~SessionsStep
    BY <2>3 DEF Next, IdentitiesStep, PhoneCodesStep, CouponsStep, OutboxStep, MediaStep,
       MessagesStep, ListingsStep, PayoutsStep, SharingStep
  <2> QED
    BY <2>1, <2>2, <2>3
<1> QED
  BY <1>1, <1>2, PTL DEF Spec

\* Cardinality is the same operator wherever it is instantiated.
LEMMA SeCardinality == \A S : Se!Cardinality(S) = Cardinality(S)
  BY DEF Se!Cardinality, Cardinality

\* RotateNeverClone: /refresh never exchanges one refresh token for two new ones,
\* whatever requests use the token at the same time or die half-way
\* (rotate_refresh_token marks it revoked with a conditional UPDATE first).
THEOREM TokensRotateNeverClone == Spec => []RotateNeverClone
<1>1. SessionsHold => RotateNeverClone
  <2> SUFFICES ASSUME SessionsHold, component = "sessions", NEW t \in Se!Token
               PROVE  Cardinality(spawn[t]) <= 1
    BY SeCardinality DEF RotateNeverClone, Se!RotateNeverClone
  <2>1. spawn[t] = {} \/ \E x \in Se!Token : spawn[t] = {x}
    BY DEF SessionsHold, SeInv, SeUsed
  <2>2. Cardinality(spawn[t]) = 0 \/ Cardinality(spawn[t]) = 1
    BY <2>1, FS_EmptySet, FS_Singleton
  <2> QED
    BY <2>2
<1> QED
  BY <1>1, SessionsInvariant, PTL

\* LiveIsShown: a refresh token that still works, and that was handed out while no
\* other request was under way, is carried by a session that is not revoked, so
\* that the user sees it in the list of sessions and can end it.
THEOREM LiveTokensAreShown == Spec => []LiveIsShown
<1>1. SessionsHold => LiveIsShown
  <2> SUFFICES ASSUME SessionsHold, component = "sessions", NEW t \in alone \cap Se!Live
               PROVE  \E s \in Se!Unrevoked : session[s].token = t
    BY DEF LiveIsShown, Se!LiveIsShown
  <2>1. PICK s \in Se!Token : SeCarries(s, t)
    BY DEF SessionsHold, SeInv, SeShown, Se!Live
  <2> QED
    BY <2>1 DEF SeCarries, Se!Unrevoked
<1> QED
  BY <1>1, SessionsInvariant, PTL

-----------------------------------------------------------------------------
\* One-time codes and the guesses at them.

\* What a request is doing.
PcOp == {"idle", "send", "wrong", "right", "create"}
PcRequest == [op : PcOp, purpose : Purpose \cup {"none"}, read : Pc!OtpRow, overlap : BOOLEAN]

PcOpen(r) == request[r].op # "idle"

PcType ==
    /\ Pc!TypeOK
    /\ request \in [Request -> PcRequest]
    /\ \A r \in Request : PcOpen(r) => request[r].purpose \in Purpose

\* Codes are new: no two purposes have the same one.
PcDistinct ==
    \A p, q \in Purpose : p # q /\ otp[p].code # 0 => otp[p].code # otp[q].code

\* A code that was read is the purpose's, or was replaced for good.
PcRead ==
    \A r \in Request : request[r].op = "right" =>
        /\ request[r].read.code # 0
        /\ \E q \in Purpose : request[r].read.code <= otp[q].code
        /\ \A q \in Purpose : q # request[r].purpose => otp[q].code # request[r].read.code

\* Guesses are counted in the row and in what a guess has read of it, and two
\* open requests know of each other.
PcGuesses ==
    /\ \A p \in Purpose : guesses[p] <= otp[p].attempts /\ guesses[p] <= MaxAttempts
    /\ \A r \in Request : request[r].op = "wrong" =>
          /\ request[r].read.attempts < MaxAttempts
          /\ guesses[request[r].purpose] <= request[r].read.attempts
    /\ \A r, s \in Request : r # s /\ PcOpen(r) /\ PcOpen(s) => request[r].overlap

PcInv == PcType /\ PcDistinct /\ PcRead /\ PcGuesses /\ Pc!WorksOnce

\* No code, and no request.
LEMMA PcNoOtp ==
  /\ Pc!NoOtp \in Pc!OtpRow /\ Pc!NoOtp.code = 0 /\ Pc!NoOtp.attempts = 0
  /\ Pc!Idle \in PcRequest /\ Pc!Idle.op = "idle"
  BY CodesAssumption DEF Pc!NoOtp, Pc!OtpRow, Pc!Idle, PcRequest, PcOp

\* To begin with there is no code.
LEMMA PcInit == Pc!Init => PcInv
<1> SUFFICES ASSUME Pc!Init PROVE PcInv
  OBVIOUS
<1>1. /\ registered \in BOOLEAN /\ failures = 0 /\ accepted = {}
      /\ otp = [p \in Purpose |-> Pc!NoOtp]
      /\ request = [r \in Request |-> Pc!Idle]
      /\ guesses = [p \in Purpose |-> 0]
  BY DEF Pc!Init
<1>2. \A r \in Request : request[r] = Pc!Idle
  BY <1>1
<1>3. Pc!Idle.read = Pc!NoOtp
  BY DEF Pc!Idle
<1>4. PcType
  BY <1>1, <1>2, <1>3, PcNoOtp, CodesAssumption DEF PcType, Pc!TypeOK, PcOpen
<1> QED
  BY <1>1, <1>2, <1>4, PcNoOtp, CodesAssumption
  DEF PcInv, PcDistinct, PcRead, PcGuesses, Pc!WorksOnce, PcOpen

\* A request begins: it has read the row; those that are open know it.
LEMMA PcBegin ==
  ASSUME PcInv, NEW r \in Request, NEW op \in PcOp \ {"idle"}, NEW p \in Purpose, Pc!Open(r, op, p),
         op \in {"right", "wrong"} => ~Pc!Refused(otp[p]),
         UNCHANGED <<registered, otp, failures, accepted, guesses>>
  PROVE  PcInv'
<1>1. /\ request' = [q \in Request |->
               IF q = r THEN [op |-> op, purpose |-> p, read |-> otp[p],
                              overlap |-> \E s \in Request \ {r} : request[s].op # "idle"]
               ELSE [request[q] EXCEPT !.overlap = @ \/ request[q].op # "idle"]]
      /\ request[r].op = "idle"
  BY DEF Pc!Open
<1>2. /\ otp[p] \in Pc!OtpRow
      /\ request \in [Request -> PcRequest]
  BY DEF PcInv, PcType, Pc!TypeOK
<1>3. /\ request'[r].op = op /\ request'[r].purpose = p /\ request'[r].read = otp[p]
      /\ request'[r].overlap = \E s \in Request \ {r} : request[s].op # "idle"
  BY <1>1
<1>4. ASSUME NEW s \in Request, s # r
      PROVE  /\ request'[s].op = request[s].op /\ request'[s].purpose = request[s].purpose
             /\ request'[s].read = request[s].read
             /\ request'[s].overlap = (request[s].overlap \/ request[s].op # "idle")
             /\ request'[s] \in PcRequest
  <2>1. request'[s] = [request[s] EXCEPT !.overlap = @ \/ request[s].op # "idle"]
    BY <1>1, <1>4
  <2> QED
    BY <1>2, <2>1 DEF PcRequest
<1>5. request'[r] \in PcRequest
  BY <1>1, <1>2 DEF PcRequest
<1>6. request' \in [Request -> PcRequest]
  BY <1>1, <1>4, <1>5
<1>7. PcType'
  BY <1>2, <1>3, <1>4, <1>6 DEF PcInv, PcType, Pc!TypeOK, Pc!OtpRow, PcOpen, PcRequest, PcOp
<1>8. PcDistinct' /\ Pc!WorksOnce'
  BY DEF PcInv, PcDistinct, Pc!WorksOnce
<1>9. op = "right" => otp[p].code # 0 /\ otp[p].code <= otp[p].code
  BY <1>2 DEF Pc!Refused, Pc!Unused, Pc!OtpRow
<1>10. PcRead'
  BY <1>3, <1>4, <1>9 DEF PcInv, PcRead, PcDistinct
<1>11. op = "wrong" => otp[p].attempts < MaxAttempts
  BY <1>2, CodesAssumption DEF Pc!Refused, Pc!TooMany, Pc!OtpRow
<1>12. PcGuesses'
  BY <1>3, <1>4, <1>11 DEF PcInv, PcGuesses, PcOpen
<1> QED
  BY <1>7, <1>8, <1>10, <1>12 DEF PcInv

\* What a request that ends leaves of the others.
LEMMA PcClosed ==
  ASSUME PcType, NEW r \in Request, Pc!Close(r)
  PROVE  /\ request' \in [Request -> PcRequest]
         /\ request'[r].op = "idle"
         /\ \A s \in Request : s # r => request'[s] = request[s]
         /\ \A s \in Request : request'[s].op # "idle" => s # r
  BY PcNoOtp DEF PcType, Pc!Close

\* A row of a code that was never there.
LEMMA PcFresh ==
  ASSUME PcType, \E c \in 1..MaxCode : \A d \in Pc!Generated : d < c
  PROVE  /\ Pc!FreshCode \in 1..MaxCode
         /\ \A d \in Pc!Generated : d < Pc!FreshCode
  BY DEF Pc!FreshCode

\* A code is stored, over what was there.
LEMMA PcIssueCode == ASSUME PcInv, NEW r \in Request, Pc!IssueCode(r) PROVE PcInv'
<1> DEFINE p == request[r].purpose
<1>1. /\ request[r].op = "send" /\ Pc!Close(r)
      /\ registered' = registered /\ failures' = failures /\ accepted' = accepted
      /\ \/ otp' = otp /\ guesses' = guesses
         \/ /\ otp' = [otp EXCEPT ![p] = Pc!NewCode(request[r].read, otp[p])]
            /\ guesses' = [guesses EXCEPT ![p] = 0]
  BY DEF Pc!IssueCode
<1>2. p \in Purpose /\ request[r].read \in Pc!OtpRow /\ otp[p] \in Pc!OtpRow
  BY <1>1 DEF PcInv, PcType, PcOpen, Pc!TypeOK, PcRequest
<1> DEFINE fresh == Pc!FreshCode
<1>3. fresh \in 1..MaxCode /\ \A d \in Pc!Generated : d < fresh
  BY PcFresh DEF Pc!IssueCode, PcInv
<1>4. /\ request' \in [Request -> PcRequest]
      /\ \A s \in Request : s # r => request'[s] = request[s]
      /\ \A s \in Request : request'[s].op # "idle" => s # r
  BY <1>1, PcClosed DEF PcInv
<1>5. CASE otp' = otp /\ guesses' = guesses
  <2>1. PcType'
    BY <1>1, <1>4, <1>5 DEF PcInv, PcType, Pc!TypeOK, PcOpen, PcRequest, PcOp
  <2> QED
    BY <1>1, <1>4, <1>5, <2>1
    DEF PcInv, PcDistinct, PcRead, PcGuesses, Pc!WorksOnce, PcOpen
<1>6. CASE /\ otp' = [otp EXCEPT ![p] = Pc!NewCode(request[r].read, otp[p])]
           /\ guesses' = [guesses EXCEPT ![p] = 0]
  <2> DEFINE new == Pc!NewCode(request[r].read, otp[p])
  <2>1. new \in Pc!OtpRow /\ new.code = fresh
    <3> DEFINE read == request[r].read
               consumed == IF read.consumed THEN FALSE ELSE otp[p].consumed
               attempts == IF read.attempts # 0 THEN 0 ELSE otp[p].attempts
    <3>1. consumed \in BOOLEAN /\ attempts \in Nat /\ fresh \in 0..MaxCode
      <4>1. otp[p].consumed \in BOOLEAN /\ otp[p].attempts \in Nat
        BY <1>2 DEF Pc!OtpRow
      <4>2. consumed = FALSE \/ consumed = otp[p].consumed
        BY Zenon
      <4>3. attempts = 0 \/ attempts = otp[p].attempts
        OBVIOUS
      <4> HIDE DEF consumed, attempts
      <4>4. consumed \in BOOLEAN
        BY <4>1, <4>2, Zenon
      <4>5. attempts \in Nat
        BY <4>1, <4>3
      <4>6. fresh \in 0..MaxCode
        BY <1>3, CodesAssumption
      <4> QED
        BY <4>4, <4>5, <4>6
    <3>2. new = [code |-> fresh, expired |-> FALSE, cooling |-> TRUE,
                 consumed |-> consumed, attempts |-> attempts]
      BY DEF Pc!NewCode
    <3> HIDE DEF consumed, attempts, new, fresh
    <3> QED
      BY <3>1, <3>2 DEF Pc!OtpRow
  <2> HIDE DEF new, fresh
  <2>2. otp' \in [Purpose -> Pc!OtpRow] /\ otp'[p].code = fresh /\ otp'[p].attempts \in Nat
        /\ \A q \in Purpose : q # p => otp'[q] = otp[q]
    <3>1. otp' = [otp EXCEPT ![p] = new]
      BY <1>6 DEF new
    <3>2. new.attempts \in Nat
      BY <2>1 DEF Pc!OtpRow
    <3>3. otp \in [Purpose -> Pc!OtpRow]
      BY DEF PcInv, PcType, Pc!TypeOK
    <3> QED
      BY <1>2, <2>1, <3>1, <3>2, <3>3
  <2>3. guesses' \in [Purpose -> Nat] /\ guesses'[p] = 0
        /\ \A q \in Purpose : q # p => guesses'[q] = guesses[q]
    BY <1>2, <1>6 DEF PcInv, PcType, Pc!TypeOK
  <2>4. /\ \A q \in Purpose : otp[q].code \in 0..MaxCode /\ otp[q].code < fresh
        /\ \A a \in accepted : a < fresh
    BY <1>3 DEF Pc!Generated, PcInv, PcType, Pc!TypeOK, Pc!OtpRow
  <2>5. PcType'
    BY <1>1, <1>4, <2>2, <2>3 DEF PcInv, PcType, Pc!TypeOK, PcOpen, PcRequest, PcOp
  <2>6. PcDistinct'
    BY <1>3, <2>2, <2>4 DEF PcInv, PcDistinct
  <2>7. PcRead'
    <3> SUFFICES ASSUME NEW s \in Request, request'[s].op = "right"
                 PROVE  /\ request[s].read.code # 0
                        /\ \E q \in Purpose : request[s].read.code <= otp'[q].code
                        /\ \A q \in Purpose : q # request[s].purpose => otp'[q].code # request[s].read.code
      BY <1>4 DEF PcRead
    <3>1. s # r /\ request[s].op = "right" /\ request[s].read.code \in 0..MaxCode
      BY <1>4 DEF PcInv, PcType, PcRequest, Pc!OtpRow
    <3>2. PICK q \in Purpose : request[s].read.code <= otp[q].code
      BY <3>1 DEF PcInv, PcRead
    <3>3. request[s].read.code < fresh
      BY <1>3, <2>4, <3>1, <3>2
    <3> QED
      BY <1>2, <1>3, <2>2, <3>1, <3>3 DEF PcInv, PcRead
  <2>8. Pc!WorksOnce'
    BY <1>1, <1>3, <2>2, <2>4 DEF PcInv, Pc!WorksOnce
  <2>9. \A q \in Purpose : guesses'[q] <= otp'[q].attempts /\ guesses'[q] <= MaxAttempts
    BY <2>2, <2>3, CodesAssumption DEF PcInv, PcGuesses
  <2>10. \A s \in Request : request'[s].op = "wrong" =>
            /\ request'[s].read.attempts < MaxAttempts
            /\ guesses'[request'[s].purpose] <= request'[s].read.attempts
    <3> SUFFICES ASSUME NEW s \in Request, request'[s].op = "wrong"
                 PROVE  /\ request'[s].read.attempts < MaxAttempts
                        /\ guesses'[request'[s].purpose] <= request'[s].read.attempts
      OBVIOUS
    <3>1. request'[s] = request[s] /\ request[s].op = "wrong"
      BY <1>4
    <3>2. /\ request[s].read.attempts < MaxAttempts /\ request[s].read.attempts \in Nat
          /\ guesses[request[s].purpose] <= request[s].read.attempts
      BY <3>1 DEF PcInv, PcGuesses, PcType, PcRequest, Pc!OtpRow
    <3>3. request[s].purpose \in Purpose
      BY <3>1 DEF PcInv, PcType, PcOpen
    <3> QED
      BY <2>3, <3>1, <3>2, <3>3
  <2>11. PcGuesses'
    BY <1>4, <2>9, <2>10 DEF PcInv, PcGuesses, PcOpen
  <2> QED
    BY <2>5, <2>6, <2>7, <2>8, <2>11 DEF PcInv
<1> QED
  BY <1>1, <1>5, <1>6

\* Failures are counted up to a limit.
LEMMA PcFailed ==
  ASSUME PcType, Pc!Failed PROVE failures' \in 0..MaxFailures
  BY CodesAssumption DEF PcType, Pc!TypeOK, Pc!Failed

\* A wrong guess is counted, from what the request has read.
LEMMA PcWrongCode == ASSUME PcInv, NEW r \in Request, Pc!WrongCode(r) PROVE PcInv'
<1> DEFINE p == request[r].purpose
           n == request[r].read.attempts
<1>1. /\ request[r].op = "wrong" /\ Pc!Close(r)
      /\ registered' = registered /\ accepted' = accepted
      /\ otp' = [otp EXCEPT ![p].attempts = n + 1]
      /\ guesses' = IF request[r].overlap THEN guesses ELSE [guesses EXCEPT ![p] = @ + 1]
      /\ Pc!Failed \/ failures' = failures
  BY DEF Pc!WrongCode
<1>2. p \in Purpose /\ n \in Nat
  BY <1>1 DEF PcInv, PcType, PcOpen, PcRequest, Pc!OtpRow
<1>3. n < MaxAttempts /\ guesses[p] <= n
  BY <1>1 DEF PcInv, PcGuesses
<1>4. /\ request' \in [Request -> PcRequest]
      /\ \A s \in Request : s # r => request'[s] = request[s]
      /\ \A s \in Request : request'[s].op # "idle" => s # r
  BY <1>1, PcClosed DEF PcInv
<1>5. failures' \in 0..MaxFailures
  BY <1>1, PcFailed DEF PcInv, PcType, Pc!TypeOK
<1> HIDE DEF n
<1>6. /\ otp' \in [Purpose -> Pc!OtpRow] /\ otp'[p].attempts = n + 1
      /\ otp'[p].code = otp[p].code /\ otp'[p].consumed = otp[p].consumed
      /\ \A q \in Purpose : q # p => otp'[q] = otp[q]
  BY <1>1, <1>2 DEF PcInv, PcType, Pc!TypeOK, Pc!OtpRow
<1>7. /\ guesses' \in [Purpose -> Nat] /\ guesses'[p] <= n + 1
      /\ request[r].overlap => guesses' = guesses
      /\ \A q \in Purpose : q # p => guesses'[q] = guesses[q]
  BY <1>1, <1>2, <1>3 DEF PcInv, PcType, Pc!TypeOK
<1>8. PcType'
  BY <1>1, <1>4, <1>5, <1>6, <1>7 DEF PcInv, PcType, Pc!TypeOK, PcOpen, PcRequest, PcOp
<1>9. PcDistinct' /\ Pc!WorksOnce'
  BY <1>1, <1>6 DEF PcInv, PcDistinct, Pc!WorksOnce
<1>10. PcRead'
  <2>1. \A q \in Purpose : otp'[q].code = otp[q].code
    BY <1>6
  <2> QED
    BY <1>4, <2>1 DEF PcInv, PcRead
<1>11. \A q \in Purpose : guesses'[q] <= otp'[q].attempts /\ guesses'[q] <= MaxAttempts
  BY <1>2, <1>3, <1>6, <1>7, CodesAssumption DEF PcInv, PcGuesses
<1>12. \A s \in Request : request'[s].op = "wrong" =>
            /\ request'[s].read.attempts < MaxAttempts
            /\ guesses'[request'[s].purpose] <= request'[s].read.attempts
  <2> SUFFICES ASSUME NEW s \in Request, request'[s].op = "wrong"
               PROVE  /\ request[s].read.attempts < MaxAttempts
                      /\ guesses'[request[s].purpose] <= request[s].read.attempts
    BY <1>4
  <2>1. s # r /\ request[s].op = "wrong" /\ PcOpen(s) /\ PcOpen(r)
    BY <1>1, <1>4 DEF PcOpen
  <2>2. guesses' = guesses
    BY <1>7, <2>1 DEF PcInv, PcGuesses
  <2> QED
    BY <2>1, <2>2 DEF PcInv, PcGuesses
<1>13. PcGuesses'
  BY <1>4, <1>11, <1>12 DEF PcInv, PcGuesses, PcOpen
<1> QED
  BY <1>8, <1>9, <1>10, <1>13 DEF PcInv

\* The right code lets in and is used up.
LEMMA PcRightCode == ASSUME PcInv, NEW r \in Request, Pc!RightCode(r) PROVE PcInv'
<1> DEFINE p == request[r].purpose
           c == request[r].read.code
<1>1. /\ request[r].op = "right"
      /\ registered' = registered /\ failures' = failures /\ guesses' = guesses
      /\ otp' = [otp EXCEPT ![p].consumed = TRUE]
      /\ accepted' = accepted \cup {c}
      /\ Pc!Close(r) \/ request' = [request EXCEPT ![r].op = "create"]
  BY DEF Pc!RightCode
<1>2. p \in Purpose /\ c \in 1..MaxCode
  BY <1>1, CodesAssumption DEF PcInv, PcType, PcOpen, PcRequest, Pc!OtpRow, PcRead
<1>3. \A q \in Purpose : q # p => otp[q].code # c
  BY <1>1 DEF PcInv, PcRead
<1>4. /\ request' \in [Request -> PcRequest]
      /\ request'[r].op \in {"idle", "create"}
      /\ request'[r].op # "idle" => request'[r].purpose = p /\ request'[r].overlap = request[r].overlap
      /\ \A s \in Request : s # r => request'[s] = request[s]
  <2>1. CASE Pc!Close(r)
    BY <2>1, PcClosed DEF PcInv
  <2>2. CASE request' = [request EXCEPT ![r].op = "create"]
    BY <2>2 DEF PcInv, PcType, PcRequest, PcOp
  <2> QED
    BY <1>1, <2>1, <2>2
<1> HIDE DEF c
<1>5. /\ otp' \in [Purpose -> Pc!OtpRow]
      /\ otp'[p].consumed
      /\ \A q \in Purpose : otp'[q].code = otp[q].code /\ otp'[q].attempts = otp[q].attempts
      /\ \A q \in Purpose : q # p => otp'[q] = otp[q]
  BY <1>1, <1>2 DEF PcInv, PcType, Pc!TypeOK, Pc!OtpRow
<1>6. PcType'
  <2>1. accepted' \subseteq 1..MaxCode
    BY <1>1, <1>2 DEF PcInv, PcType, Pc!TypeOK
  <2>2. \A s \in Request : /\ request'[s].op \in PcOp /\ request'[s].read \in Pc!OtpRow
                           /\ PcOpen(s)' => request'[s].purpose \in Purpose
    BY <1>1, <1>2, <1>4 DEF PcInv, PcType, PcRequest, PcOpen
  <2> QED
    BY <1>1, <1>4, <1>5, <2>1, <2>2 DEF PcInv, PcType, Pc!TypeOK, PcOp
<1>7. PcDistinct'
  BY <1>5 DEF PcInv, PcDistinct
<1>8. PcRead'
  <2>1. \A s \in Request : request'[s].op = "right" => s # r
    BY <1>4
  <2> QED
    BY <1>4, <1>5, <2>1 DEF PcInv, PcRead
<1>9. PcGuesses'
  <2>1. \A s \in Request : request'[s].op = "wrong" => s # r
    BY <1>4
  <2>2. \A s, t \in Request : s # t /\ PcOpen(s)' /\ PcOpen(t)' => request'[s].overlap
    BY <1>1, <1>4 DEF PcInv, PcGuesses, PcOpen
  <2> QED
    BY <1>1, <1>4, <1>5, <2>1, <2>2 DEF PcInv, PcGuesses
<1>10. Pc!WorksOnce'
  BY <1>1, <1>3, <1>5 DEF PcInv, Pc!WorksOnce
<1> QED
  BY <1>6, <1>7, <1>8, <1>9, <1>10 DEF PcInv

\* What leaves codes and guesses as they are.
LEMMA PcQuiet ==
  ASSUME PcInv, registered' \in BOOLEAN, failures' \in 0..MaxFailures,
         accepted' = accepted, guesses' = guesses,
         \/ otp' = otp
         \/ \E p \in Purpose : otp' = [otp EXCEPT ![p].expired = TRUE]
         \/ \E p \in Purpose : otp' = [otp EXCEPT ![p].cooling = FALSE],
         request' = request \/ \E r \in Request : Pc!Close(r)
  PROVE  PcInv'
<1>1. /\ request' \in [Request -> PcRequest]
      /\ \A s \in Request : request'[s].op # "idle" => request'[s] = request[s]
  BY PcClosed DEF PcInv, PcType
<1>2. /\ otp' \in [Purpose -> Pc!OtpRow]
      /\ \A q \in Purpose : /\ otp'[q].code = otp[q].code /\ otp'[q].attempts = otp[q].attempts
                            /\ otp'[q].consumed = otp[q].consumed
  <2>1. otp \in [Purpose -> Pc!OtpRow]
    BY DEF PcInv, PcType, Pc!TypeOK
  <2>2. ASSUME NEW q \in Purpose
        PROVE  /\ otp'[q] \in Pc!OtpRow
               /\ otp'[q].code = otp[q].code /\ otp'[q].attempts = otp[q].attempts
               /\ otp'[q].consumed = otp[q].consumed
    <3>1. \/ otp'[q] = otp[q]
          \/ otp'[q] = [otp[q] EXCEPT !.expired = TRUE]
          \/ otp'[q] = [otp[q] EXCEPT !.cooling = FALSE]
      BY <2>1
    <3>2. otp[q] \in Pc!OtpRow
      BY <2>1
    <3> QED
      BY <3>1, <3>2 DEF Pc!OtpRow
  <2>3. otp' = [q \in Purpose |-> otp'[q]]
    BY <2>1
  <2> QED
    BY <2>2, <2>3
<1>3. PcType'
  <2>1. \A s \in Request : /\ request'[s].op \in PcOp /\ request'[s].read \in Pc!OtpRow
                           /\ PcOpen(s)' => request'[s].purpose \in Purpose
    BY <1>1 DEF PcInv, PcType, PcRequest, PcOpen
  <2> QED
    BY <1>1, <1>2, <2>1 DEF PcInv, PcType, Pc!TypeOK, PcOp
<1>4. PcDistinct' /\ Pc!WorksOnce'
  BY <1>2 DEF PcInv, PcDistinct, Pc!WorksOnce
<1>5. PcRead'
  BY <1>1, <1>2 DEF PcInv, PcRead
<1>6. PcGuesses'
  BY <1>1, <1>2 DEF PcInv, PcGuesses, PcOpen
<1> QED
  BY <1>3, <1>4, <1>5, <1>6 DEF PcInv

\* Every step of PhoneCodes keeps the invariant.
LEMMA PcStep == PcInv /\ [Pc!Next]_(Pc!vars) => PcInv'
<1> SUFFICES ASSUME PcInv, [Pc!Next]_(Pc!vars) PROVE PcInv'
  OBVIOUS
<1>1. /\ registered \in BOOLEAN /\ failures \in 0..MaxFailures /\ 0 \in 0..MaxFailures
      /\ Pc!Failed => failures' \in 0..MaxFailures
  BY PcFailed, CodesAssumption DEF PcInv, PcType, Pc!TypeOK
<1>2. ASSUME NEW r \in Request, NEW p \in Purpose, Pc!SendCode(r, p) \/ Pc!CheckCode(r, p)
      PROVE  PcInv'
  <2>1. CASE Pc!SendCode(r, p)
    BY <2>1, PcBegin DEF Pc!SendCode, PcOp
  <2>2. CASE Pc!CheckCode(r, p)
    BY <2>2, PcBegin DEF Pc!CheckCode, PcOp
  <2> QED
    BY <1>2, <2>1, <2>2
<1>3. ASSUME NEW r \in Request, Pc!CreateAccount(r) \/ Pc!Die(r) PROVE PcInv'
  BY <1>1, <1>3, PcQuiet DEF Pc!CreateAccount, Pc!Die
<1>4. ASSUME NEW p \in Purpose,
             Pc!RefuseCode(p) \/ Pc!TwilioCheck(p) \/ Pc!Expire(p) \/ Pc!Cool(p)
      PROVE  PcInv'
  BY <1>1, <1>4, PcQuiet DEF Pc!RefuseCode, Pc!TwilioCheck, Pc!Expire, Pc!Cool
<1>5. ASSUME Pc!PasswordRefused \/ Pc!FailuresGrowOld \/ UNCHANGED Pc!vars PROVE PcInv'
  BY <1>1, <1>5, PcQuiet DEF Pc!PasswordRefused, Pc!FailuresGrowOld, Pc!vars
<1>6. ASSUME NEW r \in Request, Pc!IssueCode(r) \/ Pc!WrongCode(r) \/ Pc!RightCode(r) PROVE PcInv'
  BY <1>6, PcIssueCode, PcWrongCode, PcRightCode
<1> QED
  BY <1>2, <1>3, <1>4, <1>5, <1>6 DEF Pc!Next

\* The invariant, of the component when it is the one that runs.
CodesHold == component = "phone codes" => PcInv

\* It holds in every state.
LEMMA CodesInvariant == Spec => []CodesHold
<1>1. Init => CodesHold
  BY PcInit DEF Init, CodesHold
<1>2. CodesHold /\ [Next]_vars => CodesHold'
  <2> SUFFICES ASSUME CodesHold, [Next]_vars, component' = "phone codes" PROVE PcInv'
    BY DEF CodesHold
  <2>1. CASE PhoneCodesStep
    BY <2>1, PcStep DEF PhoneCodesStep, CodesHold
  <2>2. CASE UNCHANGED vars
    BY <2>2, PcStep DEF vars, pcVars, Pc!vars, CodesHold
  <2>3. CASE Next /\ ~PhoneCodesStep
    BY <2>3 DEF Next, IdentitiesStep, SessionsStep, CouponsStep, OutboxStep, MediaStep,
       MessagesStep, ListingsStep, PayoutsStep, SharingStep
  <2> QED
    BY <2>1, <2>2, <2>3
<1> QED
  BY <1>1, <1>2, PTL DEF Spec

\* CodeIsProof: a code lets in once (consume_otp_code), and of the guesses that no
\* other request overlaps no more than otp_max_attempts are made at one code.
THEOREM CodeLetsInOnce == Spec => []CodeIsProof
<1>1. CodesHold => CodeIsProof
  BY DEF CodesHold, CodeIsProof, Pc!CodeIsProof, PcInv, PcGuesses, Pc!GuessesCounted
<1> QED
  BY <1>1, CodesInvariant, PTL
=============================================================================

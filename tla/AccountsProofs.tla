---------------------------- MODULE AccountsProofs ----------------------------
(***************************************************************************)
(* What holds of the rows of users however the calls on them overlap and   *)
(* overwrite each other, for any number of users and calls.                *)
(*                                                                         *)
(* AccountsInv says of everything that may be written to a row later, the  *)
(* entities and what save selected, that a reset token stands with the end *)
(* of its own hour: then save finds both columns different or neither.     *)
(*                                                                         *)
(* PastInv relates rows and copies to what has happened.  As long as a row *)
(* has not changed since a call loaded it, the entity differs from it only *)
(* in what the call is about; and each token was made for one address and  *)
(* one user, wherever it stands: in rows, copies or mails.                 *)
(***************************************************************************)
EXTENDS Accounts, TLAPS

RowOK(r) == r \in Row /\ r.rtok = r.rexp

RowsOK ==
  /\ rows \in [Ids -> Row \cup {NoUser}]
  /\ ResetTokenHasItsExpiry
  /\ OneAccountPerEmail

Present == {u \in Ids : Exists(u)}

\* A call in which all copies are good and whose user is one of users.
CallOK(c, users) ==
  /\ c \in Call
  /\ c.row # NoUser => RowOK(c.row)
  /\ c.seen # NoUser => RowOK(c.seen)
  /\ c.at \in {"insert", "wallet", "check", "select", "update", "mail"} => c.row # NoUser
  /\ c.at = "update" => c.seen # NoUser
  /\ c.at \in {"wallet", "check", "select", "update", "column", "mail"} => c.id \in users
  /\ c.at = "check" => c.arg \in Emails

CallsOK ==
  /\ hs \in [Handlers -> Call]
  /\ \A h \in Handlers : CallOK(hs[h], Present)

AccountsInv ==
  /\ RowsOK /\ CallsOK
  /\ minted \in Nat
  /\ mailed \subseteq Mail
  /\ ver \in [Ids -> Nat]

-----------------------------------------------------------------------------
(* Rows *)

LEMMA GuestOK == RowOK(Guest)
BY DEF RowOK, Guest, Row, Token

LEMMA RegisteredOK ==
  ASSUME NEW e \in Emails, NEW a \in Nat, NEW b \in Nat
  PROVE  RowOK(Registered(e, a, b))
BY GuestOK DEF RowOK, Registered, Row, Token

LEMMA ChangedOK ==
  ASSUME NEW r, RowOK(r)
  PROVE  /\ RowOK(Verified(r))
         /\ RowOK([r EXCEPT !.profile = 1 - @])
         /\ RowOK([r EXCEPT !.active = "new"])
         /\ RowOK([r EXCEPT !.active = "old"])
         /\ RowOK([r EXCEPT !.banned = TRUE])
         /\ RowOK([r EXCEPT !.banned = FALSE])
<1>1. RowOK(Verified(r))
  BY DEF RowOK, Verified, Row, Token
<1>2. RowOK([r EXCEPT !.profile = 1 - @])
  BY DEF RowOK, Row, Token
<1>3. RowOK([r EXCEPT !.active = "new"]) /\ RowOK([r EXCEPT !.active = "old"])
  BY DEF RowOK, Row, Token
<1>4. RowOK([r EXCEPT !.banned = TRUE]) /\ RowOK([r EXCEPT !.banned = FALSE])
  BY DEF RowOK, Row, Token
<1> QED
  BY <1>1, <1>2, <1>3, <1>4

LEMMA TokenChangedOK ==
  ASSUME NEW r, RowOK(r), NEW a \in Nat
  PROVE  /\ RowOK(ResetAsked(r, a))
         /\ RowOK(PasswordReset(r, a))
         /\ RowOK([r EXCEPT !.vtok = a])
<1>1. RowOK(ResetAsked(r, a))
  BY DEF RowOK, ResetAsked, Row, Token
<1>2. RowOK(PasswordReset(r, a))
  BY DEF RowOK, PasswordReset, Row, Token
<1>3. RowOK([r EXCEPT !.vtok = a])
  BY DEF RowOK, Row, Token
<1> QED
  BY <1>1, <1>2, <1>3

LEMMA LinkedOK ==
  ASSUME NEW r, RowOK(r), NEW e \in Emails, NEW a \in Nat, NEW b \in Nat
  PROVE  RowOK(Linked(r, e, a, b))
BY DEF RowOK, Linked, Row, Token

LEMMA AddressOK ==
  ASSUME NEW r, RowOK(r), NEW ip \in Ips
  PROVE  RowOK([r EXCEPT !.adminIp = ip])
BY DEF RowOK, Row, Token

\* A save writes token and expiry together, or neither.
LEMMA MergedOK ==
  ASSUME NEW e, RowOK(e), NEW s, RowOK(s), NEW r, RowOK(r)
  PROVE  RowOK(Merged(e, s, r))
<1> DEFINE m == Merged(e, s, r)
           pick(x, y, z) == IF x # y THEN x ELSE z
<1>1. DOMAIN r = {"email", "hash", "verified", "vtok", "rtok", "rexp", "guest", "banned",
                  "adminIp", "active", "profile"}
  BY DEF RowOK, Row
<1>2. m = [email |-> pick(e.email, s.email, r.email),
           hash |-> pick(e.hash, s.hash, r.hash),
           verified |-> pick(e.verified, s.verified, r.verified),
           vtok |-> pick(e.vtok, s.vtok, r.vtok),
           rtok |-> pick(e.rtok, s.rtok, r.rtok),
           rexp |-> pick(e.rexp, s.rexp, r.rexp),
           guest |-> pick(e.guest, s.guest, r.guest),
           banned |-> pick(e.banned, s.banned, r.banned),
           adminIp |-> pick(e.adminIp, s.adminIp, r.adminIp),
           active |-> pick(e.active, s.active, r.active),
           profile |-> pick(e.profile, s.profile, r.profile)]
  BY <1>1 DEF Merged
<1>3. m \in Row
  BY <1>2 DEF RowOK, Row
<1>4. m.rtok = pick(e.rtok, s.rtok, r.rtok) /\ m.rexp = pick(e.rexp, s.rexp, r.rexp)
  BY <1>2
<1> QED
  BY <1>3, <1>4 DEF RowOK

LEMMA RowThere ==
  ASSUME RowsOK, NEW u \in Ids, Exists(u)
  PROVE  RowOK(rows[u])
BY DEF RowsOK, RowOK, Exists, ResetTokenHasItsExpiry

\* A row written for u is good if its e-mail is nobody else's.
LEMMA RowReplaced ==
  ASSUME RowsOK, NEW u \in Ids, NEW r, RowOK(r), ~Taken(r.email, u),
         rows' = [rows EXCEPT ![u] = r]
  PROVE  RowsOK' /\ Present \subseteq Present'
<1>1. r # NoUser
  BY AccountsAssumption DEF RowOK
<1>2. /\ rows' \in [Ids -> Row \cup {NoUser}]
      /\ rows'[u] = r /\ \A v \in Ids \ {u} : rows'[v] = rows[v]
  BY DEF RowsOK, RowOK
<1>3. Present \subseteq Present'
  BY <1>1, <1>2 DEF Present, Exists
<1>4. ResetTokenHasItsExpiry'
  BY <1>2 DEF RowsOK, RowOK, ResetTokenHasItsExpiry, Exists
<1>5. \A v \in Ids \ {u} : rows[v] # NoUser /\ rows[v].email = r.email => r.email = None
  BY DEF Taken, Exists
<1>6. OneAccountPerEmail'
  <2> SUFFICES ASSUME NEW v \in Ids, NEW w \in Ids,
                      rows'[v] # NoUser, rows'[w] # NoUser, rows'[v].email = rows'[w].email
               PROVE  v = w \/ rows'[v].email = None
    BY DEF OneAccountPerEmail, Exists
  <2>1. CASE v # u /\ w # u
    BY <1>2, <2>1 DEF RowsOK, OneAccountPerEmail, Exists
  <2>2. CASE v = u /\ w # u
    BY <1>2, <1>5, <2>2
  <2>3. CASE v # u /\ w = u
    BY <1>2, <1>5, <2>3
  <2> QED
    BY <2>1, <2>2, <2>3
<1> QED
  BY <1>2, <1>3, <1>4, <1>6 DEF RowsOK

-----------------------------------------------------------------------------
(* Calls *)

LEMMA RowsUnchanged ==
  ASSUME RowsOK, UNCHANGED rows
  PROVE  RowsOK' /\ Present' = Present
BY DEF RowsOK, ResetTokenHasItsExpiry, OneAccountPerEmail, Present, Exists

LEMMA IdleOK == \A users : CallOK(Idle, users) /\ Idle.at = "idle"
BY DEF CallOK, Idle, Call, Kind, Phase, Token

\* One call is replaced by a good one, and users do not go.
LEMMA CallReplaced ==
  ASSUME CallsOK, NEW h \in Handlers, NEW c, CallOK(c, Present'),
         hs' = [hs EXCEPT ![h] = c], Present \subseteq Present'
  PROVE  CallsOK'
<1>1. hs' \in [Handlers -> Call] /\ hs'[h] = c /\ \A g \in Handlers \ {h} : hs'[g] = hs[g]
  BY DEF CallsOK, CallOK
<1>2. \A g \in Handlers \ {h} : CallOK(hs'[g], Present')
  BY <1>1 DEF CallsOK, CallOK
<1> QED
  BY <1>1, <1>2 DEF CallsOK

LEMMA DoneOK ==
  ASSUME CallsOK, NEW h \in Handlers, Done(h), Present \subseteq Present'
  PROVE  CallsOK'
BY IdleOK, CallReplaced DEF Done

\* A call that goes on as it was, in another phase that needs no more.
LEMMA PhaseOK ==
  ASSUME NEW c, NEW users, CallOK(c, users), NEW at \in {"wallet", "mail", "granted"},
         at # "granted" => c.id \in users /\ c.row # NoUser
  PROVE  CallOK([c EXCEPT !.at = at], users)
<1> DEFINE d == [c EXCEPT !.at = at]
<1>1. /\ d \in Call /\ d.at = at /\ d.row = c.row /\ d.seen = c.seen /\ d.id = c.id
  BY DEF CallOK, Call, Phase
<1> QED
  BY <1>1 DEF CallOK

\* A call that has loaded a row and is to save a good one.
LEMMA ChangeOK ==
  ASSUME AccountsInv, NEW h \in Handlers, NEW u \in Ids, Exists(u), NEW kind \in Kind,
         NEW r, RowOK(r), NEW arg \in Emails \cup Ips \cup Token,
         Change(h, kind, u, r, arg), UNCHANGED rows
  PROVE  CallsOK' /\ RowsOK'
<1> DEFINE c == [kind |-> kind, at |-> "select", id |-> u, row |-> r, seen |-> NoUser,
                 base |-> ver[u], arg |-> arg]
<1>1. RowsOK' /\ Present' = Present /\ u \in Present'
  BY RowsUnchanged DEF AccountsInv, Present
<1>2. c \in Call
  BY DEF AccountsInv, Call, Phase, RowOK
<1>3. CallOK(c, Present')
  BY <1>1, <1>2, AccountsAssumption DEF CallOK, RowOK
<1>4. hs' = [hs EXCEPT ![h] = c]
  BY DEF Change
<1> HIDE DEF c
<1> QED
  BY <1>1, <1>3, <1>4, CallReplaced DEF AccountsInv

-----------------------------------------------------------------------------
(* The steps *)

LEMMA StartsWell == Init => AccountsInv
<1> SUFFICES ASSUME Init PROVE AccountsInv
  OBVIOUS
<1>1. rows \in [Ids -> Row \cup {NoUser}]
  BY AccountsAssumption DEF Init
<1>2. RowsOK
  BY <1>1, InitialRowsAssumption DEF RowsOK, Init, ResetTokenHasItsExpiry, OneAccountPerEmail, Exists
<1>3. Idle \in Call
  BY IdleOK DEF CallOK
<1>4. CallsOK
  BY <1>3, IdleOK DEF Init, CallsOK
<1>5. mailed \subseteq Mail
  <2>1. \A u \in Ids : Exists(u) => rows[u] \in Row
    BY <1>1 DEF Exists
  <2>2. \A u \in Ids : Exists(u) =>
          [what |-> "verify", tok |-> rows[u].vtok, to |-> rows[u].email, id |-> u] \in Mail
    BY <2>1 DEF Mail, Row
  <2> QED
    BY <2>2 DEF Init
<1> QED
  BY <1>2, <1>4, <1>5 DEF Init, AccountsInv, FirstMinted

LEMMA SelectKeeps ==
  ASSUME AccountsInv, NEW h \in Handlers, Select(h)
  PROVE  AccountsInv'
<1> DEFINE c == [hs[h] EXCEPT !.at = "update", !.seen = rows[hs[h].id]]
<1>1. RowsOK' /\ Present' = Present
  BY RowsUnchanged DEF AccountsInv, Select, rowVars
<1>2. /\ hs[h] \in Call /\ CallOK(hs[h], Present) /\ hs[h].at = "select"
      /\ hs[h].id \in Present /\ hs[h].row # NoUser
  BY DEF AccountsInv, CallsOK, CallOK, Select
<1>3. RowOK(rows[hs[h].id])
  BY <1>2, RowThere DEF Present, AccountsInv
<1>4. /\ c \in Call /\ c.row = hs[h].row /\ c.id = hs[h].id /\ c.at = "update"
      /\ c.seen = rows[hs[h].id]
  BY <1>2, <1>3 DEF Call, Phase, RowOK
<1>5. c.seen # NoUser
  BY <1>3, <1>4, AccountsAssumption DEF RowOK
<1> HIDE DEF c
<1>6. CallOK(c, Present')
  BY <1>1, <1>2, <1>3, <1>4, <1>5 DEF CallOK
<1>7. hs' = [hs EXCEPT ![h] = c]
  BY <1>2 DEF Select, c, CallsOK, AccountsInv
<1>8. CallsOK'
  BY <1>1, <1>6, <1>7, CallReplaced DEF AccountsInv
<1> QED
  BY <1>1, <1>8 DEF AccountsInv, Select, inputs

\* Where a call goes after its update.
LEMMA OnwardOK ==
  ASSUME AccountsInv, NEW h \in Handlers, hs[h].at = "update", NEW now \in Nat, NEW users,
         Present \subseteq users
  PROVE  CallOK(Onward(h, now), users)
<1> DEFINE c == hs[h]
<1>1. /\ c \in Call /\ c.at = "update" /\ c.row # NoUser /\ RowOK(c.row) /\ c.id \in users
      /\ CallOK(c, users) /\ c.id \in Ids
  BY DEF AccountsInv, CallsOK, CallOK, Present
<1>2. ver[c.id] \in Nat
  BY <1>1 DEF AccountsInv
<1>3. CASE c.kind \in {"resend", "forgot", "link"}
  BY <1>1, <1>3, PhaseOK DEF Onward
<1>4. CASE c.kind = "firstIp" /\ c.row.active # "old"
  <2> DEFINE d == [c EXCEPT !.kind = "session", !.at = "select", !.row.active = "new",
                            !.seen = NoUser, !.base = IF @ = ver[c.id] THEN now ELSE @]
  <2>1. Onward(h, now) = d
    BY <1>4 DEF Onward
  <2>2. RowOK([c.row EXCEPT !.active = "new"])
    BY <1>1, ChangedOK
  <2>3. /\ d \in Call /\ d.at = "select" /\ d.row = [c.row EXCEPT !.active = "new"]
        /\ d.id = c.id /\ d.seen = NoUser
    BY <1>1, <1>2, <2>2 DEF Call, Kind, Phase, RowOK
  <2> HIDE DEF d
  <2>4. d.row # NoUser
    BY <2>2, <2>3, AccountsAssumption DEF RowOK
  <2> QED
    BY <1>1, <2>1, <2>2, <2>3, <2>4 DEF CallOK
<1>5. CASE c.kind = "firstIp" /\ c.row.active = "old"
  BY <1>5, IdleOK DEF Onward
<1>6. CASE c.kind = "session"
  BY <1>1, <1>6, PhaseOK DEF Onward
<1>7. CASE c.kind \notin {"resend", "forgot", "link", "firstIp", "session"}
  BY <1>7, IdleOK DEF Onward
<1> QED
  BY <1>3, <1>4, <1>5, <1>6, <1>7

LEMMA UpdateKeeps ==
  ASSUME AccountsInv, NEW h \in Handlers, Update(h)
  PROVE  AccountsInv'
<1> DEFINE u   == hs[h].id
           new == Merged(hs[h].row, hs[h].seen, rows[u])
           now == IF new = rows[u] THEN ver[u] ELSE ver[u] + 1
<1>1. /\ hs[h].at = "update" /\ hs[h].row # NoUser /\ RowOK(hs[h].row)
      /\ hs[h].seen # NoUser /\ RowOK(hs[h].seen) /\ u \in Ids /\ Exists(u)
  BY DEF AccountsInv, CallsOK, CallOK, Present, Update
<1>2. RowOK(new)
  BY <1>1, RowThere, MergedOK DEF AccountsInv
<1>3. now \in Nat
  BY <1>1 DEF AccountsInv
<1>4. minted' = minted /\ mailed' = mailed
  BY DEF Update, inputs
<1>5. CASE Taken(new.email, u)
  <2>1. Done(h) /\ UNCHANGED <<rows, ver>>
    BY <1>5 DEF Update
  <2>2. RowsOK' /\ Present' = Present
    BY <2>1, RowsUnchanged DEF AccountsInv
  <2> QED
    BY <1>4, <2>1, <2>2, DoneOK DEF AccountsInv
<1>6. CASE ~Taken(new.email, u)
  <2>1. /\ rows' = [rows EXCEPT ![u] = new]
        /\ ver' = [ver EXCEPT ![u] = now]
        /\ hs' = [hs EXCEPT ![h] = Onward(h, now)]
    BY <1>6 DEF Update
  <2>2. RowsOK' /\ Present \subseteq Present'
    BY <1>1, <1>2, <1>6, <2>1, RowReplaced DEF AccountsInv
  <2>3. CallOK(Onward(h, now), Present')
    BY <1>1, <1>3, <2>2, OnwardOK
  <2>4. CallsOK'
    BY <2>1, <2>2, <2>3, CallReplaced DEF AccountsInv
  <2>5. ver' \in [Ids -> Nat]
    BY <1>3, <2>1 DEF AccountsInv
  <2> QED
    BY <1>4, <2>2, <2>4, <2>5 DEF AccountsInv
<1> QED
  BY <1>5, <1>6

LEMMA SendMailKeeps ==
  ASSUME AccountsInv, NEW h \in Handlers, SendMail(h)
  PROVE  AccountsInv'
<1>1. RowsOK' /\ Present' = Present
  BY RowsUnchanged DEF AccountsInv, SendMail, rowVars
<1>2. RowOK(hs[h].row) /\ hs[h].id \in Ids
  BY DEF AccountsInv, CallsOK, CallOK, Present, SendMail
<1>3. /\ hs[h].row.rtok \in Token /\ hs[h].row.vtok \in Token
      /\ hs[h].row.email \in Emails \cup {None}
  BY <1>2 DEF RowOK, Row
<1>4. mailed' \subseteq Mail
  <2> DEFINE mail == [what |-> IF hs[h].kind = "forgot" THEN "reset" ELSE "verify",
                      tok  |-> IF hs[h].kind = "forgot" THEN hs[h].row.rtok ELSE hs[h].row.vtok,
                      to   |-> hs[h].row.email, id |-> hs[h].id]
  <2>1. mail \in Mail
    BY <1>2, <1>3 DEF Mail
  <2>2. mailed' = mailed \cup {mail} \/ mailed' = mailed
    BY DEF SendMail
  <2> QED
    BY <2>1, <2>2 DEF AccountsInv
<1>5. CallsOK'
  BY <1>1, DoneOK DEF AccountsInv, SendMail
<1> QED
  BY <1>1, <1>4, <1>5 DEF AccountsInv, SendMail

\* A call that begins without having loaded a row for saving.
LEMMA BeginOK ==
  ASSUME AccountsInv, NEW h \in Handlers, NEW c, CallOK(c, Present),
         hs' = [hs EXCEPT ![h] = c], UNCHANGED rows
  PROVE  RowsOK' /\ CallsOK'
<1>1. RowsOK' /\ Present' = Present
  BY RowsUnchanged DEF AccountsInv
<1> QED
  BY <1>1, CallReplaced DEF AccountsInv

LEMMA MintOK ==
  ASSUME minted \in Nat, NEW n \in Nat, Mint(n)
  PROVE  minted' \in Nat
BY DEF Mint

LEMMA RegistrationKeeps ==
  ASSUME AccountsInv, NEW h \in Handlers, (\E e \in Emails : Register(h, e)) \/ GuestLogin(h)
  PROVE  AccountsInv'
<1>1. UNCHANGED <<rows, ver, mailed>>
  BY DEF Register, GuestLogin, Rest, rowVars, inputs
<1>2. ASSUME NEW e \in Emails, Register(h, e)
      PROVE  AccountsInv'
  <2> DEFINE r == Registered(e, minted + 1, minted + 2)
             c == [Idle EXCEPT !.kind = "register", !.at = "insert", !.row = r]
  <2>1. RowOK(r)
    BY RegisteredOK DEF AccountsInv
  <2>2. r # NoUser
    BY <2>1, AccountsAssumption DEF RowOK
  <2> HIDE DEF r
  <2>3. c \in Call /\ c.at = "insert" /\ c.row = r /\ c.seen = NoUser
    BY <2>1 DEF Idle, Call, Kind, Phase, Token, RowOK
  <2>4. hs' = [hs EXCEPT ![h] = c]
    BY <1>2 DEF Register, r
  <2> HIDE DEF c
  <2>5. CallOK(c, Present)
    BY <2>1, <2>2, <2>3 DEF CallOK
  <2>6. minted' \in Nat
    BY <1>2, MintOK DEF Register, AccountsInv
  <2> QED
    BY <1>1, <2>4, <2>5, <2>6, BeginOK DEF AccountsInv
<1>3. ASSUME GuestLogin(h)
      PROVE  AccountsInv'
  <2> DEFINE c == [Idle EXCEPT !.kind = "guest", !.at = "insert", !.row = Guest]
  <2>2. Guest # NoUser
    BY GuestOK, AccountsAssumption DEF RowOK
  <2>3. c \in Call /\ c.at = "insert" /\ c.row = Guest /\ c.seen = NoUser
    BY GuestOK DEF Idle, Call, Kind, Phase, Token, RowOK
  <2>4. hs' = [hs EXCEPT ![h] = c]
    BY <1>3 DEF GuestLogin
  <2> HIDE DEF c
  <2>5. CallOK(c, Present)
    BY <2>2, <2>3, GuestOK DEF CallOK
  <2>6. minted' = minted
    BY <1>3 DEF GuestLogin
  <2> QED
    BY <1>1, <2>4, <2>5, <2>6, BeginOK DEF AccountsInv
<1> QED
  BY <1>2, <1>3

LEMMA InsertKeeps ==
  ASSUME AccountsInv, NEW h \in Handlers, NEW u \in Ids, Insert(h, u)
  PROVE  AccountsInv'
<1>1. UNCHANGED <<minted, mailed, ver>> /\ hs[h].at = "insert"
  BY DEF Insert, inputs
<1>2. CallOK(hs[h], Present) /\ hs[h] \in Call /\ hs[h].row # NoUser /\ RowOK(hs[h].row)
  BY <1>1 DEF AccountsInv, CallsOK, CallOK
<1>3. CASE Taken(hs[h].row.email, u)
  <2>1. Done(h) /\ UNCHANGED rows
    BY <1>3 DEF Insert
  <2>2. RowsOK' /\ Present' = Present
    BY <2>1, RowsUnchanged DEF AccountsInv
  <2> QED
    BY <1>1, <2>1, <2>2, DoneOK DEF AccountsInv
<1>4. CASE ~Taken(hs[h].row.email, u)
  <2> DEFINE c == [hs[h] EXCEPT !.at = "wallet", !.id = u]
  <2>1. rows' = [rows EXCEPT ![u] = hs[h].row] /\ hs' = [hs EXCEPT ![h] = c]
    BY <1>4, <1>2 DEF Insert, CallsOK, AccountsInv
  <2>2. RowsOK' /\ Present \subseteq Present'
    BY <1>2, <1>4, <2>1, RowReplaced DEF AccountsInv
  <2>3. u \in Present'
    BY <1>2, <2>1 DEF Present, Exists, AccountsInv, RowsOK
  <2>4. c \in Call /\ c.at = "wallet" /\ c.id = u /\ c.row = hs[h].row /\ c.seen = hs[h].seen
    BY <1>2 DEF Call, Phase
  <2> HIDE DEF c
  <2>5. CallOK(c, Present')
    BY <1>2, <2>3, <2>4 DEF CallOK
  <2> QED
    BY <1>1, <2>1, <2>2, <2>5, CallReplaced DEF AccountsInv
<1> QED
  BY <1>3, <1>4

LEMMA InsertWalletKeeps ==
  ASSUME AccountsInv, NEW h \in Handlers, InsertWallet(h)
  PROVE  AccountsInv'
<1>1. UNCHANGED <<rows, minted, mailed, ver>> /\ hs[h].at = "wallet"
  BY DEF InsertWallet, inputs
<1>2. RowsOK' /\ Present' = Present
  BY <1>1, RowsUnchanged DEF AccountsInv
<1>3. CASE hs[h].kind = "register"
  <2>1. CallOK(hs[h], Present) /\ hs[h].id \in Present /\ hs[h].row # NoUser
    BY <1>1 DEF AccountsInv, CallsOK, CallOK
  <2>2. CallOK([hs[h] EXCEPT !.at = "mail"], Present)
    BY <2>1, PhaseOK
  <2>3. hs' = [hs EXCEPT ![h] = [hs[h] EXCEPT !.at = "mail"]]
    BY <1>3 DEF InsertWallet, AccountsInv, CallsOK
  <2> QED
    BY <1>1, <2>2, <2>3, BeginOK DEF AccountsInv
<1>4. CASE hs[h].kind # "register"
  BY <1>1, <1>2, <1>4, DoneOK DEF InsertWallet, AccountsInv
<1> QED
  BY <1>3, <1>4

LEMMA UserCallKeeps ==
  ASSUME AccountsInv, NEW h \in Handlers, NEW u \in Ids, UserCall(h, u)
  PROVE  AccountsInv'
<1> USE DEF Rest, rowVars, inputs
<1> DEFINE t == minted + 1
<1>1. t \in Nat /\ None \in Token
  BY DEF AccountsInv, Token
<1>2. Exists(u)
  BY DEF UserCall, ResendVerification, ForgotPassword, UpdateProfile, VerifyEmail, ResetPassword, LinkEmail
<1>3. RowOK(rows[u])
  BY <1>2, RowThere DEF AccountsInv
<1>4. CASE ResendVerification(h, u)
  <2>1. RowOK([rows[u] EXCEPT !.vtok = minted + 1])
    BY <1>1, <1>3, TokenChangedOK
  <2>2. RowsOK' /\ CallsOK'
    BY <1>1, <1>2, <1>4, <2>1, ChangeOK DEF ResendVerification, Kind
  <2> QED
    BY <1>4, <2>2, MintOK DEF ResendVerification, AccountsInv
<1>5. CASE ForgotPassword(h, u)
  <2>1. RowOK(ResetAsked(rows[u], minted + 1))
    BY <1>1, <1>3, TokenChangedOK
  <2>2. RowsOK' /\ CallsOK'
    BY <1>1, <1>2, <1>5, <2>1, ChangeOK DEF ForgotPassword, Kind
  <2> QED
    BY <1>5, <2>2, MintOK DEF ForgotPassword, AccountsInv
<1>6. CASE UpdateProfile(h, u)
  <2>1. RowOK([rows[u] EXCEPT !.profile = 1 - @])
    BY <1>3, ChangedOK
  <2>2. RowsOK' /\ CallsOK'
    BY <1>1, <1>2, <1>6, <2>1, ChangeOK DEF UpdateProfile, Kind
  <2> QED
    BY <1>6, <2>2 DEF UpdateProfile, AccountsInv
<1>7. ASSUME NEW m \in mailed, VerifyEmail(h, m, u)
      PROVE  AccountsInv'
  <2>1. RowOK(Verified(rows[u])) /\ m.tok \in Token
    BY <1>3, ChangedOK DEF AccountsInv, Mail
  <2>2. RowsOK' /\ CallsOK'
    BY <1>2, <1>7, <2>1, ChangeOK DEF VerifyEmail, Kind
  <2> QED
    BY <1>7, <2>2 DEF VerifyEmail, AccountsInv
<1>8. ASSUME NEW m \in mailed, ResetPassword(h, m, u)
      PROVE  AccountsInv'
  <2>1. RowOK(PasswordReset(rows[u], minted + 1)) /\ m.tok \in Token
    BY <1>1, <1>3, TokenChangedOK DEF AccountsInv, Mail
  <2>2. RowsOK' /\ CallsOK'
    BY <1>2, <1>8, <2>1, ChangeOK DEF ResetPassword, Kind
  <2> QED
    BY <1>8, <2>2, MintOK DEF ResetPassword, AccountsInv
<1>9. ASSUME NEW e \in Emails, LinkEmail(h, u, e)
      PROVE  AccountsInv'
  <2> DEFINE c == [Idle EXCEPT !.kind = "link", !.at = "check", !.id = u,
                               !.row = rows[u], !.base = ver[u], !.arg = e]
  <2>1. rows[u] # NoUser /\ u \in Present
    BY <1>2 DEF Exists, Present
  <2>2. /\ c \in Call /\ c.at = "check" /\ c.row = rows[u] /\ c.seen = NoUser
        /\ c.id = u /\ c.arg = e
    BY <1>3 DEF Idle, Call, Kind, Phase, Token, RowOK, AccountsInv
  <2>3. hs' = [hs EXCEPT ![h] = c]
    BY <1>9 DEF LinkEmail
  <2> HIDE DEF c
  <2>4. CallOK(c, Present)
    BY <1>3, <2>1, <2>2 DEF CallOK
  <2> QED
    BY <1>9, <2>3, <2>4, BeginOK DEF LinkEmail, AccountsInv
<1> QED
  BY <1>4, <1>5, <1>6, <1>7, <1>8, <1>9 DEF UserCall

LEMMA CheckEmailKeeps ==
  ASSUME AccountsInv, NEW h \in Handlers, CheckEmail(h)
  PROVE  AccountsInv'
<1> USE DEF Rest, rowVars, inputs
<1>1. UNCHANGED <<rows, mailed, ver>> /\ hs[h].at = "check"
  BY DEF CheckEmail
<1>2. RowsOK' /\ Present' = Present
  BY <1>1, RowsUnchanged DEF AccountsInv
<1>3. CASE Done(h) /\ UNCHANGED minted
  BY <1>1, <1>2, <1>3, DoneOK DEF AccountsInv
<1>4. CASE ~(Done(h) /\ UNCHANGED minted)
  <2> DEFINE r == Linked(hs[h].row, hs[h].arg, minted + 1, minted + 2)
             c == [hs[h] EXCEPT !.at = "select", !.row = r]
  <2>1. /\ hs[h] \in Call /\ RowOK(hs[h].row) /\ hs[h].arg \in Emails
        /\ hs[h].id \in Present /\ CallOK(hs[h], Present)
    BY <1>1 DEF AccountsInv, CallsOK, CallOK
  <2>2. RowOK(r)
    BY <2>1, LinkedOK DEF AccountsInv
  <2>3. r # NoUser
    BY <2>2, AccountsAssumption DEF RowOK
  <2>4. hs' = [hs EXCEPT ![h] = c] /\ Mint(2)
    BY <1>4 DEF CheckEmail, AccountsInv, CallsOK
  <2> HIDE DEF r
  <2>5. /\ c \in Call /\ c.at = "select" /\ c.row = r /\ c.seen = hs[h].seen
        /\ c.id = hs[h].id
    BY <2>1, <2>2 DEF Call, Phase, RowOK
  <2> HIDE DEF c
  <2>6. CallOK(c, Present)
    BY <2>1, <2>2, <2>3, <2>5 DEF CallOK
  <2> QED
    BY <1>1, <2>4, <2>6, BeginOK, MintOK DEF AccountsInv
<1> QED
  BY <1>3, <1>4

LEMMA AdminCallKeeps ==
  ASSUME AccountsInv, NEW h \in Handlers, NEW u \in Ids, AdminCall(h, u) \/ Decide(h, u)
  PROVE  AccountsInv'
<1> USE DEF Rest, rowVars, inputs
<1>1. UNCHANGED <<rows, mailed, ver, minted>>
  BY DEF AdminCall, Login, CheckAdmin, ActivityPing, Decide
<1>2. RowsOK' /\ Present' = Present /\ None \in Token
  BY <1>1, RowsUnchanged DEF AccountsInv, Token
<1>3. Exists(u) => RowOK(rows[u])
  BY RowThere DEF AccountsInv
<1>4. Exists(u) => /\ RowOK([rows[u] EXCEPT !.active = "new"])
                   /\ RowOK([rows[u] EXCEPT !.banned = TRUE])
                   /\ RowOK([rows[u] EXCEPT !.banned = FALSE])
  BY <1>3, ChangedOK
<1>5. CASE Login(h, u)
  <2>1. CallsOK'
    BY <1>1, <1>2, <1>4, <1>5, ChangeOK DEF Login, IsAdmin, Kind
  <2> QED
    BY <1>1, <1>2, <2>1 DEF AccountsInv
<1>6. ASSUME NEW ip \in Ips, CheckAdmin(h, u, ip)
      PROVE  AccountsInv'
  <2>1. Exists(u) => RowOK([rows[u] EXCEPT !.adminIp = ip])
    BY <1>3, AddressOK
  <2>2. CallsOK'
    <3>1. CASE rows[u].adminIp = None
      BY <1>1, <1>6, <2>1, <3>1, ChangeOK DEF CheckAdmin, IsAdmin, Kind
    <3>2. CASE rows[u].adminIp # None
      BY <1>1, <1>4, <1>6, <3>2, ChangeOK DEF CheckAdmin, IsAdmin, Kind
    <3> QED
      BY <3>1, <3>2
  <2> QED
    BY <1>1, <1>2, <2>2 DEF AccountsInv
<1>7. ASSUME NEW ip \in Ips, ActivityPing(h, u, ip)
      PROVE  AccountsInv'
  <2> DEFINE c == [Idle EXCEPT !.kind = "activity", !.at = "column", !.id = u]
  <2>1. u \in Present
    BY <1>7 DEF ActivityPing, IsAdmin, Present
  <2>2. c \in Call /\ c.at = "column" /\ c.row = NoUser /\ c.seen = NoUser /\ c.id = u
    BY DEF Idle, Call, Kind, Phase, Token
  <2>3. hs' = [hs EXCEPT ![h] = c]
    BY <1>7 DEF ActivityPing
  <2> HIDE DEF c
  <2>4. CallOK(c, Present)
    BY <2>1, <2>2 DEF CallOK
  <2> QED
    BY <1>1, <2>3, <2>4, BeginOK DEF AccountsInv
<1>8. CASE Decide(h, u)
  <2>1. CASE Done(h)
    BY <1>1, <1>2, <2>1, DoneOK DEF AccountsInv
  <2>2. CASE ~Done(h)
    <3>1. CallsOK'
      BY <1>1, <1>2, <1>4, <1>8, <2>2, ChangeOK DEF Decide, Kind
    <3> QED
      BY <1>1, <1>2, <3>1 DEF AccountsInv
  <2> QED
    BY <2>1, <2>2
<1> QED
  BY <1>5, <1>6, <1>7, <1>8 DEF AdminCall

LEMMA ExtendSessionKeeps ==
  ASSUME AccountsInv, NEW h \in Handlers, ExtendSession(h)
  PROVE  AccountsInv'
<1> DEFINE u == hs[h].id
           r == [rows[u] EXCEPT !.active = "new"]
<1>1. hs[h].at = "column" /\ u \in Ids /\ Exists(u)
  BY DEF AccountsInv, CallsOK, CallOK, Present, ExtendSession
<1>2. RowOK(rows[u]) /\ RowOK(r) /\ r.email = rows[u].email
  <2>1. RowOK(rows[u])
    BY <1>1, RowThere DEF AccountsInv
  <2> QED
    BY <2>1, ChangedOK DEF RowOK, Row
<1>3. ~Taken(r.email, u)
  BY <1>1, <1>2 DEF Taken, AccountsInv, RowsOK, OneAccountPerEmail
<1>4. rows' = [rows EXCEPT ![u] = r]
  BY <1>1 DEF ExtendSession, AccountsInv, RowsOK
<1>5. RowsOK' /\ Present \subseteq Present'
  BY <1>1, <1>2, <1>3, <1>4, RowReplaced DEF AccountsInv
<1>6. CallsOK'
  BY <1>5, DoneOK DEF AccountsInv, ExtendSession
<1>7. ver' \in [Ids -> Nat]
  BY <1>1 DEF ExtendSession, AccountsInv
<1> QED
  BY <1>5, <1>6, <1>7 DEF AccountsInv, ExtendSession, inputs

LEMMA TimePassesKeeps ==
  ASSUME AccountsInv, NEW hour \in BOOLEAN, TimePasses(hour)
  PROVE  AccountsInv'
<1> DEFINE aged(u) == IF Exists(u) /\ rows[u].active = "new"
                      THEN [rows[u] EXCEPT !.active = "old"] ELSE rows[u]
<1>1. UNCHANGED <<hs, minted, mailed, ver>> /\ rows' = [u \in Ids |-> aged(u)]
  BY DEF TimePasses
<1>2. \A u \in Ids : Exists(u) => RowOK(rows[u]) /\ RowOK(aged(u)) /\ aged(u).email = rows[u].email
  <2> SUFFICES ASSUME NEW u \in Ids, Exists(u)
               PROVE  RowOK(rows[u]) /\ RowOK(aged(u)) /\ aged(u).email = rows[u].email
    OBVIOUS
  <2>1. RowOK(rows[u])
    BY RowThere DEF AccountsInv
  <2>2. RowOK([rows[u] EXCEPT !.active = "old"])
    BY <2>1, ChangedOK
  <2>3. [rows[u] EXCEPT !.active = "old"].email = rows[u].email
    BY <2>1 DEF RowOK, Row
  <2> QED
    BY <2>1, <2>2, <2>3
<1>3. \A u \in Ids : ~Exists(u) => aged(u) = NoUser
  BY DEF Exists
<1> HIDE DEF aged
<1>4. \A u \in Ids : rows'[u] = aged(u)
  BY <1>1
<1>5. \A u \in Ids : Exists(u)' <=> Exists(u)
  BY <1>2, <1>3, <1>4, AccountsAssumption DEF Exists, RowOK
<1>6. Present' = Present
  BY <1>5 DEF Present
<1>7. rows' \in [Ids -> Row \cup {NoUser}]
  BY <1>1, <1>2, <1>3 DEF RowOK
<1>8. ResetTokenHasItsExpiry'
  BY <1>2, <1>4, <1>5 DEF ResetTokenHasItsExpiry, RowOK
<1>9. OneAccountPerEmail'
  <2> SUFFICES ASSUME NEW v \in Ids, NEW w \in Ids, Exists(v)', Exists(w)',
                      rows'[v].email = rows'[w].email
               PROVE  v = w \/ rows'[v].email = None
    BY DEF OneAccountPerEmail
  <2>1. Exists(v) /\ Exists(w) /\ rows'[v].email = rows[v].email /\ rows'[w].email = rows[w].email
    BY <1>2, <1>4, <1>5
  <2> QED
    BY <2>1 DEF AccountsInv, RowsOK, OneAccountPerEmail
<1>10. CallsOK'
  BY <1>1, <1>6 DEF AccountsInv, CallsOK
<1> QED
  BY <1>1, <1>7, <1>8, <1>9, <1>10 DEF AccountsInv, RowsOK

LEMMA CrashKeeps ==
  ASSUME AccountsInv, Crash
  PROVE  AccountsInv'
<1>1. UNCHANGED <<rows, minted, mailed, ver>> /\ hs' = [h \in Handlers |-> Idle]
  BY DEF Crash, rowVars, inputs
<1>2. RowsOK' /\ Present' = Present
  BY <1>1, RowsUnchanged DEF AccountsInv
<1>3. Idle \in Call
  BY IdleOK DEF CallOK
<1>4. CallsOK'
  BY <1>1, <1>3, IdleOK DEF CallsOK
<1> QED
  BY <1>1, <1>2, <1>4 DEF AccountsInv

LEMMA StepKeeps == AccountsInv /\ [Next]_vars => AccountsInv'
<1> SUFFICES ASSUME AccountsInv, [Next]_vars PROVE AccountsInv'
  OBVIOUS
<1>1. ASSUME NEW h \in Handlers, SaveStep(h)
      PROVE  AccountsInv'
  BY <1>1, SelectKeeps, UpdateKeeps, SendMailKeeps, InsertWalletKeeps, CheckEmailKeeps,
     ExtendSessionKeeps DEF SaveStep
<1>2. ASSUME NEW h \in Handlers, GuestLogin(h) \/ \E e \in Emails : Register(h, e)
      PROVE  AccountsInv'
  BY <1>2, RegistrationKeeps
<1>3. ASSUME NEW h \in Handlers, NEW u \in Ids,
             Insert(h, u) \/ UserCall(h, u) \/ AdminCall(h, u) \/ Decide(h, u)
      PROVE  AccountsInv'
  BY <1>3, InsertKeeps, UserCallKeeps, AdminCallKeeps
<1>4. ASSUME NEW hour \in BOOLEAN, TimePasses(hour)
      PROVE  AccountsInv'
  BY <1>4, TimePassesKeeps
<1>5. CASE UNCHANGED vars
  <2>1. UNCHANGED <<rows, hs, minted, mailed, ver>>
    BY <1>5 DEF vars, rowVars, inputs
  <2>2. RowsOK' /\ Present' = Present
    BY <2>1, RowsUnchanged DEF AccountsInv
  <2> QED
    BY <2>1, <2>2 DEF AccountsInv, CallsOK
<1> QED
  BY <1>1, <1>2, <1>3, <1>4, <1>5, CrashKeeps DEF Next

-----------------------------------------------------------------------------
(* What the calls have in hand, and what the past has left *)

Made(r) == \A x \in {r.hash, r.vtok, r.rtok, r.rexp} : x \in 0 .. minted \cup {None}

Saving   == {"check", "select", "update"}
Fresh(c) == c.at \in Saving /\ c.base = ver[c.id]

\* How the entity e of a call of a kind differs from the row r it was made from.
Touched(kind, arg, e, r) ==
  /\ kind \in {"reset", "link"} <=> e.hash # r.hash
  /\ kind \in {"ban", "unban"} <=> e.banned # r.banned
  /\ IF kind = "firstIp" THEN r.adminIp = None ELSE e.adminIp = r.adminIp
  /\ kind = "reset" => r.rtok = arg /\ e.rtok = None

\* Who is verified has presented a token that was sent to an address of the
\* account, and to that of the row, or of the copy, unless saves have collided.
Shown(u, r) == r.verified => /\ \E e \in Emails : <<u, e>> \in proven
                             /\ ~collided => <<u, r.email>> \in proven

\* As long as the row has not changed since it was loaded, the entity differs
\* from it in what the call is about; what was selected then is the row.
CurrentOK(c) ==
  /\ c.at = "check"  => c.row = rows[c.id]
  /\ c.at = "select" => Touched(c.kind, c.arg, c.row, rows[c.id])
  /\ c.at = "update" => c.seen = rows[c.id] /\ Touched(c.kind, c.arg, c.row, c.seen)

EntityOK(kind, arg, e) ==
  /\ kind \in {"firstIp", "session"} => e.adminIp = arg /\ arg \in Ips
  /\ kind \in {"register", "resend", "link"} => e.email # None /\ e.vtok # None
  /\ kind = "forgot" => e.rtok # None
  /\ kind = "reset"  => arg \in 0 .. minted

KindOK(c) ==
  /\ c.at = "insert" => /\ ~c.row.banned /\ ~c.row.verified /\ c.row.adminIp = None
                        /\ c.row.rtok = None /\ c.id = None
  /\ c.at = "mail"  => c.kind \in {"register", "resend", "link", "forgot"}
  /\ IF c.at = "check" THEN c.kind = "link" ELSE EntityOK(c.kind, c.arg, c.row)

CopyOK(c) ==
  /\ c.row # NoUser => Made(c.row) /\ Shown(c.id, c.row)
  /\ c.at \in Saving => c.base <= ver[c.id]
  /\ Fresh(c) => CurrentOK(c)
  /\ ~stale /\ c.at = "update" => Touched(c.kind, c.arg, c.row, c.seen)
  /\ KindOK(c)

CopiesOK == \A h \in Handlers : CopyOK(hs[h])

MadeOK ==
  /\ \A u \in Present : Made(rows[u])
  /\ \A m \in mailed : m.tok \in 0 .. minted /\ (m.what = "verify" => m.to # None)
  /\ \A i \in 1 .. Len(resets) : resets[i] \in 0 .. minted

ShownOK == \A u \in Present : Shown(u, rows[u])

\* SavesStand, and who is not there is not banned.
SaidOK ==
  ~stale => \A u \in Ids : IF Exists(u)
                           THEN rows[u].hash = said[u].hash /\ rows[u].banned = said[u].banned
                           ELSE ~said[u].banned

\* Which token is for which e-mail, in rows, copies and mails, and which reset
\* token is whose.
Copied == {h \in Handlers : hs[h].row # NoUser}
Papers == {<<rows[u].vtok, rows[u].email>> : u \in Present}
            \cup {<<hs[h].row.vtok, hs[h].row.email>> : h \in Copied}
            \cup {<<m.tok, m.to>> : m \in {n \in mailed : n.what = "verify"}}
Owned  == {<<rows[u].rtok, u>> : u \in Present} \cup {<<hs[h].row.rtok, hs[h].id>> : h \in Copied}

Functional(S) == \A p, q \in S : p[1] = q[1] => p[1] = None \/ p[2] = q[2]

\* Tokens that have reset a password are in no row and in no copy of a row that
\* has not changed since.
SpentOK ==
  ~collided =>
    /\ \A i \in 1 .. Len(resets) :
         /\ \A u \in Present : rows[u].rtok # resets[i]
         /\ \A h \in Handlers : Fresh(hs[h]) => hs[h].row.rtok # resets[i]
    /\ ResetOnce

AdmittedOK ==
  ~collided => \A u \in Ids : \A ip \in admitted[u] : Exists(u) /\ rows[u].adminIp = ip

PastTypes ==
  /\ wallets \subseteq Ids
  /\ expired \subseteq Nat
  /\ calls \in Nat /\ crashes \in Nat
  /\ stale \in BOOLEAN /\ collided \in BOOLEAN
  /\ said \in [Ids -> [hash : Token, banned : BOOLEAN]]
  /\ resets \in Seq(Nat)
  /\ admitted \in [Ids -> SUBSET Ips]

PastInv ==
  /\ AccountsInv /\ PastTypes
  /\ MadeOK /\ CopiesOK /\ ShownOK /\ SaidOK
  /\ ~collided => Functional(Papers)
  /\ Functional(Owned)
  /\ SpentOK /\ AdmittedOK

-----------------------------------------------------------------------------
(* Papers and reset tokens *)

\* A pair with a new token, or with none, may join.
LEMMA FunctionalGrows ==
  ASSUME NEW S, NEW T, Functional(S), NEW p, T \subseteq S \cup {p},
         p \in S \/ p[1] = None \/ \A q \in S : q[1] # p[1]
  PROVE  Functional(T)
BY DEF Functional

LEMMA FunctionalUsed ==
  ASSUME NEW S, Functional(S), NEW t, t # None, NEW a, NEW b, <<t, a>> \in S, <<t, b>> \in S
  PROVE  a = b
<1>1. \A p, q \in S : p[1] = q[1] => p[1] = None \/ p[2] = q[2]
  BY DEF Functional
<1>2. <<t, a>>[1] = <<t, b>>[1] => <<t, a>>[1] = None \/ <<t, a>>[2] = <<t, b>>[2]
  BY <1>1
<1> QED
  BY <1>2

LEMMA FunctionalPart ==
  ASSUME NEW S, NEW T, Functional(S), T \subseteq S
  PROVE  Functional(T)
BY DEF Functional

\* All the tokens there are have been made.
LEMMA AllMade ==
  ASSUME PastInv
  PROVE  /\ \A p \in Papers : p[1] \in 0 .. minted \cup {None}
         /\ \A p \in Owned : p[1] \in 0 .. minted \cup {None}
<1>1. \A u \in Present : rows[u].vtok \in 0 .. minted \cup {None} /\ rows[u].rtok \in 0 .. minted \cup {None}
  BY DEF PastInv, MadeOK, Made
<1>2. \A h \in Copied : hs[h].row.vtok \in 0 .. minted \cup {None} /\ hs[h].row.rtok \in 0 .. minted \cup {None}
  BY DEF PastInv, CopiesOK, CopyOK, Made, Copied
<1>3. \A m \in mailed : m.tok \in 0 .. minted
  BY DEF PastInv, MadeOK
<1> QED
  BY <1>1, <1>2, <1>3 DEF Papers, Owned

LEMMA MadeStays ==
  ASSUME minted \in Nat, minted' \in Nat, minted <= minted'
  PROVE  \A r : Made(r) => Made(r)'
BY DEF Made

LEMMA ShownStays ==
  ASSUME proven \subseteq proven', collided => collided'
  PROVE  \A u, r : Shown(u, r) => Shown(u, r)'
BY DEF Shown

\* The calls that take no step are as good as before when each row is as it
\* was or counts as changed.
LEMMA OthersOK ==
  ASSUME PastInv, AccountsInv', NEW h \in Handlers,
         \A g \in Handlers \ {h} : hs'[g] = hs[g],
         minted <= minted', proven \subseteq proven', collided => collided', stale => stale',
         \A u \in Present : (rows'[u] = rows[u] /\ ver'[u] = ver[u]) \/ ver'[u] > ver[u]
  PROVE  \A g \in Handlers \ {h} : CopyOK(hs[g])' /\ (Fresh(hs[g])' => Fresh(hs[g]))
<1> SUFFICES ASSUME NEW g \in Handlers, g # h
             PROVE  CopyOK(hs[g])' /\ (Fresh(hs[g])' => Fresh(hs[g]))
  OBVIOUS
<1> DEFINE c == hs[g]
<1>1. /\ CopyOK(c) /\ hs'[g] = c /\ c \in Call /\ c.base \in Nat
      /\ c.at \in Saving => c.id \in Present /\ c.id \in Ids
  BY DEF PastInv, CopiesOK, AccountsInv, CallsOK, CallOK, Saving, Present, Call
<1>2. minted \in Nat /\ minted' \in Nat /\ ver \in [Ids -> Nat] /\ ver' \in [Ids -> Nat]
  BY DEF PastInv, AccountsInv
<1>3. c.row # NoUser => Made(c.row)' /\ Shown(c.id, c.row)'
  BY <1>1, <1>2, MadeStays, ShownStays DEF CopyOK
<1>4. c.at \in Saving => c.base <= ver'[c.id]
  BY <1>1, <1>2 DEF CopyOK
<1>5. c.at \in Saving /\ c.base = ver'[c.id] => Fresh(c) /\ rows'[c.id] = rows[c.id]
  BY <1>1, <1>2 DEF CopyOK, Fresh
<1>6. c.at # "check" => EntityOK(c.kind, c.arg, c.row)'
  BY <1>1, <1>2 DEF CopyOK, KindOK, EntityOK
<1> QED
  BY <1>1, <1>3, <1>4, <1>5, <1>6 DEF CopyOK, Fresh, CurrentOK, KindOK

\* A step of one call that leaves the rows alone.  Its copy may bring a pair of
\* token and e-mail that stands elsewhere, or a new token.
LEMMA CallStep ==
  ASSUME PastInv, AccountsInv', PastTypes', NEW h \in Handlers,
         \A g \in Handlers \ {h} : hs'[g] = hs[g],
         UNCHANGED <<rows, ver, collided, said, resets, admitted>>,
         minted <= minted', proven \subseteq proven', stale => stale',
         CopyOK(hs[h])',
         \A m \in mailed' \ mailed : /\ m.tok \in 0 .. minted
                                     /\ m.what = "verify" => m.to # None /\ <<m.tok, m.to>> \in Papers,
         hs'[h].row # NoUser =>
           /\ \/ <<hs'[h].row.vtok, hs'[h].row.email>> \in Papers
              \/ hs'[h].row.vtok \in (minted + 1 .. minted') \cup {None}
           /\ \/ <<hs'[h].row.rtok, hs'[h].id>> \in Owned
              \/ hs'[h].row.rtok \in (minted + 1 .. minted') \cup {None},
         ~collided /\ Fresh(hs[h])' => \A i \in 1 .. Len(resets) : hs'[h].row.rtok # resets[i]
  PROVE  PastInv'
<1>1. Present' = Present /\ minted \in Nat /\ minted' \in Nat
  BY DEF Present, Exists, PastInv, AccountsInv
<1>2. \A g \in Handlers \ {h} : CopyOK(hs[g])' /\ (Fresh(hs[g])' => Fresh(hs[g]))
  BY OthersOK
<1>3. CopiesOK'
  BY <1>2 DEF CopiesOK
<1>4. MadeOK'
  <2>1. \A u \in Present' : Made(rows[u])'
    <3>1. ASSUME NEW u \in Present' PROVE Made(rows[u])'
      <4>1. Made(rows[u]) /\ rows'[u] = rows[u]
        BY <1>1 DEF PastInv, MadeOK
      <4>2. \A x \in 0 .. minted \cup {None} : x \in 0 .. minted' \cup {None}
        BY <1>1
      <4> QED
        BY <4>1, <4>2 DEF Made
    <3> QED
      BY <3>1 DEF Made
  <2>2. \A m \in mailed' : m.tok \in 0 .. minted' /\ (m.what = "verify" => m.to # None)
    <3>1. \A x \in 0 .. minted : x \in 0 .. minted'
      BY <1>1
    <3>2. \A m \in mailed' : m.tok \in 0 .. minted /\ (m.what = "verify" => m.to # None)
      BY DEF PastInv, MadeOK
    <3> QED
      BY <3>1, <3>2
  <2>3. \A i \in 1 .. Len(resets') : resets'[i] \in 0 .. minted'
    BY <1>1 DEF PastInv, MadeOK
  <2> QED
    BY <2>1, <2>2, <2>3 DEF MadeOK
<1>5. ShownOK'
  BY <1>1, ShownStays DEF PastInv, ShownOK
<1>6. SaidOK'
  BY DEF PastInv, SaidOK, Exists
<1>7. ~collided' => Functional(Papers)'
  <2> DEFINE p == <<hs'[h].row.vtok, hs'[h].row.email>>
  <2>1. Papers' \subseteq IF hs'[h].row = NoUser THEN Papers ELSE Papers \cup {p}
    BY <1>1 DEF Papers, Copied
  <2>2. CASE hs'[h].row = NoUser \/ p \in Papers
    BY <2>1, <2>2, FunctionalPart DEF PastInv
  <2>3. CASE hs'[h].row # NoUser /\ p \notin Papers
    BY <1>1, <2>1, <2>3, FunctionalGrows, AllMade DEF PastInv
  <2> QED
    BY <2>2, <2>3
<1>8. Functional(Owned)'
  <2> DEFINE p == <<hs'[h].row.rtok, hs'[h].id>>
  <2>1. Owned' \subseteq IF hs'[h].row = NoUser THEN Owned ELSE Owned \cup {p}
    BY <1>1 DEF Owned, Copied
  <2>2. CASE hs'[h].row = NoUser \/ p \in Owned
    BY <2>1, <2>2, FunctionalPart DEF PastInv
  <2>3. CASE hs'[h].row # NoUser /\ p \notin Owned
    BY <1>1, <2>1, <2>3, FunctionalGrows, AllMade DEF PastInv
  <2> QED
    BY <2>2, <2>3
<1>9. SpentOK'
  BY <1>1, <1>2 DEF PastInv, SpentOK, ResetOnce
<1>10. AdmittedOK'
  BY DEF PastInv, AdmittedOK, Exists
<1> QED
  BY <1>3, <1>4, <1>5, <1>6, <1>7, <1>8, <1>9, <1>10 DEF PastInv

\* Such a step that begins a save of the row of u.
LEMMA ChangeStep ==
  ASSUME PastInv, AccountsInv', PastTypes', NEW h \in Handlers, NEW u \in Ids, Exists(u),
         NEW kind, NEW arg, NEW r, RowOK(r), Change(h, kind, u, r, arg),
         UNCHANGED <<rows, mailed, ver, collision, said, resets, admitted>>,
         minted <= minted', proven \subseteq proven',
         Made(r)', Shown(u, r)', EntityOK(kind, arg, r)', Touched(kind, arg, r, rows[u]),
         \/ r.vtok = rows[u].vtok /\ r.email = rows[u].email
         \/ r.vtok \in (minted + 1 .. minted') \cup {None},
         r.rtok \in {rows[u].rtok, None} \cup (minted + 1 .. minted')
  PROVE  PastInv'
<1> DEFINE c == [kind |-> kind, at |-> "select", id |-> u, row |-> r, seen |-> NoUser,
                 base |-> ver[u], arg |-> arg]
<1>1. hs' = [hs EXCEPT ![h] = c] /\ u \in Present /\ ver[u] \in Nat
  BY DEF Change, Present, PastInv, AccountsInv
<1>2. hs'[h] = c /\ \A g \in Handlers \ {h} : hs'[g] = hs[g]
  BY <1>1 DEF PastInv, AccountsInv, CallsOK
<1>3. /\ hs'[h].kind = kind /\ hs'[h].at = "select" /\ hs'[h].id = u /\ hs'[h].row = r
      /\ hs'[h].base = ver[u] /\ hs'[h].arg = arg
  BY <1>2
<1>4. UNCHANGED <<rows, mailed, ver, stale, collided, said, resets, admitted>>
  BY DEF collision
<1>5. CopyOK(hs[h])'
  BY <1>1, <1>3, <1>4 DEF CopyOK, Fresh, CurrentOK, KindOK
<1>6. \/ <<r.vtok, r.email>> \in Papers
      \/ r.vtok \in (minted + 1 .. minted') \cup {None}
  BY <1>1 DEF Papers
<1>7. <<r.rtok, u>> \in Owned \/ r.rtok \in (minted + 1 .. minted') \cup {None}
  BY <1>1 DEF Owned
<1>8. ~collided => \A i \in 1 .. Len(resets) : r.rtok # resets[i]
  BY <1>1, AccountsAssumption DEF PastInv, SpentOK, MadeOK, AccountsInv
<1> HIDE DEF c
<1> QED
  BY <1>2, <1>3, <1>4, <1>5, <1>6, <1>7, <1>8, CallStep

-----------------------------------------------------------------------------
(* The steps *)

LEMMA TypesStay ==
  ASSUME PastInv, UNCHANGED <<wallets, expired, collision, said, resets, admitted, crashes>>,
         calls' = calls \/ (calls > 0 /\ calls' = calls - 1)
  PROVE  PastTypes'
BY DEF PastInv, PastTypes, collision

LEMMA UserCallPast ==
  ASSUME PastInv, AccountsInv', NEW h \in Handlers, NEW u \in Ids, UserCall(h, u)
  PROVE  PastInv'
<1> USE DEF Rest, rowVars, inputs, Arrive
<1>1. Exists(u) /\ u \in Present
  BY DEF UserCall, ResendVerification, ForgotPassword, UpdateProfile, VerifyEmail, ResetPassword,
         LinkEmail, Present
<1>2. RowOK(rows[u]) /\ rows[u] \in Row /\ AccountsInv /\ PastTypes
  BY <1>1, RowThere DEF PastInv, AccountsInv, RowOK
<1>3. Made(rows[u]) /\ Shown(u, rows[u]) /\ minted \in Nat
  BY <1>1 DEF PastInv, MadeOK, ShownOK, AccountsInv
<1> DEFINE t == minted + 1
<1>4. t \in Nat /\ t \notin 0 .. minted \cup {None}
  BY <1>3, AccountsAssumption
<1>5. PastTypes' /\ UNCHANGED <<rows, ver, collision, resets, admitted, said>>
  BY TypesStay DEF UserCall, ResendVerification, ForgotPassword, UpdateProfile, VerifyEmail,
                   ResetPassword, LinkEmail, past, bounds
<1>6. CASE ResendVerification(h, u)
  <2> DEFINE r == [rows[u] EXCEPT !.vtok = t]
  <2>1. /\ RowOK(r) /\ Change(h, "resend", u, r, None) /\ minted' = t
        /\ UNCHANGED <<mailed, past>> /\ rows[u].email # None
    BY <1>2, <1>4, <1>6, TokenChangedOK DEF ResendVerification, Mint
  <2>2. /\ r.vtok = t /\ r.email = rows[u].email /\ r.hash = rows[u].hash
        /\ r.banned = rows[u].banned /\ r.adminIp = rows[u].adminIp /\ r.rtok = rows[u].rtok
        /\ r.rexp = rows[u].rexp /\ r.verified = rows[u].verified
    BY <1>2 DEF Row
  <2> HIDE DEF r
  <2> QED
    BY <1>1, <1>2, <1>3, <1>4, <1>5, <2>1, <2>2, ChangeStep, AccountsAssumption
       DEF Made, Shown, EntityOK, Touched, past, collision
<1>7. CASE ForgotPassword(h, u)
  <2> DEFINE r == ResetAsked(rows[u], t)
  <2>1. /\ RowOK(r) /\ Change(h, "forgot", u, r, None) /\ minted' = t
        /\ UNCHANGED <<mailed, past>>
    BY <1>2, <1>4, <1>7, TokenChangedOK DEF ForgotPassword, Mint
  <2>2. /\ r.vtok = rows[u].vtok /\ r.email = rows[u].email /\ r.hash = rows[u].hash
        /\ r.banned = rows[u].banned /\ r.adminIp = rows[u].adminIp /\ r.rtok = t
        /\ r.rexp = t /\ r.verified = rows[u].verified
    BY <1>2 DEF Row, ResetAsked
  <2> HIDE DEF r
  <2> QED
    BY <1>1, <1>2, <1>3, <1>4, <1>5, <2>1, <2>2, ChangeStep, AccountsAssumption
       DEF Made, Shown, EntityOK, Touched, past, collision
<1>8. CASE UpdateProfile(h, u)
  <2> DEFINE r == [rows[u] EXCEPT !.profile = 1 - @]
  <2>1. /\ RowOK(r) /\ Change(h, "profile", u, r, None) /\ minted' = minted
        /\ UNCHANGED <<mailed, past>>
    BY <1>2, <1>8, ChangedOK DEF UpdateProfile
  <2>2. /\ r.vtok = rows[u].vtok /\ r.email = rows[u].email /\ r.hash = rows[u].hash
        /\ r.banned = rows[u].banned /\ r.adminIp = rows[u].adminIp /\ r.rtok = rows[u].rtok
        /\ r.rexp = rows[u].rexp /\ r.verified = rows[u].verified
    BY <1>2 DEF Row
  <2> HIDE DEF r
  <2> QED
    BY <1>1, <1>2, <1>3, <1>4, <1>5, <2>1, <2>2, ChangeStep, AccountsAssumption
       DEF Made, Shown, EntityOK, Touched, past, collision
<1>9. ASSUME NEW m \in mailed, VerifyEmail(h, m, u)
      PROVE  PastInv'
  <2> DEFINE r == Verified(rows[u])
  <2>1. /\ RowOK(r) /\ Change(h, "verify", u, r, m.tok) /\ minted' = minted
        /\ UNCHANGED mailed /\ proven' = proven \cup {<<u, m.to>>}
        /\ m.what = "verify" /\ rows[u].vtok = m.tok
    BY <1>2, <1>9, ChangedOK DEF VerifyEmail
  <2>2. /\ r.vtok = None /\ r.email = rows[u].email /\ r.hash = rows[u].hash
        /\ r.banned = rows[u].banned /\ r.adminIp = rows[u].adminIp /\ r.rtok = rows[u].rtok
        /\ r.rexp = rows[u].rexp /\ r.verified
    BY <1>2 DEF Row, Verified
  <2>3. m.to \in Emails /\ m.tok # None
    BY <2>1, AccountsAssumption DEF PastInv, MadeOK, AccountsInv, Mail
  <2>4. <<m.tok, m.to>> \in Papers /\ <<m.tok, rows[u].email>> \in Papers
    <3>1. <<rows[u].vtok, rows[u].email>> \in Papers
      BY <1>1 DEF Papers
    <3>2. <<m.tok, m.to>> \in Papers
      BY <2>1 DEF Papers
    <3> QED
      BY <2>1, <3>1, <3>2
  <2>5. ~collided => m.to = rows[u].email
    BY <2>3, <2>4, FunctionalUsed DEF PastInv
  <2> HIDE DEF r
  <2>6. /\ \E e \in Emails : <<u, e>> \in proven'
        /\ ~collided' => <<u, r.email>> \in proven'
    BY <1>5, <2>1, <2>2, <2>3, <2>5 DEF collision
  <2> QED
    BY <1>1, <1>2, <1>3, <1>4, <1>5, <2>1, <2>2, <2>6, ChangeStep, AccountsAssumption
       DEF Made, Shown, EntityOK, Touched, collision
<1>10. ASSUME NEW m \in mailed, ResetPassword(h, m, u)
       PROVE  PastInv'
  <2> DEFINE r == PasswordReset(rows[u], t)
  <2>1. /\ RowOK(r) /\ Change(h, "reset", u, r, m.tok) /\ minted' = t
        /\ UNCHANGED <<mailed, past>> /\ rows[u].rtok = m.tok /\ rows[u].rexp # None
    BY <1>2, <1>4, <1>10, TokenChangedOK DEF ResetPassword, Mint
  <2>2. /\ r.vtok = rows[u].vtok /\ r.email = rows[u].email /\ r.hash = t
        /\ r.banned = rows[u].banned /\ r.adminIp = rows[u].adminIp /\ r.rtok = None
        /\ r.rexp = None /\ r.verified = rows[u].verified
    BY <1>2 DEF Row, PasswordReset
  <2>3. m.tok \in 0 .. minted /\ rows[u].hash # t
    BY <1>2, <1>3, <1>4, <2>1 DEF Made, RowOK
  <2> HIDE DEF r
  <2> QED
    BY <1>1, <1>2, <1>3, <1>4, <1>5, <2>1, <2>2, <2>3, ChangeStep, AccountsAssumption
       DEF Made, Shown, EntityOK, Touched, past, collision
<1>11. ASSUME NEW e \in Emails, LinkEmail(h, u, e)
       PROVE  PastInv'
  <2>1. /\ hs' = [hs EXCEPT ![h] = [Idle EXCEPT !.kind = "link", !.at = "check", !.id = u,
                                                !.row = rows[u], !.base = ver[u], !.arg = e]]
        /\ UNCHANGED <<mailed, past, minted>>
    BY <1>11 DEF LinkEmail
  <2>2. /\ hs'[h].kind = "link" /\ hs'[h].at = "check" /\ hs'[h].id = u /\ hs'[h].row = rows[u]
        /\ hs'[h].base = ver[u] /\ \A g \in Handlers \ {h} : hs'[g] = hs[g]
    BY <1>2, <2>1 DEF AccountsInv, CallsOK, Idle
  <2>3. ver[u] \in Nat
    BY <1>2 DEF AccountsInv
  <2>4. CopyOK(hs[h])'
    BY <1>3, <1>5, <2>1, <2>2, <2>3 DEF CopyOK, Fresh, CurrentOK, KindOK, Made, Shown, past, collision
  <2>5. <<rows[u].vtok, rows[u].email>> \in Papers /\ <<rows[u].rtok, u>> \in Owned
    BY <1>1 DEF Papers, Owned
  <2>6. ~collided => \A i \in 1 .. Len(resets) : rows[u].rtok # resets[i]
    BY <1>1 DEF PastInv, SpentOK
  <2> QED
    BY <1>3, <1>5, <2>1, <2>2, <2>4, <2>5, <2>6, CallStep DEF past, collision
<1> QED
  BY <1>6, <1>7, <1>8, <1>9, <1>10, <1>11 DEF UserCall

\* A call ends, perhaps after a mail with the token of its copy.
LEMMA DoneStep ==
  ASSUME PastInv, AccountsInv', PastTypes', NEW h \in Handlers, Done(h),
         UNCHANGED <<rows, ver, collided, said, resets, admitted, minted, proven>>,
         stale => stale',
         \A m \in mailed' \ mailed : /\ m.tok \in 0 .. minted
                                     /\ m.what = "verify" => m.to # None /\ <<m.tok, m.to>> \in Papers
  PROVE  PastInv'
<1>1. hs'[h] = Idle /\ \A g \in Handlers \ {h} : hs'[g] = hs[g]
  BY DEF Done, PastInv, AccountsInv, CallsOK
<1>2. minted \in Nat
  BY DEF PastInv, AccountsInv
<1>3. CopyOK(hs[h])' /\ ~Fresh(hs[h])'
  BY <1>1 DEF CopyOK, Fresh, Saving, KindOK, EntityOK, Idle
<1>4. hs'[h].row = NoUser
  BY <1>1 DEF Idle
<1>5. minted <= minted' /\ proven \subseteq proven'
  BY <1>2
<1>6. UNCHANGED <<rows, ver, collided, said, resets, admitted>>
  OBVIOUS
<1> QED
  BY <1>1, <1>3, <1>4, <1>5, <1>6, CallStep

LEMMA AdminCallPast ==
  ASSUME PastInv, AccountsInv', NEW h \in Handlers, NEW u \in Ids,
         AdminCall(h, u) \/ Decide(h, u)
  PROVE  PastInv'
<1> USE DEF Rest, rowVars, inputs, Arrive, collision, past
<1>1. UNCHANGED <<rows, ver, collision, mailed, past, minted>> /\ PastTypes'
  BY TypesStay DEF AdminCall, Login, CheckAdmin, ActivityPing, Decide, bounds
<1>2. Exists(u) => /\ u \in Present /\ RowOK(rows[u]) /\ rows[u] \in Row
                   /\ Made(rows[u]) /\ Shown(u, rows[u])
  BY RowThere DEF PastInv, AccountsInv, RowOK, MadeOK, ShownOK, Present
<1>3. minted \in Nat /\ AccountsInv /\ PastTypes
  BY DEF PastInv, AccountsInv
<1>4. /\ minted <= minted' /\ proven \subseteq proven'
      /\ UNCHANGED <<rows, mailed, ver, collision, said, resets, admitted>>
      /\ UNCHANGED <<rows, ver, collided, said, resets, admitted>>
      /\ mailed' \ mailed = {} /\ (stale => stale') /\ PastTypes'
  BY <1>1, <1>3
<1>5. ASSUME Exists(u), NEW kind \in {"login", "session"}, NEW arg,
             kind = "session" => arg \in Ips /\ rows[u].adminIp = arg,
             Change(h, kind, u, [rows[u] EXCEPT !.active = "new"], arg)
      PROVE  PastInv'
  <2> DEFINE r == [rows[u] EXCEPT !.active = "new"]
  <2>1. RowOK(r) /\ Change(h, kind, u, r, arg)
    BY <1>2, <1>5, ChangedOK
  <2>2. /\ r.vtok = rows[u].vtok /\ r.email = rows[u].email /\ r.hash = rows[u].hash
        /\ r.banned = rows[u].banned /\ r.adminIp = rows[u].adminIp /\ r.rtok = rows[u].rtok
        /\ r.rexp = rows[u].rexp /\ r.verified = rows[u].verified
    BY <1>2, <1>5 DEF Row
  <2> HIDE DEF r
  <2> QED
    BY <1>4, <1>1, <1>2, <1>3, <1>5, <2>1, <2>2, ChangeStep DEF Made, Shown, EntityOK, Touched
<1>6. ASSUME NEW ip \in Ips, Exists(u), rows[u].adminIp = None,
             Change(h, "firstIp", u, [rows[u] EXCEPT !.adminIp = ip], ip)
      PROVE  PastInv'
  <2> DEFINE r == [rows[u] EXCEPT !.adminIp = ip]
  <2>1. RowOK(r) /\ Change(h, "firstIp", u, r, ip)
    BY <1>2, <1>6, AddressOK
  <2>2. /\ r.vtok = rows[u].vtok /\ r.email = rows[u].email /\ r.hash = rows[u].hash
        /\ r.banned = rows[u].banned /\ r.adminIp = ip /\ r.rtok = rows[u].rtok
        /\ r.rexp = rows[u].rexp /\ r.verified = rows[u].verified
    BY <1>2, <1>6 DEF Row
  <2> HIDE DEF r
  <2> QED
    BY <1>4, <1>1, <1>2, <1>3, <1>6, <2>1, <2>2, ChangeStep DEF Made, Shown, EntityOK, Touched
<1>7. ASSUME NEW banned \in BOOLEAN, NEW kind \in {"ban", "unban"}, Exists(u), rows[u].banned # banned,
             Change(h, kind, u, [rows[u] EXCEPT !.banned = banned], None)
      PROVE  PastInv'
  <2> DEFINE r == [rows[u] EXCEPT !.banned = banned]
  <2>1. RowOK(r) /\ Change(h, kind, u, r, None)
    BY <1>2, <1>7 DEF RowOK, Row
  <2>2. /\ r.vtok = rows[u].vtok /\ r.email = rows[u].email /\ r.hash = rows[u].hash
        /\ r.banned = banned /\ r.adminIp = rows[u].adminIp /\ r.rtok = rows[u].rtok
        /\ r.rexp = rows[u].rexp /\ r.verified = rows[u].verified
    BY <1>2, <1>7 DEF Row
  <2> HIDE DEF r
  <2> QED
    BY <1>4, <1>1, <1>2, <1>3, <1>7, <2>1, <2>2, ChangeStep DEF Made, Shown, EntityOK, Touched
<1>8. CASE Login(h, u)
  BY <1>5, <1>8 DEF Login, IsAdmin
<1>9. ASSUME NEW ip \in Ips, CheckAdmin(h, u, ip)
      PROVE  PastInv'
  <2>1. Exists(u) /\ rows[u].adminIp \in {None, ip}
    BY <1>9 DEF CheckAdmin, IsAdmin, AddressAllowed
  <2>2. CASE rows[u].adminIp = None
    BY <1>6, <1>9, <2>1, <2>2 DEF CheckAdmin
  <2>3. CASE rows[u].adminIp # None
    BY <1>5, <1>9, <2>1, <2>3 DEF CheckAdmin
  <2> QED
    BY <2>2, <2>3
<1>10. ASSUME NEW ip \in Ips, ActivityPing(h, u, ip)
       PROVE  PastInv'
  <2>1. hs' = [hs EXCEPT ![h] = [Idle EXCEPT !.kind = "activity", !.at = "column", !.id = u]]
    BY <1>10 DEF ActivityPing
  <2>2. /\ hs'[h].kind = "activity" /\ hs'[h].at = "column" /\ hs'[h].row = NoUser
        /\ \A g \in Handlers \ {h} : hs'[g] = hs[g]
    BY <1>3, <2>1 DEF AccountsInv, CallsOK, Idle
  <2>3. CopyOK(hs[h])' /\ ~Fresh(hs[h])'
    BY <2>2 DEF CopyOK, Fresh, Saving, KindOK, EntityOK
  <2> QED
    BY <1>4, <2>2, <2>3, CallStep
<1>11. CASE Decide(h, u)
  <2>1. CASE Done(h)
    BY <1>1, <2>1, DoneStep
  <2>2. CASE ~Done(h)
    BY <1>7, <1>11, <2>2 DEF Decide
  <2> QED
    BY <2>1, <2>2
<1> QED
  BY <1>8, <1>9, <1>10, <1>11 DEF AdminCall

LEMMA RegistrationPast ==
  ASSUME PastInv, AccountsInv', NEW h \in Handlers, (\E e \in Emails : Register(h, e)) \/ GuestLogin(h)
  PROVE  PastInv'
<1> USE DEF Rest, rowVars, inputs, Arrive, collision, past
<1>1. UNCHANGED <<rows, ver, collision, mailed, past>> /\ PastTypes'
  BY TypesStay DEF Register, GuestLogin
<1>2. minted \in Nat /\ AccountsInv
  BY DEF PastInv, AccountsInv
<1>3. /\ UNCHANGED <<rows, ver, collided, said, resets, admitted>> /\ proven \subseteq proven'
      /\ mailed' \ mailed = {} /\ (stale => stale') /\ PastTypes'
  BY <1>1
<1>4. ASSUME NEW e \in Emails, Register(h, e)
      PROVE  PastInv'
  <2> DEFINE r == Registered(e, minted + 1, minted + 2)
  <2>1. hs' = [hs EXCEPT ![h] = [Idle EXCEPT !.kind = "register", !.at = "insert", !.row = r]]
        /\ minted' = minted + 2
    BY <1>4 DEF Register, Mint
  <2>2. /\ r.vtok = minted + 2 /\ r.email = e /\ r.hash = minted + 1 /\ ~r.banned
        /\ r.adminIp = None /\ r.rtok = None /\ r.rexp = None /\ ~r.verified
    BY DEF Registered, Guest
  <2> HIDE DEF r
  <2>3. /\ hs'[h].kind = "register" /\ hs'[h].at = "insert" /\ hs'[h].row = r /\ hs'[h].id = None
        /\ \A g \in Handlers \ {h} : hs'[g] = hs[g]
    BY <1>2, <2>1 DEF AccountsInv, CallsOK, Idle
  <2>4. CopyOK(hs[h])' /\ ~Fresh(hs[h])'
    BY <1>2, <2>1, <2>2, <2>3, AccountsAssumption
       DEF CopyOK, Fresh, Saving, KindOK, EntityOK, Made, Shown
  <2>5. minted <= minted' /\ r.vtok \in (minted + 1 .. minted') \cup {None}
    BY <1>2, <2>1, <2>2
  <2> QED
    BY <1>3, <2>2, <2>3, <2>4, <2>5, CallStep
<1>5. CASE GuestLogin(h)
  <2>1. hs' = [hs EXCEPT ![h] = [Idle EXCEPT !.kind = "guest", !.at = "insert", !.row = Guest]]
        /\ minted' = minted
    BY <1>5 DEF GuestLogin
  <2>2. /\ hs'[h].kind = "guest" /\ hs'[h].at = "insert" /\ hs'[h].row = Guest /\ hs'[h].id = None
        /\ \A g \in Handlers \ {h} : hs'[g] = hs[g]
    BY <1>2, <2>1 DEF AccountsInv, CallsOK, Idle
  <2>3. /\ Guest.vtok = None /\ Guest.hash = None /\ ~Guest.banned
        /\ Guest.adminIp = None /\ Guest.rtok = None /\ Guest.rexp = None /\ ~Guest.verified
    BY DEF Guest
  <2>4. CopyOK(hs[h])' /\ ~Fresh(hs[h])'
    BY <2>2, <2>3 DEF CopyOK, Fresh, Saving, KindOK, EntityOK, Made, Shown
  <2>5. minted <= minted'
    BY <1>2, <2>1
  <2> QED
    BY <1>3, <2>1, <2>2, <2>3, <2>4, <2>5, CallStep
<1> QED
  BY <1>4, <1>5

LEMMA CheckEmailPast ==
  ASSUME PastInv, AccountsInv', NEW h \in Handlers, CheckEmail(h)
  PROVE  PastInv'
<1> DEFINE c == hs[h]
<1>1. /\ c.at = "check" /\ c \in Call /\ c.id \in Present /\ c.row # NoUser /\ RowOK(c.row)
      /\ c.arg \in Emails /\ c.kind = "link" /\ Made(c.row) /\ Shown(c.id, c.row)
      /\ c.base <= ver[c.id] /\ (Fresh(c) => c.row = rows[c.id]) /\ minted \in Nat
  BY DEF CheckEmail, PastInv, AccountsInv, CallsOK, CallOK, CopiesOK, CopyOK, KindOK, CurrentOK,
         Saving
<1>2. UNCHANGED <<rows, ver, mailed, wallets, expired, collision, bounds, past>>
  BY DEF CheckEmail, Rest, rowVars, inputs
<1>3. /\ UNCHANGED <<rows, ver, collided, said, resets, admitted>> /\ proven \subseteq proven'
      /\ mailed' \ mailed = {} /\ (stale => stale')
  BY <1>2 DEF collision, past
<1>4. PastTypes'
  BY <1>2, TypesStay DEF past, bounds
<1>5. CASE Done(h) /\ UNCHANGED minted
  BY <1>2, <1>4, <1>5, DoneStep DEF collision, past
<1>6. CASE ~(Done(h) /\ UNCHANGED minted)
  <2> DEFINE e == Linked(c.row, c.arg, minted + 1, minted + 2)
  <2>1. hs' = [hs EXCEPT ![h].at = "select", ![h].row = Linked(@, hs[h].arg, minted + 1, minted + 2)]
        /\ minted' = minted + 2
    BY <1>6 DEF CheckEmail, Mint
  <2>2. /\ e.vtok = minted + 2 /\ e.email = c.arg /\ e.hash = minted + 1 /\ e.rtok = c.row.rtok
        /\ e.banned = c.row.banned /\ e.adminIp = c.row.adminIp /\ e.rexp = c.row.rexp
        /\ ~e.verified
    BY <1>1 DEF Linked, RowOK, Row
  <2>3. /\ hs'[h].kind = "link" /\ hs'[h].at = "select" /\ hs'[h].row = e /\ hs'[h].id = c.id
        /\ hs'[h].base = c.base /\ hs'[h].arg = c.arg
        /\ \A g \in Handlers \ {h} : hs'[g] = hs[g]
    BY <1>1, <2>1 DEF PastInv, AccountsInv, CallsOK, Call
  <2> HIDE DEF e
  <2>4. minted <= minted' /\ e.vtok \in (minted + 1 .. minted') \cup {None}
    BY <1>1, <2>1, <2>2
  <2>5. /\ \A x \in {e.hash, e.vtok, e.rtok, e.rexp} : x \in 0 .. minted' \cup {None}
        /\ c.id \in Present => e.hash # rows[c.id].hash
    BY <1>1, <2>1, <2>2, AccountsAssumption DEF Made, PastInv, MadeOK
  <2>6. CopyOK(hs[h])'
    <3>1. Made(hs[h].row)' /\ Shown(hs[h].id, hs[h].row)'
      BY <2>2, <2>3, <2>5 DEF Made, Shown
    <3>2. Fresh(hs[h])' => Fresh(c) /\ c.row = rows[c.id]
      BY <1>1, <1>2, <2>3 DEF Fresh, Saving
    <3>3. Fresh(hs[h])' => CurrentOK(hs[h])'
      BY <1>1, <1>2, <2>2, <2>3, <2>5, <3>2 DEF CurrentOK, Touched
    <3>4. KindOK(hs[h])'
      BY <1>1, <2>2, <2>3, <2>4, AccountsAssumption DEF KindOK, EntityOK
    <3> QED
      BY <1>1, <1>2, <2>3, <3>1, <3>3, <3>4 DEF CopyOK
  <2>7. <<e.rtok, c.id>> \in Owned
    BY <1>1, <2>2 DEF Owned, Copied
  <2>8. ~collided /\ Fresh(hs[h])' => \A i \in 1 .. Len(resets) : e.rtok # resets[i]
    BY <1>1, <1>2, <2>2, <2>3 DEF PastInv, SpentOK, Fresh, Saving
  <2> QED
    BY <1>3, <1>4, <2>3, <2>4, <2>6, <2>7, <2>8, CallStep
<1> QED
  BY <1>5, <1>6

LEMMA SelectPast ==
  ASSUME PastInv, AccountsInv', NEW h \in Handlers, Select(h)
  PROVE  PastInv'
<1> DEFINE c == hs[h]
<1>1. /\ c.at = "select" /\ c \in Call /\ c.id \in Present /\ c.row # NoUser
      /\ Made(c.row) /\ Shown(c.id, c.row) /\ c.base <= ver[c.id]
      /\ (Fresh(c) => Touched(c.kind, c.arg, c.row, rows[c.id])) /\ KindOK(c) /\ minted \in Nat
  BY DEF Select, PastInv, AccountsInv, CallsOK, CallOK, CopiesOK, CopyOK, CurrentOK, Saving
<1>2. /\ UNCHANGED <<rows, ver, mailed, wallets, expired, bounds, past, minted, collided>>
      /\ hs' = [hs EXCEPT ![h].at = "update", ![h].seen = rows[c.id]]
      /\ stale' = (stale \/ ver[c.id] # c.base)
  BY DEF Select, rowVars, inputs
<1>3. /\ UNCHANGED <<rows, ver, collided, said, resets, admitted>> /\ proven \subseteq proven'
      /\ mailed' \ mailed = {} /\ (stale => stale')
  BY <1>2 DEF past
<1>4. PastTypes'
  BY <1>2 DEF PastInv, PastTypes, past, bounds
<1>5. minted <= minted'
  BY <1>1, <1>2
<1>6. /\ hs'[h].kind = c.kind /\ hs'[h].at = "update" /\ hs'[h].row = c.row /\ hs'[h].id = c.id
      /\ hs'[h].base = c.base /\ hs'[h].arg = c.arg /\ hs'[h].seen = rows[c.id]
      /\ \A g \in Handlers \ {h} : hs'[g] = hs[g]
  <2>1. DOMAIN c = {"kind", "at", "id", "row", "seen", "base", "arg"} /\ hs \in [Handlers -> Call]
    BY <1>1 DEF PastInv, AccountsInv, CallsOK, Call
  <2>2. hs' = [hs EXCEPT ![h] = [c EXCEPT !.at = "update", !.seen = rows[c.id]]]
    BY <1>2, <2>1
  <2> QED
    BY <2>1, <2>2
<1>7. CopyOK(hs[h])'
  <2>1. Made(hs[h].row)' /\ Shown(hs[h].id, hs[h].row)'
    <3>1. minted' = minted /\ proven' = proven /\ collided' = collided
      BY <1>2 DEF past
    <3> QED
      BY <1>1, <1>6, <3>1 DEF Made, Shown
  <2>2. Fresh(hs[h])' \/ ~stale' => Touched(c.kind, c.arg, c.row, rows[c.id])
    BY <1>1, <1>2, <1>6 DEF Fresh, Saving
  <2>3. Fresh(hs[h])' \/ ~stale' => CurrentOK(hs[h])'
    BY <1>2, <1>6, <2>2 DEF CurrentOK, Touched
  <2>4. KindOK(hs[h])'
    BY <1>1, <1>2, <1>6 DEF KindOK, EntityOK
  <2> QED
    BY <1>1, <1>2, <1>6, <2>1, <2>3, <2>4 DEF CopyOK, CurrentOK
<1>8. <<c.row.vtok, c.row.email>> \in Papers /\ <<c.row.rtok, c.id>> \in Owned
  BY <1>1 DEF Papers, Owned, Copied
<1>9. ~collided /\ Fresh(hs[h])' => \A i \in 1 .. Len(resets) : c.row.rtok # resets[i]
  BY <1>1, <1>2, <1>6 DEF PastInv, SpentOK, Fresh, Saving
<1> QED
  BY <1>3, <1>4, <1>6, <1>7, <1>8, <1>9, <1>5, CallStep

LEMMA SendMailPast ==
  ASSUME PastInv, AccountsInv', NEW h \in Handlers, SendMail(h)
  PROVE  PastInv'
<1> DEFINE c == hs[h]
           m == [what |-> IF c.kind = "forgot" THEN "reset" ELSE "verify",
                 tok  |-> IF c.kind = "forgot" THEN c.row.rtok ELSE c.row.vtok,
                 to   |-> c.row.email, id |-> c.id]
<1>1. /\ c.at = "mail" /\ c.row # NoUser /\ Made(c.row) /\ KindOK(c)
  BY DEF SendMail, PastInv, AccountsInv, CallsOK, CallOK, CopiesOK, CopyOK
<1>2. /\ UNCHANGED <<rows, ver, wallets, expired, bounds, past, minted, collision>> /\ Done(h)
      /\ mailed' \subseteq mailed \cup {m}
  BY DEF SendMail, rowVars
<1>3. PastTypes'
  BY <1>2 DEF PastInv, PastTypes, past, bounds, collision
<1>4. m.tok \in 0 .. minted /\ (m.what = "verify" => m.to # None /\ <<m.tok, m.to>> \in Papers)
  <2>1. <<c.row.vtok, c.row.email>> \in Papers
    BY <1>1 DEF Papers, Copied
  <2> QED
    BY <1>1, <2>1 DEF KindOK, EntityOK, Made
<1> HIDE DEF m
<1>5. \A n \in mailed' \ mailed : /\ n.tok \in 0 .. minted
                                  /\ n.what = "verify" => n.to # None /\ <<n.tok, n.to>> \in Papers
  BY <1>2, <1>4
<1>6. UNCHANGED <<rows, ver, collided, said, resets, admitted, minted, proven>> /\ (stale => stale')
  BY <1>2 DEF past, collision
<1> QED
  BY <1>2, <1>3, <1>5, <1>6, DoneStep

LEMMA InsertWalletPast ==
  ASSUME PastInv, AccountsInv', NEW h \in Handlers, InsertWallet(h)
  PROVE  PastInv'
<1> DEFINE c == hs[h]
<1>1. /\ c.at = "wallet" /\ c.id \in Present /\ c.id \in Ids /\ c \in Call /\ c.row # NoUser
      /\ Made(c.row) /\ Shown(c.id, c.row) /\ KindOK(c) /\ minted \in Nat
  BY DEF InsertWallet, PastInv, AccountsInv, CallsOK, CallOK, CopiesOK, CopyOK, Present
<1>2. /\ UNCHANGED <<rows, ver, expired, bounds, past, minted, collision>>
      /\ wallets' = wallets \cup {c.id} /\ mailed' = mailed
  BY DEF InsertWallet, inputs
<1>3. PastTypes'
  BY <1>1, <1>2 DEF PastInv, PastTypes, past, bounds, collision
<1>4. UNCHANGED <<rows, ver, collided, said, resets, admitted, minted, proven>> /\ (stale => stale')
  BY <1>2 DEF past, collision
<1>5. mailed' \ mailed = {}
  BY <1>2
<1>6. CASE Done(h)
  BY <1>3, <1>4, <1>5, <1>6, DoneStep
<1>7. CASE ~Done(h)
  <2>1. hs' = [hs EXCEPT ![h].at = "mail"] /\ c.kind = "register"
    BY <1>7 DEF InsertWallet
  <2>2. /\ hs'[h].kind = c.kind /\ hs'[h].at = "mail" /\ hs'[h].row = c.row /\ hs'[h].id = c.id
        /\ hs'[h].arg = c.arg /\ \A g \in Handlers \ {h} : hs'[g] = hs[g]
    BY <1>1, <2>1 DEF PastInv, AccountsInv, CallsOK, Call
  <2>3. CopyOK(hs[h])' /\ ~Fresh(hs[h])'
    BY <1>1, <1>4, <2>1, <2>2 DEF CopyOK, Fresh, Saving, KindOK, EntityOK, Made, Shown
  <2>4. <<c.row.vtok, c.row.email>> \in Papers /\ <<c.row.rtok, c.id>> \in Owned
    BY <1>1 DEF Papers, Owned, Copied
  <2>5. /\ UNCHANGED <<rows, ver, collided, said, resets, admitted>> /\ proven \subseteq proven'
        /\ minted <= minted'
    BY <1>1, <1>4
  <2> QED
    BY <1>3, <1>4, <1>5, <2>2, <2>3, <2>4, <2>5, CallStep
<1> QED
  BY <1>6, <1>7

\* A step that writes the row of u, whose tokens and e-mail stood together before.
LEMMA RowStep ==
  ASSUME PastInv, AccountsInv', PastTypes', NEW h \in Handlers, NEW u \in Ids, NEW r, RowOK(r),
         \A g \in Handlers \ {h} : hs'[g] = hs[g],
         rows' = [rows EXCEPT ![u] = r],
         UNCHANGED <<minted, mailed, stale, proven>>, collided => collided',
         \A v \in Ids \ {u} : ver'[v] = ver[v],
         Exists(u) => (r = rows[u] /\ ver'[u] = ver[u]) \/ ver'[u] > ver[u],
         CopyOK(hs[h])', Made(r), Shown(u, rows[u])',
         ~collided' => <<r.vtok, r.email>> \in Papers,
         <<r.rtok, u>> \in Owned \/ r.rtok = None,
         hs'[h].row # NoUser =>
           /\ ~collided' => <<hs'[h].row.vtok, hs'[h].row.email>> \in Papers
           /\ <<hs'[h].row.rtok, hs'[h].id>> \in Owned \/ hs'[h].row.rtok = None,
         \A i \in 1 .. Len(resets') : resets'[i] \in 0 .. minted,
         SaidOK', SpentOK', AdmittedOK'
  PROVE  PastInv'
<1>1. /\ r # NoUser /\ rows'[u] = r /\ (\A v \in Ids \ {u} : rows'[v] = rows[v])
      /\ Present' = Present \cup {u} /\ Present \subseteq Ids
  BY AccountsAssumption DEF RowOK, PastInv, AccountsInv, RowsOK, Present, Exists
<1>2. \A v \in Present : (rows'[v] = rows[v] /\ ver'[v] = ver[v]) \/ ver'[v] > ver[v]
  BY <1>1 DEF Present
<1>3. minted <= minted' /\ proven \subseteq proven' /\ (stale => stale')
  BY DEF PastInv, AccountsInv
<1>4. \A g \in Handlers \ {h} : CopyOK(hs[g])'
  BY <1>2, <1>3, OthersOK
<1>5. CopiesOK'
  BY <1>4 DEF CopiesOK
<1>6. MadeOK'
  BY <1>1 DEF PastInv, MadeOK, Made
<1>7. ShownOK'
  <2>1. ASSUME NEW v \in Present' PROVE Shown(v, rows[v])'
    <3>1. CASE v = u
      BY <3>1
    <3>2. CASE v # u
      BY <1>1, <3>2 DEF PastInv, ShownOK, Shown
    <3> QED
      BY <3>1, <3>2
  <2> QED
    BY <2>1 DEF ShownOK
<1>8. ~collided' => Functional(Papers)'
  <2>1. ~collided' => Papers' \subseteq Papers
    BY <1>1 DEF Papers, Copied
  <2> QED
    BY <2>1, FunctionalPart DEF PastInv
<1>9. Functional(Owned)'
  <2>1. \A p \in Owned' : p \in Owned \/ p[1] = None
    BY <1>1 DEF Owned, Copied
  <2> QED
    BY <2>1 DEF PastInv, Functional
<1> QED
  BY <1>5, <1>6, <1>7, <1>8, <1>9 DEF PastInv

\* Where no row changes in these columns, the past is as it was.
LEMMA PastStays ==
  ASSUME PastInv, UNCHANGED <<stale, collided, said, resets, admitted>>,
         \A v \in Ids : /\ Exists(v)' <=> Exists(v)
                        /\ Exists(v) => /\ rows'[v].hash = rows[v].hash
                                        /\ rows'[v].banned = rows[v].banned
                                        /\ rows'[v].rtok = rows[v].rtok
                                        /\ rows'[v].adminIp = rows[v].adminIp,
         \A g \in Handlers : Fresh(hs[g])' => Fresh(hs[g]) /\ hs'[g].row.rtok = hs[g].row.rtok
  PROVE  SaidOK' /\ SpentOK' /\ AdmittedOK'
<1>1. SaidOK'
  BY DEF PastInv, SaidOK
<1>2. SpentOK'
  BY DEF PastInv, SpentOK, ResetOnce, Present
<1>3. AdmittedOK'
  BY DEF PastInv, AdmittedOK
<1> QED
  BY <1>1, <1>2, <1>3

LEMMA ExtendSessionPast ==
  ASSUME PastInv, AccountsInv', NEW h \in Handlers, ExtendSession(h)
  PROVE  PastInv'
<1>1. /\ hs[h].at = "column" /\ hs[h].id \in Present /\ hs[h].id \in Ids /\ Exists(hs[h].id)
      /\ AccountsInv
  BY DEF PastInv, AccountsInv, CallsOK, CallOK, Present, ExtendSession
<1> PICK u \in Ids : u = hs[h].id
  BY <1>1
<1> DEFINE r == [rows[u] EXCEPT !.active = "new"]
<1>2. hs[h].at = "column" /\ u \in Present /\ u \in Ids /\ Exists(u) /\ AccountsInv
  BY <1>1
<1>3. RowOK(rows[u]) /\ rows[u] \in Row
  BY <1>2, RowThere DEF AccountsInv, RowOK
<1>4. RowOK(r) /\ rows' = [rows EXCEPT ![u] = r]
  BY <1>2, <1>3, ChangedOK DEF ExtendSession, AccountsInv, RowsOK
<1>5. /\ r.vtok = rows[u].vtok /\ r.email = rows[u].email /\ r.hash = rows[u].hash
      /\ r.banned = rows[u].banned /\ r.adminIp = rows[u].adminIp /\ r.rtok = rows[u].rtok
      /\ r.rexp = rows[u].rexp /\ r.verified = rows[u].verified
  BY <1>3 DEF Row
<1> HIDE DEF r
<1>6. /\ hs' = [hs EXCEPT ![h] = Idle]
      /\ ver' = [ver EXCEPT ![u] = IF rows' = rows THEN @ ELSE @ + 1]
      /\ UNCHANGED <<minted, mailed, stale, collided, proven, said, resets, admitted>>
      /\ UNCHANGED <<wallets, expired, bounds>>
  BY DEF ExtendSession, Done, inputs, collision, past
<1>7. PastTypes'
  BY <1>6 DEF PastInv, PastTypes, bounds
<1>8. hs'[h] = Idle /\ \A g \in Handlers \ {h} : hs'[g] = hs[g]
  BY <1>2, <1>6 DEF AccountsInv, CallsOK
<1>9. CopyOK(hs[h])' /\ ~Fresh(hs[h])' /\ hs'[h].row = NoUser
  BY <1>8 DEF CopyOK, Fresh, Saving, KindOK, EntityOK, Idle
<1>10. /\ r # NoUser /\ rows'[u] = r /\ (\A v \in Ids \ {u} : rows'[v] = rows[v])
       /\ ver[u] \in Nat /\ (\A v \in Ids \ {u} : ver'[v] = ver[v])
       /\ (r = rows[u] /\ ver'[u] = ver[u]) \/ ver'[u] > ver[u]
  BY <1>2, <1>4, <1>6, AccountsAssumption DEF AccountsInv, RowsOK, RowOK
<1>11. Made(rows[u]) /\ Shown(u, rows[u])
  BY <1>2 DEF PastInv, MadeOK, ShownOK
<1>12. Made(r) /\ Shown(u, rows[u])'
  BY <1>5, <1>6, <1>10, <1>11 DEF Made, Shown
<1>13. <<r.vtok, r.email>> \in Papers /\ <<r.rtok, u>> \in Owned
  BY <1>2, <1>5 DEF Papers, Owned
<1>14. \A v \in Present : (rows'[v] = rows[v] /\ ver'[v] = ver[v]) \/ ver'[v] > ver[v]
  BY <1>2, <1>10 DEF Present
<1>15. \A g \in Handlers : Fresh(hs[g])' => Fresh(hs[g]) /\ hs'[g].row.rtok = hs[g].row.rtok
  <2>1. minted <= minted' /\ proven \subseteq proven' /\ (stale => stale') /\ (collided => collided')
    BY <1>2, <1>6 DEF AccountsInv
  <2>2. \A g \in Handlers \ {h} : CopyOK(hs[g])' /\ (Fresh(hs[g])' => Fresh(hs[g]))
    BY <1>7, <1>8, <1>14, <2>1, OthersOK
  <2> QED
    BY <1>8, <1>9, <2>2
<1>16. SaidOK' /\ SpentOK' /\ AdmittedOK'
  <2>1. \A v \in Ids : /\ Exists(v)' <=> Exists(v)
                       /\ Exists(v) => /\ rows'[v].hash = rows[v].hash
                                       /\ rows'[v].banned = rows[v].banned
                                       /\ rows'[v].rtok = rows[v].rtok
                                       /\ rows'[v].adminIp = rows[v].adminIp
    BY <1>2, <1>5, <1>10 DEF Exists
  <2> QED
    BY <1>6, <1>15, <2>1, PastStays
<1>17. \A i \in 1 .. Len(resets') : resets'[i] \in 0 .. minted
  BY <1>6 DEF PastInv, MadeOK
<1> QED
  BY <1>2, <1>4, <1>6, <1>7, <1>8, <1>9, <1>10, <1>12, <1>13, <1>16, <1>17, RowStep

LEMMA InsertPast ==
  ASSUME PastInv, AccountsInv', NEW h \in Handlers, NEW u \in Ids, Insert(h, u)
  PROVE  PastInv'
<1> DEFINE c == hs[h]
           r == hs[h].row
<1>1. /\ c.at = "insert" /\ c \in Call /\ r # NoUser /\ RowOK(r) /\ Made(r) /\ KindOK(c)
      /\ ~Exists(u) /\ u \notin Present /\ AccountsInv
  BY DEF Insert, PastInv, AccountsInv, CallsOK, CallOK, CopiesOK, CopyOK, Present
<1>2. /\ UNCHANGED <<minted, mailed, stale, collided, proven, ver, resets, admitted>>
      /\ UNCHANGED <<wallets, expired, bounds>>
  BY DEF Insert, inputs, collision
<1>3. CASE Taken(r.email, u)
  <2>1. Done(h) /\ UNCHANGED <<rows, said>>
    BY <1>3 DEF Insert
  <2>2. PastTypes' /\ mailed' \ mailed = {} /\ (stale => stale')
    BY <1>2, <2>1 DEF PastInv, PastTypes, bounds
  <2>3. UNCHANGED <<rows, ver, collided, said, resets, admitted, minted, proven>>
    BY <1>2, <2>1
  <2> QED
    BY <2>1, <2>2, <2>3, DoneStep
<1>4. CASE ~Taken(r.email, u)
  <2>1. /\ rows' = [rows EXCEPT ![u] = r]
        /\ hs' = [hs EXCEPT ![h].at = "wallet", ![h].id = u]
        /\ said' = [said EXCEPT ![u].hash = r.hash]
    BY <1>4 DEF Insert
  <2>2. /\ hs'[h].at = "wallet" /\ hs'[h].id = u /\ hs'[h].row = r /\ hs'[h].kind = c.kind
        /\ hs'[h].arg = c.arg /\ \A g \in Handlers \ {h} : hs'[g] = hs[g]
    BY <1>1, <2>1 DEF AccountsInv, CallsOK, Call
  <2>3. ~r.verified /\ ~r.banned /\ r.rtok = None /\ EntityOK(c.kind, c.arg, r)
    BY <1>1 DEF KindOK
  <2>4. PastTypes'
    <3>1. said' \in [Ids -> [hash : Token, banned : BOOLEAN]]
      BY <1>1, <2>1 DEF PastInv, PastTypes, RowOK, Row
    <3> QED
      BY <1>2, <3>1 DEF PastInv, PastTypes, bounds
  <2>5. rows'[u] = r /\ \A v \in Ids \ {u} : rows'[v] = rows[v]
    BY <1>1, <2>1 DEF AccountsInv, RowsOK
  <2>6. CopyOK(hs[h])' /\ Shown(u, rows[u])' /\ ~Fresh(hs[h])'
    BY <1>1, <1>2, <2>2, <2>3, <2>5 DEF CopyOK, Fresh, Saving, KindOK, EntityOK, Made, Shown
  <2>7. <<r.vtok, r.email>> \in Papers
    BY <1>1 DEF Papers, Copied
  <2>8. \A g \in Handlers : Fresh(hs[g])' => Fresh(hs[g]) /\ hs'[g].row = hs[g].row
    BY <1>2, <2>2, <2>6 DEF Fresh
  <2>9. \A i \in 1 .. Len(resets') : resets'[i] \in 0 .. minted
    BY <1>2 DEF PastInv, MadeOK
  <2>10. SaidOK'
    <3>1. said'[u].hash = r.hash /\ said'[u].banned = said[u].banned /\ \A v \in Ids \ {u} : said'[v] = said[v]
      BY <2>1 DEF PastInv, PastTypes
    <3>2. ~stale => ~said[u].banned
      BY <1>1 DEF PastInv, SaidOK
    <3>3. stale' = stale /\ rows'[u] # NoUser
      BY <1>1, <1>2, <2>5
    <3>4. \A v \in Ids \ {u} : Exists(v)' <=> Exists(v)
      BY <2>5 DEF Exists
    <3>5. Exists(u)' /\ rows'[u].hash = said'[u].hash /\ (~stale => rows'[u].banned = said'[u].banned)
      <4>1. r.banned \in BOOLEAN /\ said[u].banned \in BOOLEAN
        BY <1>1 DEF RowOK, Row, PastInv, PastTypes
      <4>2. ~stale => r.banned = FALSE /\ said[u].banned = FALSE
        BY <2>3, <3>2, <4>1
      <4> QED
        BY <2>5, <3>1, <3>3, <4>2 DEF Exists
    <3>6. SaidOK
      BY DEF PastInv
    <3> QED
      BY <2>5, <3>1, <3>3, <3>4, <3>5, <3>6 DEF SaidOK
  <2>11. SpentOK'
    <3>1. \A i \in 1 .. Len(resets) : resets[i] # None
      BY <1>1, AccountsAssumption DEF PastInv, MadeOK, AccountsInv
    <3>2. \A v \in Present' : v = u \/ (v \in Present /\ rows'[v] = rows[v])
      BY <2>5 DEF Present, Exists
    <3>3. \A i \in 1 .. Len(resets) : ~collided => \A v \in Present' : rows'[v].rtok # resets[i]
      BY <2>3, <2>5, <3>1, <3>2 DEF PastInv, SpentOK
    <3> QED
      BY <1>2, <2>8, <3>3 DEF PastInv, SpentOK, ResetOnce
  <2>12. AdmittedOK'
    BY <1>1, <1>2, <2>5 DEF PastInv, AdmittedOK, Exists
  <2> HIDE DEF r
  <2> QED
    BY <1>1, <1>2, <2>1, <2>2, <2>3, <2>4, <2>6, <2>7, <2>9, <2>10, <2>11, <2>12, RowStep DEF Exists
<1> QED
  BY <1>3, <1>4

LEMMA MergedColumns ==
  ASSUME NEW e, NEW s, NEW r, r \in Row, NEW m, m = Merged(e, s, r)
  PROVE  /\ m.hash = IF e.hash # s.hash THEN e.hash ELSE r.hash
         /\ m.banned = IF e.banned # s.banned THEN e.banned ELSE r.banned
         /\ m.adminIp = IF e.adminIp # s.adminIp THEN e.adminIp ELSE r.adminIp
         /\ m.vtok = IF e.vtok # s.vtok THEN e.vtok ELSE r.vtok
         /\ m.rtok = IF e.rtok # s.rtok THEN e.rtok ELSE r.rtok
         /\ m.rexp = IF e.rexp # s.rexp THEN e.rexp ELSE r.rexp
         /\ m.email = IF e.email # s.email THEN e.email ELSE r.email
         /\ m.verified = IF e.verified # s.verified THEN e.verified ELSE r.verified
<1>1. DOMAIN r = {"email", "hash", "verified", "vtok", "rtok", "rexp", "guest", "banned",
                  "adminIp", "active", "profile"}
  BY DEF Row
<1> QED
  BY <1>1 DEF Merged

\* Where a call goes after its update: what goes on of it has the tokens it had,
\* and is current only if the save was.
LEMMA OnwardPast ==
  ASSUME PastInv, NEW h \in Handlers, NEW c, c = hs[h], c.at = "update",
         NEW u \in Ids, u = c.id, NEW now \in Nat, now >= ver[u],
         hs'[h] = Onward(h, now), ver'[u] = now,
         Fresh(c) => /\ rows'[u].hash = c.row.hash /\ rows'[u].banned = c.row.banned
                     /\ rows'[u].adminIp = c.row.adminIp,
         UNCHANGED <<minted, proven, stale>>, collided => collided'
  PROVE  /\ CopyOK(hs[h])'
         /\ hs'[h].row # NoUser => /\ hs'[h].row.vtok = c.row.vtok
                                   /\ hs'[h].row.email = c.row.email
                                   /\ hs'[h].row.rtok = c.row.rtok
                                   /\ hs'[h].id = u
         /\ Fresh(hs[h])' => Fresh(c) /\ c.kind = "firstIp" /\ hs'[h].row.rtok = c.row.rtok
<1>1. /\ c \in Call /\ c.row # NoUser /\ RowOK(c.row) /\ c.row \in Row /\ Made(c.row) /\ Shown(u, c.row)
      /\ c.base <= ver[u] /\ KindOK(c) /\ EntityOK(c.kind, c.arg, c.row) /\ ver[u] \in Nat
      /\ c.base \in Nat /\ ver'[u] = now /\ hs'[h] = Onward(h, now)
  BY DEF PastInv, AccountsInv, CallsOK, CallOK, CopiesOK, CopyOK, KindOK, Call, Saving, RowOK
<1>2. CASE c.kind \in {"resend", "forgot", "link"}
  <2>1. /\ hs'[h].at = "mail" /\ hs'[h].row = c.row /\ hs'[h].id = u /\ hs'[h].kind = c.kind
        /\ hs'[h].arg = c.arg
    BY <1>1, <1>2 DEF Onward, Call
  <2>2. Made(hs[h].row)' /\ Shown(hs[h].id, hs[h].row)'
    BY <1>1, <2>1 DEF Made, Shown
  <2>3. KindOK(hs[h])'
    BY <1>1, <1>2, <2>1 DEF KindOK, EntityOK
  <2> QED
    BY <2>1, <2>2, <2>3 DEF CopyOK, Fresh, Saving
<1>3. CASE c.kind = "firstIp" /\ c.row.active # "old"
  <2> DEFINE r == [c.row EXCEPT !.active = "new"]
             b == IF c.base = ver[u] THEN now ELSE c.base
             d == [c EXCEPT !.kind = "session", !.at = "select", !.row = r, !.seen = NoUser,
                            !.base = b]
  <2>1. hs'[h] = d
    BY <1>1, <1>3 DEF Onward, Call
  <2>2. /\ r.vtok = c.row.vtok /\ r.email = c.row.email /\ r.hash = c.row.hash
        /\ r.banned = c.row.banned /\ r.adminIp = c.row.adminIp /\ r.rtok = c.row.rtok
        /\ r.rexp = c.row.rexp /\ r.verified = c.row.verified
    BY <1>1 DEF Row
  <2> HIDE DEF r, b
  <2>3. d.at = "select" /\ d.row = r /\ d.id = c.id /\ d.kind = "session" /\ d.arg = c.arg /\ d.base = b
    BY <1>1 DEF Call
  <2> HIDE DEF d
  <2>4. /\ hs'[h].at = "select" /\ hs'[h].row = r /\ hs'[h].id = u /\ hs'[h].kind = "session"
        /\ hs'[h].arg = c.arg /\ hs'[h].base = b
    BY <2>1, <2>3
  <2>5. Made(hs[h].row)' /\ Shown(hs[h].id, hs[h].row)'
    BY <1>1, <2>2, <2>4 DEF Made, Shown
  <2>6. (Fresh(hs[h])' => Fresh(c)) /\ hs'[h].base <= ver'[u]
    BY <1>1, <2>4 DEF Fresh, Saving, b
  <2>7. Fresh(hs[h])' => CurrentOK(hs[h])'
    BY <2>2, <2>4, <2>6 DEF CurrentOK, Touched
  <2>8. KindOK(hs[h])'
    BY <1>1, <1>3, <2>2, <2>4 DEF KindOK, EntityOK
  <2>9. CopyOK(hs[h])'
    BY <2>4, <2>5, <2>6, <2>7, <2>8 DEF CopyOK
  <2> QED
    BY <1>3, <2>2, <2>4, <2>6, <2>9
<1>4. CASE c.kind = "session"
  <2>1. /\ hs'[h].at = "granted" /\ hs'[h].row = c.row /\ hs'[h].id = u /\ hs'[h].kind = c.kind
        /\ hs'[h].arg = c.arg
    BY <1>1, <1>4 DEF Onward, Call
  <2>2. Made(hs[h].row)' /\ Shown(hs[h].id, hs[h].row)'
    BY <1>1, <2>1 DEF Made, Shown
  <2>3. KindOK(hs[h])'
    BY <1>1, <1>4, <2>1 DEF KindOK, EntityOK
  <2> QED
    BY <2>1, <2>2, <2>3 DEF CopyOK, Fresh, Saving
<1>5. CASE (c.kind = "firstIp" /\ c.row.active = "old")
           \/ c.kind \notin {"resend", "forgot", "link", "firstIp", "session"}
  <2>1. hs'[h] = Idle
    BY <1>1, <1>5 DEF Onward
  <2> QED
    BY <2>1 DEF CopyOK, Fresh, Saving, KindOK, EntityOK, Idle
<1> QED
  BY <1>2, <1>3, <1>4, <1>5

LEMMA UpdatePast ==
  ASSUME PastInv, AccountsInv', NEW h \in Handlers, Update(h)
  PROVE  PastInv'
<1>1. PICK c : c = hs[h]
  OBVIOUS
<1>2. PICK u : u = c.id
  OBVIOUS
<1>3. PICK r : r = Merged(c.row, c.seen, rows[u])
  OBVIOUS
<1>4. PICK now : now = IF r = rows[u] THEN ver[u] ELSE ver[u] + 1
  OBVIOUS
<1>5. /\ c.at = "update" /\ c \in Call /\ u \in Present /\ u \in Ids /\ Exists(u) /\ c.row # NoUser
      /\ RowOK(c.row) /\ RowOK(c.seen) /\ AccountsInv
  BY <1>1, <1>2 DEF Update, PastInv, AccountsInv, CallsOK, CallOK, Present
<1>6. /\ Made(c.row) /\ Shown(u, c.row) /\ c.base <= ver[u] /\ EntityOK(c.kind, c.arg, c.row)
      /\ Fresh(c) => c.seen = rows[u] /\ Touched(c.kind, c.arg, c.row, c.seen)
      /\ ~stale => Touched(c.kind, c.arg, c.row, c.seen)
  BY <1>1, <1>2, <1>5 DEF PastInv, CopiesOK, CopyOK, CurrentOK, KindOK, Saving
<1>7. RowOK(rows[u]) /\ rows[u] \in Row /\ Made(rows[u]) /\ Shown(u, rows[u])
  BY <1>5, RowThere DEF AccountsInv, RowOK, PastInv, MadeOK, ShownOK
<1>8. RowOK(r)
  BY <1>3, <1>5, <1>7, MergedOK
<1>9. /\ r.hash = IF c.row.hash # c.seen.hash THEN c.row.hash ELSE rows[u].hash
      /\ r.banned = IF c.row.banned # c.seen.banned THEN c.row.banned ELSE rows[u].banned
      /\ r.adminIp = IF c.row.adminIp # c.seen.adminIp THEN c.row.adminIp ELSE rows[u].adminIp
      /\ r.vtok = IF c.row.vtok # c.seen.vtok THEN c.row.vtok ELSE rows[u].vtok
      /\ r.rtok = IF c.row.rtok # c.seen.rtok THEN c.row.rtok ELSE rows[u].rtok
      /\ r.rexp = IF c.row.rexp # c.seen.rexp THEN c.row.rexp ELSE rows[u].rexp
      /\ r.email = IF c.row.email # c.seen.email THEN c.row.email ELSE rows[u].email
      /\ r.verified = IF c.row.verified # c.seen.verified THEN c.row.verified ELSE rows[u].verified
  BY <1>3, <1>7, MergedColumns
<1>10. ver[u] \in Nat /\ now \in Nat /\ now >= ver[u] /\ minted \in Nat /\ c.base \in Nat
  BY <1>4, <1>5 DEF AccountsInv, Call
<1>11. /\ UNCHANGED <<minted, mailed, stale, proven>>
       /\ UNCHANGED <<wallets, expired, bounds>>
  BY DEF Update, inputs
<1>12. CASE Taken(r.email, u)
  <2>1. Done(h) /\ UNCHANGED <<rows, ver, collided, said, resets, admitted>>
    BY <1>1, <1>2, <1>3, <1>12 DEF Update
  <2>2. PastTypes' /\ mailed' \ mailed = {} /\ (stale => stale')
    BY <1>11, <2>1 DEF PastInv, PastTypes, bounds
  <2>3. UNCHANGED <<rows, ver, collided, said, resets, admitted, minted, proven>>
    BY <1>11, <2>1
  <2> QED
    BY <2>1, <2>2, <2>3, DoneStep
<1>13. CASE ~Taken(r.email, u)
  <2>1. /\ rows' = [rows EXCEPT ![u] = r]
        /\ ver' = [ver EXCEPT ![u] = now]
        /\ collided' = (collided \/ ver[u] # c.base)
        /\ hs' = [hs EXCEPT ![h] = Onward(h, now)]
        /\ said' = Says(h)
        /\ resets' = IF c.kind = "reset" THEN Append(resets, c.arg) ELSE resets
        /\ admitted' = IF c.kind = "session" THEN [admitted EXCEPT ![u] = @ \cup {c.arg}] ELSE admitted
    BY <1>1, <1>2, <1>3, <1>4, <1>13 DEF Update
  \* Unless the save collides, it writes the entity.
  <2>2. ~collided' => Fresh(c) /\ ~collided
    BY <1>2, <1>5, <2>1 DEF Fresh, Saving
  <2>3. Fresh(c) => /\ r.hash = c.row.hash /\ r.banned = c.row.banned /\ r.adminIp = c.row.adminIp
                    /\ r.vtok = c.row.vtok /\ r.rtok = c.row.rtok /\ r.email = c.row.email
                    /\ r.verified = c.row.verified
    BY <1>6, <1>9
  <2>4. /\ rows'[u] = r /\ (\A v \in Ids \ {u} : rows'[v] = rows[v])
        /\ ver'[u] = now /\ (\A v \in Ids \ {u} : ver'[v] = ver[v])
        /\ \A g \in Handlers \ {h} : hs'[g] = hs[g]
    BY <1>5, <2>1 DEF AccountsInv, RowsOK, CallsOK
  <2>5. (r = rows[u] /\ ver'[u] = ver[u]) \/ ver'[u] > ver[u]
    BY <1>4, <1>10, <2>4
  <2>6. /\ CopyOK(hs[h])'
        /\ hs'[h].row # NoUser => /\ hs'[h].row.vtok = c.row.vtok /\ hs'[h].row.email = c.row.email
                                  /\ hs'[h].row.rtok = c.row.rtok /\ hs'[h].id = u
        /\ Fresh(hs[h])' => Fresh(c) /\ c.kind = "firstIp" /\ hs'[h].row.rtok = c.row.rtok
    <3>1. Fresh(c) => /\ rows'[u].hash = c.row.hash /\ rows'[u].banned = c.row.banned
                      /\ rows'[u].adminIp = c.row.adminIp
      BY <2>3, <2>4
    <3>2. UNCHANGED <<minted, proven, stale>> /\ (collided => collided')
      BY <1>11, <2>1
    <3>3. hs'[h] = Onward(h, now) /\ ver'[u] = now
      BY <1>5, <2>1 DEF AccountsInv, CallsOK
    <3>4. c = hs[h] /\ c.at = "update" /\ u \in Ids /\ u = c.id /\ now \in Nat /\ now >= ver[u]
      BY <1>1, <1>2, <1>5, <1>10
    <3> QED
      BY <3>1, <3>2, <3>3, <3>4, OnwardPast
  <2>7. Made(r)
    BY <1>6, <1>7, <1>9 DEF Made
  <2>8. Shown(u, rows[u])'
    <3>1. proven' = proven /\ rows'[u] = r /\ (collided => collided')
      BY <1>11, <2>1, <2>4
    <3>2. r.verified => c.row.verified \/ rows[u].verified
      BY <1>9
    <3>3. ~collided' => r.verified = c.row.verified /\ r.email = c.row.email /\ ~collided
      BY <2>2, <2>3
    <3> QED
      BY <1>6, <1>7, <3>1, <3>2, <3>3 DEF Shown
  <2>9. <<c.row.vtok, c.row.email>> \in Papers /\ <<c.row.rtok, u>> \in Owned /\ <<rows[u].rtok, u>> \in Owned
    BY <1>1, <1>2, <1>5 DEF Papers, Owned, Copied
  <2>10. (~collided' => <<r.vtok, r.email>> \in Papers) /\ <<r.rtok, u>> \in Owned
    BY <1>9, <2>2, <2>3, <2>9
  <2>11. /\ said' \in [Ids -> [hash : Token, banned : BOOLEAN]]
         /\ \A v \in Ids \ {u} : said'[v] = said[v]
         /\ said'[u].hash = IF c.kind \in {"reset", "link"} THEN c.row.hash ELSE said[u].hash
         /\ said'[u].banned = IF c.kind \in {"ban", "unban"} THEN c.row.banned ELSE said[u].banned
    <3>1. said \in [Ids -> [hash : Token, banned : BOOLEAN]] /\ c.row.hash \in Token /\ c.row.banned \in BOOLEAN
      BY <1>5 DEF PastInv, PastTypes, RowOK, Row
    <3>2. said' = CASE c.kind \in {"reset", "link"} -> [said EXCEPT ![u].hash = c.row.hash]
                    [] c.kind \in {"ban", "unban"}  -> [said EXCEPT ![u].banned = c.row.banned]
                    [] OTHER                         -> said
      BY <1>1, <1>2, <2>1 DEF Says
    <3>3. CASE c.kind \in {"reset", "link"}
      BY <1>5, <3>1, <3>2, <3>3
    <3>4. CASE c.kind \in {"ban", "unban"}
      BY <1>5, <3>1, <3>2, <3>4
    <3>5. CASE c.kind \notin {"reset", "link", "ban", "unban"}
      BY <1>5, <3>1, <3>2, <3>5
    <3> QED
      BY <3>3, <3>4, <3>5
  <2>12. /\ resets' \in Seq(Nat)
         /\ \A i \in 1 .. Len(resets') : resets'[i] \in 0 .. minted
         /\ c.kind # "reset" => resets' = resets
         /\ c.kind = "reset" => /\ Len(resets') = Len(resets) + 1
                                /\ resets'[Len(resets) + 1] = c.arg
                                /\ \A i \in 1 .. Len(resets) : resets'[i] = resets[i]
    <3>1. resets \in Seq(Nat) /\ (\A i \in 1 .. Len(resets) : resets[i] \in 0 .. minted)
      BY DEF PastInv, PastTypes, MadeOK
    <3>2. CASE c.kind = "reset"
      <4>1. c.arg \in 0 .. minted /\ c.arg \in Nat /\ resets' = Append(resets, c.arg)
        BY <1>6, <1>10, <2>1, <3>2 DEF EntityOK
      <4> QED
        BY <1>10, <3>1, <3>2, <4>1
    <3>3. CASE c.kind # "reset"
      BY <2>1, <3>1, <3>3
    <3> QED
      BY <3>2, <3>3
  <2>13. /\ admitted' \in [Ids -> SUBSET Ips]
         /\ \A v \in Ids \ {u} : admitted'[v] = admitted[v]
         /\ admitted'[u] = IF c.kind = "session" THEN admitted[u] \cup {c.arg} ELSE admitted[u]
    <3>1. admitted \in [Ids -> SUBSET Ips] /\ (c.kind = "session" => c.arg \in Ips)
      BY <1>6 DEF PastInv, PastTypes, EntityOK
    <3> QED
      BY <1>5, <2>1, <3>1
  <2>14. PastTypes'
    BY <1>11, <2>1, <2>11, <2>12, <2>13 DEF PastInv, PastTypes, bounds
  <2>15. SaidOK'
    <3>1. ~stale => rows[u].hash = said[u].hash /\ rows[u].banned = said[u].banned
      BY <1>5 DEF PastInv, SaidOK
    <3>2. ~stale => r.hash = said'[u].hash /\ r.banned = said'[u].banned
      BY <1>6, <1>9, <2>11, <3>1 DEF Touched
    <3>3. Exists(u)' /\ \A v \in Ids \ {u} : Exists(v)' <=> Exists(v)
      BY <1>8, <2>4, AccountsAssumption DEF Exists, RowOK
    <3> QED
      BY <1>11, <2>4, <2>11, <3>2, <3>3 DEF PastInv, SaidOK
  <2>16. \A g \in Handlers \ {h} : Fresh(hs[g])' => Fresh(hs[g]) /\ hs'[g] = hs[g]
    <3>1. \A v \in Present : (rows'[v] = rows[v] /\ ver'[v] = ver[v]) \/ ver'[v] > ver[v]
      BY <2>4, <2>5 DEF Present
    <3>2. proven \subseteq proven' /\ (collided => collided') /\ (stale => stale')
      BY <1>11, <2>1
    <3>3. minted <= minted'
      BY <1>10, <1>11
    <3> QED
      BY <2>4, <2>14, <3>1, <3>2, <3>3, OthersOK
  <2>17. ASSUME ~collided'
         PROVE  /\ \A i \in 1 .. Len(resets') :
                     /\ \A v \in Present' : rows'[v].rtok # resets'[i]
                     /\ \A g \in Handlers : Fresh(hs[g])' => hs'[g].row.rtok # resets'[i]
                /\ \A i, j \in 1 .. Len(resets') : resets'[i] = resets'[j] => i = j
    <3>1. Fresh(c) /\ ~collided
      BY <2>2, <2>17
    <3>2. /\ \A i \in 1 .. Len(resets) :
               /\ \A v \in Present : rows[v].rtok # resets[i]
               /\ \A g \in Handlers : Fresh(hs[g]) => hs[g].row.rtok # resets[i]
          /\ \A i, j \in 1 .. Len(resets) : resets[i] = resets[j] => i = j
      BY <3>1 DEF PastInv, SpentOK, ResetOnce
    <3>3. Present' = Present
      BY <1>5, <1>8, <2>4, AccountsAssumption DEF Present, Exists, RowOK
    \* What the row and the current calls hold was there before, or is None.
    <3>4. r.rtok = c.row.rtok /\ \A i \in 1 .. Len(resets) : c.row.rtok # resets[i]
      BY <1>1, <2>3, <3>1, <3>2
    <3>5. \A i \in 1 .. Len(resets) :
            /\ \A v \in Present' : rows'[v].rtok # resets[i]
            /\ \A g \in Handlers : Fresh(hs[g])' => hs'[g].row.rtok # resets[i]
      <4>1. \A v \in Present : v = u \/ (v \in Ids /\ rows'[v] = rows[v])
        BY <2>4 DEF Present
      <4> QED
        BY <2>4, <2>6, <2>16, <3>2, <3>3, <3>4, <4>1
    <3>6. CASE c.kind # "reset"
      BY <2>12, <3>2, <3>5, <3>6
    <3>7. CASE c.kind = "reset"
      <4>1. rows[u].rtok = c.arg /\ c.row.rtok = None /\ c.arg \in 0 .. minted /\ c.arg # None
        BY <1>6, <1>10, <3>1, <3>7, AccountsAssumption DEF Touched, EntityOK
      <4>2. \A i \in 1 .. Len(resets) : resets[i] # c.arg
        BY <1>5, <3>2, <4>1
      <4>3. <<c.arg, u>> \in Owned /\ Functional(Owned)
        BY <2>9, <4>1 DEF PastInv
      <4>4. \A v \in Present' : rows'[v].rtok # c.arg
        <5> SUFFICES ASSUME NEW v \in Present', rows'[v].rtok = c.arg
                     PROVE  FALSE
          OBVIOUS
        <5>1. v # u /\ v \in Present /\ rows[v].rtok = c.arg
          BY <2>4, <3>3, <3>4, <4>1 DEF Present
        <5>2. <<c.arg, v>> \in Owned
          BY <5>1 DEF Owned
        <5> QED
          BY <4>1, <4>3, <5>1, <5>2, FunctionalUsed
      <4>5. \A g \in Handlers : Fresh(hs[g])' => hs'[g].row.rtok # c.arg
        <5> SUFFICES ASSUME NEW g \in Handlers, Fresh(hs[g])', hs'[g].row.rtok = c.arg
                     PROVE  FALSE
          OBVIOUS
        <5>1. g # h /\ Fresh(hs[g]) /\ hs'[g] = hs[g] /\ hs[g].row.rtok = c.arg
          BY <2>6, <2>16, <3>7
        <5>2. g \in Copied /\ hs[g].base = ver[hs[g].id] /\ hs[g].base = ver'[hs[g].id]
          BY <5>1 DEF Fresh, PastInv, AccountsInv, CallsOK, CallOK, Saving, Copied
        <5>3. <<c.arg, hs[g].id>> \in Owned
          BY <5>1, <5>2 DEF Owned
        <5>4. hs[g].id = u
          BY <4>1, <4>3, <5>3, FunctionalUsed
        <5>5. c.row.hash # c.seen.hash /\ r.hash = c.row.hash /\ c.seen = rows[u]
          BY <1>6, <2>3, <3>1, <3>7 DEF Touched
        <5>6. now = ver[u] + 1
          BY <1>4, <5>5
        <5>7. hs[g].base = ver[u] /\ hs[g].base = ver'[u] /\ ver'[u] = now
          BY <2>4, <5>2, <5>4
        <5> QED
          BY <1>10, <5>6, <5>7
      <4> QED
        BY <2>12, <3>2, <3>5, <3>7, <4>2, <4>4, <4>5
    <3> QED
      BY <3>6, <3>7
  <2>18. SpentOK'
    BY <2>17 DEF SpentOK, ResetOnce
  <2>19. AdmittedOK'
    <3> SUFFICES ASSUME ~collided'
                 PROVE  \A v \in Ids : \A ip \in admitted'[v] : Exists(v)' /\ rows'[v].adminIp = ip
      BY DEF AdmittedOK
    <3>1. Fresh(c) /\ ~collided
      BY <2>2
    <3>2. \A v \in Ids : \A ip \in admitted[v] : Exists(v) /\ rows[v].adminIp = ip
      BY <3>1 DEF PastInv, AdmittedOK
    <3>3. Exists(u)' /\ \A v \in Ids \ {u} : Exists(v)' <=> Exists(v)
      BY <1>8, <2>4, AccountsAssumption DEF Exists, RowOK
    <3>4. \A ip \in admitted[u] : r.adminIp = ip
      <4>1. IF c.kind = "firstIp" THEN rows[u].adminIp = None ELSE c.row.adminIp = rows[u].adminIp
        BY <1>6, <3>1 DEF Touched
      <4>2. r.adminIp = c.row.adminIp /\ None \notin Ips /\ admitted[u] \subseteq Ips
        BY <1>5, <2>3, <3>1, AccountsAssumption DEF PastInv, PastTypes
      <4> QED
        BY <1>5, <3>2, <4>1, <4>2
    <3>5. c.kind = "session" => r.adminIp = c.arg
      BY <1>6, <2>3, <3>1 DEF EntityOK
    <3> QED
      BY <2>4, <2>13, <3>2, <3>3, <3>4, <3>5
  <2>20. /\ UNCHANGED <<minted, mailed, stale, proven>> /\ (collided => collided')
         /\ \A i \in 1 .. Len(resets') : resets'[i] \in 0 .. minted
         /\ hs'[h].row # NoUser =>
              /\ ~collided' => <<hs'[h].row.vtok, hs'[h].row.email>> \in Papers
              /\ <<hs'[h].row.rtok, hs'[h].id>> \in Owned
    BY <1>11, <2>1, <2>6, <2>9, <2>12
  <2> QED
    BY <1>5, <1>8, <2>1, <2>4, <2>5, <2>6, <2>7, <2>8, <2>10, <2>14, <2>15, <2>18, <2>19, <2>20, RowStep
<1> QED
  BY <1>12, <1>13

LEMMA TimePassesPast ==
  ASSUME PastInv, AccountsInv', NEW hour \in BOOLEAN, TimePasses(hour)
  PROVE  PastInv'
<1> DEFINE aged(v) == IF Exists(v) /\ rows[v].active = "new"
                      THEN [rows[v] EXCEPT !.active = "old"] ELSE rows[v]
<1>1. /\ Quiet /\ rows' = [v \in Ids |-> aged(v)]
      /\ expired' = (IF hour THEN 0 .. minted ELSE expired)
      /\ UNCHANGED <<hs, minted, mailed, ver, stale, collided, proven, said, resets, admitted>>
      /\ UNCHANGED <<wallets, bounds>>
  BY DEF TimePasses, collision, past
<1>2. \A v \in Ids : /\ Exists(v)' <=> Exists(v)
                     /\ Exists(v) => /\ rows'[v].hash = rows[v].hash
                                     /\ rows'[v].banned = rows[v].banned
                                     /\ rows'[v].rtok = rows[v].rtok
                                     /\ rows'[v].rexp = rows[v].rexp
                                     /\ rows'[v].vtok = rows[v].vtok
                                     /\ rows'[v].email = rows[v].email
                                     /\ rows'[v].verified = rows[v].verified
                                     /\ rows'[v].adminIp = rows[v].adminIp
  <2> SUFFICES ASSUME NEW v \in Ids
               PROVE  /\ Exists(v)' <=> Exists(v)
                      /\ Exists(v) => /\ rows'[v].hash = rows[v].hash
                                      /\ rows'[v].banned = rows[v].banned
                                      /\ rows'[v].rtok = rows[v].rtok
                                      /\ rows'[v].rexp = rows[v].rexp
                                      /\ rows'[v].vtok = rows[v].vtok
                                      /\ rows'[v].email = rows[v].email
                                      /\ rows'[v].verified = rows[v].verified
                                      /\ rows'[v].adminIp = rows[v].adminIp
    OBVIOUS
  <2>1. rows'[v] = aged(v)
    BY <1>1
  <2>2. CASE ~Exists(v)
    BY <2>1, <2>2 DEF Exists
  <2>3. CASE Exists(v)
    <3>1. rows[v] \in Row
      BY <2>3 DEF PastInv, AccountsInv, RowsOK, Exists
    <3>2. CASE rows[v].active = "new"
      <4>1. rows'[v] = [rows[v] EXCEPT !.active = "old"]
        BY <2>1, <2>3, <3>2
      <4>2. rows'[v] \in Row
        BY <3>1, <4>1 DEF Row
      <4> QED
        BY <2>3, <3>1, <4>1, <4>2, AccountsAssumption DEF Row, Exists
    <3>3. CASE rows[v].active # "new"
      BY <2>1, <2>3, <3>3 DEF Exists
    <3> QED
      BY <3>2, <3>3
  <2> QED
    BY <2>2, <2>3
<1>3. \A g \in Handlers : ~Fresh(hs[g]) /\ ~Fresh(hs[g])' /\ hs'[g] = hs[g] /\ hs[g].at = "idle"
  BY <1>1 DEF Quiet, Fresh, Saving
<1>4. CopiesOK'
  <2> SUFFICES ASSUME NEW g \in Handlers
               PROVE  CopyOK(hs[g])'
    BY DEF CopiesOK
  <2>1. CopyOK(hs[g])
    BY DEF PastInv, CopiesOK
  <2> QED
    BY <1>1, <1>3, <2>1 DEF CopyOK, KindOK, EntityOK, Made, Shown, Saving
<1>5. SaidOK' /\ SpentOK' /\ AdmittedOK'
  BY <1>1, <1>2, <1>3, PastStays
<1>6. Present' = Present /\ Present \subseteq Ids
  BY <1>2 DEF Present
<1>7. MadeOK'
  BY <1>1, <1>2, <1>6 DEF PastInv, MadeOK, Made, Present
<1>8. ShownOK'
  BY <1>1, <1>2, <1>6 DEF PastInv, ShownOK, Shown, Present
<1>9. Papers' = Papers /\ Owned' = Owned
  <2>1. Copied' = Copied
    BY <1>1 DEF Copied
  <2>2. \A v \in Present : /\ rows'[v].vtok = rows[v].vtok /\ rows'[v].email = rows[v].email
                          /\ rows'[v].rtok = rows[v].rtok
    BY <1>2 DEF Present
  <2>3. {<<rows'[v].vtok, rows'[v].email>> : v \in Present} = {<<rows[v].vtok, rows[v].email>> : v \in Present}
    BY <2>2
  <2>4. {<<rows'[v].rtok, v>> : v \in Present} = {<<rows[v].rtok, v>> : v \in Present}
    BY <2>2
  <2> QED
    BY <1>1, <1>6, <2>1, <2>3, <2>4 DEF Papers, Owned
<1>10. PastTypes'
  BY <1>1 DEF PastInv, PastTypes, AccountsInv, bounds
<1> QED
  BY <1>1, <1>4, <1>5, <1>7, <1>8, <1>9, <1>10 DEF PastInv, Functional

LEMMA CrashPast ==
  ASSUME PastInv, AccountsInv', Crash
  PROVE  PastInv'
<1>1. /\ hs' = [h \in Handlers |-> Idle]
      /\ UNCHANGED <<rows, minted, mailed, ver, stale, collided, proven, said, resets, admitted>>
      /\ UNCHANGED <<wallets, expired, calls>> /\ crashes > 0 /\ crashes' = crashes - 1
  BY DEF Crash, rowVars, inputs, collision, past
<1>2. \A g \in Handlers : hs'[g] = Idle /\ CopyOK(hs[g])' /\ ~Fresh(hs[g])' /\ hs'[g].row = NoUser
  BY <1>1 DEF CopyOK, Fresh, Saving, KindOK, EntityOK, Idle
<1>3. CopiesOK' /\ Copied' = {}
  BY <1>2 DEF CopiesOK, Copied
<1>4. \A v \in Ids : Exists(v)' <=> Exists(v)
  BY <1>1 DEF Exists
<1>5. Present' = Present
  BY <1>4 DEF Present
<1>6. SaidOK' /\ SpentOK' /\ AdmittedOK'
  <2>1. \A v \in Ids : /\ Exists(v)' <=> Exists(v)
                       /\ Exists(v) => /\ rows'[v].hash = rows[v].hash
                                       /\ rows'[v].banned = rows[v].banned
                                       /\ rows'[v].rtok = rows[v].rtok
                                       /\ rows'[v].adminIp = rows[v].adminIp
    BY <1>1, <1>4
  <2>2. UNCHANGED <<stale, collided, said, resets, admitted>>
    BY <1>1
  <2> QED
    BY <1>2, <2>1, <2>2, PastStays
<1>7. MadeOK'
  BY <1>1, <1>5 DEF PastInv, MadeOK, Made
<1>8. ShownOK'
  BY <1>1, <1>5 DEF PastInv, ShownOK, Shown
<1>9. Papers' \subseteq Papers /\ Owned' \subseteq Owned
  BY <1>1, <1>3, <1>5 DEF Papers, Owned
<1>10. (~collided' => Functional(Papers)') /\ Functional(Owned)'
  BY <1>1, <1>9, FunctionalPart DEF PastInv
<1>11. PastTypes'
  BY <1>1 DEF PastInv, PastTypes
<1> QED
  BY <1>3, <1>6, <1>7, <1>8, <1>10, <1>11 DEF PastInv

LEMMA StutterPast ==
  ASSUME PastInv, AccountsInv', UNCHANGED vars
  PROVE  PastInv'
<1>1. /\ UNCHANGED <<rows, hs, minted, mailed, ver, stale, collided, proven, said, resets, admitted>>
      /\ UNCHANGED <<wallets, expired, calls, crashes>>
  BY DEF vars, rowVars, inputs, bounds, collision, past
<1>2. Present' = Present /\ Copied' = Copied /\ \A v \in Ids : Exists(v)' <=> Exists(v)
  BY <1>1 DEF Present, Exists, Copied
<1>3. CopiesOK' /\ \A g \in Handlers : Fresh(hs[g])' <=> Fresh(hs[g])
  BY <1>1 DEF PastInv, CopiesOK, CopyOK, CurrentOK, KindOK, EntityOK, Made, Shown, Fresh
<1>4. SaidOK' /\ SpentOK' /\ AdmittedOK'
  BY <1>1, <1>2, <1>3, PastStays
<1>5. MadeOK' /\ ShownOK'
  BY <1>1, <1>2 DEF PastInv, MadeOK, Made, ShownOK, Shown
<1>6. Papers' = Papers /\ Owned' = Owned
  BY <1>1, <1>2 DEF Papers, Owned
<1>7. PastTypes'
  BY <1>1 DEF PastInv, PastTypes
<1> QED
  BY <1>1, <1>3, <1>4, <1>5, <1>6, <1>7 DEF PastInv, Functional

LEMMA StartsPast == Init => PastInv
<1> SUFFICES ASSUME Init PROVE PastInv
  OBVIOUS
<1>1. AccountsInv
  BY StartsWell
<1>2. rows \in InitialRows /\ rows \in [Ids -> Row \cup {NoUser}]
  BY <1>1 DEF Init, AccountsInv, RowsOK
<1>3. \A v \in Present : /\ v \in Ids /\ rows[v] \in Row /\ rows[v].rtok = rows[v].rexp
                         /\ rows[v].hash \in 0 .. minted \cup {None}
                         /\ rows[v].vtok \in 0 .. minted \cup {None}
                         /\ rows[v].rtok \in 0 .. minted \cup {None}
                         /\ rows[v].rexp \in 0 .. minted \cup {None}
                         /\ rows[v].email = None => rows[v].vtok = None
  <2> SUFFICES ASSUME NEW v \in Present
               PROVE  /\ v \in Ids /\ rows[v] \in Row /\ rows[v].rtok = rows[v].rexp
                      /\ rows[v].hash \in 0 .. minted \cup {None}
                      /\ rows[v].vtok \in 0 .. minted \cup {None}
                      /\ rows[v].rtok \in 0 .. minted \cup {None}
                      /\ rows[v].rexp \in 0 .. minted \cup {None}
                      /\ rows[v].email = None => rows[v].vtok = None
    OBVIOUS
  <2>1. v \in Ids /\ rows[v] # NoUser /\ rows[v] \in Row
    BY <1>2 DEF Present, Exists
  <2>2. /\ rows[v].rtok = rows[v].rexp
        /\ {rows[v].hash, rows[v].vtok, rows[v].rtok} \subseteq 0 .. FirstMinted \cup {None}
        /\ rows[v].email = None => rows[v].vtok = None
    BY <1>2, <2>1, InitialRowsAssumption
  <2> QED
    BY <2>1, <2>2 DEF Init
<1>4. \A v, w \in Present : /\ rows[v].vtok = rows[w].vtok => v = w \/ rows[v].vtok = None
                            /\ rows[v].rtok = rows[w].rtok => v = w \/ rows[v].rtok = None
  <2> SUFFICES ASSUME NEW v \in Present, NEW w \in Present, v # w
               PROVE  /\ rows[v].vtok = rows[w].vtok => v = w \/ rows[v].vtok = None
                      /\ rows[v].rtok = rows[w].rtok => v = w \/ rows[v].rtok = None
    OBVIOUS
  <2>1. \A column \in {"email", "vtok", "rtok"} :
          rows[v][column] = rows[w][column] => rows[v][column] = None
    BY <1>2, InitialRowsAssumption DEF Present, Exists
  <2> QED
    BY <2>1
<1>5. hs = [h \in Handlers |-> Idle] /\ resets = <<>> /\ minted \in Nat
  BY <1>1 DEF Init, AccountsInv
<1>6. \A g \in Handlers : hs[g] = Idle /\ CopyOK(hs[g]) /\ ~Fresh(hs[g]) /\ hs[g].row = NoUser
  BY <1>5 DEF CopyOK, Fresh, Saving, KindOK, EntityOK, Idle
<1>7. CopiesOK /\ Copied = {}
  BY <1>6 DEF CopiesOK, Copied
<1>8. \A m \in mailed : \E v \in Present : /\ m.tok = rows[v].vtok /\ m.to = rows[v].email
                                           /\ rows[v].vtok # None
  BY DEF Init, Present
<1>9. MadeOK
  <2>1. \A v \in Present : Made(rows[v])
    BY <1>3 DEF Made
  <2>2. \A m \in mailed : m.tok \in 0 .. minted /\ m.to # None
    BY <1>3, <1>8
  <2> QED
    BY <1>5, <2>1, <2>2 DEF MadeOK
<1>10. ShownOK
  <2>1. \A v \in Present : rows[v].verified => rows[v].email # None
    BY <1>2, InitialRowsAssumption DEF Present, Exists
  <2> SUFFICES ASSUME NEW v \in Present, rows[v].verified
               PROVE  (\E e \in Emails : <<v, e>> \in proven) /\ <<v, rows[v].email>> \in proven
    BY DEF ShownOK, Shown
  <2>2. rows[v].email \in Emails
    BY <1>3, <2>1 DEF Row
  <2>3. <<v, rows[v].email>> \in proven
    BY <1>3 DEF Init, Present
  <2> QED
    BY <2>2, <2>3
<1>11. said \in [Ids -> [hash : Token, banned : BOOLEAN]] /\ SaidOK
  <2>1. said = [v \in Ids |-> IF Exists(v) THEN [hash |-> rows[v].hash, banned |-> rows[v].banned]
                             ELSE [hash |-> None, banned |-> FALSE]]
    BY DEF Init
  <2>2. \A v \in Ids : Exists(v) => rows[v].hash \in Token /\ rows[v].banned \in BOOLEAN
    BY <1>2 DEF Exists, Row
  <2> QED
    BY <2>1, <2>2 DEF SaidOK, Token
<1>12. Functional(Papers)
  <2>1. \A p \in Papers : \E v \in Present : p = <<rows[v].vtok, rows[v].email>>
    BY <1>7, <1>8 DEF Papers
  <2> SUFFICES ASSUME NEW p \in Papers, NEW q \in Papers, p[1] = q[1]
               PROVE  p[1] = None \/ p[2] = q[2]
    BY DEF Functional
  <2>2. PICK v \in Present : p = <<rows[v].vtok, rows[v].email>>
    BY <2>1
  <2>3. PICK w \in Present : q = <<rows[w].vtok, rows[w].email>>
    BY <2>1
  <2>4. /\ p[1] = rows[v].vtok /\ p[2] = rows[v].email
        /\ q[1] = rows[w].vtok /\ q[2] = rows[w].email
    BY <2>2, <2>3
  <2>5. CASE v = w
    BY <2>4, <2>5
  <2>6. CASE v # w
    BY <1>4, <2>4, <2>6
  <2> QED
    BY <2>5, <2>6
<1>13. Functional(Owned)
  <2> SUFFICES ASSUME NEW p \in Owned, NEW q \in Owned, p[1] = q[1]
               PROVE  p[1] = None \/ p[2] = q[2]
    BY DEF Functional
  <2>1. PICK v \in Present : p = <<rows[v].rtok, v>>
    BY <1>7 DEF Owned
  <2>2. PICK w \in Present : q = <<rows[w].rtok, w>>
    BY <1>7 DEF Owned
  <2>3. p[1] = rows[v].rtok /\ p[2] = v /\ q[1] = rows[w].rtok /\ q[2] = w
    BY <2>1, <2>2
  <2> QED
    BY <1>4, <2>3
<1>14. SpentOK
  BY <1>5 DEF SpentOK, ResetOnce
<1>15. admitted \in [Ids -> SUBSET Ips] /\ AdmittedOK
  <2>1. \A v \in Ids : admitted[v] = {rows[x].adminIp : x \in {w \in {v} : Exists(w)}} \ {None}
    BY DEF Init
  <2>2. \A v \in Ids : Exists(v) => rows[v].adminIp \in Ips \cup {None}
    BY <1>2 DEF Exists, Row
  <2>3. \A v \in Ids : \A ip \in admitted[v] : Exists(v) /\ rows[v].adminIp = ip /\ ip \in Ips
    BY <2>1, <2>2
  <2>4. admitted \in [Ids -> SUBSET Ips]
    BY <2>3 DEF Init
  <2> QED
    BY <2>3, <2>4 DEF AdmittedOK
<1>16. PastTypes
  <2>1. wallets \subseteq Ids /\ expired \subseteq Nat /\ stale \in BOOLEAN /\ collided \in BOOLEAN
    BY DEF Init
  <2>2. calls \in Nat /\ crashes \in Nat
    BY AccountsAssumption DEF Init
  <2>3. resets \in Seq(Nat)
    BY <1>5
  <2> QED
    BY <1>11, <1>15, <2>1, <2>2, <2>3 DEF PastTypes
<1> QED
  BY <1>1, <1>7, <1>9, <1>10, <1>11, <1>12, <1>13, <1>14, <1>15, <1>16 DEF PastInv

LEMMA StepKeepsPast == PastInv /\ [Next]_vars => PastInv'
<1> SUFFICES ASSUME PastInv, [Next]_vars PROVE PastInv'
  OBVIOUS
<1>1. AccountsInv'
  BY StepKeeps DEF PastInv
<1>2. ASSUME NEW h \in Handlers, SaveStep(h)
      PROVE  PastInv'
  BY <1>1, <1>2, SelectPast, UpdatePast, SendMailPast, InsertWalletPast, CheckEmailPast,
     ExtendSessionPast DEF SaveStep
<1>3. ASSUME NEW h \in Handlers, GuestLogin(h) \/ \E e \in Emails : Register(h, e)
      PROVE  PastInv'
  BY <1>1, <1>3, RegistrationPast
<1>4. ASSUME NEW h \in Handlers, NEW u \in Ids,
             Insert(h, u) \/ UserCall(h, u) \/ AdminCall(h, u) \/ Decide(h, u)
      PROVE  PastInv'
  BY <1>1, <1>4, InsertPast, UserCallPast, AdminCallPast
<1>5. ASSUME NEW hour \in BOOLEAN, TimePasses(hour)
      PROVE  PastInv'
  BY <1>1, <1>5, TimePassesPast
<1> QED
  BY <1>1, <1>2, <1>3, <1>4, <1>5, CrashPast, StutterPast DEF Next

-----------------------------------------------------------------------------
(* Theorems *)

\* Rows and calls stay well formed, whatever overlaps, for any number of
\* users, addresses and calls.
THEOREM AccountsAlwaysSound == Spec => []AccountsInv
BY StartsWell, StepKeeps, PTL DEF Spec

\* forgotPassword and resetPassword keep a reset token and the end of its hour
\* together in every row, although saves are not locked and overwrite each other.
THEOREM ResetTokensKeepTheirExpiry == Spec => []ResetTokenHasItsExpiry
<1>1. AccountsInv => ResetTokenHasItsExpiry
  BY DEF AccountsInv, RowsOK
<1> QED
  BY <1>1, AccountsAlwaysSound, PTL

\* However register and linkEmail overlap, an e-mail is one account's: both look
\* for it before they hash a password, and the column is unique.
THEOREM EmailsStayUnique == Spec => []OneAccountPerEmail
<1>1. AccountsInv => OneAccountPerEmail
  BY DEF AccountsInv, RowsOK
<1> QED
  BY <1>1, AccountsAlwaysSound, PTL

\* Whatever overlaps: what calls have in hand differs from the row in what the
\* call is about, tokens belong to one address and one user, and past and
\* present agree.
THEOREM PastAlwaysKept == Spec => []PastInv
BY StartsPast, StepKeepsPast, PTL DEF Spec

\* Rows, calls and mails are well formed, and hold tokens that have been made.
THEOREM AccountsTypeCorrect == Spec => []TypeOK
<1>1. PastInv => TypeOK
  <2> SUFFICES ASSUME PastInv PROVE TypeOK
    OBVIOUS
  <2>1. \A u \in Ids : Exists(u) =>
          {rows[u].hash, rows[u].vtok, rows[u].rtok, rows[u].rexp} \subseteq 0 .. minted \cup {None}
    BY DEF PastInv, MadeOK, Made, Present
  <2> QED
    BY <2>1 DEF PastInv, PastTypes, AccountsInv, RowsOK, CallsOK, TypeOK
<1> QED
  BY <1>1, PastAlwaysKept, PTL

\* verifyEmail, resendVerification and linkEmail: who is verified has presented a
\* token sent to an e-mail of the account, and, unless saves have collided, to
\* the e-mail the account has now.
THEOREM OnlyProvenAreVerified == Spec => []VerifiedIsProven
<1>1. PastInv => VerifiedIsProven
  BY DEF PastInv, ShownOK, Shown, VerifiedIsProven, Present
<1> QED
  BY <1>1, PastAlwaysKept, PTL

\* resetPassword, linkEmail, banUser and unbanUser: what they set stands until the
\* next of them, unless a save selects a row that changed since it was loaded.
THEOREM PasswordsAndBansStand == Spec => []SavesStand
<1>1. PastInv => SavesStand
  BY DEF PastInv, SaidOK, SavesStand
<1> QED
  BY <1>1, PastAlwaysKept, PTL

\* resetPassword: a token resets a password once, unless saves have collided.
THEOREM TokensResetOnce == Spec => []ResetOnce
<1>1. PastInv => ResetOnce
  BY DEF PastInv, SpentOK, ResetOnce
<1> QED
  BY <1>1, PastAlwaysKept, PTL

\* validateAdminSession: the sessions of an admin are all from one address, unless
\* saves have collided.
THEOREM AdminsStayAtOneAddress == Spec => []OneAddressPerAdmin
<1>1. PastInv => OneAddressPerAdmin
  BY DEF PastInv, AdmittedOK, OneAddressPerAdmin
<1> QED
  BY <1>1, PastAlwaysKept, PTL
=============================================================================

------------------------------- MODULE Accounts -------------------------------
(***************************************************************************)
(* The rows of users: registration, e-mail verification, password reset,   *)
(* profiles, guests who link an e-mail, sessions of admins and bans.       *)
(*                                                                         *)
(* Each call loads a row, changes the entity and saves it, without a lock. *)
(* TypeORM's save selects the row again and updates the columns in which   *)
(* the entity differs from what it selected, so a call is a load, a select *)
(* and an update, and what others change in between may be overwritten.    *)
(*                                                                         *)
(* Tokens and password hashes are numbers, each new.  Whether a user knows *)
(* a password is left open.  Calls that change no row (me, public profiles,*)
(* validateResetToken, logins of players) are left out.                    *)
(***************************************************************************)
EXTENDS Integers, Sequences

CONSTANTS
  Ids,           \* users that may exist
  Emails,
  AdminEmails,   \* ADMIN_EMAILS
  Ips,
  Handlers,      \* slots for overlapping calls
  None,          \* null
  NoUser,        \* there is no row, or none in hand
  InitialRows,   \* rows to start from
  MaxCalls,      \* bound: calls
  MaxCrashes     \* bound: crashes of the server

Token == Nat \cup {None}

\* rexp: the reset token whose hour resetTokenExpires is the end of.
Row == [email : Emails \cup {None}, hash : Token, verified : BOOLEAN, vtok : Token,
        rtok : Token, rexp : Token, guest : BOOLEAN, banned : BOOLEAN,
        adminIp : Ips \cup {None}, active : {None, "new", "old"}, profile : {0, 1}]

ASSUME AccountsAssumption ==
  /\ AdminEmails \subseteq Emails
  /\ None \notin Nat /\ None \notin Emails /\ None \notin Ips
  /\ NoUser \notin Row
  /\ InitialRows \subseteq [Ids -> Row \cup {NoUser}]
  /\ MaxCalls \in Nat /\ MaxCrashes \in Nat

\* The initial rows hold numbers up to this.
FirstMinted == 9

\* What is to be shown of the table holds of it at first; who has no e-mail has
\* not verified one, and each token is one user's.
ASSUME InitialRowsAssumption ==
  \A table \in InitialRows : \A u, v \in Ids : table[u] # NoUser =>
    /\ table[u].rtok = table[u].rexp
    /\ {table[u].hash, table[u].vtok, table[u].rtok} \subseteq 0 .. FirstMinted \cup {None}
    /\ table[u].email = None => ~table[u].verified /\ table[u].vtok = None
    /\ table[v] # NoUser /\ u # v =>
         \A column \in {"email", "vtok", "rtok"} :
           table[u][column] = table[v][column] => table[u][column] = None

VARIABLES
  rows,       \* the table users
  wallets,    \* users who have a wallet
  hs,         \* the calls in progress
  minted,     \* tokens and hashes made so far
  mailed,     \* tokens sent out
  expired,    \* reset tokens whose hour is over
  calls,      \* calls still to come
  crashes,    \* crashes still to come
  ver,        \* how often a row was changed
  stale,      \* a save selected a row that had changed since it was loaded
  collided,   \* a save updated such a row
  proven,     \* who presented a token that was sent to which address
  said,       \* password and ban as the last call that sets them left them
  resets,     \* the tokens that passwords were reset with
  admitted    \* where each admin's sessions were from

rowVars   == <<rows, wallets>>
inputs    == <<mailed, expired>>
bounds    == <<calls, crashes>>
collision == <<stale, collided>>
past      == <<proven, said, resets, admitted>>
vars      == <<rowVars, hs, minted, inputs, bounds, ver, collision, past>>

Kind  == {"none", "register", "guest", "verify", "login", "resend", "forgot", "reset",
          "profile", "link", "firstIp", "session", "activity", "ban", "unban"}
Phase == {"idle", "insert", "wallet", "check", "select", "update", "column", "granted", "mail"}

\* row: the entity; seen: what save selected; base: ver when the row was loaded;
\* arg: the e-mail to link, the token or the address the call came with.
Call == [kind : Kind, at : Phase, id : Ids \cup {None}, row : Row \cup {NoUser},
         seen : Row \cup {NoUser}, base : Nat, arg : Emails \cup Ips \cup Token]

Idle == [kind |-> "none", at |-> "idle", id |-> None, row |-> NoUser, seen |-> NoUser,
         base |-> 0, arg |-> None]

Mail == [what : {"verify", "reset"}, tok : Token, to : Emails \cup {None}, id : Ids]

Exists(u) == rows[u] # NoUser
Quiet     == \A h \in Handlers : hs[h].at = "idle"

\* Users who are there at first have wallets.
Init ==
  /\ rows \in InitialRows
  /\ wallets = {u \in Ids : Exists(u)}
  /\ hs = [h \in Handlers |-> Idle]
  /\ minted = FirstMinted
  /\ mailed = {[what |-> "verify", tok |-> rows[u].vtok, to |-> rows[u].email, id |-> u] :
                 u \in {v \in Ids : Exists(v) /\ rows[v].vtok # None}}
  /\ expired = {}
  /\ calls = MaxCalls /\ crashes = MaxCrashes
  /\ ver = [u \in Ids |-> 0]
  /\ stale = FALSE /\ collided = FALSE
  /\ proven = {<<u, rows[u].email>> : u \in {v \in Ids : Exists(v) /\ rows[v].verified}}
  /\ said = [u \in Ids |-> IF Exists(u) THEN [hash |-> rows[u].hash, banned |-> rows[u].banned]
                           ELSE [hash |-> None, banned |-> FALSE]]
  /\ resets = <<>>
  /\ admitted = [u \in Ids |-> {rows[v].adminIp : v \in {w \in {u} : Exists(w)}} \ {None}]

-----------------------------------------------------------------------------
(* What the calls make of a row *)

Guest == [email |-> None, hash |-> None, verified |-> FALSE, vtok |-> None, rtok |-> None,
          rexp |-> None, guest |-> TRUE, banned |-> FALSE, adminIp |-> None, active |-> None,
          profile |-> 0]

Registered(e, hash, tok) == [Guest EXCEPT !.email = e, !.hash = hash, !.vtok = tok, !.guest = FALSE]

Verified(r)            == [r EXCEPT !.verified = TRUE, !.vtok = None]
ResetAsked(r, tok)     == [r EXCEPT !.rtok = tok, !.rexp = tok]
TokenForgotten(r, hash) == [r EXCEPT !.hash = hash, !.rtok = None]                  \* variant
TokenKept(r, hash)      == [r EXCEPT !.hash = hash]                                 \* variant
PasswordReset(r, hash) == [r EXCEPT !.hash = hash, !.rtok = None, !.rexp = None]
LinkTrusted(r, e, hash, tok) ==                                                     \* variant
  [r EXCEPT !.email = e, !.hash = hash, !.guest = FALSE, !.verified = TRUE, !.vtok = tok]
Linked(r, e, hash, tok) ==
  [r EXCEPT !.email = e, !.hash = hash, !.guest = FALSE, !.verified = FALSE, !.vtok = tok]

EntitySaved(entity, seen, r) == entity                                              \* variant
\* save: the columns in which the entity differs from the row it selected.
Merged(entity, seen, r) ==
  [c \in DOMAIN r |-> IF entity[c] # seen[c] THEN entity[c] ELSE r[c]]

\* users.email is unique; null is not a value.
NotUnique(e, u) == FALSE                                                            \* variant
Taken(e, u) == \E v \in Ids \ {u} : Exists(v) /\ e # None /\ rows[v].email = e

-----------------------------------------------------------------------------
(* Steps that calls have in common *)

\* A call begins, having made n tokens and hashes.
MintNone(n) == minted' = minted                                                     \* variant
Mint(n) == minted' = minted + n

Arrive(h) == hs[h].at = "idle" /\ calls > 0 /\ calls' = calls - 1 /\ UNCHANGED crashes

\* It has loaded the row of u and changed the entity to r: it will save it.
Change(h, kind, u, r, arg) ==
  hs' = [hs EXCEPT ![h] = [kind |-> kind, at |-> "select", id |-> u, row |-> r, seen |-> NoUser,
                           base |-> ver[u], arg |-> arg]]

Done(h) == hs' = [hs EXCEPT ![h] = Idle]

\* Nothing but the handler changes, apart from what is said explicitly.
Rest == UNCHANGED <<rowVars, inputs, ver, collision>>

Select(h) ==
  /\ hs[h].at = "select"
  /\ hs' = [hs EXCEPT ![h].at = "update", ![h].seen = rows[hs[h].id]]
  /\ stale' = (stale \/ ver[hs[h].id] # hs[h].base)
  /\ UNCHANGED <<rowVars, minted, inputs, bounds, ver, collided, past>>

\* After the update: a mail, the second save of an admin's session, or what the
\* admin asked for.
Onward(h, now) ==
  CASE hs[h].kind \in {"resend", "forgot", "link"} -> [hs[h] EXCEPT !.at = "mail"]
    [] hs[h].kind = "firstIp" ->
         IF hs[h].row.active = "old" THEN Idle
         ELSE [hs[h] EXCEPT !.kind = "session", !.at = "select", !.row.active = "new",
                            !.seen = NoUser,
                            !.base = IF @ = ver[hs[h].id] THEN now ELSE @]
    [] hs[h].kind = "session" -> [hs[h] EXCEPT !.at = "granted"]
    [] OTHER -> Idle

\* What the update of a call says of password and ban.
Says(h) ==
  LET u == hs[h].id
      r == hs[h].row
  IN  CASE hs[h].kind \in {"reset", "link"} -> [said EXCEPT ![u].hash = r.hash]
        [] hs[h].kind \in {"ban", "unban"}  -> [said EXCEPT ![u].banned = r.banned]
        [] OTHER                            -> said

\* The update fails if it would make an e-mail occur twice.
Update(h) ==
  LET u   == hs[h].id
      new == Merged(hs[h].row, hs[h].seen, rows[u])
      now == IF new = rows[u] THEN ver[u] ELSE ver[u] + 1
  IN  /\ hs[h].at = "update"
      /\ IF Taken(new.email, u)
         THEN Done(h) /\ UNCHANGED <<rows, ver, collided, said, resets, admitted>>
         ELSE /\ rows' = [rows EXCEPT ![u] = new]
              /\ ver' = [ver EXCEPT ![u] = now]
              /\ collided' = (collided \/ ver[u] # hs[h].base)
              /\ hs' = [hs EXCEPT ![h] = Onward(h, now)]
              /\ said' = Says(h)
              /\ resets' = IF hs[h].kind = "reset" THEN Append(resets, hs[h].arg) ELSE resets
              /\ admitted' = IF hs[h].kind = "session"
                             THEN [admitted EXCEPT ![u] = @ \cup {hs[h].arg}] ELSE admitted
      /\ UNCHANGED <<wallets, minted, inputs, bounds, stale, proven>>

\* The mail with the token of the entity; a failure to send is only logged.
SendMail(h) ==
  /\ hs[h].at = "mail"
  /\ \/ mailed' = mailed \cup
          {[what |-> IF hs[h].kind = "forgot" THEN "reset" ELSE "verify",
            tok  |-> IF hs[h].kind = "forgot" THEN hs[h].row.rtok ELSE hs[h].row.vtok,
            to   |-> hs[h].row.email, id |-> hs[h].id]}
     \/ UNCHANGED mailed
  /\ Done(h)
  /\ UNCHANGED <<rowVars, minted, expired, bounds, ver, collision, past>>

-----------------------------------------------------------------------------
(* Registration *)

\* register, if the e-mail is not found; the hash takes its time.
Register(h, e) ==
  /\ Arrive(h)
  /\ \A u \in Ids : Exists(u) => rows[u].email # e
  /\ hs' = [hs EXCEPT ![h] = [Idle EXCEPT !.kind = "register", !.at = "insert",
                                          !.row = Registered(e, minted + 1, minted + 2)]]
  /\ Mint(2)
  /\ Rest /\ UNCHANGED past

GuestLogin(h) ==
  /\ Arrive(h)
  /\ hs' = [hs EXCEPT ![h] = [Idle EXCEPT !.kind = "guest", !.at = "insert", !.row = Guest]]
  /\ Rest /\ UNCHANGED <<minted, past>>

\* The row of a new user, then, in another transaction, the wallet.
Insert(h, u) ==
  /\ hs[h].at = "insert"
  /\ ~Exists(u)
  /\ IF Taken(hs[h].row.email, u)
     THEN Done(h) /\ UNCHANGED <<rows, said>>
     ELSE /\ rows' = [rows EXCEPT ![u] = hs[h].row]
          /\ hs' = [hs EXCEPT ![h].at = "wallet", ![h].id = u]
          /\ said' = [said EXCEPT ![u].hash = hs[h].row.hash]
  /\ UNCHANGED <<wallets, minted, inputs, bounds, ver, collision, proven, resets, admitted>>

InsertWallet(h) ==
  /\ hs[h].at = "wallet"
  /\ wallets' = wallets \cup {hs[h].id}
  /\ IF hs[h].kind = "register" THEN hs' = [hs EXCEPT ![h].at = "mail"] ELSE Done(h)
  /\ UNCHANGED <<rows, minted, inputs, bounds, ver, collision, past>>

-----------------------------------------------------------------------------
(* E-mail and password *)

VerifyEmail(h, m, u) ==
  /\ Arrive(h)
  /\ m \in mailed /\ m.what = "verify" /\ Exists(u) /\ rows[u].vtok = m.tok
  /\ Change(h, "verify", u, Verified(rows[u]), m.tok)
  /\ proven' = proven \cup {<<u, m.to>>}
  /\ Rest /\ UNCHANGED <<minted, said, resets, admitted>>

ResendVerification(h, u) ==
  /\ Arrive(h)
  /\ Exists(u) /\ rows[u].email # None /\ ~rows[u].verified
  /\ Change(h, "resend", u, [rows[u] EXCEPT !.vtok = minted + 1], None)
  /\ Mint(1)
  /\ Rest /\ UNCHANGED past

ForgotPassword(h, u) ==
  /\ Arrive(h)
  /\ Exists(u) /\ rows[u].email # None
  /\ Change(h, "forgot", u, ResetAsked(rows[u], minted + 1), None)
  /\ Mint(1)
  /\ Rest /\ UNCHANGED past

ResetPassword(h, m, u) ==
  /\ Arrive(h)
  /\ m \in mailed /\ m.what = "reset" /\ Exists(u) /\ rows[u].rtok = m.tok
  /\ rows[u].rexp # None /\ rows[u].rexp \notin expired
  /\ Change(h, "reset", u, PasswordReset(rows[u], minted + 1), m.tok)
  /\ Mint(1)
  /\ Rest /\ UNCHANGED past

UpdateProfile(h, u) ==
  /\ Arrive(h)
  /\ Exists(u)
  /\ Change(h, "profile", u, [rows[u] EXCEPT !.profile = 1 - @], None)
  /\ Rest /\ UNCHANGED <<minted, past>>

\* linkEmail: the row of a guest is loaded, then the e-mail is looked for.
LinkEmail(h, u, e) ==
  /\ Arrive(h)
  /\ Exists(u) /\ rows[u].guest
  /\ hs' = [hs EXCEPT ![h] = [Idle EXCEPT !.kind = "link", !.at = "check", !.id = u,
                                          !.row = rows[u], !.base = ver[u], !.arg = e]]
  /\ Rest /\ UNCHANGED <<minted, past>>

CheckEmail(h) ==
  /\ hs[h].at = "check"
  /\ IF \E v \in Ids : Exists(v) /\ rows[v].email = hs[h].arg
     THEN Done(h) /\ UNCHANGED minted
     ELSE /\ hs' = [hs EXCEPT ![h].at = "select",
                              ![h].row = Linked(@, hs[h].arg, minted + 1, minted + 2)]
          /\ Mint(2)
  /\ Rest /\ UNCHANGED <<bounds, past>>

-----------------------------------------------------------------------------
(* Admins *)

IsAdmin(u) == Exists(u) /\ rows[u].email \in AdminEmails

\* The login of an admin starts a session (those of others change nothing).
Login(h, u) ==
  /\ Arrive(h)
  /\ IsAdmin(u) /\ rows[u].verified /\ ~rows[u].banned
  /\ Change(h, "login", u, [rows[u] EXCEPT !.active = "new"], None)
  /\ Rest /\ UNCHANGED <<minted, past>>

AnyAddress(u, ip) == TRUE                                                           \* variant
AddressAllowed(u, ip) == rows[u].adminIp \in {None, ip}

\* validateAdminSession, of a user who has a token from an earlier login: the
\* first address is kept, a session must not be too old, and is renewed.
CheckAdmin(h, u, ip) ==
  /\ Arrive(h)
  /\ IsAdmin(u) /\ AddressAllowed(u, ip)
  /\ IF rows[u].adminIp = None
     THEN Change(h, "firstIp", u, [rows[u] EXCEPT !.adminIp = ip], ip)
     ELSE rows[u].active # "old" /\ Change(h, "session", u, [rows[u] EXCEPT !.active = "new"], ip)
  /\ Rest /\ UNCHANGED <<minted, past>>

\* banUser and unbanUser, and calls that change no row
Decide(h, u) ==
  /\ hs[h].at = "granted"
  /\ \/ Exists(u) /\ ~rows[u].banned /\ Change(h, "ban", u, [rows[u] EXCEPT !.banned = TRUE], None)
     \/ Exists(u) /\ rows[u].banned /\ Change(h, "unban", u, [rows[u] EXCEPT !.banned = FALSE], None)
     \/ Done(h)
  /\ Rest /\ UNCHANGED <<minted, bounds, past>>

\* POST admin/activity, which does not look at the session's age
ActivityPing(h, u, ip) ==
  /\ Arrive(h)
  /\ IsAdmin(u) /\ AddressAllowed(u, ip)
  /\ hs' = [hs EXCEPT ![h] = [Idle EXCEPT !.kind = "activity", !.at = "column", !.id = u]]
  /\ Rest /\ UNCHANGED <<minted, past>>

\* extendSession: an update of one column
ExtendSession(h) ==
  /\ hs[h].at = "column"
  /\ rows' = [rows EXCEPT ![hs[h].id].active = "new"]
  /\ ver' = [ver EXCEPT ![hs[h].id] = IF rows' = rows THEN @ ELSE @ + 1]
  /\ Done(h)
  /\ UNCHANGED <<wallets, minted, inputs, bounds, collision, past>>

-----------------------------------------------------------------------------
(* Time and crashes *)

\* Half an hour ends the sessions of admins, an hour also reset tokens.  Calls
\* take far less.
TimePasses(hour) ==
  /\ Quiet
  /\ rows' = [u \in Ids |-> IF Exists(u) /\ rows[u].active = "new"
                            THEN [rows[u] EXCEPT !.active = "old"] ELSE rows[u]]
  /\ expired' = IF hour THEN 0 .. minted ELSE expired
  /\ UNCHANGED <<wallets, hs, minted, mailed, bounds, ver, collision, past>>

Crash ==
  /\ crashes > 0 /\ crashes' = crashes - 1
  /\ hs' = [h \in Handlers |-> Idle]
  /\ UNCHANGED <<rowVars, minted, inputs, calls, ver, collision, past>>

SaveStep(h) == Select(h) \/ Update(h) \/ SendMail(h) \/ InsertWallet(h) \/ CheckEmail(h) \/ ExtendSession(h)

UserCall(h, u) ==
  \/ ResendVerification(h, u) \/ ForgotPassword(h, u) \/ UpdateProfile(h, u)
  \/ \E m \in mailed : VerifyEmail(h, m, u) \/ ResetPassword(h, m, u)
  \/ \E e \in Emails : LinkEmail(h, u, e)

AdminCall(h, u) ==
  \/ Login(h, u)
  \/ \E ip \in Ips : CheckAdmin(h, u, ip) \/ ActivityPing(h, u, ip)

Next ==
  \/ \E h \in Handlers : SaveStep(h) \/ GuestLogin(h)
  \/ \E h \in Handlers, e \in Emails : Register(h, e)
  \/ \E h \in Handlers, u \in Ids : Insert(h, u) \/ UserCall(h, u) \/ AdminCall(h, u) \/ Decide(h, u)
  \/ \E hour \in BOOLEAN : TimePasses(hour)
  \/ Crash

Spec == Init /\ [][Next]_vars

-----------------------------------------------------------------------------
(* Properties *)

\* Every token and hash in a row, a copy or a mail was made before.
TypeOK ==
  /\ rows \in [Ids -> Row \cup {NoUser}]
  /\ \A u \in Ids : Exists(u) =>
       {rows[u].hash, rows[u].vtok, rows[u].rtok, rows[u].rexp} \subseteq 0 .. minted \cup {None}
  /\ wallets \subseteq Ids
  /\ hs \in [Handlers -> Call]
  /\ minted \in Nat
  /\ mailed \subseteq Mail
  /\ expired \subseteq Nat
  /\ calls \in Nat /\ crashes \in Nat
  /\ ver \in [Ids -> Nat]
  /\ stale \in BOOLEAN /\ collided \in BOOLEAN

\* However registrations and linked e-mails overlap, an e-mail is one account's:
\* each looks for the e-mail first, hashes a password and saves later.
OneAccountPerEmail ==
  \A u, v \in Ids : Exists(u) /\ Exists(v) /\ rows[u].email = rows[v].email =>
    u = v \/ rows[u].email = None

\* However saves overwrite each other, a reset token stands in a row with the
\* end of its own hour, and the end of an hour with its token: a save writes
\* both columns or neither.
ResetTokenHasItsExpiry == \A u \in Ids : Exists(u) => rows[u].rtok = rows[u].rexp

\* A user is verified only after presenting a token that was sent to an e-mail
\* of the account, and, unless saves have collided, to its present one.
VerifiedIsProven ==
  \A u \in Ids : Exists(u) /\ rows[u].verified =>
    /\ \E e \in Emails : <<u, e>> \in proven
    /\ ~collided => <<u, rows[u].email>> \in proven

\* A password or a ban stands until the next call that sets it: another save
\* overwrites it only if it selected a row that had changed since it was loaded.
\* (If the row changes after the select, the columns the call has not changed
\* are left alone.)
SavesStand ==
  ~stale => \A u \in Ids : Exists(u) =>
    rows[u].hash = said[u].hash /\ rows[u].banned = said[u].banned

\* A reset token resets a password once, unless saves have collided.
ResetOnce ==
  ~collided => \A i, j \in 1 .. Len(resets) : resets[i] = resets[j] => i = j

\* All the sessions of an admin are from one address, unless saves have collided.
OneAddressPerAdmin == ~collided => \A u \in Ids : \A a, b \in admitted[u] : a = b
=============================================================================

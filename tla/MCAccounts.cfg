CONSTANTS
  admin = admin
  user = user
  other = other
  mailA = mailA
  mailB = mailB
  mailC = mailC
  Ids = {admin, user, other}
  Emails = {mailA, mailB, mailC}
  AdminEmails = {mailA}
  Ips = {ip1, ip2}
  Handlers = {h1, h2}
  None = None
  NoUser = NoUser
  InitialRows <- Rows
  MaxCalls = 3
  MaxCrashes = 1
SPECIFICATION Spec
SYMMETRY Symmetry
INVARIANT TypeOK
INVARIANT OneAccountPerEmail
INVARIANT ResetTokenHasItsExpiry
INVARIANT VerifiedIsProven
INVARIANT SavesStand
INVARIANT ResetOnce
INVARIANT OneAddressPerAdmin
\* When the calls are used up nothing is left to do.
CHECK_DEADLOCK FALSE

CONSTANTS
  u1 = u1
  u2 = u2
  a1 = a1
  t1 = t1
  t2 = t2
  t3 = t3
  c1 = c1
  c2 = c2
  r1 = r1
  r2 = r2
  r3 = r3
  old = old
  new = new
  password = password
  Users <- MCUsers
  Admins <- MCAdmins
  Tokens = {t1, t2, t3}
  NoOne = NoOne
  Challenge = {c1, c2}
  Subjects <- MCOwners
  Nobody = NoOne
  MaxAttempts = 2
  MaxFailures = 2
  Subscribers <- MCUsers
  Servers = {d1, d2}
  MaxMailAttempts = 2
  TryBound = 3
  Requests = {r1, r2, r3}
  Passwords = {old, new, password}
  Default = password
  MaxFaults = 1
  Seeds <- MCSeeds
SPECIFICATION Spec
SYMMETRY Symmetry
CHECK_DEADLOCK FALSE
INVARIANTS AccountsTypeOK SessionsIndexed RevocationComplete CodeSpentOnce GrantHasItsEffect  MailedOncePerRequest
PROPERTY ResetsStick

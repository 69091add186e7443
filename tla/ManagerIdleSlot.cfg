SPECIFICATION Spec
CONSTANTS
  r1 = r1
  r2 = r2
  r3 = r3
  f1 = f1
  f2 = f2
  u1 = u1
  t1 = t1
  t2 = t2
  p1 = p1
  Request = {r1, r2, r3}
  File = {f1, f2}
  User = {u1}
  Token = {t1, t2}
  PeerToken = {p1}
  FileOf <- SharedFileOf
  UserOf <- OneUser
  TokenOf <- SharedTokenOf
  MaxConcurrent = 1
  Unlimited = Unlimited
  NoDownload = NoDownload
  NoPeerToken = NoPeerToken
  Results = {"Completed"}
  MaxDue = 1
INVARIANTS
  NoIdleSlot

SPECIFICATION FairSpec
CONSTANTS
  r1 = r1
  r2 = r2
  f1 = f1
  u1 = u1
  u2 = u2
  t1 = t1
  p1 = p1
  c1 = c1
  c2 = c2
  Request = {r1}
  File = {f1}
  User = {u1}
  Token = {t1}
  PeerToken = {p1}
  FileOf <- OneFileOf
  UserOf <- OneUserOf
  TokenOf <- TheTokenOf
  MaxConcurrent = 1
  Unlimited = Unlimited
  NoDownload = NoDownload
  NoPeerToken = NoPeerToken
  ThePeer = u1
  Conn = {c1}
  NoConn = NoConn
  MaxOps = 1
  MaxStreams = 1
INVARIANTS
  DeadPeerIsReported
PROPERTIES
  RefinesManager
  DroppedIsForgotten
CHECK_DEADLOCK FALSE

SPECIFICATION FairSpec
CONSTANTS
  ann = ann
  bob = bob
  eve = eve
  fay = fay
  gus = gus
  cat = cat
  dan = dan
  here = here
  away = away
  far = far
  n1 = n1
  n2 = n2
  n3 = n3
  n4 = n4
  x1 = x1
  x2 = x2
  old = old
  leaf = leaf
  lost = lost
  late = late
  unknown = unknown
  Malformed = Malformed
  NoPid = NoPid
  Addrs = {ann, bob, eve, fay, gus, cat, dan}
  Domains = {here, away, far}
  Here = here
  DomainOf <- MCDomainOf
  MaxSize = 8
  MaxExpanded = 10
  Word = 16
  PastDelta = 4
  FutureDelta = 2
  Slots = {s1, s2}
  Scenarios <- MCScenarios
  Stalled = {n4}
  Stored <- MCStored
  Users = {ann, bob, eve, gus}
  Accepting = {ann, bob, eve}
  OwnCase <- BobsOtherCase
  Limits <- MCLimits
  Now = 10
  MaxDays = 1
  MaxFaults = 1
INVARIANTS TypeOK StoredIsWhole OverrunIsBounded
PROPERTIES HeaderAgrees HandlersReturn
CHECK_DEADLOCK FALSE

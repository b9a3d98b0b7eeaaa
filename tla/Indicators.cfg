SPECIFICATION FairSpec
CONSTANTS
  m1 = m1
  bob = bob
  cat = cat
  eve = eve
  home = home
  r1 = r1
  r2 = r2
  Msgs = {m1}
  Addrs = {bob, cat, eve}
  Domains = {home, r1, r2}
  DomainOf <- MCDomainOf
  From <- MCFrom
  To <- MCTo
  AddTo <- MCAddTo
  MaxIndex = 3
  Here = home
  Notices <- MCNotices
  EmojiOK = {"", "pen"}
  TTLMax = 2
  MinInterval = 2
  HostRate = 2
  Window = 2
  Addresses <- MCAddresses
  MaxNotices = 3
  MaxFaults = 1
INVARIANTS TypeOK Attributed LatestIsKept SendRate
PROPERTIES IntervalKept HeldIsFlushed

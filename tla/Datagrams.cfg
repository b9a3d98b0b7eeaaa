SPECIFICATION Spec
CONSTANTS
  m1 = m1
  bob = bob
  cat = cat
  eve = eve
  home = home
  r1 = r1
  r2 = r2
  i1 = i1
  i2 = i2
  Msgs = {m1}
  Addrs = {bob, cat, eve}
  Domains = {home, r1, r2}
  DomainOf <- MCDomainOf
  From <- MCFrom
  To <- MCTo
  AddTo <- MCAddTo
  MaxIndex = 3
  Here = home
  IPs = {i1, i2}
  Grams <- MCGrams
  Workers = {w1}
  Senders = {s1}
  FirstZone <- MCFirstZone
  Zones <- MCZones
  RequireDNSSEC = TRUE
  Rate = 1
  Burst = 2
  MaxSources = 1
  PruneSpan = 2
  PosTTL = 2
  NegTTL = 1
  CacheMax = 1
  MaxGrams = 3
  MaxMoves = 1
  MaxTime = 3
INVARIANTS TypeOK ForgettingIsInvisible TablesAreBounded CacheIsFresh PublishedIsVouchedFor
CHECK_DEADLOCK FALSE

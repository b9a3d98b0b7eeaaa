SPECIFICATION Spec
CONSTANTS
  m1 = m1
  m2 = m2
  m3 = m3
  o1 = o1
  o2 = o2
  o3 = o3
  b1 = b1
  b2 = b2
  ann = ann
  bob = bob
  cat = cat
  eve = eve
  d1 = d1
  d2 = d2
  home = home
  NoOne = NoOne
  Msgs = {m1}
  Units = {o1, b1, b2}
  Batches = {b1, b2}
  Addrs = {bob, eve}
  Domains = {home, d1}
  Local = home
  Conns = {c1, c2}
  Workers = {w1, w2}
  MsgOf <- OneMsgOf
  To <- OverlapTo
  AddTo <- OverlapAddTo
  Notify <- Nobody
  DomainOf <- MCDomainOf
  Parent <- NoParent
  Terminal = {}
  OwnCase <- EveryAddr
  Verdicts <- AllAccept
  ChallengeModes = {FALSE}
  MaxFaults = 0
  RetryInterval = 1
  RetryMaxAge = 2
  MaxTime = 0
SYMMETRY Symmetry
INVARIANTS DeliveredBatchIsRecorded
CHECK_DEADLOCK FALSE

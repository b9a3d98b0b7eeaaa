SPECIFICATION Spec
CONSTANTS
  m1 = m1
  m2 = m2
  m3 = m3
  o1 = o1
  o2 = o2
  o3 = o3
  b1 = b1
  b2 = b2
  ann = ann
  bob = bob
  cat = cat
  eve = eve
  d1 = d1
  d2 = d2
  home = home
  NoOne = NoOne
  Msgs = {m1}
  Units = {o1, b1}
  Batches = {b1}
  Addrs = {ann, cat}
  Domains = {home, d1, d2}
  Local = home
  Conns = {c1, c2}
  Workers = {w1, w2}
  MsgOf <- OneMsgOf
  To <- BatchTo
  AddTo <- BatchAddTo
  Notify <- BatchNotify
  DomainOf <- MCDomainOf
  Parent <- NoParent
  Terminal = {}
  OwnCase <- EveryAddr
  Verdicts <- AllAccept
  ChallengeModes = {TRUE, FALSE}
  MaxFaults = 1
  RetryInterval = 0
  RetryMaxAge = 2
  MaxTime = 1
SYMMETRY Symmetry
INVARIANTS NotifiedIsRecorded DeliveredBatchIsRecorded IInv
PROPERTIES ImplementsMailbox
CHECK_DEADLOCK FALSE

SPECIFICATION Spec
CONSTANTS
  m1 = m1
  m2 = m2
  m3 = m3
  o1 = o1
  o2 = o2
  o3 = o3
  b1 = b1
  b2 = b2
  ann = ann
  bob = bob
  cat = cat
  eve = eve
  d1 = d1
  d2 = d2
  home = home
  NoOne = NoOne
  Msgs = {m1}
  Units = {o1}
  Batches = {}
  Addrs = {ann, bob}
  Domains = {home, d1}
  Local = home
  Conns = {c1, c2}
  Workers = {w1, w2}
  MsgOf <- OneMsgOf
  To <- PartialTo
  AddTo <- Nobody
  Notify <- Nobody
  DomainOf <- MCDomainOf
  Parent <- NoParent
  Terminal = {}
  OwnCase <- EveryAddr
  Verdicts <- PartialVerdicts
  ChallengeModes = {TRUE, FALSE}
  MaxFaults = 2
  RetryInterval = 1
  RetryMaxAge = 4
  MaxTime = 4
SYMMETRY Symmetry
INVARIANTS DeliveredIsReceived DuplicateIsReceived RefusedDuplicateIsReceived AcceptMeansStored
PROPERTIES SettledIsFinal BackoffIsHonoured
CHECK_DEADLOCK FALSE

SPECIFICATION FairSpec
CONSTANTS
  m1 = m1
  m2 = m2
  m3 = m3
  o1 = o1
  o2 = o2
  o3 = o3
  b1 = b1
  b2 = b2
  ann = ann
  bob = bob
  cat = cat
  eve = eve
  d1 = d1
  d2 = d2
  home = home
  NoOne = NoOne
  Msgs = {m1, m2, m3}
  Units = {o1, o2, o3}
  Batches = {}
  Addrs = {ann, cat}
  Domains = {home, d1, d2}
  Local = home
  Conns = {c1, c2}
  Workers = {w1, w2}
  MsgOf <- ReplyMsgOf
  To <- ReplyTo
  AddTo <- Nobody
  Notify <- Nobody
  DomainOf <- MCDomainOf
  Parent <- ReplyParent
  Terminal = {m2}
  OwnCase <- EveryAddr
  Verdicts <- ReplyVerdicts
  ChallengeModes = {FALSE}
  MaxFaults = 0
  RetryInterval = 0
  RetryMaxAge = 2
  MaxTime = 2
INVARIANTS ReplyNeverOvertakesParent
PROPERTIES DueIsAttempted
CHECK_DEADLOCK FALSE

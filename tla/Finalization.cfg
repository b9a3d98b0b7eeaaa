SPECIFICATION Spec
CONSTANTS
  Msgs = {m1, m2}
  Batches = {b1, b2}
  Addrs = {ann, bob}
  Txs = {t1, t2}
  NoMsg = NoMsg
  MaxTxs = 7
  MaxTime = 1
SYMMETRY Symmetry
INVARIANTS TypeOK SealedMatchesRows NoUnsealedUnit BatchFollowsMessage ReplyNamesItsParent
PROPERTIES SealedIsFinal
CHECK_DEADLOCK FALSE

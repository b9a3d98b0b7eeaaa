SPECIFICATION Spec
CONSTANTS
  Deliveries = {g1, g2, g3}
  Challenges = {x1}
  Hashes = {h1, h2}
  IPs = {i1, i2}
INVARIANTS TypeOK NoStaleRecord
PROPERTIES OnlyInFlightIsAnswered

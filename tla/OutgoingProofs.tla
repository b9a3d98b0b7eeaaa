-------------------------- MODULE OutgoingProofs --------------------------
(***************************************************************************)
(* Proofs about the outgoing record, for any number of deliveries,         *)
(* challenges, hashes and addresses.                                       *)
(***************************************************************************)
EXTENDS Outgoing, TLAPS

\* The outgoing record's part of TypeOK, of any record m.
RecordType(m) == DOMAIN m \subseteq Hashes /\ m \in [DOMAIN m -> (SUBSET IPs) \ {{}}]

\* An entry that is written with an address in it keeps the record's type.
LEMMA WithKeepsType ==
  ASSUME TypeOK, NEW h \in Hashes, NEW ips \in SUBSET IPs, ips # {}
  PROVE  RecordType(With(h, ips))
<1>1. ASSUME NEW g \in DOMAIN outgoingMap \cup {h}
      PROVE  (IF g = h THEN ips ELSE outgoingMap[g]) \in (SUBSET IPs) \ {{}}
  BY DEF TypeOK
<1>2. DOMAIN outgoingMap \cup {h} \subseteq Hashes
  BY DEF TypeOK
<1> QED
  BY <1>1, <1>2 DEF RecordType, With

\* The record, the deliveries and the challenges keep their types, and no entry
\* of the record is ever empty (registerOutgoing, removeOutgoingIP,
\* handleChallenge).
THEOREM TypeCorrect == Spec => []TypeOK
<1>1. Init => TypeOK
  BY DEF Init, TypeOK, Delivery, Challenge
<1>2. TypeOK /\ [Next]_vars => TypeOK'
  <2> SUFFICES ASSUME TypeOK, [Next]_vars PROVE TypeOK'
    OBVIOUS
  <2>1. ASSUME NEW d \in Deliveries, NEW h \in Hashes, NEW ip \in IPs,
               RegisterOutgoing(d, h, ip)
        PROVE  TypeOK'
    <3>1. Entry(h) \subseteq IPs
      BY DEF TypeOK, Entry
    <3>2. RecordType(With(h, Entry(h) \cup {ip}))
      BY <3>1, WithKeepsType
    <3> QED
      BY <2>1, <3>2 DEF TypeOK, RecordType, RegisterOutgoing, Delivery
  <2>2. ASSUME NEW d \in Deliveries, RemoveOutgoingIP(d)
        PROVE  TypeOK'
    <3>1. delivery[d].hash \in Hashes /\ delivery[d].ip \in IPs
      BY <2>2 DEF TypeOK, RemoveOutgoingIP, Delivery
    <3> DEFINE h == delivery[d].hash
               ip == delivery[d].ip
    <3>2. RecordType(Removed(h, ip))
      <4>1. CASE h \notin DOMAIN outgoingMap
        BY <4>1 DEF Removed, RecordType, TypeOK
      <4>2. CASE h \in DOMAIN outgoingMap /\ Entry(h) \ {ip} = {}
        BY <4>2 DEF Removed, RecordType, Without, TypeOK
      <4>3. CASE h \in DOMAIN outgoingMap /\ Entry(h) \ {ip} # {}
        <5>1. Entry(h) \ {ip} \subseteq IPs
          BY <4>3 DEF Entry, TypeOK
        <5> QED
          BY <3>1, <4>3, <5>1, WithKeepsType DEF Removed
      <4> QED
        BY <4>1, <4>2, <4>3
    <3> QED
      BY <2>2, <3>1, <3>2 DEF TypeOK, RecordType, RemoveOutgoingIP, Delivery
  <2>3. ASSUME NEW x \in Challenges, NEW h \in Hashes, NEW ip \in IPs,
               HandleChallenge(x, h, ip)
        PROVE  TypeOK'
    BY <2>3 DEF TypeOK, HandleChallenge, Challenge
  <2>4. ASSUME NEW x \in Challenges, EndChallenge(x)
        PROVE  TypeOK'
    BY <2>4 DEF TypeOK, EndChallenge, Challenge
  <2>5. CASE UNCHANGED vars
    BY <2>5 DEF TypeOK, vars
  <2> QED
    BY <2>1, <2>2, <2>3, <2>4, <2>5 DEF Next
<1> QED
  BY <1>1, <1>2, PTL DEF Spec

\* The step of the proofs below that is not obvious: a delivery that ends takes
\* its own address off the record, and no other delivery with it.
LEMMA RemovalLeavesOthers ==
  ASSUME TypeOK, NoStaleRecord, NEW d \in Deliveries, RemoveOutgoingIP(d)
  PROVE  NoStaleRecord'
<1> DEFINE h == delivery[d].hash
           ip == delivery[d].ip
<1>1. delivery[d].pc = "inflight" /\ h \in Hashes /\ ip \in IPs
  BY DEF RemoveOutgoingIP, TypeOK, Delivery
<1>2. ASSUME NEW g \in DOMAIN outgoingMap'
      PROVE  /\ g \in DOMAIN outgoingMap
             /\ outgoingMap'[g] \subseteq outgoingMap[g]
             /\ g = h => ip \notin outgoingMap'[g]
  BY DEF RemoveOutgoingIP, Removed, With, Without, Entry
<1>3. ASSUME NEW g \in DOMAIN outgoingMap', NEW j \in outgoingMap'[g]
      PROVE  InFlight(g, j)'
  <2>1. PICK e \in Deliveries :
            delivery[e].pc = "inflight" /\ delivery[e].hash = g /\ delivery[e].ip = j
    BY <1>2, <1>3 DEF NoStaleRecord, InFlight
  <2>2. e # d
    BY <1>2, <1>3, <2>1
  <2>3. delivery'[e] = delivery[e]
    BY <2>2 DEF RemoveOutgoingIP, TypeOK
  <2> QED
    BY <2>1, <2>3 DEF InFlight
<1> QED
  BY <1>3 DEF NoStaleRecord

\* Every address on record belongs to a delivery in flight (removeOutgoingIP).
THEOREM RecordIsFresh == Spec => []NoStaleRecord
<1>1. Init => NoStaleRecord
  BY DEF Init, NoStaleRecord
<1>2. TypeOK /\ NoStaleRecord /\ [Next]_vars => NoStaleRecord'
  <2> SUFFICES ASSUME TypeOK, NoStaleRecord, [Next]_vars PROVE NoStaleRecord'
    OBVIOUS
  <2>1. ASSUME NEW d \in Deliveries, NEW h \in Hashes, NEW ip \in IPs,
               RegisterOutgoing(d, h, ip)
        PROVE  NoStaleRecord'
    <3>1. ASSUME NEW g \in DOMAIN outgoingMap', NEW j \in outgoingMap'[g]
          PROVE  InFlight(g, j)'
      <4>1. CASE g = h /\ j = ip
        BY <2>1, <4>1 DEF RegisterOutgoing, InFlight, TypeOK
      <4>2. CASE ~(g = h /\ j = ip)
        <5>1. g \in DOMAIN outgoingMap /\ j \in outgoingMap[g]
          BY <2>1, <3>1, <4>2 DEF RegisterOutgoing, With, Entry
        <5>2. PICK e \in Deliveries :
                  delivery[e].pc = "inflight" /\ delivery[e].hash = g /\ delivery[e].ip = j
          BY <5>1 DEF NoStaleRecord, InFlight
        <5>3. delivery'[e] = delivery[e]
          BY <2>1, <5>2 DEF RegisterOutgoing, TypeOK, Idle
        <5> QED
          BY <5>2, <5>3 DEF InFlight
      <4> QED
        BY <4>1, <4>2
    <3> QED
      BY <3>1 DEF NoStaleRecord
  <2>2. ASSUME NEW d \in Deliveries, RemoveOutgoingIP(d)
        PROVE  NoStaleRecord'
    BY <2>2, RemovalLeavesOthers
  <2>3. ASSUME NEW x \in Challenges, NEW h \in Hashes, NEW ip \in IPs,
               HandleChallenge(x, h, ip)
        PROVE  NoStaleRecord'
    BY <2>3 DEF HandleChallenge, NoStaleRecord, InFlight
  <2>4. ASSUME NEW x \in Challenges, EndChallenge(x)
        PROVE  NoStaleRecord'
    BY <2>4 DEF EndChallenge, NoStaleRecord, InFlight
  <2>5. CASE UNCHANGED vars
    BY <2>5 DEF vars, NoStaleRecord, InFlight
  <2> QED
    BY <2>1, <2>2, <2>3, <2>4, <2>5 DEF Next
<1> QED
  BY <1>1, <1>2, TypeCorrect, PTL DEF Spec

\* A challenge is answered only while a delivery of its message to the
\* challenging host is in flight (handleChallenge).
THEOREM ChallengesAreOfDeliveries == Spec => OnlyInFlightIsAnswered
<1> DEFINE Answered ==
      \A x \in Challenges : challenge[x] = Idle /\ challenge'[x].pc = "answered"
          => InFlight(challenge'[x].hash, challenge'[x].ip)
<1>1. TypeOK /\ NoStaleRecord /\ [Next]_vars => [Answered]_vars
  <2> SUFFICES ASSUME TypeOK, NoStaleRecord, Next,
                      NEW x \in Challenges, challenge[x] = Idle,
                      challenge'[x].pc = "answered"
               PROVE  InFlight(challenge'[x].hash, challenge'[x].ip)
    OBVIOUS
  <2>1. challenge'[x] # challenge[x]
    BY DEF Idle
  <2>2. PICK y \in Challenges, h \in Hashes, ip \in IPs : HandleChallenge(y, h, ip)
    BY <2>1 DEF Next, RegisterOutgoing, RemoveOutgoingIP, EndChallenge, Idle, TypeOK
  <2>3. y = x
    BY <2>1, <2>2 DEF HandleChallenge, TypeOK
  <2>4. /\ challenge'[x].hash = h /\ challenge'[x].ip = ip
        /\ LookupOutgoing(h, ip)
    BY <2>2, <2>3 DEF HandleChallenge, TypeOK
  <2> QED
    BY <2>4 DEF LookupOutgoing, NoStaleRecord
<1> QED
  BY <1>1, TypeCorrect, RecordIsFresh, PTL DEF Spec, OnlyInFlightIsAnswered
============================================================================

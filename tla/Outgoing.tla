----------------------------- MODULE Outgoing -----------------------------
(***************************************************************************)
(* The outgoing record (cmd/fmsgd/outgoing.go): which hosts this host is   *)
(* delivering a message to, consulted when one of them challenges it.      *)
(* Deliveries are calls of deliverUnit between registerOutgoing and the    *)
(* deferred removeOutgoingIP; each operation runs under outgoingMu.        *)
(*                                                                         *)
(* Two deliveries may share a header hash and an address: two domains      *)
(* served from one address, or two goroutines with different recipients of *)
(* one domain (see Delivery).                                              *)
(***************************************************************************)
CONSTANTS
    Deliveries, \* goroutines in deliverUnit
    Challenges, \* connections of hosts that challenge this one
    Hashes,     \* header hashes
    IPs         \* addresses of receiving hosts

VARIABLES
    outgoingMap,    \* [a set of hashes -> the IPs of their entries]
    delivery,       \* [Deliveries -> Delivery]
    challenge       \* [Challenges -> Challenge]

vars == <<outgoingMap, delivery, challenge>>

Idle == [pc |-> "idle"]
Delivery == {Idle} \cup [pc : {"inflight"}, hash : Hashes, ip : IPs]

\* A challenge names a hash; it is terminated or answered with the message hash
\* of the header in the entry, which has the header hash asked for.
Challenge == {Idle} \cup [pc : {"answered", "terminated"}, hash : Hashes, ip : IPs]

\* The types; an entry of the map has an address, so a message that no delivery
\* is in flight for has no entry (removeOutgoingIP).
TypeOK ==
    /\ DOMAIN outgoingMap \subseteq Hashes
    /\ outgoingMap \in [DOMAIN outgoingMap -> (SUBSET IPs) \ {{}}]
    /\ delivery \in [Deliveries -> Delivery]
    /\ challenge \in [Challenges -> Challenge]

\* initOutgoing
Init ==
    /\ outgoingMap = [h \in {} |-> {}]
    /\ delivery = [d \in Deliveries |-> Idle]
    /\ challenge = [x \in Challenges |-> Idle]

Entry(h) == IF h \in DOMAIN outgoingMap THEN outgoingMap[h] ELSE {}

With(h, ips) == [g \in DOMAIN outgoingMap \cup {h} |-> IF g = h THEN ips ELSE outgoingMap[g]]
Without(h)   == [g \in DOMAIN outgoingMap \ {h} |-> outgoingMap[g]]

RegisterOutgoing(d, h, ip) ==
    /\ delivery[d] = Idle
    /\ delivery' = [delivery EXCEPT ![d] = [pc |-> "inflight", hash |-> h, ip |-> ip]]
    /\ outgoingMap' = With(h, Entry(h) \cup {ip})
    /\ UNCHANGED challenge

\* A slip: an address leaves an entry only with the entry.
RemovedLastOnly(h, ip) ==
    IF Entry(h) = {ip} THEN Without(h) ELSE outgoingMap

\* A slip: an entry with no address left stays in the map.
RemovedFromEntry(h, ip) ==
    IF h \notin DOMAIN outgoingMap THEN outgoingMap ELSE With(h, Entry(h) \ {ip})

\* An entry with no address left is deleted.
Removed(h, ip) ==
    IF h \notin DOMAIN outgoingMap THEN outgoingMap
    ELSE IF Entry(h) \ {ip} = {} THEN Without(h) ELSE With(h, Entry(h) \ {ip})

RemoveOutgoingIP(d) ==
    /\ delivery[d] # Idle
    /\ outgoingMap' = Removed(delivery[d].hash, delivery[d].ip)
    /\ delivery' = [delivery EXCEPT ![d] = Idle]
    /\ UNCHANGED challenge

\* A slip: any host may challenge a message in flight.
LookupHash(h, ip) == h \in DOMAIN outgoingMap

LookupOutgoing(h, ip) == h \in DOMAIN outgoingMap /\ ip \in outgoingMap[h]

\* handleChallenge: of a delivery in flight, of one that has ended, or of nothing.
HandleChallenge(x, h, ip) ==
    /\ challenge[x] = Idle
    /\ challenge' = [challenge EXCEPT ![x] =
          [pc |-> IF LookupOutgoing(h, ip) THEN "answered" ELSE "terminated",
           hash |-> h, ip |-> ip]]
    /\ UNCHANGED <<outgoingMap, delivery>>

EndChallenge(x) ==
    /\ challenge[x] # Idle
    /\ challenge' = [challenge EXCEPT ![x] = Idle]
    /\ UNCHANGED <<outgoingMap, delivery>>

Next ==
    \/ \E d \in Deliveries, h \in Hashes, ip \in IPs : RegisterOutgoing(d, h, ip)
    \/ \E d \in Deliveries : RemoveOutgoingIP(d)
    \/ \E x \in Challenges, h \in Hashes, ip \in IPs : HandleChallenge(x, h, ip)
    \/ \E x \in Challenges : EndChallenge(x)

Spec == Init /\ [][Next]_vars

----------------------------------------------------------------------------
InFlight(h, ip) ==
    \E d \in Deliveries : delivery[d].pc = "inflight" /\ delivery[d].hash = h /\ delivery[d].ip = ip

\* Every address on record is one a delivery of the message is in flight to, so
\* that whatever order deliveries end in, the record does not outlive them
\* (removeOutgoingIP).
NoStaleRecord ==
    \A h \in DOMAIN outgoingMap : \A ip \in outgoingMap[h] : InFlight(h, ip)

\* A challenge is answered only to a host a delivery of that message is in
\* flight to: a late challenge, of a delivery that ended, is not
\* (handleChallenge, lookupOutgoing).
OnlyInFlightIsAnswered ==
    [][\A x \in Challenges : challenge[x] = Idle /\ challenge'[x].pc = "answered"
            => InFlight(challenge'[x].hash, challenge'[x].ip)]_vars
============================================================================

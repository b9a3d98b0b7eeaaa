------------------------- MODULE DatagramsProofs --------------------------
(***************************************************************************)
(* Proofs about the receiving of indicators, for any sources, domains,     *)
(* datagrams, numbers of workers and senders, and limits.                  *)
(***************************************************************************)
EXTENDS Datagrams, FiniteSetTheorems, TLAPS

(***************************************************************************)
(* The inductive invariant, by part of the state.                          *)
(***************************************************************************)
\* The source limiter.
LimiterOK ==
    /\ grams \in 0..MaxGrams
    /\ DOMAIN buckets \subseteq IPs /\ buckets \in [DOMAIN buckets -> Bucket]
    /\ lastPrune \in -PruneSpan..MaxTime
    /\ exact \in [IPs -> Bucket]
    /\ IsFiniteSet(DOMAIN buckets) /\ Cardinality(DOMAIN buckets) <= MaxSources
    /\ \A s \in IPs : exact[s].last <= now
    /\ ForgettingIsInvisible

\* DNS says now what it would be seen to say.
DnsOK ==
    /\ zone \in [Remote -> Zones]
    /\ seen \in [Remote -> [Answers -> Never..MaxTime]]
    /\ \A d \in Remote : seen[d][Lookup(zone[d])] = now
    /\ \A d \in Remote, a \in Answers : seen[d][a] <= now

\* Answer a for domain d was DNS's at time i or later.
Seen(d, a, i) == i <= seen[d][a]

\* A cached answer expires within its lifetime of being DNS's.
CacheOK ==
    /\ DOMAIN cache \subseteq Remote
    /\ cache \in [DOMAIN cache -> [ips : Answers, expires : 0..(MaxTime + PosTTL + NegTTL)]]
    /\ IsFiniteSet(DOMAIN cache) /\ Cardinality(DOMAIN cache) <= CacheMax
    /\ \A d \in DOMAIN cache :
          \E i \in 0..MaxTime : /\ Seen(d, cache[d].ips, i)
                                /\ cache[d].expires = i + Lifetime(cache[d].ips)

\* Address src was once one of domain d.
Vouched(d, src) == d \in Remote /\ \E a \in Answers : src \in a /\ Seen(d, a, 0)

\* A lookup is of the domain its datagram claims to come from, its answer was given
\* after it was asked for, and a datagram that passed the check is vouched for.
TaskOK(x) ==
    /\ x \in Task
    /\ x.pc \in {"asking", "answered"} =>
          /\ x.asked <= now
          /\ x.job # NoJob => /\ Claims(x.job.gram)
                              /\ x.domain = DomainOf[Claimant(x.job.gram)]
    /\ x.pc = "answered" => Seen(x.domain, x.ips, x.asked)
    /\ x.pc = "notify" => /\ Claims(x.job.gram)
                          /\ Vouched(DomainOf[Claimant(x.job.gram)], x.job.src)

TasksOK == task \in [Procs -> Task] /\ \A p \in Procs : TaskOK(task[p])

NoticeOK ==
    \/ published = NoNotice
    \/ /\ published \in [id : Msgs, from : Addrs, src : IPs]
       /\ Vouched(DomainOf[published.from], published.src)

Inv ==
    /\ now \in 0..MaxTime /\ moves \in 0..MaxMoves
    /\ LimiterOK /\ DnsOK /\ CacheOK /\ TasksOK /\ NoticeOK

----------------------------------------------------------------------------
(***************************************************************************)
(* The limiter.                                                            *)
(***************************************************************************)
\* A bucket refills up to its burst, and is full from then on.
LEMMA Refill ==
  ASSUME NEW k \in 0..Burst, NEW e \in Nat
  PROVE  /\ k + e * Rate \in Nat
         /\ k + (e + 1) * Rate >= k + e * Rate
         /\ e >= Burst \div Rate => k + e * Rate >= Burst
<1>1. Rate \in Nat \ {0} /\ Burst \in Nat /\ Burst % Rate = 0
  BY DatagramsAssumption
<1>2. e * Rate \in Nat /\ (e + 1) * Rate = e * Rate + Rate
  BY <1>1
<1>3. e >= Burst \div Rate => e * Rate >= Burst
  <2> DEFINE q == Burst \div Rate
  <2>1. q \in Nat /\ Burst = q * Rate
    BY <1>1
  <2> HIDE DEF q
  <2>2. e >= q => e * Rate >= q * Rate
    BY <1>1, <2>1
  <2> QED
    BY <2>1, <2>2 DEF q
<1> QED
  BY <1>1, <1>2, <1>3

\* What allow leaves in a bucket.
LEMMA ChargedIsBucket ==
  ASSUME now \in 0..MaxTime, NEW b \in Bucket, b.last <= now
  PROVE  /\ Tokens(b) \in 0..Burst
         /\ Charged(b) = [tokens |-> IF Tokens(b) < 1 THEN Tokens(b) ELSE Tokens(b) - 1,
                          last |-> now]
         /\ Charged(b) \in Bucket
<1>1. b.tokens \in 0..Burst /\ now - b.last \in Nat /\ Burst \in Nat
  BY DatagramsAssumption DEF Bucket
<1>2. b.tokens + (now - b.last) * Rate \in Nat
  BY <1>1, Refill
<1>3. Tokens(b) \in 0..Burst
  BY <1>1, <1>2 DEF Tokens
<1> QED
  BY <1>3, DatagramsAssumption DEF Charged, Bucket

\* A full bucket stays full, and one that was left alone for long enough is full.
LEMMA Full ==
  ASSUME now \in 0..MaxTime, NEW b \in Bucket, b.last <= now
  PROVE  /\ Tokens(b) = Burst <=> b.tokens + (now - b.last) * Rate >= Burst
         /\ now - b.last >= Burst \div Rate => Tokens(b) = Burst
<1>1. b.tokens \in 0..Burst /\ now - b.last \in Nat /\ Burst \in Nat
  BY DatagramsAssumption DEF Bucket
<1>2. b.tokens + (now - b.last) * Rate \in Nat
  BY <1>1, Refill
<1>3. Tokens(b) = Burst <=> b.tokens + (now - b.last) * Rate >= Burst
  BY <1>1, <1>2 DEF Tokens
<1> QED
  BY <1>1, <1>3, Refill

\* The clock is no matter for the limiter.
LEMMA TickKeepsLimiter ==
  ASSUME Inv, Tick
  PROVE  LimiterOK'
<1>1. now \in 0..MaxTime /\ now' = now + 1 /\ now' \in 0..MaxTime /\ UNCHANGED limiterVars
  BY DatagramsAssumption DEF Inv, Tick
<1>2. UNCHANGED <<grams, buckets, lastPrune, exact>>
  BY <1>1 DEF limiterVars
<1>3. \A s \in IPs : exact[s].last <= now'
  BY <1>1 DEF Inv, LimiterOK, Bucket
<1>4. ASSUME NEW s \in IPs, Tokens(exact[s]) = Burst
      PROVE  Tokens(exact[s])' = Burst
  <2> DEFINE b == exact[s]
  <2>1. b \in Bucket /\ b.last <= now
    BY DEF Inv, LimiterOK
  <2>2. b.tokens \in 0..Burst /\ now - b.last \in Nat /\ now' - b.last = (now - b.last) + 1 /\ Burst \in Nat
    BY <1>1, <2>1, DatagramsAssumption DEF Bucket
  <2>3. b.tokens + (now - b.last) * Rate >= Burst
    BY <1>1, <1>4, <2>1, Full
  <2>4. /\ b.tokens + (now - b.last) * Rate \in Nat
        /\ b.tokens + ((now - b.last) + 1) * Rate >= b.tokens + (now - b.last) * Rate
        /\ b.tokens + ((now - b.last) + 1) * Rate \in Nat
    <3> DEFINE e == now - b.last
    <3>1. e \in Nat /\ e + 1 \in Nat /\ b.tokens \in 0..Burst
      BY <2>2
    <3> HIDE DEF e
    <3>2. /\ b.tokens + e * Rate \in Nat /\ b.tokens + (e + 1) * Rate >= b.tokens + e * Rate
          /\ b.tokens + (e + 1) * Rate \in Nat
      BY <3>1, Refill
    <3> QED
      BY <3>2 DEF e
  <2>5. b.tokens + (now' - b.last) * Rate >= Burst /\ b.tokens + (now' - b.last) * Rate \in Nat
    BY <2>2, <2>3, <2>4
  <2> QED
    BY <1>2, <2>2, <2>5 DEF Tokens
<1>5. ForgettingIsInvisible'
  BY <1>2, <1>4 DEF Inv, LimiterOK, ForgettingIsInvisible
<1> QED
  BY <1>2, <1>3, <1>5 DEF Inv, LimiterOK

\* Only a source whose bucket is full again is forgotten.
LEMMA TableOK ==
  ASSUME Inv, NEW src \in IPs
  PROVE  /\ DOMAIN Table(src) \subseteq DOMAIN buckets
         /\ \A s \in DOMAIN Table(src) : Table(src)[s] = buckets[s]
         /\ IsFiniteSet(DOMAIN Table(src)) /\ Cardinality(DOMAIN Table(src)) \in Nat
         /\ Cardinality(DOMAIN Table(src)) <= Cardinality(DOMAIN buckets)
         /\ src \in DOMAIN buckets => Table(src) = buckets
         /\ \A s \in IPs \ DOMAIN Table(src) : Tokens(exact[s]) = Burst
<1>1. /\ DOMAIN Table(src) \subseteq DOMAIN buckets
      /\ \A s \in DOMAIN Table(src) : Table(src)[s] = buckets[s]
      /\ src \in DOMAIN buckets => Table(src) = buckets
  BY DEF Table, PruneDue, Pruned
<1>2. IsFiniteSet(DOMAIN buckets)
  BY DEF Inv, LimiterOK
<1>3. /\ IsFiniteSet(DOMAIN Table(src)) /\ Cardinality(DOMAIN Table(src)) \in Nat
      /\ Cardinality(DOMAIN Table(src)) <= Cardinality(DOMAIN buckets)
  BY <1>1, <1>2, FS_Subset, FS_CardinalityType
<1>4. ASSUME NEW s \in IPs \ DOMAIN Table(src)
      PROVE  Tokens(exact[s]) = Burst
  <2>1. CASE s \notin DOMAIN buckets
    BY <2>1 DEF Inv, LimiterOK, ForgettingIsInvisible
  <2>2. CASE s \in DOMAIN buckets
    <3>1. exact[s] = buckets[s] /\ exact[s] \in Bucket /\ exact[s].last <= now
      BY <2>2 DEF Inv, LimiterOK, ForgettingIsInvisible
    <3>2. ~(now - buckets[s].last < Burst \div Rate)
      BY <1>4, <2>2 DEF Table, Pruned
    <3>3. now - exact[s].last \in Int /\ Burst \div Rate \in Int
      BY <3>1, DatagramsAssumption DEF Inv, Bucket
    <3>4. now - exact[s].last >= Burst \div Rate
      BY <3>1, <3>2, <3>3
    <3>5. now \in 0..MaxTime
      BY DEF Inv
    <3> QED
      BY <3>1, <3>4, <3>5, Full
  <2> QED
    BY <2>1, <2>2
<1> QED
  BY <1>1, <1>3, <1>4

\* serve admits a source within the limit, and charges it what it would be charged had
\* no source been forgotten.
LEMMA ServeKeepsLimiter ==
  ASSUME Inv, NEW g \in Grams, NEW src \in IPs, Serve(g, src)
  PROVE  LimiterOK'
<1> DEFINE T == Table(src)
<1>1. /\ DOMAIN T \subseteq DOMAIN buckets
      /\ \A s \in DOMAIN T : T[s] = buckets[s]
      /\ IsFiniteSet(DOMAIN T) /\ Cardinality(DOMAIN T) \in Nat
      /\ Cardinality(DOMAIN T) <= Cardinality(DOMAIN buckets)
      /\ src \in DOMAIN buckets => T = buckets
      /\ \A s \in IPs \ DOMAIN T : Tokens(exact[s]) = Burst
  BY TableOK
<1>2. /\ now \in 0..MaxTime /\ now' = now /\ DOMAIN buckets \subseteq IPs
      /\ grams' \in 0..MaxGrams /\ lastPrune' \in -PruneSpan..MaxTime
      /\ Cardinality(DOMAIN buckets) <= MaxSources /\ MaxSources \in Nat /\ MaxTime \in Nat
      /\ Cardinality(DOMAIN buckets) \in Nat
  <2>1. now \in 0..MaxTime /\ now' = now /\ DOMAIN buckets \subseteq IPs
        /\ Cardinality(DOMAIN buckets) <= MaxSources /\ MaxSources \in Nat /\ MaxTime \in Nat
        /\ IsFiniteSet(DOMAIN buckets)
    BY DatagramsAssumption DEF Serve, Inv, LimiterOK
  <2>2. grams' \in 0..MaxGrams
    BY DatagramsAssumption DEF Serve, Inv, LimiterOK
  <2>3. lastPrune' \in -PruneSpan..MaxTime
    BY <2>1, DatagramsAssumption DEF Serve, Inv, LimiterOK
  <2> QED
    BY <2>1, <2>2, <2>3, FS_CardinalityType
<1>3. \A s \in IPs : exact[s] \in Bucket /\ exact[s].last <= now
  BY DEF Inv, LimiterOK
<1>4. \A s \in DOMAIN buckets : buckets[s] = exact[s]
  BY <1>2 DEF Inv, LimiterOK, ForgettingIsInvisible
<1>5. DOMAIN exact = IPs
  BY DEF Inv, LimiterOK
<1> HIDE DEF T
<1>6. CASE ~Admits(src)
  <2>1. buckets' = T /\ exact' = exact
    BY <1>6 DEF Serve, T
  <2>2. \A s \in IPs : Tokens(exact[s])' = Tokens(exact[s])
    BY <1>2, <2>1 DEF Tokens
  <2>3. DOMAIN T \subseteq IPs /\ T \in [DOMAIN T -> Bucket]
    <3>1. T = [s \in DOMAIN T |-> T[s]]
      BY DEF T, Table, Pruned, Inv, LimiterOK
    <3> QED
      BY <1>1, <1>2, <1>3, <1>4, <3>1
  <2>4. ForgettingIsInvisible'
    BY <1>1, <1>2, <1>4, <2>1, <2>2 DEF ForgettingIsInvisible
  <2> QED
    BY <1>1, <1>2, <1>3, <2>1, <2>3, <2>4 DEF LimiterOK, Inv
<1>7. CASE Admits(src)
  <2>1. /\ DOMAIN buckets' = DOMAIN T \cup {src}
        /\ buckets' = [s \in DOMAIN T \cup {src} |-> buckets'[s]]
        /\ buckets'[src] = Charged(BucketOf(src))
        /\ \A s \in DOMAIN T \ {src} : buckets'[s] = T[s]
    BY <1>7 DEF Serve, T
  <2>2. /\ DOMAIN exact' = IPs /\ exact' = [s \in IPs |-> exact'[s]]
        /\ exact'[src] = Charged(exact[src])
        /\ \A s \in IPs \ {src} : exact'[s] = exact[s]
    BY <1>5, <1>7 DEF Serve
  <2>3. Charged(BucketOf(src)) = Charged(exact[src])
    <3>1. CASE src \in DOMAIN buckets
      BY <1>4, <3>1 DEF BucketOf
    <3>2. CASE src \notin DOMAIN buckets
      <4> DEFINE b == [tokens |-> Burst, last |-> now]
      <4>1. b \in Bucket /\ b.last <= now /\ b.tokens = Burst /\ now - b.last = 0
        BY <1>2, DatagramsAssumption DEF Bucket
      <4>2. b.tokens + (now - b.last) * Rate >= Burst
        BY <4>1, DatagramsAssumption
      <4>3. BucketOf(src) = b
        BY <3>2 DEF BucketOf
      <4> HIDE DEF b
      <4>4. Tokens(b) = Burst
        BY <1>2, <4>1, <4>2, Full
      <4>5. Tokens(exact[src]) = Burst
        BY <1>1, <3>2
      <4> QED
        BY <4>3, <4>4, <4>5 DEF Charged
    <3> QED
      BY <3>1, <3>2
  <2>4. Charged(exact[src]) \in Bucket /\ Charged(exact[src]).last = now
    <3>1. exact[src] \in Bucket /\ exact[src].last <= now
      BY <1>3
    <3> QED
      BY <1>2, <3>1, ChargedIsBucket
  <2>5. \A s \in IPs : exact'[s] \in Bucket /\ exact'[s].last <= now
    BY <1>2, <1>3, <2>2, <2>4
  <2>6. \A s \in DOMAIN buckets' : buckets'[s] = exact'[s]
    BY <1>1, <1>2, <1>4, <2>1, <2>2, <2>3
  <2>7. DOMAIN buckets' \subseteq IPs
    BY <1>1, <1>2, <2>1
  <2>8. ForgettingIsInvisible'
    <3>1. \A s \in IPs \ DOMAIN buckets' : exact'[s] = exact[s] /\ Tokens(exact[s]) = Burst
      BY <1>1, <2>1, <2>2
    <3>2. \A s \in IPs \ DOMAIN buckets' : Tokens(exact[s])' = Burst
      BY <1>2, <3>1 DEF Tokens
    <3> QED
      BY <2>6, <3>2 DEF ForgettingIsInvisible
  <2>9. IsFiniteSet(DOMAIN buckets') /\ Cardinality(DOMAIN buckets') <= MaxSources
    <3>1. IsFiniteSet(DOMAIN T \cup {src})
          /\ Cardinality(DOMAIN T \cup {src})
                = IF src \in DOMAIN T THEN Cardinality(DOMAIN T) ELSE Cardinality(DOMAIN T) + 1
      BY <1>1, FS_AddElement
    <3>2. src \in DOMAIN T \/ Cardinality(DOMAIN T) < MaxSources
      BY <1>7 DEF Admits, T
    <3> QED
      BY <1>1, <1>2, <2>1, <3>1, <3>2
  <2>10. buckets' \in [DOMAIN buckets' -> Bucket] /\ exact' \in [IPs -> Bucket]
    BY <2>1, <2>2, <2>5, <2>6, <2>7
  <2> QED
    BY <1>2, <2>5, <2>7, <2>8, <2>9, <2>10 DEF LimiterOK
<1> QED
  BY <1>6, <1>7

----------------------------------------------------------------------------
(***************************************************************************)
(* The cache and what depends on it.                                       *)
(***************************************************************************)
\* An element of a sequence.
LEMMA ElementOfSeq ==
  ASSUME NEW S, NEW q \in Seq(S), NEW i \in 1..Len(q)
  PROVE  q[i] \in S
OBVIOUS

\* The participants of a subject are addresses.
LEMMA ParticipantsAreAddrs ==
  ASSUME NEW s \in Hashes, NEW d
  PROVE  s[1] \in Msgs /\ SubjectByHash(s, d) \in Seq(Addrs)
<1>1. s[1] \in Msgs /\ s[2] \in 0..Len(AddTo[s[1]])
  BY DEF Hashes
<1>2. From[s[1]] \in Addrs /\ To[s[1]] \in Seq(Addrs)
      /\ AddTo[s[1]] \in Seq([by : Addrs, to : Seq(Addrs)])
  BY <1>1, SubjectsAssumption
<1>3. <<From[s[1]]>> \o To[s[1]] \in Seq(Addrs)
  BY <1>2
<1>4. ASSUME s[2] # 0
      PROVE  LET b == AddTo[s[1]][s[2]] IN <<b.by>> \o b.to \in Seq(Addrs)
  <2> DEFINE b == AddTo[s[1]][s[2]]
  <2>1. b \in [by : Addrs, to : Seq(Addrs)]
    <3>1. s[2] \in 1..Len(AddTo[s[1]])
      BY <1>1, <1>2, <1>4
    <3> QED
      BY <1>2, <3>1, ElementOfSeq
  <2>2. b.by \in Addrs /\ b.to \in Seq(Addrs)
    BY <2>1
  <2> QED
    BY <2>2
<1>5. Participants(s) \in Seq(Addrs)
  BY <1>3, <1>4 DEF Participants
<1>6. OriginalFromBatch(s[1], d) \in Seq(Addrs)
  BY <1>3 DEF OriginalFromBatch
<1> QED
  BY <1>1, <1>5, <1>6 DEF SubjectByHash

\* A datagram's claim is in the name of an address.
LEMMA ClaimantIsAddr ==
  ASSUME NEW g \in Grams, Claims(g)
  PROVE  g.hash[1] \in Msgs /\ Claimant(g) \in Addrs /\ DomainOf[Claimant(g)] \in Domains
<1>1. g.hash \in Hashes
  BY DatagramsAssumption
<1>2. Parts(g) \in Seq(Addrs) /\ g.hash[1] \in Msgs
  BY <1>1, ParticipantsAreAddrs DEF Parts
<1>3. Claimant(g) \in Addrs
  BY <1>2 DEF Claims, Claimant
<1> QED
  BY <1>2, <1>3, SubjectsAssumption

\* A lookup has one of the answers.
LEMMA LookupAnswers ==
  ASSUME NEW z \in Zones
  PROVE  Lookup(z) \in Answers
BY DEF Lookup, Answers

\* What was seen stays seen: time and moves keep what is cached, asked and vouched for.
LEMMA SeenGrows ==
  ASSUME Inv, now <= now', now' \in 0..MaxTime, UNCHANGED <<cache, task, published>>,
         \A d \in Remote : \A a \in Answers : seen[d][a] <= seen'[d][a],
         seen' \in [Remote -> [Answers -> Never..MaxTime]]
  PROVE  CacheOK' /\ TasksOK' /\ NoticeOK'
<1>1. ASSUME NEW d \in Remote, NEW a \in Answers, NEW i \in Nat, Seen(d, a, i)
      PROVE  Seen(d, a, i)'
  <2>1. seen[d][a] \in Never..MaxTime /\ seen'[d][a] \in Never..MaxTime
    BY DEF Inv, DnsOK
  <2> QED
    BY <1>1, <2>1, DatagramsAssumption DEF Seen, Never
<1>2. CacheOK'
  <2>1. \A d \in DOMAIN cache : d \in Remote /\ cache[d].ips \in Answers
    BY DEF Inv, CacheOK
  <2>2. \A d \in DOMAIN cache :
          \E i \in 0..MaxTime : /\ Seen(d, cache[d].ips, i)'
                                /\ cache[d].expires = i + Lifetime(cache[d].ips)
    BY <1>1, <2>1 DEF Inv, CacheOK
  <2> QED
    BY <2>2 DEF Inv, CacheOK, Lifetime
<1>3. ASSUME NEW d, NEW src, Vouched(d, src)
      PROVE  Vouched(d, src)'
  BY <1>1, <1>3 DEF Vouched
<1>4. ASSUME NEW x, TaskOK(x)
      PROVE  TaskOK(x)'
  <2>1. x.pc \in {"asking", "answered"} => x.asked \in 0..MaxTime /\ x.domain \in Remote
    BY <1>4 DEF TaskOK, Task, Idle
  <2>2. x.pc = "answered" => x.ips \in Answers
    BY <1>4 DEF TaskOK, Task, Idle
  <2>3. x.pc = "answered" => Seen(x.domain, x.ips, x.asked)'
    BY <1>1, <1>4, <2>1, <2>2 DEF TaskOK
  <2>4. x.pc \in {"asking", "answered"} => x.asked <= now'
    BY <1>4, <2>1 DEF TaskOK, Inv
  <2> QED
    BY <1>3, <1>4, <2>3, <2>4 DEF TaskOK
<1>5. TasksOK'
  BY <1>4 DEF Inv, TasksOK
<1>6. NoticeOK'
  BY <1>3 DEF Inv, NoticeOK
<1> QED
  BY <1>2, <1>5, <1>6

\* Time passes.
LEMMA TickKeepsInv ==
  ASSUME Inv, Tick
  PROVE  Inv'
<1>1. now \in 0..MaxTime /\ now' = now + 1 /\ now' \in 0..MaxTime /\ now <= now' /\ MaxTime \in Nat
      /\ UNCHANGED <<zone, moves, cache, task, published>>
  BY DatagramsAssumption DEF Inv, Tick
<1>2. \A d \in Remote : zone[d] \in Zones /\ Lookup(zone[d]) \in Answers
  BY LookupAnswers DEF Inv, DnsOK
<1>3. /\ seen' = [d \in Remote |-> [seen[d] EXCEPT ![Lookup(zone[d])] = now']]
      /\ \A d \in Remote : seen[d] \in [Answers -> Never..MaxTime]
  BY <1>1 DEF Tick, Inv, DnsOK
<1>4. /\ seen' \in [Remote -> [Answers -> Never..MaxTime]]
      /\ \A d \in Remote : seen'[d][Lookup(zone[d])] = now'
  BY <1>1, <1>2, <1>3 DEF Never
<1>5. \A d \in Remote : \A a \in Answers : seen[d][a] <= seen'[d][a]
  <2> SUFFICES ASSUME NEW d \in Remote, NEW a \in Answers
               PROVE  seen[d][a] <= seen'[d][a]
    OBVIOUS
  <2>1. seen[d][a] \in Never..MaxTime /\ seen[d][Lookup(zone[d])] = now
    BY <1>3 DEF Inv, DnsOK
  <2>2. seen'[d][a] = IF a = Lookup(zone[d]) THEN now' ELSE seen[d][a]
    BY <1>2, <1>3
  <2> QED
    BY <1>1, <2>1, <2>2 DEF Never
<1>6. DnsOK'
  <2>1. \A d \in Remote, a \in Answers : seen'[d][a] <= now'
    <3> SUFFICES ASSUME NEW d \in Remote, NEW a \in Answers
                 PROVE  seen'[d][a] <= now'
      OBVIOUS
    <3>1. seen[d][a] \in Never..MaxTime /\ seen[d][a] <= now
      BY DEF Inv, DnsOK
    <3>2. seen'[d][a] = IF a = Lookup(zone[d]) THEN now' ELSE seen[d][a]
      BY <1>2, <1>3
    <3> QED
      BY <1>1, <3>1, <3>2 DEF Never
  <2> QED
    BY <1>1, <1>4, <2>1 DEF Inv, DnsOK, Lookup
<1> QED
  BY <1>1, <1>4, <1>5, <1>6, SeenGrows, TickKeepsLimiter DEF Inv

\* A domain's addresses change.
LEMMA MoveKeepsInv ==
  ASSUME Inv, NEW d \in Remote, NEW z \in Zones, Move(d, z)
  PROVE  Inv'
<1>1. now \in 0..MaxTime /\ now' = now /\ moves' \in 0..MaxMoves /\ MaxTime \in Nat
      /\ UNCHANGED <<limiterVars, cache, task, published>>
  BY DatagramsAssumption DEF Inv, Move
<1>2. Lookup(z) \in Answers /\ \A e \in Remote : zone[e] \in Zones /\ Lookup(zone[e]) \in Answers
  BY LookupAnswers DEF Inv, DnsOK
<1>3. /\ zone' \in [Remote -> Zones] /\ zone'[d] = z
      /\ \A e \in Remote \ {d} : zone'[e] = zone[e]
  BY DEF Move, Inv, DnsOK
<1>4. /\ seen' \in [Remote -> [Answers -> Never..MaxTime]]
      /\ \A e \in Remote, a \in Answers :
            seen'[e][a] = IF e = d /\ a = Lookup(z) THEN now ELSE seen[e][a]
  BY <1>1, <1>2 DEF Move, Inv, DnsOK, Never
<1>5. \A e \in Remote : seen'[e][Lookup(zone'[e])] = now
  BY <1>2, <1>3, <1>4 DEF Inv, DnsOK
<1>6. \A e \in Remote : \A a \in Answers : seen[e][a] <= seen'[e][a]
  <2> SUFFICES ASSUME NEW e \in Remote, NEW a \in Answers
               PROVE  seen[e][a] <= seen'[e][a]
    OBVIOUS
  <2>1. seen[e][a] \in Never..MaxTime /\ seen[e][a] <= now
    BY DEF Inv, DnsOK
  <2> QED
    BY <1>1, <1>4, <2>1 DEF Never
<1>7. DnsOK'
  BY <1>1, <1>3, <1>4, <1>5 DEF Inv, DnsOK, Lookup
<1>8. LimiterOK'
  BY <1>1 DEF Inv, LimiterOK, limiterVars, ForgettingIsInvisible, Tokens
<1> QED
  BY <1>1, <1>4, <1>6, <1>7, <1>8, SeenGrows DEF Inv

\* A goroutine goes on to an orderly state.
LEMMA TaskGoesOn ==
  ASSUME Inv, NEW p \in Procs, NEW x, TaskOK(x), task' = [task EXCEPT ![p] = x],
         UNCHANGED <<now, dnsVars>>
  PROVE  TasksOK' /\ DnsOK' /\ now' \in 0..MaxTime /\ moves' \in 0..MaxMoves
<1>1. now' = now /\ seen' = seen /\ zone' = zone /\ moves' = moves
  BY DEF dnsVars
<1>2. \A q \in Procs : TaskOK(task'[q])
  BY DEF Inv, TasksOK
<1>3. \A y : TaskOK(y) => TaskOK(y)'
  BY <1>1 DEF TaskOK, Vouched, Seen
<1>4. TasksOK'
  BY <1>2, <1>3 DEF Inv, TasksOK, TaskOK
<1>5. DnsOK'
  BY <1>1 DEF Inv, DnsOK, Lookup
<1> QED
  BY <1>1, <1>4, <1>5 DEF Inv

\* The parts of the state a goroutine leaves alone.
LEMMA LeftAlone ==
  ASSUME Inv, UNCHANGED <<now, dnsVars>>
  PROVE  /\ UNCHANGED limiterVars => LimiterOK'
         /\ UNCHANGED cache => CacheOK'
         /\ UNCHANGED published => NoticeOK'
<1>1. now' = now /\ seen' = seen
  BY DEF dnsVars
<1>2. UNCHANGED limiterVars => LimiterOK'
  BY <1>1 DEF Inv, LimiterOK, limiterVars, ForgettingIsInvisible, Tokens
<1>3. UNCHANGED cache => CacheOK'
  BY <1>1 DEF Inv, CacheOK, Seen, Lifetime
<1>4. UNCHANGED published => NoticeOK'
  BY <1>1 DEF Inv, NoticeOK, Vouched, Seen
<1> QED
  BY <1>2, <1>3, <1>4

\* An idle goroutine.
LEMMA IdleOK == TaskOK(Idle)
BY DEF TaskOK, Task, Idle

\* A datagram is given to a worker.
LEMMA ServeKeepsInv ==
  ASSUME Inv, NEW g \in Grams, NEW src \in IPs, Serve(g, src)
  PROVE  Inv'
<1>1. UNCHANGED <<now, dnsVars, cache, published>>
  BY DEF Serve
<1>2. CASE UNCHANGED task
  <2>1. now' = now /\ seen' = seen /\ zone' = zone /\ moves' = moves
    BY <1>1 DEF dnsVars
  <2>2. TasksOK'
    BY <1>2, <2>1 DEF Inv, TasksOK, TaskOK, Vouched, Seen
  <2>3. DnsOK'
    BY <2>1 DEF Inv, DnsOK, Lookup
  <2> QED
    BY <1>1, <2>1, <2>2, <2>3, LeftAlone, ServeKeepsLimiter DEF Inv
<1>3. CASE ~UNCHANGED task
  <2> DEFINE x == [pc |-> "verify", job |-> [gram |-> g, src |-> src]]
  <2>1. PICK w \in Workers : task' = [task EXCEPT ![w] = x]
    BY <1>3 DEF Serve
  <2>2. TaskOK(x)
    BY DEF TaskOK, Task, Jobs
  <2>3. w \in Procs
    BY DEF Procs
  <2> HIDE DEF x
  <2>4. TasksOK' /\ DnsOK' /\ now' \in 0..MaxTime /\ moves' \in 0..MaxMoves
    BY <1>1, <2>1, <2>2, <2>3, TaskGoesOn
  <2> QED
    BY <1>1, <2>4, LeftAlone, ServeKeepsLimiter DEF Inv
<1> QED
  BY <1>2, <1>3

\* The source check lets pass only what the addresses it is given vouch for.
LEMMA JudgedOK ==
  ASSUME Inv, NEW job \in Jobs \cup {NoJob}, NEW d \in Remote, NEW ips \in Answers,
         job # NoJob => Claims(job.gram) /\ d = DomainOf[Claimant(job.gram)],
         Seen(d, ips, 0)
  PROVE  TaskOK(Judged(job, ips))
<1>1. CASE job = NoJob \/ job.src \notin ips
  BY <1>1, IdleOK DEF Judged
<1>2. CASE job # NoJob /\ job.src \in ips
  <2> DEFINE x == [pc |-> "notify", job |-> job]
  <2>1. Judged(job, ips) = x /\ job \in Jobs
    BY <1>2 DEF Judged
  <2>2. x \in Task /\ x.pc = "notify" /\ x.job = job
    BY <2>1 DEF Task
  <2>3. Vouched(DomainOf[Claimant(job.gram)], job.src)
    BY <1>2 DEF Vouched
  <2> HIDE DEF x
  <2> QED
    BY <1>2, <2>1, <2>2, <2>3 DEF TaskOK
<1> QED
  BY <1>1, <1>2

\* A cached answer was seen.
LEMMA CachedIsSeen ==
  ASSUME Inv, NEW d \in DOMAIN cache
  PROVE  d \in Remote /\ cache[d].ips \in Answers /\ Seen(d, cache[d].ips, 0)
<1>1. d \in Remote /\ cache[d].ips \in Answers
  BY DEF Inv, CacheOK
<1>2. seen[d][cache[d].ips] \in Never..MaxTime
  BY <1>1 DEF Inv, DnsOK
<1> QED
  BY <1>1, <1>2, DatagramsAssumption DEF Inv, CacheOK, Seen, Never

\* The first half of ipCache.get.
LEMMA GetGoesOn ==
  ASSUME Inv, NEW p \in Procs, NEW job \in Jobs \cup {NoJob}, NEW d \in Remote,
         job # NoJob => Claims(job.gram) /\ d = DomainOf[Claimant(job.gram)],
         Get(p, job, d), UNCHANGED <<now, dnsVars>>
  PROVE  TasksOK' /\ DnsOK' /\ now' \in 0..MaxTime /\ moves' \in 0..MaxMoves
<1>1. CASE Fresh(d)
  <2>1. TaskOK(Judged(job, cache[d].ips))
    BY <1>1, CachedIsSeen, JudgedOK DEF Fresh
  <2> QED
    BY <1>1, <2>1, TaskGoesOn DEF Get
<1>2. CASE ~Fresh(d)
  <2> DEFINE x == [pc |-> "asking", job |-> job, domain |-> d, asked |-> now]
  <2>1. /\ x \in Task /\ x.pc = "asking" /\ x.job = job /\ x.domain = d /\ x.asked = now
        /\ now <= now
    BY DEF Task, Inv
  <2>2. task' = [task EXCEPT ![p] = x]
    BY <1>2 DEF Get
  <2> HIDE DEF x
  <2>3. TaskOK(x)
    BY <2>1 DEF TaskOK
  <2> QED
    BY <2>2, <2>3, TaskGoesOn
<1> QED
  BY <1>1, <1>2

\* verifyAndPublish up to the source check asks for the claimant's domain.
LEMMA VerifyKeepsInv ==
  ASSUME Inv, NEW w \in Workers, Verify(w)
  PROVE  Inv'
<1> DEFINE job == task[w].job
           d == DomainOf[Claimant(job.gram)]
<1>1. UNCHANGED <<now, dnsVars, limiterVars, cache, published>> /\ w \in Procs
  BY DEF Verify, Procs
<1>2. job \in Jobs /\ job.gram \in Grams
  BY <1>1 DEF Verify, Inv, TasksOK, TaskOK, Task, Idle, Jobs
<1>3. TasksOK' /\ DnsOK' /\ now' \in 0..MaxTime /\ moves' \in 0..MaxMoves
  <2>1. CASE Claims(job.gram) /\ d # Here
    <3>1. d \in Remote
      BY <1>2, <2>1, ClaimantIsAddr DEF Remote
    <3>2. Get(w, job, d)
      BY <2>1 DEF Verify
    <3> HIDE DEF job
    <3> QED
      BY <1>1, <1>2, <2>1, <3>1, <3>2, GetGoesOn
  <2>2. CASE ~(Claims(job.gram) /\ d # Here)
    <3>1. task' = [task EXCEPT ![w] = Idle]
      BY <2>2 DEF Verify
    <3> QED
      BY <1>1, <3>1, IdleOK, TaskGoesOn
  <2> QED
    BY <2>1, <2>2
<1> QED
  BY <1>1, <1>3, LeftAlone DEF Inv

\* A failed query drops the datagram.
LEMMA QueryFailsKeepsInv ==
  ASSUME Inv, NEW w \in Workers, QueryFails(w)
  PROVE  Inv'
<1>1. UNCHANGED <<now, dnsVars, limiterVars, cache, published>> /\ w \in Procs
      /\ task' = [task EXCEPT ![w] = Idle]
  BY DEF QueryFails, Procs
<1> QED
  BY <1>1, IdleOK, TaskGoesOn, LeftAlone DEF Inv

\* A sending goroutine looks an address up.
LEMMA ResolveKeepsInv ==
  ASSUME Inv, NEW p \in Senders, NEW d \in Remote, Resolve(p, d)
  PROVE  Inv'
<1>1. UNCHANGED <<now, dnsVars, limiterVars, cache, published>> /\ p \in Procs
      /\ Get(p, NoJob, d)
  BY DEF Resolve, Procs
<1> QED
  BY <1>1, GetGoesOn, LeftAlone DEF Inv

\* DNS answers a lookup after it was asked.
LEMMA AnswerKeepsInv ==
  ASSUME Inv, NEW p \in Procs, Answer(p)
  PROVE  Inv'
<1> DEFINE t == task[p]
           ips == Lookup(zone[t.domain])
           x == [pc |-> "answered", job |-> t.job, domain |-> t.domain, asked |-> t.asked,
                 ips |-> ips]
<1>1. UNCHANGED <<now, dnsVars, limiterVars, cache, published>> /\ t.pc = "asking"
      /\ task' = [task EXCEPT ![p] = x] /\ TaskOK(t)
  BY DEF Answer, Inv, TasksOK
<1>2. t.job \in Jobs \cup {NoJob} /\ t.domain \in Remote /\ t.asked \in 0..MaxTime
  BY <1>1 DEF TaskOK, Task, Idle
<1>3. zone[t.domain] \in Zones /\ seen[t.domain][ips] = now
  BY <1>2 DEF Inv, DnsOK
<1>4. ips \in Answers /\ Seen(t.domain, ips, t.asked)
  BY <1>1, <1>3, LookupAnswers DEF Seen, TaskOK
<1>5. /\ x \in Task /\ x.pc = "answered" /\ x.job = t.job /\ x.domain = t.domain
      /\ x.asked = t.asked /\ x.ips = ips
  BY <1>2, <1>4 DEF Task
<1> HIDE DEF x
<1>6. TaskOK(x)
  BY <1>1, <1>4, <1>5 DEF TaskOK
<1> QED
  BY <1>1, <1>6, TaskGoesOn, LeftAlone DEF Inv

\* A full cache is swept, and takes an answer only if that made room; the entry lives
\* from when the lookup began.
LEMMA StoredOK ==
  ASSUME Inv, NEW t, TaskOK(t), t.pc = "answered", UNCHANGED <<now, seen>>, cache' = Stored(t)
  PROVE  CacheOK'
<1> DEFINE S == Swept(t)
<1>1. t.domain \in Remote /\ t.asked \in 0..MaxTime /\ t.ips \in Answers
      /\ Seen(t.domain, t.ips, t.asked)
  BY DEF TaskOK, Task, Idle
<1>2. DOMAIN S \subseteq DOMAIN cache /\ (\A d \in DOMAIN S : S[d] = cache[d])
      /\ S = [d \in DOMAIN S |-> S[d]]
  BY DEF Swept, Inv, CacheOK
<1>3. IsFiniteSet(DOMAIN cache) /\ Cardinality(DOMAIN cache) <= CacheMax /\ DOMAIN cache \subseteq Remote
  BY DEF Inv, CacheOK
<1>4. IsFiniteSet(DOMAIN S) /\ Cardinality(DOMAIN S) \in Nat /\ Cardinality(DOMAIN S) <= CacheMax
  BY <1>2, <1>3, FS_Subset, FS_CardinalityType, DatagramsAssumption
<1>5. \A d \in DOMAIN S :
         /\ S[d] \in [ips : Answers, expires : 0..(MaxTime + PosTTL + NegTTL)]
         /\ \E i \in 0..MaxTime : Seen(d, S[d].ips, i) /\ S[d].expires = i + Lifetime(S[d].ips)
  BY <1>2 DEF Inv, CacheOK
<1>6. \A d, a, i : Seen(d, a, i)' = Seen(d, a, i)
  BY DEF Seen
<1> HIDE DEF S
<1>7. CASE Cardinality(DOMAIN S) >= CacheMax
  <2>1. cache' = S
    BY <1>4, <1>7, DatagramsAssumption DEF Stored, S
  <2>2. \A d \in DOMAIN cache' :
          \E i \in 0..MaxTime : /\ Seen(d, cache[d].ips, i)'
                                /\ cache'[d].expires = i + Lifetime(cache'[d].ips)
    BY <1>5, <1>6, <2>1
  <2>3. cache' \in [DOMAIN cache' -> [ips : Answers, expires : 0..(MaxTime + PosTTL + NegTTL)]]
    BY <1>2, <1>5, <2>1
  <2> QED
    BY <1>2, <1>3, <1>4, <2>1, <2>2, <2>3 DEF CacheOK, Lifetime
<1>8. CASE Cardinality(DOMAIN S) < CacheMax
  <2>1. cache' = [d \in DOMAIN S \cup {t.domain} |-> IF d = t.domain THEN Entry(t) ELSE S[d]]
    BY <1>8 DEF Stored, S
  <2>2. /\ Entry(t) \in [ips : Answers, expires : 0..(MaxTime + PosTTL + NegTTL)]
        /\ Entry(t).ips = t.ips /\ Entry(t).expires = t.asked + Lifetime(t.ips)
    BY <1>1, DatagramsAssumption DEF Entry, Lifetime
  <2>3. \A d \in DOMAIN cache' :
          \E i \in 0..MaxTime : /\ Seen(d, cache[d].ips, i)'
                                /\ cache'[d].expires = i + Lifetime(cache'[d].ips)
    <3> SUFFICES ASSUME NEW d \in DOMAIN cache'
                 PROVE  \E i \in 0..MaxTime : /\ Seen(d, cache[d].ips, i)'
                                              /\ cache'[d].expires = i + Lifetime(cache'[d].ips)
      OBVIOUS
    <3>1. CASE d = t.domain
      BY <1>1, <1>6, <2>1, <2>2, <3>1
    <3>2. CASE d # t.domain
      BY <1>5, <1>6, <2>1, <3>2
    <3> QED
      BY <3>1, <3>2
  <2>4. cache' \in [DOMAIN cache' -> [ips : Answers, expires : 0..(MaxTime + PosTTL + NegTTL)]]
    BY <1>5, <2>1, <2>2
  <2>5. DOMAIN cache' \subseteq Remote /\ DOMAIN cache' = DOMAIN S \cup {t.domain}
    BY <1>1, <1>2, <1>3, <2>1
  <2>6. IsFiniteSet(DOMAIN cache') /\ Cardinality(DOMAIN cache') <= CacheMax
    <3>1. IsFiniteSet(DOMAIN S \cup {t.domain})
          /\ Cardinality(DOMAIN S \cup {t.domain})
                = IF t.domain \in DOMAIN S THEN Cardinality(DOMAIN S) ELSE Cardinality(DOMAIN S) + 1
      BY <1>4, FS_AddElement
    <3> QED
      BY <1>4, <1>8, <2>5, <3>1, DatagramsAssumption
  <2> QED
    BY <2>3, <2>4, <2>5, <2>6 DEF CacheOK, Lifetime
<1> QED
  BY <1>4, <1>7, <1>8, DatagramsAssumption

\* The second half of ipCache.get, and the source check.
LEMMA FillKeepsInv ==
  ASSUME Inv, NEW p \in Procs, Fill(p)
  PROVE  Inv'
<1> DEFINE t == task[p]
<1>1. UNCHANGED <<now, dnsVars, limiterVars, published>> /\ t.pc = "answered" /\ TaskOK(t)
      /\ task' = [task EXCEPT ![p] = Judged(t.job, t.ips)] /\ cache' = Stored(t)
  BY DEF Fill, Inv, TasksOK
<1>2. t.job \in Jobs \cup {NoJob} /\ t.domain \in Remote /\ t.asked \in 0..MaxTime
      /\ t.ips \in Answers
  BY <1>1 DEF TaskOK, Task, Idle
<1>3. Seen(t.domain, t.ips, 0)
  <2>1. seen[t.domain][t.ips] \in Never..MaxTime /\ t.asked <= seen[t.domain][t.ips]
    BY <1>1, <1>2 DEF Inv, DnsOK, TaskOK, Seen
  <2> QED
    BY <1>2, <2>1, DatagramsAssumption DEF Seen, Never
<1>4. TaskOK(Judged(t.job, t.ips))
  BY <1>1, <1>2, <1>3, JudgedOK DEF TaskOK
<1>5. CacheOK'
  <2>1. UNCHANGED <<now, seen>>
    BY <1>1 DEF dnsVars
  <2> QED
    BY <1>1, <2>1, StoredOK
<1> QED
  BY <1>1, <1>4, <1>5, TaskGoesOn, LeftAlone DEF Inv

\* A notice is published for what passed the source check.
LEMMA NotifyKeepsInv ==
  ASSUME Inv, NEW w \in Workers, Notify(w)
  PROVE  Inv'
<1> DEFINE job == task[w].job
<1>1. UNCHANGED <<now, dnsVars, limiterVars, cache>> /\ w \in Procs /\ task[w].pc = "notify"
      /\ task' = [task EXCEPT ![w] = Idle]
      /\ published' = [id |-> job.gram.hash[1], from |-> Claimant(job.gram), src |-> job.src]
  BY DEF Notify, Procs
<1>2. TaskOK(task[w])
  BY <1>1 DEF Inv, TasksOK
<1>3. job.gram \in Grams /\ job.src \in IPs
  BY <1>1, <1>2 DEF TaskOK, Task, Idle, Jobs
<1>4. Claims(job.gram) /\ Vouched(DomainOf[Claimant(job.gram)], job.src)
  BY <1>1, <1>2 DEF TaskOK
<1>5. /\ published' \in [id : Msgs, from : Addrs, src : IPs]
      /\ published'.from = Claimant(job.gram) /\ published'.src = job.src
  BY <1>1, <1>3, <1>4, ClaimantIsAddr
<1>6. NoticeOK'
  <2>1. seen' = seen
    BY <1>1 DEF dnsVars
  <2> QED
    BY <1>4, <1>5, <2>1 DEF NoticeOK, Vouched, Seen
<1> QED
  BY <1>1, <1>6, IdleOK, TaskGoesOn, LeftAlone DEF Inv

----------------------------------------------------------------------------
(***************************************************************************)
(* The theorems.                                                           *)
(***************************************************************************)
\* A listener that has just started.
LEMMA InitInv ==
  ASSUME Init
  PROVE  Inv
<1>1. now = 0 /\ 0 \in 0..MaxTime /\ moves = 0 /\ moves \in 0..MaxMoves /\ MaxTime \in Nat
      /\ MaxSources \in Nat /\ CacheMax \in Nat /\ Burst \in Nat
  BY DatagramsAssumption DEF Init
<1>2. LimiterOK
  <2>1. DOMAIN buckets = {} /\ buckets \in [{} -> Bucket]
    BY DEF Init
  <2>2. \A s \in IPs : exact[s].tokens = Burst /\ exact[s].last = 0 /\ exact[s] \in Bucket
    BY <1>1 DEF Init, Bucket
  <2>3. exact \in [IPs -> Bucket]
    BY <2>2 DEF Init
  <2>4. \A s \in IPs : Tokens(exact[s]) = Burst
    BY <1>1, <2>2, DatagramsAssumption DEF Tokens
  <2>5. lastPrune \in -PruneSpan..MaxTime /\ grams \in 0..MaxGrams
    BY DatagramsAssumption DEF Init
  <2> QED
    BY <1>1, <2>1, <2>2, <2>3, <2>4, <2>5, FS_EmptySet DEF LimiterOK, ForgettingIsInvisible
<1>3. DnsOK
  <2>1. zone \in [Remote -> Zones] /\ \A d \in Remote : Lookup(zone[d]) \in Answers
    BY DatagramsAssumption, LookupAnswers DEF Init, Remote
  <2>2. \A d \in Remote, a \in Answers : seen[d][a] = IF a = Lookup(zone[d]) THEN 0 ELSE Never
    BY DEF Init
  <2>3. seen \in [Remote -> [Answers -> Never..MaxTime]]
    BY <1>1 DEF Init, Never
  <2> QED
    BY <1>1, <2>1, <2>2, <2>3 DEF DnsOK, Never
<1>4. CacheOK
  <2>1. DOMAIN cache = {} /\ cache = [d \in {} |-> cache[d]]
    BY DEF Init
  <2> QED
    BY <1>1, <2>1, FS_EmptySet DEF CacheOK
<1>5. TasksOK /\ NoticeOK
  <2>1. Idle \in Task
    BY IdleOK DEF TaskOK
  <2>2. task = [p \in Procs |-> Idle] /\ published = NoNotice
    BY DEF Init
  <2> QED
    BY <2>1, <2>2, IdleOK DEF TasksOK, NoticeOK
<1> QED
  BY <1>1, <1>2, <1>3, <1>4, <1>5 DEF Inv

\* Nothing changes.
LEMMA StutterKeepsInv ==
  ASSUME Inv, UNCHANGED vars
  PROVE  Inv'
<1>1. UNCHANGED <<now, dnsVars, limiterVars, cache, task, published>>
  BY DEF vars
<1>2. now' = now /\ seen' = seen /\ zone' = zone /\ moves' = moves /\ task' = task
  BY <1>1 DEF dnsVars
<1>3. TasksOK' /\ DnsOK'
  BY <1>2 DEF Inv, TasksOK, TaskOK, Vouched, Seen, DnsOK, Lookup
<1> QED
  BY <1>1, <1>2, <1>3, LeftAlone DEF Inv

\* The invariant holds however workers, senders, DNS and the clock interleave.
THEOREM Invariance == Spec => []Inv
<1>1. Init => Inv
  BY InitInv
<1>2. ASSUME Inv, Next
      PROVE  Inv'
  <2>1. CASE Tick
    BY <1>2, <2>1, TickKeepsInv
  <2>2. CASE \E d \in Remote, z \in Zones : Move(d, z)
    BY <1>2, <2>2, MoveKeepsInv
  <2>3. CASE \E g \in Grams, src \in IPs : Serve(g, src)
    BY <1>2, <2>3, ServeKeepsInv
  <2>4. ASSUME NEW w \in Workers, WorkerStep(w)
        PROVE  Inv'
    <3>1. w \in Procs
      BY DEF Procs
    <3> QED
      BY <1>2, <2>4, <3>1, VerifyKeepsInv, QueryFailsKeepsInv, AnswerKeepsInv, FillKeepsInv,
         NotifyKeepsInv DEF WorkerStep
  <2>5. ASSUME NEW p \in Senders, SenderStep(p)
        PROVE  Inv'
    <3>1. p \in Procs
      BY DEF Procs
    <3> QED
      BY <1>2, <2>5, <3>1, ResolveKeepsInv, AnswerKeepsInv, FillKeepsInv DEF SenderStep
  <2> QED
    BY <1>2, <2>1, <2>2, <2>3, <2>4, <2>5 DEF Next
<1>3. Inv /\ [Next]_vars => Inv'
  BY <1>2, StutterKeepsInv
<1> QED
  BY <1>1, <1>3, PTL DEF Spec

\* The state of the listener is always well formed.
THEOREM TypeCorrect == Spec => []TypeOK
<1>1. Inv => TypeOK
  <2> SUFFICES ASSUME Inv
               PROVE  TypeOK
    OBVIOUS
  <2>1. task \in [Procs -> Task]
    BY DEF Inv, TasksOK, TaskOK
  <2>2. published \in {NoNotice} \cup [id : Msgs, from : Addrs, src : IPs]
    BY DEF Inv, NoticeOK
  <2> QED
    BY <2>1, <2>2 DEF Inv, LimiterOK, DnsOK, CacheOK, TypeOK
<1> QED
  BY <1>1, Invariance, PTL

\* sourceLimiter.prune forgets nothing that matters: a source's next datagram is allowed
\* exactly when it would be with a table that never forgets.
THEOREM PruneIsInvisible == Spec => []ForgettingIsInvisible
<1>1. Inv => ForgettingIsInvisible
  BY DEF Inv, LimiterOK
<1> QED
  BY <1>1, Invariance, PTL

\* The limiter and the address cache stay within their bounds, for any number of
\* concurrent lookups.
THEOREM TablesBounded == Spec => []TablesAreBounded
<1>1. Inv => TablesAreBounded
  BY DEF Inv, LimiterOK, CacheOK, TablesAreBounded
<1> QED
  BY <1>1, Invariance, PTL

\* ipCache.get never answers with what DNS said longer ago than the answer's lifetime.
THEOREM CacheStaysFresh == Spec => []CacheIsFresh
<1>1. Inv => CacheIsFresh
  <2> SUFFICES ASSUME Inv, NEW d \in Remote, Fresh(d)
               PROVE  /\ now - seen[d][cache[d].ips] < Lifetime(cache[d].ips)
                      /\ seen[d][cache[d].ips] # Never
    BY DEF CacheIsFresh
  <2>1. d \in DOMAIN cache /\ now < cache[d].expires /\ cache[d].ips \in Answers
    BY DEF Fresh, Inv, CacheOK
  <2>2. PICK i \in 0..MaxTime : /\ Seen(d, cache[d].ips, i)
                               /\ cache[d].expires = i + Lifetime(cache[d].ips)
    BY <2>1 DEF Inv, CacheOK
  <2>3. seen[d][cache[d].ips] \in Never..MaxTime /\ now \in 0..MaxTime
    BY <2>1 DEF Inv, DnsOK
  <2>4. Lifetime(cache[d].ips) \in Nat
    BY DatagramsAssumption DEF Lifetime
  <2> QED
    BY <2>1, <2>2, <2>3, <2>4, DatagramsAssumption DEF Seen, Never
<1> QED
  BY <1>1, Invariance, PTL

\* verifyAndPublish publishes a notice only for a remote participant and from an address
\* of that participant's domain.
THEOREM PublishedVouched == Spec => []PublishedIsVouchedFor
<1>1. Inv => PublishedIsVouchedFor
  BY DEF Inv, NoticeOK, PublishedIsVouchedFor, Vouched, Seen, Never, Remote
<1> QED
  BY <1>1, Invariance, PTL
============================================================================

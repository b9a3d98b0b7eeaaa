---------------------------- MODULE Datagrams -----------------------------
(***************************************************************************)
(* How a host receives indicators (serve and verifyAndPublish in           *)
(* cmd/fmsgd/indicators.go): one goroutine reads datagrams and applies the *)
(* limit per source address, a bounded set of workers verifies them, and a *)
(* cache of domain addresses, shared by the workers and by the goroutines  *)
(* that send, answers for the domain a datagram claims to come from.       *)
(***************************************************************************)
EXTENDS Integers, FiniteSets, Subjects

CONSTANTS
    Here,           \* the domain of this host
    IPs,            \* source addresses
    Grams,          \* datagrams [hash, index, form]; form "bad" does not parse
    Workers,        \* slots of recvSem
    Senders,        \* goroutines that look up addresses in order to send
    Zones,          \* what DNS may say of a domain: [ips : SUBSET IPs, signed : BOOLEAN]
    FirstZone,      \* [remote domains -> Zones]: DNS at first
    RequireDNSSEC,  \* FMSG_REQUIRE_DNSSEC
    Rate, Burst,    \* tokens per tick, and at most, of a source
    MaxSources,     \* indicatorRecvMaxSources
    PruneSpan,      \* time between prunes of the sources
    PosTTL, NegTTL, \* how long an answer, and a failure, is cached
    CacheMax,       \* indicatorDNSCacheMax
    MaxGrams,       \* bound: datagrams received
    MaxMoves,       \* bound: changes of DNS
    MaxTime         \* bound: the clock

ASSUME DatagramsAssumption ==
    /\ Here \in Domains
    /\ Rate \in Nat \ {0} /\ Burst \in Nat \ {0} /\ Burst % Rate = 0
    /\ MaxSources \in Nat \ {0} /\ PruneSpan \in Nat
    /\ PosTTL \in Nat /\ NegTTL \in Nat /\ CacheMax \in Nat \ {0}
    /\ MaxGrams \in Nat /\ MaxMoves \in Nat /\ MaxTime \in Nat
    /\ Zones \subseteq [ips : SUBSET IPs, signed : BOOLEAN]
    /\ FirstZone \in [Domains \ {Here} -> Zones]
    /\ Grams \subseteq [hash : Hashes, index : 0..MaxIndex, form : {"ok", "bad"}]
    /\ Workers \cap Senders = {}

VARIABLES
    now,        \* the clock
    zone,       \* [Remote -> Zones]: DNS, and moves, its changes so far
    moves,
    grams,      \* datagrams received so far
    buckets,    \* sourceLimiter.buckets: [sources -> [tokens, last]]
    lastPrune,  \* sourceLimiter.lastPrune
    cache,      \* ipCache.entries: [domains -> [ips, expires]]
    task,       \* [Workers \cup Senders -> Task]
    published   \* the last notice [id, from, src] put on the channel

(***************************************************************************)
(* History: the bucket of every source if none were ever forgotten, and    *)
(* when a lookup of a domain would last have had each answer.              *)
(***************************************************************************)
VARIABLES exact, seen

limiterVars == <<grams, buckets, lastPrune, exact>>
dnsVars     == <<zone, moves, seen>>
vars        == <<now, dnsVars, limiterVars, cache, task, published>>

Procs   == Workers \cup Senders
Remote  == Domains \ {Here}
Answers == {z.ips : z \in Zones} \cup {{}}
Bucket  == [tokens : 0..Burst, last : 0..MaxTime]
Never   == -1
NoNotice == [id |-> "none"]

\* What a goroutine is at.  The job of a worker is its datagram and where it came
\* from; a goroutine that sends has none.
Idle  == [pc |-> "idle"]
NoJob == [gram |-> "none"]
Jobs  == [gram : Grams, src : IPs]
Task  == {Idle}
    \cup [pc : {"verify", "notify"}, job : Jobs]
    \cup [pc : {"asking"}, job : Jobs \cup {NoJob}, domain : Remote, asked : 0..MaxTime]
    \cup [pc : {"answered"}, job : Jobs \cup {NoJob}, domain : Remote, asked : 0..MaxTime, ips : Answers]

TypeOK ==
    /\ now \in 0..MaxTime /\ moves \in 0..MaxMoves /\ grams \in 0..MaxGrams
    /\ zone \in [Remote -> Zones]
    /\ DOMAIN buckets \subseteq IPs /\ buckets \in [DOMAIN buckets -> Bucket]
    /\ lastPrune \in -PruneSpan..MaxTime
    /\ DOMAIN cache \subseteq Remote
    /\ cache \in [DOMAIN cache -> [ips : Answers, expires : 0..(MaxTime + PosTTL + NegTTL)]]
    /\ task \in [Procs -> Task]
    /\ published \in {NoNotice} \cup [id : Msgs, from : Addrs, src : IPs]
    /\ exact \in [IPs -> Bucket]
    /\ seen \in [Remote -> [Answers -> Never..MaxTime]]

\* lookupAuthorisedIPs: no addresses, or none that are vouched for, is a failure.
Lookup(z) == IF RequireDNSSEC /\ ~z.signed THEN {} ELSE z.ips

Init ==
    /\ now = 0 /\ moves = 0 /\ grams = 0
    /\ zone = FirstZone
    /\ buckets = [s \in {} |-> Idle] /\ lastPrune = -PruneSpan
    /\ cache = [d \in {} |-> Idle]
    /\ task = [p \in Procs |-> Idle]
    /\ published = NoNotice
    /\ exact = [s \in IPs |-> [tokens |-> Burst, last |-> 0]]
    /\ seen = [d \in Remote |-> [a \in Answers |-> IF a = Lookup(zone[d]) THEN 0 ELSE Never]]

Tick ==
    /\ now < MaxTime
    /\ now' = now + 1
    /\ seen' = [d \in Remote |-> [seen[d] EXCEPT ![Lookup(zone[d])] = now + 1]]
    /\ UNCHANGED <<zone, moves, limiterVars, cache, task, published>>

\* The addresses of a domain change, or DNS stops answering for it.
Move(d, z) ==
    /\ moves < MaxMoves /\ z # zone[d]
    /\ moves' = moves + 1
    /\ zone' = [zone EXCEPT ![d] = z]
    /\ seen' = [seen EXCEPT ![d][Lookup(z)] = now]
    /\ UNCHANGED <<now, limiterVars, cache, task, published>>

----------------------------------------------------------------------------
Tokens(b) == LET refilled == b.tokens + (now - b.last) * Rate
             IN  IF refilled < Burst THEN refilled ELSE Burst

\* A slip: a refused datagram costs a token as well.
ChargedAlways(b) == [tokens |-> Tokens(b) - 1, last |-> now]

\* tokenBucket.allow: refused datagrams do not put the refill off.
Charged(b) == [tokens |-> IF Tokens(b) < 1 THEN Tokens(b) ELSE Tokens(b) - 1, last |-> now]

\* A slip: a source is forgotten when one token has come back.
PrunedEarly == [s \in {x \in DOMAIN buckets : (now - buckets[x].last) * Rate < 1} |-> buckets[s]]

\* sourceLimiter.prune: sources whose bucket is full again are forgotten.
Pruned == [s \in {x \in DOMAIN buckets : now - buckets[x].last < Burst \div Rate} |-> buckets[s]]

PruneDue(src) ==
    /\ src \notin DOMAIN buckets
    /\ Cardinality(DOMAIN buckets) >= MaxSources \/ now - lastPrune >= PruneSpan

Table(src) == IF PruneDue(src) THEN Pruned ELSE buckets

Admits(src) ==
    src \in DOMAIN Table(src) \/ Cardinality(DOMAIN Table(src)) < MaxSources

BucketOf(src) ==
    IF src \in DOMAIN buckets THEN buckets[src] ELSE [tokens |-> Burst, last |-> now]

Allowed(src) == Admits(src) /\ Tokens(BucketOf(src)) >= 1

\* serve, for a datagram that is not too long: it is dropped if its source is over
\* its limit or all workers are busy.
Serve(g, src) ==
    /\ grams < MaxGrams
    /\ grams' = grams + 1
    /\ lastPrune' = IF PruneDue(src) THEN now ELSE lastPrune
    /\ buckets' = IF Admits(src)
                  THEN [s \in DOMAIN Table(src) \cup {src} |->
                            IF s = src THEN Charged(BucketOf(src)) ELSE Table(src)[s]]
                  ELSE Table(src)
    /\ exact' = IF Admits(src) THEN [exact EXCEPT ![src] = Charged(@)] ELSE exact
    /\ LET idle == {w \in Workers : task[w] = Idle}
       IN  IF Allowed(src) /\ idle # {}
           THEN \E w \in idle : task' = [task EXCEPT ![w] = 
                    [pc |-> "verify", job |-> [gram |-> g, src |-> src]]]
           ELSE UNCHANGED task
    /\ UNCHANGED <<now, dnsVars, cache, published>>
----------------------------------------------------------------------------
Lifetime(ips) == IF ips = {} THEN NegTTL ELSE PosTTL

Fresh(d) == d \in DOMAIN cache /\ now < cache[d].expires

\* The participant a datagram claims to come from, if it is about a subject known
\* here and its index is in range.
Parts(g)    == SubjectByHash(g.hash, Here)
Claims(g)   == g.form = "ok" /\ g.index + 1 \in DOMAIN Parts(g)
Claimant(g) == Parts(g)[g.index + 1]

\* The end of the source check: go on to publish, or drop the datagram.
Judged(job, ips) == IF job # NoJob /\ job.src \in ips THEN [pc |-> "notify", job |-> job] ELSE Idle

\* ipCache.get, up to the lookup.
Get(p, job, d) ==
    task' = [task EXCEPT ![p] =
        IF Fresh(d) THEN Judged(job, cache[d].ips)
        ELSE [pc |-> "asking", job |-> job, domain |-> d, asked |-> now]]

\* A slip: the domain asked for is that of the message, not of the participant.
VerifySender(w) ==
    /\ task[w].pc = "verify"
    /\ LET g == task[w].job.gram
       IN  IF Claims(g) /\ DomainOf[Claimant(g)] # Here
           THEN Get(w, task[w].job, DomainOf[From[g.hash[1]]])
           ELSE task' = [task EXCEPT ![w] = Idle]
    /\ UNCHANGED <<now, dnsVars, limiterVars, cache, published>>

\* verifyAndPublish up to the source check.
Verify(w) ==
    /\ task[w].pc = "verify"
    /\ LET g == task[w].job.gram
       IN  IF Claims(g) /\ DomainOf[Claimant(g)] # Here
           THEN Get(w, task[w].job, DomainOf[Claimant(g)])
           ELSE task' = [task EXCEPT ![w] = Idle]
    /\ UNCHANGED <<now, dnsVars, limiterVars, cache, published>>

\* A failed or timed out query: of the subject, or to publish.
QueryFails(w) ==
    /\ task[w].pc \in {"verify", "notify"}
    /\ task' = [task EXCEPT ![w] = Idle]
    /\ UNCHANGED <<now, dnsVars, limiterVars, cache, published>>

\* sendTo needs an address of domain d.
Resolve(p, d) ==
    /\ task[p] = Idle
    /\ Get(p, NoJob, d)
    /\ UNCHANGED <<now, dnsVars, limiterVars, cache, published>>

\* DNS answers, in its own time.
Answer(p) ==
    /\ task[p].pc = "asking"
    /\ LET t == task[p]
       IN  task' = [task EXCEPT ![p] = [pc |-> "answered", job |-> t.job, domain |-> t.domain,
                                        asked |-> t.asked, ips |-> Lookup(zone[t.domain])]]
    /\ UNCHANGED <<now, dnsVars, limiterVars, cache, published>>

\* What was not expired when the lookup began stays when the cache is full.
Swept(t) ==
    IF Cardinality(DOMAIN cache) < CacheMax THEN cache
    ELSE [d \in {e \in DOMAIN cache : t.asked < cache[e].expires} |-> cache[d]]

\* A slip: an answer lives from when it is stored.
EntryFromNow(t) == [ips |-> t.ips, expires |-> now + Lifetime(t.ips)]

\* An answer lives from when it was asked for, a failure more briefly.
Entry(t) == [ips |-> t.ips, expires |-> t.asked + Lifetime(t.ips)]

\* A slip: a full cache takes one more.
StoredAnyway(t) ==
    [d \in DOMAIN Swept(t) \cup {t.domain} |-> IF d = t.domain THEN Entry(t) ELSE Swept(t)[d]]

Stored(t) ==
    IF Cardinality(DOMAIN Swept(t)) < CacheMax
    THEN [d \in DOMAIN Swept(t) \cup {t.domain} |-> IF d = t.domain THEN Entry(t) ELSE Swept(t)[d]]
    ELSE Swept(t)

\* ipCache.get, from the lookup on, and the source check that called it.
Fill(p) ==
    /\ task[p].pc = "answered"
    /\ cache' = Stored(task[p])
    /\ task' = [task EXCEPT ![p] = Judged(task[p].job, task[p].ips)]
    /\ UNCHANGED <<now, dnsVars, limiterVars, published>>

Notify(w) ==
    /\ task[w].pc = "notify"
    /\ LET job == task[w].job
       IN  published' = [id |-> job.gram.hash[1], from |-> Claimant(job.gram), src |-> job.src]
    /\ task' = [task EXCEPT ![w] = Idle]
    /\ UNCHANGED <<now, dnsVars, limiterVars, cache>>

WorkerStep(w) == Verify(w) \/ QueryFails(w) \/ Answer(w) \/ Fill(w) \/ Notify(w)

SenderStep(p) == (\E d \in Remote : Resolve(p, d)) \/ Answer(p) \/ Fill(p)

Next ==
    \/ Tick
    \/ \E d \in Remote, z \in Zones : Move(d, z)
    \/ \E g \in Grams, src \in IPs : Serve(g, src)
    \/ \E w \in Workers : WorkerStep(w)
    \/ \E p \in Senders : SenderStep(p)

Spec == Init /\ [][Next]_vars

----------------------------------------------------------------------------
\* Forgetting sources is invisible: a source in the table has the bucket it would
\* have if none were ever forgotten, and that of any other would be full, so that
\* its new bucket is no gift (sourceLimiter.prune).
ForgettingIsInvisible ==
    \A s \in IPs : IF s \in DOMAIN buckets THEN buckets[s] = exact[s]
                                          ELSE Tokens(exact[s]) = Burst

\* Neither table outgrows its bound, though lookups that began when there was room
\* end when there is none (sourceLimiter.allow, ipCache.get).
TablesAreBounded ==
    /\ Cardinality(DOMAIN buckets) <= MaxSources
    /\ Cardinality(DOMAIN cache) <= CacheMax

\* An entry that is used is what DNS said less than its lifetime ago, however long
\* lookups take, overlap and overwrite each other's entries (ipCache.get).
CacheIsFresh ==
    \A d \in Remote : Fresh(d) => now - seen[d][cache[d].ips] < Lifetime(cache[d].ips)
                                   /\ seen[d][cache[d].ips] # Never

\* A notice is published only for a remote participant, and from an address that
\* was at some time one of that participant's own domain (verifyAndPublish).
PublishedIsVouchedFor ==
    published # NoNotice =>
        LET d == DomainOf[published.from]
        IN  d # Here /\ \E a \in Answers : published.src \in a /\ seen[d][a] # Never
============================================================================

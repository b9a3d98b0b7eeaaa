---------------------------- MODULE Indicators ----------------------------
(***************************************************************************)
(* How a host sends the indicators of its participants (handleNotice and   *)
(* below in cmd/fmsgd/indicators.go).  Two goroutines send: the listener,  *)
(* which takes notices from the database channel in order, and the flusher,*)
(* which sends what was held back.  Each decides what to send under s.mu   *)
(* and sends it afterwards, through a limit per receiving domain and an    *)
(* address lookup that may take its time.                                  *)
(*                                                                         *)
(* Times are kept as ages: what the code computes as now.Sub(t), up to the *)
(* span it is compared with.  A time never set is as old as that.          *)
(***************************************************************************)
EXTENDS Subjects

CONSTANTS
    Here,           \* the domain of this host
    Notices,        \* notices [id, from, emoji, ttl] that may be published
    EmojiOK,        \* the emoji of a notice that isIndicatorEmoji accepts, and ""
    TTLMax,         \* INDICATOR_TTL_MAX
    MinInterval,    \* INDICATOR_MIN_INTERVAL, in ticks
    HostRate,       \* INDICATOR_HOST_RATE, datagrams per window and domain
    Window,         \* the window of HostRate, in ticks
    Addresses,      \* [Domains -> the number of addresses of fmsg.<domain>]
    MaxNotices,     \* bound: notices published
    MaxFaults       \* bound: failed queries and lookups, lost notices

ASSUME IndicatorsAssumption ==
    /\ Here \in Domains
    /\ TTLMax \in Nat /\ MinInterval \in Nat \ {0} /\ Window \in Nat
    /\ HostRate \in Nat \ {0}
    /\ MaxNotices \in Nat /\ MaxFaults \in Nat
    /\ Addresses \in [Domains -> Nat \ {0}]
    /\ "" \in EmojiOK
    /\ \A n \in Notices : n.from \in Addrs /\ n.ttl \in Nat /\ n.id \in Msgs

VARIABLES
    log,        \* notices published so far; the channel is log[taken + 1..]
    taken,      \* how many of them the listener has received
    groups,     \* what is left of the notice in hand: [key, domains] to offer
    pending,    \* [Keys -> age, and change held] of s.pending; Forgotten if idle or absent
    out,        \* [Procs -> datagrams decided on and not yet sent]
    current,    \* [Procs -> the datagram past the limit, or NoItem]
    ring,       \* [Domains -> [times, next]] of domainLimit.keys
    rr,         \* [Domains -> s.rr, modulo the number of addresses]
    faults

(***************************************************************************)
(* History: for each key the newest change offered, the last one decided   *)
(* on, and the age of the last decision that was not a clear; for each     *)
(* domain the ages of the last HostRate + 1 datagrams allowed.             *)
(***************************************************************************)
VARIABLES offered, decided, since, recent

serviceVars == <<log, taken, groups, pending, out, current, ring, rr, faults>>
historyVars == <<offered, decided, since, recent>>
vars == <<serviceVars, historyVars>>

Procs == {"listener", "flusher"}

\* The datagrams that notices of a about m call for, and all their keys.
Targets == {[from |-> a, id |-> m, targets |-> SelectIndicatorTargets(a, m, Here)] :
                a \in Addrs, m \in Msgs}
KeyOf(t) == <<t.hash, t.index>>
Keys     == {KeyOf(t) : t \in UNION {x.targets : x \in Targets}}

NoItem == [num |-> 0]

\* An entry with nothing held and nothing sent for an interval is as good as none.
Forgotten == [age |-> MinInterval, held |-> 0, domains |-> {}]

Least(a, b) == IF a <= b THEN a ELSE b

\* The datagram made of a notice: out of range lifetimes are cut, and an empty
\* emoji and a lifetime of 0 both make it a clear.
Datagram(n) ==
    LET ttl == Least(n.ttl, TTLMax)
    IN  IF n.emoji = "" \/ ttl = 0 THEN [data |-> "", ttl |-> 0]
                                   ELSE [data |-> n.emoji, ttl |-> ttl]

IsClear(num) == LET d == Datagram(log[num]) IN d.data = "" \/ d.ttl = 0

TypeOK ==
    /\ log \in Seq(Notices)
    /\ taken \in 0..Len(log)
    /\ groups \subseteq [key : Keys, num : 1..Len(log), domains : SUBSET Domains]
    /\ pending \in [Keys -> [age : 0..MinInterval, held : 0..Len(log), domains : SUBSET Domains]]
    /\ out \in [Procs -> SUBSET [key : Keys, num : 1..Len(log), domain : Domains]]
    /\ current \in [Procs -> {NoItem} \cup [key : Keys, num : 1..Len(log), domain : Domains]]
    /\ \A d \in Domains : /\ ring[d].times \in Seq(0..Window)
                          /\ Len(ring[d].times) <= HostRate
                          /\ ring[d].next \in 0..(HostRate - 1)
    /\ rr \in [Domains -> Nat]
    /\ faults \in 0..MaxFaults

Init ==
    /\ log = <<>> /\ taken = 0 /\ groups = {}
    /\ pending = [k \in Keys |-> Forgotten]
    /\ out = [p \in Procs |-> {}]
    /\ current = [p \in Procs |-> NoItem]
    /\ ring = [d \in Domains |-> [times |-> <<>>, next |-> 0]]
    /\ rr = [d \in Domains |-> 0]
    /\ faults = 0
    /\ offered = [k \in Keys |-> 0]
    /\ decided = [k \in Keys |-> 0]
    /\ since = [k \in Keys |-> MinInterval]
    /\ recent = [d \in Domains |-> <<>>]

\* The client API publishes a notice, or this host one that it received.
Publish(n) ==
    /\ Len(log) < MaxNotices
    /\ log' = Append(log, n)
    /\ UNCHANGED <<taken, groups, pending, out, current, ring, rr, faults, historyVars>>

\* The listener's connection is lost, and what is published meanwhile with it.
Reconnect ==
    /\ faults < MaxFaults
    /\ faults' = faults + 1
    /\ taken' = Len(log)
    /\ UNCHANGED <<log, groups, pending, out, current, ring, rr, historyVars>>

\* Receiving domains by subject and index.
GroupsOf(num) ==
    UNION {{[key |-> k, num |-> num, domains |-> {t.domain : t \in {u \in x.targets : KeyOf(u) = k}}] :
                k \in {KeyOf(t) : t \in x.targets}} :
           x \in {y \in Targets : y.from = log[num].from /\ y.id = log[num].id}}

Idle(p) == out[p] = {} /\ current[p] = NoItem

\* handleNotice up to the loop over the groups.  A query may fail.
HandleNotice ==
    LET n == log[taken + 1]
    IN  /\ taken < Len(log) /\ groups = {} /\ Idle("listener")
        /\ taken' = taken + 1
        /\ \/ /\ groups' = IF DomainOf[n.from] = Here /\ n.emoji \in EmojiOK
                           THEN GroupsOf(taken + 1) ELSE {}
              /\ UNCHANGED faults
           \/ /\ DomainOf[n.from] = Here /\ faults < MaxFaults
              /\ faults' = faults + 1
              /\ groups' = {}
        /\ UNCHANGED <<log, pending, out, current, ring, rr, historyVars>>

Decide(k, num) ==
    /\ decided' = [decided EXCEPT ![k] = num]
    /\ since' = IF IsClear(num) THEN since ELSE [since EXCEPT ![k] = 0]

\* A slip: a clear is sent at once and leaves the change that is held.
OfferClearOnly(g) ==
    /\ Idle("listener") /\ g \in groups
    /\ groups' = groups \ {g}
    /\ offered' = [offered EXCEPT ![g.key] = g.num]
    /\ LET p == pending[g.key]
           sent == [out EXCEPT !["listener"] = {[key |-> g.key, num |-> g.num, domain |-> d] : d \in g.domains}]
       IN  IF IsClear(g.num)
           THEN /\ out' = sent /\ Decide(g.key, g.num)
                /\ UNCHANGED pending
           ELSE IF p.age < MinInterval
           THEN /\ pending' = [pending EXCEPT ![g.key].held = g.num, ![g.key].domains = g.domains]
                /\ UNCHANGED <<out, decided, since>>
           ELSE /\ pending' = [pending EXCEPT ![g.key] = [age |-> 0, held |-> 0, domains |-> {}]]
                /\ out' = sent /\ Decide(g.key, g.num)
    /\ UNCHANGED <<log, taken, current, ring, rr, faults, recent>>

SendAll(p, k, num, domains) ==
    out' = [out EXCEPT ![p] = {[key |-> k, num |-> num, domain |-> d] : d \in domains}]

\* offer: a clear goes out at once and drops what is held; another change goes out
\* if the interval has passed, and otherwise replaces what is held.
Offer(g) ==
    LET k == g.key
        p == pending[k]
    IN  /\ Idle("listener") /\ g \in groups
        /\ groups' = groups \ {g}
        /\ offered' = [offered EXCEPT ![k] = g.num]
        /\ \/ /\ IsClear(g.num)
              /\ pending' = [pending EXCEPT ![k] = [age |-> p.age, held |-> 0, domains |-> {}]]
              /\ SendAll("listener", k, g.num, g.domains)
              /\ Decide(k, g.num)
           \/ /\ ~IsClear(g.num) /\ p.age < MinInterval
              /\ pending' = [pending EXCEPT ![k] = [age |-> p.age, held |-> g.num, domains |-> g.domains]]
              /\ UNCHANGED <<out, decided, since>>
           \/ /\ ~IsClear(g.num) /\ p.age >= MinInterval
              /\ pending' = [pending EXCEPT ![k] = [age |-> 0, held |-> 0, domains |-> {}]]
              /\ SendAll("listener", k, g.num, g.domains)
              /\ Decide(k, g.num)
        /\ UNCHANGED <<log, taken, current, ring, rr, faults, recent>>

----------------------------------------------------------------------------
\* The age of the newest datagram in a ring, whichever slot it is in.
Newest(r) == r.times[((r.next + Len(r.times) - 1) % Len(r.times)) + 1]

\* A domain without a datagram in the window is forgotten (windowLimiter.prune).
Pruned(r) ==
    IF r.times # <<>> /\ Newest(r) >= Window THEN [times |-> <<>>, next |-> 0] ELSE r

\* A slip: a key with nothing held is forgotten at once.
FlushedIdle(p) ==
    CASE p.held # 0 /\ p.age >= MinInterval -> [age |-> 0, held |-> 0, domains |-> {}]
      [] p.held = 0 -> Forgotten
      [] OTHER -> p

Flushed(p) ==
    CASE p.held # 0 /\ p.age >= MinInterval -> [age |-> 0, held |-> 0, domains |-> {}]
      [] p.held = 0 /\ p.age >= MinInterval -> Forgotten
      [] OTHER -> p

\* flush: every change whose interval has passed is decided on, keys and domains
\* that are idle are forgotten.
Flush ==
    LET due == {k \in Keys : pending[k].held # 0 /\ pending[k].age >= MinInterval}
    IN  /\ Idle("flusher")
        /\ out' = [out EXCEPT !["flusher"] =
               UNION {{[key |-> k, num |-> pending[k].held, domain |-> d] : d \in pending[k].domains} : k \in due}]
        /\ pending' = [k \in Keys |-> Flushed(pending[k])]
        /\ decided' = [k \in Keys |-> IF k \in due THEN pending[k].held ELSE decided[k]]
        /\ since' = [k \in Keys |-> IF k \in due THEN 0 ELSE since[k]]
        /\ ring' = [d \in Domains |-> Pruned(ring[d])]
        /\ UNCHANGED <<log, taken, groups, current, rr, faults, offered, recent>>

----------------------------------------------------------------------------
\* A slip: one datagram too many is remembered.
Overfull(r) == Len(r.times) > HostRate

Full(r) == Len(r.times) = HostRate

\* A slip: the window is a tick short.
RefusedShort(r) == Full(r) /\ r.times[r.next + 1] + 1 < Window

Refused(r) == Full(r) /\ r.times[r.next + 1] < Window

Recorded(r) ==
    IF ~Full(r) THEN [r EXCEPT !.times = Append(@, 0)]
    ELSE [times |-> [r.times EXCEPT ![r.next + 1] = 0], next |-> (r.next + 1) % HostRate]

\* The first half of sendTo: domainLimit.allow.
Allow(p, item) ==
    LET d == item.domain
    IN  /\ current[p] = NoItem /\ item \in out[p]
        /\ out' = [out EXCEPT ![p] = @ \ {item}]
        /\ IF Refused(ring[d])
           THEN UNCHANGED <<current, ring, recent>>
           ELSE /\ ring' = [ring EXCEPT ![d] = Recorded(@)]
                /\ recent' = [recent EXCEPT ![d] =
                       IF Len(@) = HostRate + 1 THEN Append(Tail(@), 0) ELSE Append(@, 0)]
                /\ current' = [current EXCEPT ![p] = item]
        /\ UNCHANGED <<log, taken, groups, pending, rr, faults, offered, decided, since>>

\* The second half: the lookup, the alternation of addresses, the datagram.
Transmit(p) ==
    LET item == current[p]
    IN  /\ item # NoItem
        /\ current' = [current EXCEPT ![p] = NoItem]
        /\ \/ /\ rr' = [rr EXCEPT ![item.domain] = (@ + 1) % Addresses[item.domain]]
              /\ UNCHANGED faults
           \/ /\ faults < MaxFaults
              /\ faults' = faults + 1
              /\ UNCHANGED rr
        /\ UNCHANGED <<log, taken, groups, pending, out, ring, offered, decided, since, recent>>

Older(a, span) == Least(a + 1, span)

Tick ==
    /\ pending' = [k \in Keys |-> [pending[k] EXCEPT !.age = Older(@, MinInterval)]]
    /\ since' = [k \in Keys |-> Older(since[k], MinInterval)]
    /\ ring' = [d \in Domains |-> [ring[d] EXCEPT !.times =
                    [i \in DOMAIN @ |-> Older(@[i], Window)]]]
    /\ recent' = [d \in Domains |-> [i \in DOMAIN recent[d] |-> Older(recent[d][i], Window)]]
    /\ UNCHANGED <<log, taken, groups, out, current, rr, faults, offered, decided>>

Send(p) == Transmit(p) \/ \E item \in out[p] : Allow(p, item)

Listen == HandleNotice \/ (\E g \in groups : Offer(g)) \/ Send("listener")

\* A slip: the ticker is never started.
NoTicker == Send("flusher")

RunFlusher == Flush \/ Send("flusher")

Next ==
    \/ \E n \in Notices : Publish(n)
    \/ Reconnect
    \/ Listen
    \/ RunFlusher
    \/ Tick

Spec == Init /\ [][Next]_vars

(***************************************************************************)
(* Both goroutines keep running (listen, runFlusher): queries and lookups  *)
(* have deadlines.  Time passes.                                           *)
(***************************************************************************)
FairSpec == Spec /\ WF_vars(Listen) /\ WF_vars(RunFlusher) /\ WF_vars(Tick)

----------------------------------------------------------------------------
\* Every datagram about to be sent is about a subject its receiving host holds, and
\* the index names there the local participant whose notice it was, after any
\* holding back: the two hosts number participants alike
\* (selectIndicatorTargets, subjectByHash).
Attributed ==
    \A p \in Procs : \A item \in out[p] \cup ({current[p]} \ {NoItem}) :
        LET parts == SubjectByHash(item.key[1], item.domain)
            from  == log[item.num].from
        IN  /\ item.key[2] + 1 \in DOMAIN parts
            /\ parts[item.key[2] + 1] = from
            /\ DomainOf[from] = Here

\* Two changes of a participant's state that are not clears are decided on at least
\* the interval apart, whichever goroutine decides, though idle keys are forgotten
\* and clears come in between (offer, flush).
IntervalKept ==
    [][\A k \in Keys : decided'[k] # decided[k] /\ ~IsClear(decided'[k])
                            => since[k] >= MinInterval]_vars

\* The newest change offered is decided on or held, and nothing older is held
\* once it is decided on: coalescing never loses the last state and a clear
\* supersedes what it clears (offer, flush).
LatestIsKept ==
    \A k \in Keys :
        \/ pending[k].held = 0 /\ decided[k] = offered[k]
        \/ pending[k].held = offered[k] /\ decided[k] < offered[k]

\* In no window are more than HostRate datagrams let through to a domain, though
\* domains are forgotten and both goroutines send (windowLimiter).
SendRate ==
    \A d \in Domains : Len(recent[d]) > HostRate => recent[d][1] >= Window

\* Whatever is held back is flushed in the end: with LatestIsKept, the last state
\* of every participant is decided on (runFlusher).
HeldIsFlushed ==
    (\E k \in Keys : pending[k].held # 0) ~> (\A k \in Keys : pending[k].held = 0)
============================================================================

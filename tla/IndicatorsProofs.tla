------------------------ MODULE IndicatorsProofs --------------------------
(***************************************************************************)
(* Proofs about the sending of indicators, for any messages, participants, *)
(* domains, notices, intervals and rates.                                  *)
(***************************************************************************)
EXTENDS Indicators, WellFoundedInduction, TLAPS

(***************************************************************************)
(* The inductive invariant, by part of the state.                          *)
(***************************************************************************)
ChannelOK ==
    /\ log \in Seq(Notices) /\ taken \in 0..Len(log) /\ faults \in 0..MaxFaults
    /\ rr \in [Domains -> Nat]

\* A datagram about key k for domain d, made of notice num, names there the one whose
\* notice it was.
Named(k, num, d) ==
    LET parts == SubjectByHash(k[1], d)
        from  == log[num].from
    IN  /\ k[2] + 1 \in DOMAIN parts
        /\ parts[k[2] + 1] = from
        /\ DomainOf[from] = Here

Item == [key : Keys, num : 1..Len(log), domain : Domains]

\* The groups in hand are newer than all that was offered for their keys, and each
\* has a key of its own.
GroupsOK ==
    /\ groups \subseteq [key : Keys, num : 1..Len(log), domains : SUBSET Domains]
    /\ \A g \in groups : /\ offered[g.key] < g.num /\ g.num <= taken
                         /\ \A d \in g.domains : Named(g.key, g.num, d)
    /\ \A g, h \in groups : g.key = h.key => g = h

\* The age in the table is that of the last change decided on, forgotten or not.
PendingOK ==
    /\ pending \in [Keys -> [age : 0..MinInterval, held : 0..Len(log), domains : SUBSET Domains]]
    /\ offered \in [Keys -> 0..Len(log)] /\ decided \in [Keys -> 0..Len(log)]
    /\ since \in [Keys -> 0..MinInterval]
    /\ \A k \in Keys : /\ since[k] = pending[k].age
                       /\ offered[k] <= taken
                       /\ pending[k].held # 0 =>
                              \A d \in pending[k].domains : Named(k, pending[k].held, d)
    /\ LatestIsKept

OutOK ==
    /\ out \in [Procs -> SUBSET Item]
    /\ current \in [Procs -> {NoItem} \cup Item]
    /\ \A p \in Procs : \A i \in out[p] : Named(i.key, i.num, i.domain)
    /\ \A p \in Procs : current[p] # NoItem =>
           Named(current[p].key, current[p].num, current[p].domain)

\* The i-th oldest slot of a ring.
Slot(r, i) ==
    IF r.next + i <= Len(r.times) THEN r.next + i ELSE (r.next + i) - Len(r.times)

\* Ring r of a domain holds the newest of the ages q, in a circle once it is full; those
\* it does not hold are out of the window.
Mirrors(r, q) ==
    /\ Len(r.times) <= Len(q)
    /\ \A i \in 1..Len(r.times) : r.times[Slot(r, i)] = q[(Len(q) - Len(r.times)) + i]
    /\ \A i \in 1..(Len(q) - Len(r.times)) : q[i] >= Window

\* The limit of a domain.
RateOf(r, q) ==
    /\ r \in [times : Seq(0..Window), next : 0..(HostRate - 1)]
    /\ Len(r.times) <= HostRate
    /\ Len(r.times) < HostRate => r.next = 0
    /\ q \in Seq(0..Window) /\ Len(q) <= HostRate + 1
    /\ \A i, j \in 1..Len(q) : i <= j => q[i] >= q[j]
    /\ Mirrors(r, q)

RateOK ==
    /\ DOMAIN ring = Domains /\ DOMAIN recent = Domains
    /\ \A d \in Domains : RateOf(ring[d], recent[d])

Inv == ChannelOK /\ GroupsOK /\ PendingOK /\ OutOK /\ RateOK

----------------------------------------------------------------------------
(***************************************************************************)
(* Who a datagram is about.                                                *)
(***************************************************************************)
\* A set of numbers has a least element.
LEMMA LeastNumber ==
  ASSUME NEW S, S \subseteq Nat, S # {}
  PROVE  \E m \in S : \A n \in S : m <= n
<1> DEFINE R == OpToRel(<, Nat)
<1>1. \A m, n \in Nat : <<n, m>> \in R <=> n < m
  BY DEF OpToRel
<1>2. IsWellFoundedOn(R, Nat)
  BY NatLessThanWellFounded
<1> HIDE DEF R
<1>3. PICK m \in S : \A n \in S : ~(<<n, m>> \in R)
  BY <1>2, WFMin
<1>4. \A n \in S : ~(n < m)
  BY <1>1, <1>3
<1> QED
  BY <1>4

\* The header of a subject.
LEMMA ParticipantsOfSubject ==
  ASSUME NEW m \in Msgs, NEW b \in 0..Len(AddTo[m])
  PROVE  /\ Participants(<<m, b>>) \in Seq(Addrs)
         /\ b = 0 => Participants(<<m, b>>) = <<From[m]>> \o To[m]
         /\ <<From[m]>> \o To[m] \in Seq(Addrs)
         /\ <<m, b>> \in Hashes
<1>1. From[m] \in Addrs /\ To[m] \in Seq(Addrs)
      /\ AddTo[m] \in Seq([by : Addrs, to : Seq(Addrs)])
  BY SubjectsAssumption
<1>2. <<From[m]>> \o To[m] \in Seq(Addrs)
  BY <1>1
<1>3. \A q \in Seq(Addrs) : q \o <<>> = q
  OBVIOUS
<1>4. CASE b = 0
  BY <1>2, <1>3, <1>4 DEF Participants, Hashes
<1>5. CASE b # 0
  <2> DEFINE r == AddTo[m][b]
  <2>1. b \in 1..Len(AddTo[m])
    BY <1>1, <1>5
  <2>2. \A T : \A q \in Seq(T) : \A i \in 1..Len(q) : q[i] \in T
    OBVIOUS
  <2>3. r \in [by : Addrs, to : Seq(Addrs)]
    BY <1>1, <2>1, <2>2
  <2>4. r.by \in Addrs /\ r.to \in Seq(Addrs)
    BY <2>3
  <2>5. <<r.by>> \o r.to \in Seq(Addrs)
    BY <2>4
  <2>6. Participants(<<m, b>>) = (<<From[m]>> \o To[m]) \o (<<r.by>> \o r.to)
    BY <1>5 DEF Participants
  <2>7. <<m, b>> \in Hashes
    BY DEF Hashes
  <2>8. \A q, u \in Seq(Addrs) : q \o u \in Seq(Addrs)
    OBVIOUS
  <2> HIDE DEF r
  <2>9. Participants(<<m, b>>) \in Seq(Addrs)
    BY <1>2, <2>5, <2>6, <2>8, Zenon
  <2> QED
    BY <1>2, <1>5, <2>7, <2>9
<1> QED
  BY <1>4, <1>5

\* A host that knows a subject with participants of another domain has it in common with
\* the host of that domain, and both number its participants alike.
LEMMA NumberedAlike ==
  ASSUME NEW m \in Msgs, NEW b \in 0..Len(AddTo[m]), NEW here, NEW d,
         HasDomain(SubjectByHash(<<m, b>>, here), d)
  PROVE  /\ SubjectByHash(<<m, b>>, here) = SubjectByHash(<<m, b>>, d)
         /\ SubjectByHash(<<m, b>>, here) \in Seq(Addrs)
<1> DEFINE s == <<m, b>>
<1>1. /\ Participants(s) \in Seq(Addrs) /\ s \in Hashes
      /\ b = 0 => Participants(s) = <<From[m]>> \o To[m]
      /\ s[1] = m /\ s[2] = b
  BY ParticipantsOfSubject
<1>2. ~HasDomain(<<>>, d)
  BY DEF HasDomain
<1>3. SubjectByHash(s, here) = Participants(s)
  <2>1. CASE s \in Held(here)
    BY <2>1 DEF SubjectByHash
  <2>2. CASE s \notin Held(here) /\ b = 0
    <3>1. SubjectByHash(s, here) = OriginalFromBatch(m, here)
      BY <1>1, <2>2 DEF SubjectByHash
    <3>2. OriginalFromBatch(m, here) # <<>>
      BY <1>2, <3>1
    <3> QED
      BY <1>1, <2>2, <3>1, <3>2 DEF OriginalFromBatch
  <2>3. CASE s \notin Held(here) /\ b # 0
    <3>1. SubjectByHash(s, here) = <<>>
      BY <1>1, <2>3 DEF SubjectByHash
    <3> QED
      BY <1>2, <3>1
  <2> QED
    BY <2>1, <2>2, <2>3
<1>4. s \in Held(d)
  BY <1>1, <1>3 DEF Held
<1>5. SubjectByHash(s, d) = Participants(s)
  BY <1>4 DEF SubjectByHash
<1> QED
  BY <1>1, <1>3, <1>5

\* participantIndex finds an address that is there.
LEMMA IndexNames ==
  ASSUME NEW parts \in Seq(Addrs), NEW a, Names(parts, a)
  PROVE  /\ ParticipantIndex(parts, a) \in Nat
         /\ ParticipantIndex(parts, a) + 1 \in DOMAIN parts
         /\ parts[ParticipantIndex(parts, a) + 1] = a
<1> DEFINE S == {i \in DOMAIN parts : parts[i] = a}
           Is(i) == i \in DOMAIN parts /\ parts[i] = a /\ \A j \in 1..(i - 1) : parts[j] # a
           c == CHOOSE i \in DOMAIN parts : parts[i] = a /\ \A j \in 1..(i - 1) : parts[j] # a
<1>1. DOMAIN parts = 1..Len(parts) /\ Len(parts) \in Nat
  OBVIOUS
<1>2. S \subseteq Nat /\ S # {}
  BY <1>1 DEF Names
<1>3. PICK i \in S : \A j \in S : i <= j
  BY <1>2, LeastNumber
<1>4. \A j \in 1..(i - 1) : parts[j] # a
  BY <1>1, <1>3
<1>5. Is(c)
  BY <1>3, <1>4
<1>6. ParticipantIndex(parts, a) = c - 1
  BY DEF ParticipantIndex
<1> HIDE DEF c
<1>7. c \in 1..Len(parts) /\ parts[c] = a
  BY <1>1, <1>5
<1>8. (c - 1) + 1 = c /\ c - 1 \in Nat
  BY <1>1, <1>7
<1> QED
  BY <1>1, <1>6, <1>7, <1>8

\* selectIndicatorTargets picks subjects under which the receiving host finds the
\* participant a at the index sent.
LEMMA TargetNames ==
  ASSUME NEW a, NEW m \in Msgs, NEW here, NEW t \in SelectIndicatorTargets(a, m, here)
  PROVE  /\ t.domain \in Domains
         /\ t.index + 1 \in DOMAIN SubjectByHash(t.hash, t.domain)
         /\ SubjectByHash(t.hash, t.domain)[t.index + 1] = a
<1>1. PICK d \in Domains \ {here} : Suitable(a, m, here, d) # {} /\ t = Target(a, m, here, d)
  BY DEF SelectIndicatorTargets
<1> DEFINE S == Suitable(a, m, here, d)
           b == CHOOSE x \in S : \A y \in S : x <= y
<1>2. S \subseteq Nat
  BY DEF Suitable
<1>3. b \in S
  BY <1>1, <1>2, LeastNumber
<1>4. t = [domain |-> d, hash |-> <<m, b>>, index |-> ParticipantIndex(SubjectByHash(<<m, b>>, here), a)]
  BY <1>1 DEF Target
<1> HIDE DEF b
<1>5. /\ b \in 0..Len(AddTo[m]) /\ HasDomain(SubjectByHash(<<m, b>>, here), d)
      /\ Names(SubjectByHash(<<m, b>>, here), a)
  BY <1>3 DEF Suitable
<1>6. /\ SubjectByHash(<<m, b>>, here) = SubjectByHash(<<m, b>>, d)
      /\ SubjectByHash(<<m, b>>, here) \in Seq(Addrs)
  BY <1>5, NumberedAlike
<1>7. t.domain = d /\ t.hash = <<m, b>> /\ t.index = ParticipantIndex(SubjectByHash(<<m, b>>, here), a)
  BY <1>4
<1> QED
  BY <1>5, <1>6, <1>7, IndexNames

----------------------------------------------------------------------------
(***************************************************************************)
(* The limit of a domain.                                                  *)
(***************************************************************************)
\* The elements of a sequence, of one that grew and of its tail.
LEMMA ElementOfSeq ==
  ASSUME NEW S, NEW q \in Seq(S)
  PROVE  Len(q) \in Nat /\ \A i \in 1..Len(q) : q[i] \in S
OBVIOUS

LEMMA AppendedSeq ==
  ASSUME NEW S, NEW q \in Seq(S), NEW x \in S
  PROVE  /\ Append(q, x) \in Seq(S) /\ Len(Append(q, x)) = Len(q) + 1
         /\ Append(q, x)[Len(q) + 1] = x
         /\ \A i \in 1..Len(q) : Append(q, x)[i] = q[i]
OBVIOUS

LEMMA TailOfSeq ==
  ASSUME NEW S, NEW q \in Seq(S), Len(q) # 0
  PROVE  /\ Tail(q) \in Seq(S) /\ Len(Tail(q)) = Len(q) - 1
         /\ \A i \in 1..(Len(q) - 1) : Tail(q)[i] = q[i + 1]
<1>1. q # <<>>
  OBVIOUS
<1> QED
  BY <1>1

\* Going around a circle of h slots.
LEMMA Around ==
  ASSUME NEW h \in Nat \ {0}, NEW o \in 1..h
  PROVE  o % h = IF o = h THEN 0 ELSE o
<1>1. CASE o = h
  BY <1>1
<1>2. CASE o # h
  BY <1>2
<1> QED
  BY <1>1, <1>2

\* The lengths and slots of a ring and of the ages it mirrors.
LEMMA RateTypes ==
  ASSUME NEW r, NEW q, RateOf(r, q)
  PROVE  /\ HostRate \in Nat \ {0} /\ Window \in Nat
         /\ r.times \in Seq(0..Window) /\ r.next \in 0..(HostRate - 1)
         /\ DOMAIN r = {"times", "next"}
         /\ Len(r.times) \in 0..HostRate /\ Len(r.times) <= Len(q)
         /\ Len(q) \in 0..(HostRate + 1)
         /\ \A i \in 1..Len(q) : q[i] \in 0..Window
         /\ \A i \in 1..Len(r.times) : Slot(r, i) \in 1..Len(r.times) /\ r.times[i] \in 0..Window
<1>1. HostRate \in Nat \ {0} /\ Window \in Nat
  BY IndicatorsAssumption
<1>2. /\ r.times \in Seq(0..Window) /\ r.next \in 0..(HostRate - 1) /\ q \in Seq(0..Window)
      /\ DOMAIN r = {"times", "next"}
  BY DEF RateOf
<1>3. Len(r.times) \in 0..HostRate /\ Len(r.times) <= Len(q) /\ Len(q) \in 0..(HostRate + 1)
  BY <1>1, <1>2 DEF RateOf, Mirrors
<1>4. \A i \in 1..Len(r.times) : Slot(r, i) \in 1..Len(r.times)
  <2> DEFINE L == Len(r.times)
             e == r.next
             h == HostRate
  <2>1. L \in 0..h /\ e \in 0..(h - 1) /\ h \in Nat \ {0} /\ (L < h => e = 0)
    BY <1>1, <1>2, <1>3 DEF RateOf
  <2>2. \A i : Slot(r, i) = IF e + i <= L THEN e + i ELSE (e + i) - L
    BY DEF Slot
  <2> HIDE DEF L, e, h
  <2>3. \A i \in 1..L : (IF e + i <= L THEN e + i ELSE (e + i) - L) \in 1..L
    BY <2>1
  <2> QED
    BY <2>2, <2>3 DEF L
<1>5. /\ \A i \in 1..Len(q) : q[i] \in 0..Window
      /\ \A i \in 1..Len(r.times) : r.times[i] \in 0..Window
  BY <1>2, ElementOfSeq
<1> QED
  BY <1>1, <1>2, <1>3, <1>4, <1>5

\* No more than HostRate datagrams of a domain are in the window.
LEMMA RateIsKept ==
  ASSUME NEW r, NEW q, RateOf(r, q), Len(q) > HostRate
  PROVE  q[1] >= Window
<1>1. Len(r.times) \in 0..HostRate /\ Len(q) \in Nat /\ HostRate \in Nat
  BY RateTypes
<1>2. 1 \in 1..(Len(q) - Len(r.times))
  BY <1>1
<1> QED
  BY <1>2 DEF RateOf, Mirrors

\* domainLimit.allow records a datagram over the oldest one, which it does only when that
\* has left the window.
LEMMA RecordedKeepsRate ==
  ASSUME NEW r, NEW q, RateOf(r, q), ~Refused(r)
  PROVE  RateOf(Recorded(r), IF Len(q) = HostRate + 1 THEN Append(Tail(q), 0) ELSE Append(q, 0))
<1> DEFINE H == HostRate
           L == Len(r.times)
           n == Len(q)
           cut == IF n = H + 1 THEN 1 ELSE 0
           q2 == IF n = H + 1 THEN Append(Tail(q), 0) ELSE Append(q, 0)
           n2 == (n + 1) - cut
           r2 == Recorded(r)
<1>1. /\ H \in Nat \ {0} /\ Window \in Nat
      /\ r.times \in Seq(0..Window) /\ r.next \in 0..(H - 1) /\ DOMAIN r = {"times", "next"}
      /\ L \in 0..H /\ L <= n /\ n \in 0..(H + 1)
      /\ \A i \in 1..n : q[i] \in 0..Window
      /\ \A i \in 1..L : Slot(r, i) \in 1..L /\ r.times[i] \in 0..Window
  BY RateTypes
<1>2. /\ \A i, j \in 1..n : i <= j => q[i] >= q[j]
      /\ \A i \in 1..L : r.times[Slot(r, i)] = q[(n - L) + i]
      /\ \A i \in 1..(n - L) : q[i] >= Window
      /\ q \in Seq(0..Window) /\ (L < H => r.next = 0)
  BY DEF RateOf, Mirrors
<1>3. /\ q2 \in Seq(0..Window) /\ Len(q2) = n2 /\ q2[n2] = 0
      /\ \A i \in 1..(n2 - 1) : q2[i] = q[i + cut]
  <2>1. CASE n = H + 1
    <3> DEFINE u == Tail(q)
    <3>1. u \in Seq(0..Window) /\ Len(u) = n - 1 /\ \A i \in 1..(n - 1) : u[i] = q[i + 1]
      <4>1. Len(q) # 0
        BY <1>1, <2>1
      <4> QED
        BY <1>2, <4>1, TailOfSeq
    <3>2. 0 \in 0..Window /\ (n - 1) + 1 = n /\ n2 = n /\ cut = 1
      BY <1>1, <2>1
    <3> HIDE DEF u
    <3>3. /\ Append(u, 0) \in Seq(0..Window) /\ Len(Append(u, 0)) = n /\ Append(u, 0)[n] = 0
          /\ \A i \in 1..(n - 1) : Append(u, 0)[i] = u[i]
      BY <3>1, <3>2, AppendedSeq
    <3>4. q2 = Append(u, 0)
      BY <2>1 DEF u
    <3> HIDE DEF q2, n2, cut
    <3> QED
      BY <3>1, <3>2, <3>3, <3>4
  <2>2. CASE n # H + 1
    <3>1. 0 \in 0..Window /\ n2 = n + 1 /\ cut = 0 /\ n2 - 1 = n
      BY <1>1, <2>2
    <3>2. q2 = Append(q, 0)
      BY <2>2
    <3>3. \A i \in 1..n : i + 0 = i
      BY <1>1
    <3> HIDE DEF q2, n2, cut
    <3> QED
      BY <1>2, <3>1, <3>2, <3>3, AppendedSeq
  <2> QED
    BY <2>1, <2>2
<1>4. cut \in {0, 1} /\ n2 \in 1..(H + 1) /\ n2 = (n + 1) - cut /\ (cut = 1 => n = H + 1)
  BY <1>1
<1> HIDE DEF q2, n2, cut, H, L, n
<1>5. \A i, j \in 1..n2 : i <= j => q2[i] >= q2[j]
  <2> SUFFICES ASSUME NEW i \in 1..n2, NEW j \in 1..n2, i <= j
               PROVE  q2[i] >= q2[j]
    OBVIOUS
  <2>1. CASE j = n2
    BY <1>1, <1>3, <1>4, <2>1
  <2>2. CASE j # n2
    <3>1. /\ i \in 1..(n2 - 1) /\ j \in 1..(n2 - 1)
          /\ i + cut \in 1..n /\ j + cut \in 1..n /\ i + cut <= j + cut
      BY <1>1, <1>4, <2>2
    <3> QED
      BY <1>2, <1>3, <3>1
  <2> QED
    BY <2>1, <2>2
<1>6. CASE ~Full(r)
  <2>1. L < H /\ r.next = 0
    BY <1>1, <1>2, <1>6 DEF Full, L, H
  <2>2. r2.times = Append(r.times, 0) /\ r2.next = 0 /\ r2 \in [times : Seq(0..Window), next : 0..(H - 1)]
    <3>1. r2 = [r EXCEPT !.times = Append(@, 0)]
      BY <1>6 DEF Recorded
    <3>2. r2.times = Append(r.times, 0) /\ r2.next = 0 /\ r2 = [times |-> r2.times, next |-> r2.next]
      BY <1>1, <2>1, <3>1
    <3>3. Append(r.times, 0) \in Seq(0..Window) /\ 0 \in 0..(H - 1)
      BY <1>1, AppendedSeq
    <3> HIDE DEF r2
    <3> QED
      BY <3>2, <3>3
  <2>3. /\ Len(r2.times) = L + 1 /\ r2.times[L + 1] = 0
        /\ \A i \in 1..L : r2.times[i] = r.times[i]
    BY <1>1, <2>2 DEF L
  <2>4. \A i \in 1..L : r.times[i] = q[(n - L) + i]
    <3>1. \A i \in 1..L : Slot(r, i) = i
      BY <1>1, <2>1 DEF Slot, L
    <3> QED
      BY <1>2, <3>1
  <2>5. \A i \in 1..(L + 1) : r2.times[i] = q2[(n2 - (L + 1)) + i]
    <3> SUFFICES ASSUME NEW i \in 1..(L + 1)
                 PROVE  r2.times[i] = q2[(n2 - (L + 1)) + i]
      OBVIOUS
    <3> DEFINE k == (n2 - (L + 1)) + i
    <3>1. CASE i = L + 1
      <4>1. k = n2
        BY <1>1, <1>4, <3>1
      <4> QED
        BY <1>3, <2>3, <3>1, <4>1
    <3>2. CASE i # L + 1
      <4>1. i \in 1..L /\ k \in 1..(n2 - 1) /\ k + cut = (n - L) + i
        BY <1>1, <1>4, <2>1, <3>2
      <4> HIDE DEF k
      <4> QED
        BY <1>3, <2>3, <2>4, <4>1 DEF k
    <3> QED
      BY <3>1, <3>2
  <2>6. \A i \in 1..(n2 - (L + 1)) : q2[i] >= Window
    <3> SUFFICES ASSUME NEW i \in 1..(n2 - (L + 1))
                 PROVE  q2[i] >= Window
      OBVIOUS
    <3>1. i \in 1..(n2 - 1) /\ i + cut \in 1..(n - L)
      BY <1>1, <1>4, <2>1
    <3> QED
      BY <1>2, <1>3, <3>1
  <2>7. Mirrors(r2, q2)
    <3>1. \A i \in 1..(L + 1) : Slot(r2, i) = i
      BY <1>1, <2>2, <2>3 DEF Slot
    <3>2. L + 1 <= n2
      BY <1>1, <1>4, <2>1
    <3> QED
      BY <1>3, <2>3, <2>5, <2>6, <3>1, <3>2 DEF Mirrors
  <2>8. Len(r2.times) <= H /\ n2 <= H + 1
    BY <1>1, <1>4, <2>1, <2>3
  <2> QED
    BY <1>3, <1>5, <2>2, <2>7, <2>8 DEF RateOf, q2, H, n
<1>7. CASE Full(r)
  <2> DEFINE o == r.next + 1
  <2>1. L = H /\ o \in 1..H /\ r.times[o] >= Window
    <3>1. L = H /\ o \in 1..H
      BY <1>1, <1>7 DEF Full, L, H
    <3>2. r.times[o] \in 0..Window /\ ~(r.times[o] < Window)
      BY <1>1, <1>7, <3>1 DEF Refused
    <3> QED
      BY <1>1, <3>1, <3>2
  <2>2. (r.next + 1) % H = IF o = H THEN 0 ELSE o
    BY <1>1, <2>1, Around
  <2> DEFINE e == IF o = H THEN 0 ELSE o
  <2>3. /\ r2.next = e /\ e \in 0..(H - 1)
        /\ r2.times = [r.times EXCEPT ![o] = 0]
        /\ DOMAIN r2 = {"times", "next"}
        /\ r2 = [times |-> r2.times, next |-> r2.next]
    BY <1>1, <1>7, <2>1, <2>2 DEF Recorded, H
  <2>4. /\ r2.times \in Seq(0..Window) /\ Len(r2.times) = H /\ r2.times[o] = 0
        /\ \A i \in 1..H \ {o} : r2.times[i] = r.times[i]
    BY <1>1, <2>1, <2>3 DEF L
  <2>5. r2 \in [times : Seq(0..Window), next : 0..(H - 1)]
    BY <2>3, <2>4
  <2> HIDE DEF r2
  <2>6. \A i \in 1..(H - 1) : Slot(r2, i) = Slot(r, i + 1) /\ Slot(r2, i) \in 1..H \ {o}
    <3>1. /\ \A i : Slot(r2, i) = IF e + i <= H THEN e + i ELSE (e + i) - H
          /\ \A i : Slot(r, i) = IF r.next + i <= H THEN r.next + i ELSE (r.next + i) - H
      BY <2>1, <2>3, <2>4 DEF Slot, L
    <3> SUFFICES ASSUME NEW i \in 1..(H - 1)
                 PROVE  Slot(r2, i) = Slot(r, i + 1) /\ Slot(r2, i) \in 1..H \ {o}
      OBVIOUS
    <3>2. r.next + (i + 1) = o + i /\ i \in Nat /\ H \in Nat /\ o \in 1..H
      <4>1. r.next \in Nat /\ i \in Nat /\ H \in Nat /\ o \in 1..H
        BY <1>1, <2>1
      <4> QED
        BY <4>1
    <3>3. CASE o = H
      BY <3>1, <3>2, <3>3
    <3>4. CASE o # H
      BY <3>1, <3>2, <3>4
    <3> QED
      BY <3>3, <3>4
  <2>7. Slot(r2, H) = o /\ Slot(r, 1) = o
    BY <1>1, <2>1, <2>3, <2>4 DEF Slot, L
  <2>8. \A i \in 1..H : r2.times[Slot(r2, i)] = q2[(n2 - H) + i]
    <3> SUFFICES ASSUME NEW i \in 1..H
                 PROVE  r2.times[Slot(r2, i)] = q2[(n2 - H) + i]
      OBVIOUS
    <3> DEFINE k == (n2 - H) + i
    <3>1. CASE i = H
      <4>1. k = n2
        BY <1>1, <1>4, <3>1
      <4> QED
        BY <1>3, <2>4, <2>7, <3>1, <4>1
    <3>2. CASE i # H
      <4>1. i \in 1..(H - 1) /\ i + 1 \in 1..L /\ k \in 1..(n2 - 1) /\ k + cut = (n - L) + (i + 1)
        BY <1>1, <1>4, <2>1, <3>2
      <4>2. r2.times[Slot(r2, i)] = q[(n - L) + (i + 1)]
        BY <1>2, <2>4, <2>6, <4>1
      <4> HIDE DEF k
      <4> QED
        BY <1>3, <4>1, <4>2 DEF k
    <3> QED
      BY <3>1, <3>2
  <2>9. \A i \in 1..(n2 - H) : q2[i] >= Window
    <3> SUFFICES ASSUME NEW i \in 1..(n2 - H)
                 PROVE  q2[i] >= Window
      OBVIOUS
    <3>1. i \in 1..(n2 - 1) /\ i + cut \in 1..((n - L) + 1) /\ 1 \in 1..L
      <4>1. H \in Nat \ {0} /\ n \in Nat /\ cut \in {0, 1} /\ n2 = (n + 1) - cut /\ L = H /\ i \in 1..(n2 - H)
        BY <1>1, <1>4, <2>1
      <4> QED
        BY <4>1
    <3>2. q[(n - L) + 1] >= Window
      BY <1>2, <2>1, <2>7, <3>1
    <3>3. i + cut \in 1..(n - L) \/ i + cut = (n - L) + 1
      BY <1>1, <1>4, <3>1
    <3> QED
      BY <1>2, <1>3, <3>1, <3>2, <3>3
  <2>10. Mirrors(r2, q2)
    <3>1. H <= n2
      BY <1>1, <1>4, <2>1
    <3> QED
      BY <1>3, <2>4, <2>8, <2>9, <3>1 DEF Mirrors
  <2>11. Len(r2.times) <= H /\ ~(Len(r2.times) < H) /\ n2 <= H + 1
    BY <1>1, <1>4, <2>4
  <2> QED
    BY <1>3, <1>5, <2>5, <2>10, <2>11 DEF RateOf, q2, H, n, r2
<1> QED
  BY <1>6, <1>7

\* A function on an initial segment is a sequence.
LEMMA IsSeq ==
  ASSUME NEW S, NEW n \in Nat, NEW f \in [1..n -> S]
  PROVE  f \in Seq(S) /\ Len(f) = n
OBVIOUS

\* The span that ages are cut at.
LEMMA OlderAges ==
  ASSUME NEW w \in Nat, NEW a \in 0..w
  PROVE  /\ Older(a, w) \in 0..w /\ (a >= w => Older(a, w) >= w)
         /\ \A b \in 0..w : a >= b => Older(a, w) >= Older(b, w)
BY DEF Older, Least

\* Time passes for the ring and for what it mirrors.
LEMMA OlderKeepsRate ==
  ASSUME NEW r, NEW q, RateOf(r, q)
  PROVE  RateOf([r EXCEPT !.times = [i \in DOMAIN @ |-> Older(@[i], Window)]],
                [i \in DOMAIN q |-> Older(q[i], Window)])
<1> DEFINE L == Len(r.times)
           n == Len(q)
           u == [i \in DOMAIN r.times |-> Older(r.times[i], Window)]
           r2 == [r EXCEPT !.times = [i \in DOMAIN @ |-> Older(@[i], Window)]]
           q2 == [i \in DOMAIN q |-> Older(q[i], Window)]
<1>1. /\ Window \in Nat /\ r.times \in Seq(0..Window) /\ r.next \in 0..(HostRate - 1)
      /\ DOMAIN r = {"times", "next"}
      /\ L \in Nat /\ L <= n /\ n \in Nat
      /\ \A i \in 1..n : q[i] \in 0..Window
      /\ \A i \in 1..L : Slot(r, i) \in 1..L /\ r.times[i] \in 0..Window
  BY RateTypes
<1>2. /\ \A i, j \in 1..n : i <= j => q[i] >= q[j]
      /\ \A i \in 1..L : r.times[Slot(r, i)] = q[(n - L) + i]
      /\ \A i \in 1..(n - L) : q[i] >= Window
      /\ q \in Seq(0..Window) /\ (L < HostRate => r.next = 0) /\ L <= HostRate /\ n <= HostRate + 1
  BY DEF RateOf, Mirrors
<1>3. DOMAIN r.times = 1..L /\ DOMAIN q = 1..n
  BY <1>1, <1>2
<1>4. u \in Seq(0..Window) /\ Len(u) = L /\ \A i \in 1..L : u[i] = Older(r.times[i], Window)
  <2>1. u \in [1..L -> 0..Window]
    BY <1>1, <1>3, OlderAges
  <2> QED
    BY <1>1, <1>3, <2>1, IsSeq
<1>5. q2 \in Seq(0..Window) /\ Len(q2) = n /\ \A i \in 1..n : q2[i] = Older(q[i], Window)
  <2>1. q2 \in [1..n -> 0..Window]
    BY <1>1, <1>3, OlderAges
  <2> QED
    BY <1>1, <1>3, <2>1, IsSeq
<1>6. r2.times = u /\ r2.next = r.next /\ r2 = [times |-> u, next |-> r.next]
  BY <1>1
<1> HIDE DEF u, q2, r2, L, n
<1>7. \A i, j \in 1..n : i <= j => q2[i] >= q2[j]
  BY <1>1, <1>2, <1>5, OlderAges
<1>8. Mirrors(r2, q2)
  <2>1. \A i \in 1..L : Slot(r2, i) = Slot(r, i)
    BY <1>4, <1>6 DEF Slot, L
  <2>2. \A i \in 1..L : (n - L) + i \in 1..n
    BY <1>1
  <2>3. \A i \in 1..L : u[Slot(r2, i)] = q2[(n - L) + i]
    <3> SUFFICES ASSUME NEW i \in 1..L
                 PROVE  u[Slot(r, i)] = q2[(n - L) + i]
      BY <2>1
    <3>1. Slot(r, i) \in 1..L /\ (n - L) + i \in 1..n
      BY <1>1, <2>2
    <3>2. r.times[Slot(r, i)] = q[(n - L) + i]
      BY <1>2
    <3>3. u[Slot(r, i)] = Older(r.times[Slot(r, i)], Window)
      BY <1>4, <3>1
    <3>4. q2[(n - L) + i] = Older(q[(n - L) + i], Window)
      BY <1>5, <3>1
    <3> QED
      BY <3>2, <3>3, <3>4
  <2>4. \A i \in 1..(n - L) : i \in 1..n
    BY <1>1
  <2>5. \A i \in 1..(n - L) : q2[i] >= Window
    BY <1>1, <1>2, <1>5, <2>4, OlderAges
  <2> QED
    BY <1>1, <1>4, <1>5, <1>6, <2>3, <2>5 DEF Mirrors
<1>9. r2 \in [times : Seq(0..Window), next : 0..(HostRate - 1)]
  BY <1>1, <1>4, <1>6
<1> QED
  BY <1>2, <1>4, <1>5, <1>6, <1>7, <1>8, <1>9 DEF RateOf, r2, q2

\* Going back around a circle.
LEMMA AroundBack ==
  ASSUME NEW h \in Nat \ {0}, NEW e \in 0..(h - 1)
  PROVE  ((e + (h - 1)) % h) + 1 = IF e = 0 THEN h ELSE e
<1>1. CASE e = 0
  <2>1. e + (h - 1) = h - 1 /\ h - 1 \in 0..(h - 1)
    BY <1>1
  <2>2. (h - 1) % h = h - 1
    OBVIOUS
  <2> QED
    BY <1>1, <2>1, <2>2
<1>2. CASE e # 0
  <2>1. e + (h - 1) = (e - 1) + h /\ e - 1 \in 0..(h - 1)
    BY <1>2
  <2>2. \A a \in 0..(h - 1) : (a + h) % h = a
    OBVIOUS
  <2> QED
    BY <1>2, <2>1, <2>2
<1> QED
  BY <1>1, <1>2

\* A domain is forgotten when all its datagrams have left the window.
LEMMA PrunedKeepsRate ==
  ASSUME NEW r, NEW q, RateOf(r, q)
  PROVE  RateOf(Pruned(r), q)
<1> DEFINE L == Len(r.times)
           n == Len(q)
           h == HostRate
<1>1. /\ h \in Nat \ {0} /\ Window \in Nat /\ r.times \in Seq(0..Window) /\ r.next \in 0..(h - 1)
      /\ L \in 0..h /\ L <= n /\ n \in Nat
      /\ \A i \in 1..n : q[i] \in 0..Window
  BY RateTypes
<1>2. /\ \A i, j \in 1..n : i <= j => q[i] >= q[j]
      /\ \A i \in 1..L : r.times[Slot(r, i)] = q[(n - L) + i]
      /\ q \in Seq(0..Window) /\ (L < h => r.next = 0) /\ n <= h + 1
  BY DEF RateOf, Mirrors
<1>3. CASE r.times # <<>> /\ Newest(r) >= Window
  <2> DEFINE r2 == [times |-> <<>>, next |-> 0]
  <2>1. Pruned(r) = r2
    BY <1>3 DEF Pruned
  <2>2. L # 0
    BY <1>1, <1>3
  <2>3. L \in Nat \ {0} /\ r.next \in 0..(L - 1)
    BY <1>1, <1>2, <2>2
  <2>4. Slot(r, L) = IF r.next = 0 THEN L ELSE r.next
    BY <2>3 DEF Slot
  <2>5. Newest(r) = r.times[Slot(r, L)]
    <3> HIDE DEF L
    <3>1. ((r.next + (L - 1)) % L) + 1 = IF r.next = 0 THEN L ELSE r.next
      BY <2>3, AroundBack
    <3> QED
      BY <2>4, <3>1 DEF Newest, L
  <2>6. (n - L) + L = n /\ L \in 1..L /\ n \in 1..n
    BY <1>1, <2>3
  <2>7. q[n] >= Window
    BY <1>2, <1>3, <2>5, <2>6
  <2>8. \A i \in 1..n : q[i] >= Window
    <3> SUFFICES ASSUME NEW i \in 1..n
                 PROVE  q[i] >= Window
      OBVIOUS
    <3>1. q[i] >= q[n] /\ q[i] \in 0..Window /\ q[n] \in 0..Window
      BY <1>1, <1>2, <2>6
    <3> QED
      BY <1>1, <2>7, <3>1
  <2>9. r2.times = <<>> /\ Len(r2.times) = 0 /\ r2.next = 0
        /\ r2 \in [times : Seq(0..Window), next : 0..(h - 1)]
    BY <1>1
  <2> HIDE DEF r2
  <2>10. Mirrors(r2, q)
    <3>1. 0 <= n /\ n - 0 = n
      BY <1>1
    <3> QED
      BY <2>8, <2>9, <3>1 DEF Mirrors
  <2>11. 0 <= h
    BY <1>1
  <2> QED
    BY <1>2, <2>1, <2>9, <2>10, <2>11 DEF RateOf
<1>4. CASE ~(r.times # <<>> /\ Newest(r) >= Window)
  BY <1>4 DEF Pruned
<1> QED
  BY <1>3, <1>4

\* A domain that was never sent to.
LEMMA NewRate == RateOf([times |-> <<>>, next |-> 0], <<>>)
<1>1. HostRate \in Nat \ {0} /\ Window \in Nat
  BY IndicatorsAssumption
<1> QED
  BY <1>1 DEF RateOf, Mirrors

----------------------------------------------------------------------------
(***************************************************************************)
(* Steps.                                                                  *)
(***************************************************************************)
\* What is published later is no matter for what is in hand.
LEMMA LogGrows ==
  ASSUME Inv, log' \in Seq(Notices), Len(log) <= Len(log'), taken <= taken',
         taken' \in 0..Len(log'), \A n \in 1..Len(log) : log'[n] = log[n]
  PROVE  /\ UNCHANGED <<groups, offered>> => GroupsOK'
         /\ UNCHANGED <<pending, offered, decided, since>> => PendingOK'
         /\ UNCHANGED <<out, current>> => OutOK'
         /\ UNCHANGED <<ring, recent>> => RateOK'
         /\ Item \subseteq Item'
         /\ \A k, d : \A n \in 1..Len(log) : Named(k, n, d) => Named(k, n, d)'
<1>1. Len(log) \in Nat /\ Len(log') \in Nat /\ taken \in Nat /\ taken' \in Nat
  BY DEF Inv, ChannelOK
<1>2. 1..Len(log) \subseteq 1..Len(log') /\ 0..Len(log) \subseteq 0..Len(log')
  BY <1>1
<1>3. \A k, d : \A n \in 1..Len(log) : Named(k, n, d) => Named(k, n, d)'
  BY DEF Named
<1>4. UNCHANGED <<groups, offered>> => GroupsOK'
  <2> SUFFICES ASSUME UNCHANGED <<groups, offered>>
               PROVE  GroupsOK'
    OBVIOUS
  <2>1. groups' \subseteq [key : Keys, num : 1..Len(log'), domains : SUBSET Domains]
    BY <1>2 DEF Inv, GroupsOK
  <2>2. \A g \in groups : g.num \in 1..Len(log) /\ g.num <= taken'
    BY <1>1 DEF Inv, GroupsOK
  <2> QED
    BY <1>3, <2>1, <2>2 DEF Inv, GroupsOK
<1>5. UNCHANGED <<pending, offered, decided, since>> => PendingOK'
  <2> SUFFICES ASSUME UNCHANGED <<pending, offered, decided, since>>
               PROVE  PendingOK'
    OBVIOUS
  <2>1. pending' \in [Keys -> [age : 0..MinInterval, held : 0..Len(log'), domains : SUBSET Domains]]
    BY <1>2 DEF Inv, PendingOK
  <2>2. offered' \in [Keys -> 0..Len(log')] /\ decided' \in [Keys -> 0..Len(log')]
    BY <1>2 DEF Inv, PendingOK
  <2>3. \A k \in Keys : /\ offered[k] <= taken'
                        /\ pending[k].held # 0 => pending[k].held \in 1..Len(log)
    BY <1>1 DEF Inv, PendingOK
  <2>4. LatestIsKept'
    BY DEF Inv, PendingOK, LatestIsKept
  <2> QED
    BY <1>3, <2>1, <2>2, <2>3, <2>4 DEF Inv, PendingOK
<1>6. Item \subseteq Item'
  BY <1>2 DEF Item
<1>7. UNCHANGED <<out, current>> => OutOK'
  <2> SUFFICES ASSUME UNCHANGED <<out, current>>
               PROVE  OutOK'
    OBVIOUS
  <2>1. \A p \in Procs : \A i \in out[p] : i.num \in 1..Len(log)
    BY DEF Inv, OutOK, Item
  <2>2. \A p \in Procs : current[p] # NoItem => current[p].num \in 1..Len(log)
    BY DEF Inv, OutOK, Item
  <2>3. out' \in [Procs -> SUBSET Item'] /\ current' \in [Procs -> {NoItem} \cup Item']
    BY <1>6 DEF Inv, OutOK
  <2> QED
    BY <1>3, <2>1, <2>2, <2>3 DEF Inv, OutOK
<1>8. UNCHANGED <<ring, recent>> => RateOK'
  BY DEF Inv, RateOK
<1> QED
  BY <1>3, <1>4, <1>5, <1>6, <1>7, <1>8

\* The same when nothing is published.
LEMMA LogStays ==
  ASSUME Inv, UNCHANGED log, taken <= taken', taken' \in 0..Len(log)
  PROVE  /\ UNCHANGED <<groups, offered>> => GroupsOK'
         /\ UNCHANGED <<pending, offered, decided, since>> => PendingOK'
         /\ UNCHANGED <<out, current>> => OutOK'
         /\ UNCHANGED <<ring, recent>> => RateOK'
         /\ Item' = Item
         /\ \A k, n, d : Named(k, n, d)' = Named(k, n, d)
<1>1. log' \in Seq(Notices) /\ Len(log) <= Len(log') /\ \A n \in 1..Len(log) : log'[n] = log[n]
  BY DEF Inv, ChannelOK
<1>2. Item' = Item /\ \A k, n, d : Named(k, n, d)' = Named(k, n, d)
  BY DEF Item, Named
<1> QED
  BY <1>1, <1>2, LogGrows

\* A notice is published.
LEMMA PublishKeepsInv ==
  ASSUME Inv, NEW n \in Notices, Publish(n)
  PROVE  Inv'
<1>1. log \in Seq(Notices) /\ Len(log) \in Nat /\ log' = Append(log, n) /\ taken \in 0..Len(log)
  BY DEF Publish, Inv, ChannelOK
<1>2. UNCHANGED <<taken, groups, pending, out, current, ring, rr, faults, offered, decided, since, recent>>
  BY DEF Publish, historyVars
<1>3. log' \in Seq(Notices) /\ Len(log') = Len(log) + 1 /\ \A i \in 1..Len(log) : log'[i] = log[i]
  BY <1>1, AppendedSeq
<1>4. Len(log) <= Len(log') /\ taken <= taken' /\ taken' \in 0..Len(log')
  BY <1>1, <1>2, <1>3
<1>5. ChannelOK'
  BY <1>2, <1>3, <1>4 DEF Inv, ChannelOK
<1> QED
  BY <1>2, <1>3, <1>4, <1>5, LogGrows DEF Inv

\* Notices are lost.
LEMMA ReconnectKeepsInv ==
  ASSUME Inv, Reconnect
  PROVE  Inv'
<1>1. /\ UNCHANGED <<log, groups, pending, out, current, ring, rr, offered, decided, since, recent>>
      /\ taken' = Len(log) /\ faults' = faults + 1 /\ faults < MaxFaults
  BY DEF Reconnect, historyVars
<1>2. taken <= taken' /\ taken' \in 0..Len(log)
  BY <1>1 DEF Inv, ChannelOK
<1>3. ChannelOK'
  <2>1. faults' \in 0..MaxFaults
    <3>1. MaxFaults \in Nat
      BY IndicatorsAssumption
    <3>2. faults \in 0..MaxFaults
      BY DEF Inv, ChannelOK
    <3>3. faults' = faults \/ (faults < MaxFaults /\ faults' = faults + 1)
      BY <1>1
    <3> QED
      BY <3>1, <3>2, <3>3
  <2>2. log' \in Seq(Notices) /\ rr' \in [Domains -> Nat]
    BY <1>1 DEF Inv, ChannelOK
  <2> QED
    BY <1>1, <1>2, <2>1, <2>2 DEF ChannelOK
<1> QED
  BY <1>1, <1>2, <1>3, LogStays DEF Inv

\* The groups of a notice: one for each subject and index, for the domains that find its
\* sender there.
LEMMA GroupsOfNotice ==
  ASSUME Inv, NEW num \in 1..Len(log), DomainOf[log[num].from] = Here
  PROVE  /\ GroupsOf(num) \subseteq [key : Keys, num : {num}, domains : SUBSET Domains]
         /\ \A g \in GroupsOf(num) : \A d \in g.domains : Named(g.key, num, d)
         /\ \A g, h \in GroupsOf(num) : g.key = h.key => g = h
<1> DEFINE a == log[num].from
           m == log[num].id
           ts == SelectIndicatorTargets(a, m, Here)
           x == [from |-> a, id |-> m, targets |-> ts]
           G(k) == [key |-> k, num |-> num, domains |-> {t.domain : t \in {u \in ts : KeyOf(u) = k}}]
<1>1. a \in Addrs /\ m \in Msgs
  <2>1. log[num] \in Notices
    BY ElementOfSeq DEF Inv, ChannelOK
  <2> QED
    BY <2>1, IndicatorsAssumption
<1>2. {y \in Targets : y.from = a /\ y.id = m} = {x}
  BY <1>1 DEF Targets
<1>3. x.targets = ts
  OBVIOUS
<1>4. GroupsOf(num) = {G(k) : k \in {KeyOf(t) : t \in ts}}
  <2> DEFINE F(y) == {[key |-> k, num |-> num,
                       domains |-> {t.domain : t \in {u \in y.targets : KeyOf(u) = k}}] :
                           k \in {KeyOf(t) : t \in y.targets}}
             Y == {y \in Targets : y.from = a /\ y.id = m}
  <2>1. GroupsOf(num) = UNION {F(y) : y \in Y}
    BY DEF GroupsOf
  <2>2. F(x) = {G(k) : k \in {KeyOf(t) : t \in ts}}
    BY <1>3
  <2>3. Y = {x}
    BY <1>2
  <2> HIDE DEF F, Y, G, x
  <2>4. UNION {F(y) : y \in Y} = F(x)
    BY <2>3
  <2> QED
    BY <2>1, <2>2, <2>4
<1>5. x \in Targets
  BY <1>1 DEF Targets
<1>6. \A t \in ts : KeyOf(t) \in Keys
  BY <1>3, <1>5 DEF Keys
<1>7. \A t \in ts : /\ t.domain \in Domains
                    /\ t.index + 1 \in DOMAIN SubjectByHash(t.hash, t.domain)
                    /\ SubjectByHash(t.hash, t.domain)[t.index + 1] = a
  BY <1>1, TargetNames
<1> HIDE DEF ts
<1>8. \A k \in {KeyOf(t) : t \in ts} :
         /\ G(k) \in [key : Keys, num : {num}, domains : SUBSET Domains]
         /\ G(k).key = k
         /\ \A d \in G(k).domains : \E t \in ts : KeyOf(t) = k /\ t.domain = d
  BY <1>6, <1>7
<1>9. ASSUME NEW t \in ts
      PROVE  Named(KeyOf(t), num, t.domain)
  <2>1. KeyOf(t)[1] = t.hash /\ KeyOf(t)[2] = t.index
    BY DEF KeyOf
  <2> QED
    BY <1>7, <2>1 DEF Named
<1> HIDE DEF G
<1> QED
  BY <1>4, <1>8, <1>9

\* A notice is taken in hand when all before it have been offered.
LEMMA HandleNoticeKeepsInv ==
  ASSUME Inv, HandleNotice
  PROVE  Inv'
<1> DEFINE num == taken + 1
<1>1. /\ UNCHANGED <<log, pending, out, current, ring, rr, offered, decided, since, recent>>
      /\ taken' = num /\ taken < Len(log)
      /\ faults' = faults \/ (faults < MaxFaults /\ faults' = faults + 1)
      /\ groups' = {} \/ (DomainOf[log[num].from] = Here /\ groups' = GroupsOf(num))
  BY DEF HandleNotice, historyVars
<1>2. taken \in Nat /\ taken <= taken' /\ taken' \in 0..Len(log) /\ num \in 1..Len(log)
  BY <1>1 DEF Inv, ChannelOK
<1>3. ChannelOK'
  <2>1. faults' \in 0..MaxFaults
    <3>1. MaxFaults \in Nat
      BY IndicatorsAssumption
    <3>2. faults \in 0..MaxFaults
      BY DEF Inv, ChannelOK
    <3>3. faults' = faults \/ (faults < MaxFaults /\ faults' = faults + 1)
      BY <1>1
    <3> QED
      BY <3>1, <3>2, <3>3
  <2>2. log' \in Seq(Notices) /\ rr' \in [Domains -> Nat]
    BY <1>1 DEF Inv, ChannelOK
  <2> QED
    BY <1>1, <1>2, <2>1, <2>2 DEF ChannelOK
<1>4. GroupsOK'
  <2>1. \A k \in Keys : offered[k] < num
    BY <1>2 DEF Inv, PendingOK
  <2>2. CASE groups' = {}
    BY <2>2 DEF GroupsOK
  <2>3. CASE DomainOf[log[num].from] = Here /\ groups' = GroupsOf(num)
    <3> HIDE DEF num
    <3>1. /\ groups' \subseteq [key : Keys, num : {num}, domains : SUBSET Domains]
          /\ \A g \in groups' : \A d \in g.domains : Named(g.key, num, d)
          /\ \A g, h \in groups' : g.key = h.key => g = h
      BY <1>2, <2>3, GroupsOfNotice
    <3>2. \A g \in groups' : g.num = num /\ g.key \in Keys /\ g.domains \in SUBSET Domains
      BY <3>1
    <3>3. groups' \subseteq [key : Keys, num : 1..Len(log), domains : SUBSET Domains]
      BY <1>2, <3>1
    <3>4. num <= taken'
      BY <1>1, <1>2
    <3>5. \A g \in groups' : \A d \in g.domains : Named(g.key, g.num, d)'
      BY <1>1, <1>2, <3>1, <3>2, LogStays
    <3> QED
      BY <1>1, <2>1, <3>1, <3>2, <3>3, <3>4, <3>5 DEF GroupsOK
  <2> QED
    BY <1>1, <2>2, <2>3
<1> QED
  BY <1>1, <1>2, <1>3, <1>4, LogStays DEF Inv

\* The items of a change are sent to the domains it is for.
LEMMA ItemsOf ==
  ASSUME Inv, NEW k \in Keys, NEW num \in 1..Len(log), NEW ds \in SUBSET Domains,
         \A d \in ds : Named(k, num, d)
  PROVE  /\ {[key |-> k, num |-> num, domain |-> d] : d \in ds} \subseteq Item
         /\ \A i \in {[key |-> k, num |-> num, domain |-> d] : d \in ds} : Named(i.key, i.num, i.domain)
BY DEF Item

\* New items for goroutine p.
LEMMA ItemsSent ==
  ASSUME Inv, NEW p \in Procs, NEW I, I \subseteq Item, \A i \in I : Named(i.key, i.num, i.domain),
         out' = [out EXCEPT ![p] = I], UNCHANGED <<log, current>>
  PROVE  OutOK'
<1>1. Item' = Item /\ \A k, n, d : Named(k, n, d)' = Named(k, n, d)
  BY DEF Item, Named
<1>2. out' \in [Procs -> SUBSET Item]
  BY DEF Inv, OutOK
<1>3. \A v \in Procs : \A i \in out'[v] : Named(i.key, i.num, i.domain)
  BY DEF Inv, OutOK
<1>4. current' \in [Procs -> {NoItem} \cup Item]
  BY DEF Inv, OutOK
<1> QED
  BY <1>1, <1>2, <1>3, <1>4 DEF Inv, OutOK

\* The entry of key k becomes x, its age that of the last change decided on.
LEMMA EntryChanges ==
  ASSUME Inv, NEW k \in Keys, NEW x, NEW o \in 0..Len(log), NEW c \in 0..Len(log),
         NEW a \in 0..MinInterval, UNCHANGED <<log, taken>>,
         x \in [age : {a}, held : 0..Len(log), domains : SUBSET Domains],
         pending' = [pending EXCEPT ![k] = x],
         offered' = [offered EXCEPT ![k] = o],
         decided' = [decided EXCEPT ![k] = c],
         since' = [since EXCEPT ![k] = a],
         o <= taken,
         x.held # 0 => \A d \in x.domains : Named(k, x.held, d),
         \/ x.held = 0 /\ c = o
         \/ x.held = o /\ c < o
  PROVE  PendingOK'
<1>1. \A j, n, d : Named(j, n, d)' = Named(j, n, d)
  BY DEF Named
<1>2. x \in [age : 0..MinInterval, held : 0..Len(log), domains : SUBSET Domains] /\ x.age = a
  OBVIOUS
<1>3. /\ pending' \in [Keys -> [age : 0..MinInterval, held : 0..Len(log), domains : SUBSET Domains]]
      /\ pending'[k] = x /\ \A j \in Keys \ {k} : pending'[j] = pending[j]
  BY <1>2 DEF Inv, PendingOK
<1>4. /\ offered' \in [Keys -> 0..Len(log)]
      /\ offered'[k] = o /\ \A j \in Keys \ {k} : offered'[j] = offered[j]
  BY DEF Inv, PendingOK
<1>5. /\ decided' \in [Keys -> 0..Len(log)]
      /\ decided'[k] = c /\ \A j \in Keys \ {k} : decided'[j] = decided[j]
  BY DEF Inv, PendingOK
<1>6. /\ since' \in [Keys -> 0..MinInterval]
      /\ since'[k] = a /\ \A j \in Keys \ {k} : since'[j] = since[j]
  BY DEF Inv, PendingOK
<1>7. \A j \in Keys : /\ since'[j] = pending'[j].age
                      /\ offered'[j] <= taken
                      /\ pending'[j].held # 0 =>
                             \A d \in pending'[j].domains : Named(j, pending'[j].held, d)
  <2> SUFFICES ASSUME NEW j \in Keys
               PROVE  /\ since'[j] = pending'[j].age
                      /\ offered'[j] <= taken
                      /\ pending'[j].held # 0 =>
                             \A d \in pending'[j].domains : Named(j, pending'[j].held, d)
    OBVIOUS
  <2>1. CASE j = k
    BY <1>2, <1>3, <1>4, <1>6, <2>1
  <2>2. CASE j # k
    BY <1>3, <1>4, <1>6, <2>2 DEF Inv, PendingOK
  <2> QED
    BY <2>1, <2>2
<1>8. LatestIsKept'
  <2> SUFFICES ASSUME NEW j \in Keys
               PROVE  \/ pending'[j].held = 0 /\ decided'[j] = offered'[j]
                      \/ pending'[j].held = offered'[j] /\ decided'[j] < offered'[j]
    BY DEF LatestIsKept
  <2>1. CASE j = k
    BY <1>3, <1>4, <1>5, <2>1
  <2>2. CASE j # k
    BY <1>3, <1>4, <1>5, <2>2 DEF Inv, PendingOK, LatestIsKept
  <2> QED
    BY <2>1, <2>2
<1>9. \A j \in Keys : pending'[j].held # 0 =>
          \A d \in pending'[j].domains : Named(j, pending[j].held, d)'
  <2>1. \A j, d : Named(j, pending[j].held, d)' = Named(j, pending'[j].held, d)
    BY DEF Named
  <2> QED
    BY <1>7, <2>1
<1> QED
  BY <1>3, <1>4, <1>5, <1>6, <1>7, <1>8, <1>9 DEF PendingOK

\* offer: the change is newer than all before it for its key.
LEMMA OfferKeepsInv ==
  ASSUME Inv, NEW g \in groups, Offer(g)
  PROVE  Inv'
<1> DEFINE k == g.key
           num == g.num
           p == pending[k]
           I == {[key |-> k, num |-> num, domain |-> d] : d \in g.domains}
<1>1. /\ k \in Keys /\ num \in 1..Len(log) /\ g.domains \in SUBSET Domains
      /\ offered[k] < num /\ num <= taken /\ \A d \in g.domains : Named(k, num, d)
      /\ \A h \in groups : h.key = k => h = g
  BY DEF Inv, GroupsOK
<1>2. /\ UNCHANGED <<log, taken, current, ring, rr, faults, recent>>
      /\ groups' = groups \ {g} /\ offered' = [offered EXCEPT ![k] = num]
  BY DEF Offer
<1>3. /\ p.age \in 0..MinInterval /\ p.age = since[k] /\ offered[k] \in 0..Len(log)
      /\ decided[k] \in 0..Len(log) /\ since \in [Keys -> 0..MinInterval]
      /\ decided \in [Keys -> 0..Len(log)] /\ offered \in [Keys -> 0..Len(log)]
      /\ decided[k] <= offered[k]
  <2>1. /\ p.age \in 0..MinInterval /\ p.age = since[k] /\ offered[k] \in 0..Len(log)
        /\ decided[k] \in 0..Len(log) /\ since \in [Keys -> 0..MinInterval]
        /\ decided \in [Keys -> 0..Len(log)] /\ offered \in [Keys -> 0..Len(log)]
    BY <1>1 DEF Inv, PendingOK
  <2>2. decided[k] = offered[k] \/ decided[k] < offered[k]
    BY <1>1 DEF Inv, PendingOK, LatestIsKept
  <2> QED
    BY <2>1, <2>2
<1>4. I \subseteq Item /\ \A i \in I : Named(i.key, i.num, i.domain)
  BY <1>1, ItemsOf
<1>5. num \in 0..Len(log) /\ num # 0 /\ decided[k] < num /\ MinInterval \in Nat /\ Len(log) \in Nat
      /\ 0 \in 0..Len(log) /\ 0 \in 0..MinInterval /\ taken <= taken
      /\ taken \in 0..Len(log)
  <2>1. MinInterval \in Nat
    BY IndicatorsAssumption
  <2>2. Len(log) \in Nat /\ taken \in 0..Len(log)
    BY DEF Inv, ChannelOK
  <2> QED
    BY <1>1, <1>3, <2>1, <2>2
<1>6. /\ decided = [decided EXCEPT ![k] = decided[k]]
      /\ since = [since EXCEPT ![k] = p.age]
  BY <1>1, <1>3
<1>7. \/ /\ IsClear(num)
         /\ pending' = [pending EXCEPT ![k] = [age |-> p.age, held |-> 0, domains |-> {}]]
         /\ out' = [out EXCEPT !["listener"] = I]
         /\ decided' = [decided EXCEPT ![k] = num] /\ since' = since
      \/ /\ pending' = [pending EXCEPT ![k] = [age |-> p.age, held |-> num, domains |-> g.domains]]
         /\ UNCHANGED <<out, decided, since>>
      \/ /\ pending' = [pending EXCEPT ![k] = [age |-> 0, held |-> 0, domains |-> {}]]
         /\ out' = [out EXCEPT !["listener"] = I]
         /\ decided' = [decided EXCEPT ![k] = num] /\ since' = [since EXCEPT ![k] = 0]
  BY DEF Offer, SendAll, Decide
<1> HIDE DEF p, I, num, k
<1>8. PendingOK'
  <2>1. CASE /\ pending' = [pending EXCEPT ![k] = [age |-> p.age, held |-> 0, domains |-> {}]]
             /\ decided' = [decided EXCEPT ![k] = num] /\ since' = since
    <3> DEFINE x == [age |-> p.age, held |-> 0, domains |-> {}]
    <3>1. x \in [age : {p.age}, held : 0..Len(log), domains : SUBSET Domains] /\ x.held = 0
      BY <1>5
    <3>2. pending' = [pending EXCEPT ![k] = x] /\ since' = [since EXCEPT ![k] = p.age]
      BY <1>6, <2>1
    <3> HIDE DEF x
    <3> QED
      BY <1>1, <1>2, <1>3, <1>5, <2>1, <3>1, <3>2, EntryChanges
  <2>2. CASE /\ pending' = [pending EXCEPT ![k] = [age |-> p.age, held |-> num, domains |-> g.domains]]
             /\ UNCHANGED <<out, decided, since>>
    <3> DEFINE x == [age |-> p.age, held |-> num, domains |-> g.domains]
    <3>1. /\ x \in [age : {p.age}, held : 0..Len(log), domains : SUBSET Domains]
          /\ x.held = num /\ x.domains = g.domains
      BY <1>1, <1>5
    <3>2. /\ pending' = [pending EXCEPT ![k] = x] /\ since' = [since EXCEPT ![k] = p.age]
          /\ decided' = [decided EXCEPT ![k] = decided[k]]
      BY <1>6, <2>2
    <3> HIDE DEF x
    <3> QED
      BY <1>1, <1>2, <1>3, <1>5, <3>1, <3>2, EntryChanges
  <2>3. CASE /\ pending' = [pending EXCEPT ![k] = [age |-> 0, held |-> 0, domains |-> {}]]
             /\ decided' = [decided EXCEPT ![k] = num] /\ since' = [since EXCEPT ![k] = 0]
    <3> DEFINE x == [age |-> 0, held |-> 0, domains |-> {}]
    <3>1. x \in [age : {0}, held : 0..Len(log), domains : SUBSET Domains] /\ x.held = 0
      BY <1>5
    <3>2. pending' = [pending EXCEPT ![k] = x]
      BY <2>3
    <3> HIDE DEF x
    <3> QED
      BY <1>1, <1>2, <1>5, <2>3, <3>1, <3>2, EntryChanges
  <2> QED
    BY <1>7, <2>1, <2>2, <2>3
<1>9. OutOK'
  <2>1. CASE out' = [out EXCEPT !["listener"] = I]
    BY <1>2, <1>4, <2>1, ItemsSent DEF Procs
  <2>2. CASE UNCHANGED out
    BY <1>2, <1>5, <2>2, LogStays
  <2> QED
    BY <1>7, <2>1, <2>2
<1>10. GroupsOK'
  <2>1. \A h \in groups' : h \in groups /\ h.key \in Keys /\ h.key # k
    BY <1>1, <1>2 DEF Inv, GroupsOK
  <2>2. \A h \in groups' : offered'[h.key] = offered[h.key]
    BY <1>2, <1>3, <2>1
  <2>3. \A h \in groups' : \A d \in h.domains : Named(h.key, h.num, d)'
    BY <1>2, <2>1 DEF Inv, GroupsOK, Named
  <2> QED
    BY <1>2, <2>1, <2>2, <2>3 DEF Inv, GroupsOK
<1>11. ChannelOK' /\ RateOK'
  BY <1>2 DEF Inv, ChannelOK, RateOK
<1> QED
  BY <1>8, <1>9, <1>10, <1>11 DEF Inv

\* flush: what is held and due is decided on, and is the newest change of its key.
LEMMA FlushKeepsInv ==
  ASSUME Inv, Flush
  PROVE  Inv'
<1> DEFINE due == {k \in Keys : pending[k].held # 0 /\ pending[k].age >= MinInterval}
           J(k) == {[key |-> k, num |-> pending[k].held, domain |-> d] : d \in pending[k].domains}
           I == UNION {J(k) : k \in due}
<1>1. /\ UNCHANGED <<log, taken, groups, current, rr, faults, offered, recent>>
      /\ out' = [out EXCEPT !["flusher"] = I]
      /\ pending' = [k \in Keys |-> Flushed(pending[k])]
      /\ decided' = [k \in Keys |-> IF k \in due THEN pending[k].held ELSE decided[k]]
      /\ since' = [k \in Keys |-> IF k \in due THEN 0 ELSE since[k]]
      /\ ring' = [d \in Domains |-> Pruned(ring[d])]
  BY DEF Flush
<1>2. /\ MinInterval \in Nat /\ Len(log) \in Nat /\ taken \in 0..Len(log) /\ taken <= taken
  <2>1. MinInterval \in Nat
    BY IndicatorsAssumption
  <2> QED
    BY <2>1 DEF Inv, ChannelOK
<1>3. ASSUME NEW k \in Keys
      PROVE  /\ pending[k] \in [age : 0..MinInterval, held : 0..Len(log), domains : SUBSET Domains]
             /\ offered[k] \in 0..Len(log) /\ decided[k] \in 0..Len(log)
             /\ since[k] = pending[k].age /\ offered[k] <= taken
             /\ pending[k].held # 0 => \A d \in pending[k].domains : Named(k, pending[k].held, d)
             /\ \/ pending[k].held = 0 /\ decided[k] = offered[k]
                \/ pending[k].held = offered[k] /\ decided[k] < offered[k]
  BY DEF Inv, PendingOK, LatestIsKept
<1>4. OutOK'
  <2>1. ASSUME NEW k \in due
        PROVE  J(k) \subseteq Item /\ \A i \in J(k) : Named(i.key, i.num, i.domain)
    <3>1. /\ k \in Keys /\ pending[k].held \in 1..Len(log) /\ pending[k].domains \in SUBSET Domains
          /\ \A d \in pending[k].domains : Named(k, pending[k].held, d)
      BY <1>2, <1>3
    <3> QED
      BY <3>1, ItemsOf
  <2> HIDE DEF due, J
  <2>2. I \subseteq Item /\ \A i \in I : Named(i.key, i.num, i.domain)
    BY <2>1
  <2> HIDE DEF I
  <2> QED
    BY <1>1, <2>2, ItemsSent DEF Procs
<1>5. ASSUME NEW k \in Keys
      PROVE  /\ pending'[k] \in [age : 0..MinInterval, held : 0..Len(log), domains : SUBSET Domains]
             /\ decided'[k] \in 0..Len(log) /\ since'[k] \in 0..MinInterval
             /\ since'[k] = pending'[k].age
             /\ pending'[k].held # 0 => pending'[k] = pending[k]
             /\ \/ pending'[k].held = 0 /\ decided'[k] = offered[k]
                \/ pending'[k].held = offered[k] /\ decided'[k] < offered[k]
  <2>1. pending'[k] = Flushed(pending[k])
    BY <1>1
  <2>2. CASE k \in due
    <3>1. pending'[k] = [age |-> 0, held |-> 0, domains |-> {}]
      BY <2>1, <2>2 DEF Flushed
    <3>2. decided'[k] = pending[k].held /\ since'[k] = 0
      BY <1>1, <2>2
    <3> QED
      BY <1>2, <1>3, <2>2, <3>1, <3>2
  <2>3. CASE k \notin due
    <3>1. decided'[k] = decided[k] /\ since'[k] = since[k]
      BY <1>1, <2>3
    <3>2. CASE pending[k].held = 0 /\ pending[k].age >= MinInterval
      <4>1. pending'[k] = [age |-> MinInterval, held |-> 0, domains |-> {}]
        BY <2>1, <3>2 DEF Flushed, Forgotten
      <4>2. pending[k].age = MinInterval
        BY <1>2, <1>3, <3>2
      <4> QED
        BY <1>2, <1>3, <3>1, <3>2, <4>1, <4>2
    <3>3. CASE ~(pending[k].held = 0 /\ pending[k].age >= MinInterval)
      <4>1. pending'[k] = pending[k]
        BY <2>1, <2>3, <3>3 DEF Flushed
      <4> QED
        BY <1>3, <3>1, <4>1
    <3> QED
      BY <3>2, <3>3
  <2> QED
    BY <2>2, <2>3
<1>6. PendingOK'
  <2>1. /\ pending' \in [Keys -> [age : 0..MinInterval, held : 0..Len(log), domains : SUBSET Domains]]
        /\ decided' \in [Keys -> 0..Len(log)] /\ since' \in [Keys -> 0..MinInterval]
    BY <1>1, <1>5
  <2>2. \A k \in Keys : pending'[k].held # 0 =>
            \A d \in pending'[k].domains : Named(k, pending[k].held, d)'
    BY <1>1, <1>3, <1>5 DEF Named
  <2>3. LatestIsKept'
    BY <1>1, <1>5 DEF LatestIsKept
  <2> QED
    BY <1>1, <1>3, <1>5, <2>1, <2>2, <2>3 DEF Inv, PendingOK
<1>7. RateOK'
  BY <1>1, PrunedKeepsRate DEF Inv, RateOK
<1>8. ChannelOK' /\ GroupsOK'
  BY <1>1, <1>2, LogStays DEF Inv, ChannelOK
<1> QED
  BY <1>4, <1>6, <1>7, <1>8 DEF Inv

\* The limit of the domain is applied to an item.
LEMMA AllowKeepsInv ==
  ASSUME Inv, NEW p \in Procs, NEW item \in out[p], Allow(p, item)
  PROVE  Inv'
<1> DEFINE d == item.domain
<1>1. /\ UNCHANGED <<log, taken, groups, pending, rr, faults, offered, decided, since>>
      /\ out' = [out EXCEPT ![p] = @ \ {item}]
  BY DEF Allow
<1>2. item \in Item /\ Named(item.key, item.num, d) /\ d \in Domains
      /\ out \in [Procs -> SUBSET Item] /\ current \in [Procs -> {NoItem} \cup Item]
  BY DEF Inv, OutOK, Item
<1>3. taken \in 0..Len(log) /\ taken <= taken
  BY DEF Inv, ChannelOK
<1>4. \/ UNCHANGED <<current, ring, recent>>
      \/ /\ ~Refused(ring[d])
         /\ ring' = [ring EXCEPT ![d] = Recorded(@)]
         /\ recent' = [recent EXCEPT ![d] =
                IF Len(@) = HostRate + 1 THEN Append(Tail(@), 0) ELSE Append(@, 0)]
         /\ current' = [current EXCEPT ![p] = item]
  BY DEF Allow
<1>5. Item' = Item /\ \A k, n, e : Named(k, n, e)' = Named(k, n, e)
  BY <1>1, <1>3, LogStays
<1>6. OutOK'
  <2>1. out' \in [Procs -> SUBSET Item] /\ \A v \in Procs : out'[v] \subseteq out[v]
    BY <1>1, <1>2
  <2>2. /\ current' \in [Procs -> {NoItem} \cup Item]
        /\ \A v \in Procs : current'[v] = current[v] \/ current'[v] = item
    BY <1>2, <1>4
  <2>3. \A v \in Procs : \A i \in out'[v] : Named(i.key, i.num, i.domain)
    BY <2>1 DEF Inv, OutOK
  <2>4. \A v \in Procs : current'[v] # NoItem =>
            Named(current'[v].key, current'[v].num, current'[v].domain)
    BY <1>2, <2>2 DEF Inv, OutOK
  <2>5. \A v \in Procs : Named(current[v].key, current[v].num, current[v].domain)'
                           = Named(current'[v].key, current'[v].num, current'[v].domain)
    BY <1>1 DEF Named
  <2> QED
    BY <1>5, <2>1, <2>2, <2>3, <2>4, <2>5 DEF OutOK
<1>7. RateOK'
  <2>1. CASE UNCHANGED <<ring, recent>>
    BY <2>1 DEF Inv, RateOK
  <2>2. CASE /\ ~Refused(ring[d])
             /\ ring' = [ring EXCEPT ![d] = Recorded(@)]
             /\ recent' = [recent EXCEPT ![d] =
                    IF Len(@) = HostRate + 1 THEN Append(Tail(@), 0) ELSE Append(@, 0)]
    <3>1. DOMAIN ring = Domains /\ DOMAIN recent = Domains /\ RateOf(ring[d], recent[d])
      BY <1>2 DEF Inv, RateOK
    <3>2. RateOf(Recorded(ring[d]), IF Len(recent[d]) = HostRate + 1
                                    THEN Append(Tail(recent[d]), 0) ELSE Append(recent[d], 0))
      BY <2>2, <3>1, RecordedKeepsRate
    <3> QED
      BY <1>2, <2>2, <3>1, <3>2 DEF Inv, RateOK
  <2> QED
    BY <1>4, <2>1, <2>2
<1> QED
  BY <1>1, <1>3, <1>6, <1>7, LogStays DEF Inv, ChannelOK

\* An item is sent, or its lookup fails.
LEMMA TransmitKeepsInv ==
  ASSUME Inv, NEW p \in Procs, Transmit(p)
  PROVE  Inv'
<1> DEFINE d == current[p].domain
<1>1. /\ UNCHANGED <<log, taken, groups, pending, out, ring, offered, decided, since, recent>>
      /\ current[p] # NoItem /\ current' = [current EXCEPT ![p] = NoItem]
      /\ \/ rr' = [rr EXCEPT ![d] = (@ + 1) % Addresses[d]] /\ UNCHANGED faults
         \/ faults < MaxFaults /\ faults' = faults + 1 /\ UNCHANGED rr
  BY DEF Transmit
<1>2. taken \in 0..Len(log) /\ taken <= taken
  BY DEF Inv, ChannelOK
<1>3. current[p] \in Item /\ d \in Domains
  BY <1>1 DEF Inv, OutOK, Item
<1>4. faults' \in 0..MaxFaults
  <2>1. MaxFaults \in Nat
    BY IndicatorsAssumption
  <2>2. faults \in 0..MaxFaults
    BY DEF Inv, ChannelOK
  <2>3. faults' = faults \/ (faults < MaxFaults /\ faults' = faults + 1)
    BY <1>1
  <2> QED
    BY <2>1, <2>2, <2>3
<1>5. rr' \in [Domains -> Nat]
  <2>1. rr \in [Domains -> Nat] /\ Addresses[d] \in Nat \ {0}
    BY <1>3, IndicatorsAssumption DEF Inv, ChannelOK
  <2>2. (rr[d] + 1) % Addresses[d] \in Nat
    BY <1>3, <2>1
  <2> QED
    BY <1>1, <1>3, <2>1, <2>2
<1>6. OutOK'
  <2>1. Item' = Item
    BY <1>1, <1>2, LogStays
  <2>2. current' \in [Procs -> {NoItem} \cup Item]
        /\ \A v \in Procs : current'[v] # NoItem => current'[v] = current[v]
    BY <1>1 DEF Inv, OutOK
  <2>3. \A v \in Procs : \A i \in out'[v] : Named(i.key, i.num, i.domain)'
    BY <1>1, <1>2, LogStays DEF Inv, OutOK
  <2>4. \A v \in Procs : current'[v] # NoItem =>
            Named(current[v].key, current[v].num, current[v].domain)'
    BY <1>1, <2>2 DEF Inv, OutOK, Named
  <2> QED
    BY <1>1, <2>1, <2>2, <2>3, <2>4 DEF Inv, OutOK
<1>7. ChannelOK'
  BY <1>1, <1>4, <1>5 DEF Inv, ChannelOK
<1> QED
  BY <1>1, <1>2, <1>6, <1>7, LogStays DEF Inv

\* Time passes.
LEMMA TickKeepsInv ==
  ASSUME Inv, Tick
  PROVE  Inv'
<1>1. /\ UNCHANGED <<log, taken, groups, out, current, rr, faults, offered, decided>>
      /\ pending' = [k \in Keys |-> [pending[k] EXCEPT !.age = Older(@, MinInterval)]]
      /\ since' = [k \in Keys |-> Older(since[k], MinInterval)]
      /\ ring' = [d \in Domains |-> [ring[d] EXCEPT !.times =
                    [i \in DOMAIN @ |-> Older(@[i], Window)]]]
      /\ recent' = [d \in Domains |-> [i \in DOMAIN recent[d] |-> Older(recent[d][i], Window)]]
  BY DEF Tick
<1>2. taken \in 0..Len(log) /\ taken <= taken
  BY DEF Inv, ChannelOK
<1>3. MinInterval \in Nat
  BY IndicatorsAssumption
<1>4. ASSUME NEW k \in Keys
      PROVE  /\ pending'[k] \in [age : 0..MinInterval, held : 0..Len(log), domains : SUBSET Domains]
             /\ pending'[k].held = pending[k].held /\ pending'[k].domains = pending[k].domains
             /\ since'[k] \in 0..MinInterval /\ since'[k] = pending'[k].age
  <2>1. /\ pending[k] \in [age : 0..MinInterval, held : 0..Len(log), domains : SUBSET Domains]
        /\ since[k] = pending[k].age
    BY DEF Inv, PendingOK
  <2>2. Older(pending[k].age, MinInterval) \in 0..MinInterval
    BY <1>3, <2>1, OlderAges
  <2>3. pending'[k] = [pending[k] EXCEPT !.age = Older(pending[k].age, MinInterval)]
        /\ since'[k] = Older(since[k], MinInterval)
    BY <1>1
  <2> QED
    BY <2>1, <2>2, <2>3
<1>5. PendingOK'
  <2>1. /\ pending' \in [Keys -> [age : 0..MinInterval, held : 0..Len(log), domains : SUBSET Domains]]
        /\ since' \in [Keys -> 0..MinInterval]
    BY <1>1, <1>4
  <2>2. \A k \in Keys : pending'[k].held # 0 =>
            \A d \in pending'[k].domains : Named(k, pending[k].held, d)'
    BY <1>1, <1>4 DEF Inv, PendingOK, Named
  <2>3. LatestIsKept'
    BY <1>1, <1>4 DEF Inv, PendingOK, LatestIsKept
  <2> QED
    BY <1>1, <1>4, <2>1, <2>2, <2>3 DEF Inv, PendingOK
<1>6. RateOK'
  BY <1>1, OlderKeepsRate DEF Inv, RateOK
<1> QED
  BY <1>1, <1>2, <1>5, <1>6, LogStays DEF Inv, ChannelOK

----------------------------------------------------------------------------
(***************************************************************************)
(* The theorems.                                                           *)
(***************************************************************************)
\* A service that has just started.
LEMMA InitInv ==
  ASSUME Init
  PROVE  Inv
<1>1. MinInterval \in Nat /\ MaxFaults \in Nat
  BY IndicatorsAssumption
<1>2. ChannelOK
  <2>1. log = <<>> /\ taken = 0 /\ faults = 0 /\ rr = [d \in Domains |-> 0]
    BY DEF Init
  <2> QED
    BY <1>1, <2>1 DEF ChannelOK
<1>3. GroupsOK
  BY DEF Init, GroupsOK
<1>4. PendingOK
  <2>1. Len(log) = 0 /\ taken = 0 /\ pending = [k \in Keys |-> Forgotten]
        /\ offered = [k \in Keys |-> 0] /\ decided = [k \in Keys |-> 0]
        /\ since = [k \in Keys |-> MinInterval]
    BY DEF Init
  <2>2. /\ Forgotten.held = 0 /\ Forgotten.age = MinInterval
        /\ Forgotten \in [age : 0..MinInterval, held : 0..0, domains : SUBSET Domains]
    BY <1>1 DEF Forgotten
  <2> QED
    BY <1>1, <2>1, <2>2 DEF PendingOK, LatestIsKept
<1>5. OutOK
  BY DEF Init, OutOK
<1>6. RateOK
  BY NewRate DEF Init, RateOK
<1> QED
  BY <1>2, <1>3, <1>4, <1>5, <1>6 DEF Inv

\* Every step keeps the invariant.
LEMMA NextKeepsInv ==
  ASSUME Inv, [Next]_vars
  PROVE  Inv'
<1>1. ASSUME NEW p \in Procs, Send(p)
      PROVE  Inv'
  BY <1>1, TransmitKeepsInv, AllowKeepsInv DEF Send
<1>2. CASE \E n \in Notices : Publish(n)
  BY <1>2, PublishKeepsInv
<1>3. CASE Reconnect
  BY <1>3, ReconnectKeepsInv
<1>4. CASE Listen
  BY <1>1, <1>4, HandleNoticeKeepsInv, OfferKeepsInv DEF Listen, Procs
<1>5. CASE RunFlusher
  BY <1>1, <1>5, FlushKeepsInv DEF RunFlusher, Procs
<1>6. CASE Tick
  BY <1>6, TickKeepsInv
<1>7. CASE UNCHANGED vars
  <2>1. UNCHANGED <<log, taken, groups, pending, out, current, ring, rr, faults, offered, decided,
                    since, recent>>
    BY <1>7 DEF vars, serviceVars, historyVars
  <2>2. taken \in 0..Len(log) /\ taken <= taken
    BY DEF Inv, ChannelOK
  <2> QED
    BY <2>1, <2>2, LogStays DEF Inv, ChannelOK
<1> QED
  BY <1>2, <1>3, <1>4, <1>5, <1>6, <1>7 DEF Next

\* The invariant holds however the two goroutines interleave.
THEOREM Invariance == Spec => []Inv
<1>1. Init => Inv
  BY InitInv
<1>2. Inv /\ [Next]_vars => Inv'
  BY NextKeepsInv
<1> QED
  BY <1>1, <1>2, PTL DEF Spec

\* The tables and queues of the service are always well formed.
THEOREM TypeCorrect == Spec => []TypeOK
<1>1. Inv => TypeOK
  <2> SUFFICES ASSUME Inv
               PROVE  TypeOK
    OBVIOUS
  <2>1. \A d \in Domains : /\ ring[d].times \in Seq(0..Window)
                           /\ Len(ring[d].times) <= HostRate
                           /\ ring[d].next \in 0..(HostRate - 1)
    BY DEF Inv, RateOK, RateOf
  <2> QED
    BY <2>1 DEF Inv, ChannelOK, GroupsOK, PendingOK, OutOK, Item, TypeOK
<1> QED
  BY <1>1, Invariance, PTL

\* selectIndicatorTargets and subjectByHash agree: a datagram, held back or not, names at
\* the receiving host the local participant whose notice it was.
THEOREM DatagramsAttributed == Spec => []Attributed
<1>1. Inv => Attributed
  <2> SUFFICES ASSUME Inv, NEW p \in Procs, NEW item \in out[p] \cup ({current[p]} \ {NoItem})
               PROVE  Named(item.key, item.num, item.domain)
    BY DEF Attributed, Named
  <2> QED
    BY DEF Inv, OutOK
<1> QED
  BY <1>1, Invariance, PTL

\* offer and flush never lose the newest change of a key, nor keep an older one.
THEOREM LatestKept == Spec => []LatestIsKept
<1>1. Inv => LatestIsKept
  BY DEF Inv, PendingOK
<1> QED
  BY <1>1, Invariance, PTL

\* windowLimiter lets no more than HostRate datagrams through in a window, for any rate
\* and window, its ring and its forgetting of domains included.
THEOREM RateKept == Spec => []SendRate
<1>1. Inv => SendRate
  BY RateIsKept DEF Inv, RateOK, SendRate
<1> QED
  BY <1>1, Invariance, PTL

\* What a step must do of IntervalKept.
Interval ==
    \A k \in Keys : decided'[k] # decided[k] /\ ~IsClear(decided'[k]) => since[k] >= MinInterval

\* A change that is no clear is decided on an interval after the last, by either goroutine.
LEMMA StepKeepsInterval ==
  ASSUME Inv, Next
  PROVE  Interval
<1>1. MinInterval \in Nat /\ decided \in [Keys -> 0..Len(log)]
  BY IndicatorsAssumption DEF Inv, PendingOK
<1>2. \A k \in Keys : since[k] = pending[k].age
  BY DEF Inv, PendingOK
<1>3. CASE UNCHANGED decided
  BY <1>3 DEF Interval
<1>4. ASSUME NEW g \in groups, Offer(g)
      PROVE  Interval
  <2>1. g.key \in Keys
    BY DEF Inv, GroupsOK
  <2>2. \/ decided' = decided
        \/ /\ decided' = [decided EXCEPT ![g.key] = g.num]
           /\ IsClear(g.num) \/ pending[g.key].age >= MinInterval
    BY <1>4 DEF Offer, Decide
  <2> QED
    BY <1>1, <1>2, <2>1, <2>2 DEF Interval
<1>5. CASE Flush
  BY <1>1, <1>2, <1>5 DEF Flush, Interval
<1>6. ASSUME NEW p \in Procs, Send(p)
      PROVE  Interval
  BY <1>3, <1>6 DEF Send, Transmit, Allow
<1>7. CASE (\E n \in Notices : Publish(n)) \/ Reconnect \/ HandleNotice \/ Tick
  BY <1>3, <1>7 DEF Publish, Reconnect, HandleNotice, Tick, historyVars
<1> QED
  BY <1>4, <1>5, <1>6, <1>7 DEF Next, Listen, RunFlusher, Procs

\* INDICATOR_MIN_INTERVAL is kept between any two changes of a participant's state, though
\* flush forgets idle keys and clears go out in between.
THEOREM IntervalIsKept == Spec => IntervalKept
<1>1. Inv /\ [Next]_vars => [Interval]_vars
  BY StepKeepsInterval
<1> QED
  BY <1>1, Invariance, PTL DEF Spec, IntervalKept, Interval
============================================================================

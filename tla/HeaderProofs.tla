--------------------------- MODULE HeaderProofs ---------------------------
(***************************************************************************)
(* Proofs about the header exchange of a receiving host: the recipients it *)
(* finds in a header, the sizes it adds up, and that its checks, made in   *)
(* the order the fields arrive, decide what SPEC.md's rules decide.        *)
(***************************************************************************)
EXTENDS Header, FiniteSetTheorems, TLAPS

(***************************************************************************)
(* Numbers and definitions by recursion.                                   *)
(***************************************************************************)
\* A set of numbers has a least element.
LEMMA LeastNumber ==
  ASSUME NEW S, S \subseteq Nat, S # {}
  PROVE  \E m \in S : \A n \in S : m <= n
<1> DEFINE R == OpToRel(<, Nat)
<1>1. \A m, n \in Nat : <<n, m>> \in R <=> n < m
  BY DEF OpToRel
<1>2. IsWellFoundedOn(R, Nat)
  BY NatLessThanWellFounded
<1> HIDE DEF R
<1>3. PICK m \in S : \A n \in S : ~(<<n, m>> \in R)
  BY <1>2, WFMin
<1>4. \A n \in S : ~(n < m)
  BY <1>1, <1>3
<1> QED
  BY <1>4

\* Function f says what has been read of a list after each of its first m entries: a
\* value of V, made by a step from the one before.
Reads(f, V, v0, step, m) ==
    /\ f \in [0..m -> V]
    /\ f[0] = v0 /\ \A n \in 1..m : f[n] = step[<<n, f[n - 1]>>]

Steps(V, N) == [(1..N) \X V -> V]

\* There is such a function, whatever the steps.
LEMMA ReadingExists ==
  ASSUME NEW V, NEW v0 \in V, NEW N \in Nat, NEW step \in Steps(V, N)
  PROVE  \E f : Reads(f, V, v0, step, N)
<1> USE DEF Reads, Steps
<1> DEFINE IsRead(f, m) == Reads(f, V, v0, step, m)
           Bad == {m \in 0..N : ~ \E f : IsRead(f, m)}
<1>1. Bad = {}
  <2> SUFFICES ASSUME Bad # {} PROVE FALSE
    OBVIOUS
  <2>1. PICK m \in Bad : \A n \in Bad : m <= n
    <3>1. Bad \subseteq Nat
      OBVIOUS
    <3> HIDE DEF Bad
    <3> QED
      BY <3>1, LeastNumber
  <2>2. m # 0
    <3>1. IsRead([n \in 0..0 |-> v0], 0)
      OBVIOUS
    <3> QED
      BY <3>1
  <2>3. m \in 0..N /\ m - 1 \in 0..N /\ m - 1 \notin Bad
    <3>1. m \in 0..N
      BY <2>1
    <3> HIDE DEF Bad
    <3> QED
      BY <2>1, <2>2, <3>1
  <2>4. PICK f : IsRead(f, m - 1)
    BY <2>3
  <2> DEFINE g == [n \in 0..m |-> IF n = m THEN step[<<m, f[m - 1]>>] ELSE f[n]]
  <2>5. m \in 1..N /\ f[m - 1] \in V
    BY <2>2, <2>3, <2>4
  <2>6. g \in [0..m -> V]
    BY <2>4, <2>5
  <2>7. g[0] = v0
    BY <2>2, <2>4, <2>5
  <2>8. ASSUME NEW n \in 1..m PROVE g[n] = step[<<n, g[n - 1]>>]
    <3>1. g[n - 1] = f[n - 1]
      BY <2>5
    <3>2. CASE n = m
      BY <2>5, <3>1, <3>2
    <3>3. CASE n # m
      <4>1. n \in 1..m - 1 /\ g[n] = f[n]
        BY <2>5, <3>3
      <4>2. f[n] = step[<<n, f[n - 1]>>]
        BY <2>4, <4>1
      <4> QED
        BY <3>1, <4>1, <4>2
    <3> QED
      BY <3>2, <3>3
  <2> QED
    BY <2>1, <2>6, <2>7, <2>8
<1>2. PICK f : IsRead(f, N)
  <2>1. N \in 0..N
    OBVIOUS
  <2> QED
    BY <1>1, <2>1
<1> QED
  BY <1>2

----------------------------------------------------------------------------
(***************************************************************************)
(* The recipients a host finds in a list of addresses.                     *)
(***************************************************************************)
\* Reading the list to its end, as LocalIn does.
LEMMA LocalInReads ==
  ASSUME NEW s \in Seq(Addrs \cup {Malformed})
  PROVE  \E f : /\ f = [n \in 0..Len(s) |->
                        IF n = 0 THEN <<>> ELSE
                        IF Local(s[n]) THEN Append(f[n - 1], s[n]) ELSE f[n - 1]]
                /\ LocalIn(s) = f[Len(s)]
                /\ f \in [0..Len(s) -> Seq(Addrs)]
<1> DEFINE V == Seq(Addrs)
           step == [x \in (1..Len(s)) \X V |->
                       IF Local(s[x[1]]) THEN Append(x[2], s[x[1]]) ELSE x[2]]
           IsUpTo(f) == f = [n \in 0..Len(s) |->
                        IF n = 0 THEN <<>> ELSE
                        IF Local(s[n]) THEN Append(f[n - 1], s[n]) ELSE f[n - 1]]
           upTo == CHOOSE f : IsUpTo(f)
<1>1. Len(s) \in Nat /\ <<>> \in V
  OBVIOUS
<1>2. step \in [(1..Len(s)) \X V -> V]
  <2>1. ASSUME NEW n \in 1..Len(s), NEW v \in V, Local(s[n]) PROVE Append(v, s[n]) \in V
    BY <2>1 DEF Local
  <2> QED
    BY <2>1
<1>3. PICK f : Reads(f, V, <<>>, step, Len(s))
  <2>1. step \in Steps(V, Len(s))
    BY <1>2 DEF Steps
  <2> HIDE DEF V, step
  <2> QED
    BY <1>1, <2>1, ReadingExists
<1>4. \A n \in 1..Len(s) : \A v \in V :
         step[<<n, v>>] = IF Local(s[n]) THEN Append(v, s[n]) ELSE v
  OBVIOUS
<1>5. IsUpTo(f)
  <2> DEFINE g == [n \in 0..Len(s) |->
                        IF n = 0 THEN <<>> ELSE
                        IF Local(s[n]) THEN Append(f[n - 1], s[n]) ELSE f[n - 1]]
  <2>1. ASSUME NEW n \in 0..Len(s) PROVE f[n] = g[n]
    <3>1. CASE n = 0
      BY <1>3, <3>1 DEF Reads
    <3>2. CASE n # 0
      <4>1. n \in 1..Len(s) /\ n - 1 \in 0..Len(s)
        BY <1>1, <3>2
      <4>2. f[n] = step[<<n, f[n - 1]>>] /\ f[n - 1] \in V
        BY <1>3, <3>2, <4>1 DEF Reads
      <4> HIDE DEF step, V
      <4> QED
        BY <1>4, <3>2, <4>1, <4>2
    <3> QED
      BY <3>1, <3>2
  <2> HIDE DEF step
  <2> QED
    BY <1>3, <2>1 DEF Reads
<1>6. IsUpTo(upTo)
  <2> HIDE DEF IsUpTo
  <2> QED
    BY <1>5
<1>7. LocalIn(s) = upTo[Len(s)]
  BY DEF LocalIn
<1>8. upTo \in [0..Len(s) -> V]
  <2>1. upTo = [n \in 0..Len(s) |-> IF n = 0 THEN <<>> ELSE
                  IF Local(s[n]) THEN Append(upTo[n - 1], s[n]) ELSE upTo[n - 1]]
    BY <1>6
  <2> HIDE DEF upTo
  <2> DEFINE Bad == {n \in 0..Len(s) : upTo[n] \notin V}
  <2>2. Bad = {}
    <3> SUFFICES ASSUME Bad # {} PROVE FALSE
      OBVIOUS
    <3>1. PICK m \in Bad : \A n \in Bad : m <= n
      <4>1. Bad \subseteq Nat
        BY <1>1
      <4> HIDE DEF Bad
      <4> QED
        BY <4>1, LeastNumber
    <3>2. m \in 0..Len(s) /\ upTo[m] \notin V
      BY <3>1
    <3>3. m # 0
      BY <1>1, <2>1, <3>2
    <3>4. m \in 1..Len(s) /\ m - 1 \in 0..Len(s)
      BY <1>1, <3>2, <3>3
    <3>5. upTo[m - 1] \in V
      BY <1>1, <3>1, <3>4
    <3>6. upTo[m] = IF Local(s[m]) THEN Append(upTo[m - 1], s[m]) ELSE upTo[m - 1]
      BY <2>1, <3>2, <3>3
    <3> QED
      BY <3>2, <3>5, <3>6 DEF Local
  <2> QED
    BY <2>1, <2>2
<1> QED
  BY <1>6, <1>7, <1>8

LEMMA LocalInType ==
  ASSUME NEW s \in Seq(Addrs \cup {Malformed})
  PROVE  LocalIn(s) \in Seq(Addrs)
<1>1. Len(s) \in 0..Len(s)
  OBVIOUS
<1> QED
  BY <1>1, LocalInReads

\* A list has a local part when it has a local address.
LEMMA LocalInEmpty ==
  ASSUME NEW s \in Seq(Addrs \cup {Malformed})
  PROVE  LocalIn(s) = <<>> <=> \A i \in DOMAIN s : ~Local(s[i])
<1>1. PICK f : /\ f = [n \in 0..Len(s) |->
                        IF n = 0 THEN <<>> ELSE
                        IF Local(s[n]) THEN Append(f[n - 1], s[n]) ELSE f[n - 1]]
               /\ LocalIn(s) = f[Len(s)]
               /\ f \in [0..Len(s) -> Seq(Addrs)]
  BY LocalInReads
<1>2. Len(s) \in Nat
  OBVIOUS
<1>3. f[0] = <<>>
  <2>1. 0 \in 0..Len(s)
    BY <1>2
  <2> QED
    BY <1>1, <2>1
<1>4. ASSUME NEW n \in 1..Len(s)
      PROVE  /\ f[n] = IF Local(s[n]) THEN Append(f[n - 1], s[n]) ELSE f[n - 1]
             /\ f[n - 1] \in Seq(Addrs)
  <2>1. n \in 0..Len(s) /\ n # 0 /\ n - 1 \in 0..Len(s)
    BY <1>2
  <2>2. f[n] = IF Local(s[n]) THEN Append(f[n - 1], s[n]) ELSE f[n - 1]
    BY <1>1, <2>1
  <2>3. f[n - 1] \in Seq(Addrs)
    BY <1>1, <2>1
  <2> QED
    BY <2>2, <2>3
<1> DEFINE Good(n) == f[n] = <<>> <=> \A i \in 1..n : ~Local(s[i])
           Bad == {n \in 0..Len(s) : ~Good(n)}
<1>5. Bad = {}
  <2> SUFFICES ASSUME Bad # {} PROVE FALSE
    OBVIOUS
  <2>1. PICK m \in Bad : \A n \in Bad : m <= n
    <3>1. Bad \subseteq Nat
      BY <1>2
    <3> HIDE DEF Bad
    <3> QED
      BY <3>1, LeastNumber
  <2>2. m \in 0..Len(s) /\ ~Good(m)
    BY <2>1
  <2>3. m # 0
    BY <1>3, <2>2
  <2>4. m \in 1..Len(s) /\ m - 1 \in 0..Len(s)
    BY <1>2, <2>2, <2>3
  <2>5. Good(m - 1)
    <3>1. m - 1 \notin Bad
      <4> HIDE DEF Bad
      <4> QED
        BY <2>1, <2>4
    <3> QED
      BY <2>4, <3>1
  <2>6. CASE Local(s[m])
    <3>1. s[m] \in Addrs
      BY <2>6 DEF Local
    <3>2. f[m] = Append(f[m - 1], s[m]) /\ f[m - 1] \in Seq(Addrs)
      BY <1>4, <2>4, <2>6
    <3>3. Len(f[m]) = Len(f[m - 1]) + 1 /\ Len(f[m - 1]) \in Nat
      BY <3>1, <3>2
    <3>4. f[m] # <<>>
      BY <3>3
    <3> QED
      BY <2>2, <2>4, <2>6, <3>4
  <2>7. CASE ~Local(s[m])
    <3>1. f[m] = f[m - 1]
      BY <1>4, <2>4, <2>7
    <3>2. \A i \in 1..m : i = m \/ i \in 1..m - 1
      BY <2>4
    <3>3. 1..m - 1 \subseteq 1..m
      BY <2>4
    <3> QED
      BY <2>2, <2>5, <2>7, <3>1, <3>2, <3>3
  <2> QED
    BY <2>6, <2>7
<1>6. Good(Len(s))
  <2>1. Len(s) \in 0..Len(s)
    BY <1>2
  <2> QED
    BY <1>5, <2>1
<1>7. DOMAIN s = 1..Len(s)
  OBVIOUS
<1> QED
  BY <1>1, <1>6, <1>7

LEMMA RecipientsType ==
  ASSUME NEW h, IsHeader(h)
  PROVE  LocalRecipients(h) \in Seq(Addrs)
<1>1. LocalIn(h.to) \in Seq(Addrs) /\ LocalIn(h.addTo) \in Seq(Addrs)
  BY LocalInType DEF IsHeader
<1> QED
  BY <1>1 DEF LocalRecipients

LEMMA RecipientsEmpty ==
  ASSUME NEW h, IsHeader(h)
  PROVE  LocalRecipients(h) = <<>> <=> \A a \in ToSet(h.to) \cup ToSet(h.addTo) : ~Local(a)
<1>1. LocalIn(h.to) \in Seq(Addrs) /\ LocalIn(h.addTo) \in Seq(Addrs)
  BY LocalInType DEF IsHeader
<1>2. /\ LocalIn(h.to) = <<>> <=> \A a \in ToSet(h.to) : ~Local(a)
      /\ LocalIn(h.addTo) = <<>> <=> \A a \in ToSet(h.addTo) : ~Local(a)
  BY LocalInEmpty DEF IsHeader, ToSet
<1>3. LocalRecipients(h) = <<>> <=> LocalIn(h.to) = <<>> /\ LocalIn(h.addTo) = <<>>
  BY <1>1 DEF LocalRecipients
<1> QED
  BY <1>2, <1>3

----------------------------------------------------------------------------
(***************************************************************************)
(* The sizes a host adds up.                                               *)
(***************************************************************************)
LEMMA TotalType ==
  ASSUME NEW body \in Nat, NEW atts \in Seq(Nat)
  PROVE  Total(body, atts) \in Nat /\ Total(body, atts) >= body
<1> DEFINE N == Len(atts)
           V == {v \in Nat : v >= body}
           step == [x \in (1..N) \X V |-> x[2] + atts[x[1]]]
           IsUpTo(f) == f = [n \in 0..N |-> IF n = 0 THEN body ELSE f[n - 1] + atts[n]]
           upTo == CHOOSE f : IsUpTo(f)
<1>1. N \in Nat /\ body \in V
  OBVIOUS
<1>2. \A n \in 1..N : \A v \in V : v + atts[n] \in V
  OBVIOUS
<1>3. PICK f : Reads(f, V, body, step, N)
  <2>1. step \in Steps(V, N)
    BY <1>2 DEF Steps
  <2> HIDE DEF V, step, N
  <2> QED
    BY <1>1, <2>1, ReadingExists
<1>4. \A n \in 1..N : \A v \in V : step[<<n, v>>] = v + atts[n]
  OBVIOUS
<1>5. IsUpTo(f)
  <2> DEFINE g == [n \in 0..N |-> IF n = 0 THEN body ELSE f[n - 1] + atts[n]]
  <2>1. ASSUME NEW n \in 0..N PROVE f[n] = g[n]
    <3>1. CASE n = 0
      BY <1>3, <3>1 DEF Reads
    <3>2. CASE n # 0
      <4>1. n \in 1..N /\ n - 1 \in 0..N
        BY <1>1, <3>2
      <4>2. f[n] = step[<<n, f[n - 1]>>] /\ f[n - 1] \in V
        BY <1>3, <3>2, <4>1 DEF Reads
      <4> HIDE DEF step, V
      <4> QED
        BY <1>4, <3>2, <4>1, <4>2
    <3> QED
      BY <3>1, <3>2
  <2> HIDE DEF step
  <2> QED
    BY <1>3, <2>1 DEF Reads
<1>6. IsUpTo(upTo)
  <2> HIDE DEF IsUpTo
  <2> QED
    BY <1>5
<1>7. Total(body, atts) = upTo[N]
  BY DEF Total
<1>8. upTo = [n \in 0..N |-> IF n = 0 THEN body ELSE upTo[n - 1] + atts[n]]
  BY <1>6
<1> HIDE DEF upTo
<1> DEFINE Bad == {n \in 0..N : upTo[n] \notin V}
<1>9. Bad = {}
  <2> SUFFICES ASSUME Bad # {} PROVE FALSE
    OBVIOUS
  <2>1. PICK m \in Bad : \A n \in Bad : m <= n
    <3>1. Bad \subseteq Nat
      BY <1>1
    <3> HIDE DEF Bad
    <3> QED
      BY <3>1, LeastNumber
  <2>2. m \in 0..N /\ upTo[m] \notin V
    BY <2>1
  <2>3. m # 0
    BY <1>1, <1>8, <2>2
  <2>4. m \in 1..N /\ m - 1 \in 0..N
    BY <1>1, <2>2, <2>3
  <2>5. upTo[m - 1] \in V
    <3>1. m - 1 \notin Bad
      <4> HIDE DEF Bad
      <4> QED
        BY <2>1, <2>4
    <3> HIDE DEF V
    <3> QED
      BY <2>4, <3>1
  <2>6. upTo[m] = upTo[m - 1] + atts[m]
    BY <1>8, <2>2, <2>3
  <2> QED
    BY <1>2, <2>2, <2>4, <2>5, <2>6
<1> QED
  BY <1>1, <1>7, <1>9

LEMMA SizesType ==
  ASSUME NEW h, IsHeader(h)
  PROVE  /\ WireSize(h) \in Nat /\ StoredSize(h) \in Nat
         /\ h.body.deflated => StoredSize(h) >= h.body.expanded
<1>1. /\ h.body.size \in Nat /\ ExpandedSize(h.body) \in Nat
      /\ h.body.deflated => ExpandedSize(h.body) = h.body.expanded
  BY DEF IsHeader, IsPart, ExpandedSize
<1>2. /\ [i \in DOMAIN h.atts |-> h.atts[i].size] \in Seq(Nat)
      /\ [i \in DOMAIN h.atts |-> ExpandedSize(h.atts[i])] \in Seq(Nat)
  BY DEF IsHeader, IsPart, ExpandedSize
<1> QED
  BY <1>1, <1>2, TotalType DEF WireSize, StoredSize

----------------------------------------------------------------------------
(***************************************************************************)
(* The checks, in the order the fields are read.                           *)
(***************************************************************************)
\* The first broken rule answers.
LEMMA FirstDecides ==
  ASSUME NEW rules, NEW n \in Nat, DOMAIN rules = 1..n
  PROVE  \/ First(rules) = Continue /\ \A i \in 1..n : ~rules[i].broken
         \/ \E i \in 1..n : /\ rules[i].broken /\ First(rules) = rules[i].answer
                            /\ \A j \in 1..i - 1 : ~rules[j].broken
<1> DEFINE broken == {i \in DOMAIN rules : rules[i].broken}
<1>1. CASE broken = {}
  BY <1>1 DEF First
<1>2. CASE broken # {}
  <2>1. broken \subseteq Nat
    OBVIOUS
  <2> DEFINE Least(i) == \A j \in broken : i <= j
             i == CHOOSE k \in broken : Least(k)
  <2>2. \E m \in broken : Least(m)
    <3> HIDE DEF broken
    <3> QED
      BY <1>2, <2>1, LeastNumber
  <2>3. i \in broken /\ Least(i)
    <3> HIDE DEF Least, broken
    <3> QED
      BY <2>2
  <2>4. First(rules) = rules[i].answer
    BY <1>2 DEF First
  <2> HIDE DEF i
  <2>5. \A j \in 1..i - 1 : ~rules[j].broken
    BY <2>3
  <2> QED
    BY <2>3, <2>4, <2>5
<1> QED
  BY <1>1, <1>2

\* A list without repetition, as the size of the set of its entries tells it.
LEMMA DistinctIs ==
  ASSUME NEW S, NEW s \in Seq(S)
  PROVE  Distinct(s) <=> \A i, j \in 1..Len(s) : s[i] = s[j] => i = j
<1> DEFINE D == 1..Len(s)
           T == ToSet(s)
<1>1. DOMAIN s = D /\ Len(s) \in Nat
  OBVIOUS
<1>2. s \in Surjection(D, T)
  BY <1>1 DEF ToSet, Surjection
<1>3. IsFiniteSet(D) /\ Cardinality(D) = Len(s)
  BY <1>1, FS_Interval
<1>4. Cardinality(T) = Cardinality(D) <=> s \in Injection(D, T)
  <2> HIDE DEF D, T
  <2> QED
    BY <1>2, <1>3, FS_Surjection
<1>5. s \in [D -> T]
  BY <1>1 DEF ToSet
<1> QED
  BY <1>3, <1>4, <1>5 DEF Distinct, Injection, IsInjective

\* The address reading stops at does not parse or repeats one; there is none when the
\* list is read to its end.
LEMMA FirstBadIs ==
  ASSUME NEW s \in Seq(Addrs \cup {Malformed})
  PROVE  /\ FirstBad(s) = 0 => Malformed \notin ToSet(s) /\ Distinct(s)
         /\ FirstBad(s) # 0 => /\ FirstBad(s) \in DOMAIN s
                               /\ s[FirstBad(s)] = Malformed \/ ~Distinct(s)
<1> DEFINE bad == {i \in DOMAIN s : s[i] = Malformed \/ \E j \in 1..i - 1 : s[j] = s[i]}
<1>1. DOMAIN s = 1..Len(s) /\ Len(s) \in Nat
  OBVIOUS
<1>2. CASE bad = {}
  <2>1. FirstBad(s) = 0
    BY <1>2 DEF FirstBad
  <2>2. Malformed \notin ToSet(s)
    BY <1>2 DEF ToSet
  <2>3. ASSUME NEW i \in 1..Len(s), NEW j \in 1..Len(s), s[i] = s[j] PROVE i = j
    <3>1. ASSUME NEW k \in 1..Len(s), NEW l \in 1..k - 1 PROVE s[l] # s[k]
      BY <1>1, <1>2
    <3>2. i < j => i \in 1..j - 1
      OBVIOUS
    <3>3. j < i => j \in 1..i - 1
      OBVIOUS
    <3> QED
      BY <2>3, <3>1, <3>2, <3>3
  <2>4. Distinct(s)
    BY <2>3, DistinctIs
  <2> QED
    BY <2>1, <2>2, <2>4
<1>3. CASE bad # {}
  <2> DEFINE Least(i) == \A j \in bad : i <= j
             i == CHOOSE k \in bad : Least(k)
  <2>1. \E m \in bad : Least(m)
    <3>1. bad \subseteq Nat
      BY <1>1
    <3> HIDE DEF bad
    <3> QED
      BY <1>3, <3>1, LeastNumber
  <2>2. i \in bad
    <3> HIDE DEF Least, bad
    <3> QED
      BY <2>1
  <2>3. FirstBad(s) = i
    BY <1>3 DEF FirstBad
  <2> HIDE DEF i
  <2>4. i \in 1..Len(s) /\ i # 0
    BY <1>1, <2>2
  <2>5. CASE s[i] # Malformed
    <3>1. PICK j \in 1..i - 1 : s[j] = s[i]
      BY <2>2, <2>5
    <3>2. j \in 1..Len(s) /\ j # i
      BY <1>1, <2>4
    <3>3. ~Distinct(s)
      BY <2>4, <3>1, <3>2, DistinctIs
    <3> QED
      BY <1>1, <2>3, <2>4, <3>3
  <2> QED
    BY <1>1, <2>3, <2>4, <2>5
<1> QED
  BY <1>2, <1>3

----------------------------------------------------------------------------
(***************************************************************************)
(* The rules of SPEC.md, against which they are compared.                  *)
(***************************************************************************)
IsRow(r) == r.hash # NoPid /\ r.time \in Int /\ {r.batch, r.terminal, r.intact} \subseteq BOOLEAN

\* A rule of SPEC.md about the header alone, or about its parents, is broken and calls
\* for answer x.
HeaderRuleBroken(x, h, now) ==
    \/ (~h.supported \/ ~SpecParses(h)) /\ x = Terminate
    \/ ~SpecValid(h) /\ x = Invalid
    \/ /\ (IF h.hasAddTo THEN h.adder ELSE h.from) \in Addrs
       /\ h.source # DomainOf[IF h.hasAddTo THEN h.adder ELSE h.from] /\ x = Terminate
    \/ ~SpecFits(h) /\ x = TooBig
    \/ (PastDelta > 0 /\ h.time < now - PastDelta) /\ x = PastTime
    \/ (FutureDelta > 0 /\ h.time > now + FutureDelta) /\ x = FutureTime

ParentRuleBroken(x, h, db) ==
    LET parents == SpecParents(h, db) IN
    \/ /\ h.pid # NoPid /\ parents = {} /\ ~(h.hasAddTo /\ LocalRecipients(h) # <<>>)
       /\ x = ParentNotFound
    \/ (\E r \in parents : r.time - FutureDelta > h.time) /\ x = TimeTravel
    \/ (\E r \in parents : r.terminal) /\ x = Invalid
    \/ (\E r \in parents : ~h.hasAddTo /\ h.from \notin SpecParticipants(r)) /\ x = Invalid
    \/ (\E r \in parents : h.hasAddTo /\ h.adder \notin {r.from} \cup r.to) /\ x = Invalid

LEMMA SpecBrokenIs ==
  ASSUME NEW h, NEW now, NEW db, NEW x
  PROVE  x \in SpecBroken(h, now, db) <=> HeaderRuleBroken(x, h, now) \/ ParentRuleBroken(x, h, db)
<1> DEFINE parents == SpecParents(h, db)
           sender == IF h.hasAddTo THEN h.adder ELSE h.from
           b1 == ~h.supported \/ ~SpecParses(h)
           b2 == ~SpecValid(h)
           b3 == sender \in Addrs /\ h.source # DomainOf[sender]
           b4 == ~SpecFits(h)
           b5 == PastDelta > 0 /\ h.time < now - PastDelta
           b6 == FutureDelta > 0 /\ h.time > now + FutureDelta
           b7 == h.pid # NoPid /\ parents = {} /\ ~(h.hasAddTo /\ LocalRecipients(h) # <<>>)
           b8 == \E r \in parents : r.time - FutureDelta > h.time
           b9 == \E r \in parents : r.terminal
           b10 == \E r \in parents : ~h.hasAddTo /\ h.from \notin SpecParticipants(r)
           b11 == \E r \in parents : h.hasAddTo /\ h.adder \notin {r.from} \cup r.to
           r1 == Rule(b1, Terminate)
           r2 == Rule(b2, Invalid)
           r3 == Rule(b3, Terminate)
           r4 == Rule(b4, TooBig)
           r5 == Rule(b5, PastTime)
           r6 == Rule(b6, FutureTime)
           r7 == Rule(b7, ParentNotFound)
           r8 == Rule(b8, TimeTravel)
           r9 == Rule(b9, Invalid)
           r10 == Rule(b10, Invalid)
           r11 == Rule(b11, Invalid)
           rules == {r1, r2, r3, r4, r5, r6, r7, r8, r9, r10, r11}
<1>1. SpecBroken(h, now, db) = {r.answer : r \in {y \in rules : y.broken}}
  BY DEF SpecBroken
<1>2. /\ (r1.broken <=> b1) /\ r1.answer = Terminate
      /\ (r2.broken <=> b2) /\ r2.answer = Invalid
      /\ (r3.broken <=> b3) /\ r3.answer = Terminate
      /\ (r4.broken <=> b4) /\ r4.answer = TooBig
      /\ (r5.broken <=> b5) /\ r5.answer = PastTime
      /\ (r6.broken <=> b6) /\ r6.answer = FutureTime
      /\ (r7.broken <=> b7) /\ r7.answer = ParentNotFound
      /\ (r8.broken <=> b8) /\ r8.answer = TimeTravel
      /\ (r9.broken <=> b9) /\ r9.answer = Invalid
      /\ (r10.broken <=> b10) /\ r10.answer = Invalid
      /\ (r11.broken <=> b11) /\ r11.answer = Invalid
  BY DEF Rule
<1>3. HeaderRuleBroken(x, h, now) <=>
        \/ b1 /\ x = Terminate
        \/ b2 /\ x = Invalid
        \/ b3 /\ x = Terminate
        \/ b4 /\ x = TooBig
        \/ b5 /\ x = PastTime
        \/ b6 /\ x = FutureTime
  BY DEF HeaderRuleBroken
<1>4. ParentRuleBroken(x, h, db) <=>
        \/ b7 /\ x = ParentNotFound
        \/ b8 /\ x = TimeTravel
        \/ b9 /\ x = Invalid
        \/ b10 /\ x = Invalid
        \/ b11 /\ x = Invalid
  BY DEF ParentRuleBroken
<1> HIDE DEF b1, r1, b2, r2, b3, r3, b4, r4, b5, r5, b6, r6, b7, r7, b8, r8, b9, r9, b10, r10, b11, r11
<1> QED
  BY <1>1, <1>2, <1>3, <1>4

\* A reader refuses, and with the code of a broken rule if the header can be compared.
Exact(h) == Distinct(h.to) /\ WireSize(h) < Word /\ StoredSize(h) < Word

Refusals == {Terminate, Invalid, TooBig, PastTime, FutureTime}

Refuses(verdict, h, now) ==
    verdict \in Refusals /\ (Exact(h) => HeaderRuleBroken(verdict, h, now))

\* What the header says once each group of fields was read and let pass.
FlagsPass(h) == h.supported /\ ~h.reserved /\ ~(h.hasAddTo /\ h.terminal)

AddressesPass(h) == h.from # Malformed /\ h.to # <<>> /\ Malformed \notin ToSet(h.to)

AddToPass(h) ==
    h.hasAddTo => /\ h.pid # NoPid /\ h.adder \in {h.from} \cup ToSet(h.to)
                  /\ h.addTo # <<>> /\ Malformed \notin ToSet(h.addTo) /\ Distinct(h.addTo)

TimePasses(h, now) ==
    /\ ~(PastDelta > 0 /\ h.time < now - PastDelta)
    /\ ~(FutureDelta > 0 /\ h.time > now + FutureDelta)

SizesPass(h) ==
    h.mapped /\ (\A i \in DOMAIN h.atts : ~BadAttachment(h.atts, i)) /\ (Exact(h) => SpecFits(h))

LEMMA FlagsRead ==
  ASSUME NEW h, IsHeader(h), NEW now
  PROVE  \/ First(FlagRules(h)) = Continue /\ FlagsPass(h)
         \/ Refuses(First(FlagRules(h)), h, now)
<1> DEFINE rules == FlagRules(h)
<1>1. /\ DOMAIN rules = 1..3
      /\ (rules[1].broken <=> ~h.supported) /\ rules[1].answer = Terminate
      /\ (rules[2].broken <=> h.reserved) /\ rules[2].answer = Invalid
      /\ (rules[3].broken <=> h.hasAddTo /\ h.terminal) /\ rules[3].answer = Invalid
  <2>1. DOMAIN rules = 1..3
    BY DEF FlagRules
  <2>2. /\ rules[1] = Rule(~h.supported, Terminate)
        /\ rules[2] = Rule(h.reserved, Invalid)
        /\ rules[3] = Rule(h.hasAddTo /\ h.terminal, Invalid)
    BY DEF FlagRules
  <2>3. /\ (Rule(~h.supported, Terminate).broken <=> ~h.supported) /\ Rule(~h.supported, Terminate).answer = Terminate
        /\ (Rule(h.reserved, Invalid).broken <=> h.reserved) /\ Rule(h.reserved, Invalid).answer = Invalid
        /\ (Rule(h.hasAddTo /\ h.terminal, Invalid).broken <=> h.hasAddTo /\ h.terminal) /\ Rule(h.hasAddTo /\ h.terminal, Invalid).answer = Invalid
    BY DEF Rule
  <2> HIDE DEF rules
  <2> QED
    BY <2>1, <2>2, <2>3
<1> HIDE DEF rules
<1>2. \/ First(rules) = Continue /\ \A i \in 1..3 : ~rules[i].broken
      \/ \E i \in 1..3 : rules[i].broken /\ First(rules) = rules[i].answer
  BY <1>1, FirstDecides
<1>3. CASE First(rules) = Continue /\ \A i \in 1..3 : ~rules[i].broken
  BY <1>1, <1>3 DEF FlagsPass, rules
<1>4. ASSUME NEW i \in 1..3, rules[i].broken, First(rules) = rules[i].answer
      PROVE  Refuses(First(rules), h, now)
  <2>1. i = 1 \/ i = 2 \/ i = 3
    OBVIOUS
  <2>2. Terminate \in Refusals /\ Invalid \in Refusals
    BY DEF Refusals
  <2> QED
    BY <1>1, <1>4, <2>1, <2>2 DEF Refuses, HeaderRuleBroken, SpecValid
<1> QED
  BY <1>2, <1>3, <1>4 DEF rules

LEMMA AddressesRead ==
  ASSUME NEW h, IsHeader(h), NEW now
  PROVE  \/ First(AddressRules(h)) = Continue /\ AddressesPass(h)
         \/ Refuses(First(AddressRules(h)), h, now)
<1> DEFINE rules == AddressRules(h)
<1>1. /\ DOMAIN rules = 1..3
      /\ (rules[1].broken <=> h.from = Malformed) /\ rules[1].answer = Terminate
      /\ (rules[2].broken <=> h.to = <<>>) /\ rules[2].answer = Invalid
      /\ (rules[3].broken <=> FirstBad(h.to) # 0) /\ rules[3].answer = Terminate
  <2>1. DOMAIN rules = 1..3
    BY DEF AddressRules
  <2>2. /\ rules[1] = Rule(h.from = Malformed, Terminate)
        /\ rules[2] = Rule(h.to = <<>>, Invalid)
        /\ rules[3] = Rule(FirstBad(h.to) # 0, Terminate)
    BY DEF AddressRules
  <2>3. /\ (Rule(h.from = Malformed, Terminate).broken <=> h.from = Malformed) /\ Rule(h.from = Malformed, Terminate).answer = Terminate
        /\ (Rule(h.to = <<>>, Invalid).broken <=> h.to = <<>>) /\ Rule(h.to = <<>>, Invalid).answer = Invalid
        /\ (Rule(FirstBad(h.to) # 0, Terminate).broken <=> FirstBad(h.to) # 0) /\ Rule(FirstBad(h.to) # 0, Terminate).answer = Terminate
    BY DEF Rule
  <2> HIDE DEF rules
  <2> QED
    BY <2>1, <2>2, <2>3
<1> HIDE DEF rules
<1>2. /\ FirstBad(h.to) = 0 => Malformed \notin ToSet(h.to)
      /\ FirstBad(h.to) # 0 /\ Exact(h) => Malformed \in ToSet(h.to)
  BY FirstBadIs DEF IsHeader, ToSet, Exact
<1>3. \/ First(rules) = Continue /\ \A i \in 1..3 : ~rules[i].broken
      \/ \E i \in 1..3 : rules[i].broken /\ First(rules) = rules[i].answer
  BY <1>1, FirstDecides
<1>4. CASE First(rules) = Continue /\ \A i \in 1..3 : ~rules[i].broken
  BY <1>1, <1>2, <1>4 DEF AddressesPass, rules
<1>5. ASSUME NEW i \in 1..3, rules[i].broken, First(rules) = rules[i].answer
      PROVE  Refuses(First(rules), h, now)
  <2>1. i = 1 \/ i = 2 \/ i = 3
    OBVIOUS
  <2>2. Terminate \in Refusals /\ Invalid \in Refusals
    BY DEF Refusals
  <2> QED
    BY <1>1, <1>2, <1>5, <2>1, <2>2 DEF Refuses, HeaderRuleBroken, SpecValid, SpecParses
<1> QED
  BY <1>3, <1>4, <1>5 DEF rules

LEMMA AddToRead ==
  ASSUME NEW h, IsHeader(h), NEW now, AddressesPass(h)
  PROVE  \/ First(AddToRules(h)) = Continue /\ AddToPass(h)
         \/ Refuses(First(AddToRules(h)), h, now)
<1> DEFINE rules == AddToRules(h)
           bad == FirstBad(h.addTo)
<1>1. CASE ~h.hasAddTo
  <2>1. rules = <<>>
    BY <1>1 DEF AddToRules
  <2>2. First(<<>>) = Continue
    BY DEF First
  <2> QED
    BY <1>1, <2>1, <2>2 DEF AddToPass
<1>2. CASE h.hasAddTo
  <2>1. /\ DOMAIN rules = 1..6
        /\ (rules[1].broken <=> h.pid = NoPid) /\ rules[1].answer = Invalid
        /\ (rules[2].broken <=> h.adder = Malformed) /\ rules[2].answer = Invalid
        /\ (rules[3].broken <=> h.adder \notin {h.from} \cup ToSet(h.to)) /\ rules[3].answer = Invalid
        /\ (rules[4].broken <=> h.addTo = <<>>) /\ rules[4].answer = Invalid
        /\ (rules[5].broken <=> bad # 0 /\ h.addTo[bad] = Malformed) /\ rules[5].answer = Terminate
        /\ (rules[6].broken <=> bad # 0) /\ rules[6].answer = Invalid
    <3>1. DOMAIN rules = 1..6
      BY <1>2 DEF AddToRules
    <3>2. /\ rules[1] = Rule(h.pid = NoPid, Invalid)
          /\ rules[2] = Rule(h.adder = Malformed, Invalid)
          /\ rules[3] = Rule(h.adder \notin {h.from} \cup ToSet(h.to), Invalid)
          /\ rules[4] = Rule(h.addTo = <<>>, Invalid)
          /\ rules[5] = Rule(bad # 0 /\ h.addTo[bad] = Malformed, Terminate)
          /\ rules[6] = Rule(bad # 0, Invalid)
      BY <1>2 DEF AddToRules
    <3>3. /\ (Rule(h.pid = NoPid, Invalid).broken <=> h.pid = NoPid) /\ Rule(h.pid = NoPid, Invalid).answer = Invalid
          /\ (Rule(h.adder = Malformed, Invalid).broken <=> h.adder = Malformed) /\ Rule(h.adder = Malformed, Invalid).answer = Invalid
          /\ (Rule(h.adder \notin {h.from} \cup ToSet(h.to), Invalid).broken <=> h.adder \notin {h.from} \cup ToSet(h.to)) /\ Rule(h.adder \notin {h.from} \cup ToSet(h.to), Invalid).answer = Invalid
          /\ (Rule(h.addTo = <<>>, Invalid).broken <=> h.addTo = <<>>) /\ Rule(h.addTo = <<>>, Invalid).answer = Invalid
          /\ (Rule(bad # 0 /\ h.addTo[bad] = Malformed, Terminate).broken <=> bad # 0 /\ h.addTo[bad] = Malformed) /\ Rule(bad # 0 /\ h.addTo[bad] = Malformed, Terminate).answer = Terminate
          /\ (Rule(bad # 0, Invalid).broken <=> bad # 0) /\ Rule(bad # 0, Invalid).answer = Invalid
      BY DEF Rule
    <3> HIDE DEF rules
    <3> QED
      BY <3>1, <3>2, <3>3
  <2>2. /\ bad = 0 => Malformed \notin ToSet(h.addTo) /\ Distinct(h.addTo)
        /\ bad # 0 => \/ h.addTo[bad] = Malformed /\ Malformed \in ToSet(h.addTo)
                      \/ h.addTo[bad] # Malformed /\ ~Distinct(h.addTo)
    BY FirstBadIs DEF IsHeader, ToSet
  <2> HIDE DEF rules, bad
  <2>3. \/ First(rules) = Continue /\ \A i \in 1..6 : ~rules[i].broken
        \/ \E i \in 1..6 : /\ rules[i].broken /\ First(rules) = rules[i].answer
                           /\ \A j \in 1..i - 1 : ~rules[j].broken
    BY <2>1, FirstDecides
  <2>4. CASE First(rules) = Continue /\ \A i \in 1..6 : ~rules[i].broken
    BY <2>1, <2>2, <2>4 DEF AddToPass, rules
  <2>5. ASSUME NEW i \in 1..6, rules[i].broken, First(rules) = rules[i].answer,
               \A j \in 1..i - 1 : ~rules[j].broken
        PROVE  Refuses(First(rules), h, now)
    <3>1. Terminate \in Refusals /\ Invalid \in Refusals
      BY DEF Refusals
    <3>2. CASE i \in {1, 2, 3, 4}
      <4>1. ~SpecValid(h) /\ First(rules) = Invalid
        BY <1>2, <2>1, <2>5, <3>2 DEF SpecValid, AddressesPass
      <4> QED
        BY <3>1, <4>1 DEF Refuses, HeaderRuleBroken
    <3>3. CASE i = 5
      BY <2>1, <2>2, <2>5, <3>1, <3>3 DEF Refuses, HeaderRuleBroken, SpecParses
    <3>4. CASE i = 6
      <4>1. ~rules[5].broken
        BY <2>5, <3>4
      <4>2. ~SpecValid(h) /\ First(rules) = Invalid
        BY <1>2, <2>1, <2>2, <2>5, <3>4, <4>1 DEF SpecValid
      <4> QED
        BY <3>1, <4>2 DEF Refuses, HeaderRuleBroken
    <3> QED
      BY <3>2, <3>3, <3>4
  <2> QED
    BY <2>3, <2>4, <2>5 DEF rules
<1> QED
  BY <1>1, <1>2

LEMMA TimeRead ==
  ASSUME NEW h, IsHeader(h), NEW now \in Int
  PROVE  \/ First(TimeRules(h, now)) = Continue /\ TimePasses(h, now)
         \/ Refuses(First(TimeRules(h, now)), h, now)
<1> DEFINE rules == TimeRules(h, now)
<1>1. /\ DOMAIN rules = 1..2
      /\ rules[1].broken <=> PastDelta > 0 /\ now - h.time > PastDelta
      /\ rules[2].broken <=> FutureDelta > 0 /\ h.time - now > FutureDelta
      /\ rules[1].answer = PastTime /\ rules[2].answer = FutureTime
  <2>1. DOMAIN rules = 1..2
    BY DEF TimeRules
  <2>2. /\ rules[1] = Rule(PastDelta > 0 /\ now - h.time > PastDelta, PastTime)
        /\ rules[2] = Rule(FutureDelta > 0 /\ h.time - now > FutureDelta, FutureTime)
    BY DEF TimeRules
  <2>3. /\ (Rule(PastDelta > 0 /\ now - h.time > PastDelta, PastTime).broken <=> PastDelta > 0 /\ now - h.time > PastDelta) /\ Rule(PastDelta > 0 /\ now - h.time > PastDelta, PastTime).answer = PastTime
        /\ (Rule(FutureDelta > 0 /\ h.time - now > FutureDelta, FutureTime).broken <=> FutureDelta > 0 /\ h.time - now > FutureDelta) /\ Rule(FutureDelta > 0 /\ h.time - now > FutureDelta, FutureTime).answer = FutureTime
    BY DEF Rule
  <2> HIDE DEF rules
  <2> QED
    BY <2>1, <2>2, <2>3
<1>2. /\ now - h.time > PastDelta <=> h.time < now - PastDelta
      /\ h.time - now > FutureDelta <=> h.time > now + FutureDelta
  BY HeaderAssumption DEF IsHeader
<1> HIDE DEF rules
<1>3. \/ First(rules) = Continue /\ \A i \in 1..2 : ~rules[i].broken
      \/ \E i \in 1..2 : rules[i].broken /\ First(rules) = rules[i].answer
  BY <1>1, FirstDecides
<1>4. CASE First(rules) = Continue /\ \A i \in 1..2 : ~rules[i].broken
  BY <1>1, <1>2, <1>4 DEF TimePasses, rules
<1>5. ASSUME NEW i \in 1..2, rules[i].broken, First(rules) = rules[i].answer
      PROVE  Refuses(First(rules), h, now)
  <2>1. i = 1 \/ i = 2
    OBVIOUS
  <2>2. PastTime \in Refusals /\ FutureTime \in Refusals
    BY DEF Refusals
  <2> QED
    BY <1>1, <1>2, <1>5, <2>1, <2>2 DEF Refuses, HeaderRuleBroken
<1> QED
  BY <1>3, <1>4, <1>5 DEF rules

LEMMA SizesRead ==
  ASSUME NEW h, IsHeader(h), NEW now
  PROVE  \/ First(SizeRules(h)) = Continue /\ SizesPass(h)
         \/ Refuses(First(SizeRules(h)), h, now)
<1> DEFINE rules == SizeRules(h)
           large == h.body.deflated /\ h.body.expanded > MaxExpanded
           badAtt == \E i \in DOMAIN h.atts : BadAttachment(h.atts, i)
<1>1. /\ DOMAIN rules = 1..5
      /\ (rules[1].broken <=> ~h.mapped) /\ rules[1].answer = Invalid
      /\ (rules[2].broken <=> large) /\ rules[2].answer = TooBig
      /\ (rules[3].broken <=> badAtt) /\ rules[3].answer = Invalid
      /\ (rules[4].broken <=> WireSize(h) % Word > MaxSize) /\ rules[4].answer = TooBig
      /\ (rules[5].broken <=> StoredSize(h) % Word > MaxExpanded) /\ rules[5].answer = TooBig
  <2>1. DOMAIN rules = 1..5
    BY DEF SizeRules
  <2>2. /\ rules[1] = Rule(~h.mapped, Invalid)
        /\ rules[2] = Rule(large, TooBig)
        /\ rules[3] = Rule(badAtt, Invalid)
        /\ rules[4] = Rule(WireSize(h) % Word > MaxSize, TooBig)
        /\ rules[5] = Rule(StoredSize(h) % Word > MaxExpanded, TooBig)
    BY DEF SizeRules
  <2>3. /\ (Rule(~h.mapped, Invalid).broken <=> ~h.mapped) /\ Rule(~h.mapped, Invalid).answer = Invalid
        /\ (Rule(large, TooBig).broken <=> large) /\ Rule(large, TooBig).answer = TooBig
        /\ (Rule(badAtt, Invalid).broken <=> badAtt) /\ Rule(badAtt, Invalid).answer = Invalid
        /\ (Rule(WireSize(h) % Word > MaxSize, TooBig).broken <=> WireSize(h) % Word > MaxSize) /\ Rule(WireSize(h) % Word > MaxSize, TooBig).answer = TooBig
        /\ (Rule(StoredSize(h) % Word > MaxExpanded, TooBig).broken <=> StoredSize(h) % Word > MaxExpanded) /\ Rule(StoredSize(h) % Word > MaxExpanded, TooBig).answer = TooBig
    BY DEF Rule
  <2> HIDE DEF rules
  <2> QED
    BY <2>1, <2>2, <2>3
<1>2. /\ WireSize(h) \in Nat /\ StoredSize(h) \in Nat /\ h.body.expanded \in Nat
      /\ h.body.deflated => StoredSize(h) >= h.body.expanded
  BY SizesType DEF IsHeader, IsPart
<1>3. Exact(h) => WireSize(h) % Word = WireSize(h) /\ StoredSize(h) % Word = StoredSize(h)
  BY <1>2, HeaderAssumption DEF Exact
<1>4. Exact(h) =>
        /\ large => ~SpecFits(h)
        /\ SpecFits(h) <=> ~(WireSize(h) % Word > MaxSize) /\ ~(StoredSize(h) % Word > MaxExpanded)
  BY <1>2, <1>3, HeaderAssumption DEF SpecFits
<1> HIDE DEF rules
<1>5. \/ First(rules) = Continue /\ \A i \in 1..5 : ~rules[i].broken
      \/ \E i \in 1..5 : rules[i].broken /\ First(rules) = rules[i].answer
  BY <1>1, FirstDecides
<1>6. CASE First(rules) = Continue /\ \A i \in 1..5 : ~rules[i].broken
  BY <1>1, <1>4, <1>6 DEF SizesPass, rules
<1>7. ASSUME NEW i \in 1..5, rules[i].broken, First(rules) = rules[i].answer
      PROVE  Refuses(First(rules), h, now)
  <2>1. TooBig \in Refusals /\ Invalid \in Refusals
    BY DEF Refusals
  <2>2. CASE i \in {1, 3}
    <3>1. ~SpecValid(h) /\ First(rules) = Invalid
      BY <1>1, <1>7, <2>2 DEF SpecValid
    <3> QED
      BY <2>1, <3>1 DEF Refuses, HeaderRuleBroken
  <2>3. CASE i \in {2, 4, 5}
    <3>1. (Exact(h) => ~SpecFits(h)) /\ First(rules) = TooBig
      BY <1>1, <1>4, <1>7, <2>3
    <3> QED
      BY <2>1, <3>1 DEF Refuses, HeaderRuleBroken
  <2> QED
    BY <2>2, <2>3
<1> QED
  BY <1>5, <1>6, <1>7 DEF rules

FieldsPass(h, now) ==
    FlagsPass(h) /\ AddressesPass(h) /\ AddToPass(h) /\ TimePasses(h, now) /\ SizesPass(h)

\* The fields are read to the end, or a reader refuses.
LEMMA FieldsRead ==
  ASSUME NEW h, IsHeader(h), NEW now \in Int
  PROVE  \/ FieldVerdict(h, now) = Continue /\ FieldsPass(h, now)
         \/ FieldVerdict(h, now) # Continue /\ Refuses(FieldVerdict(h, now), h, now)
<1> DEFINE v1 == First(FlagRules(h))
           v2 == First(AddressRules(h))
           v3 == First(AddToRules(h))
           v4 == First(TimeRules(h, now))
           v5 == First(SizeRules(h))
<1>1. FieldVerdict(h, now) = IF v1 # Continue THEN v1 ELSE IF v2 # Continue THEN v2 ELSE
         IF v3 # Continue THEN v3 ELSE IF v4 # Continue THEN v4 ELSE v5
  BY DEF FieldVerdict, Then
<1>2. (v1 = Continue /\ FlagsPass(h)) \/ Refuses(v1, h, now)
  BY FlagsRead
<1>3. (v2 = Continue /\ AddressesPass(h)) \/ Refuses(v2, h, now)
  BY AddressesRead
<1>4. AddressesPass(h) => (v3 = Continue /\ AddToPass(h)) \/ Refuses(v3, h, now)
  BY AddToRead
<1>5. (v4 = Continue /\ TimePasses(h, now)) \/ Refuses(v4, h, now)
  BY TimeRead
<1>6. (v5 = Continue /\ SizesPass(h)) \/ Refuses(v5, h, now)
  BY SizesRead
<1>7. \A v : Refuses(v, h, now) => v # Continue
  BY DEF Refuses, Refusals, Terminate, Invalid, TooBig, PastTime, FutureTime, Continue
<1> HIDE DEF v1, v2, v3, v4, v5
<1> QED
  BY <1>1, <1>2, <1>3, <1>4, <1>5, <1>6, <1>7 DEF FieldsPass

\* With its fields read, a header that concerns this host and comes from where it says
\* breaks no rule about the header alone.
ConcernPasses(h) == Concerned(h) /\ h.source = SenderDomain(h)

LEMMA ConcernRead ==
  ASSUME NEW h, IsHeader(h), NEW now, FieldsPass(h, now)
  PROVE  \/ First(ConcernRules(h)) = Continue /\ ConcernPasses(h)
         \/ Refuses(First(ConcernRules(h)), h, now)
<1> DEFINE rules == ConcernRules(h)
<1>1. /\ DOMAIN rules = 1..2
      /\ (rules[1].broken <=> ~Concerned(h)) /\ rules[1].answer = Invalid
      /\ (rules[2].broken <=> h.source # SenderDomain(h)) /\ rules[2].answer = Terminate
  <2>1. DOMAIN rules = 1..2
    BY DEF ConcernRules
  <2>2. /\ rules[1] = Rule(~Concerned(h), Invalid)
        /\ rules[2] = Rule(h.source # SenderDomain(h), Terminate)
    BY DEF ConcernRules
  <2>3. /\ (Rule(~Concerned(h), Invalid).broken <=> ~Concerned(h))
        /\ Rule(~Concerned(h), Invalid).answer = Invalid
        /\ (Rule(h.source # SenderDomain(h), Terminate).broken <=> h.source # SenderDomain(h))
        /\ Rule(h.source # SenderDomain(h), Terminate).answer = Terminate
    BY DEF Rule
  <2> HIDE DEF rules
  <2> QED
    BY <2>1, <2>2, <2>3
<1>2. \A a \in ToSet(h.to) \cup ToSet(h.addTo) : Local(a) => LocalRecipients(h) # <<>>
  BY RecipientsEmpty
<1>3. h.hasAddTo <=> h.addTo # <<>>
  BY DEF IsHeader, FieldsPass, AddToPass
<1>4. h.from \in Addrs /\ (h.hasAddTo => h.adder \in {h.from} \cup ToSet(h.to))
  BY DEF IsHeader, FieldsPass, AddToPass, AddressesPass
<1>5. h.hasAddTo => h.adder \in Addrs
  BY <1>4 DEF IsHeader, FieldsPass, AddressesPass
<1>6. ~Concerned(h) => ~SpecValid(h)
  <2> SUFFICES ASSUME ~Concerned(h), SpecValid(h) PROVE FALSE
    OBVIOUS
  <2>1. PICK a \in ToSet(h.to) \cup (IF h.hasAddTo THEN {h.from, h.adder} \cup ToSet(h.addTo) ELSE {}) :
           Local(a)
    BY DEF SpecValid
  <2>2. LocalRecipients(h) = <<>> /\ (h.hasAddTo => ~Local(h.from))
    BY <1>3 DEF Concerned, Local
  <2> QED
    BY <1>2, <1>4, <2>1, <2>2
<1>7. h.source # SenderDomain(h) => HeaderRuleBroken(Terminate, h, now)
  BY <1>3, <1>4, <1>5 DEF HeaderRuleBroken, SenderDomain
<1>8. ~Concerned(h) => HeaderRuleBroken(Invalid, h, now)
  BY <1>6 DEF HeaderRuleBroken
<1> HIDE DEF rules
<1>9. \/ First(rules) = Continue /\ \A i \in 1..2 : ~rules[i].broken
      \/ \E i \in 1..2 : rules[i].broken /\ First(rules) = rules[i].answer
  BY <1>1, FirstDecides
<1>10. CASE First(rules) = Continue /\ \A i \in 1..2 : ~rules[i].broken
  BY <1>1, <1>10 DEF ConcernPasses, rules
<1>11. ASSUME NEW i \in 1..2, rules[i].broken, First(rules) = rules[i].answer
       PROVE  Refuses(First(rules), h, now)
  <2>1. i = 1 \/ i = 2
    OBVIOUS
  <2>2. Terminate \in Refusals /\ Invalid \in Refusals
    BY DEF Refusals
  <2> QED
    BY <1>1, <1>7, <1>8, <1>11, <2>1, <2>2 DEF Refuses
<1> QED
  BY <1>9, <1>10, <1>11 DEF rules

LEMMA HeaderBreaksNothing ==
  ASSUME NEW h, IsHeader(h), NEW now, FieldsPass(h, now), ConcernPasses(h), Exact(h), NEW x
  PROVE  ~HeaderRuleBroken(x, h, now)
<1>1. h.hasAddTo <=> h.addTo # <<>>
  BY DEF IsHeader, FieldsPass, AddToPass
<1>2. h.supported /\ SpecParses(h)
  <2>1. ToSet(<<>>) = {}
    BY DEF ToSet
  <2> QED
    BY <1>1, <2>1 DEF FieldsPass, FlagsPass, AddressesPass, AddToPass, SpecParses
<1>3. \E a \in ToSet(h.to) \cup (IF h.hasAddTo THEN {h.from, h.adder} \cup ToSet(h.addTo) ELSE {}) :
         Local(a)
  <2>1. CASE LocalRecipients(h) # <<>>
    <3>1. PICK a \in ToSet(h.to) \cup ToSet(h.addTo) : Local(a)
      BY <2>1, RecipientsEmpty
    <3>2. ToSet(<<>>) = {}
      BY DEF ToSet
    <3> QED
      BY <1>1, <3>1, <3>2
  <2>2. CASE h.addTo # <<>> /\ DomainOf[h.from] = Here
    BY <1>1, <2>2 DEF Local, IsHeader, FieldsPass, AddressesPass
  <2> QED
    BY <2>1, <2>2 DEF ConcernPasses, Concerned
<1>4. SpecValid(h)
  BY <1>1, <1>3 DEF SpecValid, FieldsPass, FlagsPass, AddressesPass, AddToPass, SizesPass, Exact
<1>5. h.source = DomainOf[IF h.hasAddTo THEN h.adder ELSE h.from]
  BY <1>1 DEF ConcernPasses, SenderDomain
<1>6. SpecFits(h) /\ TimePasses(h, now)
  BY DEF FieldsPass, SizesPass
<1> QED
  BY <1>2, <1>4, <1>5, <1>6 DEF HeaderRuleBroken, TimePasses

----------------------------------------------------------------------------
(***************************************************************************)
(* The parents of a header.                                                *)
(***************************************************************************)
\* What the stored rows say to an add-to: its parent is gone, over, of a later time, or
\* not the adder's; else it may go on.
Gone(stored)     == \E r \in stored : ~r.intact
Closed(stored)     == \E r \in stored : r.terminal
Early(h, stored) == \E r \in stored : r.time - FutureDelta > h.time

NotAdder(h, stored)   == \E r \in stored : h.adder \notin OriginalParticipants(r)
NotReplier(h, stored) == \E r \in stored : h.from \notin ParentParticipants(r)

AddToAnswer(h, db) ==
    IF BatchByHash(db, h.hash) # {} THEN Duplicate ELSE
    IF LocalIn(h.addTo) # <<>> THEN SkipData ELSE AcceptAddTo

LEMMA AddToPathRead ==
  ASSUME NEW h, NEW db, NEW stored, stored = MsgByHash(db, h.pid),
         NEW v, v = First(AddToPathRules(h, db))
  PROVE  \/ stored = {} /\ LocalRecipients(h) # <<>> /\ v = Continue
         \/ stored = {} /\ LocalRecipients(h) = <<>> /\ v = ParentNotFound
         \/ stored # {} /\ Gone(stored) /\ v = Terminate
         \/ stored # {} /\ Closed(stored) /\ v = Invalid
         \/ stored # {} /\ Early(h, stored) /\ v = TimeTravel
         \/ stored # {} /\ NotAdder(h, stored) /\ v = Invalid
         \/ /\ stored # {} /\ ~Closed(stored) /\ ~Early(h, stored) /\ ~NotAdder(h, stored)
            /\ v = AddToAnswer(h, db)
<1> DEFINE rules == AddToPathRules(h, db)
           gone == Gone(stored)
           final == Closed(stored)
           early == Early(h, stored)
           alien == NotAdder(h, stored)
<1>1. /\ DOMAIN rules = 1..9
      /\ (rules[1].broken <=> stored = {} /\ LocalRecipients(h) # <<>>) /\ rules[1].answer = Continue
      /\ (rules[2].broken <=> stored = {}) /\ rules[2].answer = ParentNotFound
      /\ (rules[3].broken <=> gone) /\ rules[3].answer = Terminate
      /\ (rules[4].broken <=> final) /\ rules[4].answer = Invalid
      /\ (rules[5].broken <=> early) /\ rules[5].answer = TimeTravel
      /\ (rules[6].broken <=> alien) /\ rules[6].answer = Invalid
      /\ (rules[7].broken <=> BatchByHash(db, h.hash) # {}) /\ rules[7].answer = Duplicate
      /\ (rules[8].broken <=> LocalIn(h.addTo) # <<>>) /\ rules[8].answer = SkipData
      /\ (rules[9].broken <=> TRUE) /\ rules[9].answer = AcceptAddTo
  <2>1. DOMAIN rules = 1..9
    BY DEF AddToPathRules, Gone, Closed, Early, NotAdder
  <2>2. /\ rules[1] = Rule(stored = {} /\ LocalRecipients(h) # <<>>, Continue)
        /\ rules[2] = Rule(stored = {}, ParentNotFound)
        /\ rules[3] = Rule(gone, Terminate)
        /\ rules[4] = Rule(final, Invalid)
        /\ rules[5] = Rule(early, TimeTravel)
        /\ rules[6] = Rule(alien, Invalid)
        /\ rules[7] = Rule(BatchByHash(db, h.hash) # {}, Duplicate)
        /\ rules[8] = Rule(LocalIn(h.addTo) # <<>>, SkipData)
        /\ rules[9] = Rule(TRUE, AcceptAddTo)
    BY DEF AddToPathRules, Gone, Closed, Early, NotAdder
  <2>3. /\ (Rule(stored = {} /\ LocalRecipients(h) # <<>>, Continue).broken <=> stored = {} /\ LocalRecipients(h) # <<>>) /\ Rule(stored = {} /\ LocalRecipients(h) # <<>>, Continue).answer = Continue
        /\ (Rule(stored = {}, ParentNotFound).broken <=> stored = {}) /\ Rule(stored = {}, ParentNotFound).answer = ParentNotFound
        /\ (Rule(gone, Terminate).broken <=> gone) /\ Rule(gone, Terminate).answer = Terminate
        /\ (Rule(final, Invalid).broken <=> final) /\ Rule(final, Invalid).answer = Invalid
        /\ (Rule(early, TimeTravel).broken <=> early) /\ Rule(early, TimeTravel).answer = TimeTravel
        /\ (Rule(alien, Invalid).broken <=> alien) /\ Rule(alien, Invalid).answer = Invalid
        /\ (Rule(BatchByHash(db, h.hash) # {}, Duplicate).broken <=> BatchByHash(db, h.hash) # {}) /\ Rule(BatchByHash(db, h.hash) # {}, Duplicate).answer = Duplicate
        /\ (Rule(LocalIn(h.addTo) # <<>>, SkipData).broken <=> LocalIn(h.addTo) # <<>>) /\ Rule(LocalIn(h.addTo) # <<>>, SkipData).answer = SkipData
        /\ (Rule(TRUE, AcceptAddTo).broken <=> TRUE) /\ Rule(TRUE, AcceptAddTo).answer = AcceptAddTo
    BY DEF Rule
  <2> HIDE DEF rules
  <2> QED
    BY <2>1, <2>2, <2>3
<1> HIDE DEF rules, gone, final, early, alien
<1>2. \/ First(rules) = Continue /\ \A i \in 1..9 : ~rules[i].broken
      \/ \E i \in 1..9 : /\ rules[i].broken /\ First(rules) = rules[i].answer
                         /\ \A j \in 1..i - 1 : ~rules[j].broken
  BY <1>1, FirstDecides
<1>3. PICK i \in 1..9 : /\ rules[i].broken /\ First(rules) = rules[i].answer
                       /\ \A j \in 1..i - 1 : ~rules[j].broken
  BY <1>1, <1>2
<1>4. v = rules[i].answer
  BY <1>3 DEF rules
<1>5. CASE i \in {1, 2}
  BY <1>1, <1>3, <1>4, <1>5
<1>6. CASE i \in {3, 4, 5, 6}
  <2>1. stored # {}
    BY <1>1, <1>3, <1>6
  <2> QED
    BY <1>1, <1>3, <1>4, <1>6, <2>1 DEF gone, final, early, alien
<1>7. CASE i \in {7, 8, 9}
  <2>1. \A j \in 1..6 : ~rules[j].broken
    BY <1>3, <1>7
  <2>2. stored # {} /\ ~final /\ ~early /\ ~alien
    BY <1>1, <2>1
  <2>3. /\ i = 7 => BatchByHash(db, h.hash) # {}
        /\ i \in {8, 9} => BatchByHash(db, h.hash) = {}
        /\ i = 8 => LocalIn(h.addTo) # <<>>
        /\ i = 9 => LocalIn(h.addTo) = <<>>
    <3>1. (i \in {8, 9} => ~rules[7].broken) /\ (i = 9 => ~rules[8].broken)
      BY <1>3
    <3> QED
      BY <1>1, <1>3, <3>1
  <2> QED
    BY <1>1, <1>4, <1>7, <2>2, <2>3 DEF final, early, alien, AddToAnswer
<1> QED
  BY <1>5, <1>6, <1>7

\* And what they say to a reply.
ReplyParents(h, db) ==
    IF MsgByHash(db, h.pid) # {} THEN MsgByHash(db, h.pid) ELSE BatchByHash(db, h.pid)

LEMMA ReplyPathRead ==
  ASSUME NEW h, NEW db, NEW stored, stored = ReplyParents(h, db),
         NEW v, v = First(ReplyPathRules(h, db))
  PROVE  \/ stored = {} /\ v = ParentNotFound
         \/ stored # {} /\ Gone(stored) /\ v = Terminate
         \/ stored # {} /\ Early(h, stored) /\ v = TimeTravel
         \/ stored # {} /\ NotReplier(h, stored) /\ v = Invalid
         \/ stored # {} /\ Closed(stored) /\ v = Invalid
         \/ /\ stored # {} /\ ~Closed(stored) /\ ~Early(h, stored) /\ ~NotReplier(h, stored)
            /\ v = Continue
<1> DEFINE rules == ReplyPathRules(h, db)
           gone == Gone(stored)
           final == Closed(stored)
           early == Early(h, stored)
           alien == NotReplier(h, stored)
<1>1. /\ DOMAIN rules = 1..5
      /\ (rules[1].broken <=> stored = {}) /\ rules[1].answer = ParentNotFound
      /\ (rules[2].broken <=> gone) /\ rules[2].answer = Terminate
      /\ (rules[3].broken <=> early) /\ rules[3].answer = TimeTravel
      /\ (rules[4].broken <=> alien) /\ rules[4].answer = Invalid
      /\ (rules[5].broken <=> final) /\ rules[5].answer = Invalid
  <2>1. DOMAIN rules = 1..5
    BY DEF ReplyPathRules, ReplyParents, Gone, Closed, Early, NotReplier
  <2>2. /\ rules[1] = Rule(stored = {}, ParentNotFound)
        /\ rules[2] = Rule(gone, Terminate)
        /\ rules[3] = Rule(early, TimeTravel)
        /\ rules[4] = Rule(alien, Invalid)
        /\ rules[5] = Rule(final, Invalid)
    BY DEF ReplyPathRules, ReplyParents, Gone, Closed, Early, NotReplier
  <2>3. /\ (Rule(stored = {}, ParentNotFound).broken <=> stored = {}) /\ Rule(stored = {}, ParentNotFound).answer = ParentNotFound
        /\ (Rule(gone, Terminate).broken <=> gone) /\ Rule(gone, Terminate).answer = Terminate
        /\ (Rule(early, TimeTravel).broken <=> early) /\ Rule(early, TimeTravel).answer = TimeTravel
        /\ (Rule(alien, Invalid).broken <=> alien) /\ Rule(alien, Invalid).answer = Invalid
        /\ (Rule(final, Invalid).broken <=> final) /\ Rule(final, Invalid).answer = Invalid
    BY DEF Rule
  <2> HIDE DEF rules
  <2> QED
    BY <2>1, <2>2, <2>3
<1> HIDE DEF rules, gone, final, early, alien
<1>2. \/ First(rules) = Continue /\ \A i \in 1..5 : ~rules[i].broken
      \/ \E i \in 1..5 : /\ rules[i].broken /\ First(rules) = rules[i].answer
                         /\ \A j \in 1..i - 1 : ~rules[j].broken
  BY <1>1, FirstDecides
<1>3. CASE First(rules) = Continue /\ \A i \in 1..5 : ~rules[i].broken
  BY <1>1, <1>3 DEF rules, final, early, alien
<1>4. ASSUME NEW i \in 1..5, rules[i].broken, First(rules) = rules[i].answer,
             \A j \in 1..i - 1 : ~rules[j].broken
      PROVE  \/ stored = {} /\ v = ParentNotFound
             \/ stored # {} /\ gone /\ v = Terminate
             \/ stored # {} /\ early /\ v = TimeTravel
             \/ stored # {} /\ alien /\ v = Invalid
             \/ stored # {} /\ final /\ v = Invalid
  <2>1. v = rules[i].answer
    BY <1>4 DEF rules
  <2>2. i # 1 => stored # {}
    BY <1>1, <1>4
  <2> QED
    BY <1>1, <1>4, <2>1, <2>2
<1> QED
  BY <1>2, <1>3, <1>4 DEF gone, final, early, alien

\* Of the rows a header names as its parents, the host looks at the ones SPEC.md means.
LEMMA ParentsAre ==
  ASSUME NEW h, NEW db, \A r \in db : IsRow(r), Comparable(h, db)
  PROVE  /\ h.hasAddTo => SpecParents(h, db) = MsgByHash(db, h.pid)
         /\ ~h.hasAddTo => SpecParents(h, db) = ReplyParents(h, db)
         /\ h.pid = NoPid => SpecParents(h, db) = {}
         /\ ~Gone(SpecParents(h, db))
<1>1. \A r \in db : r.hash = h.pid => r.intact
  BY DEF Comparable
<1>2. ~Gone(SpecParents(h, db))
  BY DEF SpecParents, Gone
<1>3. h.hasAddTo => SpecParents(h, db) = MsgByHash(db, h.pid)
  BY <1>1 DEF SpecParents, MsgByHash
<1>4. ASSUME ~h.hasAddTo PROVE SpecParents(h, db) = ReplyParents(h, db)
  <2>1. SpecParents(h, db) = MsgByHash(db, h.pid) \cup BatchByHash(db, h.pid)
    BY <1>1, <1>4 DEF SpecParents, MsgByHash, BatchByHash
  <2>2. MsgByHash(db, h.pid) = {} \/ BatchByHash(db, h.pid) = {}
    BY DEF Comparable, MsgByHash, BatchByHash
  <2> QED
    BY <2>1, <2>2 DEF ReplyParents
<1>5. h.pid = NoPid => SpecParents(h, db) = {}
  BY DEF SpecParents, IsRow
<1> QED
  BY <1>2, <1>3, <1>4, <1>5

\* The replier is a participant by the host's rule iff one by SPEC.md's, of any parent
\* that may be compared.
LEMMA RepliersAre ==
  ASSUME NEW h, NEW db, \A r \in db : IsRow(r), Comparable(h, db), ~h.hasAddTo
  PROVE  NotReplier(h, SpecParents(h, db)) <=>
             \E r \in SpecParents(h, db) : h.from \notin SpecParticipants(r)
<1>1. ASSUME NEW r \in SpecParents(h, db)
      PROVE  h.from \in ParentParticipants(r) <=> h.from \in SpecParticipants(r)
  <2>1. r \in db /\ r.hash = h.pid
    BY DEF SpecParents
  <2>2. CASE r.batch
    BY <2>2 DEF ParentParticipants, OriginalParticipants, SpecParticipants
  <2>3. CASE ~r.batch
    <3>1. r \in MsgByHash(db, h.pid)
      BY <2>1, <2>3 DEF MsgByHash
    <3>2. h.from \notin ParentParticipants(r) \ SpecParticipants(r)
      BY <3>1 DEF Comparable
    <3> QED
      BY <2>3, <3>2 DEF ParentParticipants, OriginalParticipants, SpecParticipants
  <2> QED
    BY <2>2, <2>3
<1> QED
  BY <1>1 DEF NotReplier

\* After the fields have passed, the parents decide as SPEC.md's rules about them do.
LEMMA ParentsDecide ==
  ASSUME NEW h, IsHeader(h), NEW now, NEW db, \A r \in db : IsRow(r), Comparable(h, db),
         FieldsPass(h, now), NEW v,
         v = IF h.addTo # <<>> THEN First(AddToPathRules(h, db)) ELSE
             IF h.pid # NoPid THEN First(ReplyPathRules(h, db)) ELSE Continue
  PROVE  \/ ParentRuleBroken(v, h, db)
         \/ (\A x : ~ParentRuleBroken(x, h, db)) /\ v = SpecResponse(h, db)
<1> DEFINE parents == SpecParents(h, db)
<1>1. h.hasAddTo <=> h.addTo # <<>>
  BY DEF IsHeader, FieldsPass, AddToPass
<1>2. h.hasAddTo => h.pid # NoPid
  BY DEF FieldsPass, AddToPass
<1>3. /\ h.hasAddTo => parents = MsgByHash(db, h.pid)
      /\ ~h.hasAddTo => parents = ReplyParents(h, db)
      /\ h.pid = NoPid => parents = {}
      /\ ~Gone(parents)
  BY ParentsAre
<1>4. \A x : ParentRuleBroken(x, h, db) <=>
         \/ /\ h.pid # NoPid /\ parents = {} /\ ~(h.hasAddTo /\ LocalRecipients(h) # <<>>)
            /\ x = ParentNotFound
         \/ Early(h, parents) /\ x = TimeTravel
         \/ Closed(parents) /\ x = Invalid
         \/ ~h.hasAddTo /\ NotReplier(h, parents) /\ x = Invalid
         \/ h.hasAddTo /\ NotAdder(h, parents) /\ x = Invalid
  <2>1. ~h.hasAddTo => (NotReplier(h, parents) <=>
                            \E r \in parents : h.from \notin SpecParticipants(r))
    BY RepliersAre
  <2> QED
    BY <2>1 DEF ParentRuleBroken, Early, Closed, NotAdder, OriginalParticipants
<1>5. parents = {} => ~Early(h, parents) /\ ~Closed(parents) /\ ~NotReplier(h, parents) /\ ~NotAdder(h, parents)
  BY DEF Early, Closed, NotReplier, NotAdder
<1>6. /\ ~h.hasAddTo \/ parents = {} => SpecResponse(h, db) = Continue
      /\ h.hasAddTo /\ parents # {} => SpecResponse(h, db) = AddToAnswer(h, db)
  BY DEF SpecResponse, AddToAnswer
<1>7. CASE h.hasAddTo
  <2>1. v = First(AddToPathRules(h, db))
    BY <1>1, <1>7
  <2> HIDE DEF parents
  <2>2. \/ parents = {} /\ LocalRecipients(h) # <<>> /\ v = Continue
        \/ parents = {} /\ LocalRecipients(h) = <<>> /\ v = ParentNotFound
        \/ parents # {} /\ Closed(parents) /\ v = Invalid
        \/ parents # {} /\ Early(h, parents) /\ v = TimeTravel
        \/ parents # {} /\ NotAdder(h, parents) /\ v = Invalid
        \/ /\ parents # {} /\ ~Closed(parents) /\ ~Early(h, parents) /\ ~NotAdder(h, parents)
           /\ v = AddToAnswer(h, db)
    BY <1>3, <1>7, <2>1, AddToPathRead
  <2> QED
    BY <1>2, <1>4, <1>5, <1>6, <1>7, <2>2
<1>8. CASE ~h.hasAddTo /\ h.pid # NoPid
  <2>1. v = First(ReplyPathRules(h, db))
    BY <1>1, <1>8
  <2> HIDE DEF parents
  <2>2. \/ parents = {} /\ v = ParentNotFound
        \/ parents # {} /\ Early(h, parents) /\ v = TimeTravel
        \/ parents # {} /\ NotReplier(h, parents) /\ v = Invalid
        \/ parents # {} /\ Closed(parents) /\ v = Invalid
        \/ /\ parents # {} /\ ~Closed(parents) /\ ~Early(h, parents) /\ ~NotReplier(h, parents)
           /\ v = Continue
    BY <1>3, <1>8, <2>1, ReplyPathRead
  <2> QED
    BY <1>4, <1>6, <1>8, <2>2
<1>9. CASE ~h.hasAddTo /\ h.pid = NoPid
  <2>1. v = Continue /\ parents = {}
    BY <1>1, <1>3, <1>9
  <2> HIDE DEF parents
  <2> QED
    BY <1>4, <1>5, <1>6, <1>9, <2>1
<1> QED
  BY <1>7, <1>8, <1>9

----------------------------------------------------------------------------
\* readHeader decides what SPEC.md's rules decide, for any header, clock and stored
\* rows: it lets a header through, and answers it, as they do, and refuses it with the
\* code of a rule that is broken, though it stops at the first check that fails.
THEOREM HeaderDecision ==
  ASSUME NEW h, IsHeader(h), NEW now \in Int, NEW db, \A r \in db : IsRow(r), Comparable(h, db)
  PROVE  SpecAllows(ReadHeaderVerdict(h, now, db), h, now, db)
<1> DEFINE v == ReadHeaderVerdict(h, now, db)
           fields == FieldVerdict(h, now)
           concern == First(ConcernRules(h))
           parents == IF h.addTo # <<>> THEN First(AddToPathRules(h, db)) ELSE
                      IF h.pid # NoPid THEN First(ReplyPathRules(h, db)) ELSE Continue
<1>1. v = IF fields # Continue THEN fields ELSE IF concern # Continue THEN concern ELSE parents
  BY DEF ReadHeaderVerdict, PathVerdict, Then
<1>2. Exact(h)
  BY DEF Comparable, Exact
<1>3. \A x : x \in SpecBroken(h, now, db) <=> HeaderRuleBroken(x, h, now) \/ ParentRuleBroken(x, h, db)
  BY SpecBrokenIs
<1> HIDE DEF v
<1>4. CASE Refuses(v, h, now)
  <2>1. v \in SpecBroken(h, now, db)
    BY <1>2, <1>3, <1>4 DEF Refuses
  <2> QED
    BY <2>1 DEF SpecAllows, v
<1>5. CASE fields = Continue /\ FieldsPass(h, now) /\ concern = Continue /\ ConcernPasses(h)
  <2>1. \A x : ~HeaderRuleBroken(x, h, now)
    BY <1>2, <1>5, HeaderBreaksNothing
  <2>2. \/ ParentRuleBroken(v, h, db)
        \/ (\A x : ~ParentRuleBroken(x, h, db)) /\ v = SpecResponse(h, db)
    <3>1. v = parents
      BY <1>1, <1>5
    <3> QED
      BY <1>5, <3>1, ParentsDecide
  <2>3. CASE ParentRuleBroken(v, h, db)
    <3>1. v \in SpecBroken(h, now, db)
      BY <1>3, <2>3
    <3> QED
      BY <3>1 DEF SpecAllows, v
  <2>4. CASE (\A x : ~ParentRuleBroken(x, h, db)) /\ v = SpecResponse(h, db)
    <3>1. SpecBroken(h, now, db) = {}
      BY <1>3, <2>1, <2>4
    <3> QED
      BY <2>4, <3>1 DEF SpecAllows, v
  <2> QED
    BY <2>2, <2>3, <2>4
<1>6. \/ Refuses(v, h, now)
      \/ fields = Continue /\ FieldsPass(h, now) /\ concern = Continue /\ ConcernPasses(h)
  <2>1. \/ fields = Continue /\ FieldsPass(h, now)
        \/ fields # Continue /\ Refuses(fields, h, now)
    BY FieldsRead
  <2>2. FieldsPass(h, now) =>
           (concern = Continue /\ ConcernPasses(h)) \/ Refuses(concern, h, now)
    BY ConcernRead
  <2>3. Refuses(concern, h, now) => concern # Continue
    BY DEF Refuses, Refusals, Terminate, Invalid, TooBig, PastTime, FutureTime, Continue
  <2> HIDE DEF fields, concern, parents
  <2> QED
    BY <1>1, <2>1, <2>2, <2>3
<1> QED
  BY <1>4, <1>5, <1>6

\* A batch that is let through names a parent, and one that brings no data one that is
\* stored.
LEMMA LetThrough ==
  ASSUME NEW h, IsHeader(h), NEW now \in Int, NEW db,
         NEW v, v = ReadHeaderVerdict(h, now, db), v \in {Continue, SkipData, AcceptAddTo}
  PROVE  /\ h.hasAddTo => h.pid # NoPid
         /\ v = AcceptAddTo => h.hasAddTo /\ MsgByHash(db, h.pid) # {}
<1> DEFINE fields == FieldVerdict(h, now)
           concern == First(ConcernRules(h))
           parents == IF h.addTo # <<>> THEN First(AddToPathRules(h, db)) ELSE
                      IF h.pid # NoPid THEN First(ReplyPathRules(h, db)) ELSE Continue
<1>1. v = IF fields # Continue THEN fields ELSE IF concern # Continue THEN concern ELSE parents
  BY DEF ReadHeaderVerdict, PathVerdict, Then
<1>2. \A x : Refuses(x, h, now) => x \notin {Continue, SkipData, AcceptAddTo}
  BY DEF Refuses, Refusals, Terminate, Invalid, TooBig, PastTime, FutureTime, Continue,
         SkipData, AcceptAddTo
<1>3. fields = Continue /\ FieldsPass(h, now)
  <2>1. \/ fields = Continue /\ FieldsPass(h, now)
        \/ fields # Continue /\ Refuses(fields, h, now)
    BY FieldsRead
  <2> HIDE DEF fields, concern, parents
  <2> QED
    BY <1>1, <1>2, <2>1
<1>4. v = parents
  <2>1. concern = Continue \/ Refuses(concern, h, now)
    BY <1>3, ConcernRead
  <2> HIDE DEF fields, concern, parents
  <2> QED
    BY <1>1, <1>2, <1>3, <2>1
<1>5. h.hasAddTo => h.pid # NoPid
  BY <1>3 DEF FieldsPass, AddToPass
<1>6. ASSUME v = AcceptAddTo PROVE h.hasAddTo /\ MsgByHash(db, h.pid) # {}
  <2> DEFINE stored == MsgByHash(db, h.pid)
             reply == ReplyParents(h, db)
  <2>1. CASE h.addTo # <<>>
    <3>1. v = First(AddToPathRules(h, db))
      BY <1>4, <2>1
    <3>2. v # Continue /\ v # ParentNotFound
      BY <1>6 DEF AcceptAddTo, Continue, ParentNotFound
    <3>3. stored # {}
      <4> HIDE DEF stored
      <4>1. stored = MsgByHash(db, h.pid)
        BY DEF stored
      <4> QED
        BY <3>1, <3>2, <4>1, AddToPathRead
    <3> QED
      BY <2>1, <3>3 DEF IsHeader
  <2>2. CASE h.addTo = <<>> /\ h.pid # NoPid
    <3>1. v = First(ReplyPathRules(h, db))
      BY <1>4, <2>2
    <3>2. v \in {ParentNotFound, Terminate, TimeTravel, Invalid, Continue}
      BY <3>1, ReplyPathRead
    <3> QED
      BY <1>6, <3>2 DEF AcceptAddTo, Continue, ParentNotFound, Terminate, TimeTravel, Invalid
  <2>3. CASE h.addTo = <<>> /\ h.pid = NoPid
    BY <1>4, <1>6, <2>3 DEF AcceptAddTo, Continue
  <2> QED
    BY <2>1, <2>2, <2>3
<1> QED
  BY <1>5, <1>6
============================================================================

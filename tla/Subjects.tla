----------------------------- MODULE Subjects -----------------------------
(***************************************************************************)
(* What an indicator refers to (cmd/fmsgd/indicators.go): a message or one *)
(* of its add-to batches, by hash, and in it a participant, by index.      *)
(* Subject <<m, 0>> is message m itself and <<m, b>> its b-th batch; each  *)
(* is its own hash, so two hosts that hold a subject agree on its header.  *)
(* An address stands for all its spellings (strings.EqualFold).            *)
(***************************************************************************)
EXTENDS Naturals, Sequences

CONSTANTS
    Msgs,       \* messages
    Addrs,      \* addresses
    Domains,    \* domains, one host each
    DomainOf,   \* [Addrs -> Domains]
    From,       \* [Msgs -> Addrs]
    To,         \* [Msgs -> sequences of Addrs]
    AddTo,      \* [Msgs -> sequences of batches [by : Addrs, to : sequence of Addrs]]
    MaxIndex    \* the largest participant index of a datagram: 2^16 - 1

ASSUME SubjectsAssumption ==
    /\ DomainOf \in [Addrs -> Domains]
    /\ From \in [Msgs -> Addrs]
    /\ To \in [Msgs -> Seq(Addrs)]
    /\ AddTo \in [Msgs -> Seq([by : Addrs, to : Seq(Addrs)])]
    /\ MaxIndex \in Nat

Hashes == UNION {{m} \X (0..Len(AddTo[m])) : m \in Msgs}

\* indicatorParticipants: the order both hosts derive from the header.
Participants(s) ==
    <<From[s[1]]>> \o To[s[1]] \o
        (IF s[2] = 0 THEN <<>>
         ELSE LET batch == AddTo[s[1]][s[2]] IN <<batch.by>> \o batch.to)

HasDomain(parts, d) == \E i \in DOMAIN parts : DomainOf[parts[i]] = d

\* The subjects that are transmitted to the host of d (or made there): the ones
\* its participants are in.
Held(d) == {s \in Hashes : HasDomain(Participants(s), d)}

Batches(m, d) == {b \in 1..Len(AddTo[m]) : <<m, b>> \in Held(d)}

\* A slip: the participants of the batch stand in for those of the original.
FromFirstBatch(m, d) ==
    IF Batches(m, d) = {} THEN <<>>
    ELSE Participants(<<m, CHOOSE b \in Batches(m, d) : \A c \in Batches(m, d) : b <= c>>)

\* originalFromBatch: an original that came only with a batch has no header of its
\* own, but the batch repeats its from and to.
OriginalFromBatch(m, d) ==
    IF Batches(m, d) = {} THEN <<>> ELSE <<From[m]>> \o To[m]

\* The participants of a subject at the host of d, empty if it is not known there
\* (subjectByHash, and each of the subjects of subjectsOf).
SubjectByHash(s, d) ==
    CASE s \in Held(d) -> Participants(s)
      [] s \notin Held(d) /\ s[2] = 0 -> OriginalFromBatch(s[1], d)
      [] OTHER -> <<>>

\* The lowest index of address a, counted from 0 (participantIndex).
ParticipantIndex(parts, a) ==
    (CHOOSE i \in DOMAIN parts : parts[i] = a /\ \A j \in 1..(i - 1) : parts[j] # a) - 1

Names(parts, a) == \E i \in DOMAIN parts : parts[i] = a

\* The subjects of m here, by id, that have participants both from d and a; the
\* original, 0, comes first.
Suitable(a, m, here, d) ==
    {b \in 0..Len(AddTo[m]) : LET parts == SubjectByHash(<<m, b>>, here)
                             IN  HasDomain(parts, d) /\ Names(parts, a)}

Target(a, m, here, d) ==
    LET b == CHOOSE x \in Suitable(a, m, here, d) : \A y \in Suitable(a, m, here, d) : x <= y
    IN  [domain |-> d, hash |-> <<m, b>>, index |-> ParticipantIndex(SubjectByHash(<<m, b>>, here), a)]

\* selectIndicatorTargets: at most one datagram for each remote domain, about a
\* subject that domain holds and that a is a participant of.
SelectIndicatorTargets(a, m, here) ==
    LET reachable == {d \in Domains \ {here} : Suitable(a, m, here, d) # {}}
    IN  {t \in {Target(a, m, here, d) : d \in reachable} : t.index <= MaxIndex}
============================================================================

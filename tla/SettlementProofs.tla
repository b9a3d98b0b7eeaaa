------------------------- MODULE SettlementProofs -------------------------
(***************************************************************************)
(* What the sender settles, and when: a row is written only by the         *)
(* goroutine that locked it while it was due, a refusal recorded is one    *)
(* that the receiver had reason for, and a reply waits for its parent.     *)
(***************************************************************************)
EXTENDS DeliveryProofs

\* No recipient is in two batches of one message, and a message is sent in one
\* original form.  (Where batches overlap, recording one touches the rows of the
\* other, and the results that assume this fail.)
Separate ==
    \A u, v \in Units : u # v /\ SameTable(u, v) => Recipients(u) \cap Recipients(v) = {}

\* The sender may try the row now, or could when it was younger.
Due(r) ==
    /\ ~row[r].done
    /\ row[r].code \in Retryable
    /\ row[r].last = Unsent \/ now - row[r].last > Backoff(row[r].tries)

\* What lockPendingRecipients and lockPendingNotify looked at stays so until the
\* lock is gone, because others wait for the lock before they write.
LockedIsDue == \A r \in Rows : lockedBy[r] # NoOne => Due(r)

\* What a connection says of the receiver besides Kept: the header exchange goes on
\* with 64, 65 or 11, a code per recipient is none of the codes for a header, 10 for
\* an original means that all its recipients there have it, and an accepted entry
\* of a batch that the batch is recorded.
Told(k) ==
    /\ k.plan \in {NullCode, Continue, SkipData, AcceptAddTo}
    /\ \A e \in Entries : k.codes[e] \in UserCodes \cup {NullCode, UserDuplicate, UserUndisclosed}
    /\ k.unit \notin Batches /\ k.init = Duplicate =>
           \A a \in LocalRecipients(k.unit, k.dom) : <<MsgOf[k.unit], a>> \in received
    /\ k.unit \in Batches /\ k.rx = "answered" =>
           \A e \in LocalEntries(k.unit, k.dom) :
               k.codes[e] = Accept => AddToBatchRecorded(k.dom, k.unit)

AllTold == \A c \in Conns : Told(conn[c])

SInv == IInv /\ Announced /\ LockedIsDue /\ AllTold /\ RefusedDuplicateIsReceived

----------------------------------------------------------------------------
\* The parent of message m is settled at domain d, and nobody there got it.
ParentRefused(m, d) ==
    \A p \in ParentRows(Parent[m], d) : ~row[p].done /\ row[p].code \notin Retryable

\* The reply waits for nothing at domain d: its parent is there, or refused.
Cleared(u, d) == ~ParentPendingForDomain(MsgOf[u], d)

\* A reply is sent after its parent.
ParentsSent ==
    \A u \in Units : sentAt[u] # Unsent /\ Parent[MsgOf[u]] # NoOne
                         => sentAt[Parent[MsgOf[u]]] # Unsent

\* A goroutine delivers what it found cleared, or what it will not transmit.
TodoCleared ==
    \A w \in Workers : \A u \in worker[w].todo :
        sentAt[u] # Unsent /\ (Forbidden(u) \/ Cleared(u, worker[w].dom))

ConnsCleared ==
    \A c \in Conns : conn[c].rx # "free" =>
        /\ Cleared(conn[c].unit, conn[c].dom)
        /\ conn[c].init = ParentNotFound /\ Parent[MsgOf[conn[c].unit]] # NoOne
               => ParentRefused(MsgOf[conn[c].unit], conn[c].dom)

\* A recipient has only messages that its host has.
ReceivedIsStored == \A p \in received : p[1] \in msgAt[DomainOf[p[2]]]

\* A row that was tried belongs to a unit that was sent.
TriedIsSent == \A r \in Rows : row[r].code # NullCode => sentAt[r[1]] # Unsent

RInv == /\ ParentsSent /\ TodoCleared /\ ConnsCleared /\ ReceivedIsStored /\ TriedIsSent
        /\ ReplyNeverOvertakesParent

----------------------------------------------------------------------------
(***************************************************************************)
(* Who writes a row, and what.                                             *)
(***************************************************************************)
\* The outcome of an exchange over connection k, as the columns x become y of a row
\* with this key: the header's code, or the code of the recipient's last entry.
Says(k, key, x, y) ==
    \/ k.init \in 1..10 /\ y.code = k.init /\ y.done = x.done
    \/ k.init = AcceptAddTo /\ k.unit \in Batches /\ y.code = AcceptAddTo
    \/ /\ k.rx = "answered"
       /\ y.code = CodeOf(k, key)
       /\ \/ y.done = x.done
          \/ key \in Domains
          \/ \E e \in LocalEntries(k.unit, k.dom) : e[2] = key /\ k.codes[e] = Accept

\* Goroutine w works on unit u and has locked, or just found, the row for this key.
WorksOn(w, u, key) ==
    /\ <<u, key>> \in Rows
    /\ Due(<<u, key>>)
    /\ KeyDomain(key) = worker[w].dom

\* Goroutine w, at work on unit u, writes row r.
Writes(w, u, r) ==
    /\ WorksOn(w, u, r[2])
    /\ IF r[2] \in Domains THEN r[1] = u ELSE SameTable(u, r[1])
    /\ sentAt[r[1]] # Unsent
    /\ lockedBy'[r] = NoOne
    /\ UNCHANGED <<now, sentAt>>
    /\ \/ row'[r].code \in {NoResponse, Invalid} /\ row'[r].done = row[r].done
       \/ /\ Busy(w)
          /\ worker[w].unit = u
          /\ Says(conn[worker[w].conn], r[2], row[r], row'[r])

\* Recording an outcome changes the rows it covers.
LEMMA RecordedChanges ==
  ASSUME IInv, NEW u, NEW ks, NEW good, NEW code, NEW was \in [Rows -> Row],
         \A r \in Rows : ~Covers(u, ks, r) => was[r] = row[r],
         row' = Recorded(was, u, ks, good, code), NEW r \in Rows, row'[r] # row[r]
  PROVE  /\ Covers(u, ks, r)
         /\ row'[r].code = code[r[2]]
         /\ row'[r].done = was[r].done \/ r[2] \in good
<1>1. was[r] \in Row
  OBVIOUS
<1>2. ASSUME NEW x \in Row, NEW c
      PROVE  /\ Delivered(x, c).code = c /\ Attempted(x, c).code = c
             /\ Attempted(x, c).done = x.done
  BY DEF Row, Delivered, Attempted
<1>3. row'[r] = IF ~Covers(u, ks, r) THEN was[r]
                ELSE IF r[2] \in good THEN Delivered(was[r], code[r[2]])
                                      ELSE Attempted(was[r], code[r[2]])
  BY DEF Recorded
<1> QED
  BY <1>1, <1>2, <1>3

\* The same, when the rows are those of before the step.
LEMMA RecordChanges ==
  ASSUME IInv, NEW u, NEW ks, NEW good, NEW code, Record(u, ks, good, code),
         NEW r \in Rows, row'[r] # row[r]
  PROVE  /\ Covers(u, ks, r)
         /\ row'[r].code = code[r[2]]
         /\ row'[r].done = row[r].done \/ r[2] \in good
<1>1. PICK was : was = row
  OBVIOUS
<1>2. was \in [Rows -> Row] /\ row' = Recorded(was, u, ks, good, code)
  BY <1>1 DEF IInv, TypeOK, SenderTypeOK, Record
<1>3. \A x \in Rows : was[x] = row[x]
  BY <1>1
<1> QED
  BY <1>2, <1>3, RecordedChanges

\* The keys a busy goroutine locked are of rows that are due.
LEMMA LockedKeys ==
  ASSUME IInv, LockedIsDue, NEW w \in Workers, Busy(w), NEW k \in worker[w].locked
  PROVE  WorksOn(w, worker[w].unit, k) /\ lockedBy[<<worker[w].unit, k>>] = w
<1>1. worker[w].unit \in Units
  BY BusyFacts
<1>2. /\ k \in Keys(worker[w].unit) /\ KeyDomain(k) = worker[w].dom
      /\ lockedBy[<<worker[w].unit, k>>] = w
  BY DEF IInv, Engaged
<1>3. <<worker[w].unit, k>> \in Rows
  BY <1>1, <1>2, RowsType
<1> QED
  BY <1>2, <1>3, SenderAssumption DEF LockedIsDue, WorksOn

\* The rows that a lock query finds are due.
LEMMA PendingIsDue ==
  ASSUME NEW r \in Rows, Pending(r)
  PROVE  Due(r) /\ sentAt[r[1]] # Unsent
BY DEF Pending, Due

\* A row covered by an outcome is the unit's own, or in the same table.
LEMMA CoveredRow ==
  ASSUME NEW u, NEW ks, NEW r \in Rows, Covers(u, ks, r), sentAt[u] # Unsent
  PROVE  /\ r[2] \in ks /\ sentAt[r[1]] # Unsent
         /\ IF r[2] \in Domains THEN r[1] = u ELSE SameTable(u, r[1])
BY DEF Covers

\* An outcome is written after every other goroutine has let go of the row.
LEMMA OutcomeWrites ==
  ASSUME IInv, Announced, LockedIsDue, NEW w \in Workers, Busy(w), EndUnit(w),
         NEW r \in Rows, Covers(worker[w].unit, worker[w].locked, r),
         \/ row'[r].code \in {NoResponse, Invalid} /\ row'[r].done = row[r].done
         \/ Says(conn[worker[w].conn], r[2], row[r], row'[r])
  PROVE  Writes(w, worker[w].unit, r)
<1> DEFINE u == worker[w].unit
           ks == worker[w].locked
<1>1. Covers(u, ks, r)
  OBVIOUS
<1>2. \A k \in ks : WorksOn(w, u, k)
  BY LockedKeys
<1>3. sentAt[u] # Unsent
  BY BusyFacts DEF IInv, Engaged, Announced
<1>4. /\ r[2] \in ks /\ sentAt[r[1]] # Unsent
      /\ IF r[2] \in Domains THEN r[1] = u ELSE SameTable(u, r[1])
  BY <1>1, <1>3, CoveredRow
<1>5. lockedBy[r] \in Workers \cup {NoOne}
  BY DEF IInv, TypeOK, SenderTypeOK
<1>6. lockedBy[r] \in {NoOne, w}
  BY <1>1, <1>5 DEF EndUnit, Waits, Blocks
<1>7. lockedBy'[r] = NoOne
  BY <1>6 DEF EndUnit, Unlock
<1> QED
  BY <1>2, <1>4, <1>7 DEF Writes, EndUnit

\* The same when the outcome may be lost with a failed commit.
LEMMA FinishWrites ==
  ASSUME IInv, Announced, LockedIsDue, NEW w \in Workers, Busy(w), NEW good, NEW code,
         Finish(w, good, code), NEW r \in Rows, row'[r] # row[r],
         \A x, y : /\ y.code = code[r[2]]
                   /\ y.done = x.done \/ r[2] \in good
                   /\ r[2] \in worker[w].locked
                   => \/ y.code \in {NoResponse, Invalid} /\ y.done = x.done
                      \/ Says(conn[worker[w].conn], r[2], x, y)
  PROVE  Writes(w, worker[w].unit, r)
<1>1. Record(worker[w].unit, worker[w].locked, good, code) /\ EndUnit(w)
  BY DEF Finish, FinishOver, Record
<1>2. /\ Covers(worker[w].unit, worker[w].locked, r)
      /\ row'[r].code = code[r[2]]
      /\ row'[r].done = row[r].done \/ r[2] \in good
  BY <1>1, RecordChanges
<1>3. r[2] \in worker[w].locked
  BY <1>2 DEF Covers
<1>4. \/ row'[r].code \in {NoResponse, Invalid} /\ row'[r].done = row[r].done
      \/ Says(conn[worker[w].conn], r[2], row[r], row'[r])
  BY <1>2, <1>3
<1> QED
  BY <1>1, <1>2, <1>4, OutcomeWrites

\* What the codes read leave in a row: its last code, and a mark from it or from the
\* code of to that was read before it.
LEMMA ReadRows ==
  ASSUME IInv, NEW w \in Workers, Busy(w), NEW good, NEW code,
         FinishOver(AfterToCodes(w), w, good, code), NEW r \in Rows, row'[r] # row[r]
  PROVE  /\ EndUnit(w)
         /\ Covers(worker[w].unit, worker[w].locked, r)
         /\ row'[r].code = code[r[2]]
         /\ \/ row'[r].done = row[r].done
            \/ r[2] \in good
            \/ /\ r[2] \in worker[w].locked \cap InBothLists(worker[w].unit)
               /\ conn[worker[w].conn].codes[<<"to", r[2]>>] = Accept
<1>1. PICK was : was = AfterToCodes(w)
  OBVIOUS
<1>2. was \in [Rows -> Row]
  BY <1>1, TwiceWritten
<1>3. \A x \in Rows : ~Covers(worker[w].unit, worker[w].locked, x) => was[x] = row[x]
  BY <1>1, TwiceWritten
<1>4. was[r].done # row[r].done =>
          /\ r[2] \in worker[w].locked \cap InBothLists(worker[w].unit)
          /\ conn[worker[w].conn].codes[<<"to", r[2]>>] = Accept
  BY <1>1, TwiceWritten
<1>5. EndUnit(w) /\ row' = Recorded(was, worker[w].unit, worker[w].locked, good, code)
  BY <1>1 DEF FinishOver
<1>6. /\ Covers(worker[w].unit, worker[w].locked, r)
      /\ row'[r].code = code[r[2]]
      /\ row'[r].done = was[r].done \/ r[2] \in good
  BY <1>2, <1>3, <1>5, RecordedChanges
<1> QED
  BY <1>4, <1>5, <1>6

\* A row that a step changes is written by a goroutine at work on a row that is due,
\* with an outcome of its exchange (updateRecipient, updateNotify).
LEMMA RowsChanged ==
  ASSUME IInv, Announced, LockedIsDue, SenderNext, NEW r \in Rows, row'[r] # row[r]
  PROVE  \E w \in Workers, u \in Units : Writes(w, u, r)
<1>1. PICK w \in Workers : WorkerStep(w)
  BY DEF SenderNext, Finalize, Tick, Poll, SenderCrash
<1>2. r[2] \in Addrs \cup Domains
  BY RowsType
<1>3. \A c : Everyone(c)[r[2]] = c
  BY <1>2 DEF Everyone
<1>4. ASSUME NEW u \in Units, RecordUnitInvalid(w, u)
      PROVE  Writes(w, u, r)
  <2>1. Record(u, Owed(w, u), {}, Everyone(Invalid))
    BY <1>4 DEF RecordUnitInvalid
  <2>2. Covers(u, Owed(w, u), r) /\ row'[r].code = Invalid /\ row'[r].done = row[r].done
    BY <1>3, <2>1, RecordChanges
  <2>3. \A k \in Owed(w, u) :
            <<u, k>> \in Rows /\ Pending(<<u, k>>) /\ KeyDomain(k) = worker[w].dom
    BY RowsType DEF Owed, LockPending
  <2>4. \A k \in Owed(w, u) : WorksOn(w, u, k) /\ sentAt[u] # Unsent
    BY <2>3, PendingIsDue DEF WorksOn
  <2>5. r[2] \in Owed(w, u)
    BY <2>2 DEF Covers
  <2>6. /\ sentAt[r[1]] # Unsent
        /\ IF r[2] \in Domains THEN r[1] = u ELSE SameTable(u, r[1])
    BY <2>2, <2>4, <2>5, CoveredRow
  <2>7. lockedBy'[r] = NoOne
    <3>1. ~Busy(w) /\ lockedBy' = lockedBy
      BY <1>4 DEF RecordUnitInvalid, NextUnit, Busy
    <3>2. lockedBy[r] \in Workers \cup {NoOne}
      BY DEF IInv, TypeOK, SenderTypeOK
    <3>3. lockedBy[r] # w
      BY <3>1, SenderAssumption DEF IInv, LocksAreHeld
    <3> QED
      BY <1>4, <2>2, <3>1, <3>2, <3>3 DEF RecordUnitInvalid, Blocks
  <2> QED
    BY <1>4, <2>2, <2>4, <2>5, <2>6, <2>7 DEF Writes, RecordUnitInvalid
<1>5. CASE ReadInit(w)
  <2> DEFINE k == conn[worker[w].conn]
  <2>1. Busy(w) /\ k.unit = worker[w].unit
    BY <1>5, BusyFacts DEF ReadInit, Busy
  <2>2. CASE k.init = AcceptAddTo /\ worker[w].unit \in Batches
             /\ Finish(w, worker[w].locked, Everyone(k.init))
    <3>1. ASSUME NEW x, NEW y, y.code = Everyone(k.init)[r[2]]
          PROVE  Says(k, r[2], x, y)
      BY <1>3, <2>1, <2>2, <3>1 DEF Says
    <3> QED
      BY <2>1, <2>2, <3>1, FinishWrites, BusyFacts
  <2>3. CASE k.init \in 1..10 /\ Finish(w, {}, Everyone(k.init))
    <3>1. ASSUME NEW x, NEW y, y.code = Everyone(k.init)[r[2]], y.done = x.done
          PROVE  Says(k, r[2], x, y)
      BY <1>3, <2>3, <3>1 DEF Says
    <3> QED
      BY <2>1, <2>3, <3>1, FinishWrites, BusyFacts
  <2> QED
    BY <1>5, <2>2, <2>3 DEF ReadInit
<1>6. CASE ReadCodes(w)
  <2> DEFINE k == conn[worker[w].conn]
             code == [x \in Addrs \cup Domains |-> CodeOf(k, x)]
             good == {x \in worker[w].locked : x \in Domains \/ code[x] = Accept}
  <2>1. Busy(w) /\ k.rx = "answered" /\ FinishOver(AfterToCodes(w), w, good, code)
    BY <1>6 DEF ReadCodes, Busy
  <2>2. /\ code[r[2]] = CodeOf(k, r[2])
        /\ r[2] \in good <=> r[2] \in worker[w].locked /\ (r[2] \in Domains \/ code[r[2]] = Accept)
    BY <1>2
  <2> HIDE DEF code, good
  <2>3. /\ EndUnit(w)
        /\ Covers(worker[w].unit, worker[w].locked, r)
        /\ row'[r].code = code[r[2]]
        /\ \/ row'[r].done = row[r].done
           \/ r[2] \in good
           \/ /\ r[2] \in worker[w].locked \cap InBothLists(worker[w].unit)
              /\ k.codes[<<"to", r[2]>>] = Accept
    BY <2>1, ReadRows
  <2>4. ASSUME Says(k, r[2], row[r], row'[r])
        PROVE  Writes(w, worker[w].unit, r)
    <3>1. \/ row'[r].code \in {NoResponse, Invalid} /\ row'[r].done = row[r].done
          \/ Says(conn[worker[w].conn], r[2], row[r], row'[r])
      BY <2>4
    <3>2. /\ Busy(w) /\ EndUnit(w)
          /\ Covers(worker[w].unit, worker[w].locked, r)
      BY <2>1, <2>3
    <3> HIDE DEF k
    <3> QED
      BY <3>1, <3>2, OutcomeWrites
  <2>5. /\ k.unit = worker[w].unit /\ k.dom = worker[w].dom /\ worker[w].unit \in Units
        /\ \A x \in worker[w].locked : x \in Addrs =>
               x \in Recipients(worker[w].unit) /\ DomainOf[x] = worker[w].dom
    BY <2>1, BusyFacts
  <2>6. CASE row'[r].done = row[r].done \/ r[2] \in Domains
    <3>1. Says(k, r[2], row[r], row'[r])
      BY <2>1, <2>2, <2>3, <2>6 DEF Says
    <3> QED
      BY <2>4, <2>5, <3>1
  <2>7. CASE row'[r].done # row[r].done /\ r[2] \notin Domains
    <3>1. r[2] \in worker[w].locked /\ r[2] \in Addrs
      BY <1>2, <2>3, <2>7 DEF Covers
    <3>2. \E e \in LocalEntries(k.unit, k.dom) : e[2] = r[2] /\ k.codes[e] = Accept
      <4>1. CASE r[2] \in good
        <5>1. LastCode(k.unit, k.codes, r[2]) = Accept
          BY <2>2, <2>7, <3>1, <4>1 DEF CodeOf
        <5> QED
          BY <2>5, <3>1, <5>1, LastEntry
      <4>2. CASE r[2] \notin good
        <5>1. r[2] \in InBothLists(worker[w].unit) /\ k.codes[<<"to", r[2]>>] = Accept
          BY <2>3, <2>7, <4>2
        <5>2. k.unit = worker[w].unit
          BY <2>5
        <5>3. r[2] \in To[MsgOf[k.unit]]
          BY <5>1, <5>2 DEF InBothLists
        <5>4. <<"to", r[2]>> \in LocalEntries(k.unit, k.dom)
          BY <2>5, <3>1, <5>3 DEF LocalEntries, Entries, Lists, Listed
        <5> QED
          BY <5>1, <5>4
      <4> QED
        BY <4>1, <4>2
    <3>3. Says(k, r[2], row[r], row'[r])
      BY <2>1, <2>2, <2>3, <3>2 DEF Says
    <3> QED
      BY <2>4, <2>5, <3>3
  <2> QED
    BY <2>5, <2>6, <2>7
<1>7. CASE ConnectionLost(w)
  <2>1. Busy(w) /\ Finish(w, {}, Everyone(NoResponse))
    BY <1>7 DEF ConnectionLost, RecordRetryableFailure, Busy
  <2> QED
    BY <1>3, <2>1, FinishWrites, BusyFacts
<1>8. CASE Timeout(w)
  <2>1. /\ Busy(w) /\ EndUnit(w)
        /\ Record(worker[w].unit, worker[w].locked, {}, Everyone(NoResponse))
    BY <1>8 DEF Timeout, Busy
  <2>2. row'[r].code = NoResponse /\ row'[r].done = row[r].done
    BY <1>3, <2>1, RecordChanges
  <2>3. Covers(worker[w].unit, worker[w].locked, r)
    BY <2>1, RecordChanges
  <2> QED
    BY <2>1, <2>2, <2>3, OutcomeWrites, BusyFacts
<1> QED
  BY <1>1, <1>4, <1>5, <1>6, <1>7, <1>8 DEF WorkerStep, Dispatch, SkipUnit, DeliverUnit,
     DeadlockVictim

----------------------------------------------------------------------------
(***************************************************************************)
(* What is locked is due.                                                  *)
(***************************************************************************)
\* The back-off is a number, so a row that was due stays due as time passes.
LEMMA BackoffType ==
  ASSUME NEW n \in Nat
  PROVE  Backoff(n) \in Int
BY SenderAssumption DEF Backoff

\* A row that is left alone stays due.
LEMMA DueStays ==
  ASSUME IInv, NEW r \in Rows, Due(r), row'[r] = row[r], now' = now \/ now' = now + 1
  PROVE  Due(r)'
<1>1. row[r] \in Row /\ now \in Nat
  BY DEF IInv, TypeOK, SenderTypeOK
<1>2. row[r].last \in Int /\ Backoff(row[r].tries) \in Int
  BY <1>1, BackoffType DEF Row
<1>3. Backoff(row[r].tries)' = Backoff(row[r].tries)
  BY DEF Backoff
<1>4. now - row[r].last > Backoff(row[r].tries) => now' - row[r].last > Backoff(row[r].tries)
  BY <1>1, <1>2
<1> QED
  BY <1>3, <1>4 DEF Due, Unsent, Retryable

\* A lock is kept, or taken on a row that is pending.
LEMMA LocksTaken ==
  ASSUME IInv, SenderNext, NEW r \in Rows, lockedBy'[r] # NoOne
  PROVE  lockedBy'[r] = lockedBy[r] \/ (Pending(r) /\ row' = row /\ now' = now)
<1>1. CASE \E u \in Units : Finalize(u)
  BY <1>1 DEF Finalize
<1>2. CASE Tick \/ Poll \/ SenderCrash
  BY <1>2 DEF Tick, Poll, SenderCrash
<1>3. ASSUME NEW w \in Workers, WorkerStep(w)
      PROVE  lockedBy'[r] = lockedBy[r] \/ (Pending(r) /\ row' = row /\ now' = now)
  <2>1. CASE Unlock(w)
    BY <2>1 DEF Unlock
  <2>2. ASSUME NEW u \in Units, NEW c \in Conns, DeliverUnit(w, u, c)
        PROVE  lockedBy'[r] = lockedBy[r] \/ (Pending(r) /\ row' = row /\ now' = now)
    BY <2>2 DEF DeliverUnit, LockPending
  <2> QED
    BY <1>3, <2>1, <2>2 DEF WorkerStep, Dispatch, SkipUnit, RecordUnitInvalid, ReadInit, ReadCodes,
       ConnectionLost, RecordRetryableFailure, Timeout, DeadlockVictim, Finish,
       FinishOver, EndUnit
<1> QED
  BY <1>1, <1>2, <1>3 DEF SenderNext

\* The clock moves by one or stands still.
LEMMA ClockMoves ==
  ASSUME SenderNext
  PROVE  now' = now \/ now' = now + 1
<1>1. ASSUME NEW w \in Workers, WorkerStep(w)
      PROVE  now' = now
  <2>1. CASE EndUnit(w)
    BY <2>1 DEF EndUnit
  <2> QED
    BY <1>1, <2>1 DEF WorkerStep, Dispatch, SkipUnit, RecordUnitInvalid, DeliverUnit, ReadInit,
       ReadCodes, ConnectionLost, RecordRetryableFailure, Timeout, DeadlockVictim, Finish,
       FinishOver
<1> QED
  BY <1>1 DEF SenderNext, Finalize, Tick, Poll, SenderCrash

\* A locked row is written only as it is unlocked, so it stays due until then.
LEMMA SenderKeepsLocked ==
  ASSUME IInv, Announced, LockedIsDue, SenderNext
  PROVE  LockedIsDue'
<1> SUFFICES ASSUME NEW r \in Rows, lockedBy'[r] # NoOne
             PROVE  Due(r)'
  BY DEF LockedIsDue
<1>1. row'[r] = row[r]
  BY RowsChanged DEF Writes
<1>2. Due(r)
  BY LocksTaken, PendingIsDue DEF LockedIsDue
<1> QED
  BY <1>1, <1>2, ClockMoves, DueStays

\* Handlers have no part in it.
LEMMA OthersKeepLocked ==
  ASSUME IInv, LockedIsDue, UNCHANGED senderVars
  PROVE  LockedIsDue'
<1> SUFFICES ASSUME NEW r \in Rows, lockedBy'[r] # NoOne
             PROVE  Due(r)'
  BY DEF LockedIsDue
<1> QED
  BY DueStays DEF LockedIsDue, senderVars

----------------------------------------------------------------------------
(***************************************************************************)
(* What the receivers tell.                                                *)
(***************************************************************************)
\* Connection k goes on as y, for all that is said over it.
SameExchange(k, y) ==
    /\ y.rx = k.rx /\ y.unit = k.unit /\ y.dom = k.dom
    /\ y.plan = k.plan /\ y.init = k.init /\ y.codes = k.codes

\* A step of the sender closes a connection, opens one, or does no more than send the
\* payload over it.
LEMMA SenderTouches ==
  ASSUME IInv, SenderNext, NEW c \in Conns
  PROVE  \/ conn'[c] = FreeConn
         \/ SameExchange(conn[c], conn'[c])
         \/ \E w \in Workers, u \in Units :
                DeliverUnit(w, u, c) /\ conn'[c] = HeaderSent(u, worker[w].dom)
<1>1. conn \in [Conns -> Connection] /\ conn[c] \in Connection
  BY DEF IInv, TypeOK, WireTypeOK
<1>2. ASSUME conn'[c] = conn[c] \/ conn'[c] = Shut(conn[c])
      PROVE  conn'[c] = FreeConn \/ SameExchange(conn[c], conn'[c])
  BY <1>1, <1>2, ShutType DEF SameExchange
<1>3. ASSUME NEW w \in Workers, Close(w)
      PROVE  conn'[c] = FreeConn \/ SameExchange(conn[c], conn'[c])
  BY <1>2, <1>3 DEF Close
<1>4. ASSUME NEW w \in Workers, NEW u \in Units, NEW y \in Conns, DeliverUnit(w, u, y)
      PROVE  \/ conn'[c] = conn[c]
             \/ DeliverUnit(w, u, c) /\ conn'[c] = HeaderSent(u, worker[w].dom)
  <2>1. conn' = [conn EXCEPT ![y] = HeaderSent(u, worker[w].dom)]
    BY <1>4 DEF DeliverUnit
  <2> QED
    BY <1>1, <1>4, <2>1
<1>5. ASSUME NEW w \in Workers, ReadInit(w)
      PROVE  conn'[c] = FreeConn \/ SameExchange(conn[c], conn'[c])
  <2>1. CASE Close(w)
    BY <1>3, <2>1
  <2>2. CASE conn' = [conn EXCEPT ![worker[w].conn].data = (conn[worker[w].conn].init = Continue)]
    BY <1>1, <2>2 DEF Connection, SameExchange
  <2> QED
    BY <1>5, <2>1, <2>2 DEF ReadInit, Finish, FinishOver, EndUnit
<1>6. ASSUME NEW w \in Workers, ReadCodes(w) \/ ConnectionLost(w) \/ Timeout(w) \/ DeadlockVictim(w)
      PROVE  Close(w)
  BY <1>6 DEF ReadCodes, ConnectionLost, RecordRetryableFailure, Timeout, DeadlockVictim,
     Finish, FinishOver, EndUnit
<1>7. ASSUME NEW w \in Workers, WorkerStep(w)
      PROVE  \/ UNCHANGED conn \/ Close(w) \/ ReadInit(w)
             \/ \E u \in Units, y \in Conns : DeliverUnit(w, u, y)
  BY <1>6, <1>7 DEF WorkerStep, Dispatch, SkipUnit, RecordUnitInvalid
<1>8. CASE SenderCrash
  BY <1>2, <1>8 DEF SenderCrash
<1> QED
  BY <1>2, <1>3, <1>4, <1>5, <1>7, <1>8 DEF SenderNext, Finalize, Tick, Poll

\* A connection that has been said nothing over tells nothing.
LEMMA SilentIsTold ==
  ASSUME NEW c \in Conns, conn'[c] = FreeConn \/ \E u, d : conn'[c] = HeaderSent(u, d)
  PROVE  Told(conn[c])'
<1>1. /\ conn'[c].codes = NoCodes /\ conn'[c].init = NullCode /\ conn'[c].plan = NullCode
      /\ conn'[c].rx # "answered"
  <2>1. CASE conn'[c] = FreeConn
    BY <2>1 DEF FreeConn
  <2>2. ASSUME NEW u, NEW d, conn'[c] = HeaderSent(u, d)
        PROVE  /\ conn'[c].codes = NoCodes /\ conn'[c].init = NullCode
               /\ conn'[c].plan = NullCode /\ conn'[c].rx = "header"
    BY <2>2 DEF HeaderSent
  <2> QED
    BY <2>1, <2>2
<1>2. NullCode # Duplicate
  BY DEF NullCode, Duplicate
<1> QED
  BY <1>1, <1>2 DEF Told, NoCodes

\* What was told stays true: receivers lose nothing.
LEMMA ToldStays ==
  ASSUME NEW c \in Conns, Told(conn[c]), received \subseteq received',
         SameExchange(conn[c], conn'[c]),
         batchRows[conn[c].dom][conn[c].unit] > 0 => batchRows'[conn[c].dom][conn[c].unit] > 0
  PROVE  Told(conn[c])'
BY DEF Told, AddToBatchRecorded, SameExchange

\* The sender changes nothing that it was told.
LEMMA SenderKeepsTold ==
  ASSUME IInv, AllTold, SenderNext, UNCHANGED receiverVars
  PROVE  AllTold'
<1> SUFFICES ASSUME NEW c \in Conns
             PROVE  Told(conn[c])'
  BY DEF AllTold
<1>1. Told(conn[c]) /\ received' = received /\ batchRows' = batchRows
  BY DEF AllTold, receiverVars
<1> QED
  BY <1>1, SenderTouches, SilentIsTold, ToldStays

\* A handler stores what it adds, and forgets nothing.
LEMMA StoresGrow ==
  ASSUME IInv, NEW c \in Conns, HandlerStep(c)
  PROVE  /\ received \subseteq received'
         /\ \A d \in Domains, u \in Units : batchRows[d][u] > 0 => batchRows'[d][u] > 0
         /\ \A d \in Domains : msgAt[d] \subseteq msgAt'[d]
         /\ ReceivedIsStored => ReceivedIsStored'
<1> DEFINE u == conn[c].unit
           d == conn[c].dom
<1>1. u \in Units /\ d \in Domains /\ MsgOf[u] \in Msgs
  BY HandlerFacts, WireAssumption
<1>2. ReceiverTypeOK
  BY DEF IInv, TypeOK
<1>3. ASSUME MsgOf[u] \in msgAt[d], AttachAddToRecipients(u, d)
      PROVE  /\ received \subseteq received'
             /\ \A e \in Domains, v \in Units : batchRows[e][v] > 0 => batchRows'[e][v] > 0
             /\ \A e \in Domains : msgAt[e] \subseteq msgAt'[e]
             /\ ReceivedIsStored => ReceivedIsStored'
  <2>1. /\ received \subseteq received'
        /\ \A e \in Domains, v \in Units : batchRows[e][v] > 0 => batchRows'[e][v] > 0
    BY <1>1, <1>3, AttachFacts
  <2> QED
    BY <1>3, <2>1 DEF AttachAddToRecipients, AddToAt, ReceivedIsStored
<1>4. \A codes, a : a \in DeliveredHere(u, d, codes) => DomainOf[a] = d
  BY DEF DeliveredHere, LocalRecipients, LocalEntries
<1>5. ASSUME NEW codes, StoreMsgDetail(u, d, codes)
      PROVE  /\ received \subseteq received'
             /\ \A e \in Domains, v \in Units : batchRows[e][v] > 0 => batchRows'[e][v] > 0
             /\ \A e \in Domains : msgAt[e] \subseteq msgAt'[e]
             /\ ReceivedIsStored => ReceivedIsStored'
  <2>1. /\ received \subseteq received'
        /\ \A e \in Domains, v \in Units : batchRows[e][v] > 0 => batchRows'[e][v] > 0
    BY <1>1, <1>5, StoreFacts
  <2>2. CASE MsgOf[u] \in msgAt[d]
    BY <1>3, <1>5, <2>2 DEF StoreMsgDetail
  <2>3. CASE InsertMessage(u, d, codes)
    <3>1. /\ \A e \in Domains : msgAt[e] \subseteq msgAt'[e]
          /\ MsgOf[u] \in msgAt'[d]
      BY <1>1, <1>2, <2>3 DEF InsertMessage, ReceiverTypeOK
    <3>2. ReceivedIsStored => ReceivedIsStored'
      <4> SUFFICES ASSUME ReceivedIsStored, NEW p \in received'
                   PROVE  p[1] \in msgAt'[DomainOf[p[2]]]
        BY DEF ReceivedIsStored
      <4>1. CASE p \in received
        <5>1. DomainOf[p[2]] \in Domains /\ p[1] \in msgAt[DomainOf[p[2]]]
          BY <1>2, <4>1, WireAssumption DEF ReceivedIsStored, ReceiverTypeOK
        <5> QED
          BY <3>1, <5>1
      <4>2. CASE p \in {MsgOf[u]} \X DeliveredHere(u, d, codes)
        BY <1>4, <3>1, <4>2
      <4> QED
        BY <2>3, <4>1, <4>2 DEF InsertMessage
    <3> QED
      BY <2>1, <3>1, <3>2
  <2> QED
    BY <1>5, <2>2, <2>3 DEF StoreMsgDetail
<1>6. CASE UNCHANGED receiverVars
  BY <1>6 DEF receiverVars, ReceivedIsStored
<1>7. \/ UNCHANGED receiverVars
      \/ MsgOf[u] \in msgAt[d] /\ AttachAddToRecipients(u, d)
      \/ \E codes : StoreMsgDetail(u, d, codes)
  BY DEF HandlerStep, ReadHeader, RespondToHeader, RespondUndisclosed, ValidateRecipients,
     StoreAcceptedMessage, Abort, StoreMsgHeaderOnly, receiverVars
<1> QED
  BY <1>3, <1>5, <1>6, <1>7

\* The codes of a header exchange that need telling apart.
LEMMA HeaderCodes ==
    /\ Duplicate \notin {NullCode, Invalid, Undisclosed, ParentNotFound, AcceptAddTo, Continue,
                         SkipData, NoResponse}
    /\ ParentNotFound \notin {NullCode, Invalid, Undisclosed, AcceptAddTo, Continue, SkipData,
                              NoResponse}
    /\ Duplicate \notin UserCodes \cup {UserDuplicate, UserUndisclosed}
    /\ ParentNotFound \notin UserCodes \cup {UserDuplicate, UserUndisclosed}
BY DEF UserCodes, NullCode, Invalid, Undisclosed, ParentNotFound, Duplicate, AcceptAddTo, Continue,
       SkipData, UserUnknown, UserFull, UserNotAccepting, UserDuplicate, UserUndisclosed, Accept,
       NoResponse

\* A handler leaves the other connections as they are.
LEMMA HandlerElsewhere ==
  ASSUME IInv, NEW c \in Conns, HandlerStep(c), NEW y \in Conns, y # c
  PROVE  conn'[y] = conn[y]
<1>1. conn \in [Conns -> Connection]
  BY DEF IInv, TypeOK, WireTypeOK
<1>2. CASE ReadHeader(c) \/ Abort(c) \/ RespondUndisclosed(c)
  BY <1>1, <1>2 DEF ReadHeader, Abort, RespondUndisclosed, Respond
<1>3. CASE RespondToHeader(c)
  BY <1>1, <1>3 DEF RespondToHeader, Respond
<1>4. CASE ValidateRecipients(c)
  BY <1>1, <1>4 DEF ValidateRecipients
<1>5. CASE StoreAcceptedMessage(c)
  BY <1>1, <1>5 DEF StoreAcceptedMessage, Answer
<1> QED
  BY <1>2, <1>3, <1>4, <1>5 DEF HandlerStep

\* A refusal that is not 10 for an original may be written at any time.
LEMMA RespondIsTold ==
  ASSUME IInv, NEW c \in Conns, Told(conn[c]), NEW code \in Codes, Respond(c, code),
         code = Duplicate /\ conn[c].unit \notin Batches =>
             \A a \in LocalRecipients(conn[c].unit, conn[c].dom) :
                 <<MsgOf[conn[c].unit], a>> \in received'
  PROVE  Told(conn[c])'
<1>1. conn[c] \in Connection /\ conn'[c] = Closed(conn[c], code)
  BY HandlerFacts DEF Respond
<1>2. CASE conn'[c] = FreeConn
  BY <1>2, SilentIsTold
<1>3. CASE conn'[c] = [conn[c] EXCEPT !.rx = "closed", !.init = code]
  <2>1. /\ conn'[c].rx = "closed" /\ conn'[c].init = code /\ conn'[c].codes = conn[c].codes
        /\ conn'[c].plan = conn[c].plan
        /\ conn'[c].unit = conn[c].unit /\ conn'[c].dom = conn[c].dom
    BY <1>1, <1>3 DEF Connection
  <2> QED
    BY <2>1 DEF Told
<1> QED
  BY <1>1, <1>2, <1>3 DEF Closed, Recycle

\* The codes are written: an accepted entry of a batch is of a batch on record.
LEMMA AnswerIsTold ==
  ASSUME IInv, NEW c \in Conns, Told(conn[c]), NEW codes \in [Entries -> Codes], Answer(c, codes),
         \A e \in Entries : codes[e] \in UserCodes \cup {NullCode, UserDuplicate, UserUndisclosed},
         received \subseteq received',
         conn[c].unit \in Batches =>
             \A e \in LocalEntries(conn[c].unit, conn[c].dom) :
                 codes[e] = Accept => batchRows'[conn[c].dom][conn[c].unit] > 0
  PROVE  Told(conn[c])'
<1>1. conn[c] \in Connection /\ conn'[c] = Answered(conn[c], codes)
  BY HandlerFacts DEF Answer
<1>2. CASE conn'[c] = FreeConn
  BY <1>2, SilentIsTold
<1>3. CASE conn'[c] # FreeConn
  <2>1. /\ conn'[c].init = conn[c].init /\ conn'[c].codes = codes /\ conn'[c].plan = conn[c].plan
        /\ conn'[c].unit = conn[c].unit /\ conn'[c].dom = conn[c].dom
    BY <1>1, <1>3, AnsweredFields
  <2> QED
    BY <2>1 DEF Told, AddToBatchRecorded
<1> QED
  BY <1>2, <1>3

\* Storing a batch records it.
LEMMA BatchIsStored ==
  ASSUME IInv, NEW u \in Batches, NEW d \in Domains, NEW codes, StoreMsgDetail(u, d, codes)
  PROVE  batchRows'[d][u] > 0
<1>1. batchRows[d][u] \in Nat /\ u \in Units
  BY WireAssumption DEF IInv, TypeOK, ReceiverTypeOK
<1>2. batchRows' = [batchRows EXCEPT ![d][u] = @ + 1]
  BY DEF StoreMsgDetail, AttachAddToRecipients, InsertMessage
<1>3. batchRows'[d][u] = batchRows[d][u] + 1
  BY <1>1, <1>2 DEF IInv, TypeOK, ReceiverTypeOK
<1> QED
  BY <1>1, <1>3

\* Whatever a handler tells is so: a duplicate because all have the message, an accepted
\* batch because it was recorded before the codes are written.
LEMMA HandlerKeepsTold ==
  ASSUME IInv, AllTold, NEW c \in Conns, HandlerStep(c)
  PROVE  AllTold'
<1> DEFINE k == conn[c]
           u == conn[c].unit
           d == conn[c].dom
<1>1. /\ k \in Connection /\ u \in Units /\ d \in Domains /\ k.codes \in [Entries -> Codes]
      /\ k.plan \in Codes /\ Told(k)
  BY HandlerFacts DEF AllTold
<1>2. received \subseteq received' /\ (batchRows[d][u] > 0 => batchRows'[d][u] > 0)
  BY <1>1, StoresGrow
<1>3. ASSUME NEW y \in Conns, y # c
      PROVE  Told(conn[y])'
  <2>1. SameExchange(conn[y], conn'[y])
    BY <1>3, HandlerElsewhere DEF SameExchange
  <2>2. Told(conn[y]) /\ conn[y].unit \in Units /\ conn[y].dom \in Domains
    BY HandlerFacts DEF AllTold
  <2> QED
    BY <2>1, <2>2, StoresGrow, ToldStays
<1> SUFFICES Told(conn[c])'
  BY <1>3 DEF AllTold
<1>4. CASE ReadHeader(c)
  <2>1. HeaderVerdict(u, d) \in Codes
    BY <1>1, VerdictFacts, CodesType
  <2>2. u \notin Batches => HeaderVerdict(u, d) \in {Continue, ParentNotFound, Invalid}
    BY DEF HeaderVerdict, ReplyVerdict
  <2>3. CASE Respond(c, HeaderVerdict(u, d))
    BY <1>1, <2>1, <2>2, <2>3, RespondIsTold, HeaderCodes
  <2>4. CASE /\ HeaderVerdict(u, d) \in {Continue, SkipData, AcceptAddTo}
             /\ conn' = [conn EXCEPT ![c] = Checked(@, HeaderVerdict(u, d))]
    <3>1. conn'[c] = Checked(k, HeaderVerdict(u, d))
      BY <2>4, HandlerFacts
    <3>2. /\ conn'[c].rx = "checked" /\ conn'[c].plan = HeaderVerdict(u, d)
          /\ conn'[c].init = k.init /\ conn'[c].codes = k.codes
          /\ conn'[c].unit = u /\ conn'[c].dom = d
      BY <1>1, <3>1 DEF Checked, Connection
    <3> HIDE DEF k, u, d
    <3> QED
      BY <1>1, <1>2, <2>4, <3>2 DEF Told, k, u, d
  <2> QED
    BY <1>4, <2>3, <2>4 DEF ReadHeader
<1>5. CASE RespondToHeader(c)
  <2>1. PICK challenged \in ChallengeModes :
          \/ Respond(c, AcceptAddTo)
          \/ /\ ResolvePostChallengeCode(k.plan, challenged, AllLocalDup(u, d)) = Duplicate
             /\ Respond(c, Duplicate)
          \/ \E code \in {Continue, SkipData} : conn' = [conn EXCEPT ![c] = Responded(@, code)]
    BY <1>5 DEF RespondToHeader
  <2>2. CASE Respond(c, AcceptAddTo)
    BY <1>1, <2>2, RespondIsTold, HeaderCodes, CodesType
  <2>3. CASE /\ ResolvePostChallengeCode(k.plan, challenged, AllLocalDup(u, d)) = Duplicate
             /\ Respond(c, Duplicate)
    <3>1. AllLocalDup(u, d)
      BY <1>1, <2>3, HeaderCodes DEF ResolvePostChallengeCode, Told
    <3>2. \A a \in LocalRecipients(u, d) : <<MsgOf[u], a>> \in received'
      BY <1>2, <3>1 DEF AllLocalDup, HasAddrReceivedMsgHash
    <3> QED
      BY <1>1, <2>3, <3>2, RespondIsTold, CodesType
  <2>4. ASSUME NEW code \in {Continue, SkipData}, conn' = [conn EXCEPT ![c] = Responded(@, code)]
        PROVE  Told(conn[c])'
    <3>1. conn'[c] = Responded(k, code)
      BY <2>4, HandlerFacts
    <3>2. /\ conn'[c].rx = "responded" /\ conn'[c].plan = k.plan /\ conn'[c].init = code
          /\ conn'[c].codes = k.codes /\ conn'[c].unit = u /\ conn'[c].dom = d
      BY <1>1, <3>1 DEF Responded, Connection
    <3> HIDE DEF k, u, d
    <3> QED
      BY <1>1, <2>4, <3>2, HeaderCodes DEF Told
  <2> QED
    BY <2>1, <2>2, <2>3, <2>4
<1>6. CASE RespondUndisclosed(c)
  BY <1>1, <1>6, RespondIsTold, HeaderCodes, CodesType DEF RespondUndisclosed
<1>7. CASE ValidateRecipients(c)
  <2>1. PICK verdict, bad :
          /\ verdict \in [LocalEntries(u, d) -> UserCodes]
          /\ conn' = [conn EXCEPT ![c] = Validated(@,
                [e \in Entries |->
                    CASE e \notin LocalEntries(u, d)     -> NullCode
                      [] e \in bad                       -> UserUndisclosed
                      [] e \in LocalEntries(u, d) \ bad  -> CodeFor(MsgOf[u], e[2], verdict[e])])]
    BY <1>7 DEF ValidateRecipients
  <2> DEFINE codes == [e \in Entries |->
                    CASE e \notin LocalEntries(u, d)     -> NullCode
                      [] e \in bad                       -> UserUndisclosed
                      [] e \in LocalEntries(u, d) \ bad  -> CodeFor(MsgOf[u], e[2], verdict[e])]
  <2>2. \A e \in LocalEntries(u, d) :
            CodeFor(MsgOf[u], e[2], verdict[e]) \in UserCodes \cup {UserDuplicate}
    BY <2>1 DEF CodeFor
  <2>3. \A e \in Entries : codes[e] \in UserCodes \cup {NullCode, UserDuplicate, UserUndisclosed}
    BY <2>2
  <2>4. conn'[c] = Validated(k, codes)
    BY <2>1, HandlerFacts
  <2> HIDE DEF codes
  <2>5. /\ conn'[c].rx = "validated" /\ conn'[c].plan = k.plan /\ conn'[c].init = k.init
        /\ conn'[c].codes = codes /\ conn'[c].unit = u /\ conn'[c].dom = d
    BY <1>1, <2>4 DEF Validated, Connection
  <2> HIDE DEF k, u, d
  <2> QED
    BY <1>1, <1>2, <2>3, <2>5 DEF Told, k, u, d
<1>8. CASE StoreAcceptedMessage(c)
  <2>1. /\ Refused(k.codes) \in [Entries -> Codes]
        /\ \A e \in Entries : /\ Refused(k.codes)[e] # Accept
                              /\ Refused(k.codes)[e] \in UserCodes \cup
                                     {NullCode, UserDuplicate, UserUndisclosed}
    BY <1>1, RefusedFacts DEF Refused, Told
  <2>2. LocalEntries(u, d) \subseteq Entries
    BY DEF LocalEntries
  <2>3. CASE Answer(c, Refused(k.codes))
    BY <1>1, <1>2, <2>1, <2>2, <2>3, AnswerIsTold
  <2>4. CASE Answer(c, k.codes) /\ (~SomeAccepted(c) \/ StoreMsgDetail(u, d, k.codes))
    <3>1. \A e \in Entries : k.codes[e] \in UserCodes \cup {NullCode, UserDuplicate, UserUndisclosed}
      BY <1>1 DEF Told
    <3>2. u \in Batches =>
             \A e \in LocalEntries(u, d) : k.codes[e] = Accept => batchRows'[d][u] > 0
      BY <1>1, <2>4, BatchIsStored DEF SomeAccepted
    <3> QED
      BY <1>1, <1>2, <2>4, <3>1, <3>2, AnswerIsTold
  <2> QED
    BY <1>8, <2>3, <2>4 DEF StoreAcceptedMessage
<1>9. CASE Abort(c)
  <2>1. conn'[c] = Aborted(k)
    BY <1>9, HandlerFacts DEF Abort
  <2>2. CASE conn'[c] = FreeConn
    BY <2>2, SilentIsTold
  <2>3. CASE conn'[c] = [k EXCEPT !.rx = "aborted"]
    <3>1. /\ conn'[c].rx = "aborted" /\ conn'[c].plan = k.plan /\ conn'[c].init = k.init
          /\ conn'[c].codes = k.codes /\ conn'[c].unit = u /\ conn'[c].dom = d
      BY <1>1, <2>3 DEF Connection
    <3> HIDE DEF k, u, d
    <3> QED
      BY <1>1, <1>2, <3>1 DEF Told, k, u, d
  <2> QED
    BY <2>1, <2>2, <2>3 DEF Aborted, Recycle
<1> QED
  BY <1>4, <1>5, <1>6, <1>7, <1>8, <1>9 DEF HandlerStep

\* A row of an original is a recipient's.
LEMMA OriginalRow ==
  ASSUME NEW r \in Rows, r[1] \notin Batches
  PROVE  /\ r[2] \in Addrs /\ r[2] \notin Domains
         /\ r[2] \in To[MsgOf[r[1]]]
         /\ KeyDomain(r[2]) = DomainOf[r[2]]
<1>1. r[1] \in Units /\ r[2] \in Keys(r[1])
  BY RowsType
<1>2. r[2] \in To[MsgOf[r[1]]] /\ To[MsgOf[r[1]]] \subseteq Addrs
  BY <1>1, WireAssumption DEF Keys, Recipients
<1> QED
  BY <1>2, WireAssumption DEF KeyDomain

\* What is written of an original with a header's code other than 1 is the code of the
\* goroutine's own connection, for the same message and the domain of the recipient.
LEMMA RefusalWritten ==
  ASSUME IInv, AllTold, NEW w \in Workers, NEW u \in Units, NEW r \in Rows, r[1] \notin Batches,
         Writes(w, u, r), row'[r].code \in {Duplicate, ParentNotFound}
  PROVE  /\ worker[w].conn \in Conns
         /\ conn[worker[w].conn].rx # "free"
         /\ conn[worker[w].conn].init = row'[r].code
         /\ conn[worker[w].conn].unit = u
         /\ conn[worker[w].conn].dom = KeyDomain(r[2])
         /\ SameTable(u, r[1])
<1> DEFINE k == conn[worker[w].conn]
<1>1. SameTable(u, r[1]) /\ r[2] \in Addrs /\ r[2] \notin Domains
  BY OriginalRow DEF Writes
<1>2. Busy(w) /\ worker[w].unit = u /\ Says(k, r[2], row[r], row'[r])
  BY HeaderCodes DEF Writes
<1>3. /\ worker[w].conn \in Conns /\ k.unit = u /\ k.dom = worker[w].dom /\ k.rx # "free"
  BY <1>2, BusyFacts DEF IInv, Engaged
<1>4. Told(k) /\ KeyDomain(r[2]) = worker[w].dom
  BY <1>3 DEF AllTold, Writes, WorksOn
<1>5. r[2] \in Addrs => CodeOf(k, r[2]) \notin {Duplicate, ParentNotFound}
  BY <1>4, HeaderCodes DEF CodeOf, LastCode, Told, Entries, Lists
<1>6. k.init = row'[r].code
  BY <1>1, <1>2, <1>4, <1>5, HeaderCodes DEF Says
<1> QED
  BY <1>1, <1>3, <1>4, <1>6

\* 10 is recorded for an original only where all recipients have it.
LEMMA SenderKeepsRefused ==
  ASSUME SInv, SenderNext, UNCHANGED receiverVars
  PROVE  RefusedDuplicateIsReceived'
<1> SUFFICES ASSUME NEW r \in Rows, r[1] \notin Batches, row'[r].code = Duplicate
             PROVE  <<MsgOf[r[1]], r[2]>> \in received'
  BY DEF RefusedDuplicateIsReceived
<1>1. received' = received
  BY DEF receiverVars
<1>2. CASE row'[r] = row[r]
  BY <1>1, <1>2 DEF SInv, RefusedDuplicateIsReceived
<1>3. CASE row'[r] # row[r]
  <2>1. PICK w \in Workers, u \in Units : Writes(w, u, r)
    BY <1>3, RowsChanged DEF SInv
  <2> DEFINE k == conn[worker[w].conn]
  <2>2. /\ worker[w].conn \in Conns /\ k.init = Duplicate /\ k.unit = u
        /\ k.dom = KeyDomain(r[2]) /\ SameTable(u, r[1])
    BY <2>1, RefusalWritten DEF SInv
  <2>3. r[2] \in To[MsgOf[u]] /\ DomainOf[r[2]] = k.dom /\ u \notin Batches
    BY <2>2, OriginalRow DEF SameTable
  <2>4. r[2] \in LocalRecipients(k.unit, k.dom)
    <3>1. <<"to", r[2]>> \in LocalEntries(k.unit, k.dom)
      BY <2>2, <2>3, OriginalRow DEF SameTable, LocalEntries, Entries, Lists, Listed
    <3> QED
      BY <3>1 DEF LocalRecipients
  <2>5. <<MsgOf[u], r[2]>> \in received
    BY <2>2, <2>3, <2>4 DEF SInv, AllTold, Told
  <2> QED
    BY <1>1, <2>2, <2>5 DEF SameTable
<1> QED
  BY <1>2, <1>3

\* At first nothing is locked or told.
LEMMA InitSInv == Init => SInv
<1> SUFFICES ASSUME Init
             PROVE  SInv
  OBVIOUS
<1>1. \A r \in Rows : lockedBy[r] = NoOne /\ row[r].code = NullCode
  BY DEF Init, SenderInit
<1>2. AllTold
  <2>1. ASSUME NEW c \in Conns
        PROVE  conn[c].codes = NoCodes /\ conn[c].init = NullCode /\ conn[c].plan = NullCode
               /\ conn[c].rx = "free"
    BY DEF Init, WireInit, FreeConn
  <2> QED
    BY <2>1, HeaderCodes DEF AllTold, Told, NoCodes
<1> QED
  BY <1>1, <1>2, InitIInv, InitAnnounced, HeaderCodes DEF SInv, LockedIsDue,
     RefusedDuplicateIsReceived

\* Every step keeps SInv.
LEMMA NextKeepsSInv == SInv /\ [Next]_vars => SInv'
<1> SUFFICES ASSUME SInv, [Next]_vars
             PROVE  SInv'
  OBVIOUS
<1>1. IInv' /\ Announced'
  BY NextKeepsIInv, NextKeepsAnnounced DEF SInv
<1>2. CASE SenderNext /\ UNCHANGED receiverVars
  BY <1>1, <1>2, SenderKeepsLocked, SenderKeepsTold, SenderKeepsRefused DEF SInv
<1>3. CASE ReceiverNext /\ UNCHANGED senderVars
  <2>1. PICK c \in Conns : HandlerStep(c)
    BY <1>3 DEF ReceiverNext
  <2>2. AllTold' /\ LockedIsDue'
    BY <1>3, <2>1, HandlerKeepsTold, OthersKeepLocked DEF SInv
  <2>3. RefusedDuplicateIsReceived'
    BY <1>3, <2>1, StoresGrow DEF SInv, RefusedDuplicateIsReceived, senderVars
  <2> QED
    BY <1>1, <2>2, <2>3 DEF SInv
<1>4. CASE UNCHANGED vars
  <2>1. UNCHANGED senderVars
    BY <1>4 DEF vars, senderVars
  <2>2. LockedIsDue'
    BY <2>1, OthersKeepLocked DEF SInv
  <2> QED
    BY <1>1, <1>4, <2>2 DEF SInv, vars, AllTold, Told, AddToBatchRecorded,
       RefusedDuplicateIsReceived
<1> QED
  BY <1>2, <1>3, <1>4 DEF Next

\* What is locked is due, and what is told is so, in every behaviour.
THEOREM SettlementInvariance == Spec => []SInv
BY InitSInv, NextKeepsSInv, PTL DEF Spec

\* A message refused as a duplicate is one that all its recipients there have, though
\* the check is made again after the challenge while handlers of other attempts store.
THEOREM NoFalseRefusal == Spec => []RefusedDuplicateIsReceived
<1>1. SInv => RefusedDuplicateIsReceived
  BY DEF SInv
<1> QED
  BY <1>1, SettlementInvariance, PTL

----------------------------------------------------------------------------
(***************************************************************************)
(* Units that share no recipient.                                          *)
(***************************************************************************)
\* Then a goroutine writes only rows of its own unit, and those were due.
LEMMA OwnRows ==
  ASSUME Separate, NEW w \in Workers, NEW u \in Units, NEW r \in Rows, Writes(w, u, r)
  PROVE  r[1] = u /\ Due(r)
<1>1. /\ r[1] \in Units /\ r[2] \in Keys(r[1]) /\ r[2] \in Addrs \cup Domains
      /\ r = <<r[1], r[2]>>
  BY RowsType
<1>2. <<u, r[2]>> \in Rows /\ Due(<<u, r[2]>>)
  BY DEF Writes, WorksOn
<1>3. r[1] = u
  <2>1. CASE r[2] \in Domains
    BY <2>1 DEF Writes
  <2>2. CASE r[2] \notin Domains
    <3>1. r[2] \in Keys(u) /\ SameTable(u, r[1])
      BY <1>2, <2>2 DEF Writes, Rows
    <3>2. r[2] \in Recipients(u) /\ r[2] \in Recipients(r[1])
      BY <1>1, <2>2, <3>1, WireAssumption DEF Keys
    <3> QED
      BY <1>1, <3>1, <3>2 DEF Separate
  <2> QED
    BY <2>1, <2>2
<1> QED
  BY <1>1, <1>2, <1>3

\* A step writes rows that are due.
LEMMA WrittenIsDue ==
  ASSUME Separate, SInv, [Next]_vars, NEW r \in Rows, row'[r] # row[r]
  PROVE  Due(r)
<1>1. SenderNext
  BY DEF Next, senderVars, vars
<1> QED
  BY <1>1, RowsChanged, OwnRows DEF SInv

Settling == \A r \in Rows : Settled(r) => row'[r] = row[r]
BackingOff ==
    \A r \in Rows : row'[r].tries > row[r].tries /\ row[r].last # Unsent
                        => now - row[r].last > Backoff(row[r].tries)

\* What the sender told the user of a recipient never changes, through retries, stale
\* polls and crashes, as long as no two units of a message share a recipient.
THEOREM SettledStays == Separate => (Spec => SettledIsFinal)
<1> SUFFICES ASSUME Separate
             PROVE  Spec => SettledIsFinal
  OBVIOUS
<1>1. SInv /\ [Next]_vars => [Settling]_vars
  BY WrittenIsDue DEF Settling, Settled, Due
<1>2. Spec => [][Settling]_vars
  BY <1>1, SettlementInvariance, PTL DEF Spec
<1> QED
  BY <1>2 DEF SettledIsFinal, Settling

\* A row is tried again only after its back-off, though a target may be dispatched from
\* a stale poll and while another goroutine is at it.
THEOREM BackoffKept == Separate => (Spec => BackoffIsHonoured)
<1> SUFFICES ASSUME Separate
             PROVE  Spec => BackoffIsHonoured
  OBVIOUS
<1>1. SInv /\ [Next]_vars => [BackingOff]_vars
  <2> SUFFICES ASSUME SInv, [Next]_vars, NEW r \in Rows,
                      row'[r].tries > row[r].tries, row[r].last # Unsent
               PROVE  now - row[r].last > Backoff(row[r].tries)
    BY DEF BackingOff
  <2>1. row[r].tries \in Nat
    BY DEF SInv, IInv, TypeOK, SenderTypeOK, Row
  <2>2. row'[r] # row[r]
    BY <2>1
  <2> QED
    BY <2>2, WrittenIsDue DEF Due
<1>2. Spec => [][BackingOff]_vars
  BY <1>1, SettlementInvariance, PTL DEF Spec
<1> QED
  BY <1>2 DEF BackoffIsHonoured, BackingOff

\* A batch recipient marked delivered was marked by the exchange of that batch.
LEMMA NextKeepsBatches ==
  ASSUME Separate, SInv, [Next]_vars, DeliveredBatchIsRecorded
  PROVE  DeliveredBatchIsRecorded'
<1> SUFFICES ASSUME NEW r \in Rows, row'[r].done, r[1] \in Batches, r[2] \in Addrs
             PROVE  batchRows'[DomainOf[r[2]]][r[1]] > 0
  BY DEF DeliveredBatchIsRecorded, AddToBatchRecorded
<1>1. DomainOf[r[2]] \in Domains /\ r[1] \in Units /\ r[2] \notin Domains
  BY RowsType, WireAssumption
<1>2. batchRows[DomainOf[r[2]]][r[1]] > 0 => batchRows'[DomainOf[r[2]]][r[1]] > 0
  <2>1. CASE UNCHANGED batchRows
    BY <2>1
  <2>2. CASE ReceiverNext
    BY <1>1, <2>2, StoresGrow DEF SInv, ReceiverNext
  <2> QED
    BY <2>1, <2>2 DEF Next, receiverVars, vars
<1>3. CASE row[r].done
  BY <1>2, <1>3 DEF DeliveredBatchIsRecorded, AddToBatchRecorded
<1>4. CASE ~row[r].done
  <2>1. SenderNext /\ row'[r] # row[r]
    BY <1>4 DEF Next, senderVars, vars
  <2>2. PICK w \in Workers, u \in Units : Writes(w, u, r)
    BY <2>1, RowsChanged DEF SInv
  <2> DEFINE k == conn[worker[w].conn]
  <2>3. r[1] = u /\ KeyDomain(r[2]) = worker[w].dom
    BY <2>2, OwnRows DEF Writes, WorksOn
  <2>4. Busy(w) /\ worker[w].unit = u /\ Says(k, r[2], row[r], row'[r])
    BY <1>4, <2>2 DEF Writes
  <2>5. /\ worker[w].conn \in Conns /\ k.unit = u /\ k.dom = worker[w].dom /\ Kept(k)
    BY <2>4, BusyFacts DEF SInv
  <2>6. Told(k) /\ k.dom = DomainOf[r[2]]
    BY <1>1, <2>3, <2>5 DEF SInv, AllTold, KeyDomain
  <2>7. CASE k.init = AcceptAddTo
    BY <1>2, <2>3, <2>5, <2>6, <2>7 DEF Kept, AddToBatchRecorded
  <2>8. CASE k.rx = "answered" /\ \E e \in LocalEntries(k.unit, k.dom) : k.codes[e] = Accept
    BY <1>2, <2>3, <2>5, <2>6, <2>8 DEF Told, AddToBatchRecorded
  <2>9. row[r] \in Row /\ row'[r].done # row[r].done
    BY <1>4 DEF SInv, IInv, TypeOK, SenderTypeOK
  <2> QED
    BY <1>1, <2>4, <2>7, <2>8, <2>9 DEF Says
<1> QED
  BY <1>3, <1>4

\* A recipient that a batch added is marked delivered only if its host recorded the batch,
\* as long as no two batches share a recipient: a batch is sent for everyone it adds.
THEOREM BatchArrives == Separate => (Spec => []DeliveredBatchIsRecorded)
<1> SUFFICES ASSUME Separate
             PROVE  Spec => []DeliveredBatchIsRecorded
  OBVIOUS
<1>1. Init => DeliveredBatchIsRecorded
  BY DEF Init, SenderInit, DeliveredBatchIsRecorded
<1>2. SInv /\ DeliveredBatchIsRecorded /\ [Next]_vars => DeliveredBatchIsRecorded'
  BY NextKeepsBatches
<1> QED
  BY <1>1, <1>2, SettlementInvariance, PTL DEF Spec

\* Where messages have no batches, 200 is answered only for what was stored before.
THEOREM AnswersAreTrue == Batches = {} => (Spec => []AcceptMeansStored)
<1> SUFFICES ASSUME Batches = {}
             PROVE  Spec => []AcceptMeansStored
  OBVIOUS
<1>1. IInv => AcceptMeansStored
  <2> SUFFICES ASSUME IInv, NEW c \in Conns, conn[c].rx = "answered",
                      NEW e \in LocalEntries(conn[c].unit, conn[c].dom),
                      conn[c].codes[e] = Accept
               PROVE  <<MsgOf[conn[c].unit], e[2]>> \in received
    BY DEF AcceptMeansStored
  <2>1. e[2] \in Recipients(conn[c].unit) /\ Plain(conn[c].unit, e[2])
    <3>1. conn[c].unit \in Units \ Batches /\ conn[c].unit \notin Batches
      BY HandlerFacts
    <3>2. e[2] \in Listed(conn[c].unit, e[1]) /\ e[1] \in Lists
      BY DEF LocalEntries, Entries
    <3>3. AddTo[conn[c].unit] = {}
      BY <3>1, WireAssumption
    <3> QED
      BY <3>1, <3>2, <3>3 DEF Lists, Listed, Recipients, Plain
  <2> QED
    BY <2>1 DEF IInv, Promises, Kept
<1> QED
  BY <1>1, Invariance, PTL

----------------------------------------------------------------------------
(***************************************************************************)
(* Replies wait for their parents, where messages have no batches.         *)
(***************************************************************************)
\* A step sends at most one unit, and what was sent stays sent.
LEMMA SentGrows ==
  ASSUME SInv, [Next]_vars, NEW v \in Units, sentAt[v] # Unsent
  PROVE  sentAt'[v] # Unsent
<1>1. CASE sentAt' = sentAt
  BY <1>1
<1>2. ASSUME NEW u \in Units, Finalize(u)
      PROVE  sentAt'[v] # Unsent
  BY <1>2, FinalizeEffect DEF SInv
<1> QED
  BY <1>1, <1>2, SenderEffect DEF SInv, Next, senderVars, vars

\* The rows of a sent parent are all there: nothing more is sent of its message.
LEMMA ParentRowsStay ==
  ASSUME Separate, Batches = {}, SInv, [Next]_vars,
         NEW p \in Units, sentAt[p] # Unsent, NEW d \in Domains
  PROVE  ParentRows(p, d)' = ParentRows(p, d)
<1>1. CASE sentAt' = sentAt
  BY <1>1 DEF ParentRows
<1>2. ASSUME NEW u \in Units, Finalize(u)
      PROVE  ParentRows(p, d)' = ParentRows(p, d)
  <2>1. u # p /\ \A v \in Units : v # u => sentAt'[v] = sentAt[v]
    BY <1>2, FinalizeEffect DEF SInv, Finalize
  <2>2. ASSUME NEW r \in Rows, MsgOf[r[1]] = MsgOf[p]
        PROVE  r[1] # u
    <3>1. r[1] \in Units /\ r[2] \in To[MsgOf[r[1]]]
      BY RowsType, OriginalRow
    <3> QED
      BY <2>1, <2>2, <3>1 DEF Separate, SameTable, Recipients
  <2>3. \A r \in Rows : r[1] \in Units
    BY RowsType
  <2> QED
    BY <2>1, <2>2, <2>3 DEF ParentRows
<1> QED
  BY <1>1, <1>2, SenderEffect DEF SInv, Next, senderVars, vars

\* So a reply that need not wait need not wait later, and a parent that was refused
\* stays so.
LEMMA ClearedStays ==
  ASSUME Separate, Batches = {}, SInv, ParentsSent, [Next]_vars,
         NEW u \in Units, sentAt[u] # Unsent, NEW d \in Domains
  PROVE  /\ Cleared(u, d) => Cleared(u, d)'
         /\ Parent[MsgOf[u]] # NoOne /\ ParentRefused(MsgOf[u], d) => ParentRefused(MsgOf[u], d)'
<1> DEFINE p == Parent[MsgOf[u]]
<1>1. CASE p = NoOne
  BY <1>1 DEF Cleared, ParentPendingForDomain
<1>2. CASE p # NoOne
  <2>1. p \in Units /\ sentAt[p] # Unsent
    BY <1>2, WireAssumption DEF ParentsSent
  <2>2. ParentRows(p, d)' = ParentRows(p, d)
    BY <2>1, ParentRowsStay
  <2>3. \A r \in Rows : row[r].done \/ row[r].code \notin Retryable => row'[r] = row[r]
    BY WrittenIsDue DEF Due
  <2>4. ParentRows(p, d) \subseteq Rows
    BY DEF ParentRows
  <2>5. ParentRefused(MsgOf[u], d) => ParentRefused(MsgOf[u], d)'
    BY <2>2, <2>3, <2>4 DEF ParentRefused, Retryable
  <2>6. Cleared(u, d) => Cleared(u, d)'
    <3> SUFFICES ASSUME Cleared(u, d)
                 PROVE  Cleared(u, d)'
      OBVIOUS
    <3>1. CASE \E r \in ParentRows(p, d) : row[r].done
      BY <2>2, <2>3, <2>4, <3>1 DEF Cleared, ParentPendingForDomain
    <3>2. CASE \A r \in ParentRows(p, d) : row[r].done \/ row[r].code \notin Retryable
      BY <2>2, <2>3, <2>4, <3>2 DEF Cleared, ParentPendingForDomain, Retryable
    <3> QED
      BY <1>2, <3>1, <3>2 DEF Cleared, ParentPendingForDomain
  <2> QED
    BY <2>5, <2>6
<1> QED
  BY <1>1, <1>2

\* A reply is finalized after its parent.
LEMMA KeepsParentsSent ==
  ASSUME Batches = {}, SInv, ParentsSent, [Next]_vars
  PROVE  ParentsSent'
<1> SUFFICES ASSUME NEW u \in Units, sentAt'[u] # Unsent, Parent[MsgOf[u]] # NoOne
             PROVE  sentAt'[Parent[MsgOf[u]]] # Unsent
  BY DEF ParentsSent
<1>1. Parent[MsgOf[u]] \in Units
  BY WireAssumption
<1>2. CASE sentAt[u] # Unsent
  BY <1>1, <1>2, SentGrows DEF ParentsSent
<1>3. CASE sentAt[u] = Unsent
  <2>1. PICK v \in Units : Finalize(v)
    BY <1>3, SenderEffect DEF SInv, Next, senderVars, vars
  <2>2. v = u
    BY <1>3, <2>1, FinalizeEffect DEF SInv
  <2>3. sentAt[Parent[MsgOf[u]]] # Unsent
    BY <2>1, <2>2 DEF Finalize
  <2> QED
    BY <1>1, <2>3, SentGrows
<1> QED
  BY <1>2, <1>3

\* A row that was tried was sent.
LEMMA KeepsTriedIsSent ==
  ASSUME SInv, TriedIsSent, [Next]_vars
  PROVE  TriedIsSent'
<1> SUFFICES ASSUME NEW r \in Rows, row'[r].code # NullCode
             PROVE  sentAt'[r[1]] # Unsent
  BY DEF TriedIsSent
<1>1. r[1] \in Units
  BY RowsType
<1>2. CASE row'[r] = row[r]
  BY <1>1, <1>2, SentGrows DEF TriedIsSent
<1>3. CASE row'[r] # row[r]
  <2>1. SenderNext
    BY <1>3 DEF Next, senderVars, vars
  <2> QED
    BY <1>1, <1>3, <2>1, RowsChanged, SentGrows DEF SInv, Writes
<1> QED
  BY <1>2, <1>3

\* A goroutine goes on with the units it has, or is dispatched with new ones.
LEMMA TodoSteps ==
  ASSUME IInv, SenderNext, NEW w \in Workers, NEW u \in worker'[w].todo
  PROVE  \/ u \in worker[w].todo /\ worker'[w].dom = worker[w].dom
         \/ \E m \in Msgs : u \in UnitsToDeliver(m, worker'[w].dom)
<1>1. worker \in [Workers -> Worker]
  BY DEF IInv, TypeOK, SenderTypeOK
<1>2. ASSUME NEW m, NEW d, NEW todo
      PROVE  /\ Proceed(m, d, todo).todo = todo
             /\ todo # {} => Proceed(m, d, todo).dom = d
  BY DEF Proceed, IdleWorker
<1>3. CASE UNCHANGED worker
  BY <1>3
<1>4. CASE SenderCrash
  BY <1>4 DEF SenderCrash, IdleWorker
<1>5. ASSUME NEW v \in Workers, NEW todo, todo \subseteq worker[v].todo,
             worker' = [worker EXCEPT ![v] = Proceed(worker[v].msg, worker[v].dom, todo)]
      PROVE  u \in worker[w].todo /\ worker'[w].dom = worker[w].dom
  <2>1. CASE v # w
    BY <1>1, <1>5, <2>1
  <2>2. CASE v = w
    <3>1. worker'[w] = Proceed(worker[w].msg, worker[w].dom, todo)
      BY <1>1, <1>5, <2>2
    <3> QED
      BY <1>2, <1>5, <2>2, <3>1
  <2> QED
    BY <2>1, <2>2
<1>6. ASSUME NEW v \in Workers, Close(v)
      PROVE  u \in worker[w].todo /\ worker'[w].dom = worker[w].dom
  BY <1>5, <1>6 DEF Close
<1>7. ASSUME NEW v \in Workers, NEW x \in Units, SkipUnit(v, x) \/ RecordUnitInvalid(v, x)
      PROVE  u \in worker[w].todo /\ worker'[w].dom = worker[w].dom
  BY <1>5, <1>7 DEF SkipUnit, RecordUnitInvalid, Without
<1>8. ASSUME NEW v \in Workers, NEW x \in Units, NEW c \in Conns, DeliverUnit(v, x, c)
      PROVE  u \in worker[w].todo /\ worker'[w].dom = worker[w].dom
  <2>1. CASE v # w
    BY <1>1, <1>8, <2>1 DEF DeliverUnit
  <2>2. CASE v = w
    <3>1. worker'[w].todo = worker[w].todo \ {x} /\ worker'[w].dom = worker[w].dom
      BY <1>1, <1>8, <2>2 DEF DeliverUnit
    <3> QED
      BY <3>1
  <2> QED
    BY <2>1, <2>2
<1>9. ASSUME NEW v \in Workers, Dispatch(v)
      PROVE  \/ u \in worker[w].todo /\ worker'[w].dom = worker[w].dom
             \/ \E m \in Msgs : u \in UnitsToDeliver(m, worker'[w].dom)
  <2>1. PICK t \in queue :
          \/ worker' = [worker EXCEPT ![v] = Proceed(t[1], t[2], UnitsToDeliver(t[1], t[2]))]
          \/ UNCHANGED worker
    BY <1>9 DEF Dispatch
  <2>2. t[1] \in Msgs
    BY DEF IInv, TypeOK, SenderTypeOK, Targets
  <2>3. CASE UNCHANGED worker \/ v # w
    BY <1>1, <2>1, <2>3
  <2>4. CASE v = w /\ worker' = [worker EXCEPT ![v] =
                                   Proceed(t[1], t[2], UnitsToDeliver(t[1], t[2]))]
    <3>1. worker'[w] = Proceed(t[1], t[2], UnitsToDeliver(t[1], t[2]))
      BY <1>1, <2>4
    <3> QED
      BY <1>2, <2>2, <3>1
  <2> QED
    BY <2>1, <2>3, <2>4
<1>10. ASSUME NEW v \in Workers, ReadInit(v)
       PROVE  u \in worker[w].todo /\ worker'[w].dom = worker[w].dom
  <2>1. CASE Close(v)
    BY <1>6, <2>1
  <2>2. CASE worker' = [worker EXCEPT ![v].pc = "codes"]
    BY <1>1, <2>2 DEF Worker
  <2> QED
    BY <1>10, <2>1, <2>2 DEF ReadInit, Finish, FinishOver, EndUnit
<1>11. ASSUME NEW v \in Workers,
              ReadCodes(v) \/ ConnectionLost(v) \/ Timeout(v) \/ DeadlockVictim(v)
       PROVE  Close(v)
  BY <1>11 DEF ReadCodes, ConnectionLost, RecordRetryableFailure, Timeout, DeadlockVictim,
     Finish, FinishOver, EndUnit
<1> QED
  BY <1>3, <1>4, <1>6, <1>7, <1>8, <1>9, <1>10, <1>11 DEF SenderNext, WorkerStep, Finalize, Tick, Poll

\* What a goroutine has to deliver stays cleared until it gets there.
LEMMA KeepsTodoCleared ==
  ASSUME Separate, Batches = {}, SInv, ParentsSent, TodoCleared, [Next]_vars
  PROVE  TodoCleared'
<1> SUFFICES ASSUME NEW w \in Workers, NEW u \in worker'[w].todo
             PROVE  sentAt'[u] # Unsent /\ (Forbidden(u) \/ Cleared(u, worker[w].dom)')
  BY DEF TodoCleared, Forbidden, ParentTerminal
<1>1. worker'[w] \in Worker /\ u \in Units /\ worker'[w].dom \in Domains
  <2>1. SInv'
    BY NextKeepsSInv
  <2>2. worker'[w] \in Worker
    BY <2>1 DEF SInv, IInv, TypeOK, SenderTypeOK
  <2> QED
    BY <2>2 DEF Worker
<1>2. sentAt[u] # Unsent /\ (Forbidden(u) \/ Cleared(u, worker'[w].dom))
  <2>1. CASE u \in worker[w].todo /\ worker'[w].dom = worker[w].dom
    BY <2>1 DEF TodoCleared
  <2>2. CASE \E m \in Msgs : u \in UnitsToDeliver(m, worker'[w].dom)
    BY <2>2 DEF UnitsToDeliver, Forbidden, Cleared
  <2>3. CASE SenderNext
    BY <2>1, <2>2, <2>3, TodoSteps DEF SInv
  <2>4. CASE UNCHANGED senderVars
    BY <2>1, <2>4 DEF senderVars
  <2> QED
    BY <2>3, <2>4 DEF Next, senderVars, vars
<1>3. PICK d \in Domains : d = worker'[w].dom
  BY <1>1
<1>4. Cleared(u, d) => Cleared(u, d)'
  BY <1>1, <1>2, ClearedStays
<1>5. Cleared(u, d)' => Cleared(u, worker[w].dom)'
  BY <1>3 DEF Cleared, ParentPendingForDomain, ParentRows
<1> QED
  BY <1>1, <1>2, <1>3, <1>4, <1>5, SentGrows

\* What a handler does to its connection: it keeps the exchange, and answers 6 only as the
\* verdict on the header.
LEMMA HandlerSays ==
  ASSUME IInv, NEW c \in Conns, HandlerStep(c), conn'[c].rx # "free"
  PROVE  /\ conn[c].rx # "free" /\ conn'[c].unit = conn[c].unit /\ conn'[c].dom = conn[c].dom
         /\ \/ conn'[c].init = conn[c].init
            \/ conn'[c].init # ParentNotFound
            \/ HeaderVerdict(conn[c].unit, conn[c].dom) = ParentNotFound
<1> DEFINE k == conn[c]
<1>1. k \in Connection /\ k.rx # "free" /\ FreeConn.rx = "free"
  BY HandlerFacts DEF HandlerStep, ReadHeader, RespondToHeader, RespondUndisclosed,
     ValidateRecipients, StoreAcceptedMessage, Abort, FreeConn
<1>2. ASSUME NEW code, Respond(c, code)
      PROVE  conn'[c].unit = k.unit /\ conn'[c].dom = k.dom /\ conn'[c].init = code
  <2>1. conn'[c] = Closed(k, code)
    BY <1>2, HandlerFacts DEF Respond
  <2>2. conn'[c] = [k EXCEPT !.rx = "closed", !.init = code]
    BY <1>1, <2>1 DEF Closed, Recycle
  <2> QED
    BY <1>1, <2>2 DEF Connection
<1>3. ASSUME NEW codes, Answer(c, codes)
      PROVE  conn'[c].unit = k.unit /\ conn'[c].dom = k.dom /\ conn'[c].init = k.init
  <2>1. conn'[c] = Answered(k, codes)
    BY <1>3, HandlerFacts DEF Answer
  <2>2. conn'[c] = [k EXCEPT !.rx = "answered", !.codes = codes]
    BY <1>1, <2>1 DEF Answered, Recycle
  <2> QED
    BY <1>1, <2>2 DEF Connection
<1>4. CASE ReadHeader(c)
  <2>1. CASE conn' = [conn EXCEPT ![c] = Checked(@, HeaderVerdict(k.unit, k.dom))]
    <3>1. conn'[c] = Checked(k, HeaderVerdict(k.unit, k.dom))
      BY <2>1, HandlerFacts
    <3> QED
      BY <1>1, <3>1 DEF Checked, Connection
  <2>2. CASE Respond(c, HeaderVerdict(k.unit, k.dom))
    BY <1>1, <1>2, <2>2
  <2> QED
    BY <1>4, <2>1, <2>2 DEF ReadHeader
<1>5. CASE RespondToHeader(c)
  <2>1. \/ \E code \in {AcceptAddTo, Duplicate} : Respond(c, code)
        \/ \E code \in {Continue, SkipData} : conn' = [conn EXCEPT ![c] = Responded(@, code)]
    BY <1>5 DEF RespondToHeader
  <2>2. ASSUME NEW code \in {Continue, SkipData}, conn' = [conn EXCEPT ![c] = Responded(@, code)]
        PROVE  conn'[c].unit = k.unit /\ conn'[c].dom = k.dom /\ conn'[c].init = code
    <3>1. conn'[c] = Responded(k, code)
      BY <2>2, HandlerFacts
    <3> QED
      BY <1>1, <3>1 DEF Responded, Connection
  <2>3. \A code \in {AcceptAddTo, Duplicate, Continue, SkipData} : code # ParentNotFound
    BY HeaderCodes
  <2> QED
    BY <1>1, <1>2, <2>1, <2>2, <2>3
<1>6. CASE RespondUndisclosed(c)
  BY <1>1, <1>2, <1>6, HeaderCodes DEF RespondUndisclosed
<1>7. CASE ValidateRecipients(c)
  <2>1. PICK codes : conn' = [conn EXCEPT ![c] = Validated(conn[c], codes)]
    BY <1>7 DEF ValidateRecipients
  <2>2. conn'[c] = Validated(k, codes)
    BY <2>1, HandlerFacts
  <2> QED
    BY <1>1, <2>2 DEF Validated, Connection
<1>8. CASE StoreAcceptedMessage(c)
  BY <1>1, <1>3, <1>8 DEF StoreAcceptedMessage
<1>9. CASE Abort(c)
  <2>1. conn'[c] = Aborted(k)
    BY <1>9, HandlerFacts DEF Abort
  <2>2. conn'[c] = [k EXCEPT !.rx = "aborted"]
    BY <1>1, <2>1 DEF Aborted, Recycle
  <2> QED
    BY <1>1, <2>2 DEF Connection
<1> QED
  BY <1>4, <1>5, <1>6, <1>7, <1>8, <1>9 DEF HandlerStep

\* A host that does not find the parent of a cleared reply is one that refused it.
LEMMA NotFoundIsRefused ==
  ASSUME Batches = {}, SInv, ReceivedIsStored, NEW u \in Units, NEW d \in Domains,
         Cleared(u, d), HeaderVerdict(u, d) = ParentNotFound
  PROVE  ParentRefused(MsgOf[u], d)
<1> DEFINE p == Parent[MsgOf[u]]
<1>1. p # NoOne /\ ~ParentFound(d, p)
  BY HeaderCodes DEF HeaderVerdict, ReplyVerdict
<1>2. MsgOf[p] \notin msgAt[d]
  BY <1>1 DEF ParentFound
<1>3. ASSUME NEW r \in ParentRows(p, d), row[r].done
      PROVE  FALSE
  <2>1. r \in Rows /\ MsgOf[r[1]] = MsgOf[p] /\ KeyDomain(r[2]) = d
    BY DEF ParentRows
  <2>2. r[2] \in Addrs /\ DomainOf[r[2]] = d
    BY <2>1, OriginalRow
  <2>3. <<MsgOf[p], r[2]>> \in received
    BY <1>3, <2>1, <2>2 DEF SInv, IInv, PlainDeliveredIsReceived, Plain
  <2> QED
    BY <1>2, <2>2, <2>3 DEF ReceivedIsStored
<1> QED
  BY <1>1, <1>3 DEF Cleared, ParentPendingForDomain, ParentRefused

\* A connection carries a cleared reply, and 6 is said of one whose parent was refused.
LEMMA KeepsConnsCleared ==
  ASSUME Separate, Batches = {}, SInv, ParentsSent, TodoCleared, ConnsCleared, ReceivedIsStored,
         [Next]_vars
  PROVE  ConnsCleared'
<1> SUFFICES ASSUME NEW c \in Conns, conn'[c].rx # "free"
             PROVE  (/\ Cleared(conn[c].unit, conn[c].dom)
                     /\ conn[c].init = ParentNotFound /\ Parent[MsgOf[conn[c].unit]] # NoOne
                            => ParentRefused(MsgOf[conn[c].unit], conn[c].dom))'
  BY DEF ConnsCleared
<1>1. PICK u \in Units, d \in Domains : u = conn'[c].unit /\ d = conn'[c].dom
  <2>1. SInv'
    BY NextKeepsSInv
  <2>2. conn'[c] \in Connection
    BY <2>1 DEF SInv, IInv, TypeOK, WireTypeOK
  <2> QED
    BY <2>2 DEF Connection
<1>2. /\ sentAt[u] # Unsent /\ Cleared(u, d)
      /\ conn'[c].init = ParentNotFound /\ Parent[MsgOf[u]] # NoOne => ParentRefused(MsgOf[u], d)
  <2>1. CASE SameExchange(conn[c], conn'[c])
    BY <1>1, <2>1 DEF SameExchange, ConnsCleared, SInv, Announced
  <2>2. ASSUME NEW w \in Workers, NEW v \in Units, DeliverUnit(w, v, c),
               conn'[c] = HeaderSent(v, worker[w].dom)
        PROVE  sentAt[u] # Unsent /\ Cleared(u, d) /\ conn'[c].init = NullCode
    <3>1. u = v /\ d = worker[w].dom /\ conn'[c].init = NullCode
      BY <1>1, <2>2 DEF HeaderSent
    <3>2. v \in worker[w].todo /\ ~Forbidden(v)
      BY <2>2 DEF DeliverUnit, NextUnit
    <3> QED
      BY <3>1, <3>2 DEF TodoCleared
  <2>3. CASE SenderNext
    <3>1. conn'[c] # FreeConn
      BY DEF FreeConn
    <3> QED
      BY <2>1, <2>2, <2>3, <3>1, SenderTouches, HeaderCodes DEF SInv
  <2>4. ASSUME NEW y \in Conns, HandlerStep(y)
        PROVE  /\ sentAt[u] # Unsent /\ Cleared(u, d)
               /\ conn'[c].init = ParentNotFound /\ Parent[MsgOf[u]] # NoOne
                      => ParentRefused(MsgOf[u], d)
    <3>1. CASE y # c
      BY <2>1, <2>4, <3>1, HandlerElsewhere DEF SInv, SameExchange
    <3>2. CASE y = c
      <4>1. /\ conn[c].rx # "free" /\ conn[c].unit = u /\ conn[c].dom = d
            /\ \/ conn'[c].init = conn[c].init
               \/ conn'[c].init # ParentNotFound
               \/ HeaderVerdict(u, d) = ParentNotFound
        BY <1>1, <2>4, <3>2, HandlerSays DEF SInv
      <4>2. sentAt[u] # Unsent /\ Cleared(u, d)
        BY <4>1 DEF ConnsCleared, SInv, Announced
      <4> QED
        BY <4>1, <4>2, NotFoundIsRefused DEF ConnsCleared
    <3> QED
      BY <3>1, <3>2
  <2>5. CASE UNCHANGED vars
    BY <2>1, <2>5 DEF vars, SameExchange
  <2> QED
    BY <2>3, <2>4, <2>5 DEF Next, ReceiverNext
<1>3. /\ Cleared(u, d)'
      /\ conn'[c].init = ParentNotFound /\ Parent[MsgOf[u]] # NoOne => ParentRefused(MsgOf[u], d)'
  BY <1>2, ClearedStays
<1> QED
  BY <1>1, <1>3 DEF Cleared, ParentPendingForDomain, ParentRefused, ParentRows

\* 6 is recorded for a reply only where its parent was refused.
LEMMA KeepsReplies ==
  ASSUME Separate, Batches = {}, SInv, RInv, [Next]_vars
  PROVE  ReplyNeverOvertakesParent'
<1> SUFFICES ASSUME NEW r \in Rows, row'[r].code = ParentNotFound, Parent[MsgOf[r[1]]] # NoOne
             PROVE  ParentRefused(MsgOf[r[1]], KeyDomain(r[2]))'
  BY DEF ReplyNeverOvertakesParent, ParentRefused
<1>1. r[1] \in Units /\ KeyDomain(r[2]) \in Domains
  BY RowsType, OriginalRow, WireAssumption
<1>2. sentAt[r[1]] # Unsent /\ ParentRefused(MsgOf[r[1]], KeyDomain(r[2]))
  <2>1. CASE row'[r] = row[r]
    BY <2>1, HeaderCodes DEF RInv, TriedIsSent, ReplyNeverOvertakesParent, ParentRefused
  <2>2. CASE row'[r] # row[r]
    <3>1. SenderNext
      BY <2>2 DEF Next, senderVars, vars
    <3>2. PICK w \in Workers, u \in Units : Writes(w, u, r)
      BY <2>2, <3>1, RowsChanged DEF SInv
    <3>3. r[1] = u /\ sentAt[u] # Unsent
      BY <3>2, OwnRows DEF Writes
    <3>4. /\ worker[w].conn \in Conns
          /\ conn[worker[w].conn].rx # "free"
          /\ conn[worker[w].conn].init = ParentNotFound
          /\ conn[worker[w].conn].unit = u
          /\ conn[worker[w].conn].dom = KeyDomain(r[2])
      BY <3>2, RefusalWritten DEF SInv
    <3> QED
      BY <3>3, <3>4 DEF RInv, ConnsCleared
  <2> QED
    BY <2>1, <2>2
<1> QED
  BY <1>1, <1>2, ClearedStays DEF RInv

\* Nothing is waiting at first, and every step keeps RInv.
LEMMA RepliesInvariant ==
  ASSUME Separate, Batches = {}
  PROVE  (Init => RInv) /\ (SInv /\ RInv /\ [Next]_vars => RInv')
<1>1. Init => RInv
  <2> SUFFICES ASSUME Init
               PROVE  RInv
    OBVIOUS
  <2>1. \A w \in Workers : worker[w].todo = {}
    BY DEF Init, SenderInit, IdleWorker
  <2>2. \A c \in Conns : conn[c].rx = "free"
    BY DEF Init, WireInit, FreeConn
  <2>3. (\A u \in Units : sentAt[u] = Unsent) /\ (\A r \in Rows : row[r].code = NullCode)
    BY DEF Init, SenderInit
  <2> QED
    BY <2>1, <2>2, <2>3, HeaderCodes DEF Init, ReceiverInit, RInv, ParentsSent, TodoCleared,
       ConnsCleared, ReceivedIsStored, TriedIsSent, ReplyNeverOvertakesParent
<1>2. ASSUME SInv, RInv, [Next]_vars
      PROVE  RInv'
  <2>1. ReceivedIsStored'
    <3>1. CASE UNCHANGED receiverVars
      BY <1>2, <3>1 DEF RInv, ReceivedIsStored, receiverVars
    <3>2. CASE ReceiverNext
      BY <1>2, <3>2, StoresGrow DEF RInv, SInv, ReceiverNext
    <3> QED
      BY <1>2, <3>1, <3>2 DEF Next, receiverVars, vars
  <2> QED
    BY <1>2, <2>1, KeepsParentsSent, KeepsTodoCleared, KeepsConnsCleared, KeepsTriedIsSent,
       KeepsReplies DEF RInv
<1> QED
  BY <1>1, <1>2

\* parentPendingForDomain is read before the lock and the dial, and still no reply
\* overtakes its parent: it is refused for want of the parent only where the parent was.
THEOREM RepliesWait == Separate /\ Batches = {} => (Spec => []ReplyNeverOvertakesParent)
<1> SUFFICES ASSUME Separate, Batches = {}
             PROVE  Spec => []ReplyNeverOvertakesParent
  OBVIOUS
<1>1. RInv => ReplyNeverOvertakesParent
  BY DEF RInv
<1>2. (Init => RInv) /\ (SInv /\ RInv /\ [Next]_vars => RInv')
  BY RepliesInvariant
<1> QED
  BY <1>1, <1>2, SettlementInvariance, PTL DEF Spec
===========================================================================

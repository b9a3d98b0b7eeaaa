-------------------------- MODULE DeliveryProofs --------------------------
(***************************************************************************)
(* Proofs about Delivery, for any messages, recipients, domains, batches,  *)
(* goroutines, connections and bounds: IInv is an inductive invariant,     *)
(* what it says of the rows follows, and Delivery implements Mailbox.      *)
(***************************************************************************)
EXTENDS Delivery, TLAPS

----------------------------------------------------------------------------
(***************************************************************************)
(* Types of the operators the actions are built from.                      *)
(***************************************************************************)
\* Every response code the model names is a code.
LEMMA CodesType ==
    /\ {NullCode, Invalid, Undisclosed, InsufficientResources, ParentNotFound} \subseteq Codes
    /\ {Duplicate, AcceptAddTo, Continue, SkipData, NoResponse} \subseteq Codes
    /\ UserCodes \cup {UserDuplicate, UserUndisclosed} \subseteq Codes
    /\ InitCodes \subseteq Codes
BY DEF Codes, UserCodes, InitCodes

\* The codes the proofs have to tell apart.
LEMMA CodesDiffer ==
    /\ AcceptAddTo \notin {NullCode, Invalid, Undisclosed, ParentNotFound, Duplicate,
                           Continue, SkipData, NoResponse}
    /\ UserDuplicate \notin InitCodes \cup UserCodes \cup {UserUndisclosed, NoResponse, Invalid}
    /\ Accept \notin {UserUndisclosed, UserDuplicate, NullCode}
BY DEF InitCodes, UserCodes, NullCode, Invalid, Undisclosed, ParentNotFound, Duplicate,
       AcceptAddTo, Continue, SkipData, UserUnknown, UserFull, UserNotAccepting,
       UserDuplicate, UserUndisclosed, Accept, NoResponse

\* A free connection and an idle goroutine are well typed.
LEMMA InitialTypes ==
    FreeConn \in Connection /\ IdleWorker \in Worker
<1>1. (CHOOSE u \in Units : TRUE) \in Units
  BY WireAssumption
<1>2. (CHOOSE m \in Msgs : TRUE) \in Msgs
  <2>1. \E m : m \in Msgs
    BY <1>1, WireAssumption
  <2> QED
    BY <2>1
<1>3. FreeConn \in Connection
  BY <1>1, CodesType, WireAssumption DEF FreeConn, Connection, RxStates, NoCodes
<1>4. IdleWorker \in Worker
  BY <1>1, <1>2, WireAssumption DEF IdleWorker, Worker
<1> QED
  BY <1>3, <1>4

\* A slot keeps its type when a connection leaves it.
LEMMA RecycleType ==
  ASSUME NEW k \in Connection
  PROVE  Recycle(k) \in Connection
BY InitialTypes DEF Recycle

\* A goroutine that proceeds to its next unit, or returns, is well typed.
LEMMA ProceedType ==
  ASSUME NEW m \in Msgs, NEW d \in Domains, NEW todo \in SUBSET Units
  PROVE  /\ Proceed(m, d, todo) \in Worker
         /\ Proceed(m, d, todo).pc \in {"idle", "next"}
BY InitialTypes DEF Proceed, Worker, IdleWorker

\* The updates of a row: delivered, and attempted in vain.
LEMMA RowUpdates ==
  ASSUME NEW x \in Row, NEW c \in Codes, now \in Nat
  PROVE  /\ Delivered(x, c) \in Row /\ Delivered(x, c).code = c
         /\ Attempted(x, c) \in Row /\ Attempted(x, c).code = c
         /\ Attempted(x, c).done = x.done
<1>1. Delivered(x, c) \in Row /\ Delivered(x, c).code = c
  BY DEF Row, Delivered
<1>2. x.tries + 1 \in Nat /\ x.done \in BOOLEAN /\ now \in Int
  BY DEF Row
<1>3. Attempted(x, c) \in Row
  BY <1>2 DEF Row, Attempted
<1>4. Attempted(x, c).code = c /\ Attempted(x, c).done = x.done
  BY DEF Attempted
<1> QED
  BY <1>1, <1>3, <1>4

\* A connection whose sender has left: free, or unchanged but for that.
LEMMA ShutType ==
  ASSUME NEW k \in Connection
  PROVE  /\ Shut(k) \in Connection
         /\ \/ Shut(k) = FreeConn
            \/ /\ Shut(k).rx = k.rx /\ Shut(k).unit = k.unit /\ Shut(k).dom = k.dom
               /\ Shut(k).plan = k.plan /\ Shut(k).init = k.init /\ Shut(k).codes = k.codes
<1> DEFINE y == [k EXCEPT !.open = FALSE]
<1>1. /\ y \in Connection /\ y.rx = k.rx /\ y.unit = k.unit /\ y.dom = k.dom
      /\ y.plan = k.plan /\ y.init = k.init /\ y.codes = k.codes
  BY DEF Connection
<1>2. Shut(k) = Recycle(y)
  BY DEF Shut
<1> HIDE DEF y
<1> QED
  BY <1>1, <1>2, InitialTypes DEF Recycle

\* A row is a unit and one of its keys.
LEMMA RowsType ==
    /\ \A r \in Rows : /\ r[1] \in Units /\ r[2] \in Keys(r[1])
                       /\ r[2] \in Addrs \cup Domains /\ r = <<r[1], r[2]>>
    /\ \A u \in Units : \A k \in Keys(u) : <<u, k>> \in Rows /\ k \in Addrs \cup Domains
BY WireAssumption DEF Rows, Keys, Recipients

----------------------------------------------------------------------------
(***************************************************************************)
(* The sender records an outcome.                                          *)
(***************************************************************************)
\* What is recorded is true of the receivers, provided the outcome is: accepted
\* addresses have the message, code 11 means a recorded batch and code 103 a
\* duplicate.  A row of another batch that is recorded along has the same
\* message and address (updateRecipient).  The rows written over, was, are the
\* present ones but for recipients that are not plain.
LEMMA RecordIsTrue ==
  ASSUME IInv, UNCHANGED receiverVars,
         NEW u \in Units, NEW ks, NEW good, NEW code \in [Addrs \cup Domains -> Codes],
         NEW was \in [Rows -> Row],
         \A r \in Rows : /\ ~Covers(u, ks, r) => was[r] = row[r]
                         /\ r[2] \in Addrs /\ Plain(r[1], r[2]) => was[r] = row[r],
         row' = Recorded(was, u, ks, good, code),
         \A k \in ks : k \in good /\ k \in Addrs /\ Plain(u, k) => <<MsgOf[u], k>> \in received,
         \A k \in ks : k \in Domains /\ code[k] = AcceptAddTo => AddToBatchRecorded(k, u),
         \A k \in ks : code[k] = UserDuplicate => k \in Addrs /\ <<MsgOf[u], k>> \in received
  PROVE  /\ row' \in [Rows -> Row]
         /\ PlainDeliveredIsReceived' /\ NotifiedIsRecorded' /\ DuplicateIsReceived'
<1>1. row' \in [Rows -> Row]
  <2>1. ASSUME NEW r \in Rows
        PROVE  /\ was[r] \in Row
               /\ Delivered(was[r], code[r[2]]) \in Row
               /\ Attempted(was[r], code[r[2]]) \in Row
    BY RowsType, RowUpdates DEF IInv, TypeOK, SenderTypeOK
  <2> QED
    BY <2>1 DEF Recorded
<1>2. ASSUME NEW r \in Rows, Covers(u, ks, r)
      PROVE  /\ r[2] \in ks /\ r[2] \in Addrs \cup Domains
             /\ MsgOf[r[1]] = MsgOf[u]
             /\ r[2] \in Domains => r[1] = u
             /\ Plain(r[1], r[2]) => Plain(u, r[2])
             /\ row'[r].code = code[r[2]]
             /\ row'[r].done => was[r].done \/ r[2] \in good
  <2>1. /\ r[2] \in ks /\ r[2] \in Addrs \cup Domains
        /\ MsgOf[r[1]] = MsgOf[u] /\ (r[1] \in Batches <=> u \in Batches)
        /\ r[2] \in Domains => r[1] = u
    BY <1>2, RowsType DEF Covers, SameTable
  <2>2. was[r] \in Row /\ code[r[2]] \in Codes /\ now \in Nat
    BY <2>1 DEF IInv, TypeOK, SenderTypeOK
  <2>3. row'[r] = IF r[2] \in good THEN Delivered(was[r], code[r[2]])
                                   ELSE Attempted(was[r], code[r[2]])
    BY <1>2 DEF Recorded
  <2>4. Plain(r[1], r[2]) => Plain(u, r[2])
    BY <2>1 DEF Plain
  <2> QED
    BY <2>1, <2>2, <2>3, <2>4, RowUpdates
<1>3. ASSUME NEW r \in Rows, ~Covers(u, ks, r)
      PROVE  row'[r] = row[r]
  BY <1>3 DEF Recorded
<1>4. received' = received /\ batchRows' = batchRows
  BY DEF receiverVars
<1>5. PlainDeliveredIsReceived'
  <2> SUFFICES ASSUME NEW r \in Rows, row'[r].done, r[2] \in Addrs, Plain(r[1], r[2])
               PROVE  <<MsgOf[r[1]], r[2]>> \in received
    BY <1>4 DEF PlainDeliveredIsReceived, Plain
  <2>1. row[r].done => <<MsgOf[r[1]], r[2]>> \in received
    BY DEF PlainDeliveredIsReceived, IInv
  <2> QED
    BY <1>2, <1>3, <2>1
<1>6. NotifiedIsRecorded'
  <2> SUFFICES ASSUME NEW r \in Rows, row'[r].done, r[2] \in Domains,
                      row'[r].code = AcceptAddTo
               PROVE  AddToBatchRecorded(r[2], r[1])
    BY <1>4 DEF NotifiedIsRecorded, AddToBatchRecorded
  <2>1. CASE Covers(u, ks, r)
    BY <1>2, <2>1
  <2>2. CASE ~Covers(u, ks, r)
    BY <1>3, <2>2 DEF NotifiedIsRecorded, IInv
  <2> QED
    BY <2>1, <2>2
<1>7. DuplicateIsReceived'
  BY <1>2, <1>3, <1>4 DEF DuplicateIsReceived, IInv
<1> QED
  BY <1>1, <1>5, <1>6, <1>7

\* The rows that are left alone say what they said.
LEMMA RowsUntouched ==
  ASSUME IInv, UNCHANGED receiverVars, UNCHANGED row
  PROVE  /\ row' \in [Rows -> Row]
         /\ PlainDeliveredIsReceived' /\ NotifiedIsRecorded' /\ DuplicateIsReceived'
BY DEF IInv, TypeOK, SenderTypeOK, receiverVars, PlainDeliveredIsReceived, Plain,
       NotifiedIsRecorded, DuplicateIsReceived, AddToBatchRecorded

\* deliverUnit returns: its connection closes, its locks go and no others do.
LEMMA UnitEnds ==
  ASSUME IInv, NEW w \in Workers, Busy(w), Unlock(w), Close(w), UNCHANGED receiverVars
  PROVE  /\ conn' \in [Conns -> Connection]
         /\ lockedBy' \in [Rows -> Workers \cup {NoOne}]
         /\ worker' \in [Workers -> Worker]
         /\ Engaged' /\ NoSharing' /\ LocksAreHeld' /\ Promises'
<1> USE DEF IInv, TypeOK, WireTypeOK, SenderTypeOK
<1>1. /\ worker' \in [Workers -> Worker]
      /\ worker'[w].pc \in {"idle", "next"}
      /\ \A v \in Workers : v # w => worker'[v] = worker[v]
  <2>1. worker[w].msg \in Msgs /\ worker[w].dom \in Domains /\ worker[w].todo \in SUBSET Units
    BY DEF Worker
  <2> QED
    BY <2>1, ProceedType DEF Close
<1>2. \A v \in Workers : v # w /\ Busy(v)' => Busy(v)
  BY <1>1 DEF Busy
<1>3. ~Busy(w)'
  BY <1>1 DEF Busy
<1>4. /\ conn' \in [Conns -> Connection]
      /\ \A c \in Conns : c # worker[w].conn => conn'[c] = conn[c]
  BY ShutType DEF Close
<1>5. /\ lockedBy' \in [Rows -> Workers \cup {NoOne}]
      /\ \A r \in Rows : lockedBy'[r] # NoOne =>
             lockedBy'[r] = lockedBy[r] /\ lockedBy[r] \in Workers \ {w}
      /\ \A r \in Rows : lockedBy[r] # w => lockedBy'[r] = lockedBy[r]
  BY SenderAssumption DEF Unlock
<1>6. Engaged'
  <2> SUFFICES ASSUME NEW v \in Workers, Busy(v)'
               PROVE  (/\ worker[v].conn \in Conns
                       /\ conn[worker[v].conn].rx # "free"
                       /\ conn[worker[v].conn].open
                       /\ conn[worker[v].conn].unit = worker[v].unit
                       /\ conn[worker[v].conn].dom = worker[v].dom
                       /\ \A k \in worker[v].locked :
                              /\ k \in Keys(worker[v].unit)
                              /\ KeyDomain(k) = worker[v].dom
                              /\ lockedBy[<<worker[v].unit, k>>] = v)'
    BY DEF Engaged
  <2>1. v # w /\ Busy(v) /\ worker'[v] = worker[v]
    BY <1>1, <1>2, <1>3
  <2>2. worker[v].conn # worker[w].conn /\ worker[v].conn \in Conns
    BY <2>1 DEF NoSharing, Engaged
  <2>3. conn'[worker[v].conn] = conn[worker[v].conn]
    BY <1>4, <2>2
  <2>4. \A k \in worker[v].locked : <<worker[v].unit, k>> \in Rows
    BY <2>1, RowsType DEF Engaged, Worker
  <2>5. \A k \in worker[v].locked : lockedBy'[<<worker[v].unit, k>>] = v
    BY <1>5, <2>1, <2>4 DEF Engaged
  <2> QED
    BY <2>1, <2>2, <2>3, <2>5 DEF Engaged, Keys, KeyDomain, Recipients
<1>7. NoSharing'
  BY <1>1, <1>2, <1>3 DEF NoSharing
<1>8. LocksAreHeld'
  BY <1>1, <1>5 DEF LocksAreHeld, Busy
<1>9. Promises'
  <2> SUFFICES ASSUME NEW c \in Conns
               PROVE  Kept(conn[c])'
    BY DEF Promises
  <2>1. received' = received /\ batchRows' = batchRows
    BY DEF receiverVars
  <2>2. Kept(conn[c])
    BY DEF Promises
  <2>3. CASE c # worker[w].conn
    BY <1>4, <2>1, <2>2, <2>3 DEF Kept, AddToBatchRecorded
  <2>4. CASE c = worker[w].conn
    <3>1. conn'[c] = Shut(conn[c]) /\ conn[c] \in Connection
      BY <2>4 DEF Close
    <3>2. CASE conn'[c] = FreeConn
      BY <3>2, CodesDiffer DEF Kept, FreeConn, InitCodes
    <3>3. CASE conn'[c] # FreeConn
      BY <2>1, <2>2, <3>1, <3>3, ShutType DEF Kept, AddToBatchRecorded
    <3> QED
      BY <3>2, <3>3
  <2> QED
    BY <2>3, <2>4
<1> QED
  BY <1>1, <1>4, <1>5, <1>6, <1>7, <1>8, <1>9

\* deliverUnit ends with an outcome, recorded or lost with a failed commit.
LEMMA OutcomeKeepsIInv ==
  ASSUME IInv, UNCHANGED receiverVars, NEW w \in Workers, Busy(w),
         NEW good, NEW code \in [Addrs \cup Domains -> Codes],
         NEW was \in [Rows -> Row],
         \A r \in Rows :
             /\ ~Covers(worker[w].unit, worker[w].locked, r) => was[r] = row[r]
             /\ r[2] \in Addrs /\ Plain(r[1], r[2]) => was[r] = row[r],
         \/ row' = Recorded(was, worker[w].unit, worker[w].locked, good, code)
         \/ UNCHANGED row,
         EndUnit(w), faults' \in Nat,
         \A k \in worker[w].locked :
             /\ k \in good /\ k \in Addrs /\ Plain(worker[w].unit, k)
                    => <<MsgOf[worker[w].unit], k>> \in received
             /\ k \in Domains /\ code[k] = AcceptAddTo
                    => AddToBatchRecorded(k, worker[w].unit)
             /\ code[k] = UserDuplicate
                    => k \in Addrs /\ <<MsgOf[worker[w].unit], k>> \in received
  PROVE  IInv'
<1>1. worker[w].unit \in Units
  BY DEF IInv, TypeOK, SenderTypeOK, Worker
<1>2. /\ row' \in [Rows -> Row]
      /\ PlainDeliveredIsReceived' /\ NotifiedIsRecorded' /\ DuplicateIsReceived'
  <2>1. CASE UNCHANGED row
    BY <2>1, RowsUntouched
  <2>2. CASE row' = Recorded(was, worker[w].unit, worker[w].locked, good, code)
    <3> DEFINE u == worker[w].unit
               ks == worker[w].locked
    <3>1. /\ \A k \in ks : k \in good /\ k \in Addrs /\ Plain(u, k) => <<MsgOf[u], k>> \in received
          /\ \A k \in ks : k \in Domains /\ code[k] = AcceptAddTo => AddToBatchRecorded(k, u)
          /\ \A k \in ks : code[k] = UserDuplicate => k \in Addrs /\ <<MsgOf[u], k>> \in received
      OBVIOUS
    <3>2. /\ \A r \in Rows : /\ ~Covers(u, ks, r) => was[r] = row[r]
                             /\ r[2] \in Addrs /\ Plain(r[1], r[2]) => was[r] = row[r]
          /\ u \in Units /\ row' = Recorded(was, u, ks, good, code)
      BY <1>1, <2>2
    <3> HIDE DEF u, ks
    <3> QED
      BY <3>1, <3>2, RecordIsTrue
  <2> QED
    BY <2>1, <2>2
<1>3. /\ conn' \in [Conns -> Connection]
      /\ lockedBy' \in [Rows -> Workers \cup {NoOne}]
      /\ worker' \in [Workers -> Worker]
      /\ Engaged' /\ NoSharing' /\ LocksAreHeld' /\ Promises'
  BY UnitEnds DEF EndUnit
<1>4. TypeOK'
  BY <1>2, <1>3 DEF IInv, TypeOK, WireTypeOK, SenderTypeOK, ReceiverTypeOK, EndUnit, receiverVars
<1> QED
  BY <1>2, <1>3, <1>4 DEF IInv

\* The same, when the rows are those of before the step.
LEMMA RecordKeepsIInv ==
  ASSUME IInv, UNCHANGED receiverVars, NEW w \in Workers, Busy(w),
         NEW good, NEW code \in [Addrs \cup Domains -> Codes],
         \/ Record(worker[w].unit, worker[w].locked, good, code)
         \/ UNCHANGED row,
         EndUnit(w), faults' \in Nat,
         \A k \in worker[w].locked :
             /\ k \in good /\ k \in Addrs => <<MsgOf[worker[w].unit], k>> \in received
             /\ k \in Domains /\ code[k] = AcceptAddTo
                    => AddToBatchRecorded(k, worker[w].unit)
             /\ code[k] = UserDuplicate
                    => k \in Addrs /\ <<MsgOf[worker[w].unit], k>> \in received
  PROVE  IInv'
<1>1. PICK was : was = row
  OBVIOUS
<1>2. /\ was \in [Rows -> Row]
      /\ \/ row' = Recorded(was, worker[w].unit, worker[w].locked, good, code)
         \/ UNCHANGED row
  BY <1>1 DEF IInv, TypeOK, SenderTypeOK, Record
<1>3. \A r \in Rows :
         /\ ~Covers(worker[w].unit, worker[w].locked, r) => was[r] = row[r]
         /\ r[2] \in Addrs /\ Plain(r[1], r[2]) => was[r] = row[r]
  BY <1>1
<1> QED
  BY <1>2, <1>3, OutcomeKeepsIInv

\* The same code for every row of the unit: a refusal, or no response.
LEMMA EveryoneType ==
  ASSUME NEW c \in Codes
  PROVE  /\ Everyone(c) \in [Addrs \cup Domains -> Codes]
         /\ \A k \in Addrs \cup Domains : Everyone(c)[k] = c
BY DEF Everyone

\* A busy worker's connection, and the keys it holds.
LEMMA BusyFacts ==
  ASSUME IInv, NEW w \in Workers, Busy(w)
  PROVE  /\ worker[w].conn \in Conns
         /\ conn[worker[w].conn] \in Connection
         /\ Kept(conn[worker[w].conn])
         /\ conn[worker[w].conn].unit = worker[w].unit
         /\ conn[worker[w].conn].dom = worker[w].dom
         /\ worker[w].unit \in Units
         /\ \A k \in worker[w].locked :
                /\ k \in Addrs \cup Domains
                /\ k \in Addrs => k \in Recipients(worker[w].unit) /\ DomainOf[k] = worker[w].dom
                /\ k \in Domains => k = worker[w].dom
<1>1. worker[w].unit \in Units
  BY DEF IInv, TypeOK, SenderTypeOK, Worker
<1>2. worker[w].conn \in Conns
  BY DEF IInv, Engaged
<1>3. conn[worker[w].conn] \in Connection /\ Kept(conn[worker[w].conn])
  BY <1>2 DEF IInv, TypeOK, WireTypeOK, Promises
<1>4. ASSUME NEW k \in worker[w].locked
      PROVE  /\ k \in Addrs \cup Domains
             /\ k \in Addrs => k \in Recipients(worker[w].unit) /\ DomainOf[k] = worker[w].dom
             /\ k \in Domains => k = worker[w].dom
  <2>1. k \in Keys(worker[w].unit) /\ KeyDomain(k) = worker[w].dom
    BY DEF IInv, Engaged
  <2>2. k \in Addrs \cup Domains
    BY <1>1, <2>1, RowsType
  <2> QED
    BY <1>1, <2>1, <2>2, WireAssumption DEF Keys, KeyDomain
<1> QED
  BY <1>1, <1>2, <1>3, <1>4 DEF IInv, Engaged

\* A code that is neither 11 nor 103 may be recorded for anyone, as a failure.
LEMMA FailureKeepsIInv ==
  ASSUME IInv, UNCHANGED receiverVars, NEW w \in Workers, Busy(w),
         NEW c \in Codes \ {AcceptAddTo, UserDuplicate},
         \/ Record(worker[w].unit, worker[w].locked, {}, Everyone(c))
         \/ UNCHANGED row,
         EndUnit(w), faults' \in Nat
  PROVE  IInv'
<1>1. Everyone(c) \in [Addrs \cup Domains -> Codes]
  BY EveryoneType
<1>2. \A k \in worker[w].locked : Everyone(c)[k] = c
  BY EveryoneType, BusyFacts
<1> QED
  BY <1>1, <1>2, RecordKeepsIInv

\* A failure is counted.
LEMMA FaultType ==
  ASSUME IInv
  PROVE  Fault \/ UNCHANGED faults => faults' \in Nat
BY DEF IInv, TypeOK, WireTypeOK, Fault

----------------------------------------------------------------------------
(***************************************************************************)
(* The steps of the sender.                                                *)
(***************************************************************************)
\* The first response byte: the exchange goes on, or ends with code 11 or a
\* refusal.  Code 11 is recorded for a notified domain only, because the host
\* that sends it has no recipient of the batch.
LEMMA ReadInitKeepsIInv ==
  ASSUME IInv, UNCHANGED receiverVars, NEW w \in Workers, ReadInit(w)
  PROVE  IInv'
<1> DEFINE x == worker[w].conn
           init == conn[x].init
<1>1. Busy(w) /\ worker[w].pc = "await"
  BY DEF ReadInit, Busy
<1>2. /\ x \in Conns /\ conn[x] \in Connection /\ Kept(conn[x]) /\ init \in Codes
      /\ conn[x].unit = worker[w].unit /\ conn[x].dom = worker[w].dom
  BY <1>1, BusyFacts DEF Connection
<1>3. CASE /\ worker' = [worker EXCEPT ![w].pc = "codes"]
           /\ conn' = [conn EXCEPT ![x].data = (init = Continue)]
           /\ UNCHANGED <<now, sentAt, row, lockedBy, queue, faults>>
  <2>1. /\ worker' \in [Workers -> Worker]
        /\ \A v \in Workers : v # w => worker'[v] = worker[v]
        /\ worker'[w].conn = worker[w].conn /\ worker'[w].unit = worker[w].unit
        /\ worker'[w].dom = worker[w].dom /\ worker'[w].locked = worker[w].locked
        /\ worker'[w].pc = "codes"
    BY <1>3 DEF IInv, TypeOK, SenderTypeOK, Worker
  <2>2. /\ conn' \in [Conns -> Connection]
        /\ \A c \in Conns :
              /\ conn'[c].rx = conn[c].rx /\ conn'[c].open = conn[c].open
              /\ conn'[c].unit = conn[c].unit /\ conn'[c].dom = conn[c].dom
              /\ conn'[c].plan = conn[c].plan /\ conn'[c].init = conn[c].init
              /\ conn'[c].codes = conn[c].codes
    <3>1. conn \in [Conns -> Connection]
      BY DEF IInv, TypeOK, WireTypeOK
    <3> QED
      BY <1>2, <1>3, <3>1 DEF Connection
  <2>3. TypeOK'
    BY <1>3, <2>1, <2>2 DEF IInv, TypeOK, WireTypeOK, SenderTypeOK, ReceiverTypeOK, receiverVars
  <2>4. \A v \in Workers : Busy(v)' => Busy(v)
    BY <1>1, <2>1 DEF Busy
  <2>5. Engaged'
    <3> SUFFICES ASSUME NEW v \in Workers, Busy(v)'
                 PROVE  (/\ worker[v].conn \in Conns
                         /\ conn[worker[v].conn].rx # "free"
                         /\ conn[worker[v].conn].open
                         /\ conn[worker[v].conn].unit = worker[v].unit
                         /\ conn[worker[v].conn].dom = worker[v].dom
                         /\ \A k \in worker[v].locked :
                                /\ k \in Keys(worker[v].unit)
                                /\ KeyDomain(k) = worker[v].dom
                                /\ lockedBy[<<worker[v].unit, k>>] = v)'
      BY DEF Engaged
    <3>1. Busy(v)
      BY <2>4
    <3>2. /\ worker'[v].conn = worker[v].conn /\ worker'[v].unit = worker[v].unit
          /\ worker'[v].dom = worker[v].dom /\ worker'[v].locked = worker[v].locked
      BY <2>1
    <3> QED
      BY <1>3, <2>2, <3>1, <3>2 DEF IInv, Engaged, Keys, KeyDomain, Recipients
  <2>6. NoSharing'
    BY <2>1, <2>4 DEF IInv, NoSharing
  <2>7. LocksAreHeld'
    BY <1>1, <1>3, <2>1 DEF IInv, LocksAreHeld, Busy, TypeOK, SenderTypeOK
  <2>8. Promises'
    BY <2>2 DEF IInv, Promises, Kept, AddToBatchRecorded, receiverVars
  <2>9. PlainDeliveredIsReceived' /\ NotifiedIsRecorded' /\ DuplicateIsReceived'
    BY <1>3, RowsUntouched
  <2> QED
    BY <2>3, <2>5, <2>6, <2>7, <2>8, <2>9 DEF IInv
<1>4. CASE init = AcceptAddTo /\ worker[w].unit \in Batches /\ Finish(w, worker[w].locked, Everyone(init))
  <2>1. AddToAt(worker[w].unit, worker[w].dom) = {} /\ AddToBatchRecorded(worker[w].dom, worker[w].unit)
    BY <1>2, <1>4 DEF Kept
  <2>2. ASSUME NEW k \in worker[w].locked
        PROVE  k \in Domains /\ k \notin Addrs /\ k = worker[w].dom /\ Everyone(init)[k] = init
    BY <1>1, <1>2, <1>4, <2>1, BusyFacts, EveryoneType, WireAssumption DEF AddToAt, Recipients
  <2>3. Everyone(init) \in [Addrs \cup Domains -> Codes] /\ init # UserDuplicate
    BY <1>2, EveryoneType, CodesDiffer DEF Kept
  <2>4. faults' \in Nat
    BY <1>4, FaultType DEF Finish, FinishOver
  <2> QED
    BY <1>1, <1>4, <2>1, <2>2, <2>3, <2>4, RecordKeepsIInv DEF Finish, FinishOver, Record
<1>5. CASE init \in 1..10 /\ Finish(w, {}, Everyone(init))
  <2>1. init \in Codes \ {AcceptAddTo, UserDuplicate}
    BY <1>2, <1>5 DEF AcceptAddTo, UserDuplicate
  <2>2. faults' \in Nat
    BY <1>5, FaultType DEF Finish, FinishOver
  <2> QED
    BY <1>1, <1>5, <2>1, <2>2, FailureKeepsIInv DEF Finish, FinishOver, Record
<1> QED
  BY <1>3, <1>4, <1>5 DEF ReadInit

\* The last entry of a recipient the unit is sent for is one of its host's.
LEMMA LastEntry ==
  ASSUME NEW u \in Units, NEW a \in Addrs, a \in Recipients(u), NEW codes
  PROVE  \E e \in LocalEntries(u, DomainOf[a]) : e[2] = a /\ LastCode(u, codes, a) = codes[e]
<1> DEFINE e == <<IF a \in AddTo[u] THEN "add to" ELSE "to", a>>
<1>1. e \in Entries /\ e[2] = a
  BY DEF Entries, Lists
<1>2. a \in Listed(u, e[1])
  BY WireAssumption DEF Listed, Recipients
<1>3. e \in LocalEntries(u, DomainOf[a])
  BY <1>1, <1>2 DEF LocalEntries
<1>4. LastCode(u, codes, a) = codes[e]
  BY DEF LastCode
<1> QED
  BY <1>1, <1>3, <1>4

\* The codes of the to entries, written first, reach rows of recipients in both
\* lists only.
LEMMA TwiceWritten ==
  ASSUME IInv, NEW w \in Workers, Busy(w)
  PROVE  /\ AfterToCodes(w) \in [Rows -> Row]
         /\ \A r \in Rows :
                /\ ~Covers(worker[w].unit, worker[w].locked, r) => AfterToCodes(w)[r] = row[r]
                /\ r[2] \in Addrs /\ Plain(r[1], r[2]) => AfterToCodes(w)[r] = row[r]
                /\ r[2] \in Domains => AfterToCodes(w)[r] = row[r]
                /\ row[r].done => AfterToCodes(w)[r].done
                /\ AfterToCodes(w)[r].done # row[r].done =>
                       /\ r[2] \in worker[w].locked \cap InBothLists(worker[w].unit)
                       /\ conn[worker[w].conn].codes[<<"to", r[2]>>] = Accept
<1> DEFINE u     == worker[w].unit
           twice == worker[w].locked \cap InBothLists(u)
           code  == [key \in Addrs |-> conn[worker[w].conn].codes[<<"to", key>>]]
           good  == {key \in twice : code[key] = Accept}
<1>1. /\ u \in Units /\ conn[worker[w].conn].codes \in [Entries -> Codes]
      /\ row \in [Rows -> Row] /\ now \in Nat
  BY BusyFacts DEF Connection, IInv, TypeOK, SenderTypeOK
<1>2. \A a \in Addrs : <<"to", a>> \in Entries
  BY DEF Entries, Lists
<1>3. code \in [Addrs -> Codes]
  BY <1>1, <1>2
<1>4. twice \subseteq worker[w].locked /\ twice \subseteq Addrs
  BY <1>1, WireAssumption DEF InBothLists
<1>5. AfterToCodes(w) = [r \in Rows |->
         IF ~Covers(u, twice, r) THEN row[r]
         ELSE IF r[2] \in good THEN Delivered(row[r], code[r[2]])
                               ELSE Attempted(row[r], code[r[2]])]
  BY DEF AfterToCodes, Recorded
<1>6. ASSUME NEW r \in Rows, Covers(u, twice, r)
      PROVE  /\ Covers(u, worker[w].locked, r)
             /\ r[2] \in Addrs /\ r[2] \notin Domains /\ ~Plain(r[1], r[2])
  <2>1. r[2] \in twice /\ r[2] \in Addrs /\ r[2] \notin Domains
    BY <1>4, <1>6, WireAssumption DEF Covers
  <2>2. SameTable(u, r[1])
    BY <1>6, <2>1 DEF Covers
  <2>3. r[2] \in To[MsgOf[u]] /\ r[2] \in AddTo[u]
    BY <2>1 DEF InBothLists
  <2>4. u \in Batches
    BY <1>1, <2>3, WireAssumption
  <2>5. ~Plain(r[1], r[2])
    BY <2>2, <2>3, <2>4 DEF Plain, SameTable
  <2> QED
    BY <1>4, <1>6, <2>1, <2>5 DEF Covers
<1>7. ASSUME NEW r \in Rows
      PROVE  /\ AfterToCodes(w)[r] \in Row /\ (row[r].done => AfterToCodes(w)[r].done)
             /\ AfterToCodes(w)[r].done # row[r].done => r[2] \in good
  <2>1. row[r] \in Row
    BY <1>1
  <2>2. CASE ~Covers(u, twice, r)
    BY <1>5, <2>1, <2>2
  <2>3. CASE Covers(u, twice, r)
    <3>1. code[r[2]] \in Codes
      BY <1>3, <1>6, <2>3
    <3>2. \/ r[2] \in good /\ AfterToCodes(w)[r] = Delivered(row[r], code[r[2]])
          \/ AfterToCodes(w)[r] = Attempted(row[r], code[r[2]])
      BY <1>5, <2>3
    <3>3. Delivered(row[r], code[r[2]]).done
      BY <2>1 DEF Delivered, Row
    <3> HIDE DEF code, good, twice
    <3> QED
      BY <1>1, <2>1, <3>1, <3>2, <3>3, RowUpdates
  <2> QED
    BY <2>2, <2>3
<1>8. AfterToCodes(w) \in [Rows -> Row]
  BY <1>5, <1>7
<1>9. \A r \in Rows : ~Covers(u, twice, r) => AfterToCodes(w)[r] = row[r]
  BY <1>5
<1>10. \A r \in Rows : AfterToCodes(w)[r].done # row[r].done =>
          /\ r[2] \in worker[w].locked \cap InBothLists(u)
          /\ conn[worker[w].conn].codes[<<"to", r[2]>>] = Accept
  BY <1>4, <1>7
<1> HIDE DEF twice, code, good, u
<1> QED
  BY <1>6, <1>7, <1>8, <1>9, <1>10 DEF u

\* The codes of the recipients: those of the worker's own rows are promises of
\* the receiver.
LEMMA ReadCodesKeepsIInv ==
  ASSUME IInv, UNCHANGED receiverVars, NEW w \in Workers, ReadCodes(w)
  PROVE  IInv'
<1> DEFINE k0   == conn[worker[w].conn]
           code == [k \in Addrs \cup Domains |-> CodeOf(k0, k)]
           good == {k \in worker[w].locked : k \in Domains \/ code[k] = Accept}
<1>1. Busy(w)
  BY DEF ReadCodes, Busy
<1>2. k0 \in Connection /\ Kept(k0) /\ k0.rx = "answered"
      /\ k0.unit = worker[w].unit /\ k0.dom = worker[w].dom
  BY <1>1, BusyFacts DEF ReadCodes
<1>3. FinishOver(AfterToCodes(w), w, good, code)
  BY DEF ReadCodes
<1>4. \A a \in Addrs : <<"to", a>> \in Entries /\ <<"add to", a>> \in Entries
  BY DEF Entries, Lists
<1>5. code \in [Addrs \cup Domains -> Codes]
  BY <1>2, <1>4 DEF Connection, CodeOf, LastCode
<1>6. ASSUME NEW k \in worker[w].locked
      PROVE  /\ k \in good /\ k \in Addrs /\ Plain(worker[w].unit, k)
                    => <<MsgOf[worker[w].unit], k>> \in received
             /\ k \in Domains /\ code[k] = AcceptAddTo
                    => AddToBatchRecorded(k, worker[w].unit)
             /\ code[k] = UserDuplicate
                    => k \in Addrs /\ <<MsgOf[worker[w].unit], k>> \in received
  <2>1. /\ k \in Addrs \cup Domains
        /\ k \in Addrs => k \in Recipients(worker[w].unit) /\ DomainOf[k] = worker[w].dom
        /\ k \in Domains => k = worker[w].dom
        /\ worker[w].unit \in Units
    BY <1>1, BusyFacts
  <2>2. k \in Addrs => k \notin Domains
    BY WireAssumption
  <2>3. CASE k \in Addrs
    <3>1. PICK e \in LocalEntries(k0.unit, k0.dom) : e[2] = k /\ LastCode(k0.unit, k0.codes, k) = k0.codes[e]
      BY <1>2, <2>1, <2>3, LastEntry
    <3>2. code[k] = k0.codes[e] /\ e \in Entries
      BY <2>3, <3>1 DEF CodeOf, LocalEntries
    <3>3. k \in good => k0.codes[e] = Accept
      BY <2>2, <2>3, <3>2
    <3> HIDE DEF code, good, k0
    <3> QED
      BY <1>2, <2>1, <2>2, <2>3, <3>1, <3>2, <3>3 DEF Kept
  <2>4. CASE k \notin Addrs
    <3>1. code[k] = k0.init /\ k \in Domains /\ k = worker[w].dom
      BY <2>1, <2>4 DEF CodeOf
    <3> HIDE DEF code, good, k0
    <3> QED
      BY <1>2, <2>4, <3>1, CodesDiffer DEF Kept
  <2> QED
    BY <2>3, <2>4
<1>7. faults' \in Nat
  BY <1>3, FaultType DEF FinishOver
<1> HIDE DEF code, good, k0
<1>8. PICK was : was = AfterToCodes(w)
  OBVIOUS
<1>9. /\ was \in [Rows -> Row]
      /\ \A r \in Rows :
             /\ ~Covers(worker[w].unit, worker[w].locked, r) => was[r] = row[r]
             /\ r[2] \in Addrs /\ Plain(r[1], r[2]) => was[r] = row[r]
  BY <1>1, <1>8, TwiceWritten
<1>10. EndUnit(w) /\ (\/ row' = Recorded(was, worker[w].unit, worker[w].locked, good, code)
                      \/ UNCHANGED row)
  BY <1>3, <1>8 DEF FinishOver
<1> QED
  BY <1>1, <1>5, <1>6, <1>7, <1>9, <1>10, OutcomeKeepsIInv

\* No response, and a lost outcome.
LEMMA LossKeepsIInv ==
  ASSUME IInv, UNCHANGED receiverVars, NEW w \in Workers,
         ConnectionLost(w) \/ Timeout(w) \/ DeadlockVictim(w)
  PROVE  IInv'
<1>1. NoResponse \in Codes \ {AcceptAddTo, UserDuplicate}
  BY CodesType, CodesDiffer
<1>2. CASE ConnectionLost(w)
  <2>1. Busy(w) /\ faults' \in Nat
    BY <1>2, FaultType DEF ConnectionLost, RecordRetryableFailure, Finish, FinishOver, Busy
  <2> QED
    BY <1>1, <1>2, <2>1, FailureKeepsIInv DEF ConnectionLost, RecordRetryableFailure, Finish,
       FinishOver, Record
<1>3. CASE Timeout(w)
  <2>1. Busy(w) /\ faults' \in Nat
    BY <1>3, FaultType DEF Timeout, Busy
  <2> QED
    BY <1>1, <1>3, <2>1, FailureKeepsIInv DEF Timeout
<1>4. CASE DeadlockVictim(w)
  <2>1. Busy(w) /\ UNCHANGED <<now, sentAt, row, queue, faults>> /\ Unlock(w) /\ Close(w)
    BY <1>4 DEF DeadlockVictim, AtOutcome, Busy
  <2>2. /\ conn' \in [Conns -> Connection]
        /\ lockedBy' \in [Rows -> Workers \cup {NoOne}]
        /\ worker' \in [Workers -> Worker]
        /\ Engaged' /\ NoSharing' /\ LocksAreHeld' /\ Promises'
    BY <2>1, UnitEnds
  <2>3. /\ row' \in [Rows -> Row]
        /\ PlainDeliveredIsReceived' /\ NotifiedIsRecorded' /\ DuplicateIsReceived'
    BY <2>1, RowsUntouched
  <2>4. TypeOK'
    BY <2>1, <2>2, <2>3 DEF IInv, TypeOK, WireTypeOK, SenderTypeOK, ReceiverTypeOK, receiverVars
  <2> QED
    BY <2>2, <2>3, <2>4 DEF IInv
<1> QED
  BY <1>2, <1>3, <1>4

\* A crash of the sender: every transaction is rolled back.
LEMMA CrashKeepsIInv ==
  ASSUME IInv, UNCHANGED receiverVars, SenderCrash
  PROVE  IInv'
<1>1. /\ row' \in [Rows -> Row]
      /\ PlainDeliveredIsReceived' /\ NotifiedIsRecorded' /\ DuplicateIsReceived'
  BY RowsUntouched DEF SenderCrash
<1>2. \A w \in Workers : worker'[w] = IdleWorker /\ ~Busy(w)'
  BY DEF SenderCrash, Busy, IdleWorker
<1>3. Engaged' /\ NoSharing'
  BY <1>2 DEF Engaged, NoSharing
<1>4. LocksAreHeld'
  BY DEF SenderCrash, LocksAreHeld
<1>5. TypeOK'
  <2>1. conn' \in [Conns -> Connection] /\ worker' \in [Workers -> Worker]
    BY ShutType, InitialTypes DEF SenderCrash, IInv, TypeOK, WireTypeOK
  <2>2. lockedBy' \in [Rows -> Workers \cup {NoOne}] /\ queue' \in SUBSET Targets
    BY DEF SenderCrash
  <2>3. faults' \in Nat
    BY FaultType DEF SenderCrash
  <2> QED
    BY <1>1, <2>1, <2>2, <2>3 DEF SenderCrash, IInv, TypeOK, WireTypeOK, SenderTypeOK,
       ReceiverTypeOK, receiverVars
<1>6. Promises'
  <2> SUFFICES ASSUME NEW c \in Conns
               PROVE  Kept(conn[c])'
    BY DEF Promises
  <2>1. conn'[c] = Shut(conn[c]) /\ conn[c] \in Connection /\ Kept(conn[c])
    BY DEF SenderCrash, IInv, TypeOK, WireTypeOK, Promises
  <2>2. CASE conn'[c] = FreeConn
    BY <2>2, CodesDiffer DEF Kept, FreeConn, InitCodes
  <2>3. CASE conn'[c] # FreeConn
    BY <2>1, <2>3, ShutType DEF Kept, AddToBatchRecorded, receiverVars
  <2> QED
    BY <2>2, <2>3
<1> QED
  BY <1>1, <1>3, <1>4, <1>5, <1>6 DEF IInv

\* A step that leaves connections, locks and busy goroutines alone.
LEMMA QuietStep ==
  ASSUME IInv, UNCHANGED receiverVars, UNCHANGED <<conn, lockedBy>>,
         \/ UNCHANGED worker
         \/ \E w \in Workers : \E x \in Worker :
               ~Busy(w) /\ x.pc \in {"idle", "next"} /\ worker' = [worker EXCEPT ![w] = x]
  PROVE  /\ worker' \in [Workers -> Worker]
         /\ Engaged' /\ NoSharing' /\ LocksAreHeld' /\ Promises'
<1>1. /\ worker' \in [Workers -> Worker]
      /\ \A v \in Workers : \/ worker'[v] = worker[v]
                            \/ ~Busy(v) /\ worker'[v].pc \in {"idle", "next"}
  BY DEF IInv, TypeOK, SenderTypeOK
<1>0. ASSUME NEW v \in Workers, Busy(v)'
      PROVE  Busy(v) /\ worker'[v] = worker[v]
  BY <1>1, <1>0 DEF Busy
<1>2. Engaged'
  <2> SUFFICES ASSUME NEW v \in Workers, Busy(v)'
               PROVE  (/\ worker[v].conn \in Conns
                       /\ conn[worker[v].conn].rx # "free"
                       /\ conn[worker[v].conn].open
                       /\ conn[worker[v].conn].unit = worker[v].unit
                       /\ conn[worker[v].conn].dom = worker[v].dom
                       /\ \A k \in worker[v].locked :
                              /\ k \in Keys(worker[v].unit)
                              /\ KeyDomain(k) = worker[v].dom
                              /\ lockedBy[<<worker[v].unit, k>>] = v)'
    BY DEF Engaged
  <2>1. Busy(v) /\ worker'[v] = worker[v]
    BY <1>0
  <2> QED
    BY <2>1 DEF IInv, Engaged, Keys, KeyDomain, Recipients
<1>3. NoSharing'
  <2> SUFFICES ASSUME NEW v \in Workers, NEW w \in Workers, v # w, Busy(v)', Busy(w)'
               PROVE  worker'[v].conn # worker'[w].conn
    BY DEF NoSharing
  <2>1. Busy(v) /\ worker'[v] = worker[v] /\ Busy(w) /\ worker'[w] = worker[w]
    BY <1>0
  <2> QED
    BY <2>1 DEF IInv, NoSharing
<1>4. LocksAreHeld'
  BY <1>1 DEF IInv, LocksAreHeld, Busy, TypeOK, SenderTypeOK
<1>5. Promises'
  BY DEF IInv, Promises, Kept, AddToBatchRecorded, receiverVars
<1> QED
  BY <1>1, <1>2, <1>3, <1>4, <1>5

\* The database, the clock, the polls and the goroutines between units.
LEMMA QuietKeepsIInv ==
  ASSUME IInv, UNCHANGED receiverVars,
         \/ \E u \in Units : Finalize(u)
         \/ Tick \/ Poll
         \/ \E w \in Workers : Dispatch(w)
         \/ \E w \in Workers, u \in Units : SkipUnit(w, u)
  PROVE  IInv'
<1>1. UNCHANGED <<conn, lockedBy, row>>
  BY DEF Finalize, Tick, Poll, Dispatch, SkipUnit
<1>2. \/ UNCHANGED worker
      \/ \E w \in Workers : \E x \in Worker :
            ~Busy(w) /\ x.pc \in {"idle", "next"} /\ worker' = [worker EXCEPT ![w] = x]
  <2>1. ASSUME NEW w \in Workers, Dispatch(w), worker' # worker
        PROVE  \E x \in Worker :
                  ~Busy(w) /\ x.pc \in {"idle", "next"} /\ worker' = [worker EXCEPT ![w] = x]
    <3>1. PICK t \in queue : worker' = [worker EXCEPT ![w] =
                                          Proceed(t[1], t[2], UnitsToDeliver(t[1], t[2]))]
      BY <2>1 DEF Dispatch
    <3>2. t[1] \in Msgs /\ t[2] \in Domains
      BY DEF IInv, TypeOK, SenderTypeOK, Targets
    <3>3. UnitsToDeliver(t[1], t[2]) \in SUBSET Units
      BY DEF UnitsToDeliver
    <3>4. ~Busy(w)
      BY <2>1 DEF Dispatch, Busy
    <3> QED
      BY <3>1, <3>2, <3>3, <3>4, ProceedType
  <2>2. ASSUME NEW w \in Workers, NEW u \in Units, SkipUnit(w, u)
        PROVE  \E x \in Worker :
                  ~Busy(w) /\ x.pc \in {"idle", "next"} /\ worker' = [worker EXCEPT ![w] = x]
    <3>1. /\ worker[w].msg \in Msgs /\ worker[w].dom \in Domains
          /\ worker[w].todo \ {u} \in SUBSET Units
      BY DEF IInv, TypeOK, SenderTypeOK, Worker
    <3>2. ~Busy(w) /\ worker' = [worker EXCEPT ![w] = Without(w, u)]
      BY <2>2 DEF SkipUnit, NextUnit, Busy
    <3> QED
      BY <3>1, <3>2, ProceedType DEF Without
  <2> QED
    BY <2>1, <2>2 DEF Finalize, Tick, Poll
<1>3. /\ worker' \in [Workers -> Worker]
      /\ Engaged' /\ NoSharing' /\ LocksAreHeld' /\ Promises'
  BY <1>1, <1>2, QuietStep
<1>4. /\ row' \in [Rows -> Row]
      /\ PlainDeliveredIsReceived' /\ NotifiedIsRecorded' /\ DuplicateIsReceived'
  BY <1>1, RowsUntouched
<1>5. now' \in Nat /\ sentAt' \in [Units -> Int]
  BY DEF IInv, TypeOK, SenderTypeOK, Finalize, Tick, Poll, Dispatch, SkipUnit
<1>6. queue' \in SUBSET Targets
  BY DEF IInv, TypeOK, SenderTypeOK, Finalize, Tick, Poll, Dispatch, SkipUnit, FindPendingTargets
<1>7. faults' \in Nat
  BY FaultType DEF Finalize, Tick, Poll, Dispatch, SkipUnit
<1>8. TypeOK'
  BY <1>1, <1>3, <1>4, <1>5, <1>6, <1>7 DEF IInv, TypeOK, WireTypeOK, SenderTypeOK,
     ReceiverTypeOK, receiverVars
<1> QED
  BY <1>3, <1>4, <1>8 DEF IInv

\* A forbidden unit is recorded as invalid.
LEMMA InvalidKeepsIInv ==
  ASSUME IInv, UNCHANGED receiverVars, NEW w \in Workers, NEW u \in Units,
         RecordUnitInvalid(w, u)
  PROVE  IInv'
<1>1. Invalid \in Codes \ {AcceptAddTo, UserDuplicate}
  BY CodesType, CodesDiffer DEF InitCodes
<1>2. Everyone(Invalid) \in [Addrs \cup Domains -> Codes]
      /\ \A k \in Owed(w, u) : Everyone(Invalid)[k] = Invalid
  <2>1. Owed(w, u) \subseteq Addrs \cup Domains
    BY RowsType DEF Owed, LockPending
  <2> QED
    BY <1>1, <2>1, EveryoneType
<1>3. /\ row' \in [Rows -> Row]
      /\ PlainDeliveredIsReceived' /\ NotifiedIsRecorded' /\ DuplicateIsReceived'
  <2>1. PICK was : was = row
    OBVIOUS
  <2>2. /\ was \in [Rows -> Row] /\ row' = Recorded(was, u, Owed(w, u), {}, Everyone(Invalid))
        /\ \A r \in Rows : was[r] = row[r]
    BY <2>1 DEF RecordUnitInvalid, Record, IInv, TypeOK, SenderTypeOK
  <2>3. \A k \in Owed(w, u) :
           Everyone(Invalid)[k] # AcceptAddTo /\ Everyone(Invalid)[k] # UserDuplicate
    BY <1>1, <1>2
  <2> QED
    BY <1>1, <1>2, <2>2, <2>3, RecordIsTrue
<1>4. \E x \in Worker :
         ~Busy(w) /\ x.pc \in {"idle", "next"} /\ worker' = [worker EXCEPT ![w] = x]
  <2>1. /\ worker[w].msg \in Msgs /\ worker[w].dom \in Domains
        /\ worker[w].todo \ {u} \in SUBSET Units
    BY DEF IInv, TypeOK, SenderTypeOK, Worker
  <2>2. ~Busy(w) /\ worker' = [worker EXCEPT ![w] = Without(w, u)]
    BY DEF RecordUnitInvalid, NextUnit, Busy
  <2> QED
    BY <2>1, <2>2, ProceedType DEF Without
<1>5. /\ worker' \in [Workers -> Worker]
      /\ Engaged' /\ NoSharing' /\ LocksAreHeld' /\ Promises'
  BY <1>4, QuietStep DEF RecordUnitInvalid
<1>6. TypeOK'
  BY <1>3, <1>5 DEF RecordUnitInvalid, IInv, TypeOK, WireTypeOK, SenderTypeOK,
     ReceiverTypeOK, receiverVars
<1> QED
  BY <1>3, <1>5, <1>6 DEF IInv

\* A delivery begins: its rows were unlocked and its connection slot free, so
\* no other goroutine's are touched.
LEMMA DeliverUnitKeepsIInv ==
  ASSUME IInv, UNCHANGED receiverVars, NEW w \in Workers, NEW u \in Units, NEW c \in Conns,
         DeliverUnit(w, u, c)
  PROVE  IInv'
<1> DEFINE d == worker[w].dom
           x == [pc |-> "await", msg |-> worker[w].msg, dom |-> d,
                 todo |-> worker[w].todo \ {u}, unit |-> u, locked |-> Owed(w, u), conn |-> c]
<1>1. /\ worker[w] \in Worker /\ d \in Domains /\ ~Busy(w)
      /\ worker[w].msg \in Msgs /\ worker[w].todo \in SUBSET Units
  BY DEF IInv, TypeOK, SenderTypeOK, Worker, DeliverUnit, NextUnit, Busy
<1>2. ASSUME NEW k \in Owed(w, u)
      PROVE  /\ k \in Keys(u) /\ KeyDomain(k) = d /\ k \in Addrs \cup Domains
             /\ <<u, k>> \in Rows /\ <<u, k>> \in LockPending(u, d)
  <2>1. PICK r \in LockPending(u, d) : KeyDomain(r[2]) = d /\ k = r[2]
    BY DEF Owed
  <2>2. r \in Rows /\ r[1] = u
    BY DEF LockPending
  <2> QED
    BY <2>1, <2>2, RowsType
<1>3. x \in Worker
  BY <1>1, <1>2 DEF Worker
<1>4. /\ worker' \in [Workers -> Worker] /\ worker'[w] = x
      /\ \A v \in Workers : v # w => worker'[v] = worker[v]
  BY <1>3 DEF IInv, TypeOK, SenderTypeOK, DeliverUnit
<1>5. HeaderSent(u, d) \in Connection
  BY <1>1, CodesType DEF HeaderSent, Connection, RxStates, NoCodes
<1>6. /\ conn' \in [Conns -> Connection] /\ conn'[c] = HeaderSent(u, d)
      /\ \A y \in Conns : y # c => conn'[y] = conn[y]
      /\ conn[c].rx = "free"
  BY <1>5 DEF IInv, TypeOK, WireTypeOK, DeliverUnit
<1>7. /\ lockedBy' \in [Rows -> Workers \cup {NoOne}]
      /\ \A r \in Rows : \/ r \in LockPending(u, d) /\ lockedBy'[r] = w /\ lockedBy[r] = NoOne
                         \/ r \notin LockPending(u, d) /\ lockedBy'[r] = lockedBy[r]
      /\ \A r \in LockPending(u, d) : r[1] = u
  BY DEF IInv, TypeOK, SenderTypeOK, DeliverUnit, LockPending
<1>8. ASSUME NEW v \in Workers, v # w, Busy(v)'
      PROVE  /\ Busy(v) /\ worker'[v] = worker[v]
             /\ worker[v].conn # c /\ worker[v].conn \in Conns
             /\ conn'[worker[v].conn] = conn[worker[v].conn]
  <2>1. Busy(v) /\ worker'[v] = worker[v]
    BY <1>4, <1>8 DEF Busy
  <2> QED
    BY <1>6, <2>1 DEF IInv, Engaged
<1>9. x.conn = c /\ x.unit = u /\ x.dom = d /\ x.locked = Owed(w, u) /\ x.pc = "await"
  OBVIOUS
<1>10. /\ HeaderSent(u, d).rx = "header" /\ HeaderSent(u, d).open
       /\ HeaderSent(u, d).unit = u /\ HeaderSent(u, d).dom = d
       /\ HeaderSent(u, d).plan = NullCode /\ HeaderSent(u, d).init = NullCode
  BY DEF HeaderSent
<1> HIDE DEF x
<1>11. Engaged'
  <2> SUFFICES ASSUME NEW v \in Workers, Busy(v)'
               PROVE  (/\ worker[v].conn \in Conns
                       /\ conn[worker[v].conn].rx # "free"
                       /\ conn[worker[v].conn].open
                       /\ conn[worker[v].conn].unit = worker[v].unit
                       /\ conn[worker[v].conn].dom = worker[v].dom
                       /\ \A k \in worker[v].locked :
                              /\ k \in Keys(worker[v].unit)
                              /\ KeyDomain(k) = worker[v].dom
                              /\ lockedBy[<<worker[v].unit, k>>] = v)'
    BY DEF Engaged
  <2>1. CASE v = w
    <3>1. \A k \in Owed(w, u) : /\ k \in Keys(u) /\ KeyDomain(k) = d
                                /\ lockedBy'[<<u, k>>] = w
      BY <1>2, <1>7
    <3> QED
      BY <1>4, <1>6, <1>9, <1>10, <2>1, <3>1 DEF Keys, KeyDomain, Recipients
  <2>2. CASE v # w
    <3>1. /\ Busy(v) /\ worker'[v] = worker[v] /\ worker[v].conn \in Conns
          /\ conn'[worker[v].conn] = conn[worker[v].conn]
      BY <1>8, <2>2
    <3>2. \A k \in worker[v].locked : /\ k \in Keys(worker[v].unit)
                                      /\ KeyDomain(k) = worker[v].dom
                                      /\ lockedBy[<<worker[v].unit, k>>] = v
                                      /\ <<worker[v].unit, k>> \in Rows
      BY <3>1, RowsType DEF IInv, Engaged, TypeOK, SenderTypeOK, Worker
    <3>3. \A k \in worker[v].locked : lockedBy'[<<worker[v].unit, k>>] = v
      BY <1>7, <3>2, SenderAssumption
    <3> QED
      BY <3>1, <3>2, <3>3 DEF IInv, Engaged, Keys, KeyDomain, Recipients
  <2> QED
    BY <2>1, <2>2
<1>12. NoSharing'
  <2> SUFFICES ASSUME NEW v \in Workers, NEW z \in Workers, v # z, Busy(v)', Busy(z)'
               PROVE  worker'[v].conn # worker'[z].conn
    BY DEF NoSharing
  <2>1. CASE v = w
    BY <1>4, <1>8, <1>9, <2>1
  <2>2. CASE z = w
    BY <1>4, <1>8, <1>9, <2>2
  <2>3. CASE v # w /\ z # w
    BY <1>8, <2>3 DEF IInv, NoSharing
  <2> QED
    BY <2>1, <2>2, <2>3
<1>13. LocksAreHeld'
  <2> SUFFICES ASSUME NEW r \in Rows, lockedBy'[r] # NoOne
               PROVE  /\ worker'[lockedBy'[r]].pc \in {"await", "codes"}
                      /\ worker'[lockedBy'[r]].unit = r[1]
    BY DEF LocksAreHeld, Busy
  <2>1. CASE lockedBy'[r] = w /\ r \in LockPending(u, d)
    BY <1>4, <1>7, <1>9, <2>1
  <2>2. CASE r \notin LockPending(u, d)
    <3>1. lockedBy'[r] = lockedBy[r]
      BY <1>7, <2>2
    <3>2. lockedBy[r] \in Workers
      BY <3>1 DEF IInv, TypeOK, SenderTypeOK
    <3>3. Busy(lockedBy[r]) /\ worker[lockedBy[r]].unit = r[1]
      BY <3>1 DEF IInv, LocksAreHeld
    <3>4. worker'[lockedBy[r]] = worker[lockedBy[r]]
      BY <1>1, <1>4, <3>2, <3>3
    <3> QED
      BY <3>1, <3>3, <3>4 DEF Busy
  <2> QED
    BY <1>7, <2>1, <2>2
<1>14. Promises'
  <2> SUFFICES ASSUME NEW y \in Conns
               PROVE  Kept(conn[y])'
    BY DEF Promises
  <2>1. CASE y = c
    BY <1>6, <1>10, <2>1, CodesDiffer DEF Kept, InitCodes
  <2>2. CASE y # c
    BY <1>6, <2>2 DEF IInv, Promises, Kept, AddToBatchRecorded, receiverVars
  <2> QED
    BY <2>1, <2>2
<1>15. /\ row' \in [Rows -> Row]
       /\ PlainDeliveredIsReceived' /\ NotifiedIsRecorded' /\ DuplicateIsReceived'
  BY RowsUntouched DEF DeliverUnit
<1>16. TypeOK'
  BY <1>4, <1>6, <1>7, <1>15 DEF DeliverUnit, IInv, TypeOK, WireTypeOK, SenderTypeOK,
     ReceiverTypeOK, receiverVars
<1> QED
  BY <1>11, <1>12, <1>13, <1>14, <1>15, <1>16 DEF IInv

\* Every step of the sender.
LEMMA SenderKeepsIInv ==
  ASSUME IInv, UNCHANGED receiverVars, SenderNext
  PROVE  IInv'
<1>1. ASSUME NEW w \in Workers, WorkerStep(w)
      PROVE  IInv'
  BY <1>1, QuietKeepsIInv, InvalidKeepsIInv, DeliverUnitKeepsIInv, ReadInitKeepsIInv,
     ReadCodesKeepsIInv, LossKeepsIInv DEF WorkerStep
<1> QED
  BY <1>1, QuietKeepsIInv, CrashKeepsIInv DEF SenderNext

----------------------------------------------------------------------------
(***************************************************************************)
(* The steps of the receivers.                                             *)
(***************************************************************************)
\* A handler moves its connection on, and frees the slot only if the sender has
\* left: one lemma per stage.
LEMMA CheckedFields ==
  ASSUME NEW k \in Connection, NEW code \in Codes
  PROVE  /\ Checked(k, code) \in Connection /\ Checked(k, code).rx = "checked"
         /\ Checked(k, code).plan = code /\ Checked(k, code).init = k.init
         /\ Checked(k, code).open = k.open
         /\ Checked(k, code).unit = k.unit /\ Checked(k, code).dom = k.dom
BY DEF Checked, Connection, RxStates

\* The initial response is written.
LEMMA RespondedFields ==
  ASSUME NEW k \in Connection, NEW code \in Codes
  PROVE  /\ Responded(k, code) \in Connection /\ Responded(k, code).rx = "responded"
         /\ Responded(k, code).plan = k.plan /\ Responded(k, code).init = code
         /\ Responded(k, code).open = k.open
         /\ Responded(k, code).unit = k.unit /\ Responded(k, code).dom = k.dom
BY DEF Responded, Connection, RxStates

\* The recipients' codes are decided.
LEMMA ValidatedFields ==
  ASSUME NEW k \in Connection, NEW codes \in [Entries -> Codes]
  PROVE  /\ Validated(k, codes) \in Connection /\ Validated(k, codes).rx = "validated"
         /\ Validated(k, codes).plan = k.plan /\ Validated(k, codes).init = k.init
         /\ Validated(k, codes).open = k.open /\ Validated(k, codes).codes = codes
         /\ Validated(k, codes).unit = k.unit /\ Validated(k, codes).dom = k.dom
BY DEF Validated, Connection, RxStates

\* What Recycle may do.
LEMMA RecycleFacts ==
  ASSUME NEW k \in Connection
  PROVE  Recycle(k) \in Connection /\ (Recycle(k) = k \/ (Recycle(k) = FreeConn /\ ~k.open))
BY RecycleType DEF Recycle

\* The connection is closed with a single code.
LEMMA ClosedFields ==
  ASSUME NEW k \in Connection, NEW code \in Codes
  PROVE  /\ Closed(k, code) \in Connection
         /\ \/ Closed(k, code) = FreeConn /\ ~k.open
            \/ /\ Closed(k, code).rx = "closed"
               /\ Closed(k, code).plan = k.plan /\ Closed(k, code).init = code
               /\ Closed(k, code).open = k.open
               /\ Closed(k, code).unit = k.unit /\ Closed(k, code).dom = k.dom
<1> DEFINE x == [k EXCEPT !.rx = "closed", !.init = code]
<1>1. /\ x \in Connection /\ x.rx = "closed" /\ x.plan = k.plan /\ x.init = code
      /\ x.open = k.open /\ x.unit = k.unit /\ x.dom = k.dom
  BY DEF Connection, RxStates
<1>2. Closed(k, code) = Recycle(x)
  BY DEF Closed
<1> HIDE DEF x
<1> QED
  BY <1>1, <1>2, RecycleFacts

\* The codes are written.
LEMMA AnsweredFields ==
  ASSUME NEW k \in Connection, NEW codes \in [Entries -> Codes]
  PROVE  /\ Answered(k, codes) \in Connection
         /\ \/ Answered(k, codes) = FreeConn /\ ~k.open
            \/ /\ Answered(k, codes).rx = "answered"
               /\ Answered(k, codes).plan = k.plan /\ Answered(k, codes).init = k.init
               /\ Answered(k, codes).open = k.open /\ Answered(k, codes).codes = codes
               /\ Answered(k, codes).unit = k.unit /\ Answered(k, codes).dom = k.dom
<1> DEFINE x == [k EXCEPT !.rx = "answered", !.codes = codes]
<1>1. /\ x \in Connection /\ x.rx = "answered" /\ x.plan = k.plan /\ x.init = k.init
      /\ x.open = k.open /\ x.codes = codes /\ x.unit = k.unit /\ x.dom = k.dom
  BY DEF Connection, RxStates
<1>2. Answered(k, codes) = Recycle(x)
  BY DEF Answered
<1> HIDE DEF x
<1> QED
  BY <1>1, <1>2, RecycleFacts

\* The connection is aborted.
LEMMA AbortedFields ==
  ASSUME NEW k \in Connection
  PROVE  /\ Aborted(k) \in Connection
         /\ \/ Aborted(k) = FreeConn /\ ~k.open
            \/ /\ Aborted(k).rx = "aborted"
               /\ Aborted(k).plan = k.plan /\ Aborted(k).init = k.init
               /\ Aborted(k).open = k.open
               /\ Aborted(k).unit = k.unit /\ Aborted(k).dom = k.dom
<1> DEFINE x == [k EXCEPT !.rx = "aborted"]
<1>1. /\ x \in Connection /\ x.rx = "aborted" /\ x.plan = k.plan /\ x.init = k.init
      /\ x.open = k.open /\ x.unit = k.unit /\ x.dom = k.dom
  BY DEF Connection, RxStates
<1>2. Aborted(k) = Recycle(x)
  BY DEF Aborted
<1> HIDE DEF x
<1> QED
  BY <1>1, <1>2, RecycleFacts

\* Whatever a handler does to its own connection and to what the receivers
\* store, the sender's invariants stand if nothing stored is lost, an open
\* connection stays its sender's and the connection's new promises are true.
LEMMA HandlerKeepsIInv ==
  ASSUME IInv, UNCHANGED senderVars, NEW c \in Conns,
         conn' \in [Conns -> Connection],
         \A y \in Conns : y # c => conn'[y] = conn[y],
         conn[c].open => /\ conn'[c].rx # "free" /\ conn'[c].open
                         /\ conn'[c].unit = conn[c].unit /\ conn'[c].dom = conn[c].dom,
         Kept(conn[c])',
         ReceiverTypeOK', received \subseteq received',
         \A d \in Domains, u \in Units : batchRows[d][u] > 0 => batchRows'[d][u] > 0,
         faults' \in Nat
  PROVE  IInv'
<1> USE DEF senderVars
<1>1. TypeOK'
  BY DEF IInv, TypeOK, WireTypeOK, SenderTypeOK
<1>2. \A v \in Workers : Busy(v)' <=> Busy(v)
  BY DEF Busy
<1>3. Engaged'
  <2> SUFFICES ASSUME NEW v \in Workers, Busy(v)'
               PROVE  (/\ worker[v].conn \in Conns
                       /\ conn[worker[v].conn].rx # "free"
                       /\ conn[worker[v].conn].open
                       /\ conn[worker[v].conn].unit = worker[v].unit
                       /\ conn[worker[v].conn].dom = worker[v].dom
                       /\ \A k \in worker[v].locked :
                              /\ k \in Keys(worker[v].unit)
                              /\ KeyDomain(k) = worker[v].dom
                              /\ lockedBy[<<worker[v].unit, k>>] = v)'
    BY DEF Engaged
  <2>1. Busy(v)
    BY <1>2
  <2>2. CASE worker[v].conn = c
    BY <2>1, <2>2 DEF IInv, Engaged, Keys, KeyDomain, Recipients
  <2>3. CASE worker[v].conn # c
    BY <2>1, <2>3 DEF IInv, Engaged, Keys, KeyDomain, Recipients
  <2> QED
    BY <2>2, <2>3
<1>4. NoSharing' /\ LocksAreHeld'
  BY DEF IInv, NoSharing, LocksAreHeld, Busy
<1>5. Promises'
  <2> SUFFICES ASSUME NEW y \in Conns
               PROVE  Kept(conn[y])'
    BY DEF Promises
  <2>1. CASE y # c
    <3>1. conn'[y] = conn[y] /\ Kept(conn[y]) /\ conn[y].unit \in Units /\ conn[y].dom \in Domains
      BY <2>1 DEF IInv, Promises, TypeOK, WireTypeOK, Connection
    <3> QED
      BY <3>1 DEF Kept, AddToBatchRecorded
  <2> QED
    BY <2>1
<1>6. PlainDeliveredIsReceived' /\ DuplicateIsReceived'
  BY DEF IInv, PlainDeliveredIsReceived, Plain, DuplicateIsReceived
<1>7. NotifiedIsRecorded'
  BY RowsType DEF IInv, NotifiedIsRecorded, AddToBatchRecorded
<1> QED
  BY <1>1, <1>3, <1>4, <1>5, <1>6, <1>7 DEF IInv

\* What stands for the connection of a handler.
LEMMA HandlerFacts ==
  ASSUME IInv, NEW c \in Conns
  PROVE  /\ conn[c] \in Connection /\ conn[c].unit \in Units /\ conn[c].dom \in Domains
         /\ conn[c].plan \in Codes /\ conn[c].init \in Codes
         /\ conn[c].codes \in [Entries -> Codes]
         /\ Kept(conn[c])
         /\ \A k : conn' = [conn EXCEPT ![c] = k] =>
                /\ conn'[c] = k
                /\ \A y \in Conns : y # c => conn'[y] = conn[y]
                /\ k \in Connection => conn' \in [Conns -> Connection]
BY DEF IInv, TypeOK, WireTypeOK, Promises, Connection

\* A free connection promises nothing.
LEMMA FreeIsKept ==
  ASSUME NEW c \in Conns, conn'[c] = FreeConn
  PROVE  Kept(conn[c])'
BY CodesDiffer DEF Kept, FreeConn, InitCodes

\* The verdict on a header is a response code, and 11 only for a batch without
\* recipients on the domain.
LEMMA VerdictFacts ==
  ASSUME NEW u \in Units, NEW d \in Domains
  PROVE  /\ HeaderVerdict(u, d) \in InitCodes
         /\ HeaderVerdict(u, d) = AcceptAddTo => AddToAt(u, d) = {}
<1>1. /\ AddToVerdict(u, d) \in InitCodes
      /\ AddToVerdict(u, d) = AcceptAddTo => AddToAt(u, d) = {}
  BY CodesDiffer DEF AddToVerdict, InitCodes
<1>2. /\ ReplyVerdict(MsgOf[u], d) \in InitCodes
      /\ ReplyVerdict(MsgOf[u], d) # AcceptAddTo
  BY CodesDiffer DEF ReplyVerdict, InitCodes
<1> QED
  BY <1>1, <1>2 DEF HeaderVerdict

\* Storing keeps what is stored.
LEMMA AttachFacts ==
  ASSUME IInv, NEW u \in Units, NEW d \in Domains, AttachAddToRecipients(u, d)
  PROVE  /\ ReceiverTypeOK' /\ received \subseteq received'
         /\ \A e \in Domains, v \in Units : batchRows[e][v] > 0 => batchRows'[e][v] > 0
         /\ batchRows'[d][u] > 0
         /\ \A a \in AddToAt(u, d) \cap OwnCase : <<MsgOf[u], a>> \in received'
<1>1. msgAt' \in [Domains -> SUBSET Msgs]
  BY DEF IInv, TypeOK, ReceiverTypeOK, AttachAddToRecipients
<1>2. received' \in SUBSET (Msgs \X Addrs) /\ received \subseteq received'
      /\ \A a \in AddToAt(u, d) \cap OwnCase : <<MsgOf[u], a>> \in received'
  BY WireAssumption DEF IInv, TypeOK, ReceiverTypeOK, AttachAddToRecipients, AddToAt
<1>3. batchRows \in [Domains -> [Units -> Nat]]
  BY DEF IInv, TypeOK, ReceiverTypeOK
<1>4. batchRows' = [batchRows EXCEPT ![d][u] = @ + 1]
  BY DEF AttachAddToRecipients
<1>5. batchRows' \in [Domains -> [Units -> Nat]]
  BY <1>3, <1>4
<1>6. \A e \in Domains, v \in Units :
         batchRows'[e][v] = IF e = d /\ v = u THEN batchRows[e][v] + 1 ELSE batchRows[e][v]
  BY <1>3, <1>4
<1>7. /\ \A e \in Domains, v \in Units : batchRows[e][v] > 0 => batchRows'[e][v] > 0
      /\ batchRows'[d][u] > 0
  BY <1>3, <1>6
<1> QED
  BY <1>1, <1>2, <1>5, <1>7 DEF ReceiverTypeOK

\* A message that is stored is stored for its plain accepted recipients: for those
\* of the batch if the message was here before, for all of them if it was not.
LEMMA StoreFacts ==
  ASSUME IInv, NEW u \in Units, NEW d \in Domains, NEW codes, StoreMsgDetail(u, d, codes)
  PROVE  /\ ReceiverTypeOK' /\ received \subseteq received'
         /\ \A f \in Domains, v \in Units : batchRows[f][v] > 0 => batchRows'[f][v] > 0
         /\ \A e \in LocalEntries(u, d) :
               e[2] \in Recipients(u) /\ Plain(u, e[2]) /\ codes[e] = Accept
                   => <<MsgOf[u], e[2]>> \in received'
<1>1. CASE MsgOf[u] \in msgAt[d]
  <2>1. AttachAddToRecipients(u, d) /\ u \in Batches
    BY <1>1 DEF StoreMsgDetail, Collides
  <2>2. \A e \in LocalEntries(u, d) :
           e[2] \in Recipients(u) /\ Plain(u, e[2]) => e[2] \in AddToAt(u, d) \cap OwnCase
    BY <2>1 DEF LocalEntries, Recipients, Plain, AddToAt
  <2> QED
    BY <2>1, <2>2, AttachFacts
<1>2. CASE MsgOf[u] \notin msgAt[d]
  <2>1. InsertMessage(u, d, codes)
    BY <1>2 DEF StoreMsgDetail
  <2>2. /\ msgAt \in [Domains -> SUBSET Msgs] /\ batchRows \in [Domains -> [Units -> Nat]]
        /\ received \in SUBSET (Msgs \X Addrs) /\ MsgOf[u] \in Msgs
    BY WireAssumption DEF IInv, TypeOK, ReceiverTypeOK
  <2>3. msgAt' \in [Domains -> SUBSET Msgs]
    BY <2>1, <2>2 DEF InsertMessage
  <2>4. \A e \in LocalEntries(u, d) : e = <<e[1], e[2]>> /\ e[1] \in Lists /\ e[2] \in Addrs
    BY DEF LocalEntries, Entries
  <2>5. DeliveredHere(u, d, codes) \subseteq Addrs
    BY <2>4 DEF DeliveredHere, LocalRecipients
  <2>6. ASSUME NEW e \in LocalEntries(u, d), e[2] \in Recipients(u), Plain(u, e[2]),
               codes[e] = Accept
        PROVE  e[2] \in DeliveredHere(u, d, codes)
    <3>1. e[2] \in AddTo[u] <=> u \in Batches
      BY <2>6, WireAssumption DEF Recipients
    <3>2. e[2] \in Listed(u, e[1])
      BY DEF LocalEntries
    <3>3. e[1] = IF e[2] \in AddTo[u] THEN "add to" ELSE "to"
      BY <2>4, <2>6, <3>1, <3>2 DEF Listed, Plain, Lists
    <3>4. e = <<IF e[2] \in AddTo[u] THEN "add to" ELSE "to", e[2]>>
      BY <2>4, <3>3
    <3>5. e[2] \in LocalRecipients(u, d)
      BY DEF LocalRecipients
    <3> QED
      BY <2>6, <3>4, <3>5 DEF DeliveredHere, LastCode
  <2>7. /\ received' \in SUBSET (Msgs \X Addrs) /\ received \subseteq received'
        /\ \A x \in DeliveredHere(u, d, codes) : <<MsgOf[u], x>> \in received'
    BY <2>1, <2>2, <2>5 DEF InsertMessage
  <2>8. batchRows' = batchRows \/ batchRows' = [batchRows EXCEPT ![d][u] = @ + 1]
    BY <2>1 DEF InsertMessage
  <2>9. batchRows' \in [Domains -> [Units -> Nat]]
    BY <2>2, <2>8
  <2>10. \A f \in Domains, v \in Units :
            batchRows'[f][v] = batchRows[f][v] \/ batchRows'[f][v] = batchRows[f][v] + 1
    BY <2>2, <2>8
  <2>11. \A f \in Domains, v \in Units : batchRows[f][v] > 0 => batchRows'[f][v] > 0
    BY <2>2, <2>10
  <2> QED
    BY <2>3, <2>6, <2>7, <2>9, <2>11 DEF ReceiverTypeOK
<1> QED
  BY <1>1, <1>2

\* A handler that stores nothing.
LEMMA NothingStored ==
  ASSUME IInv, UNCHANGED receiverVars
  PROVE  /\ ReceiverTypeOK' /\ received \subseteq received'
         /\ \A d \in Domains, u \in Units : batchRows[d][u] > 0 => batchRows'[d][u] > 0
BY DEF IInv, TypeOK, ReceiverTypeOK, receiverVars

\* A refusal is written, whatever is stored besides.
LEMMA ClosingKeepsIInv ==
  ASSUME IInv, UNCHANGED senderVars, NEW c \in Conns,
         NEW code \in InitCodes \ {AcceptAddTo}, Respond(c, code),
         ReceiverTypeOK', received \subseteq received',
         \A d \in Domains, u \in Units : batchRows[d][u] > 0 => batchRows'[d][u] > 0,
         faults' \in Nat
  PROVE  IInv'
<1>1. code \in Codes
  BY CodesType
<1>2. conn' = [conn EXCEPT ![c] = Closed(conn[c], code)]
  BY DEF Respond
<1>3. Closed(conn[c], code) \in Connection
  BY <1>1, HandlerFacts, ClosedFields
<1>4. conn' \in [Conns -> Connection] /\ conn'[c] = Closed(conn[c], code)
      /\ \A y \in Conns : y # c => conn'[y] = conn[y]
  BY <1>2, <1>3, HandlerFacts
<1>5. \/ conn'[c] = FreeConn /\ ~conn[c].open
      \/ /\ conn'[c].rx = "closed" /\ conn'[c].open = conn[c].open
         /\ conn'[c].unit = conn[c].unit /\ conn'[c].dom = conn[c].dom
         /\ conn'[c].plan = conn[c].plan /\ conn'[c].init = code
  BY <1>1, <1>4, HandlerFacts, ClosedFields
<1>6. Kept(conn[c])'
  <2>1. CASE conn'[c] = FreeConn
    BY <2>1, FreeIsKept
  <2>2. CASE conn'[c] # FreeConn
    BY <1>5, <2>2, HandlerFacts DEF Kept
  <2> QED
    BY <2>1, <2>2
<1> QED
  BY <1>4, <1>5, <1>6, HandlerKeepsIInv

\* A refusal is written and nothing stored.
LEMMA RefusalKeepsIInv ==
  ASSUME IInv, UNCHANGED senderVars, UNCHANGED receiverVars, NEW c \in Conns,
         NEW code \in InitCodes \ {AcceptAddTo}, Respond(c, code), faults' \in Nat
  PROVE  IInv'
BY NothingStored, ClosingKeepsIInv

\* Code 11 is written for a batch that has been recorded.
LEMMA AcceptedBatchKeepsIInv ==
  ASSUME IInv, UNCHANGED senderVars, NEW c \in Conns, conn[c].plan = AcceptAddTo,
         AttachAddToRecipients(conn[c].unit, conn[c].dom), Respond(c, AcceptAddTo),
         faults' \in Nat
  PROVE  IInv'
<1>1. AcceptAddTo \in Codes /\ AcceptAddTo \in InitCodes
  BY CodesType DEF InitCodes
<1>2. conn' = [conn EXCEPT ![c] = Closed(conn[c], AcceptAddTo)]
  BY DEF Respond
<1>3. Closed(conn[c], AcceptAddTo) \in Connection
  BY <1>1, HandlerFacts, ClosedFields
<1>4. conn' \in [Conns -> Connection] /\ conn'[c] = Closed(conn[c], AcceptAddTo)
      /\ \A y \in Conns : y # c => conn'[y] = conn[y]
  BY <1>2, <1>3, HandlerFacts
<1>5. \/ conn'[c] = FreeConn /\ ~conn[c].open
      \/ /\ conn'[c].rx = "closed" /\ conn'[c].open = conn[c].open
         /\ conn'[c].unit = conn[c].unit /\ conn'[c].dom = conn[c].dom
         /\ conn'[c].plan = conn[c].plan /\ conn'[c].init = AcceptAddTo
  BY <1>1, <1>4, HandlerFacts, ClosedFields
<1>6. /\ ReceiverTypeOK' /\ received \subseteq received'
      /\ \A d \in Domains, u \in Units : batchRows[d][u] > 0 => batchRows'[d][u] > 0
      /\ batchRows'[conn[c].dom][conn[c].unit] > 0
  BY AttachFacts, HandlerFacts
<1>7. Kept(conn[c])'
  <2>1. CASE conn'[c] = FreeConn
    BY <2>1, FreeIsKept
  <2>2. CASE conn'[c] # FreeConn
    BY <1>1, <1>5, <1>6, <2>2, HandlerFacts DEF Kept, AddToBatchRecorded
  <2> QED
    BY <2>1, <2>2
<1> QED
  BY <1>4, <1>5, <1>6, <1>7, HandlerKeepsIInv

\* The header exchange.
LEMMA ReadHeaderKeepsIInv ==
  ASSUME IInv, UNCHANGED senderVars, NEW c \in Conns, ReadHeader(c)
  PROVE  IInv'
<1> DEFINE verdict == HeaderVerdict(conn[c].unit, conn[c].dom)
<1>1. UNCHANGED receiverVars /\ faults' \in Nat
  BY FaultType DEF ReadHeader, receiverVars
<1>2. verdict \in InitCodes /\ verdict \in Codes
      /\ (verdict = AcceptAddTo => AddToAt(conn[c].unit, conn[c].dom) = {})
  BY HandlerFacts, VerdictFacts, CodesType
<1>3. CASE conn' = [conn EXCEPT ![c] = Checked(@, verdict)]
  <2>1. conn' = [conn EXCEPT ![c] = Checked(conn[c], verdict)]
    BY <1>3
  <2> HIDE DEF verdict
  <2>0. Checked(conn[c], verdict) \in Connection
    BY <1>2, HandlerFacts, CheckedFields
  <2>2. conn' \in [Conns -> Connection] /\ conn'[c] = Checked(conn[c], verdict)
        /\ \A y \in Conns : y # c => conn'[y] = conn[y]
    BY <2>1, <2>0, HandlerFacts
  <2>3. /\ conn'[c].rx = "checked" /\ conn'[c].open = conn[c].open
        /\ conn'[c].unit = conn[c].unit /\ conn'[c].dom = conn[c].dom
        /\ conn'[c].plan = verdict /\ conn'[c].init = conn[c].init
    BY <1>2, <2>2, HandlerFacts, CheckedFields
  <2>4. Kept(conn[c])'
    BY <1>1, <1>2, <2>3, HandlerFacts DEF Kept, AddToBatchRecorded, receiverVars
  <2> QED
    BY <1>1, <2>2, <2>3, <2>4, NothingStored, HandlerKeepsIInv
<1>4. CASE verdict # AcceptAddTo /\ Respond(c, verdict)
  BY <1>1, <1>2, <1>4, RefusalKeepsIInv
<1> QED
  BY <1>3, <1>4 DEF ReadHeader

\* The response to the header.
LEMMA RespondToHeaderKeepsIInv ==
  ASSUME IInv, UNCHANGED senderVars, NEW c \in Conns, RespondToHeader(c)
  PROVE  IInv'
<1> DEFINE u == conn[c].unit
           d == conn[c].dom
<1>1. PICK challenged \in ChallengeModes :
        LET code == ResolvePostChallengeCode(conn[c].plan, challenged, AllLocalDup(u, d)) IN
         \/ code = AcceptAddTo /\ StoreMsgHeaderOnly(u, d) /\ Respond(c, AcceptAddTo)
         \/ code = Duplicate /\ Respond(c, Duplicate) /\ UNCHANGED receiverVars
         \/ /\ code \in {Continue, SkipData}
            /\ conn' = [conn EXCEPT ![c] = Responded(@, code)]
            /\ UNCHANGED receiverVars
  BY DEF RespondToHeader
<1> DEFINE code == ResolvePostChallengeCode(conn[c].plan, challenged, AllLocalDup(u, d))
<1>2. faults' \in Nat
  BY FaultType DEF RespondToHeader
<1>3. CASE code = AcceptAddTo /\ StoreMsgHeaderOnly(u, d) /\ Respond(c, AcceptAddTo)
  <2>1. conn[c].plan = AcceptAddTo
    BY <1>3, CodesDiffer DEF ResolvePostChallengeCode
  <2> QED
    BY <1>2, <1>3, <2>1, AcceptedBatchKeepsIInv DEF StoreMsgHeaderOnly
<1>4. CASE code = Duplicate /\ Respond(c, Duplicate) /\ UNCHANGED receiverVars
  <2>1. Duplicate \in InitCodes \ {AcceptAddTo}
    BY CodesDiffer DEF InitCodes
  <2> QED
    BY <1>2, <1>4, <2>1, RefusalKeepsIInv
<1>5. CASE /\ code \in {Continue, SkipData}
           /\ conn' = [conn EXCEPT ![c] = Responded(@, code)]
           /\ UNCHANGED receiverVars
  <2>1. conn' = [conn EXCEPT ![c] = Responded(conn[c], code)]
    BY <1>5
  <2>2. code \in Codes /\ code \in InitCodes /\ code # AcceptAddTo
    BY <1>5, CodesType, CodesDiffer DEF InitCodes
  <2> HIDE DEF code, u, d
  <2>3. conn' \in [Conns -> Connection] /\ conn'[c] = Responded(conn[c], code)
        /\ \A y \in Conns : y # c => conn'[y] = conn[y]
    BY <2>1, <2>2, HandlerFacts, RespondedFields
  <2>4. /\ conn'[c].rx = "responded" /\ conn'[c].open = conn[c].open
        /\ conn'[c].unit = conn[c].unit /\ conn'[c].dom = conn[c].dom
        /\ conn'[c].plan = conn[c].plan /\ conn'[c].init = code
    BY <2>2, <2>3, HandlerFacts, RespondedFields
  <2>5. Kept(conn[c])'
    BY <1>5, <2>2, <2>4, HandlerFacts DEF Kept, AddToBatchRecorded, receiverVars
  <2> QED
    BY <1>2, <1>5, <2>3, <2>4, <2>5, NothingStored, HandlerKeepsIInv
<1> QED
  BY <1>1, <1>3, <1>4, <1>5

\* Code 3, after which the batch may have been recorded all the same.
LEMMA RespondUndisclosedKeepsIInv ==
  ASSUME IInv, UNCHANGED senderVars, NEW c \in Conns, RespondUndisclosed(c)
  PROVE  IInv'
<1>1. Undisclosed \in InitCodes \ {AcceptAddTo} /\ faults' \in Nat
  BY CodesDiffer, FaultType DEF InitCodes, RespondUndisclosed
<1>2. /\ ReceiverTypeOK' /\ received \subseteq received'
      /\ \A d \in Domains, u \in Units : batchRows[d][u] > 0 => batchRows'[d][u] > 0
  BY NothingStored, AttachFacts, HandlerFacts DEF RespondUndisclosed, StoreMsgHeaderOnly
<1> QED
  BY <1>1, <1>2, ClosingKeepsIInv DEF RespondUndisclosed

\* The codes of the recipients: 103 for those who have the message.
LEMMA ValidateRecipientsKeepsIInv ==
  ASSUME IInv, UNCHANGED senderVars, NEW c \in Conns, ValidateRecipients(c)
  PROVE  IInv'
<1> DEFINE m     == MsgOf[conn[c].unit]
           local == LocalEntries(conn[c].unit, conn[c].dom)
<1>1. PICK verdict \in [local -> UserCodes], bad \in SUBSET local :
         /\ \A e \in local : verdict[e] \in Verdicts[e[2]]
         /\ \A e \in bad : CodeFor(m, e[2], verdict[e]) = Accept
         /\ (bad = {} /\ UNCHANGED faults) \/ (bad # {} /\ Fault)
         /\ conn' = [conn EXCEPT ![c] = Validated(@,
               [e \in Entries |->
                   CASE e \notin local             -> NullCode
                     [] e \in bad                  -> UserUndisclosed
                     [] e \in local \ bad          -> CodeFor(m, e[2], verdict[e])])]
  BY DEF ValidateRecipients
<1> DEFINE codes == [e \in Entries |->
                       CASE e \notin local         -> NullCode
                         [] e \in bad              -> UserUndisclosed
                         [] e \in local \ bad      -> CodeFor(m, e[2], verdict[e])]
<1>2. UNCHANGED receiverVars /\ faults' \in Nat
  BY <1>1, FaultType DEF ValidateRecipients, receiverVars
<1>3. ASSUME NEW e \in Entries
      PROVE  /\ codes[e] \in Codes
             /\ codes[e] = UserDuplicate => <<m, e[2]>> \in received
  <2>1. CASE e \notin local
    <3>1. codes[e] = NullCode
      BY <2>1
    <3> QED
      BY <3>1, CodesType, CodesDiffer DEF InitCodes
  <2>2. CASE e \in bad
    <3>1. codes[e] = UserUndisclosed
      BY <2>2
    <3> QED
      BY <3>1, CodesType, CodesDiffer
  <2>3. CASE e \in local \ bad
    <3>1. codes[e] = CodeFor(m, e[2], verdict[e])
      BY <2>3
    <3>2. verdict[e] \in UserCodes
      BY <2>3
    <3> QED
      BY <3>1, <3>2, CodesType, CodesDiffer DEF CodeFor, HasAddrReceivedMsgHash
  <2> QED
    BY <2>1, <2>2, <2>3
<1>4. codes \in [Entries -> Codes]
  BY <1>3
<1>5. conn' = [conn EXCEPT ![c] = Validated(conn[c], codes)]
  BY <1>1
<1> HIDE DEF codes, local, m
<1>6. Validated(conn[c], codes) \in Connection
  BY <1>4, HandlerFacts, ValidatedFields
<1>7. conn' \in [Conns -> Connection] /\ conn'[c] = Validated(conn[c], codes)
      /\ \A y \in Conns : y # c => conn'[y] = conn[y]
  BY <1>5, <1>6, HandlerFacts
<1>8. /\ conn'[c].rx = "validated" /\ conn'[c].open = conn[c].open
      /\ conn'[c].unit = conn[c].unit /\ conn'[c].dom = conn[c].dom
      /\ conn'[c].plan = conn[c].plan /\ conn'[c].init = conn[c].init
      /\ conn'[c].codes = codes
  BY <1>4, <1>7, HandlerFacts, ValidatedFields
<1>9. Kept(conn[c])'
  BY <1>2, <1>3, <1>8, HandlerFacts DEF Kept, AddToBatchRecorded, receiverVars, m
<1> QED
  BY <1>2, <1>7, <1>8, <1>9, NothingStored, HandlerKeepsIInv

\* The codes go out: those that accept speak for rows that are stored by now.
LEMMA AnswerKeepsIInv ==
  ASSUME IInv, UNCHANGED senderVars, NEW c \in Conns, conn[c].rx = "validated",
         NEW codes \in [Entries -> Codes], Answer(c, codes),
         \A e \in Entries : codes[e] = UserDuplicate => conn[c].codes[e] = UserDuplicate,
         \A e \in LocalEntries(conn[c].unit, conn[c].dom) :
             e[2] \in Recipients(conn[c].unit) /\ Plain(conn[c].unit, e[2]) /\ codes[e] = Accept
                 => <<MsgOf[conn[c].unit], e[2]>> \in received',
         ReceiverTypeOK', received \subseteq received',
         \A d \in Domains, u \in Units : batchRows[d][u] > 0 => batchRows'[d][u] > 0,
         faults' \in Nat
  PROVE  IInv'
<1>1. conn' = [conn EXCEPT ![c] = Answered(conn[c], codes)]
  BY DEF Answer
<1>2. Answered(conn[c], codes) \in Connection
  BY HandlerFacts, AnsweredFields
<1>3. conn' \in [Conns -> Connection] /\ conn'[c] = Answered(conn[c], codes)
      /\ \A y \in Conns : y # c => conn'[y] = conn[y]
  BY <1>1, <1>2, HandlerFacts
<1>4. \/ conn'[c] = FreeConn /\ ~conn[c].open
      \/ /\ conn'[c].rx = "answered" /\ conn'[c].open = conn[c].open
         /\ conn'[c].unit = conn[c].unit /\ conn'[c].dom = conn[c].dom
         /\ conn'[c].plan = conn[c].plan /\ conn'[c].init = conn[c].init
         /\ conn'[c].codes = codes
  BY <1>3, HandlerFacts, AnsweredFields
<1>5. Kept(conn[c])'
  <2>1. CASE conn'[c] = FreeConn
    BY <2>1, FreeIsKept
  <2>2. CASE conn'[c] # FreeConn
    <3>1. /\ Kept(conn[c]) /\ conn[c].unit \in Units /\ conn[c].dom \in Domains
      BY HandlerFacts
    <3>2. AddToBatchRecorded(conn[c].dom, conn[c].unit) => batchRows'[conn[c].dom][conn[c].unit] > 0
      BY <3>1 DEF AddToBatchRecorded
    <3> QED
      BY <1>4, <2>2, <3>1, <3>2 DEF Kept, AddToBatchRecorded, Recipients
  <2> QED
    BY <2>1, <2>2
<1> QED
  BY <1>3, <1>4, <1>5, HandlerKeepsIInv

\* Refusing takes the accepting codes back and gives no other.
LEMMA RefusedFacts ==
  ASSUME NEW codes \in [Entries -> Codes]
  PROVE  /\ Refused(codes) \in [Entries -> Codes]
         /\ \A e \in Entries : /\ Refused(codes)[e] # Accept
                               /\ Refused(codes)[e] = UserDuplicate => codes[e] = UserDuplicate
BY CodesType, CodesDiffer DEF Refused

\* Storing, and the answer.
LEMMA StoreAcceptedKeepsIInv ==
  ASSUME IInv, UNCHANGED senderVars, NEW c \in Conns, StoreAcceptedMessage(c)
  PROVE  IInv'
<1> DEFINE u == conn[c].unit
           d == conn[c].dom
           codes == conn[c].codes
<1>1. /\ u \in Units /\ d \in Domains /\ codes \in [Entries -> Codes]
      /\ conn[c].rx = "validated"
      /\ Refused(codes) \in [Entries -> Codes]
      /\ \A e \in Entries : /\ Refused(codes)[e] # Accept
                            /\ Refused(codes)[e] = UserDuplicate => codes[e] = UserDuplicate
      /\ LocalEntries(u, d) \subseteq Entries
  BY HandlerFacts, RefusedFacts DEF StoreAcceptedMessage, LocalEntries
<1>2. CASE ~SomeAccepted(c) /\ Answer(c, codes) /\ UNCHANGED <<msgAt, batchRows, received, faults>>
  <2>1. UNCHANGED receiverVars /\ faults' \in Nat
    BY <1>2, FaultType DEF receiverVars
  <2>2. \A e \in LocalEntries(u, d) : codes[e] # Accept
    BY <1>2 DEF SomeAccepted
  <2> QED
    BY <1>1, <1>2, <2>1, <2>2, NothingStored, AnswerKeepsIInv
<1>3. CASE /\ StoreMsgDetail(u, d, codes)
           /\ (Answer(c, codes) /\ UNCHANGED faults) \/ (Answer(c, Refused(codes)) /\ Fault)
  <2>1. faults' \in Nat
    BY <1>3, FaultType
  <2>2. /\ ReceiverTypeOK' /\ received \subseteq received'
        /\ \A f \in Domains, v \in Units : batchRows[f][v] > 0 => batchRows'[f][v] > 0
        /\ \A e \in LocalEntries(u, d) :
              e[2] \in Recipients(u) /\ Plain(u, e[2]) /\ codes[e] = Accept
                  => <<MsgOf[u], e[2]>> \in received'
    BY <1>1, <1>3, StoreFacts
  <2>3. CASE Answer(c, codes)
    BY <1>1, <2>1, <2>2, <2>3, AnswerKeepsIInv
  <2>4. CASE Answer(c, Refused(codes))
    BY <1>1, <2>1, <2>2, <2>4, AnswerKeepsIInv
  <2> QED
    BY <1>3, <2>3, <2>4
<1>4. CASE /\ (Collides(u, d) /\ UNCHANGED faults) \/ Fault
           /\ Answer(c, Refused(codes))
           /\ UNCHANGED <<msgAt, batchRows, received>>
  <2>1. UNCHANGED receiverVars /\ faults' \in Nat
    BY <1>4, FaultType DEF receiverVars
  <2> QED
    BY <1>1, <1>4, <2>1, NothingStored, AnswerKeepsIInv
<1> QED
  BY <1>2, <1>3, <1>4 DEF StoreAcceptedMessage

\* A handler gives up.
LEMMA AbortKeepsIInv ==
  ASSUME IInv, UNCHANGED senderVars, NEW c \in Conns, Abort(c)
  PROVE  IInv'
<1>1. UNCHANGED receiverVars /\ faults' \in Nat
  BY FaultType DEF Abort, receiverVars
<1>2. conn' = [conn EXCEPT ![c] = Aborted(conn[c])]
  BY DEF Abort
<1>3. Aborted(conn[c]) \in Connection
  BY HandlerFacts, AbortedFields
<1>4. conn' \in [Conns -> Connection] /\ conn'[c] = Aborted(conn[c])
      /\ \A y \in Conns : y # c => conn'[y] = conn[y]
  BY <1>2, <1>3, HandlerFacts
<1>5. \/ conn'[c] = FreeConn /\ ~conn[c].open
      \/ /\ conn'[c].rx = "aborted" /\ conn'[c].open = conn[c].open
         /\ conn'[c].unit = conn[c].unit /\ conn'[c].dom = conn[c].dom
         /\ conn'[c].plan = conn[c].plan /\ conn'[c].init = conn[c].init
  BY <1>4, HandlerFacts, AbortedFields
<1>6. Kept(conn[c])'
  <2>1. CASE conn'[c] = FreeConn
    BY <2>1, FreeIsKept
  <2>2. CASE conn'[c] # FreeConn
    BY <1>1, <1>5, <2>2, HandlerFacts DEF Kept, AddToBatchRecorded, receiverVars
  <2> QED
    BY <2>1, <2>2
<1> QED
  BY <1>1, <1>4, <1>5, <1>6, NothingStored, HandlerKeepsIInv

----------------------------------------------------------------------------
(***************************************************************************)
(* The invariant and what follows from it.                                 *)
(***************************************************************************)
\* IInv holds initially: nothing is busy, locked, stored or recorded.
LEMMA InitIInv == Init => IInv
<1> SUFFICES ASSUME Init
             PROVE  IInv
  OBVIOUS
<1> USE DEF Init, WireInit, SenderInit, ReceiverInit
<1>1. WireTypeOK
  BY InitialTypes DEF WireTypeOK
<1>2. SenderTypeOK
  <2>1. [done |-> FALSE, code |-> NullCode, tries |-> 0, last |-> Unsent] \in Row
    BY CodesType DEF Row, Unsent
  <2> QED
    BY <2>1, InitialTypes DEF SenderTypeOK, Unsent
<1>3. ReceiverTypeOK
  BY DEF ReceiverTypeOK
<1>4. \A w \in Workers : ~Busy(w)
  BY DEF Busy, IdleWorker
<1>5. Engaged /\ NoSharing
  BY <1>4 DEF Engaged, NoSharing
<1>6. LocksAreHeld
  BY DEF LocksAreHeld
<1>7. Promises
  BY CodesDiffer DEF Promises, Kept, FreeConn, InitCodes
<1>8. PlainDeliveredIsReceived /\ NotifiedIsRecorded
  BY DEF PlainDeliveredIsReceived, NotifiedIsRecorded
<1>9. DuplicateIsReceived
  BY CodesDiffer DEF DuplicateIsReceived, InitCodes
<1> QED
  BY <1>1, <1>2, <1>3, <1>5, <1>6, <1>7, <1>8, <1>9 DEF IInv, TypeOK

\* Every step keeps IInv.
LEMMA NextKeepsIInv == IInv /\ [Next]_vars => IInv'
<1> SUFFICES ASSUME IInv, [Next]_vars
             PROVE  IInv'
  OBVIOUS
<1>1. CASE SenderNext /\ UNCHANGED receiverVars
  BY <1>1, SenderKeepsIInv
<1>2. CASE ReceiverNext /\ UNCHANGED senderVars
  <2>1. PICK c \in Conns : HandlerStep(c)
    BY <1>2 DEF ReceiverNext
  <2> QED
    BY <1>2, <2>1, ReadHeaderKeepsIInv, RespondToHeaderKeepsIInv, RespondUndisclosedKeepsIInv,
       ValidateRecipientsKeepsIInv, StoreAcceptedKeepsIInv, AbortKeepsIInv DEF HandlerStep
<1>3. CASE UNCHANGED vars
  <2>1. UNCHANGED <<conn, faults, now, sentAt, row, lockedBy, queue, worker, msgAt, batchRows, received>>
    BY <1>3 DEF vars
  <2>2. TypeOK'
    BY <2>1 DEF IInv, TypeOK, WireTypeOK, SenderTypeOK, ReceiverTypeOK
  <2>3. Engaged' /\ NoSharing' /\ LocksAreHeld'
    BY <2>1 DEF IInv, Engaged, NoSharing, LocksAreHeld, Busy, Keys, KeyDomain, Recipients
  <2>4. Promises'
    BY <2>1 DEF IInv, Promises, Kept, AddToBatchRecorded
  <2>5. PlainDeliveredIsReceived' /\ NotifiedIsRecorded' /\ DuplicateIsReceived'
    BY <2>1, RowsUntouched DEF receiverVars
  <2> QED
    BY <2>2, <2>3, <2>4, <2>5 DEF IInv
<1> QED
  BY <1>1, <1>2, <1>3 DEF Next

\* The invariant of every behaviour, with any number of goroutines, handlers,
\* recipients and failures.  A recipient in both lists of a batch, or one of a
\* batch whose domain is spelled in another case, may have a row that is
\* delivered without the message: PlainDeliveredIsReceived speaks of the others.
THEOREM Invariance == Spec => []IInv
BY InitIInv, NextKeepsIInv, PTL DEF Spec

\* Where every batch is new, the recipients of all rows are plain.
LEMMA NewIsPlain ==
  ASSUME BatchesAreNew
  PROVE  \A r \in Rows : r[2] \in Addrs => Plain(r[1], r[2])
BY WireAssumption DEF BatchesAreNew, Rows, Keys, Recipients, Plain

\* The types of the sender's rows, the connections and the receivers' stores.
THEOREM TypeCorrect == Spec => []TypeOK
<1>1. IInv => TypeOK
  BY DEF IInv
<1> QED
  BY <1>1, Invariance, PTL

\* When every batch adds addresses that are not in the to list, with their domains
\* in their hosts' case, no recipient is marked delivered without having the
\* message: no retry, lost answer, crash or deadlock makes the sender claim more
\* than the receivers committed.  Without the hypothesis the code breaks this:
\* one recipient's two codes, or AttachAddToRecipients' case-sensitive comparison,
\* leave a delivered row of a message that its receiver keeps undelivered.
THEOREM NoFalseDelivery ==
  ASSUME BatchesAreNew
  PROVE  Spec => []DeliveredIsReceived
<1>1. IInv => DeliveredIsReceived
  BY NewIsPlain DEF IInv, PlainDeliveredIsReceived, DeliveredIsReceived
<1> QED
  BY <1>1, Invariance, PTL

\* A domain marked notified with code 11 has recorded the batch.
THEOREM NoFalseNotification == Spec => []NotifiedIsRecorded
<1>1. IInv => NotifiedIsRecorded
  BY DEF IInv
<1> QED
  BY <1>1, Invariance, PTL

\* A row settled by code 103 belongs to a recipient who has the message.
THEOREM NoFalseDuplicate == Spec => []DuplicateIsReceived
<1>1. IInv => DuplicateIsReceived
  BY DEF IInv
<1> QED
  BY <1>1, Invariance, PTL

\* No failure path leaves a row locked.
THEOREM NoLeakedLock == Spec => []LocksAreHeld
<1>1. IInv => LocksAreHeld
  BY DEF IInv
<1> QED
  BY <1>1, Invariance, PTL

\* Two goroutines never work on one row: each holds the lock of all of its own.
THEOREM NoDoubleAttempt == Spec => []OneAttemptPerRow
<1>1. IInv => OneAttemptPerRow
  <2> SUFFICES ASSUME IInv, NEW v \in Workers, NEW w \in Workers, v # w, Busy(v), Busy(w),
                      worker[v].unit = worker[w].unit,
                      NEW k \in worker[v].locked \cap worker[w].locked
               PROVE  FALSE
    BY DEF OneAttemptPerRow
  <2>1. lockedBy[<<worker[v].unit, k>>] = v /\ lockedBy[<<worker[w].unit, k>>] = w
    BY DEF IInv, Engaged
  <2> QED
    BY <2>1
<1> QED
  BY <1>1, Invariance, PTL

----------------------------------------------------------------------------
(***************************************************************************)
(* Delivery implements Mailbox: a unit finalized is a posting, a           *)
(* receiver's transaction an arrival, an outcome recorded a confirmation,  *)
(* and every other step a stutter.                                         *)
(***************************************************************************)
\* What is on its way was announced: a connection carries a sent unit, and a
\* sent batch extends a sent message.
Announced ==
    /\ \A c \in Conns : conn[c].rx # "free" => sentAt[conn[c].unit] # Unsent
    /\ \A u \in Batches : sentAt[u] # Unsent =>
           \E v \in Units \ Batches : MsgOf[v] = MsgOf[u] /\ sentAt[v] # Unsent

----------------------------------------------------------------------------
(***************************************************************************)
(* What a step of the sender does to rows, times and connections.          *)
(***************************************************************************)
\* Recording an outcome never takes a delivery back.
LEMMA RecordGrows ==
  ASSUME IInv, NEW u, NEW ks, NEW good, NEW code,
         NEW was \in [Rows -> Row], \A r \in Rows : row[r].done => was[r].done,
         row' = Recorded(was, u, ks, good, code)
  PROVE  \A r \in Rows : row[r].done => row'[r].done
<1>1. ASSUME NEW x \in Row, NEW k
      PROVE  Delivered(x, k).done /\ Attempted(x, k).done = x.done
  BY DEF Row, Delivered, Attempted
<1> SUFFICES ASSUME NEW r \in Rows, row[r].done
             PROVE  row'[r].done
  OBVIOUS
<1>2. \/ row'[r] = was[r]
      \/ row'[r] = Delivered(was[r], code[r[2]])
      \/ row'[r] = Attempted(was[r], code[r[2]])
  BY DEF Recorded
<1>3. was[r] \in Row /\ was[r].done
  OBVIOUS
<1> QED
  BY <1>1, <1>2, <1>3

\* A finished unit: the row of a recipient stays delivered.
LEMMA FinishGrows ==
  ASSUME IInv, NEW w \in Workers, NEW good, NEW code,
         \/ Finish(w, good, code)
         \/ Busy(w) /\ FinishOver(AfterToCodes(w), w, good, code)
  PROVE  (\A r \in Rows : row[r].done => row'[r].done) /\ sentAt' = sentAt
<1>1. row \in [Rows -> Row]
  BY DEF IInv, TypeOK, SenderTypeOK
<1>2. CASE Finish(w, good, code)
  BY <1>1, <1>2, RecordGrows DEF Finish, FinishOver, EndUnit
<1>3. CASE Busy(w) /\ FinishOver(AfterToCodes(w), w, good, code)
  <2>1. PICK was : was = AfterToCodes(w)
    OBVIOUS
  <2>2. was \in [Rows -> Row] /\ \A r \in Rows : row[r].done => was[r].done
    BY <1>3, <2>1, TwiceWritten
  <2> QED
    BY <1>3, <2>1, <2>2, RecordGrows DEF FinishOver, EndUnit
<1> QED
  BY <1>2, <1>3

\* A step of the sender finalizes one unit, or it keeps the times and takes no
\* delivery back.
LEMMA SenderEffect ==
  ASSUME IInv, SenderNext
  PROVE  \/ /\ row' = row
            /\ \E u \in Units : Finalize(u)
         \/ /\ sentAt' = sentAt
            /\ \A r \in Rows : row[r].done => row'[r].done
<1>0. row \in [Rows -> Row]
  BY DEF IInv, TypeOK, SenderTypeOK
<1>1. CASE \E u \in Units : Finalize(u)
  BY <1>1 DEF Finalize
<1>2. CASE Tick \/ Poll \/ SenderCrash
  BY <1>2 DEF Tick, Poll, SenderCrash
<1>3. ASSUME NEW w \in Workers, WorkerStep(w)
      PROVE  sentAt' = sentAt /\ \A r \in Rows : row[r].done => row'[r].done
  <2>1. CASE Dispatch(w) \/ DeadlockVictim(w)
    BY <2>1 DEF Dispatch, DeadlockVictim
  <2>2. ASSUME NEW u \in Units, SkipUnit(w, u) \/ \E c \in Conns : DeliverUnit(w, u, c)
        PROVE  sentAt' = sentAt /\ row' = row
    BY <2>2 DEF SkipUnit, DeliverUnit
  <2>3. ASSUME NEW u \in Units, RecordUnitInvalid(w, u)
        PROVE  sentAt' = sentAt /\ \A r \in Rows : row[r].done => row'[r].done
    BY <2>3, <1>0, RecordGrows DEF RecordUnitInvalid, Record
  <2>4. CASE ReadInit(w)
    BY <2>4, FinishGrows DEF ReadInit
  <2>5. CASE ReadCodes(w)
    BY <2>5, FinishGrows DEF ReadCodes, Busy
  <2>6. CASE ConnectionLost(w)
    BY <2>6, FinishGrows DEF ConnectionLost, RecordRetryableFailure
  <2>7. CASE Timeout(w)
    BY <2>7, <1>0, RecordGrows DEF Timeout, EndUnit, Record
  <2> QED
    BY <1>3, <2>1, <2>2, <2>3, <2>4, <2>5, <2>6, <2>7 DEF WorkerStep
<1> QED
  BY <1>1, <1>2, <1>3 DEF SenderNext

\* Finalizing a unit: what was sent stays sent, the unit is sent, and a batch
\* has its message before it.
LEMMA FinalizeEffect ==
  ASSUME IInv, NEW u \in Units, Finalize(u)
  PROVE  /\ \A v \in Units : sentAt[v] # Unsent => sentAt'[v] # Unsent
         /\ \A v \in Units : v # u => sentAt'[v] = sentAt[v]
         /\ u \in Batches => \E v \in Units \ Batches : MsgOf[v] = MsgOf[u] /\ sentAt[v] # Unsent
         /\ UNCHANGED <<conn, row>>
<1>1. now \in Nat /\ sentAt \in [Units -> Int]
  BY DEF IInv, TypeOK, SenderTypeOK
<1>2. now # Unsent
  BY <1>1 DEF Unsent
<1> QED
  BY <1>1, <1>2 DEF Finalize

\* A connection that is in use after a step of the sender was in use, for the
\* same unit, or is new and for a sent unit.
LEMMA SenderConnections ==
  ASSUME IInv, SenderNext, NEW c \in Conns, conn'[c].rx # "free"
  PROVE  \/ conn[c].rx # "free" /\ conn'[c].unit = conn[c].unit
         \/ conn'[c].unit \in Units /\ sentAt[conn'[c].unit] # Unsent
<1>1. conn \in [Conns -> Connection] /\ FreeConn.rx = "free"
  BY DEF IInv, TypeOK, WireTypeOK, FreeConn
<1>2. ASSUME conn'[c] = Shut(conn[c]) \/ conn'[c] = conn[c]
      PROVE  conn[c].rx # "free" /\ conn'[c].unit = conn[c].unit
  BY <1>1, <1>2, ShutType
<1>3. CASE UNCHANGED conn
  BY <1>3
<1>4. CASE SenderCrash
  BY <1>2, <1>4 DEF SenderCrash
<1>5. ASSUME NEW w \in Workers, Close(w)
      PROVE  conn[c].rx # "free" /\ conn'[c].unit = conn[c].unit
  BY <1>2, <1>5 DEF Close
<1>6. ASSUME NEW w \in Workers, NEW u \in Units, NEW y \in Conns, DeliverUnit(w, u, y)
      PROVE  \/ conn[c].rx # "free" /\ conn'[c].unit = conn[c].unit
             \/ conn'[c].unit \in Units /\ sentAt[conn'[c].unit] # Unsent
  <2>1. Owed(w, u) # {} /\ conn' = [conn EXCEPT ![y] = HeaderSent(u, worker[w].dom)]
    BY <1>6 DEF DeliverUnit
  <2>2. sentAt[u] # Unsent
    BY <2>1 DEF Owed, LockPending, Pending
  <2>3. CASE c = y
    <3>1. conn'[c].unit = u
      BY <1>1, <2>1, <2>3 DEF HeaderSent
    <3> QED
      BY <2>2, <3>1
  <2>4. CASE c # y
    BY <1>1, <2>1, <2>4
  <2> QED
    BY <2>3, <2>4
<1>7. ASSUME NEW w \in Workers, ReadInit(w)
      PROVE  conn[c].rx # "free" /\ conn'[c].unit = conn[c].unit
  <2>1. CASE Close(w)
    BY <2>1, <1>5
  <2>2. CASE conn' = [conn EXCEPT ![worker[w].conn].data = (conn[worker[w].conn].init = Continue)]
    BY <1>1, <2>2 DEF Connection
  <2> QED
    BY <1>7, <2>1, <2>2 DEF ReadInit, Finish, FinishOver, EndUnit
<1>8. ASSUME NEW w \in Workers, ReadCodes(w) \/ ConnectionLost(w) \/ Timeout(w) \/ DeadlockVictim(w)
      PROVE  Close(w)
  BY <1>8 DEF ReadCodes, ConnectionLost, RecordRetryableFailure, Timeout, DeadlockVictim,
     Finish, FinishOver, EndUnit
<1>9. ASSUME NEW w \in Workers, WorkerStep(w)
      PROVE  \/ UNCHANGED conn \/ Close(w) \/ ReadInit(w)
             \/ \E u \in Units, y \in Conns : DeliverUnit(w, u, y)
  BY <1>8, <1>9 DEF WorkerStep, Dispatch, SkipUnit, RecordUnitInvalid
<1> QED
  BY <1>3, <1>4, <1>5, <1>6, <1>7, <1>9 DEF SenderNext, Finalize, Tick, Poll

----------------------------------------------------------------------------
(***************************************************************************)
(* What a step of a receiver does to its connection and its store.         *)
(***************************************************************************)
\* A handler keeps the unit of a connection in use.
LEMMA HandlerConnections ==
  ASSUME IInv, NEW c \in Conns, HandlerStep(c), NEW y \in Conns, conn'[y].rx # "free"
  PROVE  conn[y].rx # "free" /\ conn'[y].unit = conn[y].unit
<1>1. conn[c] \in Connection /\ conn[c].rx # "free" /\ FreeConn.rx = "free"
  BY HandlerFacts DEF HandlerStep, ReadHeader, RespondToHeader, RespondUndisclosed,
     ValidateRecipients, StoreAcceptedMessage, Abort, FreeConn
<1>2. ASSUME NEW k, conn' = [conn EXCEPT ![c] = k], k = FreeConn \/ k.unit = conn[c].unit
      PROVE  conn[y].rx # "free" /\ conn'[y].unit = conn[y].unit
  BY <1>1, <1>2, HandlerFacts
<1>3. ASSUME NEW code, Respond(c, code)
      PROVE  conn[y].rx # "free" /\ conn'[y].unit = conn[y].unit
  <2>1. Closed(conn[c], code) = FreeConn \/ Closed(conn[c], code).unit = conn[c].unit
    BY <1>1 DEF Closed, Recycle, Connection
  <2> QED
    BY <1>2, <1>3, <2>1 DEF Respond
<1>4. ASSUME NEW codes, Answer(c, codes)
      PROVE  conn[y].rx # "free" /\ conn'[y].unit = conn[y].unit
  <2>1. Answered(conn[c], codes) = FreeConn \/ Answered(conn[c], codes).unit = conn[c].unit
    BY <1>1 DEF Answered, Recycle, Connection
  <2> QED
    BY <1>2, <1>4, <2>1 DEF Answer
<1>5. CASE ReadHeader(c)
  <2>1. Checked(conn[c], HeaderVerdict(conn[c].unit, conn[c].dom)).unit = conn[c].unit
    BY <1>1 DEF Checked, Connection
  <2> QED
    BY <1>2, <1>3, <1>5, <2>1 DEF ReadHeader
<1>6. CASE RespondToHeader(c)
  <2>1. \A code : Responded(conn[c], code).unit = conn[c].unit
    BY <1>1 DEF Responded, Connection
  <2> QED
    BY <1>2, <1>3, <1>6, <2>1 DEF RespondToHeader
<1>7. CASE RespondUndisclosed(c)
  BY <1>3, <1>7 DEF RespondUndisclosed
<1>8. CASE ValidateRecipients(c)
  <2>1. \A codes : Validated(conn[c], codes).unit = conn[c].unit
    BY <1>1 DEF Validated, Connection
  <2>2. PICK codes : conn' = [conn EXCEPT ![c] = Validated(conn[c], codes)]
    BY <1>8 DEF ValidateRecipients
  <2> QED
    BY <1>2, <2>1, <2>2
<1>9. CASE StoreAcceptedMessage(c)
  BY <1>4, <1>9 DEF StoreAcceptedMessage
<1>10. CASE Abort(c)
  <2>1. Aborted(conn[c]) = FreeConn \/ Aborted(conn[c]).unit = conn[c].unit
    BY <1>1 DEF Aborted, Recycle, Connection
  <2> QED
    BY <1>2, <1>10, <2>1 DEF Abort
<1> QED
  BY <1>5, <1>6, <1>7, <1>8, <1>9, <1>10 DEF HandlerStep

\* What a handler stores is for the recipients of its unit.
LEMMA HandlerStores ==
  ASSUME IInv, NEW c \in Conns, HandlerStep(c)
  PROVE  /\ conn[c].rx # "free"
         /\ received \subseteq received'
         /\ \A p \in received' \ received :
               /\ p[1] = MsgOf[conn[c].unit]
               /\ p[2] \in To[MsgOf[conn[c].unit]] \cup AddTo[conn[c].unit]
<1> DEFINE u == conn[c].unit
           d == conn[c].dom
<1>1. u \in Units /\ d \in Domains
  BY HandlerFacts
<1>2. conn[c].rx # "free"
  BY DEF HandlerStep, ReadHeader, RespondToHeader, RespondUndisclosed,
     ValidateRecipients, StoreAcceptedMessage, Abort
<1>3. ASSUME AttachAddToRecipients(u, d)
      PROVE  /\ received \subseteq received'
             /\ \A p \in received' \ received : p[1] = MsgOf[u] /\ p[2] \in AddTo[u]
  BY <1>3 DEF AttachAddToRecipients, AddToAt
<1>4. ASSUME NEW codes, StoreMsgDetail(u, d, codes)
      PROVE  /\ received \subseteq received'
             /\ \A p \in received' \ received :
                   p[1] = MsgOf[u] /\ p[2] \in To[MsgOf[u]] \cup AddTo[u]
  <2>1. CASE AttachAddToRecipients(u, d)
    BY <1>3, <2>1
  <2>2. CASE InsertMessage(u, d, codes)
    <3>1. DeliveredHere(u, d, codes) \subseteq To[MsgOf[u]] \cup AddTo[u]
      BY DEF DeliveredHere, LocalRecipients, LocalEntries, Listed
    <3> QED
      BY <2>2, <3>1 DEF InsertMessage
  <2> QED
    BY <1>4, <2>1, <2>2 DEF StoreMsgDetail
<1>5. \/ UNCHANGED received
      \/ AttachAddToRecipients(u, d)
      \/ \E codes : StoreMsgDetail(u, d, codes)
  BY DEF HandlerStep, ReadHeader, RespondToHeader, RespondUndisclosed, ValidateRecipients,
     StoreAcceptedMessage, Abort, StoreMsgHeaderOnly, receiverVars
<1> QED
  BY <1>2, <1>3, <1>4, <1>5

----------------------------------------------------------------------------
\* Nothing is on its way at first.
LEMMA InitAnnounced == Init => Announced
BY WireAssumption DEF Init, WireInit, SenderInit, Announced, FreeConn

\* Every step keeps to what was announced.
LEMMA NextKeepsAnnounced == IInv /\ Announced /\ [Next]_vars => Announced'
<1> SUFFICES ASSUME IInv, Announced, [Next]_vars
             PROVE  Announced'
  OBVIOUS
<1>1. \A c \in Conns : conn[c].unit \in Units
  BY HandlerFacts
<1>2. CASE SenderNext
  <2>1. /\ \A v \in Units : sentAt[v] # Unsent => sentAt'[v] # Unsent
        /\ \A u \in Batches : sentAt'[u] # Unsent =>
              \E v \in Units \ Batches : MsgOf[v] = MsgOf[u] /\ sentAt[v] # Unsent
    <3>1. CASE sentAt' = sentAt
      BY <3>1 DEF Announced
    <3>2. ASSUME NEW u \in Units, Finalize(u)
          PROVE  /\ \A v \in Units : sentAt[v] # Unsent => sentAt'[v] # Unsent
                 /\ \A b \in Batches : sentAt'[b] # Unsent =>
                       \E v \in Units \ Batches : MsgOf[v] = MsgOf[b] /\ sentAt[v] # Unsent
      BY <3>2, FinalizeEffect, WireAssumption DEF Announced
    <3> QED
      BY <1>2, <3>1, <3>2, SenderEffect
  <2>2. ASSUME NEW c \in Conns, conn'[c].rx # "free"
        PROVE  sentAt'[conn'[c].unit] # Unsent
    BY <1>1, <1>2, <2>1, <2>2, SenderConnections DEF Announced
  <2> QED
    BY <2>1, <2>2 DEF Announced
<1>3. CASE ReceiverNext /\ UNCHANGED senderVars
  <2>1. PICK c \in Conns : HandlerStep(c)
    BY <1>3 DEF ReceiverNext
  <2>2. \A y \in Conns : conn'[y].rx # "free" =>
            conn[y].rx # "free" /\ conn'[y].unit = conn[y].unit
    BY <2>1, HandlerConnections
  <2> QED
    BY <1>3, <2>2 DEF Announced, senderVars
<1>4. CASE UNCHANGED vars
  BY <1>4 DEF vars, Announced
<1> QED
  BY <1>2, <1>3, <1>4 DEF Next

\* A step of Delivery is a step of Mailbox, or changes nothing there.
LEMMA StepRefines ==
  ASSUME BatchesAreNew
  PROVE  IInv /\ IInv' /\ Announced /\ [Next]_vars
             => [Mailboxes!MailboxNext]_(Mailboxes!mailboxVars)
<1> SUFFICES ASSUME IInv, IInv', Announced, [Next]_vars
             PROVE  Mailboxes!MailboxNext \/ UNCHANGED <<Posted, received, Confirmed>>
  BY DEF Mailboxes!mailboxVars
<1>1. CASE UNCHANGED vars
  BY <1>1 DEF vars, Posted, Confirmed
<1>2. CASE SenderNext /\ UNCHANGED receiverVars
  <2>1. received' = received
    BY <1>2 DEF receiverVars
  <2>2. ASSUME NEW u \in Units, Finalize(u)
        PROVE  Mailboxes!MailboxNext
    <3>1. row' = row /\ \A v \in Units : sentAt[v] # Unsent => sentAt'[v] # Unsent
      BY <2>2, FinalizeEffect
    <3>2. Confirmed' = Confirmed
      BY <3>1 DEF Confirmed
    <3>3. Posted \subseteq Posted'
      BY <3>1 DEF Posted
    <3>4. Posted' \in SUBSET (Msgs \X Addrs)
      BY DEF Posted
    <3>5. Mailboxes!Post(Posted')
      BY <2>1, <3>2, <3>3 DEF Mailboxes!Post
    <3> QED
      BY <3>4, <3>5 DEF Mailboxes!MailboxNext
  <2>3. ASSUME sentAt' = sentAt, \A r \in Rows : row[r].done => row'[r].done
        PROVE  Mailboxes!MailboxNext
    <3>1. Posted' = Posted
      BY <2>3 DEF Posted
    <3>2. Confirmed \subseteq Confirmed'
      BY <2>3 DEF Confirmed
    <3>3. Confirmed' \subseteq received
      <4> SUFFICES ASSUME NEW p \in Confirmed'
                   PROVE  p \in received
        OBVIOUS
      <4>1. PICK r \in Rows : row'[r].done /\ MsgOf[r[1]] = p[1] /\ r[2] = p[2]
        BY DEF Confirmed
      <4>2. p \in Msgs \X Addrs
        BY DEF Confirmed
      <4>3. <<MsgOf[r[1]], r[2]>> \in received'
        BY <4>1, <4>2, NewIsPlain DEF IInv, PlainDeliveredIsReceived, Plain
      <4> QED
        BY <2>1, <4>1, <4>2, <4>3
    <3>4. Confirmed' \in SUBSET (Msgs \X Addrs)
      BY DEF Confirmed
    <3>5. Mailboxes!Confirm(Confirmed')
      BY <2>1, <3>1, <3>2, <3>3 DEF Mailboxes!Confirm
    <3> QED
      BY <3>4, <3>5 DEF Mailboxes!MailboxNext
  <2> QED
    BY <1>2, <2>2, <2>3, SenderEffect
<1>3. CASE ReceiverNext /\ UNCHANGED senderVars
  <2>1. PICK c \in Conns : HandlerStep(c)
    BY <1>3 DEF ReceiverNext
  <2>2. Posted' = Posted /\ Confirmed' = Confirmed
    BY <1>3 DEF senderVars, Posted, Confirmed
  <2>3. conn[c].unit \in Units /\ sentAt[conn[c].unit] # Unsent /\ MsgOf[conn[c].unit] \in Msgs
    BY <2>1, HandlerFacts, HandlerStores, WireAssumption DEF Announced
  <2> DEFINE ps == received' \ received
  <2>4. ps \in SUBSET (Msgs \X Addrs)
    BY DEF IInv, TypeOK, ReceiverTypeOK
  <2>5. ps \subseteq Posted
    <3> SUFFICES ASSUME NEW p \in ps
                 PROVE  p \in Posted
      OBVIOUS
    <3>1. /\ p \in Msgs \X Addrs
          /\ p[1] = MsgOf[conn[c].unit]
          /\ p[2] \in To[MsgOf[conn[c].unit]] \cup AddTo[conn[c].unit]
      BY <2>1, <2>4, HandlerStores
    <3>2. CASE conn[c].unit \notin Batches
      BY <2>3, <3>1, <3>2, WireAssumption DEF Posted, Recipients
    <3>3. CASE conn[c].unit \in Batches /\ p[2] \in AddTo[conn[c].unit]
      BY <2>3, <3>1, <3>3 DEF Posted, Recipients
    <3>4. CASE conn[c].unit \in Batches /\ p[2] \in To[MsgOf[conn[c].unit]]
      <4>1. PICK v \in Units \ Batches : MsgOf[v] = MsgOf[conn[c].unit] /\ sentAt[v] # Unsent
        BY <2>3, <3>4 DEF Announced
      <4> QED
        BY <3>1, <3>4, <4>1 DEF Posted, Recipients
    <3> QED
      BY <3>1, <3>2, <3>3, <3>4
  <2>6. received' = received \cup ps
    BY <2>1, HandlerStores
  <2>7. Mailboxes!Arrive(ps)
    BY <2>2, <2>5, <2>6 DEF Mailboxes!Arrive
  <2> QED
    BY <2>4, <2>7 DEF Mailboxes!MailboxNext
<1> QED
  BY <1>1, <1>2, <1>3 DEF Next

\* Delivery implements Mailbox, when every batch adds addresses that are not in the
\* to list, with their domains in their hosts' case: whatever the polls, retries,
\* crashes, lost answers and batches, users see messages posted, arriving and
\* confirmed, in that order, for any hosts, recipients and bounds.
THEOREM Refinement ==
  ASSUME BatchesAreNew
  PROVE  Spec => ImplementsMailbox
<1>1. Init => Mailboxes!MailboxInit
  BY DEF Init, SenderInit, ReceiverInit, Mailboxes!MailboxInit, Posted, Confirmed
<1>2. Spec => []Announced
  BY InitAnnounced, NextKeepsAnnounced, Invariance, PTL DEF Spec
<1> QED
  BY <1>1, <1>2, StepRefines, Invariance, PTL DEF Spec, ImplementsMailbox, Mailboxes!Spec
============================================================================

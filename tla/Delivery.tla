----------------------------- MODULE Delivery -----------------------------
(***************************************************************************)
(* One sending host and the hosts it delivers to: the sender's rows, locks *)
(* and goroutines against the receivers' handlers and stores, over         *)
(* connections that may break at any step.                                 *)
(***************************************************************************)
EXTENDS Sender, Receiver

vars == <<conn, faults, now, sentAt, row, lockedBy, queue, worker,
          msgAt, batchRows, received>>

Init == WireInit /\ SenderInit /\ ReceiverInit

Next ==
    \/ SenderNext /\ UNCHANGED receiverVars
    \/ ReceiverNext /\ UNCHANGED senderVars

Spec == Init /\ [][Next]_vars

(***************************************************************************)
(* Fairness: the ticker keeps polling (startSender), every goroutine runs  *)
(* and its reads have deadlines, and a handler runs until it answers or    *)
(* its peer is gone.  Recording an outcome is strongly fair: PostgreSQL    *)
(* grants a row lock that is released to the transaction that waits for    *)
(* it, before a later poll asks for the row again.  Time need not pass,    *)
(* nothing need fail, and nobody need send anything.                       *)
(***************************************************************************)
RecordOutcome(w) ==
    /\ ReadInit(w) \/ ReadCodes(w) \/ ConnectionLost(w)
    /\ worker'[w].pc \notin {"await", "codes"}

Fairness ==
    /\ WF_vars(Poll /\ UNCHANGED receiverVars)
    /\ \A w \in Workers : WF_vars(WorkerStep(w) /\ UNCHANGED receiverVars)
    /\ \A w \in Workers : SF_vars(RecordOutcome(w) /\ UNCHANGED receiverVars)
    /\ \A c \in Conns : WF_vars(HandlerStep(c) /\ UNCHANGED senderVars)

FairSpec == Spec /\ Fairness

TypeOK == WireTypeOK /\ SenderTypeOK /\ ReceiverTypeOK

----------------------------------------------------------------------------
\* Worker w is inside deliverUnit, holding locks and a connection.
Busy(w) == worker[w].pc \in {"await", "codes"}

\* A row the sender will not try again, short of its age limit.
Settled(r) == row[r].done \/ row[r].code \notin Retryable

\* A recipient the sender's database marks delivered holds the message at its
\* own host: code 200 is only ever recorded for what the receiver committed,
\* whichever of the units and retries brought it there (deliverUnit against
\* storeAcceptedMessage).
DeliveredIsReceived ==
    \A r \in Rows : row[r].done /\ r[2] \in Addrs => <<MsgOf[r[1]], r[2]>> \in received

\* A domain recorded as notified by code 11 has recorded the batch, so that a
\* reply to the batch finds its parent there (deliverUnit, storeMsgHeaderOnly).
NotifiedIsRecorded ==
    \A r \in Rows : row[r].done /\ r[2] \in Domains /\ row[r].code = AcceptAddTo
                        => AddToBatchRecorded(r[2], r[1])

\* A recipient reported as a duplicate (103) has the message: no retry settles
\* a row this way while its recipient has nothing (validateMsgRecvForAddr).
DuplicateIsReceived ==
    \A r \in Rows : row[r].code = UserDuplicate => <<MsgOf[r[1]], r[2]>> \in received

\* A message refused as a whole with 10 is one that each of the recipients there
\* has, though the check is repeated after the challenge while handlers of other
\* attempts store (resolvePostChallengeCode, allLocalRecipientsHaveMessageHash).
RefusedDuplicateIsReceived ==
    \A r \in Rows : r[1] \notin Batches /\ row[r].code = Duplicate
                        => <<MsgOf[r[1]], r[2]>> \in received

\* No row is worked on by two goroutines at once, however polls, retries and
\* the units of one message overlap (FOR UPDATE SKIP LOCKED).
OneAttemptPerRow ==
    \A v, w \in Workers :
        v # w /\ Busy(v) /\ Busy(w) /\ worker[v].unit = worker[w].unit
            => worker[v].locked \cap worker[w].locked = {}

\* A lock is held by a goroutine inside deliverUnit and on a row still owed, so
\* no failure path leaves a row locked (deliverUnit's deferred calls).
LocksAreHeld ==
    \A r \in Rows : lockedBy[r] # NoOne =>
        /\ Busy(lockedBy[r])
        /\ worker[lockedBy[r]].unit = r[1]

\* A reply is refused for want of its parent only by a domain to which the
\* parent is settled and was never delivered: a reply never overtakes a parent
\* on its way (parentPendingForDomain, read before the lock and the dial).
ReplyNeverOvertakesParent ==
    \A r \in Rows :
        r[1] \notin Batches /\ row[r].code = ParentNotFound /\ Parent[MsgOf[r[1]]] # NoOne
            => \A p \in ParentRows(Parent[MsgOf[r[1]]], KeyDomain(r[2])) :
                   ~row[p].done /\ row[p].code \notin Retryable

\* A delivered row stays delivered, and a settled row keeps its code: what the
\* sender told the user of a recipient never changes.
SettledIsFinal ==
    [][\A r \in Rows : Settled(r) => row'[r] = row[r]]_vars

\* Consecutive failures of a row are more than its back-off apart, though a
\* target may be dispatched twice from stale polls: the lock queries ask for the
\* back-off again (lockPendingRecipients).
BackoffIsHonoured ==
    [][\A r \in Rows : row'[r].tries > row[r].tries /\ row[r].last # Unsent
                           => now - row[r].last > Backoff(row[r].tries)]_vars

\* A batch recipient marked delivered holds the message, and its host has
\* recorded the batch that added it (deliverUnit: one unit per batch).
DeliveredBatchIsRecorded ==
    \A r \in Rows : row[r].done /\ r[1] \in Batches /\ r[2] \in Addrs
                        => AddToBatchRecorded(DomainOf[r[2]], r[1])

\* A host that answers 200 for a recipient has stored the message for it
\* (downloadMessage writes the codes after storeAcceptedMessage).
AcceptMeansStored ==
    \A c \in Conns : conn[c].rx = "answered" =>
        \A e \in LocalEntries(conn[c].unit, conn[c].dom) :
            conn[c].codes[e] = Accept => <<MsgOf[conn[c].unit], e[2]>> \in received

\* A host refuses a recipient with 105 only when something failed: a recipient
\* it would accept is accepted (storeAcceptedMessage, downloadMessage).
UndisclosedOnlyOnFailure ==
    \A r \in Rows : row[r].code = UserUndisclosed => faults > 0

\* A reply that waits for its parent at that domain, while no row of the parent
\* there is due: they all back off or are past the age limit.
HeldBack(r) ==
    LET m == MsgOf[r[1]]
        d == KeyDomain(r[2])
    IN  /\ r[1] \notin Batches
        /\ ~ParentTerminal(m)
        /\ ParentPendingForDomain(m, d)
        /\ \A p \in ParentRows(Parent[m], d) : ~Pending(p)

\* A row that is due is attempted, or refused for a terminal parent, unless it is
\* a reply held back for ever for a parent that is not attempted again either:
\* however locks, stale polls, deadlocks and refusals fall (startSender,
\* deliverUnit).  Time stands still if it likes, so the age limit does not settle
\* the row instead.
DueIsAttempted ==
    \A r \in Rows : KeyDomain(r[2]) # Local => ([]<>~Pending(r) \/ <>[]HeldBack(r))

(***************************************************************************)
(* The mailboxes this implements: what is posted is what is finalized,     *)
(* an inbox holds what a receiver marked delivered, and the sender         *)
(* confirms by the rows it marks delivered.                                *)
(***************************************************************************)
Posted ==
    {p \in Msgs \X Addrs : \E u \in Units :
        sentAt[u] # Unsent /\ MsgOf[u] = p[1] /\ p[2] \in Recipients(u)}

Confirmed ==
    {p \in Msgs \X Addrs : \E r \in Rows :
        row[r].done /\ MsgOf[r[1]] = p[1] /\ r[2] = p[2]}

Mailboxes == INSTANCE Mailbox WITH posted <- Posted, inbox <- received, confirmed <- Confirmed

\* Retries, late handlers, batches and failed commits add up to this: each
\* recipient gets what was posted to it and nothing else, never loses it, and is
\* confirmed only by then (deliverUnit against storeAcceptedMessage and
\* attachAddToRecipients).
ImplementsMailbox == Mailboxes!Spec
----------------------------------------------------------------------------
(***************************************************************************)
(* The inductive invariant behind DeliveredIsReceived, NotifiedIsRecorded, *)
(* DuplicateIsReceived, OneAttemptPerRow and LocksAreHeld.                 *)
(***************************************************************************)
\* The recipients of unit u for whom 200 and a delivered row say the same: all of
\* an original's; of a batch's those who are not in the to list as well and whose
\* domain is in the receiver's case.
Plain(u, a) == u \in Batches => a \in OwnCase \ To[MsgOf[u]]

\* Every batch adds addresses the message does not have, in their hosts' case.
BatchesAreNew == \A u \in Batches : AddTo[u] \subseteq OwnCase \ To[MsgOf[u]]

\* DeliveredIsReceived, of the plain recipients (deliverUnit against
\* storeAcceptedMessage).
PlainDeliveredIsReceived ==
    \A r \in Rows :
        row[r].done /\ r[2] \in Addrs /\ Plain(r[1], r[2]) => <<MsgOf[r[1]], r[2]>> \in received

\* A busy worker and its connection agree on the exchange, and the worker holds
\* the lock of every row it will record.
Engaged ==
    \A w \in Workers : Busy(w) =>
        /\ worker[w].conn \in Conns
        /\ conn[worker[w].conn].rx # "free"
        /\ conn[worker[w].conn].open
        /\ conn[worker[w].conn].unit = worker[w].unit
        /\ conn[worker[w].conn].dom = worker[w].dom
        /\ \A k \in worker[w].locked : /\ k \in Keys(worker[w].unit)
                                       /\ KeyDomain(k) = worker[w].dom
                                       /\ lockedBy[<<worker[w].unit, k>>] = w

NoSharing ==
    \A v, w \in Workers : v # w /\ Busy(v) /\ Busy(w) => worker[v].conn # worker[w].conn

InitCodes == {NullCode, Invalid, Undisclosed, ParentNotFound, Duplicate,
              AcceptAddTo, Continue, SkipData}

\* What a connection says of the receiver is true of its store, and stays true.
Kept(k) ==
    /\ k.init \in InitCodes
    /\ k.plan = AcceptAddTo => AddToAt(k.unit, k.dom) = {}
    /\ k.init = AcceptAddTo => AddToAt(k.unit, k.dom) = {} /\ AddToBatchRecorded(k.dom, k.unit)
    /\ k.rx \in {"validated", "answered"} =>
           \A e \in Entries : k.codes[e] = UserDuplicate => <<MsgOf[k.unit], e[2]>> \in received
    /\ k.rx = "answered" =>
           \A e \in LocalEntries(k.unit, k.dom) :
               /\ e[2] \in Recipients(k.unit) /\ Plain(k.unit, e[2])
               /\ k.codes[e] = Accept
               => <<MsgOf[k.unit], e[2]>> \in received

Promises == \A c \in Conns : Kept(conn[c])

\* All that the proofs carry from step to step: the types, the locks, the
\* exchanges and the promises of the receivers, and what the rows say of them.
IInv ==
    /\ TypeOK
    /\ Engaged
    /\ NoSharing
    /\ LocksAreHeld
    /\ Promises
    /\ PlainDeliveredIsReceived
    /\ NotifiedIsRecorded
    /\ DuplicateIsReceived
============================================================================

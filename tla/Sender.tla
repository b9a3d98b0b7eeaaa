------------------------------ MODULE Sender ------------------------------
(***************************************************************************)
(* The sending host: the recipient rows of the database, the polling loop  *)
(* and the delivery goroutines (cmd/fmsgd/sender.go).                      *)
(*                                                                         *)
(* A row is <<unit, key>>: the key is an address for a row of msg_to or    *)
(* msg_add_to, and a domain for a row of msg_add_to_notify.  The three     *)
(* tables have the same delivery columns, named differently.               *)
(***************************************************************************)
EXTENDS Wire

CONSTANTS
    Workers,        \* delivery goroutines alive at once (MaxConcurrentSend)
    RetryInterval,  \* FMSG_RETRY_INTERVAL
    RetryMaxAge,    \* FMSG_RETRY_MAX_AGE
    MaxTime         \* bound of the clock

ASSUME SenderAssumption ==
    /\ RetryInterval \in Nat
    /\ RetryMaxAge \in Nat \ {0}
    /\ MaxTime \in Nat
    /\ NoOne \notin Workers

VARIABLES
    now,        \* the clock
    sentAt,     \* [Units -> time], Unsent for a draft: msg.time_sent, batch.time_added
    row,        \* [Rows -> Row] the delivery columns
    lockedBy,   \* [Rows -> worker whose transaction holds the row lock]
    queue,      \* targets found by the last poll and not yet dispatched
    worker      \* [Workers -> Worker]

senderVars == <<now, sentAt, row, lockedBy, queue, worker>>

Unsent == -1

Keys(u) == Recipients(u) \cup Notify[u]
Rows    == {r \in Units \X (Addrs \cup Domains) : r[2] \in Keys(r[1])}
KeyDomain(k) == IF k \in Domains THEN k ELSE DomainOf[k]

Targets == Msgs \X Domains

Row == [done : BOOLEAN, code : Codes, tries : Nat, last : Int]

(***************************************************************************)
(* A worker is one call of deliverMessage; locked holds the keys of the    *)
(* rows deliverUnit recorded as its own, conn its connection.              *)
(***************************************************************************)
Worker ==
    [pc : {"idle", "next", "await", "codes"}, msg : Msgs, dom : Domains, todo : SUBSET Units,
     unit : Units, locked : SUBSET (Addrs \cup Domains), conn : Conns \cup {NoOne}]

SenderTypeOK ==
    /\ now \in Nat
    /\ sentAt \in [Units -> Int]
    /\ row \in [Rows -> Row]
    /\ lockedBy \in [Rows -> Workers \cup {NoOne}]
    /\ queue \in SUBSET Targets
    /\ worker \in [Workers -> Worker]

IdleWorker ==
    [pc |-> "idle", msg |-> CHOOSE m \in Msgs : TRUE, dom |-> Local, todo |-> {},
     unit |-> CHOOSE u \in Units : TRUE, locked |-> {}, conn |-> NoOne]

SenderInit ==
    /\ now = 0
    /\ sentAt = [u \in Units |-> Unsent]
    /\ row = [r \in Rows |-> [done |-> FALSE, code |-> NullCode, tries |-> 0, last |-> Unsent]]
    /\ lockedBy = [r \in Rows |-> NoOne]
    /\ queue = {}
    /\ worker = [w \in Workers |-> IdleWorker]

----------------------------------------------------------------------------
(***************************************************************************)
(* Which rows are pending: the WHERE clause shared by findPendingTargets,  *)
(* lockPendingRecipients and lockPendingNotify.                            *)
(***************************************************************************)
Retryable == {NullCode, NoResponse, Undisclosed, InsufficientResources, UserFull}

Backoff(n) ==
    LET b == RetryInterval * 2^(IF n > 0 THEN n - 1 ELSE 0)
    IN  IF b < RetryMaxAge THEN b ELSE RetryMaxAge

Expired(r) == now - sentAt[r[1]] >= RetryMaxAge

\* A slip: the response codes that stop retries are not looked at.
PendingAnyCode(r) ==
    /\ ~row[r].done
    /\ sentAt[r[1]] # Unsent
    /\ row[r].last = Unsent \/ now - row[r].last > Backoff(row[r].tries)
    /\ ~Expired(r)

Pending(r) ==
    /\ ~row[r].done
    /\ sentAt[r[1]] # Unsent
    /\ row[r].code \in Retryable
    /\ row[r].last = Unsent \/ now - row[r].last > Backoff(row[r].tries)
    /\ ~Expired(r)

FindPendingTargets ==
    {t \in Targets : /\ t[2] # Local
                     /\ \E r \in Rows : /\ Pending(r)
                                        /\ MsgOf[r[1]] = t[1]
                                        /\ KeyDomain(r[2]) = t[2]}

\* A slip: SKIP LOCKED forgotten, and the lock taken over.
LockPendingLocked(u, d) ==
    {r \in Rows : r[1] = u /\ Pending(r) /\ (r[2] \in Domains => r[2] = d)}

\* A slip: the back-off is left to the poll that found the target.
LockPendingAnyTime(u, d) ==
    {r \in Rows : /\ r[1] = u
                  /\ ~row[r].done /\ row[r].code \in Retryable
                  /\ lockedBy[r] = NoOne
                  /\ r[2] \in Domains => r[2] = d}

\* The rows that lockPendingRecipients and lockPendingNotify lock for unit u:
\* the recipient rows of every domain, the notify row of this domain only.
LockPending(u, d) ==
    {r \in Rows : /\ r[1] = u
                  /\ Pending(r)
                  /\ lockedBy[r] = NoOne
                  /\ r[2] \in Domains => r[2] = d}

\* The rows of the deliveries this host owes domain d for the parent unit p:
\* an original is also carried by each of its batches.
ParentRows(p, d) ==
    {r \in Rows : /\ KeyDomain(r[2]) = d
                  /\ sentAt[r[1]] # Unsent
                  /\ IF p \in Batches THEN r[1] = p ELSE MsgOf[r[1]] = MsgOf[p]}

\* A slip: replies do not wait for their parents.
ParentIgnored(m, d) == FALSE

ParentPendingForDomain(m, d) ==
    /\ Parent[m] # NoOne
    /\ \E r \in ParentRows(Parent[m], d) : ~row[r].done /\ row[r].code \in Retryable
    /\ \A r \in ParentRows(Parent[m], d) : ~row[r].done

ParentTerminal(m) == Parent[m] # NoOne /\ MsgOf[Parent[m]] \in Terminal

\* Units deliverMessage must not transmit: replies to a terminal message and
\* batches of one; their rows are recorded as invalid instead.
Forbidden(u) == IF u \in Batches THEN MsgOf[u] \in Terminal ELSE ParentTerminal(MsgOf[u])

----------------------------------------------------------------------------
(***************************************************************************)
(* The database and the clock.                                             *)
(***************************************************************************)
\* A draft is finalized (pkg/message Finalize, FinalizeBatch) by the API: a
\* batch needs a sent, non-terminal message, a reply a sent parent.
Finalize(u) ==
    /\ sentAt[u] = Unsent
    /\ u \in Batches => /\ MsgOf[u] \notin Terminal
                        /\ \E v \in Units \ Batches :
                               MsgOf[v] = MsgOf[u] /\ sentAt[v] # Unsent
    /\ u \notin Batches /\ Parent[MsgOf[u]] # NoOne =>
           sentAt[Parent[MsgOf[u]]] # Unsent
    /\ sentAt' = [sentAt EXCEPT ![u] = now]
    /\ UNCHANGED <<now, row, lockedBy, queue, worker, conn, faults>>

Tick ==
    /\ now < MaxTime
    /\ now' = now + 1
    /\ UNCHANGED <<sentAt, row, lockedBy, queue, worker, conn, faults>>

----------------------------------------------------------------------------
(***************************************************************************)
(* The polling loop (startSender, processPendingMessages), woken by the    *)
(* ticker or by a notification: it dispatches every target it found before *)
(* it polls again.                                                         *)
(***************************************************************************)
Poll ==
    /\ queue = {}
    /\ FindPendingTargets # {}
    /\ queue' = FindPendingTargets
    /\ UNCHANGED <<now, sentAt, row, lockedBy, worker, conn, faults>>

\* deliverMessage, in a goroutine of its own, reads the message and its batches
\* and decides which units to deliver.
UnitsToDeliver(m, d) ==
    {u \in Units : /\ MsgOf[u] = m
                   /\ sentAt[u] # Unsent
                   /\ \/ u \in Batches
                      \/ ParentTerminal(m)
                      \/ ~ParentPendingForDomain(m, d)}

\* A goroutine with no unit left returns.
Proceed(m, d, todo) ==
    IF todo = {} THEN IdleWorker
    ELSE [IdleWorker EXCEPT !.pc = "next", !.msg = m, !.dom = d, !.todo = todo]

Dispatch(w) ==
    /\ worker[w].pc = "idle"
    /\ \E t \in queue :
          /\ queue' = queue \ {t}
          /\ \/ /\ worker' = [worker EXCEPT ![w] =
                                Proceed(t[1], t[2], UnitsToDeliver(t[1], t[2]))]
                /\ UNCHANGED faults
             \/ Fault /\ UNCHANGED worker      \* a query fails
    /\ UNCHANGED <<now, sentAt, row, lockedBy, conn>>

----------------------------------------------------------------------------
(***************************************************************************)
(* Recording outcomes.  updateRecipient selects rows by message and        *)
(* address, in every batch of the message; updateNotify selects one row.   *)
(* The updates wait for row locks held by other transactions.              *)
(***************************************************************************)
SameTable(u, v) == MsgOf[u] = MsgOf[v] /\ (u \in Batches <=> v \in Batches)

\* Whether recording an outcome of unit u for the keys ks updates row r.
Covers(u, ks, r) ==
    /\ r[2] \in ks
    /\ IF r[2] \in Domains THEN r[1] = u
       ELSE SameTable(u, r[1]) /\ sentAt[r[1]] # Unsent

\* The columns of row x after a delivery, and after a failed attempt.
Delivered(x, c) == [x EXCEPT !.done = TRUE, !.code = c]
Attempted(x, c) == [done |-> x.done, code |-> c, tries |-> x.tries + 1, last |-> now]

\* The rows after outcomes of unit u for the keys ks are written over the rows was.
Recorded(was, u, ks, good, code) ==
    [r \in Rows |->
        IF ~Covers(u, ks, r) THEN was[r]
        ELSE IF r[2] \in good THEN Delivered(was[r], code[r[2]])
                              ELSE Attempted(was[r], code[r[2]])]

Record(u, ks, good, code) == row' = Recorded(row, u, ks, good, code)

\* The goroutine v holds the lock of a row that w, at its outcome, must update.
Blocks(v, w, u, ks) == v # w /\ \E r \in Rows : Covers(u, ks, r) /\ lockedBy[r] = v

Waits(w, v) == Blocks(v, w, worker[w].unit, worker[w].locked)

\* A slip: the transaction is neither committed nor rolled back.
UnlockForgotten(w) == UNCHANGED lockedBy

Unlock(w) == lockedBy' = [r \in Rows |-> IF lockedBy[r] = w THEN NoOne ELSE lockedBy[r]]

Close(w) ==
    /\ worker' = [worker EXCEPT ![w] =
                     Proceed(worker[w].msg, worker[w].dom, worker[w].todo)]
    /\ conn' = [c \in Conns |-> IF c = worker[w].conn THEN Shut(conn[c]) ELSE conn[c]]

\* The end of deliverUnit, once no other transaction holds a row to update.
EndUnit(w) ==
    /\ \A v \in Workers : ~Waits(w, v)
    /\ Unlock(w)
    /\ Close(w)
    /\ UNCHANGED <<now, sentAt, queue>>

\* The outcome, written over the rows was, is committed; or the commit fails and
\* nothing is recorded.
FinishOver(was, w, good, code) ==
    /\ \/ /\ row' = Recorded(was, worker[w].unit, worker[w].locked, good, code)
          /\ UNCHANGED faults
       \/ Fault /\ UNCHANGED row
    /\ EndUnit(w)

Finish(w, good, code) == FinishOver(row, w, good, code)

Everyone(c) == [k \in Addrs \cup Domains |-> c]

\* recordRetryableFailure, in a deferred call, when the exchange broke off.
RecordRetryableFailure(w) == Finish(w, {}, Everyone(NoResponse))

----------------------------------------------------------------------------
(***************************************************************************)
(* deliverUnit: the original first, then the batches in the order added.   *)
(***************************************************************************)
Before(u, v) == v \in Batches /\ (u \in Batches => sentAt[u] <= sentAt[v])

NextUnit(w, u) ==
    /\ worker[w].pc = "next"
    /\ u \in worker[w].todo
    /\ \A v \in worker[w].todo \ {u} : Before(u, v)

\* The keys of the pending rows of unit u that are unlocked and w's to deliver.
Owed(w, u) ==
    {r[2] : r \in {x \in LockPending(u, worker[w].dom) : KeyDomain(x[2]) = worker[w].dom}}

Without(w, u) == Proceed(worker[w].msg, worker[w].dom, worker[w].todo \ {u})

\* Nothing to lock, or the lock query fails: the unit is left for a later poll.
SkipUnit(w, u) ==
    /\ NextUnit(w, u)
    /\ (Owed(w, u) = {} /\ UNCHANGED faults) \/ Fault
    /\ worker' = [worker EXCEPT ![w] = Without(w, u)]
    /\ UNCHANGED <<now, sentAt, row, lockedBy, queue, conn>>

\* A slip: the forbidden unit is skipped and nothing recorded.
SkipInvalid(w, u) ==
    /\ NextUnit(w, u) /\ Forbidden(u)
    /\ worker' = [worker EXCEPT ![w] = Without(w, u)]
    /\ UNCHANGED <<now, sentAt, row, lockedBy, queue, conn, faults>>

\* recordUnitInvalid: the unit is never transmitted.
RecordUnitInvalid(w, u) ==
    /\ NextUnit(w, u) /\ Forbidden(u)
    /\ Owed(w, u) # {}
    /\ \A v \in Workers : ~Blocks(v, w, u, Owed(w, u))
    /\ Record(u, Owed(w, u), {}, Everyone(Invalid))
    /\ worker' = [worker EXCEPT ![w] = Without(w, u)]
    /\ UNCHANGED <<now, sentAt, lockedBy, queue, conn, faults>>

\* The rows of the unit are locked, of all domains, to the end of the
\* transaction; the host is resolved and dialled, the challenge record
\* registered and the header written.  (A failure to dial is a Timeout that
\* comes while the header is unread.)
DeliverUnit(w, u, c) ==
    /\ NextUnit(w, u) /\ ~Forbidden(u)
    /\ Owed(w, u) # {}
    /\ conn[c].rx = "free"
    /\ lockedBy' = [r \in Rows |-> IF r \in LockPending(u, worker[w].dom) THEN w ELSE lockedBy[r]]
    /\ worker' = [worker EXCEPT ![w] =
                     [pc |-> "await", msg |-> worker[w].msg, dom |-> worker[w].dom,
                      todo |-> worker[w].todo \ {u}, unit |-> u, locked |-> Owed(w, u),
                      conn |-> c]]
    /\ conn' = [conn EXCEPT ![c] = HeaderSent(u, worker[w].dom)]
    /\ UNCHANGED <<now, sentAt, row, queue, faults>>

\* The first response byte.
ReadInit(w) ==
    /\ worker[w].pc = "await"
    /\ LET init  == conn[worker[w].conn].init
           batch == worker[w].unit \in Batches
       IN
       \/ /\ init = Continue \/ (init = SkipData /\ batch)
          /\ worker' = [worker EXCEPT ![w].pc = "codes"]
          /\ conn' = [conn EXCEPT ![worker[w].conn].data = (init = Continue)]
          /\ UNCHANGED <<now, sentAt, row, lockedBy, queue, faults>>
       \/ init = AcceptAddTo /\ batch /\ Finish(w, worker[w].locked, Everyone(init))
       \/ init \in 1..10 /\ Finish(w, {}, Everyone(init))

\* What connection k says of a key: the code of the address's last entry, or for a
\* notification the initial response.
CodeOf(k, key) == IF key \in Addrs THEN LastCode(k.unit, k.codes, key) ELSE k.init

\* A slip: every recipient is marked delivered once the exchange completed.
ReadCodesUnheeded(w) ==
    /\ worker[w].pc = "codes"
    /\ conn[worker[w].conn].rx = "answered"
    /\ LET code == [key \in Addrs \cup Domains |-> CodeOf(conn[worker[w].conn], key)]
       IN  Finish(w, worker[w].locked, code)

\* The rows of worker w once the codes of the to entries are recorded of its
\* recipients that are in both lists: theirs are the rows to be updated again.
AfterToCodes(w) ==
    LET u     == worker[w].unit
        twice == worker[w].locked \cap InBothLists(u)
        code  == [key \in Addrs |-> conn[worker[w].conn].codes[<<"to", key>>]]
    IN  Recorded(row, u, twice, {key \in twice : code[key] = Accept}, code)

\* One code per entry, in order: an accepted recipient is delivered, and so is the
\* notification of a batch, whatever the codes.  A row that was marked delivered
\* by the first code of an address stays so, whatever the second one.
ReadCodes(w) ==
    /\ worker[w].pc = "codes"
    /\ conn[worker[w].conn].rx = "answered"
    /\ LET code == [key \in Addrs \cup Domains |-> CodeOf(conn[worker[w].conn], key)]
           good == {key \in worker[w].locked : key \in Domains \/ code[key] = Accept}
       IN  FinishOver(AfterToCodes(w), w, good, code)

\* The receiver aborted the connection before its answer was complete.
ConnectionLost(w) ==
    /\ worker[w].pc \in {"await", "codes"}
    /\ conn[worker[w].conn].rx = "aborted"
    /\ worker[w].pc = "await" => conn[worker[w].conn].init = NullCode
    /\ RecordRetryableFailure(w)

\* DNS or dial failure, or a read deadline passing before the answer arrives.
Timeout(w) ==
    /\ worker[w].pc \in {"await", "codes"}
    /\ Fault
    /\ \/ Record(worker[w].unit, worker[w].locked, {}, Everyone(NoResponse))
       \/ UNCHANGED row
    /\ EndUnit(w)

(***************************************************************************)
(* Transactions that wait for rows of each other: PostgreSQL aborts one    *)
(* that another waits for, and its outcome is lost with it.                *)
(***************************************************************************)
AtOutcome(w) ==
    LET c == worker[w].conn IN
    \/ worker[w].pc = "await" /\ (conn[c].rx = "aborted" \/ conn[c].init \in 1..11)
    \/ worker[w].pc = "codes" /\ conn[c].rx \in {"aborted", "answered"}

DeadlockVictim(w) ==
    /\ \E cycle \in SUBSET Workers :
          /\ w \in cycle
          /\ \A x \in cycle : /\ AtOutcome(x)
                              /\ \E y \in cycle : Waits(x, y)
                              /\ \E y \in cycle : Waits(y, x)
    /\ Unlock(w)
    /\ Close(w)
    /\ UNCHANGED <<now, sentAt, row, queue, faults>>

\* The process dies: connections close, transactions roll back.
SenderCrash ==
    /\ Fault
    /\ queue' = {}
    /\ worker' = [w \in Workers |-> IdleWorker]
    /\ lockedBy' = [r \in Rows |-> NoOne]
    /\ conn' = [c \in Conns |-> Shut(conn[c])]
    /\ UNCHANGED <<now, sentAt, row>>

WorkerStep(w) ==
    \/ Dispatch(w)
    \/ \E u \in Units : \/ SkipUnit(w, u)
                        \/ RecordUnitInvalid(w, u)
                        \/ \E c \in Conns : DeliverUnit(w, u, c)
    \/ ReadInit(w) \/ ReadCodes(w) \/ ConnectionLost(w) \/ Timeout(w)
    \/ DeadlockVictim(w)

SenderNext ==
    \/ \E u \in Units : Finalize(u)
    \/ Tick
    \/ Poll
    \/ \E w \in Workers : WorkerStep(w)
    \/ SenderCrash
============================================================================

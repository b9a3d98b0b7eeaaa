--------------------------- MODULE Finalization ---------------------------
(***************************************************************************)
(* Drafts becoming messages: Finalize and FinalizeBatch (pkg/message) in   *)
(* transactions of the Web API, against edits of the draft, new batches    *)
(* and purges in other transactions, with the row locks of PostgreSQL (at  *)
(* READ COMMITTED) and the triggers of dd.sql.                             *)
(*                                                                         *)
(* A hash is the record of what was hashed.  The columns of a message are  *)
(* its terminal flag, which stands for all the header's own columns, its   *)
(* to list, and its link to a parent.  Every step is one statement of a    *)
(* transaction; what it writes shows when the transaction commits.         *)
(***************************************************************************)
EXTENDS Naturals, FiniteSets

CONSTANTS
    Msgs,       \* rows of msg
    Batches,    \* rows of msg_add_to_batch
    Addrs,      \* recipient addresses
    Txs,        \* transactions alive at once
    NoMsg,      \* no parent
    MaxTxs,     \* bound on the transactions of a behaviour
    MaxTime     \* bound of the clock

ASSUME FinalizationAssumption ==
    /\ Msgs # {} /\ NoMsg \notin Msgs
    /\ MaxTxs \in Nat /\ MaxTime \in Nat

VARIABLES
    now,        \* the clock, in days: it stands still while a transaction runs
    msg,        \* [Msgs -> row of msg with its rows of msg_to], as committed
    batch,      \* [Batches -> row of msg_add_to_batch with its rows of msg_add_to]
    tx,         \* [Txs -> Transaction]
    begun       \* transactions so far (bound of the model)

vars == <<now, msg, batch, tx, begun>>

(***************************************************************************)
(* Rows.  A message is "sent" when time_sent is set, a batch "sealed" when *)
(* its sha256 is.                                                          *)
(***************************************************************************)
NoHash == [payload |-> NoMsg]

AbsentMsg ==
    [state |-> "absent", terminal |-> FALSE, to |-> {}, pid |-> NoMsg, psha |-> NoHash,
     time |-> 0, hash |-> NoHash]

AbsentBatch == [state |-> "absent", msg |-> NoMsg, to |-> {}, time |-> 0, hash |-> NoHash]

\* GetMessageHash of the original form of message m, with the columns r, and of
\* a batch for addTo at a time, whose pid is the hash h of the message.
MessageHash(m, r, time) ==
    [payload |-> m, terminal |-> r.terminal, to |-> r.to, pid |-> r.psha, time |-> time,
     addTo |-> {}]

BatchHash(m, h, addTo, time) ==
    [payload |-> m, terminal |-> h.terminal, to |-> h.to, pid |-> h, time |-> time,
     addTo |-> addTo]

BatchesOf(m) == {b \in Batches : batch[b].msg = m}

(***************************************************************************)
(* Transactions.                                                           *)
(*   pc       its next statement                                           *)
(*   msg      the message it is about                                      *)
(*   lock     its lock on that row: "share" is the KEY SHARE of a foreign  *)
(*            key, "update" that of FOR UPDATE                             *)
(*   row      what Finalize loaded and will write                          *)
(*   todo     the batches Finalize has yet to seal                         *)
(*   wrote    the batch rows written: [a subset of Batches -> row], of     *)
(*            which every one is locked                                    *)
(*   addr     the recipient an edit adds to or takes from the rows         *)
(***************************************************************************)
Idle ==
    [pc |-> "idle", msg |-> NoMsg, lock |-> "none", row |-> AbsentMsg, todo |-> {},
     wrote |-> <<>>, addr |-> {}]

Pcs == {"idle", "loaded", "sealing", "added", "finalized",
        "insert", "delete", "insertBatch", "deleteBatch"}

TypeOK ==
    /\ now \in 0..MaxTime /\ begun \in 0..MaxTxs
    /\ \A m \in Msgs :
          /\ msg[m].state \in {"absent", "draft", "sent"}
          /\ msg[m].terminal \in BOOLEAN
          /\ msg[m].to \subseteq Addrs
          /\ msg[m].pid \in Msgs \cup {NoMsg}
          /\ msg[m].hash # NoHash <=> msg[m].state = "sent"
    /\ \A b \in Batches :
          /\ batch[b].state \in {"absent", "open", "sealed"}
          /\ batch[b].msg \in Msgs <=> batch[b].state # "absent"
          /\ batch[b].to \subseteq Addrs
          /\ batch[b].hash # NoHash <=> batch[b].state = "sealed"
    /\ \A t \in Txs :
          /\ tx[t].pc \in Pcs
          /\ tx[t].lock \in {"none", "share", "update"}
          /\ tx[t].todo \subseteq Batches
          /\ DOMAIN tx[t].wrote \subseteq Batches

Init ==
    /\ now = 0
    /\ msg = [m \in Msgs |-> AbsentMsg]
    /\ batch = [b \in Batches |-> AbsentBatch]
    /\ tx = [t \in Txs |-> Idle]
    /\ begun = 0

Tick ==
    /\ now < MaxTime
    /\ \A t \in Txs : tx[t] = Idle
    /\ now' = now + 1
    /\ UNCHANGED <<msg, batch, tx, begun>>

----------------------------------------------------------------------------
(***************************************************************************)
(* Locks.  A transaction waits: its next statement is not enabled.         *)
(***************************************************************************)
\* The row of m can be locked by t with FOR UPDATE, or with KEY SHARE.
CanUpdate(t, m) == \A v \in Txs \ {t} : tx[v].msg = m => tx[v].lock = "none"
CanShare(t, m)  == \A v \in Txs \ {t} : tx[v].msg = m => tx[v].lock # "update"

CanLockBatch(t, b) == \A v \in Txs \ {t} : b \notin DOMAIN tx[v].wrote

\* Statement of transaction t by which x becomes its state.
Becomes(t, x) == tx' = [tx EXCEPT ![t] = x]

\* The first statement of a transaction.
Begin(t) == tx[t].pc = "idle" /\ begun < MaxTxs /\ begun' = begun + 1

\* A statement fails, the client goes away or the process dies: nothing of the
\* transaction remains and its locks are gone.
Rollback(t) ==
    /\ tx[t].pc # "idle"
    /\ Becomes(t, Idle)
    /\ UNCHANGED <<now, msg, batch, begun>>

----------------------------------------------------------------------------
(***************************************************************************)
(* Drafts, as the Web API writes them.                                     *)
(***************************************************************************)
\* populate_msg_psha256_from_pid: a reply's parent is sent and not terminal, and
\* the parent hash is the parent's or that of one of its batches.
ParentHashes(p) ==
    {msg[p].hash} \cup {batch[b].hash : b \in {x \in BatchesOf(p) : batch[x].state = "sealed"}}

\* A slip: a draft will do for a parent.
MayReplyToDraft(p) == msg[p].state # "absent" /\ ~msg[p].terminal

MayReplyTo(p) == msg[p].state = "sent" /\ ~msg[p].terminal

\* A draft with its recipients is inserted; the foreign key needs the parent.
CreateDraft(t, m, p) ==
    /\ Begin(t)
    /\ msg[m].state = "absent"
    /\ p # NoMsg => MayReplyTo(p) /\ CanShare(t, p)
    /\ \E to \in SUBSET Addrs, psha \in IF p = NoMsg THEN {NoHash} ELSE ParentHashes(p) :
          /\ to # {}
          /\ msg' = [msg EXCEPT ![m] = [AbsentMsg EXCEPT !.state = "draft", !.to = to,
                                                         !.pid = p, !.psha = psha]]
    /\ UNCHANGED <<now, batch, tx>>

\* A header column of the row is updated; protect_msg_identity refuses a sent
\* one, once the row's lock is there.
UpdateColumn(t, m) ==
    /\ Begin(t)
    /\ msg[m].state = "draft"
    /\ CanShare(t, m)
    /\ msg' = [msg EXCEPT ![m].terminal = ~@]
    /\ UNCHANGED <<now, batch, tx>>

\* A recipient row is inserted or deleted.  An insertion waits for the foreign
\* key; then, for both, protect_msg_parts locks the message.
InsertRecipient(t, m, a) ==
    /\ Begin(t)
    /\ msg[m].state # "absent" /\ a \notin msg[m].to
    /\ CanShare(t, m)
    /\ Becomes(t, [Idle EXCEPT !.pc = "insert", !.msg = m, !.lock = "share", !.addr = {a}])
    /\ UNCHANGED <<now, msg, batch>>

DeleteRecipient(t, m, a) ==
    /\ Begin(t)
    /\ a \in msg[m].to
    /\ Becomes(t, [Idle EXCEPT !.pc = "delete", !.msg = m, !.addr = {a}])
    /\ UNCHANGED <<now, msg, batch>>

Edited(t, to) ==
    IF tx[t].pc \in {"insert", "insertBatch"} THEN to \cup tx[t].addr ELSE to \ tx[t].addr

\* A slip: the trigger does not look whether the message is sent.
ProtectMsgPartsUnread(t) ==
    /\ tx[t].pc \in {"insert", "delete"}
    /\ CanUpdate(t, tx[t].msg)
    /\ msg[tx[t].msg].state # "absent"
    /\ msg' = [msg EXCEPT ![tx[t].msg].to = Edited(t, @)]
    /\ Becomes(t, Idle)
    /\ UNCHANGED <<now, batch, begun>>

\* protect_msg_parts reads whether the message is frozen under its lock; the
\* edit of a draft commits, that of a sent message is rolled back.
ProtectMsgParts(t) ==
    /\ tx[t].pc \in {"insert", "delete"}
    /\ CanUpdate(t, tx[t].msg)
    /\ msg[tx[t].msg].state = "draft"
    /\ msg' = [msg EXCEPT ![tx[t].msg].to = Edited(t, @)]
    /\ Becomes(t, Idle)
    /\ UNCHANGED <<now, batch, begun>>

----------------------------------------------------------------------------
(***************************************************************************)
(* Batches.                                                                *)
(***************************************************************************)
\* The same for a recipient of a batch that waits for its message to be sent;
\* here the trigger locks the batch.
InsertBatchRecipient(t, b, a) ==
    /\ Begin(t)
    /\ batch[b].state # "absent" /\ a \notin batch[b].to
    /\ CanShare(t, batch[b].msg)
    /\ Becomes(t, [Idle EXCEPT !.pc = "insertBatch", !.msg = batch[b].msg, !.lock = "share",
                               !.todo = {b}, !.addr = {a}])
    /\ UNCHANGED <<now, msg, batch>>

DeleteBatchRecipient(t, b, a) ==
    /\ Begin(t)
    /\ a \in batch[b].to
    /\ Becomes(t, [Idle EXCEPT !.pc = "deleteBatch", !.msg = batch[b].msg, !.todo = {b},
                               !.addr = {a}])
    /\ UNCHANGED <<now, msg, batch>>

ProtectBatchParts(t) ==
    /\ tx[t].pc \in {"insertBatch", "deleteBatch"}
    /\ \E b \in tx[t].todo :
          /\ CanLockBatch(t, b)
          /\ batch[b].state = "open"
          /\ batch' = [batch EXCEPT ![b].to = Edited(t, @)]
    /\ Becomes(t, Idle)
    /\ UNCHANGED <<now, msg, begun>>

\* A batch and its recipients are inserted; prevent_add_to_terminal_msg refuses
\* a terminal message, and the foreign key waits for a transaction that sends it.
AddBatch(t, m, b) ==
    /\ Begin(t)
    /\ batch[b].state = "absent" /\ CanLockBatch(t, b)
    /\ msg[m].state # "absent" /\ ~msg[m].terminal
    /\ CanShare(t, m)
    /\ \E to \in SUBSET Addrs :
          Becomes(t, [Idle EXCEPT !.pc = "added", !.msg = m, !.lock = "share",
                        !.wrote = [x \in {b} |-> [AbsentBatch EXCEPT !.state = "open",
                                                     !.msg = m, !.to = to, !.time = now]]])
    /\ UNCHANGED <<now, msg, batch>>

\* A slip: the wire form is stored and not its hash.
SealedUnhashed(r, m, h) == [r EXCEPT !.state = "sealed"]

\* Batch row r of message m, sealed, h being the message's hash.  There must be
\* recipients (the caller's guard).
Sealed(r, m, h) ==
    [r EXCEPT !.state = "sealed", !.hash = BatchHash(m, h, r.to, r.time)]

\* FinalizeBatch after the insertion: the message is loaded FOR UPDATE; the batch
\* of a draft is left for its sending.
FinalizeBatch(t) ==
    /\ tx[t].pc = "added"
    /\ CanUpdate(t, tx[t].msg)
    /\ LET m == tx[t].msg
           r == tx[t].wrote
           b == CHOOSE x \in DOMAIN r : TRUE
       IN
       \/ /\ msg[m].state = "draft"
          /\ Becomes(t, [tx[t] EXCEPT !.pc = "finalized", !.lock = "update"])
       \/ /\ msg[m].state = "sent"
          /\ r[b].to # {}
          /\ Becomes(t, [tx[t] EXCEPT !.pc = "finalized", !.lock = "update",
                                      !.wrote[b] = Sealed(@, m, msg[m].hash)])
    /\ UNCHANGED <<now, msg, batch, begun>>

\* A slip: the deferred trigger is missing.
CommitBatchUnchecked(t) ==
    /\ tx[t].pc \in {"added", "finalized"}
    /\ batch' = [b \in Batches |-> IF b \in DOMAIN tx[t].wrote THEN tx[t].wrote[b] ELSE batch[b]]
    /\ Becomes(t, Idle)
    /\ UNCHANGED <<now, msg, begun>>

\* require_sent_batch_hash, deferred to the commit: an unsealed batch may only
\* join a draft, whether or not the client called FinalizeBatch.
CommitBatch(t) ==
    /\ tx[t].pc \in {"added", "finalized"}
    /\ msg[tx[t].msg].state = "sent" =>
           \A b \in DOMAIN tx[t].wrote : tx[t].wrote[b].state = "sealed"
    /\ batch' = [b \in Batches |-> IF b \in DOMAIN tx[t].wrote THEN tx[t].wrote[b] ELSE batch[b]]
    /\ Becomes(t, Idle)
    /\ UNCHANGED <<now, msg, begun>>

----------------------------------------------------------------------------
(***************************************************************************)
(* Finalize.                                                               *)
(***************************************************************************)
\* The columns of message m's row r once it is sent now.
Stamped(m, r) == [r EXCEPT !.state = "sent", !.time = now, !.hash = MessageHash(m, r, now)]

MayFinalize(m) ==
    /\ msg[m].state = "draft"
    /\ msg[m].to # {}
    /\ msg[m].pid # NoMsg => MayReplyTo(msg[m].pid)

\* A slip: the row is read without FOR UPDATE.
LoadUnlocked(t, m) ==
    /\ Begin(t)
    /\ MayFinalize(m)
    /\ Becomes(t, [Idle EXCEPT !.pc = "loaded", !.msg = m, !.row = Stamped(m, msg[m])])
    /\ UNCHANGED <<now, msg, batch>>

\* load, the checks of Finalize and Prepare: the row is locked, its recipients
\* and the parent's hash are read and the wire form is made of them.
Load(t, m) ==
    /\ Begin(t)
    /\ MayFinalize(m)
    /\ CanUpdate(t, m)
    /\ Becomes(t, [Idle EXCEPT !.pc = "loaded", !.msg = m, !.lock = "update",
                               !.row = Stamped(m, msg[m])])
    /\ UNCHANGED <<now, msg, batch>>

\* The row is updated, which protect_msg_identity allows a draft, and its
\* unsealed batches are looked up.
Stamp(t) ==
    /\ tx[t].pc = "loaded"
    /\ CanUpdate(t, tx[t].msg)
    /\ msg[tx[t].msg].state = "draft"
    /\ Becomes(t, [tx[t] EXCEPT !.pc = "sealing", !.lock = "update",
                      !.todo = {b \in BatchesOf(tx[t].msg) : batch[b].state = "open"}])
    /\ UNCHANGED <<now, msg, batch, begun>>

\* A slip: the batch keeps the time it was made.
AtSendingAsMade(t, b) == batch[b]

\* The batch gets the later of its time and the message's.
AtSending(t, b) ==
    [batch[b] EXCEPT !.time = IF @ < tx[t].row.time THEN tx[t].row.time ELSE @]

\* Finalize seals the batches one after another; the update of its time locks a
\* batch before its recipients are read.  A batch without any fails the lot.
SealBatch(t, b) ==
    /\ tx[t].pc = "sealing"
    /\ b \in tx[t].todo
    /\ CanLockBatch(t, b)
    /\ batch[b].to # {}
    /\ Becomes(t, [tx[t] EXCEPT !.todo = @ \ {b},
                      !.wrote = [x \in DOMAIN @ \cup {b} |->
                                    IF x = b THEN Sealed(AtSending(t, b), tx[t].msg, tx[t].row.hash)
                                             ELSE @[x]]])
    /\ UNCHANGED <<now, msg, batch, begun>>

\* require_sent_msg_hash, deferred: no batch of the message is left unsealed.
CommitMessage(t) ==
    /\ tx[t].pc = "sealing"
    /\ tx[t].todo = {}
    /\ \A b \in BatchesOf(tx[t].msg) : b \in DOMAIN tx[t].wrote \/ batch[b].state = "sealed"
    /\ msg' = [msg EXCEPT ![tx[t].msg].state = "sent",
                          ![tx[t].msg].time = tx[t].row.time,
                          ![tx[t].msg].psha = tx[t].row.psha,
                          ![tx[t].msg].hash = tx[t].row.hash]
    /\ batch' = [b \in Batches |-> IF b \in DOMAIN tx[t].wrote THEN tx[t].wrote[b] ELSE batch[b]]
    /\ Becomes(t, Idle)
    /\ UNCHANGED <<now, begun>>

\* A transaction that sets fmsg.purge deletes a message and its parts; replies
\* lose their link and keep the hash.
Purge(t, m) ==
    /\ Begin(t)
    /\ msg[m].state # "absent"
    /\ \A v \in Txs : tx[v].msg # m
    /\ \A c \in Msgs : msg[c].pid = m => CanShare(t, c)
    /\ msg' = [c \in Msgs |-> IF c = m THEN AbsentMsg
                              ELSE IF msg[c].pid = m THEN [msg[c] EXCEPT !.pid = NoMsg]
                              ELSE msg[c]]
    /\ batch' = [b \in Batches |-> IF batch[b].msg = m THEN AbsentBatch ELSE batch[b]]
    /\ UNCHANGED <<now, tx>>

----------------------------------------------------------------------------
Statement(t) ==
    \/ \E m \in Msgs :
          \/ \E p \in Msgs \cup {NoMsg} : CreateDraft(t, m, p)
          \/ UpdateColumn(t, m)
          \/ \E a \in Addrs : InsertRecipient(t, m, a) \/ DeleteRecipient(t, m, a)
          \/ \E b \in Batches : AddBatch(t, m, b)
          \/ Load(t, m)
          \/ Purge(t, m)
    \/ \E b \in Batches :
          \/ \E a \in Addrs : InsertBatchRecipient(t, b, a) \/ DeleteBatchRecipient(t, b, a)
          \/ SealBatch(t, b)
    \/ ProtectMsgParts(t) \/ ProtectBatchParts(t)
    \/ FinalizeBatch(t) \/ CommitBatch(t)
    \/ Stamp(t) \/ CommitMessage(t)

Next == Tick \/ \E t \in Txs : Statement(t) \/ Rollback(t)

Spec == Init /\ [][Next]_vars

----------------------------------------------------------------------------
\* The identity of a sent message or sealed batch is that of the rows beside it:
\* nothing was added to, taken from or changed in a message between the reading
\* of its rows and the commit of their hash (Finalize, FinalizeBatch against
\* edits in other transactions).
SealedMatchesRows ==
    /\ \A m \in Msgs : msg[m].state = "sent" => msg[m].hash = MessageHash(m, msg[m], msg[m].time)
    /\ \A b \in Batches : batch[b].state = "sealed" =>
           batch[b].hash = BatchHash(batch[b].msg, msg[batch[b].msg].hash, batch[b].to,
                                     batch[b].time)

\* The sender finds no unit it cannot transmit: no batch of a sent message is
\* unsealed, though batches join a draft while it is sent (Finalize's lookup
\* of its batches, FinalizeBatch's early return for a draft).
NoUnsealedUnit ==
    \A b \in Batches : batch[b].state = "open" => msg[batch[b].msg].state = "draft"

\* No batch is older than its message, however long it waited in the draft: a
\* receiver would refuse it for its time (GREATEST in Finalize).
BatchFollowsMessage ==
    \A b \in Batches : batch[b].state = "sealed" => batch[b].time >= msg[batch[b].msg].time

\* A reply carries the hash of the very message it is linked to, or of one of
\* its batches, and that parent admits replies, through purges and edits
\* (populate_msg_psha256_from_pid, Finalize).
ReplyNamesItsParent ==
    \A m \in Msgs : msg[m].pid # NoMsg =>
        /\ msg[msg[m].pid].state = "sent" /\ ~msg[msg[m].pid].terminal
        /\ \/ msg[m].psha = msg[msg[m].pid].hash
           \/ \E b \in BatchesOf(msg[m].pid) : msg[m].psha = batch[b].hash

\* What was sent stays as it was sent until it is purged: a message keeps its
\* recipients, columns and hash, a sealed batch all of its row (the protect
\* triggers against late edits).
SealedIsFinal ==
    [][/\ \A m \in Msgs : msg[m].state = "sent" /\ msg'[m].state # "absent" =>
              msg'[m] \in {msg[m], [msg[m] EXCEPT !.pid = NoMsg]}
       /\ \A b \in Batches : batch[b].state = "sealed" /\ batch'[b].state # "absent" =>
              batch'[b] = batch[b]]_vars
============================================================================

------------------------ MODULE FinalizationProofs ------------------------
(***************************************************************************)
(* Proofs about finalization, for any messages, batches, recipients and    *)
(* number of concurrent transactions.                                      *)
(***************************************************************************)
EXTENDS Finalization, TLAPS

(***************************************************************************)
(* The inductive invariant.                                                *)
(***************************************************************************)
\* Rows are records, and an absent row is empty.
Shapes ==
    /\ DOMAIN msg = Msgs /\ \A m \in Msgs : DOMAIN msg[m] = DOMAIN AbsentMsg
    /\ DOMAIN batch = Batches /\ \A b \in Batches : DOMAIN batch[b] = DOMAIN AbsentBatch
    /\ DOMAIN tx = Txs
    /\ \A m \in Msgs : msg[m].state = "absent" => msg[m].to = {}
    /\ \A b \in Batches : batch[b].state = "absent" => batch[b].to = {}

\* Two transactions x and y get along: FOR UPDATE excludes every other lock on the
\* row, and a batch row is written by one of them.
Apart(x, y) ==
    /\ x.msg = y.msg /\ x.lock = "update" => y.lock = "none"
    /\ x.msg = y.msg /\ y.lock = "update" => x.lock = "none"
    /\ \A b \in Batches : ~(b \in DOMAIN x.wrote /\ b \in DOMAIN y.wrote)

Exclusion == \A t, v \in Txs : t # v => Apart(tx[t], tx[v])

\* Batch row r is sealed for message m with the columns s.
SealedFor(r, m, s) ==
    /\ DOMAIN r = DOMAIN AbsentBatch
    /\ r.state = "sealed" /\ r.msg = m /\ r.to \subseteq Addrs
    /\ r.hash = BatchHash(m, s.hash, r.to, r.time)
    /\ s.time <= r.time /\ r.time \in 0..now

\* What Finalize has read of a message is still so, and the batches it has sealed
\* or will seal are open in the database.
Finalizing(x) ==
    /\ x.lock = "update"
    /\ x.msg \in Msgs /\ msg[x.msg].state = "draft"
    /\ x.row = Stamped(x.msg, msg[x.msg])
    /\ \A b \in DOMAIN x.wrote :
          /\ batch[b].state = "open" /\ batch[b].msg = x.msg
          /\ SealedFor(x.wrote[b], x.msg, x.row)
    /\ \A b \in x.todo : batch[b].state = "open" /\ batch[b].msg = x.msg

\* A batch that waits for its message to be sent.
Waiting(r, m) ==
    /\ DOMAIN r = DOMAIN AbsentBatch
    /\ r.state = "open" /\ r.msg = m /\ r.to \subseteq Addrs
    /\ r.time = now /\ r.hash = NoHash

\* A new batch is not in the database yet; once sealed it belongs with the message
\* that is there.
Adding(x) ==
    /\ x.msg \in Msgs /\ msg[x.msg].state # "absent"
    /\ x.lock = (IF x.pc = "added" THEN "share" ELSE "update")
    /\ x.todo = {}
    /\ \E b \in Batches :
          /\ DOMAIN x.wrote = {b}
          /\ batch[b].state = "absent"
          /\ \/ Waiting(x.wrote[b], x.msg)
             \/ /\ x.pc = "finalized" /\ msg[x.msg].state = "sent"
                /\ SealedFor(x.wrote[b], x.msg, msg[x.msg])

\* An edit has its message.
Editing(x) ==
    /\ x.msg \in Msgs /\ msg[x.msg].state # "absent"
    /\ x.lock \in {"none", "share"} /\ DOMAIN x.wrote = {} /\ x.addr \subseteq Addrs

\* Transaction x holds the locks that what it has read depends on.
Ordered(x) ==
    /\ DOMAIN x = DOMAIN Idle
    /\ x.pc \in Pcs /\ x.lock \in {"none", "share", "update"}
    /\ x.todo \subseteq Batches /\ DOMAIN x.wrote \subseteq Batches
    /\ x.pc = "idle" => x.lock = "none" /\ DOMAIN x.wrote = {}
    /\ x.pc = "loaded" => DOMAIN x.wrote = {}
    /\ x.pc \in {"loaded", "sealing"} => Finalizing(x)
    /\ x.pc \in {"added", "finalized"} => Adding(x)
    /\ x.pc \in {"insert", "delete", "insertBatch", "deleteBatch"} => Editing(x)

\* A sealed batch is one of a sent message, and nothing is of the future.
Ages ==
    /\ \A m \in Msgs : msg[m].time \in 0..now
    /\ \A b \in Batches : batch[b].time \in 0..now
    /\ \A b \in Batches : batch[b].state = "sealed" => msg[batch[b].msg].state = "sent"

Results == SealedMatchesRows /\ NoUnsealedUnit /\ BatchFollowsMessage /\ ReplyNamesItsParent

Inv ==
    /\ TypeOK /\ Shapes /\ Ages /\ Results
    /\ Exclusion /\ \A t \in Txs : Ordered(tx[t])

----------------------------------------------------------------------------
(***************************************************************************)
(* Statements that write nothing but their own transaction.                *)
(***************************************************************************)
\* The invariant is kept by a transaction that goes on to an orderly state which gets
\* along with the others.
LEMMA TransactionGoesOn ==
  ASSUME Inv, NEW t \in Txs, NEW x, Becomes(t, x),
         UNCHANGED <<now, msg, batch>>, begun' \in 0..MaxTxs,
         Ordered(x), \A v \in Txs \ {t} : Apart(x, tx[v])
  PROVE  Inv'
<1>1. tx'[t] = x /\ \A v \in Txs \ {t} : tx'[v] = tx[v]
  BY DEF Becomes, Inv, Shapes
<1>2. DOMAIN tx' = Txs
  BY DEF Becomes, Inv, Shapes
<1>3. ASSUME NEW v \in Txs
      PROVE  Ordered(tx[v])'
  <2> DEFINE y == IF v = t THEN x ELSE tx[v]
  <2>1. Ordered(y) /\ tx'[v] = y
    BY <1>1 DEF Inv
  <2>2. Finalizing(y) => Finalizing(tx[v])'
    BY <2>1 DEF Finalizing, SealedFor, Stamped, MessageHash, BatchHash
  <2>3. Adding(y) => Adding(tx[v])'
    BY <2>1 DEF Adding, SealedFor, Waiting, BatchHash
  <2>4. Editing(y) => Editing(tx[v])'
    BY <2>1 DEF Editing
  <2> QED
    BY <2>1, <2>2, <2>3, <2>4 DEF Ordered
<1>4. Exclusion'
  BY <1>1 DEF Inv, Exclusion, Apart
<1>5. TypeOK'
  BY <1>1, <1>3 DEF Inv, TypeOK, Ordered
<1>6. Shapes' /\ Ages' /\ Results'
  BY <1>2 DEF Inv, Shapes, Ages, Results, SealedMatchesRows, NoUnsealedUnit,
              BatchFollowsMessage, ReplyNamesItsParent, BatchesOf
<1> QED
  BY <1>3, <1>4, <1>5, <1>6 DEF Inv

\* A transaction that ends without effect.
LEMMA RollbackKeepsInv ==
  ASSUME Inv, NEW t \in Txs, Rollback(t)
  PROVE  Inv'
<1>1. Ordered(Idle)
  BY DEF Ordered, Idle, Pcs
<1>2. \A v \in Txs \ {t} : Apart(Idle, tx[v])
  BY DEF Apart, Idle
<1>3. begun' \in 0..MaxTxs
  BY DEF Rollback, Inv, TypeOK
<1> QED
  BY <1>1, <1>2, <1>3, TransactionGoesOn DEF Rollback

\* An edit goes on if its message is there and can be shared.
LEMMA EditGoesOn ==
  ASSUME Inv, NEW t \in Txs, begun' \in 0..MaxTxs, UNCHANGED <<now, msg, batch>>,
         NEW x, Becomes(t, x), DOMAIN x = DOMAIN Idle,
         x.pc \in {"insert", "delete", "insertBatch", "deleteBatch"},
         x.msg \in Msgs, msg[x.msg].state # "absent",
         x.lock \in {"none", "share"}, x.lock = "share" => CanShare(t, x.msg),
         x.todo \subseteq Batches, x.addr \subseteq Addrs, DOMAIN x.wrote = {}
  PROVE  Inv'
<1>1. Ordered(x)
  BY DEF Ordered, Editing, Pcs
<1>2. \A v \in Txs \ {t} : Apart(x, tx[v])
  BY DEF Apart, CanShare
<1> QED
  BY <1>1, <1>2, TransactionGoesOn

\* A first statement that begins an edit.
LEMMA EditKeepsInv ==
  ASSUME Inv, NEW t \in Txs,
         \/ \E m \in Msgs, a \in Addrs : InsertRecipient(t, m, a) \/ DeleteRecipient(t, m, a)
         \/ \E b \in Batches, a \in Addrs :
                InsertBatchRecipient(t, b, a) \/ DeleteBatchRecipient(t, b, a)
  PROVE  Inv'
<1>1. begun' \in 0..MaxTxs /\ UNCHANGED <<now, msg, batch>>
  <2>1. Begin(t) /\ UNCHANGED <<now, msg, batch>>
    BY DEF InsertRecipient, DeleteRecipient, InsertBatchRecipient, DeleteBatchRecipient
  <2> QED
    BY <2>1, FinalizationAssumption DEF Begin, Inv, TypeOK
<1>2. \A b \in Batches : batch[b].state # "absent" =>
          batch[b].msg \in Msgs /\ msg[batch[b].msg].state # "absent"
  BY DEF Inv, TypeOK, Results, NoUnsealedUnit, Ages
<1>3. ASSUME NEW m \in Msgs, NEW a \in Addrs, InsertRecipient(t, m, a)
      PROVE  Inv'
  <2> DEFINE x == [Idle EXCEPT !.pc = "insert", !.msg = m, !.lock = "share", !.addr = {a}]
  <2>1. /\ DOMAIN x = DOMAIN Idle /\ x.pc = "insert" /\ x.msg = m /\ x.lock = "share"
        /\ x.todo = {} /\ x.addr = {a} /\ DOMAIN x.wrote = {}
    BY DEF Idle
  <2>2. Becomes(t, x) /\ CanShare(t, m) /\ msg[m].state # "absent"
    BY <1>3 DEF InsertRecipient
  <2> HIDE DEF x
  <2> QED
    BY <1>1, <2>1, <2>2, EditGoesOn
<1>4. ASSUME NEW m \in Msgs, NEW a \in Addrs, DeleteRecipient(t, m, a)
      PROVE  Inv'
  <2> DEFINE x == [Idle EXCEPT !.pc = "delete", !.msg = m, !.addr = {a}]
  <2>1. /\ DOMAIN x = DOMAIN Idle /\ x.pc = "delete" /\ x.msg = m /\ x.lock = "none"
        /\ x.todo = {} /\ x.addr = {a} /\ DOMAIN x.wrote = {}
    BY DEF Idle
  <2>2. Becomes(t, x) /\ msg[m].state # "absent"
    BY <1>4 DEF DeleteRecipient, Inv, Shapes
  <2> HIDE DEF x
  <2> QED
    BY <1>1, <2>1, <2>2, EditGoesOn
<1>5. ASSUME NEW b \in Batches, NEW a \in Addrs, InsertBatchRecipient(t, b, a)
      PROVE  Inv'
  <2> DEFINE x == [Idle EXCEPT !.pc = "insertBatch", !.msg = batch[b].msg, !.lock = "share",
                               !.todo = {b}, !.addr = {a}]
  <2>1. /\ DOMAIN x = DOMAIN Idle /\ x.pc = "insertBatch" /\ x.msg = batch[b].msg
        /\ x.lock = "share" /\ x.todo = {b} /\ x.addr = {a} /\ DOMAIN x.wrote = {}
    BY DEF Idle
  <2>2. Becomes(t, x) /\ CanShare(t, batch[b].msg) /\ batch[b].state # "absent"
    BY <1>5 DEF InsertBatchRecipient
  <2> HIDE DEF x
  <2> QED
    BY <1>1, <1>2, <2>1, <2>2, EditGoesOn
<1>6. ASSUME NEW b \in Batches, NEW a \in Addrs, DeleteBatchRecipient(t, b, a)
      PROVE  Inv'
  <2> DEFINE x == [Idle EXCEPT !.pc = "deleteBatch", !.msg = batch[b].msg, !.todo = {b},
                               !.addr = {a}]
  <2>1. /\ DOMAIN x = DOMAIN Idle /\ x.pc = "deleteBatch" /\ x.msg = batch[b].msg
        /\ x.lock = "none" /\ x.todo = {b} /\ x.addr = {a} /\ DOMAIN x.wrote = {}
    BY DEF Idle
  <2>2. Becomes(t, x) /\ batch[b].state # "absent"
    BY <1>6 DEF DeleteBatchRecipient, Inv, Shapes
  <2> HIDE DEF x
  <2> QED
    BY <1>1, <1>2, <2>1, <2>2, EditGoesOn
<1> QED
  BY <1>3, <1>4, <1>5, <1>6

\* A new batch, before its sealing.
LEMMA AddBatchKeepsInv ==
  ASSUME Inv, NEW t \in Txs, NEW m \in Msgs, NEW b \in Batches, AddBatch(t, m, b)
  PROVE  Inv'
<1>1. begun' \in 0..MaxTxs
  BY FinalizationAssumption DEF AddBatch, Begin, Inv, TypeOK
<1>2. PICK to \in SUBSET Addrs :
          Becomes(t, [Idle EXCEPT !.pc = "added", !.msg = m, !.lock = "share",
                        !.wrote = [y \in {b} |-> [AbsentBatch EXCEPT !.state = "open",
                                                     !.msg = m, !.to = to, !.time = now]]])
  BY DEF AddBatch
<1> DEFINE r == [AbsentBatch EXCEPT !.state = "open", !.msg = m, !.to = to, !.time = now]
           x == [Idle EXCEPT !.pc = "added", !.msg = m, !.lock = "share",
                             !.wrote = [y \in {b} |-> r]]
<1>3. Waiting(r, m)
  BY DEF Waiting, AbsentBatch
<1> HIDE DEF r
<1>4. /\ DOMAIN x = DOMAIN Idle /\ x.pc = "added" /\ x.msg = m /\ x.lock = "share"
      /\ x.todo = {} /\ DOMAIN x.wrote = {b} /\ x.wrote[b] = r
  BY DEF Idle
<1> HIDE DEF x
<1>5. Ordered(x)
  BY <1>3, <1>4 DEF AddBatch, Ordered, Adding, Pcs
<1>6. \A v \in Txs \ {t} : Apart(x, tx[v])
  BY <1>4 DEF AddBatch, Apart, CanShare, CanLockBatch
<1> QED
  BY <1>1, <1>2, <1>5, <1>6, TransactionGoesOn DEF AddBatch, x, r

\* The batch is sealed, or left for the sending of its message.
LEMMA FinalizeBatchKeepsInv ==
  ASSUME Inv, NEW t \in Txs, FinalizeBatch(t)
  PROVE  Inv'
<1>1. begun' \in 0..MaxTxs
  BY DEF FinalizeBatch, Inv, TypeOK
<1> DEFINE m == tx[t].msg
<1>2. Ordered(tx[t]) /\ Adding(tx[t]) /\ tx[t].pc = "added" /\ m \in Msgs
  BY DEF FinalizeBatch, Inv, Ordered, Adding
<1>3. PICK b \in Batches : /\ DOMAIN tx[t].wrote = {b} /\ batch[b].state = "absent"
                           /\ Waiting(tx[t].wrote[b], m) /\ tx[t].todo = {}
  BY <1>2 DEF Adding
<1>4. b = CHOOSE x \in DOMAIN tx[t].wrote : TRUE
  BY <1>3
<1>5. \A v \in Txs \ {t} : tx[v].msg = m => tx[v].lock = "none"
  BY DEF FinalizeBatch, CanUpdate
<1>6. ASSUME NEW x, Becomes(t, x), DOMAIN x = DOMAIN Idle, x.pc = "finalized", x.lock = "update",
             x.msg = m, x.todo = tx[t].todo, DOMAIN x.wrote = {b},
             \/ Waiting(x.wrote[b], m)
             \/ msg[m].state = "sent" /\ SealedFor(x.wrote[b], m, msg[m])
      PROVE  Inv'
  <2>1. Ordered(x)
    BY <1>2, <1>3, <1>6 DEF Ordered, Adding, Pcs
  <2>2. \A v \in Txs \ {t} : Apart(x, tx[v])
    BY <1>3, <1>5, <1>6 DEF Inv, Exclusion, Apart
  <2> QED
    BY <1>1, <1>6, <2>1, <2>2, TransactionGoesOn DEF FinalizeBatch
<1>7. CASE msg[m].state = "draft"
  <2> DEFINE x == [tx[t] EXCEPT !.pc = "finalized", !.lock = "update"]
  <2>1. Becomes(t, x)
    BY <1>7 DEF FinalizeBatch
  <2>2. /\ DOMAIN x = DOMAIN Idle /\ x.pc = "finalized" /\ x.lock = "update"
        /\ x.msg = m /\ x.todo = tx[t].todo /\ x.wrote = tx[t].wrote
    BY <1>2 DEF Ordered, Idle
  <2> HIDE DEF x
  <2> QED
    BY <1>3, <1>6, <2>1, <2>2
<1>8. CASE msg[m].state = "sent"
  <2> DEFINE r == tx[t].wrote[b]
             x == [tx[t] EXCEPT !.pc = "finalized", !.lock = "update",
                                !.wrote[b] = Sealed(@, m, msg[m].hash)]
  <2>1. Becomes(t, x)
    BY <1>4, <1>8 DEF FinalizeBatch
  <2>2. /\ DOMAIN x = DOMAIN Idle /\ x.pc = "finalized" /\ x.lock = "update"
        /\ x.msg = m /\ x.todo = tx[t].todo /\ DOMAIN x.wrote = {b}
        /\ x.wrote[b] = Sealed(r, m, msg[m].hash)
    BY <1>2, <1>3 DEF Ordered, Idle
  <2> HIDE DEF x
  <2>3. SealedFor(Sealed(r, m, msg[m].hash), m, msg[m])
    BY <1>2, <1>3, FinalizationAssumption DEF Waiting, SealedFor, Sealed, AbsentBatch, Inv, Ages, TypeOK
  <2> QED
    BY <1>6, <1>8, <2>1, <2>2, <2>3
<1> QED
  BY <1>7, <1>8 DEF FinalizeBatch

\* Finalize locks and reads the message.
LEMMA LoadKeepsInv ==
  ASSUME Inv, NEW t \in Txs, NEW m \in Msgs, Load(t, m)
  PROVE  Inv'
<1>1. begun' \in 0..MaxTxs
  BY FinalizationAssumption DEF Load, Begin, Inv, TypeOK
<1> DEFINE x == [Idle EXCEPT !.pc = "loaded", !.msg = m, !.lock = "update",
                             !.row = Stamped(m, msg[m])]
<1>2. /\ DOMAIN x = DOMAIN Idle /\ x.pc = "loaded" /\ x.msg = m /\ x.lock = "update"
      /\ x.row = Stamped(m, msg[m]) /\ x.todo = {} /\ DOMAIN x.wrote = {}
  BY DEF Idle
<1>3. Becomes(t, x)
  BY DEF Load
<1> HIDE DEF x
<1>4. Ordered(x)
  BY <1>2 DEF Load, MayFinalize, Ordered, Finalizing, Pcs
<1>5. \A v \in Txs \ {t} : Apart(x, tx[v])
  BY <1>2 DEF Load, CanUpdate, Apart
<1> QED
  BY <1>1, <1>3, <1>4, <1>5, TransactionGoesOn DEF Load

\* Finalize updates the row and looks its batches up.
LEMMA StampKeepsInv ==
  ASSUME Inv, NEW t \in Txs, Stamp(t)
  PROVE  Inv'
<1> DEFINE todo == {b \in BatchesOf(tx[t].msg) : batch[b].state = "open"}
           x == [tx[t] EXCEPT !.pc = "sealing", !.lock = "update", !.todo = todo]
<1>1. Ordered(tx[t]) /\ tx[t].pc = "loaded" /\ Finalizing(tx[t])
  BY DEF Stamp, Inv, Ordered
<1>2. /\ DOMAIN x = DOMAIN Idle /\ x.pc = "sealing" /\ x.msg = tx[t].msg /\ x.lock = "update"
      /\ x.row = tx[t].row /\ x.todo = todo /\ x.wrote = tx[t].wrote
  BY <1>1 DEF Ordered, Idle
<1>3. Becomes(t, x) /\ todo \subseteq Batches
      /\ \A b \in todo : batch[b].state = "open" /\ batch[b].msg = tx[t].msg
  BY DEF Stamp, BatchesOf
<1> HIDE DEF x, todo
<1>4. Ordered(x)
  BY <1>1, <1>2, <1>3 DEF Ordered, Finalizing, Pcs
<1>5. \A v \in Txs \ {t} : Apart(x, tx[v])
  BY <1>1, <1>2 DEF Finalizing, Inv, Exclusion, Apart
<1>6. begun' \in 0..MaxTxs /\ UNCHANGED <<now, msg, batch>>
  BY DEF Stamp, Inv, TypeOK
<1> QED
  BY <1>3, <1>4, <1>5, <1>6, TransactionGoesOn

\* Finalize seals one batch.
LEMMA SealBatchKeepsInv ==
  ASSUME Inv, NEW t \in Txs, NEW b \in Batches, SealBatch(t, b)
  PROVE  Inv'
<1> DEFINE m == tx[t].msg
           r == Sealed(AtSending(t, b), m, tx[t].row.hash)
           w == [y \in DOMAIN tx[t].wrote \cup {b} |-> IF y = b THEN r ELSE tx[t].wrote[y]]
           x == [tx[t] EXCEPT !.todo = @ \ {b}, !.wrote = w]
<1>1. Ordered(tx[t]) /\ tx[t].pc = "sealing" /\ Finalizing(tx[t])
  BY DEF SealBatch, Inv, Ordered
<1>2. SealedFor(r, m, tx[t].row)
  <2>1. /\ DOMAIN r = DOMAIN AbsentBatch /\ r.state = "sealed" /\ r.msg = batch[b].msg /\ r.to = batch[b].to
        /\ r.hash = BatchHash(m, tx[t].row.hash, r.to, r.time)
        /\ r.time = IF batch[b].time < tx[t].row.time THEN tx[t].row.time ELSE batch[b].time
    BY DEF Sealed, AtSending, AbsentBatch, Inv, Shapes
  <2>2. tx[t].row.time = now
    BY <1>1 DEF Finalizing, Stamped, Inv, Shapes, AbsentMsg
  <2>3. batch[b].msg = m /\ batch[b].time \in 0..now /\ now \in Nat /\ batch[b].to \subseteq Addrs
    BY <1>1 DEF SealBatch, Finalizing, Inv, Ages, TypeOK
  <2> HIDE DEF r
  <2> QED
    BY <2>1, <2>2, <2>3 DEF SealedFor
<1> HIDE DEF r
<1>3. /\ DOMAIN x = DOMAIN Idle /\ x.pc = "sealing" /\ x.msg = m /\ x.lock = tx[t].lock
      /\ x.row = tx[t].row /\ x.todo = tx[t].todo \ {b} /\ x.wrote = w
  BY <1>1 DEF Ordered, Idle
<1>4. Becomes(t, x)
  BY DEF SealBatch, r
<1>5. DOMAIN w = DOMAIN tx[t].wrote \cup {b} /\ w[b] = r
      /\ \A y \in DOMAIN tx[t].wrote \ {b} : w[y] = tx[t].wrote[y]
  OBVIOUS
<1> HIDE DEF x, w
<1>6. Ordered(x)
  BY <1>1, <1>2, <1>3, <1>5 DEF SealBatch, Ordered, Finalizing, Pcs
<1>7. \A v \in Txs \ {t} : Apart(x, tx[v])
  BY <1>1, <1>3, <1>5 DEF SealBatch, CanLockBatch, Inv, Exclusion, Apart
<1>8. begun' \in 0..MaxTxs /\ UNCHANGED <<now, msg, batch>>
  BY DEF SealBatch, Inv, TypeOK
<1> QED
  BY <1>4, <1>6, <1>7, <1>8, TransactionGoesOn

----------------------------------------------------------------------------
(***************************************************************************)
(* Statements that write rows.                                             *)
(***************************************************************************)
\* Every transaction has its message.
LEMMA HasMessage ==
  ASSUME Inv, NEW t \in Txs, tx[t].pc # "idle"
  PROVE  tx[t].msg \in Msgs /\ msg[tx[t].msg].state # "absent"
BY DEF Inv, Ordered, Pcs, Finalizing, Adding, Editing

\* Only Finalize and FinalizeBatch lock a message FOR UPDATE beyond a statement, and what
\* they will seal is open.
LEMMA UpdateHolders ==
  ASSUME Inv, NEW t \in Txs, tx[t].lock = "update"
  PROVE  /\ tx[t].pc \in {"loaded", "sealing", "finalized"}
         /\ \A b \in tx[t].todo : batch[b].state = "open" /\ batch[b].msg = tx[t].msg
BY DEF Inv, Ordered, Pcs, Finalizing, Adding, Editing

\* The batches of a sent message are sealed.
LEMMA BatchesOfSent ==
  ASSUME Inv, NEW m \in Msgs, msg[m].state = "sent", NEW b \in BatchesOf(m)
  PROVE  batch[b].state = "sealed"
BY DEF Inv, TypeOK, Results, NoUnsealedUnit, BatchesOf

\* Transaction v is not disturbed by writes to rows it has not locked.
LEMMA OrderedStays ==
  ASSUME Inv, NEW v \in Txs, now' = now, tx'[v] = tx[v],
         tx[v].lock = "update" => msg'[tx[v].msg] = msg[tx[v].msg],
         tx[v].pc # "idle" => msg'[tx[v].msg].state # "absent",
         \A b \in DOMAIN tx[v].wrote : batch'[b] = batch[b],
         tx[v].lock = "update" =>
             \A b \in tx[v].todo : batch'[b].state = batch[b].state /\ batch'[b].msg = batch[b].msg
  PROVE  Ordered(tx[v])'
<1> DEFINE y == tx[v]
<1>1. Ordered(y) /\ tx'[v] = y
  BY DEF Inv
<1>2. ASSUME Finalizing(y)
      PROVE  Finalizing(tx[v])'
  <2>1. msg'[y.msg] = msg[y.msg]
    BY <1>2 DEF Finalizing
  <2>2. Stamped(tx[v].msg, msg[tx[v].msg])' = Stamped(y.msg, msg[y.msg])
    BY <1>1, <2>1 DEF Stamped, MessageHash
  <2>3. \A b \in DOMAIN y.wrote : SealedFor(y.wrote[b], y.msg, y.row) =>
            SealedFor(tx[v].wrote[b], tx[v].msg, tx[v].row)'
    BY <1>1 DEF SealedFor, BatchHash
  <2> QED
    BY <1>1, <1>2, <2>1, <2>2, <2>3 DEF Finalizing
<1>3. ASSUME y.pc \in {"added", "finalized"}, Adding(y)
      PROVE  Adding(tx[v])'
  <2>1. PICK b \in Batches :
            /\ DOMAIN y.wrote = {b}
            /\ batch[b].state = "absent"
            /\ \/ Waiting(y.wrote[b], y.msg)
               \/ /\ y.pc = "finalized" /\ msg[y.msg].state = "sent"
                  /\ SealedFor(y.wrote[b], y.msg, msg[y.msg])
    BY <1>3 DEF Adding
  <2>2. batch'[b].state = "absent"
    BY <2>1
  <2>3. Waiting(y.wrote[b], y.msg) => Waiting(tx[v].wrote[b], tx[v].msg)'
    BY <1>1 DEF Waiting
  <2>4. y.pc = "finalized" => msg'[y.msg] = msg[y.msg]
    BY <1>3 DEF Adding
  <2>5. y.pc = "finalized" /\ SealedFor(y.wrote[b], y.msg, msg[y.msg]) =>
            SealedFor(tx[v].wrote[b], tx[v].msg, msg[tx[v].msg])'
    BY <1>1, <2>4 DEF SealedFor, BatchHash
  <2> QED
    BY <1>1, <1>3, <2>1, <2>2, <2>3, <2>4, <2>5 DEF Adding
<1>4. y.pc # "idle" /\ Editing(y) => Editing(tx[v])'
  BY <1>1 DEF Editing
<1> QED
  BY <1>1, <1>2, <1>3, <1>4 DEF Ordered

\* So the transactions stay orderly when one of them ends, or never began.
LEMMA OthersStay ==
  ASSUME Inv, NEW t \in Txs, now' = now, begun' \in 0..MaxTxs,
         \/ Becomes(t, Idle)
         \/ UNCHANGED tx /\ tx[t].pc = "idle",
         \A v \in Txs \ {t} :
             /\ tx[v].lock = "update" => msg'[tx[v].msg] = msg[tx[v].msg]
             /\ tx[v].pc # "idle" => msg'[tx[v].msg].state # "absent"
             /\ \A b \in DOMAIN tx[v].wrote : batch'[b] = batch[b]
             /\ tx[v].lock = "update" =>
                    \A b \in tx[v].todo : batch'[b].state = batch[b].state /\ batch'[b].msg = batch[b].msg
  PROVE  DOMAIN tx' = Txs /\ Exclusion' /\ \A v \in Txs : Ordered(tx[v])'
<1>1. DOMAIN tx' = Txs /\ \A v \in Txs \ {t} : tx'[v] = tx[v]
  BY DEF Becomes, Inv, Shapes
<1>2. tx'[t].pc = "idle" /\ tx'[t].lock = "none" /\ DOMAIN tx'[t].wrote = {}
  BY DEF Becomes, Inv, Shapes, Ordered, Idle
<1>3. Exclusion'
  BY <1>1, <1>2 DEF Inv, Exclusion, Apart
<1>4. Ordered(tx[t])'
  BY <1>2 DEF Becomes, Inv, Shapes, Ordered, Idle, Pcs
<1> QED
  BY <1>1, <1>3, <1>4, OrderedStays

\* A row that is no sent message is replaced by a draft: nothing that was sent depends on
\* it.
LEMMA DraftWritten ==
  ASSUME Inv, NEW m \in Msgs, msg[m].state # "sent", UNCHANGED <<now, batch>>,
         begun' \in 0..MaxTxs,
         NEW r, msg' = [msg EXCEPT ![m] = r],
         DOMAIN r = DOMAIN AbsentMsg, r.state = "draft", r.terminal \in BOOLEAN,
         r.to \subseteq Addrs, r.time \in 0..now, r.hash = NoHash,
         r.pid \in Msgs \cup {NoMsg},
         r.pid # NoMsg =>
             /\ msg[r.pid].state = "sent" /\ ~msg[r.pid].terminal
             /\ r.psha \in ParentHashes(r.pid),
         DOMAIN tx' = Txs, Exclusion', \A t \in Txs : Ordered(tx[t])'
  PROVE  Inv'
<1>1. msg'[m] = r /\ \A n \in Msgs \ {m} : msg'[n] = msg[n]
  BY DEF Inv, Shapes
<1>2. TypeOK'
  BY <1>1 DEF Inv, TypeOK, Ordered
<1>3. Shapes'
  BY <1>1 DEF Inv, Shapes
<1>4. Ages'
  BY <1>1 DEF Inv, Ages
<1>5. SealedMatchesRows'
  BY <1>1 DEF Inv, Ages, Results, SealedMatchesRows, MessageHash, BatchHash
<1>6. NoUnsealedUnit' /\ BatchFollowsMessage'
  BY <1>1 DEF Inv, Ages, Results, NoUnsealedUnit, BatchFollowsMessage
<1>7. ReplyNamesItsParent'
  BY <1>1 DEF Inv, Results, ReplyNamesItsParent, BatchesOf, ParentHashes
<1> QED
  BY <1>2, <1>3, <1>4, <1>5, <1>6, <1>7 DEF Inv, Results

\* A draft is made.
LEMMA CreateDraftKeepsInv ==
  ASSUME Inv, NEW t \in Txs, NEW m \in Msgs, NEW p \in Msgs \cup {NoMsg}, CreateDraft(t, m, p)
  PROVE  Inv'
<1>1. PICK to \in SUBSET Addrs, psha \in IF p = NoMsg THEN {NoHash} ELSE ParentHashes(p) :
          msg' = [msg EXCEPT ![m] = [AbsentMsg EXCEPT !.state = "draft", !.to = to,
                                                      !.pid = p, !.psha = psha]]
  BY DEF CreateDraft
<1> DEFINE r == [AbsentMsg EXCEPT !.state = "draft", !.to = to, !.pid = p, !.psha = psha]
<1>2. /\ DOMAIN r = DOMAIN AbsentMsg /\ r.state = "draft" /\ r.terminal = FALSE /\ r.to = to
      /\ r.time = 0 /\ r.hash = NoHash /\ r.pid = p /\ r.psha = psha
  BY DEF AbsentMsg
<1> HIDE DEF r
<1>3. begun' \in 0..MaxTxs /\ 0 \in 0..now
  BY FinalizationAssumption DEF CreateDraft, Begin, Inv, TypeOK
<1>4. \A v \in Txs : tx[v].pc # "idle" => tx[v].msg # m
  BY HasMessage DEF CreateDraft
<1>5. \A v \in Txs \ {t} :
          /\ tx[v].lock = "update" => tx[v].pc # "idle"
          /\ tx[v].pc # "idle" => msg'[tx[v].msg] = msg[tx[v].msg] /\ msg[tx[v].msg].state # "absent"
  BY <1>1, <1>4, HasMessage DEF Inv, Ordered, Shapes
<1>6. DOMAIN tx' = Txs /\ Exclusion' /\ \A v \in Txs : Ordered(tx[v])'
  BY <1>3, <1>5, OthersStay DEF CreateDraft, Begin
<1>7. p # NoMsg => msg[p].state = "sent" /\ ~msg[p].terminal /\ psha \in ParentHashes(p)
  BY DEF CreateDraft, MayReplyTo
<1> QED
  BY <1>1, <1>2, <1>3, <1>6, <1>7, DraftWritten DEF CreateDraft, r

\* Row r is row s of a draft with another terminal flag or other recipients.
SameDraft(r, s) ==
    /\ DOMAIN r = DOMAIN AbsentMsg /\ r.state = "draft"
    /\ r.terminal \in BOOLEAN /\ r.to \subseteq Addrs
    /\ r.time = s.time /\ r.hash = s.hash /\ r.pid = s.pid /\ r.psha = s.psha

\* A draft is edited, in a column or in its recipients, by the one transaction t that may.
LEMMA DraftEdited ==
  ASSUME Inv, NEW t \in Txs, NEW m \in Msgs, msg[m].state = "draft",
         UNCHANGED <<now, batch>>, begun' \in 0..MaxTxs,
         \/ Becomes(t, Idle)
         \/ UNCHANGED tx /\ tx[t].pc = "idle",
         CanShare(t, m),
         NEW r, msg' = [msg EXCEPT ![m] = r], SameDraft(r, msg[m])
  PROVE  Inv'
<1>1. /\ DOMAIN r = DOMAIN AbsentMsg /\ r.state = "draft" /\ r.terminal \in BOOLEAN
      /\ r.to \in SUBSET Addrs /\ r.time = msg[m].time /\ r.hash = msg[m].hash
      /\ r.pid = msg[m].pid /\ r.psha = msg[m].psha
  BY DEF SameDraft
<1>2. msg'[m] = r /\ \A n \in Msgs \ {m} : msg'[n] = msg[n]
  BY DEF Inv, Shapes
<1>3. \A v \in Txs \ {t} :
          /\ tx[v].lock = "update" => msg'[tx[v].msg] = msg[tx[v].msg]
          /\ tx[v].pc # "idle" => msg'[tx[v].msg].state # "absent"
  <2>1. ASSUME NEW v \in Txs \ {t}, tx[v].pc # "idle"
        PROVE  tx[v].msg \in Msgs /\ msg[tx[v].msg].state # "absent"
    BY <2>1, HasMessage
  <2>2. \A v \in Txs : tx[v].lock = "update" => tx[v].pc # "idle"
    BY DEF Inv, Ordered
  <2> QED
    BY <1>1, <1>2, <2>1, <2>2 DEF CanShare
<1>4. DOMAIN tx' = Txs /\ Exclusion' /\ \A v \in Txs : Ordered(tx[v])'
  BY <1>3, OthersStay
<1>5. msg[m].time \in 0..now /\ msg[m].hash = NoHash /\ msg[m].pid \in Msgs \cup {NoMsg}
  BY DEF Inv, Ages, TypeOK
<1>6. msg[m].pid # NoMsg =>
          /\ msg[msg[m].pid].state = "sent" /\ ~msg[msg[m].pid].terminal
          /\ msg[m].psha \in ParentHashes(msg[m].pid)
  BY <1>5, BatchesOfSent DEF Inv, Results, ReplyNamesItsParent, ParentHashes, BatchesOf
<1> QED
  BY <1>1, <1>4, <1>5, <1>6, DraftWritten

\* The edits of a draft.
LEMMA UpdateColumnKeepsInv ==
  ASSUME Inv, NEW t \in Txs, NEW m \in Msgs, UpdateColumn(t, m)
  PROVE  Inv'
<1> DEFINE r == [msg[m] EXCEPT !.terminal = ~@]
<1>1. begun' \in 0..MaxTxs /\ tx[t].pc = "idle"
  BY FinalizationAssumption DEF UpdateColumn, Begin, Inv, TypeOK
<1>2. msg' = [msg EXCEPT ![m] = r]
  BY DEF UpdateColumn
<1>3. SameDraft(r, msg[m])
  BY DEF UpdateColumn, SameDraft, AbsentMsg, Inv, Shapes, TypeOK
<1> HIDE DEF r
<1> QED
  BY <1>1, <1>2, <1>3, DraftEdited DEF UpdateColumn

LEMMA ProtectMsgPartsKeepsInv ==
  ASSUME Inv, NEW t \in Txs, ProtectMsgParts(t)
  PROVE  Inv'
<1> DEFINE m == tx[t].msg
           r == [msg[m] EXCEPT !.to = Edited(t, @)]
<1>1. m \in Msgs /\ Editing(tx[t])
  BY DEF ProtectMsgParts, Inv, Ordered, Editing
<1>2. begun' \in 0..MaxTxs /\ Becomes(t, Idle) /\ CanShare(t, m)
  BY DEF ProtectMsgParts, Inv, TypeOK, CanUpdate, CanShare
<1>3. msg' = [msg EXCEPT ![m] = r]
  BY DEF ProtectMsgParts
<1>4. SameDraft(r, msg[m])
  BY <1>1 DEF ProtectMsgParts, SameDraft, AbsentMsg, Inv, Shapes, TypeOK, Edited, Editing
<1> HIDE DEF r
<1> QED
  BY <1>1, <1>2, <1>3, <1>4, DraftEdited DEF ProtectMsgParts

\* A batch that was not sealed is written, open or sealed, with what it belongs to.
LEMMA BatchWritten ==
  ASSUME Inv, NEW b \in Batches, batch[b].state # "sealed", UNCHANGED <<now, msg>>,
         begun' \in 0..MaxTxs,
         NEW r, DOMAIN batch' = Batches, batch'[b] = r,
         \A c \in Batches \ {b} : batch'[c] = batch[c],
         DOMAIN r = DOMAIN AbsentBatch, r.msg \in Msgs, r.to \subseteq Addrs, r.time \in 0..now,
         \/ r.state = "open" /\ msg[r.msg].state = "draft" /\ r.hash = NoHash
         \/ msg[r.msg].state = "sent" /\ SealedFor(r, r.msg, msg[r.msg]),
         DOMAIN tx' = Txs, Exclusion', \A t \in Txs : Ordered(tx[t])'
  PROVE  Inv'
<1>1. r.hash # NoHash <=> r.state = "sealed"
  BY FinalizationAssumption DEF SealedFor, BatchHash, NoHash
<1>2. r.state \in {"open", "sealed"}
  BY DEF SealedFor
<1>3. TypeOK'
  BY <1>1, <1>2 DEF Inv, TypeOK, Ordered
<1>4. Shapes'
  BY <1>2 DEF Inv, Shapes
<1>5. Ages'
  BY <1>2 DEF Inv, Ages
<1>6. SealedMatchesRows'
  BY DEF Inv, Ages, Results, SealedMatchesRows, MessageHash, BatchHash, SealedFor
<1>7. NoUnsealedUnit' /\ BatchFollowsMessage'
  BY DEF Inv, Results, NoUnsealedUnit, BatchFollowsMessage, SealedFor
<1>8. ReplyNamesItsParent'
  <2> SUFFICES ASSUME NEW m \in Msgs, msg[m].pid # NoMsg,
                      NEW c \in BatchesOf(msg[m].pid), msg[m].psha = batch[c].hash
               PROVE  c \in BatchesOf(msg[m].pid)' /\ msg[m].psha = batch'[c].hash
    BY DEF Inv, Results, ReplyNamesItsParent
  <2>1. msg[m].pid \in Msgs /\ msg[msg[m].pid].state = "sent"
    BY DEF Inv, Results, ReplyNamesItsParent, TypeOK
  <2>2. c \in Batches /\ c # b
    BY <2>1, BatchesOfSent DEF BatchesOf
  <2> QED
    BY <2>2 DEF BatchesOf
<1> QED
  BY <1>3, <1>4, <1>5, <1>6, <1>7, <1>8 DEF Inv, Results

\* A batch recipient is added or taken away.
LEMMA ProtectBatchPartsKeepsInv ==
  ASSUME Inv, NEW t \in Txs, ProtectBatchParts(t)
  PROVE  Inv'
<1>1. PICK b \in Batches : /\ b \in tx[t].todo /\ CanLockBatch(t, b) /\ batch[b].state = "open"
                           /\ batch' = [batch EXCEPT ![b].to = Edited(t, @)]
  BY DEF ProtectBatchParts, Inv, TypeOK
<1> DEFINE r == [batch[b] EXCEPT !.to = Edited(t, @)]
<1>2. /\ DOMAIN batch' = Batches /\ batch'[b] = r
      /\ \A c \in Batches \ {b} : batch'[c] = batch[c]
  BY <1>1 DEF Inv, Shapes
<1>3. tx[t].addr \subseteq Addrs
  BY DEF ProtectBatchParts, Inv, Ordered, Editing
<1>4. /\ DOMAIN r = DOMAIN AbsentBatch /\ r.msg = batch[b].msg /\ r.to \subseteq Addrs
      /\ r.time = batch[b].time /\ r.state = "open" /\ r.hash = batch[b].hash
  BY <1>1, <1>3 DEF Inv, Shapes, AbsentBatch, TypeOK, Edited
<1> HIDE DEF r
<1>5. /\ batch[b].msg \in Msgs /\ msg[batch[b].msg].state = "draft" /\ batch[b].hash = NoHash
      /\ batch[b].time \in 0..now
  BY <1>1 DEF Inv, TypeOK, Results, NoUnsealedUnit, Ages
<1>6. \A v \in Txs \ {t} : b \notin DOMAIN tx[v].wrote
  BY <1>1 DEF CanLockBatch
<1>7. \A v \in Txs : DOMAIN tx[v].wrote \subseteq Batches /\ tx[v].todo \subseteq Batches
  BY DEF Inv, TypeOK
<1>8. begun' \in 0..MaxTxs /\ UNCHANGED <<now, msg>> /\ Becomes(t, Idle)
  BY DEF ProtectBatchParts, Inv, TypeOK
<1>9. DOMAIN tx' = Txs /\ Exclusion' /\ \A v \in Txs : Ordered(tx[v])'
  <2>1. \A v \in Txs : tx[v].pc # "idle" => msg[tx[v].msg].state # "absent"
    BY HasMessage
  <2> QED
    BY <1>1, <1>2, <1>4, <1>6, <1>7, <1>8, <2>1, OthersStay
<1> QED
  BY <1>1, <1>2, <1>4, <1>5, <1>8, <1>9, BatchWritten

\* A new batch is committed.
LEMMA CommitBatchKeepsInv ==
  ASSUME Inv, NEW t \in Txs, CommitBatch(t)
  PROVE  Inv'
<1> DEFINE m == tx[t].msg
<1>1. Adding(tx[t])
  BY DEF CommitBatch, Inv, Ordered
<1>2. PICK b \in Batches : /\ DOMAIN tx[t].wrote = {b} /\ batch[b].state = "absent"
                           /\ \/ Waiting(tx[t].wrote[b], m)
                              \/ msg[m].state = "sent" /\ SealedFor(tx[t].wrote[b], m, msg[m])
  BY <1>1 DEF Adding
<1> DEFINE r == tx[t].wrote[b]
<1>3. /\ DOMAIN batch' = Batches /\ batch'[b] = r
      /\ \A c \in Batches \ {b} : batch'[c] = batch[c]
  BY <1>2 DEF CommitBatch
<1>4. /\ m \in Msgs /\ msg[m].state # "absent" /\ now \in Nat
      /\ msg[m].state = "sent" => r.state = "sealed"
  BY <1>1, <1>2 DEF CommitBatch, Adding, Inv, TypeOK
<1>5. /\ DOMAIN r = DOMAIN AbsentBatch /\ r.msg = m /\ r.to \subseteq Addrs /\ r.time \in 0..now
      /\ \/ r.state = "open" /\ msg[m].state = "draft" /\ r.hash = NoHash
         \/ msg[m].state = "sent" /\ SealedFor(r, m, msg[m])
  BY <1>2, <1>4 DEF Waiting, SealedFor, Inv, TypeOK
<1>6. begun' \in 0..MaxTxs /\ UNCHANGED <<now, msg>> /\ Becomes(t, Idle)
  BY DEF CommitBatch, Inv, TypeOK
<1>7. DOMAIN tx' = Txs /\ Exclusion' /\ \A v \in Txs : Ordered(tx[v])'
  <2>1. \A v \in Txs : tx[v].pc # "idle" => msg[tx[v].msg].state # "absent"
    BY HasMessage
  <2>2. \A v \in Txs \ {t} : b \notin DOMAIN tx[v].wrote
    BY <1>2 DEF Inv, Exclusion, Apart
  <2>3. \A v \in Txs : tx[v].lock = "update" => b \notin tx[v].todo
    BY <1>2, UpdateHolders
  <2> QED
    BY <1>2, <1>3, <1>6, <2>1, <2>2, <2>3, OthersStay DEF Inv, TypeOK
<1> HIDE DEF r
<1> QED
  BY <1>2, <1>3, <1>4, <1>5, <1>6, <1>7, BatchWritten

\* A message and its batches are committed.
LEMMA CommitMessageKeepsInv ==
  ASSUME Inv, NEW t \in Txs, CommitMessage(t)
  PROVE  Inv'
<1> DEFINE m == tx[t].msg
           w == tx[t].wrote
           h == tx[t].row.hash
<1>1. /\ m \in Msgs /\ tx[t].lock = "update" /\ msg[m].state = "draft"
      /\ DOMAIN w \subseteq Batches
      /\ tx[t].row = Stamped(m, msg[m])
      /\ \A b \in DOMAIN w : /\ batch[b].state = "open" /\ batch[b].msg = m
                             /\ SealedFor(w[b], m, tx[t].row)
  BY DEF CommitMessage, Inv, Ordered, Finalizing
<1>2. tx[t].row.time = now /\ h = MessageHash(m, msg[m], now) /\ tx[t].row.psha = msg[m].psha
  BY <1>1 DEF Stamped, Inv, Shapes, AbsentMsg
<1>3. /\ DOMAIN msg' = Msgs
      /\ \A n \in Msgs \ {m} : msg'[n] = msg[n]
      /\ DOMAIN msg'[m] = DOMAIN AbsentMsg
      /\ msg'[m].state = "sent" /\ msg'[m].time = now /\ msg'[m].hash = h
      /\ msg'[m].psha = msg[m].psha /\ msg'[m].pid = msg[m].pid
      /\ msg'[m].to = msg[m].to /\ msg'[m].terminal = msg[m].terminal
  BY <1>1, <1>2 DEF CommitMessage, Inv, Shapes, AbsentMsg
<1>4. /\ DOMAIN batch' = Batches
      /\ \A b \in DOMAIN w : batch'[b] = w[b]
      /\ \A b \in Batches \ DOMAIN w : batch'[b] = batch[b]
  BY <1>1 DEF CommitMessage
<1>5. \A b \in BatchesOf(m) : b \in DOMAIN w
  BY <1>1 DEF CommitMessage, Inv, Ages, BatchesOf
<1>6. \A b \in DOMAIN w : /\ DOMAIN w[b] = DOMAIN AbsentBatch /\ w[b].state = "sealed"
                          /\ w[b].msg = m /\ w[b].to \subseteq Addrs
                          /\ w[b].hash = BatchHash(m, h, w[b].to, w[b].time)
                          /\ now <= w[b].time /\ w[b].time \in 0..now
  BY <1>1, <1>2 DEF SealedFor
<1>7. h # NoHash /\ \A b \in DOMAIN w : w[b].hash # NoHash
  <2>1. NoHash.payload # m
    BY <1>1, FinalizationAssumption DEF NoHash
  <2>2. h.payload = m
    BY <1>2 DEF MessageHash
  <2>3. \A b \in DOMAIN w : w[b].hash.payload = m
    <3> SUFFICES ASSUME NEW b \in DOMAIN w
                 PROVE  w[b].hash.payload = m
      OBVIOUS
    <3>1. w[b].hash = BatchHash(m, h, w[b].to, w[b].time)
      BY <1>6
    <3>2. \A g, a, i : BatchHash(m, g, a, i).payload = m
      BY DEF BatchHash
    <3> QED
      BY <3>1, <3>2
  <2> QED
    BY <2>1, <2>2, <2>3
<1>8. \A b \in Batches \ DOMAIN w : batch[b].state # "absent" => batch[b].msg \in Msgs \ {m}
  BY <1>5 DEF Inv, TypeOK, BatchesOf
<1>9. begun' \in 0..MaxTxs /\ now' = now /\ now \in 0..MaxTime /\ MaxTime \in Nat /\ Becomes(t, Idle)
  BY FinalizationAssumption DEF CommitMessage, Inv, TypeOK
<1> HIDE DEF w, h
<1>10. DOMAIN tx' = Txs /\ Exclusion' /\ \A v \in Txs : Ordered(tx[v])'
  <2>1. \A v \in Txs \ {t} :
            /\ tx[v].lock = "update" => tx[v].msg # m /\ tx[v].pc # "idle"
            /\ tx[v].pc # "idle" => tx[v].msg \in Msgs /\ msg[tx[v].msg].state # "absent"
            /\ DOMAIN tx[v].wrote \subseteq Batches
            /\ \A b \in Batches : b \in DOMAIN tx[v].wrote => b \notin DOMAIN w
            /\ tx[v].todo \subseteq Batches
    BY <1>1, UpdateHolders, HasMessage DEF Inv, Exclusion, Apart, TypeOK, w
  <2>2. \A v \in Txs \ {t} : tx[v].lock = "update" => \A b \in tx[v].todo : b \notin DOMAIN w
    BY <1>1, <2>1, UpdateHolders DEF w
  <2>3. \A v \in Txs \ {t} :
             /\ tx[v].lock = "update" => msg'[tx[v].msg] = msg[tx[v].msg]
             /\ tx[v].pc # "idle" => msg'[tx[v].msg].state # "absent"
             /\ \A b \in DOMAIN tx[v].wrote : batch'[b] = batch[b]
             /\ tx[v].lock = "update" => \A b \in tx[v].todo : batch'[b] = batch[b]
    BY <1>3, <1>4, <2>1, <2>2
  <2> QED
    BY <1>9, <2>3, OthersStay
<1>11. TypeOK'
  <2>1. \A n \in Msgs :
          /\ msg'[n].state \in {"absent", "draft", "sent"}
          /\ msg'[n].terminal \in BOOLEAN
          /\ msg'[n].to \subseteq Addrs
          /\ msg'[n].pid \in Msgs \cup {NoMsg}
          /\ msg'[n].hash # NoHash <=> msg'[n].state = "sent"
    BY <1>1, <1>3, <1>7 DEF Inv, TypeOK
  <2>2. \A b \in Batches :
          /\ batch'[b].state \in {"absent", "open", "sealed"}
          /\ batch'[b].msg \in Msgs <=> batch'[b].state # "absent"
          /\ batch'[b].to \subseteq Addrs
          /\ batch'[b].hash # NoHash <=> batch'[b].state = "sealed"
    BY <1>1, <1>4, <1>6, <1>7 DEF Inv, TypeOK
  <2> QED
    BY <1>9, <1>10, <2>1, <2>2 DEF TypeOK, Ordered
<1>12. Shapes'
  BY <1>3, <1>4, <1>6, <1>10 DEF Inv, Shapes
<1>13. Ages'
  <2>1. \A n \in Msgs : msg'[n].time \in 0..now
    BY <1>3, <1>9 DEF Inv, Ages
  <2>2. \A b \in Batches : batch'[b].time \in 0..now
    BY <1>4, <1>6 DEF Inv, Ages
  <2>3. \A b \in Batches : batch'[b].state = "sealed" => msg'[batch'[b].msg].state = "sent"
    BY <1>1, <1>3, <1>4, <1>6, <1>8 DEF Inv, Ages
  <2> QED
    BY <1>9, <2>1, <2>2, <2>3 DEF Ages
<1>14. SealedMatchesRows'
  <2>1. MessageHash(m, msg'[m], now) = h
    BY <1>2, <1>3 DEF MessageHash, h
  <2>2. \A n \in Msgs : msg'[n].state = "sent" => msg'[n].hash = MessageHash(n, msg'[n], msg'[n].time)
    BY <1>3, <2>1 DEF Inv, Results, SealedMatchesRows
  <2>3. \A b \in Batches : batch'[b].state = "sealed" =>
           batch'[b].hash = BatchHash(batch'[b].msg, msg'[batch'[b].msg].hash, batch'[b].to,
                                      batch'[b].time)
    BY <1>3, <1>4, <1>6, <1>8 DEF Inv, Results, SealedMatchesRows
  <2> QED
    BY <2>2, <2>3 DEF SealedMatchesRows, MessageHash, BatchHash
<1>15. NoUnsealedUnit' /\ BatchFollowsMessage'
  BY <1>1, <1>3, <1>4, <1>6, <1>8, <1>9 DEF Inv, Results, NoUnsealedUnit, BatchFollowsMessage
<1>16. ReplyNamesItsParent'
  <2> SUFFICES ASSUME NEW n \in Msgs, msg[n].pid # NoMsg
               PROVE  /\ msg'[msg[n].pid].state = "sent" /\ ~msg'[msg[n].pid].terminal
                      /\ \/ msg[n].psha = msg'[msg[n].pid].hash
                         \/ \E b \in Batches : batch'[b].msg = msg[n].pid /\ msg[n].psha = batch'[b].hash
    BY <1>3 DEF ReplyNamesItsParent, BatchesOf
  <2> DEFINE p == msg[n].pid
  <2>1. /\ p \in Msgs /\ msg[p].state = "sent" /\ ~msg[p].terminal
        /\ \/ msg[n].psha = msg[p].hash
           \/ \E b \in BatchesOf(p) : msg[n].psha = batch[b].hash
    BY DEF Inv, Results, ReplyNamesItsParent, TypeOK
  <2>2. \A b \in BatchesOf(p) : b \in Batches \ DOMAIN w /\ batch[b].msg = p
    BY <1>1, <2>1 DEF BatchesOf, w
  <2> QED
    BY <1>1, <1>3, <1>4, <2>1, <2>2
<1> QED
  BY <1>10, <1>11, <1>12, <1>13, <1>14, <1>15, <1>16 DEF Inv, Results

\* A message is purged with its batches; replies lose their link.
LEMMA PurgeKeepsInv ==
  ASSUME Inv, NEW t \in Txs, NEW m \in Msgs, Purge(t, m)
  PROVE  Inv'
<1>1. begun' \in 0..MaxTxs /\ now' = now /\ now \in 0..MaxTime /\ MaxTime \in Nat
      /\ UNCHANGED tx /\ tx[t].pc = "idle"
  BY FinalizationAssumption DEF Purge, Begin, Inv, TypeOK
<1>2. /\ DOMAIN msg' = Msgs /\ msg'[m] = AbsentMsg
      /\ \A c \in Msgs \ {m} :
             /\ msg[c].pid # m => msg'[c] = msg[c]
             /\ msg[c].pid = m => msg'[c] = [msg[c] EXCEPT !.pid = NoMsg]
  BY DEF Purge
<1>3. \A c \in Msgs \ {m} :
          /\ DOMAIN msg'[c] = DOMAIN AbsentMsg
          /\ msg'[c].state = msg[c].state /\ msg'[c].time = msg[c].time /\ msg'[c].hash = msg[c].hash
          /\ msg'[c].psha = msg[c].psha /\ msg'[c].to = msg[c].to
          /\ msg'[c].terminal = msg[c].terminal
          /\ msg'[c].pid = IF msg[c].pid = m THEN NoMsg ELSE msg[c].pid
  BY <1>2 DEF Inv, Shapes, AbsentMsg
<1>4. /\ DOMAIN batch' = Batches
      /\ \A b \in Batches : batch'[b] = IF batch[b].msg = m THEN AbsentBatch ELSE batch[b]
  BY DEF Purge
<1>5. \A v \in Txs : tx[v].msg # m
  BY DEF Purge
<1>6. \A v \in Txs \ {t} :
          /\ tx[v].lock = "update" => msg'[tx[v].msg] = msg[tx[v].msg]
          /\ tx[v].pc # "idle" => msg'[tx[v].msg].state # "absent"
          /\ \A b \in DOMAIN tx[v].wrote : batch'[b] = batch[b]
          /\ tx[v].lock = "update" =>
                 \A b \in tx[v].todo : batch'[b].state = batch[b].state /\ batch'[b].msg = batch[b].msg
  <2> SUFFICES ASSUME NEW v \in Txs \ {t}, tx[v].pc # "idle"
               PROVE  /\ tx[v].lock = "update" => msg'[tx[v].msg] = msg[tx[v].msg]
                      /\ msg'[tx[v].msg].state # "absent"
                      /\ \A b \in DOMAIN tx[v].wrote : batch'[b] = batch[b]
                      /\ tx[v].lock = "update" => \A b \in tx[v].todo : batch'[b] = batch[b]
    BY DEF Inv, Ordered
  <2> DEFINE n == tx[v].msg
  <2>1. n \in Msgs \ {m} /\ msg[n].state # "absent"
    BY <1>5, HasMessage
  <2>2. tx[v].lock = "update" => msg[n].pid # m
    BY <2>1 DEF Purge, CanShare
  <2>3. DOMAIN tx[v].wrote \subseteq Batches /\ tx[v].todo \subseteq Batches
    BY DEF Inv, TypeOK
  <2>4. \A b \in DOMAIN tx[v].wrote : batch[b].msg # m
    <3>1. CASE tx[v].pc \in {"loaded", "sealing"}
      BY <2>1, <3>1 DEF Inv, Ordered, Finalizing
    <3>2. CASE tx[v].pc \in {"added", "finalized"}
      BY <2>1, <3>2 DEF Inv, Ordered, Adding, TypeOK
    <3>3. CASE tx[v].pc \in {"insert", "delete", "insertBatch", "deleteBatch"}
      BY <3>3 DEF Inv, Ordered, Editing
    <3> QED
      BY <3>1, <3>2, <3>3 DEF Inv, Ordered, Pcs
  <2>5. tx[v].lock = "update" => \A b \in tx[v].todo : batch[b].msg # m
    BY <2>1, UpdateHolders
  <2> QED
    BY <1>2, <1>3, <1>4, <2>1, <2>2, <2>3, <2>4, <2>5
<1>7. DOMAIN tx' = Txs /\ Exclusion' /\ \A v \in Txs : Ordered(tx[v])'
  BY <1>1, <1>6, OthersStay
<1>8. TypeOK'
  <2>1. ASSUME NEW n \in Msgs
        PROVE
          /\ msg'[n].state \in {"absent", "draft", "sent"}
          /\ msg'[n].terminal \in BOOLEAN
          /\ msg'[n].to \subseteq Addrs
          /\ msg'[n].pid \in Msgs \cup {NoMsg}
          /\ msg'[n].hash # NoHash <=> msg'[n].state = "sent"
    <3>1. CASE n = m
      <4>1. /\ msg'[n].state = "absent" /\ msg'[n].terminal = FALSE /\ msg'[n].to = {}
            /\ msg'[n].pid = NoMsg /\ msg'[n].hash = NoHash
        BY <1>2, <3>1 DEF AbsentMsg
      <4> QED
        BY <4>1
    <3>2. CASE n # m
      BY <1>3, <3>2 DEF Inv, TypeOK
    <3> QED
      BY <3>1, <3>2
  <2>2. \A b \in Batches :
          /\ batch'[b].state \in {"absent", "open", "sealed"}
          /\ batch'[b].msg \in Msgs <=> batch'[b].state # "absent"
          /\ batch'[b].to \subseteq Addrs
          /\ batch'[b].hash # NoHash <=> batch'[b].state = "sealed"
    BY <1>4, FinalizationAssumption DEF Inv, TypeOK, AbsentBatch
  <2> QED
    BY <1>1, <1>7, <2>1, <2>2 DEF TypeOK, Ordered
<1>9. Shapes'
  BY <1>2, <1>3, <1>4, <1>7 DEF Inv, Shapes, AbsentMsg, AbsentBatch
<1>10. Ages'
  <2>1. \A n \in Msgs : msg'[n].time \in 0..now
    BY <1>1, <1>2, <1>3 DEF Inv, Ages, AbsentMsg
  <2>2. \A b \in Batches : batch'[b].time \in 0..now
    BY <1>1, <1>4 DEF Inv, Ages, AbsentBatch
  <2>3. \A b \in Batches : batch'[b].state = "sealed" => msg'[batch'[b].msg].state = "sent"
    BY <1>3, <1>4 DEF Inv, Ages, TypeOK, AbsentBatch
  <2> QED
    BY <1>1, <2>1, <2>2, <2>3 DEF Ages
<1>11. SealedMatchesRows'
  <2>1. \A n \in Msgs : msg'[n].state = "sent" => msg'[n].hash = MessageHash(n, msg'[n], msg'[n].time)
    BY <1>2, <1>3 DEF Inv, Results, SealedMatchesRows, MessageHash, AbsentMsg
  <2>2. \A b \in Batches : batch'[b].state = "sealed" =>
           batch'[b].hash = BatchHash(batch'[b].msg, msg'[batch'[b].msg].hash, batch'[b].to,
                                      batch'[b].time)
    <3> SUFFICES ASSUME NEW b \in Batches, batch'[b].state = "sealed"
                 PROVE  batch'[b].hash = BatchHash(batch'[b].msg, msg'[batch'[b].msg].hash,
                                                   batch'[b].to, batch'[b].time)
      OBVIOUS
    <3>1. batch'[b] = batch[b] /\ batch[b].msg \in Msgs \ {m}
      BY <1>4 DEF Inv, TypeOK, AbsentBatch
    <3> QED
      BY <1>3, <3>1 DEF Inv, Results, SealedMatchesRows
  <2> QED
    BY <2>1, <2>2 DEF SealedMatchesRows, MessageHash, BatchHash
<1>12. NoUnsealedUnit' /\ BatchFollowsMessage'
  BY <1>3, <1>4 DEF Inv, Results, NoUnsealedUnit, BatchFollowsMessage, TypeOK, AbsentBatch
<1>13. ReplyNamesItsParent'
  <2> SUFFICES ASSUME NEW n \in Msgs, msg'[n].pid # NoMsg
               PROVE  /\ msg'[msg'[n].pid].state = "sent" /\ ~msg'[msg'[n].pid].terminal
                      /\ \/ msg'[n].psha = msg'[msg'[n].pid].hash
                         \/ \E b \in Batches : batch'[b].msg = msg'[n].pid /\ msg'[n].psha = batch'[b].hash
    BY DEF ReplyNamesItsParent, BatchesOf
  <2> DEFINE p == msg[n].pid
  <2>1. n # m /\ msg'[n].pid = p /\ p # m /\ p # NoMsg /\ msg'[n].psha = msg[n].psha
    BY <1>2, <1>3 DEF AbsentMsg
  <2>2. /\ p \in Msgs /\ msg[p].state = "sent" /\ ~msg[p].terminal
        /\ \/ msg[n].psha = msg[p].hash
           \/ \E b \in Batches : batch[b].msg = p /\ msg[n].psha = batch[b].hash
    BY <2>1 DEF Inv, Results, ReplyNamesItsParent, TypeOK, BatchesOf
  <2> QED
    BY <1>3, <1>4, <2>1, <2>2
<1> QED
  BY <1>7, <1>8, <1>9, <1>10, <1>11, <1>12, <1>13 DEF Inv, Results

\* The clock moves while nobody is in a transaction.
LEMMA TickKeepsInv ==
  ASSUME Inv, Tick
  PROVE  Inv'
<1>1. now \in Nat /\ now' = now + 1 /\ now' \in 0..MaxTime /\ UNCHANGED <<msg, batch, tx, begun>>
  BY FinalizationAssumption DEF Tick, Inv, TypeOK
<1>2. \A t \in Txs : tx[t] = Idle
  BY DEF Tick
<1>3. \A t \in Txs : Ordered(tx[t])'
  BY <1>1, <1>2 DEF Ordered, Idle, Pcs
<1>4. TypeOK' /\ Shapes' /\ Exclusion'
  BY <1>1 DEF Inv, TypeOK, Shapes, Exclusion, Apart
<1>5. Ages'
  BY <1>1 DEF Inv, Ages
<1>6. Results'
  BY <1>1 DEF Inv, Results, SealedMatchesRows, NoUnsealedUnit, BatchFollowsMessage,
              ReplyNamesItsParent, BatchesOf, MessageHash, BatchHash
<1> QED
  BY <1>3, <1>4, <1>5, <1>6 DEF Inv

----------------------------------------------------------------------------
(***************************************************************************)
(* The theorems.                                                           *)
(***************************************************************************)
\* An empty database satisfies the invariant.
LEMMA InitInv ==
  ASSUME Init
  PROVE  Inv
<1>1. /\ DOMAIN msg = Msgs /\ DOMAIN batch = Batches /\ DOMAIN tx = Txs
      /\ \A m \in Msgs : msg[m] = AbsentMsg
      /\ \A b \in Batches : batch[b] = AbsentBatch
      /\ \A t \in Txs : tx[t] = Idle
      /\ now = 0 /\ begun = 0
  BY DEF Init
<1>2. \A t \in Txs : Ordered(tx[t])
  BY <1>1 DEF Ordered, Idle, Pcs
<1>3. TypeOK
  <2>1. now \in 0..MaxTime /\ begun \in 0..MaxTxs
    BY <1>1, FinalizationAssumption
  <2>2. \A m \in Msgs : /\ msg[m].state = "absent" /\ msg[m].terminal = FALSE /\ msg[m].to = {}
                        /\ msg[m].pid = NoMsg /\ msg[m].hash = NoHash
    BY <1>1 DEF AbsentMsg
  <2>3. \A b \in Batches : /\ batch[b].state = "absent" /\ batch[b].msg = NoMsg
                           /\ batch[b].to = {} /\ batch[b].hash = NoHash
    BY <1>1 DEF AbsentBatch
  <2> QED
    BY <1>2, <2>1, <2>2, <2>3, FinalizationAssumption DEF TypeOK, Ordered
<1>4. Shapes
  BY <1>1 DEF Shapes, AbsentMsg, AbsentBatch
<1>5. Ages
  BY <1>1 DEF Ages, AbsentMsg, AbsentBatch
<1>6. Results
  BY <1>1 DEF Results, SealedMatchesRows, NoUnsealedUnit, BatchFollowsMessage,
              ReplyNamesItsParent, AbsentMsg, AbsentBatch
<1>7. Exclusion
  BY <1>1 DEF Exclusion, Apart, Idle
<1> QED
  BY <1>2, <1>3, <1>4, <1>5, <1>6, <1>7 DEF Inv

\* Every statement keeps the invariant.
LEMMA StatementKeepsInv ==
  ASSUME Inv, NEW t \in Txs, Statement(t)
  PROVE  Inv'
<1>1. CASE \E m \in Msgs, p \in Msgs \cup {NoMsg} : CreateDraft(t, m, p)
  BY <1>1, CreateDraftKeepsInv
<1>2. CASE \E m \in Msgs : UpdateColumn(t, m)
  BY <1>2, UpdateColumnKeepsInv
<1>3. CASE \/ \E m \in Msgs, a \in Addrs : InsertRecipient(t, m, a) \/ DeleteRecipient(t, m, a)
           \/ \E b \in Batches, a \in Addrs :
                 InsertBatchRecipient(t, b, a) \/ DeleteBatchRecipient(t, b, a)
  BY <1>3, EditKeepsInv
<1>4. CASE \E m \in Msgs, b \in Batches : AddBatch(t, m, b)
  BY <1>4, AddBatchKeepsInv
<1>5. CASE \E m \in Msgs : Load(t, m)
  BY <1>5, LoadKeepsInv
<1>6. CASE \E m \in Msgs : Purge(t, m)
  BY <1>6, PurgeKeepsInv
<1>7. CASE \E b \in Batches : SealBatch(t, b)
  BY <1>7, SealBatchKeepsInv
<1>8. CASE ProtectMsgParts(t) \/ ProtectBatchParts(t)
  BY <1>8, ProtectMsgPartsKeepsInv, ProtectBatchPartsKeepsInv
<1>9. CASE FinalizeBatch(t) \/ CommitBatch(t)
  BY <1>9, FinalizeBatchKeepsInv, CommitBatchKeepsInv
<1>10. CASE Stamp(t) \/ CommitMessage(t)
  BY <1>10, StampKeepsInv, CommitMessageKeepsInv
<1> QED
  BY <1>1, <1>2, <1>3, <1>4, <1>5, <1>6, <1>7, <1>8, <1>9, <1>10 DEF Statement

\* Nothing changes.
LEMMA StutterKeepsInv ==
  ASSUME Inv, UNCHANGED vars
  PROVE  Inv'
<1>1. now' = now /\ msg' = msg /\ batch' = batch /\ tx' = tx /\ begun' = begun
  BY DEF vars
<1>2. TypeOK' /\ Shapes' /\ Ages' /\ Exclusion'
  BY <1>1 DEF Inv, TypeOK, Shapes, Ages, Exclusion, Apart
<1>3. Results'
  BY <1>1 DEF Inv, Results, SealedMatchesRows, NoUnsealedUnit, BatchFollowsMessage,
              ReplyNamesItsParent, BatchesOf
<1>4. ASSUME NEW t \in Txs
      PROVE  Ordered(tx[t])'
  <2>1. Finalizing(tx[t]) => Finalizing(tx[t])'
    BY <1>1 DEF Finalizing, SealedFor, Stamped
  <2>2. Adding(tx[t]) => Adding(tx[t])'
    BY <1>1 DEF Adding, SealedFor, Waiting
  <2>3. Editing(tx[t]) => Editing(tx[t])'
    BY <1>1 DEF Editing
  <2> QED
    BY <1>1, <2>1, <2>2, <2>3 DEF Inv, Ordered
<1> QED
  BY <1>2, <1>3, <1>4 DEF Inv

\* What is read under the row's lock stays as it was read, in every behaviour of any
\* number of transactions.
THEOREM Invariance == Spec => []Inv
<1>1. Init => Inv
  BY InitInv
<1>2. Inv /\ [Next]_vars => Inv'
  BY StatementKeepsInv, RollbackKeepsInv, TickKeepsInv, StutterKeepsInv DEF Next
<1> QED
  BY <1>1, <1>2, PTL DEF Spec

\* The rows and transactions are always well formed.
THEOREM TypeCorrect == Spec => []TypeOK
<1>1. Inv => TypeOK
  BY DEF Inv
<1> QED
  BY <1>1, Invariance, PTL

\* Finalize and FinalizeBatch commit the hash of the rows that are in the database, for
\* whatever the other transactions try between the reading and the commit.
THEOREM IdentityMatchesRows == Spec => []SealedMatchesRows
<1>1. Inv => SealedMatchesRows
  BY DEF Inv, Results
<1> QED
  BY <1>1, Invariance, PTL

\* No batch of a sent message is left unsealed: the sender's queue holds only units with
\* a hash, however batches and the sending of their message interleave.
THEOREM EveryUnitSealed == Spec => []NoUnsealedUnit
<1>1. Inv => NoUnsealedUnit
  BY DEF Inv, Results
<1> QED
  BY <1>1, Invariance, PTL

\* A batch is never older than its message: Finalize lifts the time of those that waited.
THEOREM BatchTimeFollows == Spec => []BatchFollowsMessage
<1>1. Inv => BatchFollowsMessage
  BY DEF Inv, Results
<1> QED
  BY <1>1, Invariance, PTL

\* A reply's parent hash is that of the message it links to or of a batch of it, and the
\* parent is sent and not terminal, also after a purge.
THEOREM ParentOfReply == Spec => []ReplyNamesItsParent
<1>1. Inv => ReplyNamesItsParent
  BY DEF Inv, Results
<1> QED
  BY <1>1, Invariance, PTL

----------------------------------------------------------------------------
\* The part of SealedIsFinal a step must keep.
Final ==
    /\ \A m \in Msgs : msg[m].state = "sent" /\ msg'[m].state # "absent" =>
           msg'[m] \in {msg[m], [msg[m] EXCEPT !.pid = NoMsg]}
    /\ \A b \in Batches : batch[b].state = "sealed" /\ batch'[b].state # "absent" =>
           batch'[b] = batch[b]

\* Only drafts and open or absent batches are written to.
LEMMA StatementKeepsSealed ==
  ASSUME Inv, NEW t \in Txs, Statement(t)
  PROVE  Final
<1>1. DOMAIN msg = Msgs /\ DOMAIN batch = Batches
  BY DEF Inv, Shapes
<1>2. CASE UNCHANGED <<msg, batch>>
  BY <1>2 DEF Final
<1>3. ASSUME NEW m \in Msgs, NEW p \in Msgs \cup {NoMsg}, CreateDraft(t, m, p)
      PROVE  Final
  BY <1>1, <1>3 DEF CreateDraft, Final
<1>4. ASSUME NEW m \in Msgs, UpdateColumn(t, m)
      PROVE  Final
  BY <1>1, <1>4 DEF UpdateColumn, Final
<1>5. CASE ProtectMsgParts(t)
  BY <1>1, <1>5 DEF ProtectMsgParts, Final
<1>6. CASE ProtectBatchParts(t)
  BY <1>1, <1>6 DEF ProtectBatchParts, Final
<1>7. CASE CommitBatch(t)
  <2>1. \A b \in DOMAIN tx[t].wrote : batch[b].state = "absent"
    BY <1>7 DEF CommitBatch, Inv, Ordered, Adding
  <2> QED
    BY <1>1, <1>7, <2>1 DEF CommitBatch, Final
<1>8. CASE CommitMessage(t)
  <2>1. /\ \A b \in DOMAIN tx[t].wrote : batch[b].state = "open"
        /\ tx[t].msg \in Msgs /\ msg[tx[t].msg].state = "draft"
    BY <1>8 DEF CommitMessage, Inv, Ordered, Finalizing
  <2> QED
    BY <1>1, <1>8, <2>1 DEF CommitMessage, Final
<1>9. ASSUME NEW m \in Msgs, Purge(t, m)
      PROVE  Final
  <2>1. \A n \in Msgs : msg'[n].state # "absent" =>
            msg'[n] \in {msg[n], [msg[n] EXCEPT !.pid = NoMsg]}
    BY <1>9 DEF Purge, AbsentMsg
  <2>2. \A b \in Batches : batch'[b].state # "absent" => batch'[b] = batch[b]
    BY <1>9 DEF Purge, AbsentBatch
  <2> QED
    BY <2>1, <2>2 DEF Final
<1>10. CASE \/ \E m \in Msgs, a \in Addrs : InsertRecipient(t, m, a) \/ DeleteRecipient(t, m, a)
            \/ \E m \in Msgs, b \in Batches : AddBatch(t, m, b)
            \/ \E m \in Msgs : Load(t, m)
            \/ \E b \in Batches, a \in Addrs :
                  InsertBatchRecipient(t, b, a) \/ DeleteBatchRecipient(t, b, a)
            \/ \E b \in Batches : SealBatch(t, b)
            \/ FinalizeBatch(t) \/ Stamp(t)
  BY <1>2, <1>10 DEF InsertRecipient, DeleteRecipient, AddBatch, Load, InsertBatchRecipient,
                     DeleteBatchRecipient, SealBatch, FinalizeBatch, Stamp
<1> QED
  BY <1>3, <1>4, <1>5, <1>6, <1>7, <1>8, <1>9, <1>10 DEF Statement

\* What was sent stays as it was sent: the protect triggers turn every late edit away,
\* and a purge takes the whole message or cuts a reply's link to it.
THEOREM SentStays == Spec => SealedIsFinal
<1>1. Inv /\ [Next]_vars => [Final]_vars
  <2>1. CASE UNCHANGED <<msg, batch>>
    BY <2>1 DEF Final
  <2> QED
    BY <2>1, StatementKeepsSealed DEF Next, Tick, Rollback
<1> QED
  BY <1>1, Invariance, PTL DEF Spec, SealedIsFinal, Final
============================================================================

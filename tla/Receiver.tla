----------------------------- MODULE Receiver -----------------------------
(***************************************************************************)
(* The receiving hosts, one per remote domain: what each stores and the    *)
(* handler of one connection, handleConn (cmd/fmsgd/host.go, store.go).    *)
(* Handlers of concurrent connections interleave between their database    *)
(* accesses.                                                               *)
(***************************************************************************)
EXTENDS Wire

CONSTANTS
    OwnCase,        \* the addresses whose domain is written as the hosts write it
    Verdicts,       \* [Addrs -> codes the id service's answer may lead to]
    ChallengeModes  \* whether a challenge is completed: {FALSE}, {TRUE} or both

UserCodes == {Accept, UserUnknown, UserFull, UserNotAccepting}

ASSUME ReceiverAssumption ==
    /\ OwnCase \subseteq Addrs
    /\ Verdicts \in [Addrs -> SUBSET UserCodes]
    /\ ChallengeModes \subseteq BOOLEAN

VARIABLES
    msgAt,      \* [Domains -> messages with a row in msg (unique on sha256)]
    batchRows,  \* [Domains -> [Units -> rows in msg_add_to_batch with that hash]]
    received    \* <<message, address>> with a recipient row marked delivered

receiverVars == <<msgAt, batchRows, received>>

ReceiverTypeOK ==
    /\ msgAt \in [Domains -> SUBSET Msgs]
    /\ batchRows \in [Domains -> [Units -> Nat]]
    /\ received \in SUBSET (Msgs \X Addrs)

ReceiverInit ==
    /\ msgAt = [d \in Domains |-> {}]
    /\ batchRows = [d \in Domains |-> [u \in Units |-> 0]]
    /\ received = {}

AddToBatchRecorded(d, u) == batchRows[d][u] > 0

\* A parent is found by a message's canonical hash, else by a batch hash.
ParentFound(d, p) ==
    IF p \in Batches THEN AddToBatchRecorded(d, p) ELSE MsgOf[p] \in msgAt[d]

----------------------------------------------------------------------------
(***************************************************************************)
(* The header exchange: the verdict on a header, from what is stored now.  *)
(***************************************************************************)
\* handleAddToPath
AddToVerdict(u, d) ==
    IF MsgOf[u] \notin msgAt[d]
         THEN IF LocalRecipients(u, d) = {} THEN ParentNotFound ELSE Continue
    ELSE IF MsgOf[u] \in Terminal     THEN Invalid
    ELSE IF AddToBatchRecorded(d, u)  THEN Duplicate
    ELSE IF AddToAt(u, d) # {}        THEN SkipData
    ELSE AcceptAddTo

\* validatePidReplyPath
ReplyVerdict(m, d) ==
    IF Parent[m] = NoOne                  THEN Continue
    ELSE IF ~ParentFound(d, Parent[m])    THEN ParentNotFound
    ELSE IF MsgOf[Parent[m]] \in Terminal THEN Invalid
    ELSE Continue

HeaderVerdict(u, d) ==
    IF u \in Batches THEN AddToVerdict(u, d) ELSE ReplyVerdict(MsgOf[u], d)

\* The connection k once its handler has got that far.
Checked(k, plan)    == [k EXCEPT !.rx = "checked", !.plan = plan]
Responded(k, code)  == [k EXCEPT !.rx = "responded", !.init = code]
Validated(k, codes) == [k EXCEPT !.rx = "validated", !.codes = codes]
Answered(k, codes)  == Recycle([k EXCEPT !.rx = "answered", !.codes = codes])
Closed(k, code)     == Recycle([k EXCEPT !.rx = "closed", !.init = code])
Aborted(k)          == Recycle([k EXCEPT !.rx = "aborted"])

\* A rejecting code, or 11, is written and the connection closed.
Respond(c, code) == conn' = [conn EXCEPT ![c] = Closed(@, code)]

ReadHeader(c) ==
    /\ conn[c].rx = "header"
    /\ LET verdict == HeaderVerdict(conn[c].unit, conn[c].dom) IN
       IF verdict \in {Continue, SkipData, AcceptAddTo}
       THEN conn' = [conn EXCEPT ![c] = Checked(@, verdict)]
       ELSE Respond(c, verdict)
    /\ UNCHANGED <<msgAt, batchRows, received, faults>>

----------------------------------------------------------------------------
(***************************************************************************)
(* Storage.  Each of these is one transaction.                             *)
(***************************************************************************)
\* A slip: the recipients are attached but not the batch.
AttachUnrecorded(u, d) ==
    /\ received' = received \cup ({MsgOf[u]} \X (AddToAt(u, d) \cap OwnCase))
    /\ UNCHANGED <<msgAt, batchRows>>

\* attachAddToRecipients: the batch and its recipients join the stored message;
\* the recipients on this domain are marked delivered, whatever their codes, and
\* the to rows, which exist already, are left alone.  Here the domain is compared
\* with its case: a recipient spelled otherwise counts as another host's.
AttachAddToRecipients(u, d) ==
    /\ batchRows' = [batchRows EXCEPT ![d][u] = @ + 1]
    /\ received' = received \cup ({MsgOf[u]} \X (AddToAt(u, d) \cap OwnCase))
    /\ UNCHANGED msgAt

\* The recipients that storeMsgDetail marks delivered: localOutcome has one code
\* for an address, that of its last entry.
DeliveredHere(u, d, codes) ==
    {a \in LocalRecipients(u, d) : LastCode(u, codes, a) = Accept}

\* A slip: a message that first arrives in a batch is stored without it.
InsertUnrecorded(u, d, codes) ==
    /\ msgAt' = [msgAt EXCEPT ![d] = @ \cup {MsgOf[u]}]
    /\ received' = received \cup ({MsgOf[u]} \X DeliveredHere(u, d, codes))
    /\ UNCHANGED batchRows

\* storeMsgDetail without a row for the canonical hash: the message, its rows
\* with the code each local recipient was given, and the batch it came in.
InsertMessage(u, d, codes) ==
    /\ msgAt' = [msgAt EXCEPT ![d] = @ \cup {MsgOf[u]}]
    /\ received' = received \cup ({MsgOf[u]} \X DeliveredHere(u, d, codes))
    /\ batchRows' = IF u \in Batches THEN [batchRows EXCEPT ![d][u] = @ + 1] ELSE batchRows

\* storeMsgHeaderOnly: a batch without recipients here; its message is stored.
StoreMsgHeaderOnly(u, d) == MsgOf[u] \in msgAt[d] /\ AttachAddToRecipients(u, d)

\* Whether some entry of the connection was accepted.
SomeAccepted(c) ==
    \E e \in LocalEntries(conn[c].unit, conn[c].dom) : conn[c].codes[e] = Accept

\* A message that is not an add-to collides with its stored row.
Collides(u, d) == u \notin Batches /\ MsgOf[u] \in msgAt[d]

StoreMsgDetail(u, d, codes) ==
    /\ ~Collides(u, d)
    /\ IF MsgOf[u] \in msgAt[d] THEN AttachAddToRecipients(u, d)
                                ELSE InsertMessage(u, d, codes)

----------------------------------------------------------------------------
(***************************************************************************)
(* After the optional challenge: the response code, and for code 11 the    *)
(* storage of the header before it is sent.                                *)
(***************************************************************************)
HasAddrReceivedMsgHash(m, a) == <<m, a>> \in received

\* A slip: one recipient who has the message is enough.
AnyLocalDup(u, d) ==
    \E a \in LocalRecipients(u, d) : HasAddrReceivedMsgHash(MsgOf[u], a)

AllLocalDup(u, d) ==
    /\ LocalRecipients(u, d) # {}
    /\ \A a \in LocalRecipients(u, d) : HasAddrReceivedMsgHash(MsgOf[u], a)

ResolvePostChallengeCode(plan, challenged, allLocalDup) ==
    CASE plan = AcceptAddTo         -> AcceptAddTo
      [] plan # AcceptAddTo /\ challenged /\ allLocalDup -> Duplicate
      [] OTHER                      -> plan

RespondToHeader(c) ==
    /\ conn[c].rx = "checked"
    /\ \E challenged \in ChallengeModes :
         LET u    == conn[c].unit
             d    == conn[c].dom
             code == ResolvePostChallengeCode(conn[c].plan, challenged, AllLocalDup(u, d))
         IN
         \/ /\ code = AcceptAddTo
            /\ StoreMsgHeaderOnly(u, d)
            /\ Respond(c, AcceptAddTo)
         \/ /\ code = Duplicate
            /\ Respond(c, Duplicate)
            /\ UNCHANGED receiverVars
         \/ /\ code \in {Continue, SkipData}
            /\ conn' = [conn EXCEPT ![c] = Responded(@, code)]
            /\ UNCHANGED receiverVars
    /\ UNCHANGED faults

\* The duplicate check or the storage of a header fails: code 3.  A failed commit
\* may have taken effect.
RespondUndisclosed(c) ==
    /\ conn[c].rx = "checked"
    /\ Fault
    /\ Respond(c, Undisclosed)
    /\ \/ UNCHANGED receiverVars
       \/ /\ conn[c].plan = AcceptAddTo
          /\ StoreMsgHeaderOnly(conn[c].unit, conn[c].dom)

----------------------------------------------------------------------------
(***************************************************************************)
(* downloadMessage: a code for every local recipient, then one attempt to  *)
(* store, then the codes.                                                  *)
(***************************************************************************)
\* A slip: a message stored for anyone here counts as a duplicate for everyone.
CodeForHost(m, a, v) == IF m \in msgAt[DomainOf[a]] THEN UserDuplicate ELSE v

\* validateMsgRecvForAddr: v is what the id service's answer leads to.
CodeFor(m, a, v) == IF HasAddrReceivedMsgHash(m, a) THEN UserDuplicate ELSE v

\* Every entry is validated in turn, an address in both lists twice; bad holds
\* the entries whose copy of the payload cannot be written.
ValidateRecipients(c) ==
    /\ conn[c].rx = "responded"
    /\ conn[c].init = Continue => conn[c].data
    /\ LET m     == MsgOf[conn[c].unit]
           local == LocalEntries(conn[c].unit, conn[c].dom)
       IN
       \E verdict \in [local -> UserCodes], bad \in SUBSET local :
          /\ \A e \in local : verdict[e] \in Verdicts[e[2]]
          /\ \A e \in bad : CodeFor(m, e[2], verdict[e]) = Accept
          /\ (bad = {} /\ UNCHANGED faults) \/ (bad # {} /\ Fault)
          /\ conn' = [conn EXCEPT ![c] = Validated(@,
                [e \in Entries |->
                    CASE e \notin local             -> NullCode
                      [] e \in bad                  -> UserUndisclosed
                      [] e \in local \ bad          -> CodeFor(m, e[2], verdict[e])])]
    /\ UNCHANGED <<msgAt, batchRows, received>>

\* The codes are written and the connection closed.
Answer(c, codes) == conn' = [conn EXCEPT ![c] = Answered(@, codes)]

\* Storing failed: every accepting code becomes 105.
Refused(codes) == [e \in Entries |-> IF codes[e] = Accept THEN UserUndisclosed ELSE codes[e]]

\* A slip: the codes are written as they were, though storing failed.
StoreUnchecked(c) ==
    /\ conn[c].rx = "validated"
    /\ Answer(c, conn[c].codes)
    /\ LET u == conn[c].unit
           d == conn[c].dom
       IN
       \/ SomeAccepted(c) /\ StoreMsgDetail(u, d, conn[c].codes) /\ UNCHANGED faults
       \/ /\ ~SomeAccepted(c) \/ Collides(u, d)
          /\ UNCHANGED <<msgAt, batchRows, received, faults>>
       \/ Fault /\ UNCHANGED <<msgAt, batchRows, received>>

\* storeAcceptedMessage: nothing is stored for nobody; if the transaction fails
\* every accepting code becomes 105, even if the commit took effect after all.
\* It fails for certain when the message collides with its stored row; a
\* collision with a row that is being inserted is one of the failures.
StoreAcceptedMessage(c) ==
    /\ conn[c].rx = "validated"
    /\ LET u == conn[c].unit
           d == conn[c].dom
           refused == Refused(conn[c].codes)
       IN
       \/ /\ ~SomeAccepted(c)
          /\ Answer(c, conn[c].codes)
          /\ UNCHANGED <<msgAt, batchRows, received, faults>>
       \/ /\ SomeAccepted(c)
          /\ StoreMsgDetail(u, d, conn[c].codes)
          /\ (Answer(c, conn[c].codes) /\ UNCHANGED faults) \/ (Answer(c, refused) /\ Fault)
       \/ /\ SomeAccepted(c)
          /\ (Collides(u, d) /\ UNCHANGED faults) \/ Fault
          /\ Answer(c, refused)
          /\ UNCHANGED <<msgAt, batchRows, received>>

\* The handler aborts the connection: a failed challenge or query, an
\* incomplete download, a crash.  Free of charge when the sender has gone.
Abort(c) ==
    /\ conn[c].rx \in {"header", "checked", "responded", "validated"}
    /\ (~conn[c].open /\ UNCHANGED faults) \/ Fault
    /\ conn' = [conn EXCEPT ![c] = Aborted(@)]
    /\ UNCHANGED <<msgAt, batchRows, received>>

HandlerStep(c) ==
    \/ ReadHeader(c) \/ RespondToHeader(c) \/ RespondUndisclosed(c)
    \/ ValidateRecipients(c) \/ StoreAcceptedMessage(c) \/ Abort(c)

ReceiverNext == \E c \in Conns : HandlerStep(c)
============================================================================

--------------------------- MODULE IntakeProofs ---------------------------
(***************************************************************************)
(* Proofs about the handlers of a receiving host, for any number of them,  *)
(* any headers, users, limits and failures.                                *)
(***************************************************************************)
EXTENDS Intake, HeaderProofs, FunctionTheorems

(***************************************************************************)
(* The inductive invariant.                                                *)
(***************************************************************************)
RowFields == {"hash", "batch", "from", "to", "adder", "addTo", "time", "terminal",
              "intact", "path", "wire"}

\* The handler may still give up, and take the wire form with it.
Undecided(k) == k.pc \notin {"idle", "report"}

\* Handler k in slot p has a path to copy to, and once it has accepted somebody a file
\* for the row to name and, among the directories w, its wire form.
HandlerOK(k, p, w) ==
    /\ DOMAIN k = DOMAIN IdleHandler(NullCode)
    /\ k.pc \in Pcs
    /\ k.codes \in Seq(Int)
    /\ k.pc = "copy" => k.path # NoPath
    /\ \A i \in DOMAIN k.codes : k.codes[i] = Accept =>
           k.primary # NoPath /\ <<k.h.hash, p>> \in w

HandlersOK ==
    /\ DOMAIN handler = Slots
    /\ \A p \in Slots : HandlerOK(handler[p], p, wires)

\* No header arrives twice.
HashesOK ==
    /\ \A g, h \in arriving : g.hash = h.hash => g = h
    /\ \A p \in Slots : Undecided(handler[p]) => \A g \in arriving : g.hash # handler[p].h.hash

\* The wire form of a stored row is there, and no handler that is under way or still to
\* come has it for its own.
RowOK(r) ==
    /\ DOMAIN r = RowFields
    /\ r.batch \/ r.path # NoPath
    /\ \/ r.wire = NoPath
       \/ /\ r.wire \in wires
          /\ \A g \in arriving : r.wire[1] # g.hash
          /\ \A p \in Slots : Undecided(handler[p]) => r.wire # Wire(p)

RowsOK == \A r \in db : RowOK(r)

Inv == HandlersOK /\ HashesOK /\ RowsOK

----------------------------------------------------------------------------
\* The invariant is kept by a handler that goes on to k and stores nothing.  It removes
\* no wire form but its own, and that only while it is undecided.
LEMMA HandlerGoesOn ==
    ASSUME Inv, NEW p \in Slots, NEW k,
           handler' = [handler EXCEPT ![p] = k],
           HandlerOK(k, p, wires'),
           Undecided(k) => Undecided(handler[p]) /\ k.h = handler[p].h,
           wires \ {Wire(p)} \subseteq wires',
           wires \subseteq wires' \/ Undecided(handler[p]),
           UNCHANGED <<arriving, db>>
    PROVE  Inv'
<1>1. /\ DOMAIN handler' = Slots /\ handler'[p] = k
      /\ \A q \in Slots \ {p} : handler'[q] = handler[q]
  BY DEF Inv, HandlersOK
<1>2. HandlersOK'
  <2> SUFFICES ASSUME NEW q \in Slots PROVE HandlerOK(handler'[q], q, wires')
    BY <1>1 DEF HandlersOK
  <2>1. CASE q = p
    BY <1>1, <2>1
  <2>2. CASE q # p
    BY <1>1, <2>2 DEF Inv, HandlersOK, HandlerOK, Wire
  <2> QED
    BY <2>1, <2>2
<1>3. HashesOK'
  BY <1>1 DEF Inv, HashesOK
<1>4. RowsOK'
  <2> SUFFICES ASSUME NEW r \in db, RowOK(r) PROVE RowOK(r)'
    BY DEF Inv, RowsOK
  <2>1. CASE r.wire = NoPath
    BY <2>1 DEF RowOK
  <2>2. CASE r.wire # NoPath
    <3>1. r.wire \in wires'
      BY <2>2 DEF RowOK
    <3>2. ASSUME NEW q \in Slots, Undecided(handler'[q])
          PROVE  Undecided(handler[q]) /\ handler'[q].h = handler[q].h
      BY <1>1, <3>2
    <3> QED
      BY <2>2, <3>1, <3>2 DEF RowOK, Wire
  <2> QED
    BY <2>1, <2>2
<1> QED
  BY <1>2, <1>3, <1>4 DEF Inv

\* Row y says of its files what x does.
SameFiles(y, x) ==
    DOMAIN y = DOMAIN x /\ y.batch = x.batch /\ y.path = x.path /\ y.wire = x.wire

\* A new row of a handler that keeps its wire form, if any, in directory w.
NewRow(r, w) ==
    DOMAIN r = RowFields /\ (r.batch \/ r.path # NoPath) /\ r.wire \in {NoPath, w}

LEMMA Attached ==
    ASSUME Inv, NEW h, NEW w, AttachAddToRecipients(h, w), NEW y \in db'
    PROVE  (\E x \in db : SameFiles(y, x)) \/ NewRow(y, w)
<1>1. CASE y = BatchRow(h, w)
  BY <1>1 DEF NewRow, RowFields, BatchRow
<1>2. CASE y # BatchRow(h, w)
  <2>1. PICK x \in db : y \in {x, [x EXCEPT !.addTo = @ \cup ToSet(h.addTo)]}
    BY <1>2 DEF AttachAddToRecipients
  <2>2. DOMAIN x = RowFields
    BY DEF Inv, RowsOK, RowOK
  <2> QED
    BY <2>1, <2>2 DEF SameFiles, RowFields
<1> QED
  BY <1>1, <1>2

LEMMA StoredRows ==
    ASSUME Inv, NEW p \in Slots, StoreMsgDetail(p), handler[p].primary # NoPath, NEW y \in db'
    PROVE  (\E x \in db : SameFiles(y, x)) \/ NewRow(y, Wire(p))
<1> DEFINE h == handler[p].h
<1>1. CASE MsgByHash(db, Canonical(h)) # {}
  BY <1>1, Attached DEF StoreMsgDetail
<1>2. CASE MsgByHash(db, Canonical(h)) = {}
  <2>1. y \in db \/ y = MsgRow(h, handler[p].primary, Wire(p)) \/ y = BatchRow(h, Wire(p))
    BY <1>2 DEF StoreMsgDetail
  <2>2. NewRow(MsgRow(h, handler[p].primary, Wire(p)), Wire(p))
    BY DEF NewRow, RowFields, MsgRow
  <2>3. NewRow(BatchRow(h, Wire(p)), Wire(p))
    BY DEF NewRow, RowFields, BatchRow
  <2> QED
    BY <2>1, <2>2, <2>3 DEF SameFiles
<1> QED
  BY <1>1, <1>2

\* The invariant is kept by a handler that stores and after that gives nothing up.
LEMMA HandlerStores ==
    ASSUME Inv, NEW p \in Slots, NEW k, NEW w,
           handler' = [handler EXCEPT ![p] = k],
           HandlerOK(k, p, wires), ~Undecided(k), Undecided(handler[p]),
           w = NoPath \/ (w = Wire(p) /\ w \in wires),
           \A y \in db' : (\E x \in db : SameFiles(y, x)) \/ NewRow(y, w),
           UNCHANGED <<arriving, wires>>
    PROVE  Inv'
<1>1. /\ DOMAIN handler' = Slots /\ handler'[p] = k
      /\ \A q \in Slots \ {p} : handler'[q] = handler[q]
  BY DEF Inv, HandlersOK
<1>2. HandlersOK' /\ HashesOK'
  BY <1>1 DEF Inv, HandlersOK, HashesOK
<1>3. RowsOK'
  <2> SUFFICES ASSUME NEW y \in db' PROVE RowOK(y)'
    BY DEF RowsOK
  <2>1. CASE \E x \in db : SameFiles(y, x)
    <3>1. PICK x \in db : SameFiles(y, x)
      BY <2>1
    <3>2. RowOK(x)
      BY DEF Inv, RowsOK
    <3> QED
      BY <1>1, <3>1, <3>2 DEF RowOK, SameFiles, Wire
  <2>2. CASE NewRow(y, w)
    <3>1. CASE y.wire = NoPath
      BY <2>2, <3>1 DEF NewRow, RowOK
    <3>2. CASE y.wire # NoPath
      <4>1. y.wire = Wire(p) /\ y.wire \in wires /\ y.wire[1] = handler[p].h.hash
        BY <2>2, <3>2 DEF NewRow, Wire
      <4>2. \A g \in arriving : y.wire[1] # g.hash
        BY <4>1 DEF Inv, HashesOK
      <4>3. \A q \in Slots : Undecided(handler'[q]) => y.wire # <<handler'[q].h.hash, q>>
        BY <1>1, <4>1 DEF Wire
      <4> QED
        BY <2>2, <4>1, <4>2, <4>3 DEF NewRow, RowOK, Wire
    <3> QED
      BY <3>1, <3>2
  <2> QED
    BY <2>1, <2>2
<1> QED
  BY <1>2, <1>3 DEF Inv

----------------------------------------------------------------------------
(***************************************************************************)
(* The handlers' steps.                                                    *)
(***************************************************************************)
LEMMA IdleIsOK ==
    ASSUME NEW verdict, NEW p, NEW w
    PROVE  HandlerOK(IdleHandler(verdict), p, w) /\ ~Undecided(IdleHandler(verdict))
BY DEF HandlerOK, IdleHandler, Undecided, Pcs

LEMMA InitInv == Init => Inv
<1> SUFFICES ASSUME Init PROVE Inv
  OBVIOUS
<1>1. HandlersOK
  BY IdleIsOK DEF Init, HandlersOK
<1>2. HashesOK
  BY IdleIsOK, IntakeAssumption DEF Init, HashesOK
<1>3. RowsOK
  BY IntakeAssumption DEF Init, RowsOK, RowOK, RowFields
<1> QED
  BY <1>1, <1>2, <1>3 DEF Inv

\* The next connection's header is none that was seen before.
LEMMA ArriveKeepsInv ==
    ASSUME Inv, NEW p \in Slots, Arrive(p)
    PROVE  Inv'
<1>1. PICK h \in arriving :
         /\ arriving' = arriving \ {h}
         /\ handler' = [handler EXCEPT ![p] = [IdleHandler(NullCode) EXCEPT !.pc = "header", !.h = h]]
  BY DEF Arrive
<1> DEFINE k == [IdleHandler(NullCode) EXCEPT !.pc = "header", !.h = h]
<1>2. HandlerOK(k, p, wires) /\ k.h = h
  BY DEF HandlerOK, IdleHandler, Pcs
<1>3. /\ DOMAIN handler' = Slots /\ handler'[p] = k
      /\ \A q \in Slots \ {p} : handler'[q] = handler[q]
      /\ UNCHANGED <<wires, db>>
  BY <1>1 DEF Inv, HandlersOK, Arrive
<1> HIDE DEF k
<1>4. HandlersOK'
  BY <1>2, <1>3 DEF Inv, HandlersOK
<1>5. HashesOK'
  BY <1>1, <1>2, <1>3 DEF Inv, HashesOK
<1>6. RowsOK'
  <2> SUFFICES ASSUME NEW r \in db, RowOK(r) PROVE RowOK(r)'
    BY <1>3 DEF Inv, RowsOK
  <2>1. CASE r.wire = NoPath
    BY <2>1 DEF RowOK
  <2>2. CASE r.wire # NoPath
    <3>1. r.wire # <<h.hash, p>>
      BY <2>2 DEF RowOK
    <3> QED
      BY <1>1, <1>2, <1>3, <2>2, <3>1 DEF RowOK, Wire
  <2> QED
    BY <2>1, <2>2
<1> QED
  BY <1>4, <1>5, <1>6 DEF Inv

\* A handler that returns without having stored anything, or after it.
LEMMA EndKeepsInv ==
    ASSUME Inv, NEW p \in Slots, End(p),
           wires \ {Wire(p)} \subseteq wires',
           wires \subseteq wires' \/ Undecided(handler[p]),
           UNCHANGED <<arriving, db>>
    PROVE  Inv'
BY HandlerGoesOn, IdleIsOK DEF End

\* The next turn of the loop, with the code of the recipient decided on.
LEMMA NextRecipientIsOK ==
    ASSUME NEW k, NEW p, NEW w, HandlerOK(k, p, w), NEW code \in Int,
           code = Accept => k.primary # NoPath /\ <<k.h.hash, p>> \in w
    PROVE  /\ HandlerOK(NextRecipient(k, code), p, w)
           /\ NextRecipient(k, code).h = k.h
<1> DEFINE n == NextRecipient(k, code)
<1>1. /\ DOMAIN n = DOMAIN k /\ n.pc = "check" /\ n.h = k.h /\ n.primary = k.primary
      /\ n.codes = Append(k.codes, code)
  BY DEF NextRecipient, HandlerOK, IdleHandler
<1>2. n.codes \in Seq(Int)
  BY <1>1 DEF HandlerOK
<1>3. ASSUME NEW i \in DOMAIN n.codes, n.codes[i] = Accept
      PROVE  k.primary # NoPath /\ <<k.h.hash, p>> \in w
  <2>1. k.codes \in Seq(Int) /\ i \in 1..Len(k.codes) + 1
    BY <1>1 DEF HandlerOK
  <2>2. CASE i = Len(k.codes) + 1
    BY <1>1, <1>3, <2>1, <2>2
  <2>3. CASE i \in 1..Len(k.codes)
    <3>1. i \in DOMAIN k.codes /\ k.codes[i] = Accept
      BY <1>1, <1>3, <2>1, <2>3
    <3> QED
      BY <3>1 DEF HandlerOK
  <2> QED
    BY <2>1, <2>2, <2>3
<1> QED
  BY <1>1, <1>2, <1>3 DEF HandlerOK, Pcs

LEMMA CodeForIsCode ==
    ASSUME NEW h, NEW a
    PROVE  CodeFor(h, a) \in Int
BY DEF CodeFor, UserDuplicate, UserUnknown, UserNotAccepting, UserFull, Accept

LEMMA ReadHeaderKeepsInv ==
    ASSUME Inv, NEW p \in Slots, ReadHeader(p)
    PROVE  Inv'
<1> DEFINE k == handler[p]
<1>1. PICK verdict :
         handler' = [handler EXCEPT ![p] =
             CASE verdict \in {Continue, SkipData} -> [@ EXCEPT !.pc = "data", !.verdict = verdict]
               [] verdict = AcceptAddTo            -> [@ EXCEPT !.pc = "notify", !.verdict = verdict]
               [] OTHER                            -> IdleHandler(verdict)]
  BY DEF ReadHeader
<1>2. PICK n \in {[k EXCEPT !.pc = "data", !.verdict = verdict],
                  [k EXCEPT !.pc = "notify", !.verdict = verdict], IdleHandler(verdict)} :
         handler' = [handler EXCEPT ![p] = n]
  <2>1. CASE verdict \in {Continue, SkipData}
    <3>1. verdict # AcceptAddTo
      BY <2>1 DEF Continue, SkipData, AcceptAddTo
    <3> QED
      BY <1>1, <2>1, <3>1
  <2>2. CASE verdict = AcceptAddTo
    BY <1>1, <2>2 DEF Continue, SkipData, AcceptAddTo
  <2>3. CASE verdict \notin {Continue, SkipData} /\ verdict # AcceptAddTo
    BY <1>1, <2>3
  <2> QED
    BY <2>1, <2>2, <2>3
<1>3. HandlerOK(k, p, wires) /\ Undecided(k) /\ UNCHANGED <<arriving, db, wires>>
  BY DEF ReadHeader, Undecided, Inv, HandlersOK
<1>4. HandlerOK(n, p, wires) /\ (Undecided(n) => n.h = k.h)
  <2>1. CASE n = IdleHandler(verdict)
    BY <2>1, IdleIsOK
  <2>2. CASE n # IdleHandler(verdict)
    BY <1>2, <1>3, <2>2 DEF HandlerOK, IdleHandler, Pcs
  <2> QED
    BY <2>1, <2>2
<1> HIDE DEF k
<1> QED
  BY <1>2, <1>3, <1>4, HandlerGoesOn DEF k

LEMMA DownloadKeepsInv ==
    ASSUME Inv, NEW p \in Slots, Download(p)
    PROVE  Inv'
<1> DEFINE k == handler[p]
           n == [k EXCEPT !.pc = "check"]
<1>1. HandlerOK(k, p, wires) /\ Undecided(k) /\ UNCHANGED <<arriving, db, wires>>
  BY DEF Download, Undecided, Inv, HandlersOK
<1>2. HandlerOK(n, p, wires) /\ n.h = k.h
  BY <1>1 DEF HandlerOK, IdleHandler, Pcs
<1>3. handler' = [handler EXCEPT ![p] = n]
  BY DEF Download
<1> HIDE DEF n
<1> QED
  BY <1>1, <1>2, <1>3, HandlerGoesOn

LEMMA CheckRecipientKeepsInv ==
    ASSUME Inv, NEW p \in Slots, CheckRecipient(p)
    PROVE  Inv'
<1> DEFINE k == handler[p]
           a == Recipients(p)[k.i]
           code == CodeFor(k.h, a)
           path == UniqueFilepath(a, k.h.time)
           refused == NextRecipient(k, code)
           chosen == [k EXCEPT !.pc = "copy", !.path = path]
<1>1. HandlerOK(k, p, wires) /\ Undecided(k) /\ UNCHANGED <<arriving, db, wires>>
  BY DEF CheckRecipient, Undecided, Inv, HandlersOK
<1>2. handler' = [handler EXCEPT ![p] = IF code # Accept THEN refused ELSE chosen]
  BY DEF CheckRecipient
<1>3. CASE code # Accept
  <2>1. HandlerOK(refused, p, wires) /\ refused.h = k.h
    BY <1>1, <1>3, CodeForIsCode, NextRecipientIsOK
  <2>2. handler' = [handler EXCEPT ![p] = refused]
    BY <1>2, <1>3
  <2> HIDE DEF refused
  <2> QED
    BY <1>1, <2>1, <2>2, HandlerGoesOn
<1>4. CASE code = Accept
  <2>1. path # NoPath
    BY DEF UniqueFilepath, NoPath
  <2> HIDE DEF path
  <2>2. HandlerOK(chosen, p, wires) /\ chosen.h = k.h
    BY <1>1, <2>1 DEF HandlerOK, IdleHandler, Pcs
  <2>3. handler' = [handler EXCEPT ![p] = chosen]
    BY <1>2, <1>4
  <2> HIDE DEF chosen
  <2> QED
    BY <1>1, <2>2, <2>3, HandlerGoesOn
<1> QED
  BY <1>3, <1>4

\* A copy that succeeds gives the row its file, and the message its wire form.
LEMMA CopyKeepsInv ==
    ASSUME Inv, NEW p \in Slots, Copy(p)
    PROVE  Inv'
<1> DEFINE k == handler[p]
           m == Named(k)
           n == NextRecipient(m, Accept)
<1>1. /\ HandlerOK(k, p, wires) /\ Undecided(k) /\ k.pc = "copy"
      /\ wires' = wires \cup {Wire(p)} /\ UNCHANGED <<arriving, db>>
  BY DEF Copy, Undecided, Inv, HandlersOK
<1>2. m.primary # NoPath /\ m.h = k.h /\ HandlerOK(m, p, wires')
  BY <1>1 DEF HandlerOK, IdleHandler, Pcs, Named
<1>3. <<k.h.hash, p>> \in wires'
  BY <1>1 DEF Wire
<1>4. handler' = [handler EXCEPT ![p] = n]
  BY DEF Copy
<1> HIDE DEF m
<1>5. HandlerOK(n, p, wires') /\ n.h = k.h
  BY <1>2, <1>3, NextRecipientIsOK DEF Accept
<1> HIDE DEF n
<1> QED
  BY <1>1, <1>4, <1>5, HandlerGoesOn

\* A copy that fails, or attachments that cannot be persisted: the wire form stays for
\* the next recipient.
LEMMA RefusalKeepsInv ==
    ASSUME Inv, NEW p \in Slots, CopyFails(p) \/ PersistFails(p)
    PROVE  Inv'
<1> DEFINE k == handler[p]
<1>1. /\ HandlerOK(k, p, wires) /\ Undecided(k)
      /\ wires \subseteq wires' /\ UNCHANGED <<arriving, db>>
  BY DEF CopyFails, PersistFails, Undecided, Inv, HandlersOK
<1>2. PICK m : /\ handler' = [handler EXCEPT ![p] = NextRecipient(m, UserUndisclosed)]
               /\ m = k \/ \E done : m = Replaced(k, done)
  BY DEF CopyFails, PersistFails
<1>3. m.h = k.h /\ HandlerOK(m, p, wires')
  BY <1>1, <1>2 DEF HandlerOK, IdleHandler, Pcs, Replaced
<1> DEFINE n == NextRecipient(m, UserUndisclosed)
<1>4. HandlerOK(n, p, wires') /\ n.h = k.h
  <2>1. UserUndisclosed \in Int /\ UserUndisclosed # Accept
    BY DEF UserUndisclosed, Accept
  <2> QED
    BY <1>3, <2>1, NextRecipientIsOK
<1>5. handler' = [handler EXCEPT ![p] = n]
  BY <1>2
<1> HIDE DEF n
<1> QED
  BY <1>1, <1>4, <1>5, HandlerGoesOn

\* Before anything is stored the wire form may go.
LEMMA GiveUpKeepsInv ==
    ASSUME Inv, NEW p \in Slots, GiveUp(p) \/ StoreNothing(p)
    PROVE  Inv'
<1>1. /\ End(p) /\ Undecided(handler[p])
      /\ wires' = wires \ {Wire(p)} /\ UNCHANGED <<arriving, db>>
  BY DEF GiveUp, StoreNothing, AtEndOfLoop, Undecided
<1> QED
  BY <1>1, EndKeepsInv

\* Whoever stores has a file and a wire form: somebody was accepted.
LEMMA StoreKeepsInv ==
    ASSUME Inv, NEW p \in Slots, StoreAcceptedMessage(p) \/ StoreFails(p)
    PROVE  Inv'
<1> DEFINE k == handler[p]
           n == [k EXCEPT !.pc = "report"]
<1>1. /\ HandlerOK(k, p, wires) /\ Undecided(k) /\ AcceptedEntries(p) # {}
      /\ UNCHANGED <<arriving, wires>>
  BY DEF StoreAcceptedMessage, StoreFails, AtEndOfLoop, Undecided, Inv, HandlersOK
<1>2. k.primary # NoPath /\ Wire(p) \in wires
  BY <1>1 DEF HandlerOK, AcceptedEntries, Wire
<1>3. CASE End(p) /\ UNCHANGED db
  BY <1>1, <1>3, EndKeepsInv
<1>4. CASE StoreMsgDetail(p)
  <2>1. HandlerOK(n, p, wires) /\ ~Undecided(n)
    BY <1>1 DEF HandlerOK, IdleHandler, Pcs, Undecided
  <2>2. PICK m : /\ handler' = [handler EXCEPT ![p] = m]
                 /\ HandlerOK(m, p, wires) /\ ~Undecided(m)
    <3>1. CASE StoreAcceptedMessage(p)
      BY <2>1, <3>1 DEF StoreAcceptedMessage
    <3>2. CASE StoreFails(p)
      BY <3>2, IdleIsOK DEF StoreFails, End
    <3> QED
      BY <3>1, <3>2
  <2>3. \A y \in db' : (\E x \in db : SameFiles(y, x)) \/ NewRow(y, Wire(p))
    BY <1>2, <1>4, StoredRows
  <2> QED
    BY <1>1, <1>2, <2>2, <2>3, HandlerStores
<1> QED
  BY <1>3, <1>4 DEF StoreAcceptedMessage, StoreFails

LEMMA HeaderOnlyKeepsInv ==
    ASSUME Inv, NEW p \in Slots, StoreMsgHeaderOnly(p)
    PROVE  Inv'
<1>1. Undecided(handler[p]) /\ End(p) /\ UNCHANGED <<arriving, wires>>
  BY DEF StoreMsgHeaderOnly, Undecided
<1>2. CASE UNCHANGED db
  BY <1>1, <1>2, EndKeepsInv
<1>3. CASE AttachAddToRecipients(handler[p].h, NoPath)
  <2>1. \A y \in db' : (\E x \in db : SameFiles(y, x)) \/ NewRow(y, NoPath)
    BY <1>3, Attached
  <2>2. PICK m : /\ handler' = [handler EXCEPT ![p] = m]
                 /\ HandlerOK(m, p, wires) /\ ~Undecided(m)
    BY <1>1, IdleIsOK DEF End
  <2> QED
    BY <1>1, <2>1, <2>2, HandlerStores
<1> QED
  BY <1>2, <1>3 DEF StoreMsgHeaderOnly

LEMMA NextKeepsInv == Inv /\ [Next]_vars => Inv'
<1> SUFFICES ASSUME Inv, [Next]_vars PROVE Inv'
  OBVIOUS
<1>1. CASE NewDay \/ UNCHANGED vars
  BY <1>1 DEF NewDay, vars, Inv, HandlersOK, HashesOK, RowsOK, RowOK, Wire
<1>2. ASSUME NEW p \in Slots, Arrive(p) PROVE Inv'
  BY <1>2, ArriveKeepsInv
<1>3. ASSUME NEW p \in Slots, HandlerStep(p) PROVE Inv'
  <2>1. CASE RecordRecvUsage(p)
    BY <2>1, EndKeepsInv DEF RecordRecvUsage
  <2> QED
    BY <1>3, <2>1, ReadHeaderKeepsInv, DownloadKeepsInv, CheckRecipientKeepsInv, CopyKeepsInv,
       RefusalKeepsInv, GiveUpKeepsInv, StoreKeepsInv, HeaderOnlyKeepsInv DEF HandlerStep
<1> QED
  BY <1>1, <1>2, <1>3 DEF Next

----------------------------------------------------------------------------
\* The invariant holds in every behaviour.
THEOREM Invariance == Spec => []Inv
BY InitInv, NextKeepsInv, PTL DEF Spec

\* A stored message keeps the file it names and its wire form, even when the host took
\* its own commit for a failure and though handlers of other messages fail, give up
\* and remove theirs (downloadMessage's deferred removal).
THEOREM WireFormStays == Spec => []StoredIsWhole
<1>1. Inv => StoredIsWhole
  BY DEF Inv, RowsOK, RowOK, StoredIsWhole
<1> QED
  BY <1>1, Invariance, PTL

----------------------------------------------------------------------------
(***************************************************************************)
(* What the handlers, the rows and the files are, step by step.            *)
(***************************************************************************)
Counting == {"check", "copy", "report"}

\* Handler k has a header that may arrive, a code for each recipient it is through with,
\* and for the one it copies to a path.
HandlerTyped(k) ==
    /\ k.pc # "idle" => k.h \in AllHeaders
    /\ Len(k.codes) = k.i - 1
    /\ k.pc \in Counting => k.i \in 1..Len(LocalRecipients(k.h)) + 1
    /\ k.pc \notin Counting => k.codes = <<>> /\ k.i = 1
    /\ k.pc = "copy" => k.i <= Len(LocalRecipients(k.h)) /\ k.path \in Addrs \X Nat \X Nat
    /\ k.pc \notin {"idle", "header"} /\ k.h.hasAddTo => k.h.pid # NoPid

HandlersTyped == \A p \in Slots : HandlerTyped(handler[p])

\* A batch that brings no data has a stored parent, which stays.
NotifyOK ==
    \A p \in Slots : handler[p].pc = "notify" =>
        handler[p].h.hasAddTo /\ MsgByHash(db, handler[p].h.pid) # {}

RowsTyped == \A r \in db : IsRow(r)

DeliveredOK == delivered \subseteq {r.hash : r \in db} \X Addrs

FilesOK == IsFiniteSet(DOMAIN files) /\ \A f \in DOMAIN files : f \in Addrs \X Nat \X Nat

WiresOK == wires \subseteq HeaderHashes \X Slots

UsageOK == usage \in [Users -> [count : Nat, day : Nat, total : Nat]]

Typed ==
    /\ arriving \subseteq AllHeaders
    /\ HandlersTyped /\ NotifyOK /\ RowsTyped /\ DeliveredOK /\ FilesOK /\ WiresOK /\ UsageOK
    /\ days \in 0..MaxDays /\ faults \in 0..MaxFaults

\* What may arrive is a header.
LEMMA ArrivingHeader ==
  ASSUME NEW h \in AllHeaders
  PROVE  /\ IsHeader(h) /\ LocalRecipients(h) \in Seq(Addrs)
         /\ StoredSize(h) \in Nat /\ h.hash \in HeaderHashes
<1>1. IsHeader(h)
  BY IntakeAssumption DEF AllHeaders
<1> QED
  BY <1>1, RecipientsType, SizesType DEF HeaderHashes

\* The first handler of a connection.
LEMMA IdleIsTyped ==
  ASSUME NEW verdict
  PROVE  HandlerTyped(IdleHandler(verdict)) /\ IdleHandler(verdict).pc = "idle"
BY DEF HandlerTyped, IdleHandler, Counting

LEMMA InitTyped == Init => Typed
<1> SUFFICES ASSUME Init PROVE Typed
  OBVIOUS
<1>1. arriving \subseteq AllHeaders
  BY DEF Init, AllHeaders
<1>2. HandlersTyped /\ NotifyOK
  BY IdleIsTyped DEF Init, HandlersTyped, NotifyOK
<1>3. RowsTyped
  <2>1. \A r \in Stored : IsRow(r)
    BY IntakeAssumption DEF IsRow
  <2> QED
    BY <2>1 DEF Init, RowsTyped
<1>4. FilesOK
  <2>1. DOMAIN files = {}
    BY DEF Init
  <2> QED
    BY <2>1, FS_EmptySet DEF FilesOK
<1>5. DeliveredOK /\ WiresOK /\ UsageOK
  BY DEF Init, DeliveredOK, WiresOK, UsageOK
<1> QED
  BY <1>1, <1>2, <1>3, <1>4, <1>5, IntakeAssumption DEF Init, Typed

\* The next turn of the loop.
LEMMA NextRecipientIsTyped ==
  ASSUME NEW k, HandlerTyped(k), k.pc \in {"check", "copy"}, k.codes \in Seq(Int),
         DOMAIN k = DOMAIN IdleHandler(NullCode),
         k.i <= Len(LocalRecipients(k.h)), NEW code \in Int
  PROVE  HandlerTyped(NextRecipient(k, code)) /\ NextRecipient(k, code).pc = "check"
<1> DEFINE n == NextRecipient(k, code)
<1>1. /\ n.pc = "check" /\ n.h = k.h /\ n.i = k.i + 1 /\ n.codes = Append(k.codes, code)
  BY DEF NextRecipient, IdleHandler
<1>2. k.h \in AllHeaders
  BY DEF HandlerTyped
<1>3. LocalRecipients(k.h) \in Seq(Addrs)
  BY <1>2, ArrivingHeader
<1>4. k.i \in 1..Len(LocalRecipients(k.h)) + 1 /\ Len(k.codes) = k.i - 1
  BY DEF HandlerTyped, Counting
<1>5. Len(n.codes) = n.i - 1 /\ n.i \in 1..Len(LocalRecipients(n.h)) + 1
  BY <1>1, <1>3, <1>4
<1>6. k.h.hasAddTo => k.h.pid # NoPid
  BY DEF HandlerTyped
<1> HIDE DEF n
<1> QED
  BY <1>1, <1>2, <1>5, <1>6 DEF HandlerTyped, Counting, n

\* A free path is a path.
LEMMA FilepathIsTyped ==
  ASSUME FilesOK, NEW a \in Addrs, NEW second \in Nat
  PROVE  /\ UniqueFilepath(a, second) \in Addrs \X Nat \X Nat
         /\ UniqueFilepath(a, second) \notin DOMAIN files
<1> DEFINE D == DOMAIN files
           C == Cardinality(D)
           free == {n \in 0..C : <<a, second, n>> \notin D}
<1>1. IsFiniteSet(D) /\ C \in Nat
  BY FS_CardinalityType DEF FilesOK
<1>2. free # {}
  <2> SUFFICES ASSUME free = {} PROVE FALSE
    OBVIOUS
  <2> DEFINE f == [n \in 0..C |-> <<a, second, n>>]
  <2>1. f \in [0..C -> D]
    OBVIOUS
  <2>2. IsFiniteSet(0..C) /\ Cardinality(0..C) = C + 1
    BY <1>1, FS_Interval
  <2>3. Cardinality(D) < Cardinality(0..C)
    BY <1>1, <2>2
  <2> HIDE DEF f, D, C
  <2>4. \E x, y \in 0..C : x # y /\ f[x] = f[y]
    BY <1>1, <2>1, <2>2, <2>3, FS_PigeonHole
  <2> QED
    BY <2>4 DEF f
<1>3. Min(free) \in free
  <2>1. free \subseteq Nat
    BY <1>1
  <2> HIDE DEF free
  <2>2. \E m \in free : \A n \in free : m <= n
    BY <1>2, <2>1, LeastNumber
  <2> QED
    BY <2>2 DEF Min
<1>4. UniqueFilepath(a, second) = <<a, second, Min(free)>>
  BY DEF UniqueFilepath
<1>5. Min(free) \in Nat /\ <<a, second, Min(free)>> \notin D
  BY <1>1, <1>3
<1> QED
  BY <1>4, <1>5

\* The handler that a step leads to.
Becomes(p, k) ==
    /\ handler' = [handler EXCEPT ![p] = k]
    /\ HandlerTyped(k)
    /\ k.pc = "notify" => k.h.hasAddTo /\ MsgByHash(db, k.h.pid) # {}

LEMMA EndBecomes ==
  ASSUME Inv, NEW p \in Slots, End(p)
  PROVE  \E k : Becomes(p, k)
<1>1. handler' = [handler EXCEPT ![p] = IdleHandler(handler[p].verdict)]
  BY DEF End, Inv, HandlersOK
<1> QED
  BY <1>1, IdleIsTyped DEF Becomes

\* Where reading the header leads.
LEMMA ReadLeadsTo ==
  ASSUME Inv, NEW p \in Slots, ReadHeader(p)
  PROVE  /\ handler'[p].verdict = ReadHeaderVerdict(handler[p].h, Now, db)
         /\ handler'[p].pc \in {"data", "notify", "idle"}
<1> DEFINE k == handler[p]
<1>1. PICK v : v = ReadHeaderVerdict(k.h, Now, db)
  OBVIOUS
<1>2. handler' = [handler EXCEPT ![p] =
         CASE v \in {Continue, SkipData} -> [k EXCEPT !.pc = "data", !.verdict = v]
           [] v = AcceptAddTo            -> [k EXCEPT !.pc = "notify", !.verdict = v]
           [] OTHER                      -> IdleHandler(v)]
  BY <1>1 DEF ReadHeader
<1>3. DOMAIN k = DOMAIN IdleHandler(NullCode) /\ DOMAIN handler = Slots
  BY DEF Inv, HandlersOK, HandlerOK
<1>4. PICK n \in {[k EXCEPT !.pc = "data", !.verdict = v],
                  [k EXCEPT !.pc = "notify", !.verdict = v], IdleHandler(v)} :
         handler' = [handler EXCEPT ![p] = n]
  <2>1. CASE v \in {Continue, SkipData}
    <3>1. v # AcceptAddTo
      BY <2>1 DEF Continue, SkipData, AcceptAddTo
    <3> QED
      BY <1>2, <2>1, <3>1
  <2>2. CASE v = AcceptAddTo
    BY <1>2, <2>2 DEF Continue, SkipData, AcceptAddTo
  <2>3. CASE v \notin {Continue, SkipData} /\ v # AcceptAddTo
    BY <1>2, <2>3
  <2> QED
    BY <2>1, <2>2, <2>3
<1>5. n.verdict = v /\ n.pc \in {"data", "notify", "idle"}
  <2>1. {"verdict", "pc"} \subseteq DOMAIN k
    BY <1>3 DEF IdleHandler
  <2> HIDE DEF k
  <2>2. CASE n = [k EXCEPT !.pc = "data", !.verdict = v]
    BY <2>1, <2>2
  <2>3. CASE n = [k EXCEPT !.pc = "notify", !.verdict = v]
    BY <2>1, <2>3
  <2>4. CASE n = IdleHandler(v)
    BY <2>4 DEF IdleHandler
  <2> QED
    BY <1>4, <2>2, <2>3, <2>4
<1>6. handler'[p] = n
  BY <1>3, <1>4
<1> QED
  BY <1>1, <1>5, <1>6

LEMMA ReadHeaderBecomes ==
  ASSUME Inv, Typed, NEW p \in Slots, ReadHeader(p)
  PROVE  \E k : Becomes(p, k)
<1> DEFINE k == handler[p]
           verdict == ReadHeaderVerdict(k.h, Now, db)
           data == [k EXCEPT !.pc = "data", !.verdict = verdict]
           notify == [k EXCEPT !.pc = "notify", !.verdict = verdict]
<1>1. handler' = [handler EXCEPT ![p] =
           CASE verdict \in {Continue, SkipData} -> data
             [] verdict = AcceptAddTo            -> notify
             [] OTHER                            -> IdleHandler(verdict)]
  BY DEF ReadHeader
<1>2. /\ k.pc = "header" /\ DOMAIN k = DOMAIN IdleHandler(NullCode)
      /\ k.h \in AllHeaders /\ k.codes = <<>> /\ k.i = 1 /\ Len(k.codes) = k.i - 1
  BY DEF ReadHeader, Inv, HandlersOK, HandlerOK, Typed, HandlersTyped, HandlerTyped, Counting
<1>3. IsHeader(k.h)
  BY <1>2, ArrivingHeader
<1>4. verdict \in {Continue, SkipData, AcceptAddTo} =>
         /\ k.h.hasAddTo => k.h.pid # NoPid
         /\ verdict = AcceptAddTo => k.h.hasAddTo /\ MsgByHash(db, k.h.pid) # {}
  BY <1>3, IntakeAssumption, LetThrough
<1>5. CASE verdict \in {Continue, SkipData}
  <2>1. /\ data.pc = "data" /\ data.h = k.h /\ data.codes = k.codes /\ data.i = k.i
    <3> HIDE DEF verdict
    <3> QED
      BY <1>2 DEF IdleHandler
  <2>2. handler' = [handler EXCEPT ![p] = data]
    <3> HIDE DEF data, notify, verdict
    <3>1. verdict # AcceptAddTo
      BY <1>5 DEF AcceptAddTo, Continue, SkipData
    <3> QED
      BY <1>1, <1>5, <3>1
  <2> HIDE DEF data, verdict
  <2>3. HandlerTyped(data)
    BY <1>2, <1>4, <1>5, <2>1 DEF HandlerTyped, Counting
  <2> QED
    BY <2>1, <2>2, <2>3 DEF Becomes
<1>6. CASE verdict = AcceptAddTo
  <2>1. /\ notify.pc = "notify" /\ notify.h = k.h /\ notify.codes = k.codes /\ notify.i = k.i
    <3> HIDE DEF verdict
    <3> QED
      BY <1>2 DEF IdleHandler
  <2>2. verdict \notin {Continue, SkipData}
    BY <1>6 DEF AcceptAddTo, Continue, SkipData
  <2>3. handler' = [handler EXCEPT ![p] = notify]
    BY <1>1, <1>6, <2>2
  <2> HIDE DEF notify, verdict
  <2>4. HandlerTyped(notify)
    BY <1>2, <1>4, <1>6, <2>1 DEF HandlerTyped, Counting
  <2> QED
    BY <1>4, <1>6, <2>1, <2>3, <2>4 DEF Becomes
<1>7. CASE verdict \notin {Continue, SkipData} /\ verdict # AcceptAddTo
  <2>1. handler' = [handler EXCEPT ![p] = IdleHandler(verdict)]
    BY <1>1, <1>7
  <2> QED
    BY <2>1, IdleIsTyped DEF Becomes
<1> QED
  BY <1>5, <1>6, <1>7

LEMMA CheckRecipientBecomes ==
  ASSUME Inv, Typed, NEW p \in Slots, CheckRecipient(p)
  PROVE  \E k : Becomes(p, k)
<1> DEFINE k == handler[p]
           a == Recipients(p)[k.i]
           code == CodeFor(k.h, a)
           path == UniqueFilepath(a, k.h.time)
           refused == NextRecipient(k, code)
           chosen == [k EXCEPT !.pc = "copy", !.path = path]
<1>1. handler' = [handler EXCEPT ![p] = IF code # Accept THEN refused ELSE chosen]
  BY DEF CheckRecipient
<1>2. /\ k.pc = "check" /\ k.i <= Len(LocalRecipients(k.h))
      /\ HandlerTyped(k) /\ k.codes \in Seq(Int) /\ DOMAIN k = DOMAIN IdleHandler(NullCode)
  BY DEF CheckRecipient, Recipients, Inv, HandlersOK, HandlerOK, Typed, HandlersTyped
<1>3. CASE code # Accept
  <2>1. HandlerTyped(refused) /\ refused.pc = "check"
    BY <1>2, CodeForIsCode, NextRecipientIsTyped
  <2>2. handler' = [handler EXCEPT ![p] = refused]
    BY <1>1, <1>3
  <2> HIDE DEF refused
  <2> QED
    BY <2>1, <2>2 DEF Becomes
<1>4. CASE code = Accept
  <2>1. k.h \in AllHeaders /\ k.i \in 1..Len(LocalRecipients(k.h)) + 1
    BY <1>2 DEF HandlerTyped, Counting
  <2>2. LocalRecipients(k.h) \in Seq(Addrs) /\ k.h.time \in Nat
    BY <2>1, ArrivingHeader DEF IsHeader
  <2>3. a \in Addrs
    BY <1>2, <2>1, <2>2 DEF Recipients
  <2>4. path \in Addrs \X Nat \X Nat
    BY <2>2, <2>3, FilepathIsTyped DEF Typed
  <2>5. handler' = [handler EXCEPT ![p] = chosen]
    BY <1>1, <1>4
  <2> HIDE DEF path
  <2>6. /\ chosen.pc = "copy" /\ chosen.h = k.h /\ chosen.codes = k.codes /\ chosen.i = k.i
        /\ chosen.path = path
    BY <1>2 DEF IdleHandler
  <2> HIDE DEF chosen
  <2>7. HandlerTyped(chosen)
    BY <1>2, <2>1, <2>4, <2>6 DEF HandlerTyped, Counting
  <2> QED
    BY <2>5, <2>6, <2>7 DEF Becomes
<1> QED
  BY <1>3, <1>4

\* The handler after a copy: m moves on to the next recipient.
LEMMA CopyLeadsTo ==
  ASSUME NEW p \in Slots, Copy(p) \/ CopyFails(p) \/ PersistFails(p)
  PROVE  \E m :
           /\ \E code \in Int : handler' = [handler EXCEPT ![p] = NextRecipient(m, code)]
           /\ m = handler[p] \/ m = Named(handler[p]) \/ \E done : m = Replaced(handler[p], done)
<1> DEFINE k == handler[p]
<1>1. CASE Copy(p)
  <2>1. PICK m, code : m = Named(k) /\ code = Accept
    OBVIOUS
  <2>2. handler' = [handler EXCEPT ![p] = NextRecipient(m, code)] /\ code \in Int
    BY <1>1, <2>1 DEF Copy, Accept
  <2> QED
    BY <2>1, <2>2
<1>2. CASE CopyFails(p) \/ PersistFails(p)
  <2>1. PICK m : /\ handler' = [handler EXCEPT ![p] = NextRecipient(m, UserUndisclosed)]
                 /\ m = k \/ \E done : m = Replaced(k, done)
    BY <1>2 DEF CopyFails, PersistFails
  <2>2. PICK code : code = UserUndisclosed
    OBVIOUS
  <2>3. handler' = [handler EXCEPT ![p] = NextRecipient(m, code)] /\ code \in Int
    BY <2>1, <2>2 DEF UserUndisclosed
  <2> QED
    BY <2>1, <2>3
<1> QED
  BY <1>1, <1>2

\* The end of a copy, whatever became of it.
LEMMA CopyBecomes ==
  ASSUME Inv, Typed, NEW p \in Slots, Copy(p) \/ CopyFails(p) \/ PersistFails(p)
  PROVE  \E k : Becomes(p, k)
<1> DEFINE k == handler[p]
<1>1. PICK m :
        /\ \E code \in Int : handler' = [handler EXCEPT ![p] = NextRecipient(m, code)]
        /\ m = k \/ m = Named(k) \/ \E done : m = Replaced(k, done)
  BY CopyLeadsTo
<1>2. /\ k.pc = "copy" /\ HandlerTyped(k)
      /\ k.codes \in Seq(Int) /\ DOMAIN k = DOMAIN IdleHandler(NullCode)
  BY DEF Copy, CopyFails, PersistFails, Inv, HandlersOK, HandlerOK, Typed, HandlersTyped
<1>3. /\ m.pc = k.pc /\ m.h = k.h /\ m.codes = k.codes /\ m.i = k.i /\ m.path = k.path
      /\ DOMAIN m = DOMAIN k
  BY <1>1, <1>2 DEF Named, Replaced, IdleHandler
<1>4. HandlerTyped(m) /\ m.i <= Len(LocalRecipients(m.h))
  BY <1>2, <1>3 DEF HandlerTyped, Counting
<1>5. PICK code \in Int : handler' = [handler EXCEPT ![p] = NextRecipient(m, code)]
  BY <1>1
<1>6. HandlerTyped(NextRecipient(m, code)) /\ NextRecipient(m, code).pc = "check"
  BY <1>2, <1>3, <1>4, NextRecipientIsTyped
<1> QED
  BY <1>5, <1>6 DEF Becomes

LEMMA StepBecomes ==
  ASSUME Inv, Typed, NEW p \in Slots, Arrive(p) \/ HandlerStep(p)
  PROVE  \E k : Becomes(p, k)
<1> DEFINE k == handler[p]
<1>1. HandlerTyped(k) /\ k.codes \in Seq(Int) /\ DOMAIN k = DOMAIN IdleHandler(NullCode)
  BY DEF Inv, HandlersOK, HandlerOK, Typed, HandlersTyped
<1>2. CASE Arrive(p)
  <2>1. PICK h \in arriving :
           handler' = [handler EXCEPT ![p] = [IdleHandler(NullCode) EXCEPT !.pc = "header", !.h = h]]
    BY <1>2 DEF Arrive
  <2> DEFINE n == [IdleHandler(NullCode) EXCEPT !.pc = "header", !.h = h]
  <2>2. n.pc = "header" /\ n.h \in AllHeaders /\ n.codes = <<>> /\ n.i = 1
    BY DEF IdleHandler, Typed
  <2>3. handler' = [handler EXCEPT ![p] = n]
    BY <2>1
  <2> HIDE DEF n
  <2>4. HandlerTyped(n)
    BY <2>2 DEF HandlerTyped, Counting
  <2> QED
    BY <2>2, <2>3, <2>4 DEF Becomes
<1>3. CASE Download(p) \/ StoreAcceptedMessage(p)
  <2>1. PICK pc \in {"check", "report"} : handler' = [handler EXCEPT ![p] = [k EXCEPT !.pc = pc]]
    BY <1>3 DEF Download, StoreAcceptedMessage
  <2> DEFINE n == [k EXCEPT !.pc = pc]
  <2>2. n.pc = pc /\ n.h = k.h /\ n.codes = k.codes /\ n.i = k.i
    BY <1>1 DEF IdleHandler
  <2>3. k.pc \in {"data", "check"}
    BY <1>3 DEF Download, StoreAcceptedMessage, AtEndOfLoop
  <2>4. k.h \in AllHeaders /\ (k.h.hasAddTo => k.h.pid # NoPid) /\ Len(k.codes) = k.i - 1
    BY <1>1, <2>3 DEF HandlerTyped
  <2>5. k.i \in 1..Len(LocalRecipients(k.h)) + 1
    <3>1. LocalRecipients(k.h) \in Seq(Addrs)
      BY <2>4, ArrivingHeader
    <3>2. Len(LocalRecipients(k.h)) \in Nat
      BY <3>1
    <3> QED
      BY <1>1, <2>3, <3>2 DEF HandlerTyped, Counting
  <2>6. handler' = [handler EXCEPT ![p] = n]
    BY <2>1
  <2> HIDE DEF n
  <2>7. HandlerTyped(n)
    BY <2>1, <2>2, <2>4, <2>5 DEF HandlerTyped, Counting
  <2> QED
    BY <2>1, <2>2, <2>6, <2>7 DEF Becomes
<1>4. CASE End(p)
  BY <1>4, EndBecomes
<1>5. CASE ReadHeader(p) \/ CheckRecipient(p) \/ Copy(p) \/ CopyFails(p) \/ PersistFails(p)
  BY <1>5, ReadHeaderBecomes, CheckRecipientBecomes, CopyBecomes
<1>6. GiveUp(p) \/ StoreNothing(p) \/ StoreFails(p) \/ RecordRecvUsage(p) \/ StoreMsgHeaderOnly(p)
        => End(p)
  BY DEF GiveUp, StoreNothing, StoreFails, RecordRecvUsage, StoreMsgHeaderOnly
<1> QED
  BY <1>2, <1>3, <1>4, <1>5, <1>6 DEF HandlerStep

\* Row y says of its message what r does.
SameMessage(y, r) ==
    /\ y.hash = r.hash /\ y.batch = r.batch /\ y.time = r.time
    /\ y.terminal = r.terminal /\ y.intact = r.intact

\* A batch attached to a message leaves the rows what they are, and adds its own.
LEMMA AttachedRows ==
  ASSUME Inv, NEW h, NEW w, AttachAddToRecipients(h, w)
  PROVE  /\ \A r \in db : \E y \in db' : SameMessage(y, r)
         /\ \A y \in db' : y = BatchRow(h, w) \/ \E r \in db : SameMessage(y, r)
<1> DEFINE New(r) == IF ~r.batch /\ r.hash = h.pid THEN [r EXCEPT !.addTo = @ \cup ToSet(h.addTo)] ELSE r
<1>1. db' = {New(r) : r \in db} \cup {BatchRow(h, w)}
  BY DEF AttachAddToRecipients
<1>2. ASSUME NEW r \in db PROVE SameMessage(New(r), r)
  <2>1. DOMAIN r = RowFields
    BY DEF Inv, RowsOK, RowOK
  <2> QED
    BY <2>1 DEF SameMessage, RowFields
<1> HIDE DEF New
<1>3. \A r \in db : New(r) \in db'
  BY <1>1
<1> QED
  BY <1>1, <1>2, <1>3

\* What storing leads to: the rows stay, and those that come are of header h.
RowOf(y, h) ==
    /\ y.hash \in {h.hash, Canonical(h)} /\ y.time = h.time
    /\ {y.batch, y.terminal, y.intact} \subseteq BOOLEAN

RowsGrow(h) ==
    /\ \A r \in db : \E y \in db' : SameMessage(y, r)
    /\ \A y \in db' : RowOf(y, h) \/ \E r \in db : SameMessage(y, r)

LEMMA BatchRowIsOf ==
  ASSUME NEW h, NEW w
  PROVE  RowOf(BatchRow(h, w), h)
BY DEF RowOf, BatchRow

LEMMA AttachGrows ==
  ASSUME Inv, NEW h, NEW w, AttachAddToRecipients(h, w)
  PROVE  RowsGrow(h)
BY AttachedRows, BatchRowIsOf DEF RowsGrow

LEMMA StoreGrows ==
  ASSUME Inv, NEW p \in Slots, StoreMsgDetail(p), IsHeader(handler[p].h)
  PROVE  RowsGrow(handler[p].h)
<1> DEFINE h == handler[p].h
<1>1. CASE MsgByHash(db, Canonical(h)) # {}
  BY <1>1, AttachGrows DEF StoreMsgDetail
<1>2. CASE MsgByHash(db, Canonical(h)) = {}
  <2>1. db \subseteq db'
    BY <1>2 DEF StoreMsgDetail
  <2>2. ASSUME NEW y \in db', y \notin db PROVE RowOf(y, h)
    <3>1. y = MsgRow(h, handler[p].primary, Wire(p)) \/ y = BatchRow(h, Wire(p))
      BY <1>2, <2>2 DEF StoreMsgDetail
    <3>2. RowOf(MsgRow(h, handler[p].primary, Wire(p)), h)
      BY DEF RowOf, MsgRow, IsHeader
    <3> QED
      BY <3>1, <3>2, BatchRowIsOf
  <2>3. \A r : SameMessage(r, r)
    BY DEF SameMessage
  <2> QED
    BY <2>1, <2>2, <2>3 DEF RowsGrow
<1> QED
  BY <1>1, <1>2

LEMMA StepRows ==
  ASSUME Inv, Typed, NEW p \in Slots, Arrive(p) \/ HandlerStep(p)
  PROVE  \/ UNCHANGED <<db, delivered>>
         \/ /\ RowsGrow(handler[p].h) /\ handler[p].pc \notin {"idle", "header"}
            /\ StoreMsgDetail(p) \/ (StoreMsgHeaderOnly(p) /\ AttachAddToRecipients(handler[p].h, NoPath))
<1>1. CASE StoreAcceptedMessage(p) \/ StoreFails(p)
  <2>1. handler[p].pc = "check"
    BY <1>1 DEF StoreAcceptedMessage, StoreFails, AtEndOfLoop
  <2>2. IsHeader(handler[p].h)
    BY <2>1, ArrivingHeader DEF Typed, HandlersTyped, HandlerTyped
  <2>3. StoreMsgDetail(p) \/ UNCHANGED <<db, delivered>>
    BY <1>1 DEF StoreAcceptedMessage, StoreFails
  <2> QED
    BY <2>1, <2>2, <2>3, StoreGrows
<1>2. CASE StoreMsgHeaderOnly(p)
  <2>1. handler[p].pc = "notify"
    BY <1>2 DEF StoreMsgHeaderOnly
  <2>2. AttachAddToRecipients(handler[p].h, NoPath) \/ UNCHANGED <<db, delivered>>
    BY <1>2 DEF StoreMsgHeaderOnly
  <2> QED
    BY <1>2, <2>1, <2>2, AttachGrows
<1>3. CASE ~(StoreAcceptedMessage(p) \/ StoreFails(p) \/ StoreMsgHeaderOnly(p))
  BY <1>3 DEF HandlerStep, Arrive, ReadHeader, Download, GiveUp, CheckRecipient, Copy, CopyFails,
     PersistFails, StoreNothing, RecordRecvUsage
<1> QED
  BY <1>1, <1>2, <1>3

\* The parents that are stored stay stored.
LEMMA ParentsStay ==
  ASSUME Inv, Typed, NEW p \in Slots, Arrive(p) \/ HandlerStep(p), NEW x
  PROVE  /\ MsgByHash(db, x) # {} => MsgByHash(db', x) # {}
         /\ x \in {r.hash : r \in db} => x \in {r.hash : r \in db'}
<1>1. \A r \in db : \E y \in db' : SameMessage(y, r)
  <2>1. \A r : SameMessage(r, r)
    BY DEF SameMessage
  <2> QED
    BY <2>1, StepRows DEF RowsGrow
<1> QED
  BY <1>1 DEF MsgByHash, SameMessage

LEMMA RowsStayTyped ==
  ASSUME Inv, Typed, NEW p \in Slots, Arrive(p) \/ HandlerStep(p)
  PROVE  RowsTyped'
<1> DEFINE h == handler[p].h
<1>1. CASE UNCHANGED db
  BY <1>1 DEF Typed, RowsTyped
<1>2. CASE RowsGrow(h) /\ handler[p].pc \notin {"idle", "header"}
  <2>1. h \in AllHeaders /\ (h.hasAddTo => h.pid # NoPid)
    BY <1>2 DEF Typed, HandlersTyped, HandlerTyped
  <2>2. IsHeader(h)
    BY <2>1, ArrivingHeader
  <2>3. ASSUME NEW y \in db', RowOf(y, h) PROVE IsRow(y)
    <3>1. h.hash # NoPid /\ Canonical(h) # NoPid /\ h.time \in Int
      BY <2>1, <2>2 DEF IsHeader, Canonical
    <3> QED
      BY <2>3, <3>1 DEF RowOf, IsRow
  <2>4. ASSUME NEW y \in db', NEW r \in db, SameMessage(y, r) PROVE IsRow(y)
    BY <2>4 DEF SameMessage, IsRow, Typed, RowsTyped
  <2>5. \A y \in db' : IsRow(y)
    BY <1>2, <2>3, <2>4 DEF RowsGrow
  <2> QED
    BY <2>5 DEF RowsTyped
<1> QED
  BY <1>1, <1>2, StepRows

\* A delivered recipient has an address, of a message that is stored.
LEMMA DeliveredStaysOK ==
  ASSUME Inv, Typed, NEW p \in Slots, Arrive(p) \/ HandlerStep(p)
  PROVE  DeliveredOK'
<1> DEFINE h == handler[p].h
           Hashes == {r.hash : r \in db}
           NewHashes == {r.hash : r \in db'}
<1>1. Hashes \subseteq NewHashes
  BY ParentsStay
<1>2. delivered \subseteq NewHashes \X Addrs
  BY <1>1 DEF Typed, DeliveredOK
<1>3. CASE UNCHANGED delivered
  BY <1>2, <1>3 DEF DeliveredOK
<1>4. CASE /\ handler[p].pc \notin {"idle", "header"}
           /\ StoreMsgDetail(p) \/ (StoreMsgHeaderOnly(p) /\ AttachAddToRecipients(h, NoPath))
  <2>1. h \in AllHeaders
    BY <1>4 DEF Typed, HandlersTyped, HandlerTyped
  <2>2. LocalRecipients(h) \in Seq(Addrs) /\ LocalIn(h.addTo) \in Seq(Addrs)
    BY <2>1, ArrivingHeader, LocalInType DEF IsHeader
  <2>3. ToSet(LocalRecipients(h)) \subseteq Addrs /\ ToSet(LocalIn(h.addTo)) \subseteq Addrs
    BY <2>2 DEF ToSet
  <2>4. ASSUME NEW w, AttachAddToRecipients(h, w), MsgByHash(db, h.pid) # {} PROVE DeliveredOK'
    <3>1. h.pid \in NewHashes
      BY <1>1, <2>4 DEF MsgByHash
    <3>2. delivered' = delivered \cup ({h.pid} \X (ToSet(LocalIn(h.addTo)) \cap OwnCase))
      BY <2>4 DEF AttachAddToRecipients
    <3> HIDE DEF NewHashes
    <3>3. delivered' \subseteq NewHashes \X Addrs
      BY <1>2, <2>3, <3>1, <3>2
    <3> QED
      BY <3>3 DEF DeliveredOK, NewHashes
  <2>5. CASE StoreMsgHeaderOnly(p) /\ AttachAddToRecipients(h, NoPath)
    <3>1. MsgByHash(db, h.pid) # {}
      BY <2>5 DEF StoreMsgHeaderOnly, Typed, NotifyOK
    <3> QED
      BY <2>4, <2>5, <3>1
  <2>6. CASE StoreMsgDetail(p) /\ MsgByHash(db, Canonical(h)) # {}
    <3>1. h.hasAddTo /\ Canonical(h) = h.pid
      BY <2>6 DEF StoreMsgDetail, Collides, Canonical
    <3>2. AttachAddToRecipients(h, Wire(p))
      BY <2>6 DEF StoreMsgDetail
    <3> QED
      BY <2>4, <2>6, <3>1, <3>2
  <2>7. CASE StoreMsgDetail(p) /\ MsgByHash(db, Canonical(h)) = {}
    <3>1. /\ MsgRow(h, handler[p].primary, Wire(p)) \in db'
          /\ delivered' = delivered \cup
               {<<Canonical(h), a>> : a \in {b \in ToSet(Recipients(p)) : LocalOutcome(p, b) = Accept}}
      BY <2>7 DEF StoreMsgDetail
    <3>2. MsgRow(h, handler[p].primary, Wire(p)).hash = Canonical(h)
      BY DEF MsgRow
    <3>3. Canonical(h) \in NewHashes
      BY <3>1, <3>2
    <3> HIDE DEF NewHashes
    <3>4. delivered' \subseteq NewHashes \X Addrs
      BY <1>2, <2>3, <3>1, <3>3 DEF Recipients
    <3> QED
      BY <3>4 DEF DeliveredOK, NewHashes
  <2> QED
    BY <1>4, <2>5, <2>6, <2>7
<1> QED
  BY <1>3, <1>4, StepRows

\* A copy is written to the path the handler chose.
LEMMA FilesStayOK ==
  ASSUME Inv, Typed, NEW p \in Slots, Arrive(p) \/ HandlerStep(p)
  PROVE  FilesOK'
<1> DEFINE path == handler[p].path
<1>1. CASE UNCHANGED files
  BY <1>1 DEF Typed, FilesOK
<1>2. CASE handler[p].pc = "copy" /\ files' = Written(p)
  <2>1. path \in Addrs \X Nat \X Nat
    BY <1>2 DEF Typed, HandlersTyped, HandlerTyped
  <2>2. DOMAIN files' = DOMAIN files \cup {path}
    BY <1>2 DEF Written
  <2>3. IsFiniteSet(DOMAIN files')
    BY <2>2, FS_AddElement DEF Typed, FilesOK
  <2> QED
    BY <2>1, <2>2, <2>3 DEF Typed, FilesOK
<1>3. CASE CopyFails(p)
  <2> DEFINE rest == [f \in DOMAIN files \ {path} |-> files[f]]
  <2>1. handler[p].pc = "copy" /\ files' \in {files, Written(p), rest}
    BY <1>3 DEF CopyFails
  <2>2. CASE files' = rest
    <3>1. DOMAIN files' = DOMAIN files \ {path}
      BY <2>2
    <3>2. IsFiniteSet(DOMAIN files')
      BY <3>1, FS_RemoveElement DEF Typed, FilesOK
    <3> QED
      BY <3>1, <3>2 DEF Typed, FilesOK
  <2> HIDE DEF rest
  <2> QED
    BY <1>1, <1>2, <2>1, <2>2
<1>4. \/ UNCHANGED files
      \/ handler[p].pc = "copy" /\ files' = Written(p)
      \/ CopyFails(p)
  <2>1. CASE GiveUp(p)
    BY <2>1 DEF GiveUp
  <2>2. CASE Copy(p) \/ PersistFails(p)
    BY <2>2 DEF Copy, PersistFails
  <2>3. CASE ~(GiveUp(p) \/ Copy(p) \/ PersistFails(p) \/ CopyFails(p))
    BY <2>3 DEF HandlerStep, Arrive, ReadHeader, Download, CheckRecipient, StoreNothing,
       StoreAcceptedMessage, StoreFails, RecordRecvUsage, StoreMsgHeaderOnly
  <2> QED
    BY <2>1, <2>2, <2>3
<1> QED
  BY <1>1, <1>2, <1>3, <1>4

LEMMA WiresStayOK ==
  ASSUME Inv, Typed, NEW p \in Slots, Arrive(p) \/ HandlerStep(p)
  PROVE  WiresOK'
<1>1. CASE wires' \subseteq wires
  BY <1>1 DEF Typed, WiresOK
<1>2. CASE handler[p].pc = "copy" /\ wires' = wires \cup {Wire(p)}
  <2>1. handler[p].h.hash \in HeaderHashes
    BY <1>2, ArrivingHeader DEF Typed, HandlersTyped, HandlerTyped
  <2> QED
    BY <1>2, <2>1 DEF Typed, WiresOK, Wire
<1>3. wires' \subseteq wires \/ (handler[p].pc = "copy" /\ wires' = wires \cup {Wire(p)})
  <2>1. CASE Copy(p) \/ PersistFails(p)
    BY <2>1 DEF Copy, PersistFails
  <2>2. CASE ~(Copy(p) \/ PersistFails(p))
    BY <2>2 DEF HandlerStep, Arrive, ReadHeader, Download, GiveUp, CheckRecipient, CopyFails,
       StoreNothing, StoreAcceptedMessage, StoreFails, RecordRecvUsage, StoreMsgHeaderOnly
  <2> QED
    BY <2>1, <2>2
<1> QED
  BY <1>1, <1>2, <1>3

\* The entries of address a among those in E.
EntriesFor(p, E, a) == {i \in E : Recipients(p)[i] = a}

LEMMA EntriesFinite ==
  ASSUME Inv, NEW p \in Slots, NEW E \in SUBSET AcceptedEntries(p), NEW a
  PROVE  IsFiniteSet(EntriesFor(p, E, a)) /\ Cardinality(EntriesFor(p, E, a)) \in Nat
<1>1. handler[p].codes \in Seq(Int)
  BY DEF Inv, HandlersOK, HandlerOK
<1>2. PICK n \in Nat : DOMAIN handler[p].codes = 1..n
  BY <1>1
<1>3. EntriesFor(p, E, a) \in SUBSET (1..n)
  BY <1>2 DEF EntriesFor, AcceptedEntries
<1>4. IsFiniteSet(1..n)
  BY <1>2, FS_Interval
<1> QED
  BY <1>3, <1>4, FS_Subset, FS_CardinalityType

LEMMA UsageStaysOK ==
  ASSUME Inv, Typed, NEW p \in Slots, Arrive(p) \/ HandlerStep(p)
  PROVE  UsageOK'
<1>1. CASE UNCHANGED usage
  BY <1>1 DEF Typed, UsageOK
<1>2. CASE RecordRecvUsage(p)
  <2> DEFINE size == StoredSize(handler[p].h)
  <2>1. PICK lost \in SUBSET AcceptedEntries(p) :
          usage' = [a \in Users |-> Charged(usage[a],
                Cardinality({i \in AcceptedEntries(p) \ lost : Recipients(p)[i] = a}), size)]
    BY <1>2 DEF RecordRecvUsage
  <2>2. size \in Nat
    <3>1. handler[p].h \in AllHeaders
      BY <1>2 DEF RecordRecvUsage, Typed, HandlersTyped, HandlerTyped
    <3> QED
      BY <3>1, ArrivingHeader
  <2> HIDE DEF size
  <2>3. ASSUME NEW a \in Users, NEW n \in Nat
        PROVE  Charged(usage[a], n, size) \in [count : Nat, day : Nat, total : Nat]
    <3>1. usage[a] \in [count : Nat, day : Nat, total : Nat]
      BY DEF Typed, UsageOK
    <3>2. n * size \in Nat
      BY <2>2
    <3> QED
      BY <3>1, <3>2 DEF Charged
  <2>4. ASSUME NEW a \in Users
        PROVE  Cardinality({i \in AcceptedEntries(p) \ lost : Recipients(p)[i] = a}) \in Nat
    <3>1. AcceptedEntries(p) \ lost \in SUBSET AcceptedEntries(p)
      OBVIOUS
    <3> QED
      BY <3>1, EntriesFinite DEF EntriesFor
  <2> QED
    BY <2>1, <2>3, <2>4 DEF UsageOK
<1>3. CASE ~RecordRecvUsage(p)
  BY <1>1, <1>3 DEF HandlerStep, Arrive, ReadHeader, Download, GiveUp, CheckRecipient, Copy,
     CopyFails, PersistFails, StoreNothing, StoreAcceptedMessage, StoreFails, StoreMsgHeaderOnly
<1> QED
  BY <1>2, <1>3

\* The rest changes by the bounded counters alone.
LEMMA RestStaysOK ==
  ASSUME Typed, NEW p \in Slots, Arrive(p) \/ HandlerStep(p)
  PROVE  arriving' \subseteq AllHeaders /\ days' \in 0..MaxDays /\ faults' \in 0..MaxFaults
<1>1. arriving' \subseteq arriving /\ days' = days
  BY DEF HandlerStep, Arrive, ReadHeader, Download, GiveUp, CheckRecipient, Copy, CopyFails,
     PersistFails, StoreNothing, StoreAcceptedMessage, StoreFails, RecordRecvUsage,
     StoreMsgHeaderOnly
<1>2. UNCHANGED faults \/ Fault
  BY DEF HandlerStep, Arrive, ReadHeader, Download, GiveUp, CheckRecipient, Copy, CopyFails,
     PersistFails, StoreNothing, StoreAcceptedMessage, StoreFails, RecordRecvUsage,
     StoreMsgHeaderOnly
<1>3. Fault => faults' \in 0..MaxFaults
  BY IntakeAssumption DEF Typed, Fault
<1> QED
  BY <1>1, <1>2, <1>3 DEF Typed

LEMMA NextKeepsTyped == Inv /\ Typed /\ [Next]_vars => Typed'
<1> SUFFICES ASSUME Inv, Typed, [Next]_vars PROVE Typed'
  OBVIOUS
<1>1. CASE UNCHANGED vars
  BY <1>1 DEF vars, Typed, HandlersTyped, NotifyOK, RowsTyped, DeliveredOK, FilesOK, WiresOK, UsageOK
<1>2. CASE NewDay
  <2>1. UNCHANGED <<arriving, handler, db, delivered, files, wires, faults>>
    BY <1>2 DEF NewDay
  <2>2. UsageOK'
    BY <1>2 DEF NewDay, Typed, UsageOK
  <2>3. days' \in 0..MaxDays
    <3>1. MaxDays \in Nat
      BY IntakeAssumption
    <3>2. days \in 0..MaxDays /\ days < MaxDays /\ days' = days + 1
      BY <1>2 DEF NewDay, Typed
    <3> QED
      BY <3>1, <3>2
  <2> QED
    BY <2>1, <2>2, <2>3 DEF Typed, HandlersTyped, NotifyOK, RowsTyped, DeliveredOK, FilesOK, WiresOK
<1>3. ASSUME NEW p \in Slots, Arrive(p) \/ HandlerStep(p) PROVE Typed'
  <2>1. PICK k : Becomes(p, k)
    BY <1>3, StepBecomes
  <2>2. handler' = [handler EXCEPT ![p] = k] /\ DOMAIN handler = Slots
    BY <2>1 DEF Becomes, Inv, HandlersOK
  <2>3. HandlersTyped'
    BY <2>1, <2>2 DEF Becomes, HandlersTyped, Typed
  <2>4. NotifyOK'
    <3> SUFFICES ASSUME NEW q \in Slots, handler'[q].pc = "notify"
                 PROVE  handler'[q].h.hasAddTo /\ MsgByHash(db', handler'[q].h.pid) # {}
      BY DEF NotifyOK
    <3>1. handler'[q].h.hasAddTo /\ MsgByHash(db, handler'[q].h.pid) # {}
      BY <2>1, <2>2 DEF Becomes, Typed, NotifyOK
    <3>2. PICK pid : pid = handler'[q].h.pid
      OBVIOUS
    <3> QED
      BY <1>3, <3>1, <3>2, ParentsStay
  <2> QED
    BY <1>3, <2>3, <2>4, RowsStayTyped, DeliveredStaysOK, FilesStayOK, WiresStayOK, UsageStaysOK,
       RestStaysOK DEF Typed
<1> QED
  BY <1>1, <1>2, <1>3 DEF Next

----------------------------------------------------------------------------
LEMMA TypedInvariance == Spec => [](Inv /\ Typed)
BY InitInv, NextKeepsInv, InitTyped, NextKeepsTyped, PTL DEF Spec

\* Every handler has a code for each recipient it is through with and no more, whoever
\* refuses and whatever fails; what is delivered is delivered of a stored message, to an
\* address (downloadMessage, storeMsgDetail).
THEOREM TypeCorrect == Spec => []TypeOK
<1>1. Inv /\ Typed => TypeOK
  <2> SUFFICES ASSUME Inv, Typed PROVE TypeOK
    OBVIOUS
  <2>1. ASSUME NEW p \in Slots
        PROVE  /\ handler[p].pc \in Pcs
               /\ handler[p].pc # "idle" =>
                      /\ Len(handler[p].codes) = handler[p].i - 1
                      /\ handler[p].i \in 1..Len(Recipients(p)) + 1
    <3>1. handler[p].pc \in Pcs
      BY DEF Inv, HandlersOK, HandlerOK
    <3>2. ASSUME handler[p].pc # "idle"
          PROVE  handler[p].i \in 1..Len(Recipients(p)) + 1
      <4>1. LocalRecipients(handler[p].h) \in Seq(Addrs)
        BY <3>2, ArrivingHeader DEF Typed, HandlersTyped, HandlerTyped
      <4>2. Len(Recipients(p)) \in Nat
        BY <4>1 DEF Recipients
      <4> QED
        BY <4>2 DEF Typed, HandlersTyped, HandlerTyped, Recipients
    <3> QED
      BY <3>1, <3>2 DEF Typed, HandlersTyped, HandlerTyped
  <2> QED
    BY <2>1 DEF TypeOK, Typed, DeliveredOK, FilesOK, WiresOK, UsageOK
<1> QED
  BY <1>1, TypedInvariance, PTL

\* The checks of readHeader, made one by one as the fields arrive, decide what SPEC.md's
\* rules decide (10.3, 10.4), for any header, rows, clock and deltas, but for what
\* Comparable leaves out.
THEOREM HeadersAgree == Spec => HeaderAgrees
<1> DEFINE Agrees(p) ==
      handler[p].pc = "header" /\ handler'[p].pc # "header" =>
         (Comparable(handler[p].h, db) =>
              SpecAllows(handler'[p].verdict, handler[p].h, Now, db))
<1>1. Inv /\ Typed /\ [Next]_vars => [\A p \in Slots : Agrees(p)]_vars
  <2> SUFFICES ASSUME Inv, Typed, Next, NEW p \in Slots,
                      handler[p].pc = "header", handler'[p].pc # "header",
                      Comparable(handler[p].h, db)
               PROVE  SpecAllows(handler'[p].verdict, handler[p].h, Now, db)
    BY DEF vars
  <2> DEFINE k == handler[p]
  <2>1. ASSUME NEW q \in Slots, Arrive(q) \/ HandlerStep(q), q # p PROVE FALSE
    <3>1. PICK m : handler' = [handler EXCEPT ![q] = m]
      BY <2>1, StepBecomes DEF Becomes
    <3> QED
      BY <2>1, <3>1 DEF Inv, HandlersOK
  <2>2. ReadHeader(p)
    <3>1. ~NewDay
      BY DEF NewDay
    <3>2. Arrive(p) \/ HandlerStep(p)
      BY <2>1, <3>1 DEF Next
    <3> QED
      BY <3>2 DEF Arrive, HandlerStep, Download, GiveUp, CheckRecipient, Copy, CopyFails,
         PersistFails, StoreNothing, StoreAcceptedMessage, StoreFails, RecordRecvUsage,
         StoreMsgHeaderOnly, AtEndOfLoop
  <2> DEFINE verdict == ReadHeaderVerdict(k.h, Now, db)
  <2>3. handler'[p].verdict = verdict
    BY <2>2, ReadLeadsTo
  <2>4. IsHeader(k.h)
    BY ArrivingHeader DEF Typed, HandlersTyped, HandlerTyped
  <2>5. \A r \in db : IsRow(r)
    BY DEF Typed, RowsTyped
  <2>6. SpecAllows(verdict, k.h, Now, db)
    BY <2>4, <2>5, IntakeAssumption, HeaderDecision
  <2> HIDE DEF verdict
  <2> QED
    BY <2>3, <2>6
<1> QED
  BY <1>1, TypedInvariance, PTL DEF Spec, HeaderAgrees

----------------------------------------------------------------------------
(***************************************************************************)
(* Counting.                                                               *)
(***************************************************************************)
\* Finitely many fibres, of at most m elements each.
LEMMA Fibres ==
  ASSUME NEW S, IsFiniteSet(S), NEW F, NEW m \in Nat, NEW D,
         \A x \in S : IsFiniteSet(F[x]) /\ Cardinality(F[x]) <= m,
         \A e \in D : e = <<e[1], e[2]>> /\ e[1] \in S /\ e[2] \in F[e[1]]
  PROVE  /\ IsFiniteSet(D) /\ Cardinality(D) \in Nat
         /\ Cardinality(D) <= Cardinality(S) * m
<1>1. ASSUME NEW x \in S PROVE \E f : f \in Injection(F[x], 1..m)
  <2>1. IsFiniteSet(F[x]) /\ Cardinality(F[x]) \in Nat /\ Cardinality(F[x]) <= m
    BY FS_CardinalityType
  <2> DEFINE n == Cardinality(F[x])
  <2>2. ExistsBijection(1..n, F[x])
    BY <2>1, FS_CardinalityType
  <2>3. PICK f \in Bijection(F[x], 1..n) : TRUE
    BY <2>2, Fun_ExistsBijSymmetric DEF ExistsBijection
  <2>4. 1..n \subseteq 1..m
    BY <2>1
  <2>5. f \in [F[x] -> 1..m] /\ IsInjective(f)
    BY <2>3, <2>4 DEF Bijection, Injection, Surjection
  <2> QED
    BY <2>5 DEF Injection
<1> DEFINE number == [x \in S |-> CHOOSE f : f \in Injection(F[x], 1..m)]
<1>2. \A x \in S : number[x] \in Injection(F[x], 1..m)
  BY <1>1
<1> HIDE DEF number
<1>3. \A x \in S : /\ \A y \in F[x] : number[x][y] \in 1..m
                   /\ \A y, z \in F[x] : number[x][y] = number[x][z] => y = z
  BY <1>2 DEF Injection, IsInjective
<1> DEFINE G(e) == <<e[1], number[e[1]][e[2]]>>
           g == [e \in D |-> G(e)]
<1>4. \A e \in D : G(e) \in S \X (1..m)
  BY <1>3
<1>5. \A d, e \in D : G(d) = G(e) => d = e
  BY <1>3
<1> HIDE DEF G
<1>6. g \in Injection(D, S \X (1..m))
  BY <1>4, <1>5 DEF Injection, IsInjective
<1>7. IsFiniteSet(1..m) /\ Cardinality(1..m) = m
  BY FS_Interval
<1>8. IsFiniteSet(S \X (1..m)) /\ Cardinality(S \X (1..m)) = Cardinality(S) * m
  BY <1>7, FS_Product
<1> HIDE DEF g
<1> QED
  BY <1>6, <1>8, FS_Injection, FS_CardinalityType

\* A finite set of numbers has a bound: a smallest one without would have one once an
\* element is taken out.
LEMMA BoundExists ==
  ASSUME NEW S, S \subseteq Nat, IsFiniteSet(S)
  PROVE  \E u \in Nat : \A n \in S : n <= u
<1> DEFINE Bounded(T) == \E u \in Nat : \A n \in T : n <= u
           Bad == {c \in Nat : \E T \in SUBSET Nat :
                                  IsFiniteSet(T) /\ Cardinality(T) = c /\ ~Bounded(T)}
<1> SUFFICES ASSUME ~Bounded(S) PROVE FALSE
  OBVIOUS
<1>1. Cardinality(S) \in Bad
  BY FS_CardinalityType
<1>2. PICK c \in Bad : \A d \in Bad : c <= d
  <2>1. Bad \subseteq Nat /\ Bad # {}
    BY <1>1
  <2> HIDE DEF Bad
  <2> QED
    BY <2>1, LeastNumber
<1>3. PICK T \in SUBSET Nat : IsFiniteSet(T) /\ Cardinality(T) = c /\ ~Bounded(T)
  BY <1>2
<1>4. PICK x \in T : TRUE
  BY <1>3
<1> DEFINE U == T \ {x}
<1>5. IsFiniteSet(U) /\ Cardinality(U) = c - 1 /\ Cardinality(U) \in Nat /\ U \in SUBSET Nat
  BY <1>3, <1>4, FS_RemoveElement, FS_CardinalityType
<1>6. Bounded(U)
  <2>1. Cardinality(U) \notin Bad
    BY <1>2, <1>5
  <2> HIDE DEF U, Bounded
  <2> QED
    BY <1>5, <2>1
<1>7. PICK u \in Nat : \A n \in U : n <= u
  BY <1>6
<1>8. \A n \in T : n <= u \/ n = x
  BY <1>7
<1>9. x \in Nat
  BY <1>4
<1> HIDE DEF U
<1>10. Bounded(T)
  <2>1. CASE x <= u
    BY <1>8, <2>1
  <2>2. CASE u <= x
    <3>1. \A n \in T : n \in Nat /\ n <= x
      BY <1>8, <1>9, <2>2
    <3> QED
      BY <1>9, <3>1
  <2> QED
    BY <1>9, <2>1, <2>2
<1> QED
  BY <1>3, <1>10

\* The greatest element of one that is not empty.
LEMMA MaxIs ==
  ASSUME NEW S, S \subseteq Nat, S # {}, IsFiniteSet(S)
  PROVE  Max(S) \in S /\ \A n \in S : n <= Max(S)
<1> DEFINE Bounds == {u \in Nat : \A n \in S : n <= u}
<1>1. PICK u \in Bounds : \A v \in Bounds : u <= v
  <2>1. Bounds \subseteq Nat /\ Bounds # {}
    BY BoundExists
  <2> HIDE DEF Bounds
  <2> QED
    BY <2>1, LeastNumber
<1>2. u \in S
  <2> SUFFICES ASSUME u \notin S PROVE FALSE
    OBVIOUS
  <2>1. PICK x \in S : TRUE
    OBVIOUS
  <2>2. \A n \in S : n \in Nat /\ n < u
    BY <1>1
  <2>3. u - 1 \in Nat /\ \A n \in S : n <= u - 1
    BY <1>1, <2>1, <2>2
  <2> QED
    BY <1>1, <2>3
<1>3. \E m \in S : \A n \in S : m >= n
  BY <1>1, <1>2
<1>4. Max(S) \in S /\ \A n \in S : Max(S) >= n
  BY <1>3 DEF Max
<1> QED
  BY <1>4

----------------------------------------------------------------------------
(***************************************************************************)
(* What is on its way to being reported.                                   *)
(***************************************************************************)
\* Header h's entries for address a.
Entries(h, a) == {i \in DOMAIN LocalRecipients(h) : LocalRecipients(h)[i] = a}

LEMMA EntriesCounted ==
  ASSUME NEW h \in AllHeaders, NEW a
  PROVE  /\ IsFiniteSet(Entries(h, a)) /\ EntriesOf(h, a) \in Nat
         /\ EntriesOf(h, a) = Cardinality(Entries(h, a))
         /\ Entries(h, a) # {} => EntriesOf(h, a) > 0
<1>1. PICK n \in Nat : DOMAIN LocalRecipients(h) = 1..n
  BY ArrivingHeader
<1>2. IsFiniteSet(1..n)
  BY <1>1, FS_Interval
<1>3. Entries(h, a) \in SUBSET (1..n)
  BY <1>1 DEF Entries
<1>4. IsFiniteSet(Entries(h, a))
  BY <1>2, <1>3, FS_Subset
<1>5. EntriesOf(h, a) = Cardinality(Entries(h, a))
  BY DEF EntriesOf, Entries
<1> QED
  BY <1>4, <1>5, FS_CardinalityType, FS_EmptySet

LEMMA LimitedFinite ==
  /\ IsFiniteSet(ForLimited) /\ ForLimited \subseteq AllHeaders
  /\ IsFiniteSet(LimitedUsers) /\ LimitedUsers \subseteq Users
<1>1. ForLimited \in SUBSET AllHeaders /\ LimitedUsers \in SUBSET Users
  BY DEF ForLimited, LimitedUsers
<1>2. IsFiniteSet(AllHeaders) /\ IsFiniteSet(Users)
  BY IntakeAssumption DEF AllHeaders
<1> QED
  BY <1>1, <1>2, FS_Subset

LEMMA MostEntriesIs ==
  /\ MostEntries \in Nat
  /\ \A h \in ForLimited, a \in LimitedUsers : EntriesOf(h, a) <= MostEntries
<1> DEFINE P == ForLimited \X LimitedUsers
           Counts == {EntriesOf(h, a) : h \in ForLimited, a \in LimitedUsers}
           f == [x \in P |-> EntriesOf(x[1], x[2])]
<1>1. IsFiniteSet(P)
  BY LimitedFinite, FS_Product
<1>2. f \in Surjection(P, Counts)
  <2>1. \A x \in P : f[x] \in Counts
    OBVIOUS
  <2>2. ASSUME NEW n \in Counts PROVE \E x \in P : f[x] = n
    <3>1. PICK h \in ForLimited, a \in LimitedUsers : n = EntriesOf(h, a)
      OBVIOUS
    <3>2. <<h, a>> \in P /\ f[<<h, a>>] = n
      BY <3>1
    <3> QED
      BY <3>2
  <2>3. f \in [P -> Counts]
    BY <2>1
  <2> HIDE DEF f, P, Counts
  <2> QED
    BY <2>2, <2>3 DEF Surjection
<1>3. IsFiniteSet(Counts)
  <2> HIDE DEF f, P, Counts
  <2> QED
    BY <1>1, <1>2, FS_Surjection
<1>4. Counts \subseteq Nat
  BY LimitedFinite, EntriesCounted
<1> DEFINE S == {0} \cup Counts
<1>5. S \subseteq Nat /\ S # {} /\ IsFiniteSet(S)
  <2>1. S = Counts \cup {0}
    OBVIOUS
  <2> HIDE DEF Counts
  <2> QED
    BY <1>3, <1>4, <2>1, FS_AddElement
<1>6. Max(S) \in S /\ \A n \in S : n <= Max(S)
  <2> HIDE DEF S
  <2> QED
    BY <1>5, MaxIs
<1>7. MostEntries = Max(S)
  BY DEF MostEntries
<1>8. \A h \in ForLimited, a \in LimitedUsers : EntriesOf(h, a) \in S
  OBVIOUS
<1> HIDE DEF S
<1> QED
  BY <1>5, <1>6, <1>7, <1>8

LEMMA LargestIs ==
  /\ Largest \in Nat
  /\ \A h \in ForLimited : StoredSize(h) <= Largest
  /\ ForLimited = {} => Largest = 0
<1> DEFINE Sizes == {StoredSize(h) : h \in ForLimited}
           f == [h \in ForLimited |-> StoredSize(h)]
<1>1. f \in Surjection(ForLimited, Sizes)
  BY DEF Surjection
<1>2. IsFiniteSet(Sizes)
  <2> HIDE DEF f, Sizes
  <2> QED
    BY <1>1, LimitedFinite, FS_Surjection
<1>3. Sizes \subseteq Nat
  BY LimitedFinite, ArrivingHeader
<1> DEFINE S == {0} \cup Sizes
<1>4. S \subseteq Nat /\ S # {} /\ IsFiniteSet(S)
  <2>1. S = Sizes \cup {0}
    OBVIOUS
  <2> HIDE DEF Sizes
  <2> QED
    BY <1>2, <1>3, <2>1, FS_AddElement
<1>5. Max(S) \in S /\ \A n \in S : n <= Max(S)
  <2> HIDE DEF S
  <2> QED
    BY <1>4, MaxIs
<1>6. Largest = Max(S)
  BY DEF Largest
<1>7. \A h \in ForLimited : StoredSize(h) \in S
  OBVIOUS
<1>8. ForLimited = {} => S = {0}
  OBVIOUS
<1>9. ForLimited = {} => Max(S) = 0
  BY <1>5, <1>8
<1> HIDE DEF S
<1>10. \A h \in ForLimited : StoredSize(h) <= Max(S)
  BY <1>5, <1>7
<1>11. Max(S) \in Nat
  BY <1>4, <1>5
<1> QED
  BY <1>6, <1>9, <1>10, <1>11

\* A header with an entry for a limited user counts in both.
LEMMA EntriesBounded ==
  ASSUME NEW h \in AllHeaders, NEW a \in LimitedUsers
  PROVE  /\ EntriesOf(h, a) <= MostEntries
         /\ Entries(h, a) # {} => StoredSize(h) <= Largest /\ MostEntries >= 1
<1>1. EntriesOf(h, a) \in Nat /\ (Entries(h, a) # {} => EntriesOf(h, a) > 0)
  BY EntriesCounted
<1>2. CASE EntriesOf(h, a) > 0
  <2>1. h \in ForLimited
    BY <1>2 DEF ForLimited
  <2> QED
    BY <1>1, <1>2, <2>1, MostEntriesIs, LargestIs
<1>3. CASE ~(EntriesOf(h, a) > 0)
  BY <1>1, <1>3, MostEntriesIs
<1> QED
  BY <1>2, <1>3

LEMMA Products ==
  /\ \A m, n \in Nat : m * n \in Nat
  /\ \A m, n, s \in Nat : m <= n => m * s <= n * s
<1>1. \A m, n \in Nat : m * n \in Nat
  OBVIOUS
<1>2. ASSUME NEW m \in Nat, NEW n \in Nat, NEW s \in Nat, m <= n PROVE m * s <= n * s
  <2>1. PICK d \in Nat : n = m + d
    <3>1. n - m \in Nat /\ n = m + (n - m)
      BY <1>2
    <3> QED
      BY <3>1
  <2>2. (m + d) * s = m * s + d * s
    OBVIOUS
  <2>3. d * s \in Nat /\ m * s \in Nat
    BY <1>1
  <2> QED
    BY <2>1, <2>2, <2>3
<1> QED
  BY <1>1, <1>2

\* How far beyond its limit a user's quota may be overrun.
Overrun == (Cardinality(Slots) * MostEntries - 1) * Largest

LEMMA OverrunIs ==
  /\ Cardinality(Slots) \in Nat /\ Cardinality(Slots) * MostEntries \in Nat
  /\ Overrun \in Nat
<1>1. Cardinality(Slots) \in Nat /\ Cardinality(Slots) # 0
  BY IntakeAssumption, FS_CardinalityType, FS_EmptySet
<1>2. MostEntries \in Nat /\ Largest \in Nat
  BY MostEntriesIs, LargestIs
<1>3. Cardinality(Slots) * MostEntries \in Nat
  BY <1>1, <1>2, Products
<1>4. CASE ForLimited = {}
  <2>1. \A n \in Int : n * 0 = 0
    OBVIOUS
  <2>2. PICK n \in Int : n = Cardinality(Slots) * MostEntries - 1
    BY <1>3
  <2>3. Overrun = n * Largest /\ Largest = 0
    <3>1. Overrun = n * Largest
      BY <2>2 DEF Overrun
    <3> QED
      BY <1>4, <3>1, LargestIs
  <2>4. Overrun = 0
    BY <2>1, <2>3
  <2> QED
    BY <1>1, <1>3, <2>4
<1>5. CASE ForLimited # {}
  <2>1. PICK h \in ForLimited, a \in LimitedUsers : EntriesOf(h, a) > 0
    BY <1>5 DEF ForLimited
  <2>2. MostEntries >= 1
    BY <2>1, <1>2, MostEntriesIs, LimitedFinite, EntriesCounted
  <2>3. 1 * MostEntries <= Cardinality(Slots) * MostEntries
    BY <1>1, <1>2, Products
  <2>4. Cardinality(Slots) * MostEntries - 1 \in Nat
    BY <1>2, <1>3, <2>2, <2>3
  <2>5. PICK n \in Nat : n = Cardinality(Slots) * MostEntries - 1
    BY <2>4
  <2>6. Overrun = n * Largest
    BY <2>5 DEF Overrun
  <2> QED
    BY <1>1, <1>2, <1>3, <2>6, Products
<1> QED
  BY <1>1, <1>3, <1>4, <1>5

\* What handler k holds for a.
HeldBy(k, a) ==
    {i \in {j \in DOMAIN k.codes : k.codes[j] = Accept} \cup (IF k.pc = "copy" THEN {k.i} ELSE {}) :
        LocalRecipients(k.h)[i] = a}

LEMMA HeldIs ==
  ASSUME NEW p, NEW a
  PROVE  Held(p, a) = HeldBy(handler[p], a)
BY DEF Held, HeldBy, AcceptedEntries, Recipients

\* It holds entries of its header, and holds none before it counts.
LEMMA HeldByIs ==
  ASSUME NEW k, HandlerTyped(k), k.codes \in Seq(Int), NEW a
  PROVE  /\ k.pc \notin Counting => HeldBy(k, a) = {}
         /\ k.pc \in Counting => k.h \in AllHeaders /\ HeldBy(k, a) \subseteq Entries(k.h, a)
<1>1. CASE k.pc \notin Counting
  BY <1>1 DEF HandlerTyped, HeldBy, Counting
<1>2. CASE k.pc \in Counting
  <2>1. k.h \in AllHeaders /\ Len(k.codes) = k.i - 1 /\ k.i \in 1..Len(LocalRecipients(k.h)) + 1
    BY <1>2 DEF HandlerTyped, Counting
  <2>2. LocalRecipients(k.h) \in Seq(Addrs)
    BY <2>1, ArrivingHeader
  <2>3. DOMAIN k.codes \subseteq DOMAIN LocalRecipients(k.h)
    BY <2>1, <2>2
  <2>4. k.pc = "copy" => k.i \in DOMAIN LocalRecipients(k.h)
    BY <2>1, <2>2 DEF HandlerTyped
  <2> QED
    BY <1>2, <2>1, <2>3, <2>4 DEF HeldBy, Entries
<1> QED
  BY <1>1, <1>2

\* The entries that can be held for a: no more than the handlers can hold at once.
LEMMA UnreportedBound ==
  ASSUME NEW a \in LimitedUsers, NEW U,
         \A e \in U : /\ e = <<e[1], e[2]>> /\ e[1] \in Slots /\ handler[e[1]].h \in AllHeaders
                      /\ e[2] \in Entries(handler[e[1]].h, a)
  PROVE  /\ IsFiniteSet(U) /\ Cardinality(U) \in Nat
         /\ Cardinality(U) <= Cardinality(Slots) * MostEntries
<1> DEFINE E(q) == IF handler[q].h \in AllHeaders THEN Entries(handler[q].h, a) ELSE {}
           F == [q \in Slots |-> E(q)]
<1>1. ASSUME NEW q \in Slots PROVE IsFiniteSet(E(q)) /\ Cardinality(E(q)) <= MostEntries
  <2>1. CASE handler[q].h \in AllHeaders
    BY <2>1, EntriesCounted, EntriesBounded
  <2>2. CASE handler[q].h \notin AllHeaders
    BY <2>2, FS_EmptySet, MostEntriesIs
  <2> QED
    BY <2>1, <2>2
<1>2. \A e \in U : e[2] \in E(e[1])
  OBVIOUS
<1> HIDE DEF E
<1>3. \A q \in Slots : F[q] = E(q)
  OBVIOUS
<1> HIDE DEF F
<1>4. IsFiniteSet(Slots) /\ MostEntries \in Nat
  BY IntakeAssumption, MostEntriesIs
<1>5. \A q \in Slots : IsFiniteSet(F[q]) /\ Cardinality(F[q]) <= MostEntries
  BY <1>1, <1>3
<1>6. \A e \in U : e = <<e[1], e[2]>> /\ e[1] \in Slots /\ e[2] \in F[e[1]]
  BY <1>2, <1>3
<1> QED
  BY <1>4, <1>5, <1>6, Fibres

LEMMA UnreportedIs ==
  ASSUME Inv, Typed, NEW a, NEW e \in Unreported(a)
  PROVE  /\ e = <<e[1], e[2]>> /\ e[1] \in Slots /\ e[2] \in HeldBy(handler[e[1]], a)
         /\ handler[e[1]].h \in AllHeaders /\ e[2] \in Entries(handler[e[1]].h, a)
<1>1. PICK p \in Slots : e \in {p} \X Held(p, a)
  BY DEF Unreported
<1>2. e = <<p, e[2]>> /\ e[1] = p /\ e[2] \in HeldBy(handler[p], a)
  BY <1>1, HeldIs
<1>3. HandlerTyped(handler[p]) /\ handler[p].codes \in Seq(Int)
  BY DEF Inv, HandlersOK, HandlerOK, Typed, HandlersTyped
<1>4. handler[p].h \in AllHeaders /\ e[2] \in Entries(handler[p].h, a)
  BY <1>2, <1>3, HeldByIs
<1> QED
  BY <1>2, <1>4

\* Each of them of a size that is no larger than the largest.
LEMMA InFlightBound ==
  ASSUME Inv, Typed, NEW a \in LimitedUsers
  PROVE  /\ IsFiniteSet(Unreported(a)) /\ Cardinality(Unreported(a)) \in Nat
         /\ IsFiniteSet(InFlight(a)) /\ Cardinality(InFlight(a)) \in Nat
         /\ Cardinality(InFlight(a)) <= Cardinality(Unreported(a)) * Largest
<1>1. IsFiniteSet(Unreported(a)) /\ Cardinality(Unreported(a)) \in Nat
  BY UnreportedIs, UnreportedBound
<1> DEFINE size(e) == StoredSize(handler[e[1]].h)
           F == [e \in Unreported(a) |-> 1..size(e)]
<1>2. ASSUME NEW e \in Unreported(a)
      PROVE  size(e) \in Nat /\ size(e) <= Largest
  <2>1. handler[e[1]].h \in AllHeaders /\ Entries(handler[e[1]].h, a) # {}
    BY UnreportedIs
  <2> QED
    BY <2>1, ArrivingHeader, EntriesBounded
<1>3. InFlight(a) = UNION {{e} \X (1..size(e)) : e \in Unreported(a)}
  BY DEF InFlight
<1> HIDE DEF size
<1>4. \A e \in Unreported(a) : F[e] = 1..size(e)
  OBVIOUS
<1> HIDE DEF F
<1>5. \A e \in Unreported(a) : IsFiniteSet(F[e]) /\ Cardinality(F[e]) <= Largest
  <2> SUFFICES ASSUME NEW e \in Unreported(a)
               PROVE  IsFiniteSet(1..size(e)) /\ Cardinality(1..size(e)) <= Largest
    BY <1>4
  <2>1. PICK n \in Nat : n = size(e) /\ n <= Largest
    BY <1>2
  <2>2. IsFiniteSet(1..n) /\ Cardinality(1..n) = n
    BY FS_Interval
  <2> QED
    BY <2>1, <2>2
<1>6. ASSUME NEW z \in InFlight(a)
      PROVE  z = <<z[1], z[2]>> /\ z[1] \in Unreported(a) /\ z[2] \in F[z[1]]
  <2>1. PICK e \in Unreported(a) : z \in {e} \X (1..size(e))
    BY <1>3
  <2>2. z = <<z[1], z[2]>> /\ z[1] = e /\ z[2] \in 1..size(e)
    BY <2>1
  <2> QED
    BY <1>4, <2>2
<1>7. Largest \in Nat
  BY LargestIs
<1>8. /\ IsFiniteSet(InFlight(a)) /\ Cardinality(InFlight(a)) \in Nat
      /\ Cardinality(InFlight(a)) <= Cardinality(Unreported(a)) * Largest
  BY <1>1, <1>5, <1>6, <1>7, Fibres
<1> QED
  BY <1>1, <1>8

\* What handler k holds that follows handler j: no more than j.
HoldsLess(k, j, a) ==
    HeldBy(k, a) \subseteq HeldBy(j, a) /\ (k.h = j.h \/ HeldBy(k, a) = {})

\* A handler that brings nothing new for a: less is on its way.
LEMMA LessInFlight ==
  ASSUME Inv, NEW p \in Slots, NEW k, NEW a,
         handler' = [handler EXCEPT ![p] = k], HoldsLess(k, handler[p], a)
  PROVE  InFlight(a)' \subseteq InFlight(a)
<1>1. handler'[p] = k /\ \A q \in Slots \ {p} : handler'[q] = handler[q]
  BY DEF Inv, HandlersOK
<1>2. ASSUME NEW q \in Slots PROVE HoldsLess(handler'[q], handler[q], a)
  <2>1. CASE q = p
    BY <1>1, <2>1
  <2>2. CASE q # p
    BY <1>1, <2>2 DEF HoldsLess
  <2> QED
    BY <2>1, <2>2
<1>3. ASSUME NEW z \in InFlight(a)' PROVE z \in InFlight(a)
  <2>1. PICK e \in Unreported(a)' : z \in {e} \X (1..StoredSize(handler'[e[1]].h))
    BY <1>3 DEF InFlight
  <2>2. PICK q \in Slots : e \in {q} \X Held(q, a)'
    BY DEF Unreported
  <2>3. e = <<q, e[2]>> /\ e[1] = q /\ e[2] \in HeldBy(handler'[q], a)
    BY <2>2 DEF Held, HeldBy, AcceptedEntries, Recipients
  <2>4. e[2] \in HeldBy(handler[q], a) /\ handler'[q].h = handler[q].h
    BY <1>2, <2>3 DEF HoldsLess
  <2>5. e \in {q} \X Held(q, a)
    BY <2>3, <2>4, HeldIs
  <2>6. e \in Unreported(a)
    BY <2>5 DEF Unreported
  <2> QED
    BY <2>1, <2>3, <2>4, <2>6 DEF InFlight
<1> QED
  BY <1>3

LEMMA IdleHolds ==
  ASSUME NEW verdict, NEW j, NEW a
  PROVE  HoldsLess(IdleHandler(verdict), j, a)
BY DEF HoldsLess, HeldBy, IdleHandler

\* The next turn of the loop.
LEMMA NextRecipientHolds ==
  ASSUME NEW k, HandlerTyped(k), k.codes \in Seq(Int), DOMAIN k = DOMAIN IdleHandler(NullCode),
         NEW code \in Int, code = Accept => k.pc = "copy", NEW a
  PROVE  HoldsLess(NextRecipient(k, code), k, a)
<1> DEFINE n == NextRecipient(k, code)
<1>1. n.pc = "check" /\ n.h = k.h /\ n.codes = Append(k.codes, code)
  BY DEF NextRecipient, IdleHandler
<1>2. Len(k.codes) = k.i - 1
  BY DEF HandlerTyped
<1>3. ASSUME NEW i \in DOMAIN n.codes, n.codes[i] = Accept
      PROVE  (i \in DOMAIN k.codes /\ k.codes[i] = Accept) \/ (k.pc = "copy" /\ i = k.i)
  <2> HIDE DEF n
  <2>1. i = Len(k.codes) + 1 \/ i \in 1..Len(k.codes)
    <3>1. PICK m \in Nat : m = Len(k.codes)
      OBVIOUS
    <3>2. i \in 1..m + 1
      BY <1>1, <3>1
    <3>3. i = m + 1 \/ i \in 1..m
      BY <3>2
    <3> QED
      BY <3>1, <3>3
  <2>2. CASE i = Len(k.codes) + 1
    <3>1. code = Accept
      BY <1>1, <1>3, <2>2
    <3>2. k.i = Len(k.codes) + 1
      <4>1. DOMAIN k.codes = 1..Len(k.codes) /\ Len(k.codes) \in Nat
        OBVIOUS
      <4>2. k.i \in Int
        BY DEF HandlerTyped
      <4> QED
        BY <1>2, <4>1, <4>2
    <3> QED
      BY <2>2, <3>1, <3>2
  <2>3. CASE i \in 1..Len(k.codes)
    BY <1>1, <1>3, <2>3
  <2> QED
    BY <2>1, <2>2, <2>3
<1> HIDE DEF n
<1> QED
  BY <1>1, <1>3 DEF HoldsLess, HeldBy, n

\* Handler p takes an entry of a: a turn of the loop that accepts it.
Takes(p, a) ==
    /\ CheckRecipient(p)
    /\ Recipients(p)[handler[p].i] = a /\ CodeFor(handler[p].h, a) = Accept

\* A step that brings nothing new for a.
Spares(p, a) ==
    \E k : handler' = [handler EXCEPT ![p] = k] /\ HoldsLess(k, handler[p], a)

LEMMA CheckRecipientHolds ==
  ASSUME Inv, Typed, NEW p \in Slots, CheckRecipient(p), NEW a
  PROVE  Spares(p, a) \/ Takes(p, a)
<1> DEFINE k == handler[p]
           b == Recipients(p)[k.i]
           code == CodeFor(k.h, b)
           path == UniqueFilepath(b, k.h.time)
           refused == NextRecipient(k, code)
           chosen == [k EXCEPT !.pc = "copy", !.path = path]
<1>1. handler' = [handler EXCEPT ![p] = IF code # Accept THEN refused ELSE chosen]
  BY DEF CheckRecipient
<1>2. HandlerTyped(k) /\ k.codes \in Seq(Int) /\ DOMAIN k = DOMAIN IdleHandler(NullCode)
  BY DEF Inv, HandlersOK, HandlerOK, Typed, HandlersTyped
<1>3. CASE code # Accept
  <2>1. HoldsLess(refused, k, a)
    BY <1>2, <1>3, CodeForIsCode, NextRecipientHolds
  <2>2. handler' = [handler EXCEPT ![p] = refused]
    BY <1>1, <1>3
  <2> HIDE DEF refused
  <2> QED
    BY <2>1, <2>2 DEF Spares
<1>4. CASE code = Accept /\ b # a
  <2>1. handler' = [handler EXCEPT ![p] = chosen]
    BY <1>1, <1>4
  <2> HIDE DEF path
  <2>2. chosen.pc = "copy" /\ chosen.h = k.h /\ chosen.codes = k.codes /\ chosen.i = k.i
    BY <1>2 DEF IdleHandler
  <2>3. LocalRecipients(k.h)[k.i] # a
    BY <1>4 DEF Recipients
  <2> HIDE DEF chosen
  <2>4. HoldsLess(chosen, k, a)
    BY <2>2, <2>3 DEF HoldsLess, HeldBy
  <2> QED
    BY <2>1, <2>4 DEF Spares
<1>5. CASE code = Accept /\ b = a
  BY <1>5 DEF Takes
<1> QED
  BY <1>3, <1>4, <1>5

LEMMA CopyHolds ==
  ASSUME Inv, Typed, NEW p \in Slots, Copy(p) \/ CopyFails(p) \/ PersistFails(p), NEW a
  PROVE  Spares(p, a)
<1> DEFINE k == handler[p]
<1>1. PICK m :
        /\ \E code \in Int : handler' = [handler EXCEPT ![p] = NextRecipient(m, code)]
        /\ m = k \/ m = Named(k) \/ \E done : m = Replaced(k, done)
  BY CopyLeadsTo
<1>2. /\ k.pc = "copy" /\ HandlerTyped(k)
      /\ k.codes \in Seq(Int) /\ DOMAIN k = DOMAIN IdleHandler(NullCode)
  BY DEF Copy, CopyFails, PersistFails, Inv, HandlersOK, HandlerOK, Typed, HandlersTyped
<1>3. /\ m.pc = k.pc /\ m.h = k.h /\ m.codes = k.codes /\ m.i = k.i /\ m.path = k.path
      /\ DOMAIN m = DOMAIN k
  BY <1>1, <1>2 DEF Named, Replaced, IdleHandler
<1>4. HandlerTyped(m) /\ HoldsLess(m, k, a)
  BY <1>2, <1>3 DEF HandlerTyped, Counting, HoldsLess, HeldBy
<1>5. PICK code \in Int : handler' = [handler EXCEPT ![p] = NextRecipient(m, code)]
  BY <1>1
<1>6. HoldsLess(NextRecipient(m, code), m, a)
  BY <1>2, <1>3, <1>4, NextRecipientHolds
<1>7. HoldsLess(NextRecipient(m, code), k, a)
  BY <1>4, <1>6 DEF HoldsLess
<1> QED
  BY <1>5, <1>7 DEF Spares

LEMMA EndHolds ==
  ASSUME Inv, NEW p \in Slots, End(p), NEW a
  PROVE  Spares(p, a)
<1>1. handler' = [handler EXCEPT ![p] = IdleHandler(handler[p].verdict)]
  BY DEF End, Inv, HandlersOK
<1> QED
  BY <1>1, IdleHolds DEF Spares

\* Only a turn of the loop that accepts brings something new.
LEMMA StepHolds ==
  ASSUME Inv, Typed, NEW p \in Slots, Arrive(p) \/ HandlerStep(p), NEW a
  PROVE  Spares(p, a) \/ Takes(p, a)
<1> DEFINE k == handler[p]
<1>1. CASE Arrive(p) \/ ReadHeader(p)
  <2>1. PICK n : Becomes(p, n)
    BY <1>1, StepBecomes
  <2>2. n = handler'[p] /\ handler' = [handler EXCEPT ![p] = n] /\ HandlerTyped(n)
    BY <2>1 DEF Becomes, Inv, HandlersOK
  <2>3. n.pc \notin Counting
    <3>1. CASE Arrive(p)
      <4>1. PICK h : handler'[p] = [IdleHandler(NullCode) EXCEPT !.pc = "header", !.h = h]
        BY <3>1 DEF Arrive, Inv, HandlersOK
      <4> QED
        BY <2>2, <4>1 DEF IdleHandler, Counting
    <3>2. CASE ReadHeader(p)
      BY <2>2, <3>2, ReadLeadsTo DEF Counting
    <3> QED
      BY <1>1, <3>1, <3>2
  <2>4. HeldBy(n, a) = {}
    BY <2>2, <2>3 DEF HandlerTyped, HeldBy, Counting
  <2> QED
    BY <2>2, <2>4 DEF Spares, HoldsLess
<1>2. CASE Download(p) \/ StoreAcceptedMessage(p)
  <2>1. PICK pc \in {"check", "report"} : handler' = [handler EXCEPT ![p] = [k EXCEPT !.pc = pc]]
    BY <1>2 DEF Download, StoreAcceptedMessage
  <2> DEFINE n == [k EXCEPT !.pc = pc]
  <2>2. n.pc = pc /\ n.h = k.h /\ n.codes = k.codes
    BY DEF Inv, HandlersOK, HandlerOK, IdleHandler
  <2>3. handler' = [handler EXCEPT ![p] = n]
    BY <2>1
  <2> HIDE DEF n
  <2>4. HoldsLess(n, k, a)
    BY <2>2 DEF HoldsLess, HeldBy
  <2> QED
    BY <2>3, <2>4 DEF Spares
<1>3. CASE End(p)
  BY <1>3, EndHolds
<1>4. CASE CheckRecipient(p) \/ Copy(p) \/ CopyFails(p) \/ PersistFails(p)
  BY <1>4, CheckRecipientHolds, CopyHolds
<1>5. GiveUp(p) \/ StoreNothing(p) \/ StoreFails(p) \/ RecordRecvUsage(p) \/ StoreMsgHeaderOnly(p)
        => End(p)
  BY DEF GiveUp, StoreNothing, StoreFails, RecordRecvUsage, StoreMsgHeaderOnly
<1> QED
  BY <1>1, <1>2, <1>3, <1>4, <1>5 DEF HandlerStep

----------------------------------------------------------------------------
(***************************************************************************)
(* The bound on what is reported and on its way, for one user.             *)
(***************************************************************************)
Bounded(a) == usage[a].total + Cardinality(InFlight(a)) <= Limits[a].total + Overrun

LEMMA LimitedTyped ==
  ASSUME Typed, NEW a \in LimitedUsers
  PROVE  a \in Users /\ usage[a].total \in Nat /\ Limits[a].total \in Nat
<1>1. a \in Users /\ Limits[a].total > -1
  BY DEF LimitedUsers
<1>2. Limits[a].total \in Int
  BY <1>1, IntakeAssumption
<1>3. usage[a].total \in Nat
  BY <1>1 DEF Typed, UsageOK
<1> QED
  BY <1>1, <1>2, <1>3

LEMMA SparesKeepsBound ==
  ASSUME Inv, Typed, NEW p \in Slots, NEW a \in LimitedUsers, Bounded(a),
         Spares(p, a), usage'[a].total = usage[a].total
  PROVE  Bounded(a)'
<1>1. InFlight(a)' \subseteq InFlight(a)
  BY LessInFlight DEF Spares
<1>2. PICK F : F = InFlight(a)'
  OBVIOUS
<1>3. F \in SUBSET InFlight(a)
  BY <1>1, <1>2
<1>4. Cardinality(F) <= Cardinality(InFlight(a)) /\ Cardinality(F) \in Nat
  BY <1>3, InFlightBound, FS_Subset, FS_CardinalityType
<1>5. usage[a].total + Cardinality(F) <= Limits[a].total + Overrun
  BY <1>4, LimitedTyped, InFlightBound, OverrunIs DEF Bounded
<1> QED
  BY <1>2, <1>5 DEF Bounded

\* The check that accepts counts the message in: what is reported and the message are
\* within the limit, and what others have on the way leaves room for its entry.
LEMMA TakesKeepsBound ==
  ASSUME Inv, Typed, NEW p \in Slots, NEW a \in LimitedUsers, Takes(p, a)
  PROVE  Bounded(a)'
<1> DEFINE k == handler[p]
           i == k.i
           size == StoredSize(k.h)
           path == UniqueFilepath(a, k.h.time)
           n == [k EXCEPT !.pc = "copy", !.path = path]
           New == {<<p, i>>} \X (1..size)
<1>1. handler' = [handler EXCEPT ![p] = n] /\ usage' = usage
  BY DEF Takes, CheckRecipient
<1>2. /\ k.pc = "check" /\ HandlerTyped(k) /\ k.codes \in Seq(Int)
      /\ DOMAIN k = DOMAIN IdleHandler(NullCode) /\ DOMAIN handler = Slots
  BY DEF Takes, CheckRecipient, Inv, HandlersOK, HandlerOK, Typed, HandlersTyped
<1>3. /\ k.h \in AllHeaders /\ Len(k.codes) = i - 1 /\ i \in 1..Len(LocalRecipients(k.h)) + 1
      /\ LocalRecipients(k.h) \in Seq(Addrs) /\ size \in Nat
  BY <1>2, ArrivingHeader DEF HandlerTyped, Counting
<1>4. i \in Entries(k.h, a)
  <2>1. i <= Len(LocalRecipients(k.h)) /\ LocalRecipients(k.h)[i] = a
    BY DEF Takes, CheckRecipient, Recipients
  <2>2. i \in DOMAIN LocalRecipients(k.h)
    BY <1>3, <2>1
  <2> QED
    BY <2>1, <2>2 DEF Entries
<1>5. <<p, i>> \notin Unreported(a)
  <2> SUFFICES ASSUME <<p, i>> \in Unreported(a) PROVE FALSE
    OBVIOUS
  <2> DEFINE e == <<p, i>>
  <2>1. e[2] \in HeldBy(handler[e[1]], a)
    BY UnreportedIs
  <2>2. i \in DOMAIN k.codes
    BY <1>2, <2>1 DEF HeldBy
  <2> QED
    BY <1>2, <1>3, <2>2
<1>6. Cardinality(Unreported(a)) <= Cardinality(Slots) * MostEntries - 1
  <2> DEFINE U == Unreported(a) \cup {<<p, i>>}
  <2>1. ASSUME NEW e \in U
        PROVE  /\ e = <<e[1], e[2]>> /\ e[1] \in Slots /\ handler[e[1]].h \in AllHeaders
               /\ e[2] \in Entries(handler[e[1]].h, a)
    <3>1. CASE e \in Unreported(a)
      BY <3>1, UnreportedIs
    <3>2. CASE e = <<p, i>>
      BY <1>3, <1>4, <3>2
    <3> QED
      BY <3>1, <3>2
  <2>2. Cardinality(U) <= Cardinality(Slots) * MostEntries
    <3> HIDE DEF U
    <3> QED
      BY <2>1, UnreportedBound
  <2>3. Cardinality(U) = Cardinality(Unreported(a)) + 1
    BY <1>5, InFlightBound, FS_AddElement
  <2> QED
    BY <2>2, <2>3, InFlightBound, OverrunIs
<1>7. Cardinality(InFlight(a)) <= Overrun
  <2>1. PICK m \in Nat : m = Cardinality(Slots) * MostEntries - 1
    BY <1>6, InFlightBound, OverrunIs
  <2>2. Cardinality(Unreported(a)) * Largest <= m * Largest
    BY <1>6, <2>1, InFlightBound, LargestIs, Products
  <2>3. Overrun = m * Largest
    BY <2>1 DEF Overrun
  <2>4. Cardinality(Unreported(a)) * Largest \in Nat /\ m * Largest \in Nat
    BY <2>1, InFlightBound, LargestIs, Products
  <2> QED
    BY <2>2, <2>3, <2>4, InFlightBound
<1>8. InFlight(a)' \subseteq InFlight(a) \cup New
  <2> HIDE DEF path
  <2>1. n.pc = "copy" /\ n.h = k.h /\ n.codes = k.codes /\ n.i = i
    BY <1>2 DEF IdleHandler
  <2> HIDE DEF n
  <2>2. handler'[p] = n /\ \A q \in Slots \ {p} : handler'[q] = handler[q]
    BY <1>1, <1>2
  <2>3. ASSUME NEW z \in InFlight(a)' PROVE z \in InFlight(a) \cup New
    <3>1. PICK e \in Unreported(a)' : z \in {e} \X (1..StoredSize(handler'[e[1]].h))
      BY <2>3 DEF InFlight
    <3>2. PICK q \in Slots : e \in {q} \X Held(q, a)'
      BY DEF Unreported
    <3>3. e = <<q, e[2]>> /\ e[1] = q /\ e[2] \in HeldBy(handler'[q], a)
      BY <3>2 DEF Held, HeldBy, AcceptedEntries, Recipients
    <3>4. handler'[q].h = handler[q].h
      BY <2>1, <2>2
    <3>5. e[2] \in HeldBy(handler[q], a) \/ (q = p /\ e[2] = i)
      <4>1. CASE q = p
        BY <2>1, <2>2, <3>3, <4>1 DEF HeldBy
      <4>2. CASE q # p
        BY <2>2, <3>3, <4>2
      <4> QED
        BY <4>1, <4>2
    <3>6. CASE e[2] \in HeldBy(handler[q], a)
      <4>1. e \in {q} \X Held(q, a)
        BY <3>3, <3>6, HeldIs
      <4>2. e \in Unreported(a)
        BY <4>1 DEF Unreported
      <4> QED
        BY <3>1, <3>3, <3>4, <4>2 DEF InFlight
    <3>7. CASE q = p /\ e[2] = i
      BY <3>1, <3>3, <3>4, <3>7
    <3> QED
      BY <3>5, <3>6, <3>7
  <2> QED
    BY <2>3
<1>9. IsFiniteSet(New) /\ Cardinality(New) = size
  <2>1. IsFiniteSet(1..size) /\ Cardinality(1..size) = size
    <3> HIDE DEF size
    <3>1. size \in Nat
      BY <1>3
    <3> QED
      BY <3>1, FS_Interval
  <2>2. IsFiniteSet({<<p, i>>}) /\ Cardinality({<<p, i>>}) = 1
    BY FS_Singleton
  <2> DEFINE S == {<<p, i>>}
             T == 1..size
  <2>3. New = S \X T
    OBVIOUS
  <2> HIDE DEF S, T, New, size
  <2>4. IsFiniteSet(S \X T) /\ Cardinality(S \X T) = Cardinality(S) * Cardinality(T)
    BY <2>1, <2>2, FS_Product DEF S, T
  <2>5. Cardinality(S) = 1 /\ Cardinality(T) = size
    BY <2>1, <2>2 DEF S, T
  <2>6. IsFiniteSet(New) /\ Cardinality(New) = 1 * size
    BY <2>3, <2>4, <2>5
  <2> QED
    BY <1>3, <2>6
<1>10. PICK F : F = InFlight(a)'
  OBVIOUS
<1>11. Cardinality(F) \in Nat /\ Cardinality(F) <= Cardinality(InFlight(a)) + size
  <2> HIDE DEF New, size
  <2> DEFINE G == InFlight(a) \cup New
  <2>1. IsFiniteSet(G) /\ Cardinality(G) <= Cardinality(InFlight(a)) + size
    <3>1. /\ IsFiniteSet(G)
          /\ Cardinality(G) = Cardinality(InFlight(a)) + size - Cardinality(InFlight(a) \cap New)
      BY <1>9, InFlightBound, FS_Union
    <3>2. Cardinality(InFlight(a) \cap New) \in Nat
      BY InFlightBound, FS_Intersection, FS_CardinalityType
    <3> QED
      BY <1>3, <3>1, <3>2, InFlightBound
  <2>2. F \in SUBSET G
    BY <1>8, <1>10
  <2>3. IsFiniteSet(F) /\ Cardinality(F) <= Cardinality(G)
    BY <2>1, <2>2, FS_Subset
  <2>4. Cardinality(F) \in Nat /\ Cardinality(G) \in Nat
    BY <2>1, <2>3, FS_CardinalityType
  <2> HIDE DEF G
  <2> QED
    BY <1>3, <2>1, <2>3, <2>4, InFlightBound
<1>12. usage[a].total + size <= Limits[a].total
  <2>1. CodeFor(k.h, a) = Accept /\ a \in Users
    BY LimitedTyped DEF Takes
  <2>2. ~RecvLimitExceeded(a, size)
    BY <2>1 DEF CodeFor, Accept, UserDuplicate, UserUnknown, UserNotAccepting, UserFull
  <2>3. Limits[a].total > -1
    BY DEF LimitedUsers
  <2> HIDE DEF size
  <2> QED
    BY <1>3, <2>2, <2>3, LimitedTyped DEF RecvLimitExceeded, Over
<1> HIDE DEF size
<1>13. usage[a].total + Cardinality(F) <= Limits[a].total + Overrun
  <2>1. /\ {usage[a].total, Limits[a].total, size, Overrun} \subseteq Nat
        /\ {Cardinality(F), Cardinality(InFlight(a))} \subseteq Nat
    BY <1>3, <1>11, LimitedTyped, InFlightBound, OverrunIs
  <2>2. Cardinality(F) <= Overrun + size
    BY <1>7, <1>11, <2>1
  <2> QED
    BY <1>12, <2>1, <2>2
<1>14. usage' = usage
  BY <1>1
<1> QED
  BY <1>10, <1>13, <1>14 DEF Bounded

\* A report per accepted entry at most: what is added to the figures was on its way.
LEMMA ReportKeepsBound ==
  ASSUME Inv, Typed, NEW p \in Slots, NEW a \in LimitedUsers, Bounded(a), RecordRecvUsage(p)
  PROVE  Bounded(a)'
<1> DEFINE k == handler[p]
           H == HeldBy(k, a)
           size == StoredSize(k.h)
           Own == ({p} \X H) \X (1..size)
<1>1. PICK lost \in SUBSET AcceptedEntries(p) :
        usage' = [b \in Users |-> Charged(usage[b],
              Cardinality({i \in AcceptedEntries(p) \ lost : Recipients(p)[i] = b}), size)]
  BY DEF RecordRecvUsage
<1> DEFINE reported == {i \in AcceptedEntries(p) \ lost : Recipients(p)[i] = a}
<1>2. /\ k.pc = "report" /\ HandlerTyped(k) /\ k.codes \in Seq(Int) /\ DOMAIN handler = Slots
      /\ handler' = [handler EXCEPT ![p] = IdleHandler(k.verdict)]
  BY DEF RecordRecvUsage, End, Inv, HandlersOK, HandlerOK, Typed, HandlersTyped
<1>3. k.h \in AllHeaders /\ H \subseteq Entries(k.h, a) /\ size \in Nat
  BY <1>2, HeldByIs, ArrivingHeader DEF Counting
<1>4. IsFiniteSet(H) /\ Cardinality(H) \in Nat
  <2>1. IsFiniteSet(Entries(k.h, a))
    BY <1>3, EntriesCounted
  <2> QED
    BY <1>3, <2>1, FS_Subset, FS_CardinalityType
<1>5. Cardinality(reported) \in Nat /\ Cardinality(reported) <= Cardinality(H)
  <2>1. reported \in SUBSET H
    BY DEF HeldBy, AcceptedEntries, Recipients
  <2> HIDE DEF reported, H
  <2> QED
    BY <1>4, <2>1, FS_Subset, FS_CardinalityType
<1>6. usage'[a].total = usage[a].total + Cardinality(reported) * size
  <2>1. usage'[a] = Charged(usage[a], Cardinality(reported), size)
    BY <1>1, LimitedTyped
  <2> HIDE DEF reported, size
  <2> QED
    BY <2>1 DEF Charged
<1> HIDE DEF reported, size, H
<1>7. /\ IsFiniteSet(Own) /\ Cardinality(Own) = Cardinality(H) * size
  <2>1. IsFiniteSet({p}) /\ Cardinality({p}) = 1
    BY FS_Singleton
  <2>2. IsFiniteSet({p} \X H) /\ Cardinality({p} \X H) = Cardinality(H)
    <3>1. IsFiniteSet({p} \X H) /\ Cardinality({p} \X H) = 1 * Cardinality(H)
      BY <1>4, <2>1, FS_Product
    <3> QED
      BY <1>4, <3>1
  <2>3. IsFiniteSet(1..size) /\ Cardinality(1..size) = size
    BY <1>3, FS_Interval
  <2> DEFINE S == {p} \X H
             T == 1..size
  <2>4. Own = S \X T
    OBVIOUS
  <2> HIDE DEF S, T, Own
  <2>5. IsFiniteSet(S \X T) /\ Cardinality(S \X T) = Cardinality(S) * Cardinality(T)
    BY <2>2, <2>3, FS_Product DEF S, T
  <2> QED
    BY <2>2, <2>3, <2>4, <2>5 DEF S, T
<1>8. Own \subseteq InFlight(a)
  <2> SUFFICES ASSUME NEW z \in Own PROVE z \in InFlight(a)
    OBVIOUS
  <2>1. PICK e \in {p} \X H, b \in 1..size : z = <<e, b>>
    OBVIOUS
  <2>2. e \in {p} \X Held(p, a)
    BY HeldIs DEF H
  <2>3. e \in Unreported(a) /\ e[1] = p
    BY <2>2 DEF Unreported
  <2>4. z \in {e} \X (1..StoredSize(handler[e[1]].h))
    BY <2>1, <2>3 DEF size
  <2> QED
    BY <2>3, <2>4 DEF InFlight
<1>9. InFlight(a)' \subseteq InFlight(a) /\ InFlight(a)' \cap Own = {}
  <2>1. InFlight(a)' \subseteq InFlight(a)
    BY <1>2, IdleHolds, LessInFlight
  <2>2. ASSUME NEW z \in InFlight(a)' PROVE z \notin Own
    <3>1. PICK e \in Unreported(a)' : z \in {e} \X (1..StoredSize(handler'[e[1]].h))
      BY <2>2 DEF InFlight
    <3>2. PICK q \in Slots : e \in {q} \X Held(q, a)'
      BY DEF Unreported
    <3>3. e = <<q, e[2]>> /\ e[2] \in HeldBy(handler'[q], a)
      BY <3>2 DEF Held, HeldBy, AcceptedEntries, Recipients
    <3>4. HeldBy(IdleHandler(k.verdict), a) = {}
      BY DEF HeldBy, IdleHandler
    <3>5. q # p
      BY <1>2, <3>3, <3>4
    <3> QED
      BY <3>1, <3>3, <3>5
  <2> QED
    BY <2>1, <2>2
<1>10. PICK F : F = InFlight(a)'
  OBVIOUS
<1>11. Cardinality(F) \in Nat /\ Cardinality(F) + Cardinality(Own) <= Cardinality(InFlight(a))
  <2> HIDE DEF Own
  <2> DEFINE G == F \cup Own
  <2>1. F \in SUBSET InFlight(a) /\ G \in SUBSET InFlight(a) /\ F \cap Own = {}
    BY <1>8, <1>9, <1>10
  <2>2. IsFiniteSet(F) /\ Cardinality(F) \in Nat /\ Cardinality(G) <= Cardinality(InFlight(a))
    <3> HIDE DEF G
    <3> QED
      BY <2>1, InFlightBound, FS_Subset, FS_CardinalityType
  <2>3. Cardinality(G) = Cardinality(F) + Cardinality(Own)
    <3>1. Cardinality(G) = Cardinality(F) + Cardinality(Own) - Cardinality(F \cap Own)
      BY <1>7, <2>2, FS_Union
    <3>2. Cardinality(F \cap Own) = 0
      BY <2>1, FS_EmptySet
    <3>3. Cardinality(Own) \in Nat
      BY <1>7, FS_CardinalityType
    <3> QED
      BY <2>2, <3>1, <3>2, <3>3
  <2> QED
    BY <2>2, <2>3
<1>12. /\ Cardinality(reported) * size \in Nat /\ Cardinality(H) * size \in Nat
       /\ Cardinality(reported) * size <= Cardinality(H) * size
  BY <1>3, <1>4, <1>5, Products
<1> HIDE DEF Own
<1>13. usage'[a].total + Cardinality(F) <= usage[a].total + Cardinality(InFlight(a))
  BY <1>6, <1>7, <1>11, <1>12, LimitedTyped, InFlightBound
<1>14. usage'[a].total \in Nat
  BY <1>6, <1>12, LimitedTyped
<1>15. usage'[a].total + Cardinality(F) <= Limits[a].total + Overrun
  BY <1>11, <1>13, <1>14, LimitedTyped, InFlightBound, OverrunIs DEF Bounded
<1> QED
  BY <1>10, <1>15 DEF Bounded

LEMMA InitBounded ==
  ASSUME Init, NEW a \in LimitedUsers
  PROVE  Bounded(a)
<1>1. Typed
  BY InitTyped
<1>2. \A p \in Slots : Held(p, a) = {}
  <2>1. \A p \in Slots : handler[p] = IdleHandler(NullCode)
    BY DEF Init
  <2> QED
    BY <2>1, HeldIs DEF HeldBy, IdleHandler
<1>3. InFlight(a) = {}
  BY <1>2 DEF InFlight, Unreported
<1>4. usage[a].total = 0
  BY <1>1, LimitedTyped DEF Init
<1> QED
  BY <1>1, <1>3, <1>4, FS_EmptySet, LimitedTyped, OverrunIs DEF Bounded

LEMMA NextKeepsBounded ==
  ASSUME Inv, Typed, [Next]_vars, NEW a \in LimitedUsers, Bounded(a)
  PROVE  Bounded(a)'
<1>1. CASE UNCHANGED vars
  BY <1>1 DEF vars, Bounded, InFlight, Unreported, Held, AcceptedEntries, Recipients
<1>2. CASE NewDay
  <2>1. usage'[a].total = usage[a].total
    BY <1>2, LimitedTyped DEF NewDay, Typed, UsageOK
  <2>2. UNCHANGED handler
    BY <1>2 DEF NewDay
  <2> QED
    BY <2>1, <2>2 DEF Bounded, InFlight, Unreported, Held, AcceptedEntries, Recipients
<1>3. ASSUME NEW p \in Slots, Arrive(p) \/ HandlerStep(p) PROVE Bounded(a)'
  <2>1. CASE RecordRecvUsage(p)
    BY <2>1, ReportKeepsBound
  <2>2. CASE Takes(p, a)
    BY <2>2, TakesKeepsBound
  <2>3. CASE ~RecordRecvUsage(p) /\ Spares(p, a)
    <3>1. UNCHANGED usage
      BY <1>3, <2>3 DEF HandlerStep, Arrive, ReadHeader, Download, GiveUp, CheckRecipient, Copy,
         CopyFails, PersistFails, StoreNothing, StoreAcceptedMessage, StoreFails, StoreMsgHeaderOnly
    <3> QED
      BY <2>3, <3>1, SparesKeepsBound
  <2> QED
    BY <1>3, <2>1, <2>2, <2>3, StepHolds
<1> QED
  BY <1>1, <1>2, <1>3 DEF Next

\* A recipient's quota, checked before the store and charged after it, is overrun by at
\* most one message less than the handlers can hold at once, however checks, stores and
\* lost reports interleave (validateMsgRecvForAddr, recordRecvUsage).
THEOREM OverrunBounded == Spec => []OverrunIsBounded
<1> DEFINE All == \A a \in LimitedUsers : Bounded(a)
<1>1. Init => All
  BY InitBounded
<1>2. Inv /\ Typed /\ All /\ [Next]_vars => All'
  <2> SUFFICES ASSUME Inv, Typed, All, [Next]_vars, NEW a \in LimitedUsers PROVE Bounded(a)'
    BY DEF LimitedUsers
  <2> QED
    BY NextKeepsBounded
<1>3. All => OverrunIsBounded
  BY DEF Bounded, Overrun, OverrunIsBounded
<1> QED
  BY <1>1, <1>2, <1>3, Invariance, TypedInvariance, PTL DEF Spec
============================================================================

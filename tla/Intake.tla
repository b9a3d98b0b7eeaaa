------------------------------ MODULE Intake ------------------------------
(***************************************************************************)
(* A receiving host at work: concurrent handlers that read a header,       *)
(* download the message, decide on each local recipient from the id        *)
(* service's figures, copy the payload into inboxes, store the message and *)
(* report its size (downloadMessage in cmd/fmsgd/host.go, id.go).          *)
(* The host challenges nobody (FMSG_CHALLENGE_MODE=NEVER).                 *)
(***************************************************************************)
EXTENDS Header, FiniteSetsExt

CONSTANTS
    Slots,      \* connections handled at once
    Scenarios,  \* sets of headers that may arrive
    Stalled,    \* hashes of messages whose sender falls silent after the header
    Stored,     \* what the host has stored at first
    Users,      \* the local addresses the id service knows
    Accepting,  \* those that accept new messages
    OwnCase,    \* addresses spelled with the domain as this host spells it
    Limits,     \* [Users -> [count, day, total]], -1 is unlimited
    Now,        \* the host's clock
    MaxDays,    \* bound: midnights
    MaxFaults   \* bound: failures

NoPath == <<>>

\* A hash stands for its header.  The stored messages name their files; of their
\* wire forms nothing is modelled.
ASSUME IntakeAssumption ==
    /\ IsFiniteSet(Slots) /\ Slots # {}
    /\ IsFiniteSet(UNION Scenarios)
    /\ \A s \in Scenarios : \A g, h \in s : IsHeader(h) /\ (g.hash = h.hash => g = h)
    /\ \A r \in Stored :
          /\ DOMAIN r = {"hash", "batch", "from", "to", "adder", "addTo", "time", "terminal",
                         "intact", "path", "wire"}
          /\ r.hash # NoPid /\ r.time \in Nat /\ {r.batch, r.terminal, r.intact} \subseteq BOOLEAN
          /\ r.wire = NoPath /\ (r.batch \/ r.path # NoPath)
    /\ IsFiniteSet(Users) /\ Accepting \subseteq Users /\ Users \subseteq Addrs
    /\ OwnCase \subseteq Addrs
    /\ Limits \in [Users -> [count : Int, day : Int, total : Int]]
    /\ Now \in Nat /\ MaxDays \in Nat /\ MaxFaults \in Nat

AllHeaders == UNION Scenarios
HeaderHashes == {h.hash : h \in AllHeaders}

VARIABLES
    arriving,   \* headers still to arrive
    handler,    \* [Slots -> Handler]
    db,         \* stored messages and batches, see Header; with their files:
                \*   path (msg.filepath), wire (directory of the wire form)
    delivered,  \* <<message hash, address>> with a delivered recipient row
    files,      \* inbox files: [paths -> hash of the message written there]
    wires,      \* directories made by Preserve
    usage,      \* [Users -> [count, day, total]], the id service's figures
    days, faults

vars == <<arriving, handler, db, delivered, files, wires, usage, days, faults>>

NoHeader == [hash |-> NoPid]

\* A handler: the header h and the verdict on it; recipient i is being decided
\* and codes holds the outcome of the ones before; path is the copy in hand,
\* primary the file the row will name; spoiled: a failed attempt has replaced a
\* compressed attachment by its expanded copy.
IdleHandler(verdict) ==
    [pc |-> "idle", h |-> NoHeader, verdict |-> verdict, i |-> 1, codes |-> <<>>,
     path |-> NoPath, primary |-> NoPath, spoiled |-> FALSE]

Init ==
    /\ arriving \in Scenarios
    /\ handler = [p \in Slots |-> IdleHandler(NullCode)]
    /\ db = Stored
    /\ delivered = {}
    /\ files = <<>>
    /\ wires = {}
    /\ usage = [a \in Users |-> [count |-> 0, day |-> 0, total |-> 0]]
    /\ days = 0 /\ faults = 0

Fault == faults < MaxFaults /\ faults' = faults + 1

Recipients(p) == LocalRecipients(handler[p].h)

\* canonicalMsgHash
Canonical(h) == IF h.hasAddTo THEN h.pid ELSE h.hash

Wire(p) == <<handler[p].h.hash, p>>

End(p) == handler' = [handler EXCEPT ![p] = IdleHandler(@.verdict)]

----------------------------------------------------------------------------
\* A connection is accepted.
Arrive(p) ==
    /\ handler[p].pc = "idle"
    /\ \E h \in arriving :
         /\ arriving' = arriving \ {h}
         /\ handler' = [handler EXCEPT ![p] = [IdleHandler(NullCode) EXCEPT !.pc = "header", !.h = h]]
    /\ UNCHANGED <<db, delivered, files, wires, usage, days, faults>>

\* readHeader, and the code handleConn writes.
ReadHeader(p) ==
    /\ handler[p].pc = "header"
    /\ \E verdict \in {ReadHeaderVerdict(handler[p].h, Now, db)} :
       handler' = [handler EXCEPT ![p] =
           CASE verdict \in {Continue, SkipData} -> [@ EXCEPT !.pc = "data", !.verdict = verdict]
             [] verdict = AcceptAddTo            -> [@ EXCEPT !.pc = "notify", !.verdict = verdict]
             [] OTHER                            -> IdleHandler(verdict)]
    /\ UNCHANGED <<arriving, db, delivered, files, wires, usage, days, faults>>

\* prepareMessageData and the message hash: the payload in temporary files.
Download(p) ==
    /\ handler[p].pc = "data"
    /\ handler[p].verdict = SkipData \/ handler[p].h.hash \notin Stalled
    /\ handler' = [handler EXCEPT ![p].pc = "check"]
    /\ UNCHANGED <<arriving, db, delivered, files, wires, usage, days, faults>>

\* copyMessagePayload: the file is created, or truncated, and written.
Written(p) ==
    [f \in DOMAIN files \cup {handler[p].path} |->
        IF f = handler[p].path THEN handler[p].h.hash ELSE files[f]]

\* A slip: no read deadline; only a failure ends a download.
GiveUpOnFailure(p) ==
    /\ handler[p].pc \in {"data", "check", "copy"}
    /\ Fault
    /\ End(p)
    /\ wires' = wires \ {Wire(p)}
    /\ UNCHANGED <<arriving, db, delivered, files, usage, days>>

\* The handler aborts before anything is stored: the read deadline, a payload
\* that does not hash, a failing query or request, a failing Preserve, which
\* leaves the copy in the inbox; the directory of the wire form goes.
GiveUp(p) ==
    /\ handler[p].pc \in {"data", "check", "copy"}
    /\ \/ handler[p].pc = "data" /\ handler[p].h.hash \in Stalled /\ UNCHANGED faults
       \/ Fault
    /\ End(p)
    /\ wires' = wires \ {Wire(p)}
    /\ files' \in {files, IF handler[p].pc = "copy" THEN Written(p) ELSE files}
    /\ UNCHANGED <<arriving, db, delivered, usage, days>>

----------------------------------------------------------------------------
Over(limit, figure) == limit > -1 /\ figure > limit

\* recvLimitExceeded: the message counted in, against the three limits.
RecvLimitExceeded(a, size) ==
    \/ Over(Limits[a].count, usage[a].count + 1)
    \/ Over(Limits[a].day, usage[a].day + size)
    \/ Over(Limits[a].total, usage[a].total + size)

\* A slip: the limits are checked against what the wire carries.
CodeForWireSize(h, a) ==
    CASE <<Canonical(h), a>> \in delivered -> UserDuplicate
      [] <<Canonical(h), a>> \notin delivered /\ a \notin Users -> UserUnknown
      [] <<Canonical(h), a>> \notin delivered /\ a \in Users \ Accepting -> UserNotAccepting
      [] OTHER -> IF RecvLimitExceeded(a, h.body.size) THEN UserFull ELSE Accept

\* validateMsgRecvForAddr
CodeFor(h, a) ==
    CASE <<Canonical(h), a>> \in delivered -> UserDuplicate
      [] <<Canonical(h), a>> \notin delivered /\ a \notin Users -> UserUnknown
      [] <<Canonical(h), a>> \notin delivered /\ a \in Users \ Accepting -> UserNotAccepting
      [] OTHER -> IF RecvLimitExceeded(a, StoredSize(h)) THEN UserFull ELSE Accept

\* uniqueFilepath: named for the message's second, with the first free suffix.
UniqueFilepath(a, second) ==
    LET free == {n \in 0..Cardinality(DOMAIN files) : <<a, second, n>> \notin DOMAIN files}
    IN  <<a, second, Min(free)>>

\* A slip: a copy that fails skips the recipient after it too.
NextRecipientTwice(k, code) ==
    [k EXCEPT !.codes = Append(@, code), !.i = @ + (IF code = UserUndisclosed THEN 2 ELSE 1),
              !.pc = "check"]

NextRecipient(k, code) ==
    [k EXCEPT !.codes = Append(@, code), !.i = @ + 1, !.pc = "check"]

\* One turn of the loop over the recipients, up to the copy: the id service is
\* asked, and a path that is free is chosen.
CheckRecipient(p) ==
    /\ handler[p].pc = "check" /\ handler[p].i <= Len(Recipients(p))
    /\ LET a    == Recipients(p)[handler[p].i]
           code == CodeFor(handler[p].h, a)
       IN  handler' = [handler EXCEPT ![p] =
               IF code # Accept THEN NextRecipient(@, code)
               ELSE [@ EXCEPT !.pc = "copy", !.path = UniqueFilepath(a, handler[p].h.time)]]
    /\ UNCHANGED <<arriving, db, delivered, files, wires, usage, days, faults>>

\* A copy fails: the file cannot be created, or is removed, or stays if what fails is
\* closing it.
CopyFails(p) ==
    /\ handler[p].pc = "copy"
    /\ Fault
    /\ files' \in {files, Written(p), [f \in DOMAIN files \ {handler[p].path} |-> files[f]]}
    /\ handler' = [handler EXCEPT ![p] = NextRecipient(@, UserUndisclosed)]
    /\ UNCHANGED <<arriving, db, delivered, wires, usage, days>>

\* The first copy is the one the row will name.
Named(k) == [k EXCEPT !.primary = IF @ = NoPath THEN k.path ELSE @]

\* A copy succeeds: the wire form is preserved beside the first, and the attachments
\* are persisted.
Copy(p) ==
    /\ handler[p].pc = "copy"
    /\ handler[p].primary = NoPath => ~handler[p].spoiled
    /\ files' = Written(p)
    /\ wires' = wires \cup {Wire(p)}
    /\ UNCHANGED <<arriving, db, delivered, usage, days>>
    /\ handler' = [handler EXCEPT ![p] = NextRecipient(Named(@), Accept)]
    /\ UNCHANGED faults

\* Copies have replaced the first done attachments.
Replaced(k, done) ==
    [k EXCEPT !.spoiled = @ \/ \E j \in 1..done : k.h.atts[j].deflated]

\* persistAttachmentPayloads fails after done attachments: the recipient is refused
\* and the next one tries again.
PersistFails(p) ==
    /\ handler[p].pc = "copy" /\ handler[p].primary = NoPath
    /\ files' = Written(p)
    /\ wires' = wires \cup {Wire(p)}
    /\ UNCHANGED <<arriving, db, delivered, usage, days>>
    /\ \/ /\ handler[p].spoiled
          /\ handler' = [handler EXCEPT ![p] = NextRecipient(@, UserUndisclosed)]
          /\ UNCHANGED faults
       \/ /\ Fault
          /\ \E done \in 0..Len(handler[p].h.atts) - 1 :
                handler' = [handler EXCEPT ![p] = NextRecipient(Replaced(@, done), UserUndisclosed)]

----------------------------------------------------------------------------
AcceptedEntries(p) == {i \in DOMAIN handler[p].codes : handler[p].codes[i] = Accept}

\* localOutcome: of an address in both lists, the later code.
LocalOutcome(p, a) ==
    handler[p].codes[CHOOSE i \in DOMAIN handler[p].codes :
        /\ Recipients(p)[i] = a
        /\ \A j \in DOMAIN handler[p].codes : Recipients(p)[j] = a => j <= i]

BatchRow(h, wire) ==
    [hash |-> h.hash, batch |-> TRUE, from |-> h.from, to |-> ToSet(h.to), adder |-> h.adder,
     addTo |-> ToSet(h.addTo), time |-> h.time, terminal |-> FALSE, intact |-> TRUE,
     path |-> NoPath, wire |-> wire]

\* A message that comes as a batch keeps its wire form with the batch.
MsgRow(h, path, wire) ==
    [hash |-> Canonical(h), batch |-> FALSE, from |-> h.from, to |-> ToSet(h.to),
     adder |-> IF h.hasAddTo THEN h.adder ELSE NoPid, addTo |-> ToSet(h.addTo),
     time |-> h.time, terminal |-> h.terminal, intact |-> TRUE,
     path |-> path, wire |-> IF h.hasAddTo THEN NoPath ELSE wire]

\* attachAddToRecipients: the recipients of the batch whose domain is spelled as this
\* host spells it are delivered, whatever their codes; the to rows are there already.
AttachAddToRecipients(h, wire) ==
    /\ db' = {IF ~r.batch /\ r.hash = h.pid THEN [r EXCEPT !.addTo = @ \cup ToSet(h.addTo)] ELSE r
                : r \in db} \cup {BatchRow(h, wire)}
    /\ delivered' = delivered \cup ({h.pid} \X (ToSet(LocalIn(h.addTo)) \cap OwnCase))

\* storeMsgDetail; a message that is no add-to collides with its stored row.
Collides(h) == ~h.hasAddTo /\ MsgByHash(db, h.hash) # {}

StoreMsgDetail(p) ==
    LET h == handler[p].h IN
    /\ ~Collides(h)
    /\ IF MsgByHash(db, Canonical(h)) # {} THEN AttachAddToRecipients(h, Wire(p)) ELSE
       /\ db' = db \cup {MsgRow(h, handler[p].primary, Wire(p))}
                   \cup (IF h.hasAddTo THEN {BatchRow(h, Wire(p))} ELSE {})
       /\ delivered' = delivered \cup
            {<<Canonical(h), a>> : a \in {b \in ToSet(Recipients(p)) : LocalOutcome(p, b) = Accept}}

AtEndOfLoop(p) == handler[p].pc = "check" /\ handler[p].i > Len(Recipients(p))

\* Nobody accepts: the codes are sent and nothing is kept.
StoreNothing(p) ==
    /\ AtEndOfLoop(p) /\ AcceptedEntries(p) = {}
    /\ End(p)
    /\ wires' = wires \ {Wire(p)}
    /\ UNCHANGED <<arriving, db, delivered, files, usage, days, faults>>

StoreAcceptedMessage(p) ==
    /\ AtEndOfLoop(p) /\ AcceptedEntries(p) # {}
    /\ StoreMsgDetail(p)
    /\ handler' = [handler EXCEPT ![p].pc = "report"]
    /\ UNCHANGED <<arriving, files, wires, usage, days, faults>>

\* A slip: what storeAcceptedMessage returns decides whether the wire form stays.
StoreFailsAndRemoves(p) ==
    /\ AtEndOfLoop(p) /\ AcceptedEntries(p) # {}
    /\ \/ Collides(handler[p].h) /\ UNCHANGED <<db, delivered, faults>>
       \/ Fault /\ UNCHANGED <<db, delivered>>
       \/ Fault /\ StoreMsgDetail(p)
    /\ End(p)
    /\ wires' = wires \ {Wire(p)}
    /\ UNCHANGED <<arriving, files, usage, days>>

\* The transaction fails, or its commit is not acknowledged: every accepting
\* code becomes 105 and nothing is reported; the wire form stays.
StoreFails(p) ==
    /\ AtEndOfLoop(p) /\ AcceptedEntries(p) # {}
    /\ \/ Collides(handler[p].h) /\ UNCHANGED <<db, delivered, faults>>
       \/ Fault /\ UNCHANGED <<db, delivered>>
       \/ Fault /\ StoreMsgDetail(p)
    /\ End(p)
    /\ UNCHANGED <<arriving, files, wires, usage, days>>

Charged(u, times, size) ==
    [count |-> u.count + times, day |-> u.day + times * size, total |-> u.total + times * size]

\* recordRecvUsage: a report per accepted entry; one that fails is lost.  Then
\* the codes are sent.
RecordRecvUsage(p) ==
    /\ handler[p].pc = "report"
    /\ \E lost \in SUBSET AcceptedEntries(p) :
         /\ (lost = {} /\ UNCHANGED faults) \/ (lost # {} /\ Fault)
         /\ usage' = [a \in Users |-> Charged(usage[a],
                Cardinality({i \in AcceptedEntries(p) \ lost : Recipients(p)[i] = a}),
                StoredSize(handler[p].h))]
    /\ End(p)
    /\ UNCHANGED <<arriving, db, delivered, files, wires, days>>

\* storeMsgHeaderOnly, for code 11; a failure answers code 3.
StoreMsgHeaderOnly(p) ==
    /\ handler[p].pc = "notify"
    /\ \/ AttachAddToRecipients(handler[p].h, NoPath) /\ (UNCHANGED faults \/ Fault)
       \/ Fault /\ UNCHANGED <<db, delivered>>
    /\ End(p)
    /\ UNCHANGED <<arriving, files, wires, usage, days>>

\* The id service starts a new day.
NewDay ==
    /\ days < MaxDays
    /\ days' = days + 1
    /\ usage' = [a \in Users |-> [usage[a] EXCEPT !.count = 0, !.day = 0]]
    /\ UNCHANGED <<arriving, handler, db, delivered, files, wires, faults>>

HandlerStep(p) ==
    \/ ReadHeader(p) \/ Download(p) \/ GiveUp(p) \/ CheckRecipient(p) \/ Copy(p)
    \/ CopyFails(p) \/ PersistFails(p) \/ StoreNothing(p) \/ StoreAcceptedMessage(p)
    \/ StoreFails(p) \/ RecordRecvUsage(p) \/ StoreMsgHeaderOnly(p)

Next == NewDay \/ \E p \in Slots : Arrive(p) \/ HandlerStep(p)

Spec == Init /\ [][Next]_vars

\* A handler runs until it returns: its reads have deadlines.
FairSpec == Spec /\ \A p \in Slots : WF_vars(HandlerStep(p))

----------------------------------------------------------------------------
Pcs == {"idle", "header", "data", "check", "copy", "notify", "report"}

TypeOK ==
    /\ arriving \subseteq AllHeaders
    /\ \A p \in Slots :
         /\ handler[p].pc \in Pcs
         /\ handler[p].pc # "idle" =>
                /\ Len(handler[p].codes) = handler[p].i - 1
                /\ handler[p].i \in 1..Len(Recipients(p)) + 1
    /\ delivered \subseteq {r.hash : r \in db} \X Addrs
    /\ \A f \in DOMAIN files : f \in Addrs \X Nat \X Nat
    /\ wires \subseteq HeaderHashes \X Slots
    /\ usage \in [Users -> [count : Nat, day : Nat, total : Nat]]
    /\ days \in 0..MaxDays /\ faults \in 0..MaxFaults

\* The checks of readHeader, made one by one as the fields arrive, let through
\* what SPEC.md 10.3 lets through and answer as 10.4 says, and refuse with the
\* code of a rule that is broken, but for what Comparable leaves out.
HeaderAgrees ==
    [][\A p \in Slots : handler[p].pc = "header" /\ handler'[p].pc # "header" =>
         (Comparable(handler[p].h, db) =>
              SpecAllows(handler'[p].verdict, handler[p].h, Now, db))]_vars

\* A stored message keeps what it will be read and relayed from, even when the
\* host took its own commit for a failure: it names a file, its wire form is
\* still there (downloadMessage's deferred removal, wireStored).
StoredIsWhole ==
    \A r \in db : /\ r.batch \/ r.path # NoPath
                  /\ r.wire = NoPath \/ r.wire \in wires

LimitedUsers == {a \in Users : Limits[a].total > -1}

EntriesOf(h, a) ==
    Cardinality({i \in DOMAIN LocalRecipients(h) : LocalRecipients(h)[i] = a})

\* How often a header may list one limited user, and the largest to do so.
ForLimited  == {h \in AllHeaders : \E a \in LimitedUsers : EntriesOf(h, a) > 0}
MostEntries == Max({0} \cup {EntriesOf(h, a) : h \in ForLimited, a \in LimitedUsers})
Largest     == Max({0} \cup {StoredSize(h) : h \in ForLimited})

\* What handler p has accepted for a, or is about to, and has not reported yet: the
\* entries, by handler, and their bytes.
Held(p, a) ==
    {i \in AcceptedEntries(p) \cup (IF handler[p].pc = "copy" THEN {handler[p].i} ELSE {}) :
        Recipients(p)[i] = a}

Unreported(a) == UNION {{p} \X Held(p, a) : p \in Slots}
InFlight(a)   == UNION {{e} \X (1..StoredSize(handler[e[1]].h)) : e \in Unreported(a)}

\* A recipient's quota is overrun only by what was checked while other messages
\* were on their way to being reported: by one message less than the handlers
\* can hold at once, however checks, stores and lost reports interleave
\* (validateMsgRecvForAddr before the store, recordRecvUsage after it).
OverrunIsBounded ==
    \A a \in LimitedUsers :
        usage[a].total + Cardinality(InFlight(a))
            <= Limits[a].total + (Cardinality(Slots) * MostEntries - 1) * Largest

\* A handler returns, whatever its peer does (handleConn's read deadlines).
HandlersReturn == \A p \in Slots : (handler[p].pc # "idle") ~> (handler[p].pc = "idle")

\* The file a stored message names holds that message (uniqueFilepath).
FileIsOwn ==
    \A r \in db : Len(r.path) = 3 => r.path \in DOMAIN files /\ files[r.path] = r.hash
============================================================================

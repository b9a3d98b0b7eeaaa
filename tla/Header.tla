------------------------------ MODULE Header ------------------------------
(***************************************************************************)
(* The header exchange of a receiving host (readHeader in                  *)
(* cmd/fmsgd/host.go): what it answers to a header, from the checks in the *)
(* order the fields are read.                                              *)
(*                                                                         *)
(* An address or a file name that does not parse is Malformed; other names *)
(* are compared as the code compares them, without regard to case.  Of a   *)
(* media type only matters whether it is known; of a source address, which *)
(* domain DNS vouches for it.  A header that breaks off is the caller's.   *)
(***************************************************************************)
EXTENDS ResponseCodes, FiniteSets, Sequences, SequencesExt

CONSTANTS
    Addrs, Domains, DomainOf,   \* addresses, and the domain of each
    Here,           \* the domain of this host
    Malformed,      \* an address or file name that does not parse
    NoPid,          \* no parent hash; also no address
    MaxSize,        \* MaxMessageSize
    MaxExpanded,    \* MaxExpandedSize
    Word,           \* sizes are added up modulo this (2^32 in the code)
    PastDelta,      \* PastTimeDelta, FutureTimeDelta (0 switches a check off)
    FutureDelta

ASSUME HeaderAssumption ==
    /\ DomainOf \in [Addrs -> Domains]
    /\ Here \in Domains
    /\ Malformed \notin Addrs /\ NoPid \notin Addrs
    /\ {MaxSize, MaxExpanded, Word, PastDelta, FutureDelta} \subseteq Nat
    /\ Word > MaxSize /\ Word > MaxExpanded

(***************************************************************************)
(* A header h:                                                             *)
(*   hash                   its message hash, which stands for its content *)
(*   supported, reserved, terminal, hasAddTo   version and flags           *)
(*   pid, from, to, adder, addTo, time, mapped (type known)                *)
(*   body, atts             sizes [size, deflated, expanded]; an           *)
(*                          attachment has reserved, mapped, name as well  *)
(*   source                 the domain whose host sent it                  *)
(* A stored row or batch r, as the database loads it:                      *)
(*   hash, batch (is it a batch's), from, to, adder, addTo, time, terminal,*)
(*   intact (its payload files still hash to it)                           *)
(***************************************************************************)

IsPart(part) == part.size \in Nat /\ part.deflated \in BOOLEAN /\ part.expanded \in Nat

\* What the bytes of a header can say.
IsHeader(h) ==
    /\ h.hash # NoPid /\ h.time \in Nat
    /\ {h.supported, h.reserved, h.terminal, h.hasAddTo, h.mapped} \subseteq BOOLEAN
    /\ h.from \in Addrs \cup {Malformed}
    /\ h.to \in Seq(Addrs \cup {Malformed}) /\ h.addTo \in Seq(Addrs \cup {Malformed})
    /\ IF h.hasAddTo THEN h.adder \in Addrs \cup {Malformed} ELSE h.adder = NoPid /\ h.addTo = <<>>
    /\ IsPart(h.body)
    /\ DOMAIN h.atts = 1..Len(h.atts) /\ Len(h.atts) \in Nat
    /\ \A i \in DOMAIN h.atts :
          IsPart(h.atts[i]) /\ {h.atts[i].reserved, h.atts[i].mapped} \subseteq BOOLEAN

Local(a) == a \in Addrs /\ DomainOf[a] = Here

\* The part of an address list this host serves, in its order.
LocalIn(s) ==
    LET upTo[n \in 0..Len(s)] ==
            IF n = 0 THEN <<>> ELSE
            IF Local(s[n]) THEN Append(upTo[n - 1], s[n]) ELSE upTo[n - 1]
    IN  upTo[Len(s)]

LocalRecipients(h) == LocalIn(h.to) \o LocalIn(h.addTo)

\* Where reading an address list stops: an address that does not parse, or one
\* already seen; 0 when the list is read to its end.
FirstBad(s) ==
    LET bad == {i \in DOMAIN s : s[i] = Malformed \/ \E j \in 1..i - 1 : s[j] = s[i]}
    IN  IF bad = {} THEN 0 ELSE CHOOSE i \in bad : \A j \in bad : i <= j

ExpandedSize(part) == IF part.deflated THEN part.expanded ELSE part.size

\* The sizes of the attachments, added to the body's.
Total(body, atts) ==
    LET upTo[n \in 0..Len(atts)] == IF n = 0 THEN body ELSE upTo[n - 1] + atts[n]
    IN  upTo[Len(atts)]

WireSize(h) == Total(h.body.size, [i \in DOMAIN h.atts |-> h.atts[i].size])

\* storedSize: the space a message takes; an int64, which does not wrap.
StoredSize(h) ==
    Total(ExpandedSize(h.body), [i \in DOMAIN h.atts |-> ExpandedSize(h.atts[i])])

BadAttachment(atts, i) ==
    \/ atts[i].reserved \/ ~atts[i].mapped \/ atts[i].name = Malformed
    \/ \E j \in 1..i - 1 : atts[j].name = atts[i].name

\* determineSenderDomain
SenderDomain(h) == DomainOf[IF h.addTo # <<>> THEN h.adder ELSE h.from]

Rule(broken, answer) == [broken |-> broken, answer |-> answer]

----------------------------------------------------------------------------
(***************************************************************************)
(* The checks in the order of the code.  The first rule that is broken     *)
(* decides; Terminate closes the connection without a code.                *)
(***************************************************************************)
FlagRules(h) == <<
    Rule(~h.supported, Terminate),
    Rule(h.reserved, Invalid),
    Rule(h.hasAddTo /\ h.terminal, Invalid)>>

AddressRules(h) == <<
    Rule(h.from = Malformed, Terminate),
    Rule(h.to = <<>>, Invalid),
    Rule(FirstBad(h.to) # 0, Terminate)>>

\* readAddToRecipients
AddToRules(h) == IF ~h.hasAddTo THEN <<>> ELSE <<
    Rule(h.pid = NoPid, Invalid),
    Rule(h.adder = Malformed, Invalid),
    Rule(h.adder \notin {h.from} \cup ToSet(h.to), Invalid),
    Rule(h.addTo = <<>>, Invalid),
    Rule(FirstBad(h.addTo) # 0 /\ h.addTo[FirstBad(h.addTo)] = Malformed, Terminate),
    Rule(FirstBad(h.addTo) # 0, Invalid)>>

TimeRules(h, now) == <<
    Rule(PastDelta > 0 /\ now - h.time > PastDelta, PastTime),
    Rule(FutureDelta > 0 /\ h.time - now > FutureDelta, FutureTime)>>

\* readMessageType, readAttachmentHeaders, whose totals wrap.
SizeRules(h) == <<
    Rule(~h.mapped, Invalid),
    Rule(h.body.deflated /\ h.body.expanded > MaxExpanded, TooBig),
    Rule(\E i \in DOMAIN h.atts : BadAttachment(h.atts, i), Invalid),
    Rule(WireSize(h) % Word > MaxSize, TooBig),
    Rule(StoredSize(h) % Word > MaxExpanded, TooBig)>>

\* Recipients here, or the sender of what others are added to.
Concerned(h) ==
    LocalRecipients(h) # <<>> \/ (h.addTo # <<>> /\ DomainOf[h.from] = Here)

ConcernRules(h) == <<
    Rule(~Concerned(h), Invalid),
    Rule(h.source # SenderDomain(h), Terminate)>>

\* A slip: those a batch added may add in turn.
EveryParticipant(r) == {r.from} \cup r.to \cup r.addTo

\* isOriginalParticipant; isParentParticipant, to whom loadMsg offers the
\* recipients of every batch.
OriginalParticipants(r) == {r.from} \cup r.to
ParentParticipants(r)   == OriginalParticipants(r) \cup {r.adder} \cup r.addTo

MsgByHash(db, hash)   == {r \in db : ~r.batch /\ r.hash = hash}
BatchByHash(db, hash) == {r \in db : r.batch /\ r.hash = hash}

\* handleAddToPath, handleAddToParentNotStored: the parent is a message, never
\* a batch; one whose files are gone cannot be loaded at all.
AddToPathRules(h, db) ==
    LET stored == MsgByHash(db, h.pid) IN <<
    Rule(stored = {} /\ LocalRecipients(h) # <<>>, Continue),
    Rule(stored = {}, ParentNotFound),
    Rule(\E r \in stored : ~r.intact, Terminate),
    Rule(\E r \in stored : r.terminal, Invalid),
    Rule(\E r \in stored : r.time - FutureDelta > h.time, TimeTravel),
    Rule(\E r \in stored : h.adder \notin OriginalParticipants(r), Invalid),
    Rule(BatchByHash(db, h.hash) # {}, Duplicate),
    Rule(LocalIn(h.addTo) # <<>>, SkipData),
    Rule(TRUE, AcceptAddTo)>>

\* validatePidReplyPath: the parent is a message, else a batch.
ReplyPathRules(h, db) ==
    LET stored == IF MsgByHash(db, h.pid) # {} THEN MsgByHash(db, h.pid)
                                               ELSE BatchByHash(db, h.pid) IN <<
    Rule(stored = {}, ParentNotFound),
    Rule(\E r \in stored : ~r.intact, Terminate),
    Rule(\E r \in stored : r.time - FutureDelta > h.time, TimeTravel),
    Rule(\E r \in stored : h.from \notin ParentParticipants(r), Invalid),
    Rule(\E r \in stored : r.terminal, Invalid)>>

First(rules) ==
    LET broken == {i \in DOMAIN rules : rules[i].broken}
    IN  IF broken = {} THEN Continue
        ELSE rules[CHOOSE i \in broken : \A j \in broken : i <= j].answer

\* A reader that refused the header has the last word.
Then(verdict, next) == IF verdict # Continue THEN verdict ELSE next

\* The fields, in the order they are read.
FieldVerdict(h, now) ==
    Then(First(FlagRules(h)),
    Then(First(AddressRules(h)),
    Then(First(AddToRules(h)),
    Then(First(TimeRules(h, now)), First(SizeRules(h))))))

\* What the header is checked against once it is read.
PathVerdict(h, db) ==
    Then(First(ConcernRules(h)),
         IF h.addTo # <<>> THEN First(AddToPathRules(h, db)) ELSE
         IF h.pid # NoPid THEN First(ReplyPathRules(h, db)) ELSE Continue)

\* readHeader: Continue, SkipData or AcceptAddTo, or the refusal.
ReadHeaderVerdict(h, now, db) == Then(FieldVerdict(h, now), PathVerdict(h, db))

----------------------------------------------------------------------------
(***************************************************************************)
(* The same exchange as SPEC.md 10.3 and 10.4 state it, rule by rule and   *)
(* in no order: the answers the broken rules call for.                     *)
(***************************************************************************)
Distinct(s) == Cardinality(ToSet(s)) = Len(s)

SpecValid(h) ==
    /\ h.to # <<>> /\ Distinct(h.to)
    /\ h.hasAddTo => /\ h.pid # NoPid /\ ~h.terminal
                     /\ h.adder \in {h.from} \cup ToSet(h.to)
                     /\ h.addTo # <<>> /\ Distinct(h.addTo)
    /\ \E a \in ToSet(h.to) \cup (IF h.hasAddTo THEN {h.from, h.adder} \cup ToSet(h.addTo) ELSE {}) :
           Local(a)
    /\ h.mapped /\ ~h.reserved
    /\ \A i \in DOMAIN h.atts : ~BadAttachment(h.atts, i)

SpecParses(h) == Malformed \notin {h.from} \cup ToSet(h.to) \cup ToSet(h.addTo)

\* The participants of the message or batch a hash names (10.3 step 7 and 12): whom a
\* batch added is a participant of that batch only.
SpecParticipants(r) ==
    {r.from} \cup r.to \cup (IF r.batch THEN {r.adder} \cup r.addTo ELSE {})

SpecFits(h) == WireSize(h) <= MaxSize /\ StoredSize(h) <= MaxExpanded

\* What the comparison leaves out: sums of sizes that wrap; a repeated to address and
\* a parent whose files are gone, where the code closes without an answer; a hash that
\* a message shares with a batch, which it does when somebody is added to the batch as
\* if it were a message; a reply to a message by one whom only a batch added to it,
\* whom the code lets through and section 12 turns away.
Comparable(h, db) ==
    /\ WireSize(h) < Word /\ StoredSize(h) < Word
    /\ Distinct(h.to)
    /\ \A r \in db : r.hash = h.pid => r.intact
    /\ \A r, s \in db : r.hash = h.pid /\ s.hash = h.pid => r.batch = s.batch
    /\ ~h.hasAddTo => \A r \in MsgByHash(db, h.pid) :
                          h.from \notin ParentParticipants(r) \ SpecParticipants(r)

\* The parent of an add-to is a message; that of a reply is either.
SpecParents(h, db) ==
    {r \in db : r.hash = h.pid /\ r.intact /\ (h.hasAddTo => ~r.batch)}

SpecBroken(h, now, db) ==
    LET parents == SpecParents(h, db)
        sender  == IF h.hasAddTo THEN h.adder ELSE h.from
        rules == {
            Rule(~h.supported \/ ~SpecParses(h), Terminate),
            Rule(~SpecValid(h), Invalid),
            Rule(sender \in Addrs /\ h.source # DomainOf[sender], Terminate),
            Rule(~SpecFits(h), TooBig),
            Rule(PastDelta > 0 /\ h.time < now - PastDelta, PastTime),
            Rule(FutureDelta > 0 /\ h.time > now + FutureDelta, FutureTime),
            Rule(h.pid # NoPid /\ parents = {} /\ ~(h.hasAddTo /\ LocalRecipients(h) # <<>>),
                 ParentNotFound),
            Rule(\E r \in parents : r.time - FutureDelta > h.time, TimeTravel),
            Rule(\E r \in parents : r.terminal, Invalid),
            Rule(\E r \in parents : ~h.hasAddTo /\ h.from \notin SpecParticipants(r), Invalid),
            Rule(\E r \in parents : h.hasAddTo /\ h.adder \notin {r.from} \cup r.to, Invalid)}
    IN  {r.answer : r \in {x \in rules : x.broken}}

SpecResponse(h, db) ==
    CASE ~h.hasAddTo \/ SpecParents(h, db) = {} -> Continue
      [] OTHER -> IF BatchByHash(db, h.hash) # {} THEN Duplicate ELSE
                  IF LocalIn(h.addTo) # <<>> THEN SkipData ELSE AcceptAddTo

\* A verdict that lets through what the rules let through, answers it as they say, and
\* refuses with the code of a rule that is broken.
SpecAllows(verdict, h, now, db) ==
    IF SpecBroken(h, now, db) = {} THEN verdict = SpecResponse(h, db)
                                   ELSE verdict \in SpecBroken(h, now, db)
============================================================================

------------------------------- MODULE Wire -------------------------------
(***************************************************************************)
(* What one sending host and the receiving hosts share: the wire messages, *)
(* their recipients and the connections that carry them.                   *)
(*                                                                         *)
(* A stored message is several wire messages, here "units": its original   *)
(* form, addressed to the message's To list, and one unit per add-to       *)
(* batch, addressed to the batch's AddTo list.  A batch carries the To     *)
(* list as well, and the hash of the message it extends as its pid.        *)
(*                                                                         *)
(* Hashes are abstracted to identities: the canonical hash of a message is *)
(* the message, the hash of a unit is the unit.  Payloads do not appear.   *)
(* A header has a recipient entry for every address of either list, and a  *)
(* host answers every entry of its own: an address in both lists gets two  *)
(* codes.  One sender spells an address alike in the lists and rows of a   *)
(* message; hosts may still differ on the case of its domain (OwnCase).    *)
(***************************************************************************)
EXTENDS FiniteSets, ResponseCodes

CONSTANTS
    Msgs,       \* messages originating on the sending host
    Units,      \* wire messages: originals and add-to batches
    Batches,    \* the units that are add-to batches
    Addrs,      \* recipient addresses
    Domains,    \* recipient domains
    Local,      \* the sending host's own domain
    Conns,      \* connection slots (bounds the connections alive at once)
    NoOne,      \* no parent, no lock owner, no connection
    MsgOf,      \* [Units -> Msgs]            the message a unit belongs to
    To,         \* [Msgs -> SUBSET Addrs]     the to list
    AddTo,      \* [Units -> SUBSET Addrs]    the add-to list, empty for an original
    Notify,     \* [Units -> SUBSET Domains]  domains owed a notification of a batch
    DomainOf,   \* [Addrs -> Domains]
    Parent,     \* [Msgs -> Units or NoOne]   the unit a message replies to
    Terminal,   \* the messages with the terminal flag
    MaxFaults   \* bound on the failures in a behaviour

ASSUME WireAssumption ==
    /\ Units # {} /\ Batches \subseteq Units
    /\ MaxFaults \in Nat
    /\ MsgOf \in [Units -> Msgs]
    /\ To \in [Msgs -> SUBSET Addrs]
    /\ AddTo \in [Units -> SUBSET Addrs]
    /\ Notify \in [Units -> SUBSET Domains]
    /\ DomainOf \in [Addrs -> Domains]
    /\ Parent \in [Msgs -> Units \cup {NoOne}]
    /\ Terminal \subseteq Msgs
    /\ Local \in Domains
    /\ Addrs \cap Domains = {}
    /\ NoOne \notin Conns
    \* the domains notified of a batch host none of its recipients (dd.sql)
    /\ \A u \in Units : \A a \in AddTo[u] : DomainOf[a] \notin Notify[u]
    /\ \A u \in Units \ Batches : AddTo[u] = {} /\ Notify[u] = {}

VARIABLES
    conn,       \* [Conns -> Connection]
    faults      \* failures so far (bound of the model)

\* The codes an exchange of well-formed messages can meet.
Codes == {NullCode, Invalid, Undisclosed, InsufficientResources, ParentNotFound,
          Duplicate, AcceptAddTo, Continue, SkipData, UserUnknown, UserFull, UserNotAccepting,
          UserDuplicate, UserUndisclosed, Accept, NoResponse}

Lists == {"to", "add to"}

\* A recipient entry of a header: an address in one of the two lists.
Entries == Lists \X Addrs

Listed(u, l) == IF l = "to" THEN To[MsgOf[u]] ELSE AddTo[u]

\* localRecipients: the entries of unit u's header hosted by domain d.  Both ends
\* derive the order of their codes from the header: to first, then add to.
LocalEntries(u, d) == {e \in Entries : e[2] \in Listed(u, e[1]) /\ DomainOf[e[2]] = d}

LocalRecipients(u, d) == {e[2] : e \in LocalEntries(u, d)}

AddToAt(u, d) == {a \in AddTo[u] : DomainOf[a] = d}

\* The addresses that unit u lists twice.
InBothLists(u) == To[MsgOf[u]] \cap AddTo[u]

\* The recipients a unit is sent for: rows of msg_to, or of msg_add_to.
Recipients(u) == IF u \in Batches THEN AddTo[u] ELSE To[MsgOf[u]]

(***************************************************************************)
(* One connection, as both ends see it.                                    *)
(*   rx     progress of the receiving handler                              *)
(*   open   the sender has not closed its end                              *)
(*   plan   the response the header exchange arrived at (64, 65 or 11)     *)
(*   init   the initial response byte, NullCode until written              *)
(*   data   the sender transmitted the payload                             *)
(*   codes  a byte per local entry, on the wire once rx = "answered"       *)
(***************************************************************************)
RxStates == {"free", "header", "checked", "responded", "validated",
             "answered", "closed", "aborted"}

Connection ==
    [rx : RxStates, open : BOOLEAN, unit : Units, dom : Domains, plan : Codes,
     init : Codes, data : BOOLEAN, codes : [Entries -> Codes]]

NoCodes == [e \in Entries |-> NullCode]

\* The code of a's last entry: of the two entries of an address, the receiver
\* stores this outcome and the sender records it last.
LastCode(u, codes, a) == codes[<<IF a \in AddTo[u] THEN "add to" ELSE "to", a>>]

Finished(k) == k.rx \in {"free", "answered", "closed", "aborted"}

FreeConn ==
    [rx |-> "free", open |-> FALSE, unit |-> CHOOSE u \in Units : TRUE,
     dom |-> Local, plan |-> NullCode, init |-> NullCode, data |-> FALSE,
     codes |-> NoCodes]

\* Unit u's header, written to the host of domain d.
HeaderSent(u, d) ==
    [rx |-> "header", open |-> TRUE, unit |-> u, dom |-> d, plan |-> NullCode,
     init |-> NullCode, data |-> FALSE, codes |-> NoCodes]

\* A connection both ends are done with leaves its slot free.
Recycle(k) == IF Finished(k) /\ ~k.open THEN FreeConn ELSE k

\* The sender closes its end.
Shut(k) == Recycle([k EXCEPT !.open = FALSE])

(***************************************************************************)
(* Failures (lost connections, timeouts, failing transactions, crashes)    *)
(* may happen at any step, MaxFaults times in a behaviour.                 *)
(***************************************************************************)
Fault == faults < MaxFaults /\ faults' = faults + 1

WireTypeOK ==
    /\ conn \in [Conns -> Connection]
    /\ faults \in Nat

WireInit ==
    /\ conn = [c \in Conns |-> FreeConn]
    /\ faults = 0
============================================================================

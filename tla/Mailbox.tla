------------------------------ MODULE Mailbox ------------------------------
(***************************************************************************)
(* What delivery promises its users, with hosts, connections, units and    *)
(* retries left out: messages are posted to recipients, reach their        *)
(* inboxes, and are confirmed to the sender.                               *)
(***************************************************************************)
CONSTANTS
    Msgs,       \* messages
    Addrs       \* recipients

VARIABLES
    posted,     \* <<message, recipient>> sent by its author
    inbox,      \* <<message, recipient>> that the recipient has
    confirmed   \* <<message, recipient>> that the sender reports as delivered

mailboxVars == <<posted, inbox, confirmed>>

MailboxInit == posted = {} /\ inbox = {} /\ confirmed = {}

\* A message is sent, or recipients are added to it.
Post(ps) == posted' = posted \cup ps /\ UNCHANGED <<inbox, confirmed>>

\* It reaches the recipients of one host, who keep it.
Arrive(ps) == ps \subseteq posted /\ inbox' = inbox \cup ps /\ UNCHANGED <<posted, confirmed>>

\* The sender learns that recipients have it.
Confirm(ps) == ps \subseteq inbox /\ confirmed' = confirmed \cup ps /\ UNCHANGED <<posted, inbox>>

MailboxNext == \E ps \in SUBSET (Msgs \X Addrs) : Post(ps) \/ Arrive(ps) \/ Confirm(ps)

Spec == MailboxInit /\ [][MailboxNext]_mailboxVars
============================================================================

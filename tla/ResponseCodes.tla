--------------------------- MODULE ResponseCodes ---------------------------
(***************************************************************************)
(* The response codes of the protocol, and the host's own: 0 is SQL NULL,  *)
(* or a byte not sent yet, -1 an attempt that got no response.  Terminate  *)
(* stands for a connection closed without a code.                          *)
(***************************************************************************)
EXTENDS Integers

NullCode            == 0
Invalid             == 1
Undisclosed         == 3
TooBig              == 4
InsufficientResources == 5
ParentNotFound      == 6
PastTime            == 7
FutureTime          == 8
TimeTravel          == 9
Duplicate           == 10
AcceptAddTo         == 11
Continue            == 64
SkipData            == 65
UserUnknown         == 100
UserFull            == 101
UserNotAccepting    == 102
UserDuplicate       == 103
UserUndisclosed     == 105
Accept              == 200
NoResponse          == -1
Terminate           == -2
============================================================================

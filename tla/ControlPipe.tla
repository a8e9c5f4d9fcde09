----------------------------- MODULE ControlPipe ----------------------------
(***************************************************************************)
(* What endpoint 0 promises the host.  A setup request may be accepted at  *)
(* any time and ends the transfer before it.  The reply to it leaves in    *)
(* packets of 8 bytes, in order, with alternating tokens from DATA1 on; a  *)
(* packet of less than 8 bytes ends it, and there is always one.           *)
(***************************************************************************)
EXTENDS UsbDefs

CONSTANT Requests   \* the requests a host may send

VARIABLES
  req,    \* the request accepted last
  sent,   \* packets of its reply sent so far
  out     \* the last of them

pipe == <<req, sent, out>>

\* Bytes of the reply that remain after n packets.
Left(r, n) == Limit(ReplyLength(r), r.wLength) - PacketSize * n
HasBlock(r, n) == r \in Requests /\ Left(r, n) >= 0

BlockToken(n) == IF n % 2 = 0 THEN USBPID_DATA1 ELSE USBPID_DATA0
BlockSegment(r, n) ==
  IF Left(r, n) = 0 THEN Empty
  ELSE [obj |-> ReplyObject(r), off |-> PacketSize * n,
        len |-> Min2(Left(r, n), PacketSize)]
Block(r, n) == [tok |-> BlockToken(n), seg |-> BlockSegment(r, n)]

Init == req = Junk /\ sent = 0 /\ out = NoPacket

Accept == req' \in Requests /\ sent' = 0 /\ out' = NoPacket

Send ==
  /\ HasBlock(req, sent)
  /\ out' = Block(req, sent)
  /\ sent' = sent + 1
  /\ req' = req

Next == Accept \/ Send

Spec == Init /\ [][Next]_pipe
=============================================================================

----------------------------- MODULE ReportPipe -----------------------------
(***************************************************************************)
(* What endpoint 1 promises: a mailbox for one report.  The application    *)
(* puts a report in it, or takes it back to replace it; the host takes it, *)
(* once, under the data token that the packet before did not have.         *)
(***************************************************************************)
EXTENDS UsbDefs

CONSTANT Reports

VARIABLES
  box,      \* the report the host would get now, or NoReport
  out,      \* the packet it got last
  resync    \* the data token was reset since

pipe == <<box, out, resync>>

Init ==
  /\ box = NoReport
  /\ out = [tok |-> USBPID_DATA1, data |-> NoReport]
  /\ resync = FALSE

Put == box = NoReport /\ box' \in Reports /\ UNCHANGED <<out, resync>>

TakeBack == box # NoReport /\ box' = NoReport /\ UNCHANGED <<out, resync>>

Take ==
  /\ box # NoReport
  /\ \E tok \in IF resync THEN Tokens ELSE {OtherToken(out.tok)} :
       out' = [tok |-> tok, data |-> box]
  /\ box' = NoReport
  /\ resync' = FALSE

Reset == resync' = TRUE /\ UNCHANGED <<box, out>>

Next == Put \/ TakeBack \/ Take \/ Reset

Spec == Init /\ [][Next]_pipe
=============================================================================

------------------------------ MODULE I2cBytes ------------------------------
(***************************************************************************)
(* What an I2C library promises its caller: whole bytes.  One action is    *)
(* one call, and says what it returns and what the controller at the other *)
(* end has learned by then.  Module Adapter is written at this level.      *)
(***************************************************************************)
EXTENDS Integers

CONSTANTS
  Bytes,        \* what the controller may send
  Own           \* its address, with a 0 for the direction

VARIABLES
  call,         \* the call that returned last
  ret,          \* what it returned: a byte, or the acknowledge bit (0 is ACK)
  mode,         \* of the controller: idle, address, receive or send
  got,          \* the byte it received last
  offer,        \* the byte it sends next
  attached,
  sync          \* library and controller agree on where a byte begins

controller == <<mode, got, offer>>

Init ==
  /\ call = [op |-> "init", arg |-> 0] /\ ret = 0
  /\ mode = "idle" /\ got = 0 /\ offer \in Bytes
  /\ attached \in BOOLEAN /\ sync = FALSE

Start ==
  /\ mode' = IF attached THEN "address" ELSE "idle"
  /\ UNCHANGED <<ret, got, offer>>

Stop == mode' = "idle" /\ UNCHANGED <<ret, got, offer>>

\* A controller that is not spoken to leaves the line alone, which reads as NACK.
Write(byte) ==
  IF mode \in {"address", "receive"}
  THEN LET mine == mode = "receive" \/ byte \in {Own, Own + 1} IN
       /\ got' = byte
       /\ ret' = IF mine THEN 0 ELSE 1
       /\ IF mode = "address" /\ byte = Own + 1
          THEN mode' = "send" /\ offer' \in Bytes
          ELSE mode' = (IF mine THEN "receive" ELSE "idle") /\ UNCHANGED offer
  ELSE ret' = 1 /\ UNCHANGED controller

\* nack: the argument is not 0 and the caller does not want another byte; the comment
\* of i2c_primary.c says the opposite, its code and its caller this.
Read(nack) ==
  IF mode = "send"
  THEN /\ ret' = offer
       /\ IF nack THEN mode' = "idle" /\ UNCHANGED <<got, offer>>
                  ELSE offer' \in Bytes /\ UNCHANGED <<mode, got>>
  ELSE ret' = 255 /\ UNCHANGED controller

\* A call of the driver, while library and controller agree.
Call ==
  /\ sync
  /\ \/ call'.op = "start" /\ Start
     \/ call'.op = "stop" /\ Stop
     \/ call'.op = "write" /\ Write(call'.arg)
     \/ call'.op = "read" /\ Read(call'.arg >= 128)
  /\ UNCHANGED <<attached, sync>>

\* A restart of the device, or a hand at the plug: nothing is promised until the
\* controller takes part in a start again.
Disturb == sync' = FALSE /\ attached' \in BOOLEAN /\ UNCHANGED <<call, ret, controller>>

Resync ==
  /\ ~sync /\ sync' = TRUE
  /\ call'.op = "start"
  /\ mode' = IF attached THEN "address" ELSE "idle"
  /\ got' \in 0 .. 255 /\ offer' \in Bytes
  /\ UNCHANGED <<ret, attached>>

Next == Call \/ Disturb \/ Resync
Spec == Init /\ [][Next]_<<call, ret, controller, attached, sync>>
=============================================================================

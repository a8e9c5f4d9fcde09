\* usbCrc16Append in both versions, and the check of what arrives of the packet.
SPECIFICATION Spec
CONSTANTS
  Messages <- AllMessages
  Damage <- AllDamage
INVARIANTS SumAppended OnlyWholeAccepted
CHECK_DEADLOCK FALSE

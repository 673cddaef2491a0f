\* A pool with one long or double still takes the six constants (15 + 2 + 6 < 24);
\* with both of them the count wraps (15 + 4 + 6).
CONSTANTS
    Classes <- MCClasses
    Limit = 24
    length <- MCLength
    field_to_get = "actionNumber"
    method_to_hook = "readPacketData"
    method_desc = "(B)V"
    native_callback_name = "log"
SPECIFICATION Spec
INVARIANTS
    TypeOK
    ParsedAsJVMReads
    WrittenIfInstrumentable
    ConstantsStay
    NativeMethodResolves
    OnlyTheTargetChanges
PROPERTY
    InstrumentableIsWritten
CHECK_DEADLOCK FALSE

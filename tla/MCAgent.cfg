CONSTANT
    Failures = {"AttachToJVM", "SetEventNotificationMode", "instrument", "Allocate",
                "GetClassSignature", "RegisterNatives"}

SPECIFICATION Spec

INVARIANTS
    TypeOK
    CoveredCallsAreBound

CHECK_DEADLOCK FALSE

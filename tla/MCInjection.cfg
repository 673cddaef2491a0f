CONSTANTS
    Methods <- MCMethods
    MaxItems = 4
    Operands = {0, 177}
    fieldref = 5
    methodref = 9

SPECIFICATION Spec

INVARIANTS
    TypeOK
    ReportsBeforeReturn
    ReportsAtStart
    StackFits
PROPERTIES
    RunsAsBefore

CHECK_DEADLOCK FALSE

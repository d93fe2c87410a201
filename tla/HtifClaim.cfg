CONSTANTS Text <- Message  Code = 3  Struct = 64
SPECIFICATION Spec
INVARIANT StructIsRead
CHECK_DEADLOCK FALSE

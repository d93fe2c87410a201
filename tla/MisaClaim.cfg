CONSTANT XLEN = 32
SPECIFICATION DecodeSpec
INVARIANT MisaExtensionsDecode
CHECK_DEADLOCK FALSE

\* One decode per raw word, then nothing more to do.
CONSTANT XLEN = 32
SPECIFICATION DecodeSpec
INVARIANTS DecodesWhatItShould DecodeTypeOK ImmediatesAgree
  DecodesNothingElse ForeignPanics
CHECK_DEADLOCK FALSE

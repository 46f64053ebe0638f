------------------------------ MODULE MCInsnList ------------------------------
(* Bytes of seven values: a 16-bit displacement reaches 24, not three        *)
(* immediate operands.                                                       *)
EXTENDS InsnList

SomeLocals == {0, Byte}
SomeIncrements == {-1, Byte}

===============================================================================

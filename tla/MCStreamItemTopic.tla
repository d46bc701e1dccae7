--------------------------- MODULE MCStreamItemTopic ---------------------------
(* A small instance of StreamItemTopic for TLC: an int of 10 bits and messages  *)
(* of up to 64 bytes, with sizes on both sides of every limit.  The product of *)
(* 64 does not fit and wraps below zero, that of 128 to zero, 600 is no int.   *)
EXTENDS StreamItemTopic

ArraySizes == {Absent, NoNumber, -1, 7, 8, 63, 64, 128, 600}
ByteSizes == {Absent, NoNumber, 63, 64, 600}

MCStreamTypes ==
  [meta : {PlainArray}, maxByteSize : ByteSizes, maxArraySize : ArraySizes]
    \cup [meta : {"plain"}, maxByteSize : {Absent, 63, 64}, maxArraySize : {NoNumber, 8}]
================================================================================

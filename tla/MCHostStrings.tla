--------------------------- MODULE MCHostStrings ---------------------------
(* The buffers have the sizes of the code; the strings are of lengths at   *)
(* both sides of the sizes, and one for which no block is large enough.    *)
EXTENDS HostStrings

MCLengths == {0, 259, 260, 1023, 1024, 6000}
=============================================================================

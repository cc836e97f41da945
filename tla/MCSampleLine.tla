---------------------------- MODULE MCSampleLine ----------------------------
(* Six-bit numbers of two-bit digits: one, two and three digits, zero, and   *)
(* both ends of the signed range.                                             *)
EXTENDS SampleLine
Edges == {-32, -31, -17, -16, -4, -1, 0, 1, 3, 4, 15, 16, 17, 31}
Printables == {<<v, 0, -1, 1, 2>> : v \in Edges} \cup {<<3, -32, 0, 63, 4>>}
===========================================================================

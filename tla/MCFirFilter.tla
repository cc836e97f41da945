---------------------------- MODULE MCFirFilter ----------------------------
(* Three taps of 6-bit arithmetic, four bits of them after the point: small  *)
(* enough to enumerate, with products and partial sums that leave the 6 bits, *)
(* and coefficients of either sign that lose bits when they are converted.    *)
EXTENDS FirFilter
Float(negative, exp, fraction) == [negative |-> negative, exp |-> exp, fraction |-> fraction]
EasyTaps == <<Float(FALSE, -1, 5), Float(FALSE, -1, 14), Float(FALSE, -3, 3)>>
HardTaps == <<Float(FALSE, 0, 2), Float(TRUE, -2, 11), Float(FALSE, 0, 6)>>
Samples  == {-3, -1, 0, 2, 5}
===========================================================================

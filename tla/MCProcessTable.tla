---------------------------- MODULE MCProcessTable ----------------------------
(* The constants of ProcessTable that are negative, for TLC.               *)
EXTENDS ProcessTable

ASSUME ProcessAssumption

\* A process exits with a negative value, which becomes positive.
SomeRetvals == {-1}
\* Ints of two bits.
MinusTwo == -2
=============================================================================

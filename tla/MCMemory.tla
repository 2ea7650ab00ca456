------------------------------ MODULE MCMemory -------------------------------
(* The finite instances of Memory for TLC.                                 *)
EXTENDS Memory

\* The heap begins beside the page of ro (page 3), or in a pair of its own (4).
TwoImages ==
    {[ro |-> 2, ro_pages |-> 1, rw |-> 3, rw_pages |-> 0],
     [ro |-> 4, ro_pages |-> 0, rw |-> 4, rw_pages |-> 0]}
=============================================================================

------------------------------ MODULE MCNetwork ------------------------------
(* The finite instances of Network for TLC.                                *)
EXTENDS Network

CONSTANTS u1, u2

\* Frames that arrive faster than they are read; a pool with no page to spare;
\* sockets that are closed and opened again; two threads that send.
NetworkLoads ==
    {[pool |-> 4, users |-> {u1}, protocols |-> {POP}, ports |-> {1}, dports |-> {1},
      opens |-> 1, recvs |-> 2, sends |-> 0, arrivals |-> 3, ticks |-> 1],
     [pool |-> 3, users |-> {u1}, protocols |-> {POP}, ports |-> {1}, dports |-> {1},
      opens |-> 1, recvs |-> 2, sends |-> 1, arrivals |-> 2, ticks |-> 0],
     [pool |-> 4, users |-> {u1}, protocols |-> {POP, SOP}, ports |-> {1, 2},
      dports |-> {1}, opens |-> 2, recvs |-> 2, sends |-> 0, arrivals |-> 2, ticks |-> 0],
     [pool |-> 4, users |-> {u1, u2}, protocols |-> {POP}, ports |-> {0}, dports |-> {1},
      opens |-> 2, recvs |-> 0, sends |-> 2, arrivals |-> 0, ticks |-> 0]}
=============================================================================

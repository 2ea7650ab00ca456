----------------------------- MODULE BlockDevice -----------------------------
(***************************************************************************)
(* What a generic block device (drivers/gbd.h) promises: a request is      *)
(* performed exactly once, in the order of submission, and its caller      *)
(* learns of it only after it was performed.                               *)
(***************************************************************************)
EXTENDS Sequences, Functions

CONSTANTS Threads, Blocks, Values, NULL

VARIABLES
    store,    \* contents of the device
    buf,      \* the buffer of each thread's request
    want,     \* operation and block of each thread's request, or NULL
    line,     \* the threads whose requests are still to be performed
    open      \* the threads with a request they do not know the outcome of

Init ==
    /\ store \in [Blocks -> Values]
    /\ buf \in [Threads -> Values]
    /\ want = [t \in Threads |-> NULL]
    /\ line = <<>>
    /\ open = {}

\* A thread that has no open request prepares the next one.
Prepare(t) ==
    /\ t \notin open
    /\ \E op \in {"READ", "WRITE"}, b \in Blocks, v \in Values :
        /\ want' = [want EXCEPT ![t] = [op |-> op, block |-> b]]
        /\ buf' = [buf EXCEPT ![t] = v]
    /\ UNCHANGED <<store, line, open>>

Submit(t) ==
    /\ t \notin open /\ want[t] # NULL
    /\ line' = Append(line, t)
    /\ open' = open \cup {t}
    /\ UNCHANGED <<store, buf, want>>

Perform ==
    /\ line # <<>>
    /\ LET t == Head(line)
           b == want[t].block
       IN  IF want[t].op = "READ"
           THEN buf' = [buf EXCEPT ![t] = store[b]] /\ UNCHANGED store
           ELSE store' = [store EXCEPT ![b] = buf[t]] /\ UNCHANGED buf
    /\ line' = Tail(line)
    /\ UNCHANGED <<want, open>>

\* The caller is told, and may use the request for the next block.
Return(t) ==
    /\ t \in open /\ t \notin Range(line)
    /\ open' = open \ {t}
    /\ want' \in {want, [want EXCEPT ![t] = NULL]}
    /\ UNCHANGED <<store, buf, line>>

Next == Perform \/ \E t \in Threads : Prepare(t) \/ Submit(t) \/ Return(t)

Spec == Init /\ [][Next]_<<store, buf, want, line, open>>
=============================================================================

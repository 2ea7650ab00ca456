------------------------------- MODULE ByteFile -------------------------------
(***************************************************************************)
(* What reading and writing an open file promises: the file is a sequence  *)
(* of FileSize bytes, and every call takes effect in one step between its  *)
(* start and its return, as far as the file reaches.                       *)
(***************************************************************************)
EXTENDS Integers

CONSTANTS Users, FileSize, Bytes, Calls, NULL

VARIABLES
    content,   \* the bytes of the file
    call,      \* the call of each thread, or NULL: [op, offset, size, data]
    result     \* what a call that took effect will return, or NULL

\* The bytes that a call reaches, or -1 when it starts outside the file.
Reach(c) ==
    IF c.offset > FileSize THEN -1
    ELSE IF c.size < FileSize - c.offset THEN c.size ELSE FileSize - c.offset

Overwrite(bytes, c) ==
    [k \in 0..(FileSize - 1) |->
        IF c.offset <= k /\ k < c.offset + Reach(c) THEN c.data[k - c.offset] ELSE bytes[k]]

Init ==
    /\ content \in [0..(FileSize - 1) -> Bytes]
    /\ call = [t \in Users |-> NULL]
    /\ result = [t \in Users |-> NULL]

Call(t) ==
    /\ call[t] = NULL
    /\ \E c \in Calls[t] : call' = [call EXCEPT ![t] = c]
    /\ UNCHANGED <<content, result>>

Do(t) ==
    LET c == call[t] IN
    /\ c # NULL /\ result[t] = NULL
    /\ IF c.op = "write"
       THEN /\ content' = Overwrite(content, c)
            /\ result' = [result EXCEPT ![t] = [count |-> Reach(c), bytes |-> <<>>]]
       ELSE /\ result' = [result EXCEPT ![t] =
                            [count |-> Reach(c),
                             bytes |-> [k \in 1..Reach(c) |-> content[c.offset + k - 1]]]]
            /\ UNCHANGED content
    /\ UNCHANGED call

Return(t) ==
    /\ result[t] # NULL
    /\ call' = [call EXCEPT ![t] = NULL]
    /\ result' = [result EXCEPT ![t] = NULL]
    /\ UNCHANGED content

Next == \E t \in Users : Call(t) \/ Do(t) \/ Return(t)

Spec == Init /\ [][Next]_<<content, call, result>>
=============================================================================

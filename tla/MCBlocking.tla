----------------------------- MODULE MCBlocking ------------------------------
(***************************************************************************)
(* Small instances of Semaphore and SFSFile, side by side: the initial     *)
(* state says which of the two runs, and the other stays as it began.      *)
(***************************************************************************)
EXTENDS Semaphore, SFSFile

CONSTANTS t1, t2, t3

VARIABLE component

ASSUME SFSFileAssumption

Read(o, n) == [op |-> "read", offset |-> o, size |-> n, data |-> NULL]
Write(o, n, v) ==
    [op |-> "write", offset |-> o, size |-> n, data |-> [k \in 0..9 |-> (v + k) % 3]]

\* One thread writes whole and partial blocks in every position, and at and
\* behind the end of the file, and reads there; one reads all or writes all but the
\* first byte, and one reads all.
MixedCalls ==
    [t \in Users |->
        CASE t = t1 -> {Write(0, 5, 1), Write(0, 3, 2), Write(3, 1, 2), Write(4, 3, 2),
                        Write(5, 1, 1), Write(6, 1, 1), Read(3, 1), Read(5, 1), Read(6, 1)}
          [] t = t2 -> {Read(0, 6), Write(1, 4, 2)}
          [] t = t3 -> {Read(0, 5)}]

MCvars == <<component, vars, file_vars>>

MCInit == component \in {"semaphores", "file"} /\ Init /\ FileInit

MCNext ==
    /\ UNCHANGED component
    /\ \/ component = "semaphores" /\ Next /\ UNCHANGED file_vars
       \/ component = "file" /\ FileNext /\ UNCHANGED vars

\* The fairness of each component; in the one that does not run nobody is inside a
\* call.
MCFairSpec ==
    /\ MCInit /\ [][MCNext]_MCvars
    /\ \A a \in Actors : SF_vars(Continue(a))
    /\ \A t \in Users : WF_file_vars(GoOn(t))
=============================================================================

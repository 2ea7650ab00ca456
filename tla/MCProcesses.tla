----------------------------- MODULE MCProcesses -----------------------------
(***************************************************************************)
(* Small instances of LockCond and ProcessTable, side by side: the initial *)
(* state says which of the two runs, and the other stays as it began.      *)
(***************************************************************************)
EXTENDS LockCond, MCProcessTable

VARIABLE component

MCvars == <<component, vars, proc_vars>>

MCInit ==
    /\ component \in {"locks", "processes"}
    /\ Init /\ ProcessInit
    /\ component # "processes" => proc_pc[CHOOSE t \in Tids : TRUE] # "free"

MCNext ==
    /\ UNCHANGED component
    /\ \/ component = "locks" /\ Next /\ UNCHANGED proc_vars
       \/ component = "processes" /\ ProcessNext /\ UNCHANGED vars

\* The fairness of each component, as far as it is the one that runs.
MCFairSpec ==
    /\ MCInit /\ [][MCNext]_MCvars
    /\ \A t \in Threads : WF_vars(Woken(t))
    /\ \A t \in Tids :
        /\ WF_proc_vars(component = "processes" /\ GoOn(t))
        /\ SF_proc_vars(component = "processes" /\ Locking(t))
=============================================================================

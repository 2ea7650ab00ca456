---------------------------- MODULE MCScheduling -----------------------------
(***************************************************************************)
(* Small instances of Scheduler and ThreadLinks, side by side: the initial *)
(* state says which of the two runs, and the other stays as it began.      *)
(***************************************************************************)
EXTENDS Scheduler, TLC

CONSTANT SLEEPQ_HASHTABLE_SIZE

VARIABLES component, prio, next, link_sleeps_on, head, tail, sleepq_hashtable, waking

\* Resources 1 and 3 share a chain of a hash table with two slots.
Links == INSTANCE ThreadLinks WITH
    Threads <- 1..4, Resources <- {1, 2, 3}, sleeps_on <- link_sleeps_on

links == <<prio, next, link_sleeps_on, head, tail, sleepq_hashtable, waking>>

\* The threads of ThreadLinks differ only in priority, so the first ones are HIGH.
MCInit ==
    /\ component \in {"scheduler", "links"}
    /\ Init /\ Links!Init
    /\ \A t \in 1..3 : prio[t + 1] = "HIGH" => prio[t] = "HIGH"
    /\ component = "scheduler" => \A t \in 1..4 : prio[t] = "NORMAL"

MCNext ==
    /\ UNCHANGED component
    /\ \/ component = "scheduler" /\ Next /\ UNCHANGED links
       \/ component = "links" /\ Links!Next /\ UNCHANGED vars

MCSpec == MCInit /\ [][MCNext]_<<component, vars, links>>

\* Threads and CPUs of Scheduler; no liveness is asked of this instance.
SafetySymmetry == Permutations(Threads) \cup Permutations(CPUs)

ImplementsThreadLists == Links!ImplementsThreadLists
WakeAllComplete == Links!WakeAllComplete
=============================================================================

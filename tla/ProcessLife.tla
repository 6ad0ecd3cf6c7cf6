------------------------------ MODULE ProcessLife ------------------------------
(***************************************************************************)
(* The abstract life of a worker process: it is down, it runs, or it works *)
(* off what it has after SIGTERM; and its consumers take part in their     *)
(* groups, or not any more.  ConsumerLifecycle and the workers of Pipeline *)
(* each implement it; what either does beyond it, such as the instances    *)
(* that stay in the proxy when a process has died, it does not see.        *)
(***************************************************************************)
EXTENDS Naturals

CONSTANT Consumers

VARIABLES
    state,         \* "down", "running" or "stopping"
    members,       \* consumers that can be given partitions
    faults         \* failures so far, of whatever kind

vars == <<state, members, faults>>

Init ==
    \/ state = "down" /\ members = {} /\ faults = 0
    \/ state = "running" /\ members = Consumers /\ faults = 0

\* The loops begin, with every consumer unless something has failed.
Start ==
    /\ state = "down" /\ state' = "running"
    /\ members' \subseteq Consumers /\ (members' # Consumers => faults > 0)
    /\ UNCHANGED faults

\* Only a signal stops a process that runs, and it does not run again before
\* it has ended.
Stop ==
    /\ state = "running" /\ state' = "stopping"
    /\ faults' = faults + 1 /\ UNCHANGED members

End ==
    /\ \/ state = "stopping" /\ UNCHANGED faults
       \/ state \in {"running", "stopping"} /\ faults' = faults + 1
    /\ state' = "down" /\ members' = {}

\* A consumer that is lost is not replaced while the process lives.
Lose ==
    /\ \E c \in members : members' = members \ {c}
    /\ faults' = faults + 1 /\ UNCHANGED state

\* What fails elsewhere, or before the loops begin.
FailElsewhere == faults' = faults + 1 /\ UNCHANGED <<state, members>>

Next == Start \/ Stop \/ End \/ Lose \/ FailElsewhere

Spec == Init /\ [][Next]_vars
=============================================================================

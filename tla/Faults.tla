-------------------------------- MODULE Faults --------------------------------
(***************************************************************************)
(* The budget of failures a behaviour may contain.  Every call to another  *)
(* service can fail and every process can stop; a run says which of them   *)
(* do (FaultKinds) and how often altogether (MaxFaults, a bound).          *)
(***************************************************************************)
EXTENDS Naturals

CONSTANTS
    FaultKinds,   \* the kinds of failure that happen in this behaviour
    MaxFaults     \* how many failures happen at most

ASSUME FaultAssumption == MaxFaults \in Nat

VARIABLE faults

FaultsTypeOK == faults \in 0..MaxFaults

NoFault == UNCHANGED faults

Fault(kind) ==
    /\ kind \in FaultKinds
    /\ faults < MaxFaults
    /\ faults' = faults + 1
=============================================================================

---------------------------- MODULE StatusRecords ----------------------------
(***************************************************************************)
(* The status records of the metadata store, one per transaction.  A write *)
(* replaces the whole record: nothing compares it with the record it       *)
(* overwrites.  Redis may execute a write after its caller has given up    *)
(* waiting, when newer records have been written.                          *)
(***************************************************************************)
EXTENDS Faults, Transactions

VARIABLES
    status,        \* status[t]: what GET /kyc/status/t answers
    late           \* writes given up by their callers that may be executed yet

\* "MISSING" is the 404 of a transaction without a record.
States == {"MISSING", "ACCEPTED", "PROCESSING", "COMPLETED", "FAILED"}
Verdicts == {"NEW_USER", "ALREADY_EXISTS", "POTENTIAL_FRAUD", "PARTIAL_MATCH", "MATCHED", "NO_MATCH"}

\* The result of a COMPLETED record: the verdict and the identity it names
\* (0 for none).
Results == [verdict : Verdicts, id : Nat]
NoResult == [verdict |-> "NONE", id |-> 0]

Records == [state : States, result : Results \cup {NoResult}]

Plain(state) == [state |-> state, result |-> NoResult]
Completed(result) == [state |-> "COMPLETED", result |-> result]

\* mark tells equal writes apart.
LateWrites == [txn : Txns, record : Records, mark : Nat]

StatusTypeOK == status \in [Txns -> Records] /\ late \subseteq LateWrites

StatusInit == status = [t \in Txns |-> Plain("MISSING")] /\ late = {}

SaveStatus(t, record) == status' = [status EXCEPT ![t] = record] /\ UNCHANGED late

\* The deadline of the command passes while Redis has not executed it.
Postpone(t, record) ==
    /\ Fault("lateWrite")
    /\ late' = late \cup {[txn |-> t, record |-> record, mark |-> faults']}
    /\ UNCHANGED status

\* A write that fails has been executed, has been lost, or is executed later.
StatusWriteFails(t, record) ==
    \/ Fault("statusWrite") /\ (SaveStatus(t, record) \/ UNCHANGED <<status, late>>)
    \/ Postpone(t, record)

\* A write whose error the caller drops.
SaveStatusQuietly(t, record) ==
    \/ SaveStatus(t, record) /\ NoFault
    \/ StatusWriteFails(t, record)

\* Redis executes a write nobody waits for any more.
LandStatus ==
    /\ \E w \in late : /\ status' = [status EXCEPT ![w.txn] = w.record]
                       /\ late' = late \ {w}
    /\ NoFault
=============================================================================

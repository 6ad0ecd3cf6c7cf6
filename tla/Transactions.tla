----------------------------- MODULE Transactions -----------------------------
(* The transactions of a behaviour: each is one request of one client, to  *)
(* enroll or to verify a person.                                           *)
EXTENDS Naturals

CONSTANTS
    Txns,       \* transaction ids the API may hand out
    Types,      \* the job types in use
    JobType     \* [Txns -> Types]

ASSUME TransactionAssumption ==
    /\ Types \subseteq {"enroll", "verify"}
    /\ JobType \in [Txns -> Types]
=============================================================================

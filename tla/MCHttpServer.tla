----------------------------- MODULE MCHttpServer -----------------------------
(* One client that submits two enrollments and a verification and asks for *)
(* their status.                                                           *)
EXTENDS HttpServer, TLC

CONSTANTS e1, e2, v, client

MCTypes == {"enroll", "verify"}
MCJobType == [t \in Txns |-> IF t = v THEN "verify" ELSE "enroll"]
\* One partition per topic, named by its type.
MCPartitionType == [p \in MCTypes |-> p]
MCClientOf == [t \in Txns |-> client]
Symmetry == Permutations({e1, e2})
=============================================================================

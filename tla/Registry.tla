------------------------------- MODULE Registry -------------------------------
(***************************************************************************)
(* What the system promises, without its parts: a register of identities   *)
(* that only grows, and per transaction an answer that, when there is one, *)
(* is about a registered identity.  An answer may be withdrawn (the job is *)
(* run again, or fails), an identity may not.                              *)
(***************************************************************************)
EXTENDS Naturals

CONSTANTS Txns, NoAnswer

VARIABLES
    registered,   \* entries [id, maker]
    answer        \* answer[t]: the current answer [verdict, id] of t, or NoAnswer

Registered(id) == \E entry \in registered : entry.id = id

Init ==
    /\ registered = {}
    /\ answer = [t \in Txns |-> NoAnswer]

\* The job of t registers one identity, under an id that is not taken.
Register(t) ==
    /\ \E entry \in registered' :
         /\ entry.maker = t /\ ~Registered(entry.id)
         /\ registered' = registered \cup {entry}
    /\ UNCHANGED answer

\* An answer names no identity (0) or a registered one; only the job that
\* registered an identity answers NEW_USER with it.
Answer(t) ==
    LET given == answer'[t] IN
    /\ given # NoAnswer
    /\ given.id # 0 => Registered(given.id)
    /\ given.verdict = "NEW_USER" => [id |-> given.id, maker |-> t] \in registered
    /\ answer' = [answer EXCEPT ![t] = given]
    /\ UNCHANGED registered

Withdraw(t) ==
    /\ answer' = [answer EXCEPT ![t] = NoAnswer]
    /\ UNCHANGED registered

Next == \E t \in Txns : Register(t) \/ Answer(t) \/ Withdraw(t)

Spec == Init /\ [][Next]_<<registered, answer>>
=============================================================================

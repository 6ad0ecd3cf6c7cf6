------------------------------- MODULE KeyValue -------------------------------
(***************************************************************************)
(* What a metadata store promises its callers, whatever keeps the data:    *)
(* every call takes effect at one moment between its start and its answer. *)
(* A value is named by the save that wrote it.  A save that failed may     *)
(* have been taken nevertheless, at once or later, and a get may see it    *)
(* before it lasts.                                                        *)
(***************************************************************************)
CONSTANTS
    Saves, Gets,  \* the calls that are made
    KeyOf         \* KeyOf[c]: the key call c is about

VARIABLES
    stored,       \* stored[k]: the save whose value is kept under k, or "missing"
    phase,        \* phase[c]: how far call c is
    answer        \* answer[g]: what get g found, "none" before it did

Calls == Saves \cup Gets
Keys == {KeyOf[c] : c \in Calls}

Init ==
    /\ stored = [k \in Keys |-> "missing"]
    /\ phase = [c \in Calls |-> "new"]
    /\ answer = [c \in Calls |-> "none"]

Move(c, from, to) == phase[c] = from /\ phase' = [phase EXCEPT ![c] = to]

\* Failed saves on k: nobody knows whether they were taken.
Doubtful(k) == {s \in Saves : phase[s] = "failed" /\ KeyOf[s] = k}

Call(c) == Move(c, "new", "called") /\ UNCHANGED <<stored, answer>>

\* A save may carry doubtful saves on other keys along.
Apply(s) ==
    /\ Move(s, "called", "applied")
    /\ stored' \in [Keys -> Saves \cup {"missing"}]
    /\ stored'[KeyOf[s]] = s
    /\ \A k \in Keys \ {KeyOf[s]} : stored'[k] \in {stored[k]} \cup Doubtful(k)
    /\ UNCHANGED answer

Look(g) ==
    /\ Move(g, "called", "applied")
    /\ \E found \in {stored[KeyOf[g]]} \cup Doubtful(KeyOf[g]) : answer' = [answer EXCEPT ![g] = found]
    /\ UNCHANGED stored

Return(c) == Move(c, "applied", "done") /\ UNCHANGED <<stored, answer>>

\* Calls end with an error, several of them when a process ends.
Fail(cs) ==
    /\ \A c \in cs : phase[c] \in {"called", "applied"}
    /\ phase' = [c \in Calls |-> IF c \in cs THEN "failed" ELSE phase[c]]
    /\ answer' = [c \in Calls |-> IF c \in cs THEN "none" ELSE answer[c]]
    /\ UNCHANGED stored

ApplyLate(s) ==
    /\ phase[s] = "failed"
    /\ stored' = [stored EXCEPT ![KeyOf[s]] = s]
    /\ UNCHANGED <<phase, answer>>

Next ==
    \/ \E c \in Calls : Call(c) \/ Return(c)
    \/ \E s \in Saves : Apply(s) \/ ApplyLate(s)
    \/ \E g \in Gets : Look(g)
    \/ \E cs \in SUBSET Calls : Fail(cs)

Spec == Init /\ [][Next]_<<stored, phase, answer>>
=============================================================================

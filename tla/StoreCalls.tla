------------------------------ MODULE StoreCalls ------------------------------
(***************************************************************************)
(* The calls of the MetadataStore interface: SaveIdentity and SaveStatus   *)
(* are saves, GetIdentity and GetStatus gets, each on one key.  Handlers   *)
(* and worker loops make them concurrently; here each call is made once.   *)
(***************************************************************************)
EXTENDS Faults

CONSTANTS
    Saves, Gets,  \* the calls
    KeyOf         \* KeyOf[c]: the identity or transaction call c is about

ASSUME CallsAssumption ==
    /\ Saves \cap Gets = {}
    /\ {"missing", "none", "cut"} \cap (Saves \cup Gets) = {}

VARIABLES
    phase,        \* phase[c]: how far call c is
    answer        \* answer[c]: the save whose value get c returned

Calls == Saves \cup Gets
Keys == {KeyOf[c] : c \in Calls}

\* Values are named by the save that wrote them; "missing" is os.ErrNotExist.
Contents == [Keys -> Saves \cup {"missing"}]
NoContent == [k \in Keys |-> "missing"]

Phases == {"new", "called", "sent", "applied", "done", "failed"}

CallsTypeOK ==
    /\ FaultsTypeOK
    /\ phase \in [Calls -> Phases]
    /\ answer \in [Calls -> Saves \cup {"missing", "none"}]

CallsInit ==
    /\ phase = [c \in Calls |-> "new"]
    /\ answer = [c \in Calls |-> "none"]
    /\ faults = 0

Move(c, from, to) == phase[c] = from /\ phase' = [phase EXCEPT ![c] = to]
=============================================================================

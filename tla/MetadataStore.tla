----------------------------- MODULE MetadataStore -----------------------------
(***************************************************************************)
(* The metadata store of a process: Redis when REDIS_ADDR is set, else the *)
(* JSON file.  Both are to be the same thing to the services above them.   *)
(***************************************************************************)
EXTENDS JSONStore, RedisStore

VARIABLE backend        \* chosen by main, for good

storeVars == <<phase, answer, faults, jsonVars, redisVars, backend>>

Init ==
    /\ CallsInit /\ JSONInit /\ RedisInit
    /\ backend \in {"json", "redis"}

Next ==
    /\ UNCHANGED backend
    /\ \/ backend = "json" /\ JSONNext /\ UNCHANGED redisVars
       \/ backend = "redis" /\ RedisNext /\ UNCHANGED jsonVars

Spec == Init /\ [][Next]_storeVars

TypeOK == CallsTypeOK /\ JSONTypeOK /\ RedisTypeOK /\ backend \in {"json", "redis"}

(* Each implementation is a linearizable key-value store: what is stored   *)
(* is the file, or the server's records; a command that was sent is still  *)
(* a call that has begun, and a get's answer is fixed by the server.       *)
Promise == INSTANCE KeyValue WITH
    stored <- IF backend = "json" THEN file.content ELSE redis,
    phase <- [c \in Calls |-> IF phase[c] = "sent" THEN "called" ELSE phase[c]],
    answer <- [c \in Calls |-> IF backend = "redis" /\ phase[c] = "applied" THEN reply[c] ELSE answer[c]]
ImplementsKeyValue == Promise!Spec
=============================================================================

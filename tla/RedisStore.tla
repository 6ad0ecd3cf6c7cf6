------------------------------ MODULE RedisStore ------------------------------
(***************************************************************************)
(* RedisMetadataStore: every command opens a connection of its own, writes *)
(* SET or GET (after AUTH) and reads one answer, all within three seconds. *)
(* The server executes what reached it when it gets to it, whether or not  *)
(* the client still waits.                                                 *)
(***************************************************************************)
EXTENDS StoreCalls

VARIABLES
    inbox,        \* calls whose command reached the server and was not executed
    reply,        \* reply[c]: the value the server answered call c with
    redis         \* the records the server keeps

redisVars == <<inbox, reply, redis>>

RedisTypeOK ==
    /\ inbox \subseteq Calls
    /\ reply \in [Calls -> Saves \cup {"missing", "none"}]
    /\ redis \in Contents

RedisInit == inbox = {} /\ reply = [c \in Calls |-> "none"] /\ redis = NoContent
-----------------------------------------------------------------------------
CallRedis(c) == Move(c, "new", "called") /\ NoFault /\ UNCHANGED <<answer, redisVars>>

Send(c) ==
    /\ Move(c, "called", "sent")
    /\ inbox' = inbox \cup {c}
    /\ NoFault /\ UNCHANGED <<answer, reply, redis>>

\* Dialing, AUTH or writing the command fails.
SendFails(c) ==
    /\ Move(c, "called", "failed")
    /\ Fault("redisSend")
    /\ UNCHANGED <<answer, redisVars>>

\* The server executes a command.  A client that has given up is not there to
\* read the answer, but the record is changed.
Execute(c) ==
    /\ c \in inbox /\ inbox' = inbox \ {c}
    /\ IF c \in Saves
       THEN redis' = [redis EXCEPT ![KeyOf[c]] = c] /\ UNCHANGED reply
       ELSE reply' = [reply EXCEPT ![c] = redis[KeyOf[c]]] /\ UNCHANGED redis
    /\ IF phase[c] = "sent" THEN Move(c, "sent", "applied") ELSE UNCHANGED phase
    /\ NoFault /\ UNCHANGED answer

\* The server answers with an error instead (it is loading, or out of memory).
Refuse(c) ==
    /\ c \in inbox /\ inbox' = inbox \ {c}
    /\ Fault("redisError")
    /\ IF phase[c] = "sent" THEN Move(c, "sent", "failed") ELSE UNCHANGED phase
    /\ UNCHANGED <<answer, reply, redis>>

\* Mutant of Receive: a connection is used again after a timeout, and the
\* answer of the command before is taken for that of this one.
ReceiveShared(c) ==
    /\ Move(c, "applied", "done")
    /\ IF c \in Gets
       THEN \E d \in Gets : reply[d] # "none" /\ answer' = [answer EXCEPT ![c] = reply[d]]
       ELSE UNCHANGED answer
    /\ NoFault /\ UNCHANGED redisVars

\* readRESP: the answer on the connection of this call.
Receive(c) ==
    /\ Move(c, "applied", "done")
    /\ IF c \in Gets THEN answer' = [answer EXCEPT ![c] = reply[c]] ELSE UNCHANGED answer
    /\ NoFault /\ UNCHANGED redisVars

\* Mutant of ReceiveShort: what was read is taken for the value.
ReceiveCut(c) ==
    /\ c \in Gets /\ reply[c] \in Saves
    /\ Move(c, "applied", "done") /\ answer' = [answer EXCEPT ![c] = "cut"]
    /\ Fault("shortRead")
    /\ UNCHANGED redisVars

\* The one Read of a value returns a part of it: the rest is zero bytes, and
\* json.Unmarshal refuses it.
ReceiveShort(c) ==
    /\ c \in Gets /\ reply[c] \in Saves
    /\ Move(c, "applied", "failed")
    /\ Fault("shortRead")
    /\ UNCHANGED <<answer, redisVars>>

\* The deadline passes or the connection breaks while the command or its
\* answer is under way.
Timeout(c) ==
    /\ phase[c] \in {"sent", "applied"}
    /\ phase' = [phase EXCEPT ![c] = "failed"]
    /\ Fault("redisTimeout")
    /\ UNCHANGED <<answer, redisVars>>

\* The server stops and starts again with its records; what it had not
\* executed is gone.
RedisRestart ==
    /\ inbox # {} /\ inbox' = {}
    /\ Fault("redisRestart")
    /\ phase' = [c \in Calls |-> IF c \in inbox /\ phase[c] = "sent" THEN "failed" ELSE phase[c]]
    /\ UNCHANGED <<answer, reply, redis>>

RedisNext ==
    \/ \E c \in Calls : \/ CallRedis(c) \/ Send(c) \/ SendFails(c) \/ Execute(c) \/ Refuse(c)
                        \/ Receive(c) \/ ReceiveShort(c) \/ Timeout(c)
    \/ RedisRestart
=============================================================================

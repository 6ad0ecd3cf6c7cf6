------------------------------ MODULE JSONStore ------------------------------
(***************************************************************************)
(* JSONMetadataStore: one process keeps its records in memory and in one   *)
(* JSON file.  Every call holds the mutex, reads the file and drops any    *)
(* error of that; a save changes the memory, writes all of it to a second  *)
(* file and renames that over the first.                                   *)
(***************************************************************************)
EXTENDS StoreCalls

VARIABLES
    memory,       \* s.data of the process
    file, tmp,    \* the files path and path.tmp
    holder,       \* the call that holds the mutex, Boot or Nobody
    step,         \* where the holder is
    up            \* NewJSONMetadataStore has returned

jsonVars == <<memory, file, tmp, holder, step, up>>
fileVars == <<file, tmp>>

Boot == "boot"
Nobody == "nobody"

ASSUME HolderAssumption == {Boot, Nobody} \cap Calls = {}

Whole(content) == [state |-> "whole", content |-> content]
Torn == [state |-> "torn", content |-> NoContent]
Absent == [state |-> "absent", content |-> NoContent]

JSONTypeOK ==
    /\ memory \in Contents
    /\ {file, tmp} \subseteq {Torn, Absent} \cup {Whole(content) : content \in Contents}
    /\ holder \in Calls \cup {Boot, Nobody}
    /\ step \in {"idle", "truncate", "write", "rename", "return"}
    /\ up \in BOOLEAN

JSONInit ==
    /\ memory = NoContent /\ file = Absent /\ tmp = Absent
    /\ holder = Nobody /\ step = "idle" /\ up = FALSE

Enter(who, next) == holder = Nobody /\ holder' = who /\ step' = next
-----------------------------------------------------------------------------
\* A process starts with what the file holds; without a file it writes one.  A
\* file it cannot read or parse ends it.
StartLoads ==
    /\ ~up /\ holder = Nobody /\ file.state = "whole"
    /\ up' = TRUE /\ memory' = file.content
    /\ NoFault /\ UNCHANGED <<phase, answer, fileVars, holder, step>>

StartCreates ==
    /\ ~up /\ file.state = "absent"
    /\ Enter(Boot, "truncate")
    /\ NoFault /\ UNCHANGED <<phase, answer, memory, fileVars, up>>

CallJSON(c) ==
    /\ up /\ Move(c, "new", "called")
    /\ NoFault /\ UNCHANGED <<answer, jsonVars>>

\* loadLocked: what memory holds after it.  When the file cannot be read or
\* parsed the memory stays as it was.
Loads(loaded) ==
    \/ NoFault /\ loaded = IF file.state = "whole" THEN file.content ELSE memory
    \/ Fault("fileRead") /\ loaded = memory

Save(s) ==
    /\ up /\ phase[s] = "called"
    /\ Enter(s, "truncate")
    /\ \E loaded \in {memory, file.content} :
         Loads(loaded) /\ memory' = [loaded EXCEPT ![KeyOf[s]] = s]
    /\ UNCHANGED <<phase, answer, fileVars, up>>

Get(g) ==
    /\ up /\ Move(g, "called", "applied")
    /\ Enter(g, "return")
    /\ \E loaded \in {memory, file.content} :
         Loads(loaded) /\ memory' = loaded /\ answer' = [answer EXCEPT ![g] = loaded[KeyOf[g]]]
    /\ UNCHANGED <<fileVars, up>>

\* Mutant of Truncate: the file is written in place.
TruncateInPlace ==
    /\ step = "truncate" /\ step' = "write"
    /\ file' = Torn
    /\ NoFault /\ UNCHANGED <<phase, answer, memory, tmp, holder, up>>

\* flushLocked: os.WriteFile empties path.tmp, fills it, and it is renamed.
Truncate ==
    /\ step = "truncate" /\ step' = "write"
    /\ tmp' = Torn
    /\ NoFault /\ UNCHANGED <<phase, answer, memory, file, holder, up>>

Write ==
    /\ step = "write" /\ step' = "rename"
    /\ tmp' = Whole(memory)
    /\ NoFault /\ UNCHANGED <<phase, answer, memory, file, holder, up>>

Rename ==
    /\ step = "rename" /\ step' = "return"
    /\ file' = tmp /\ tmp' = Absent
    /\ IF holder = Boot THEN UNCHANGED phase ELSE Move(holder, "called", "applied")
    /\ NoFault /\ UNCHANGED <<answer, memory, holder, up>>

\* Mutant of FlushFails: the error of the write is not returned.
FlushErrorDropped ==
    /\ step \in {"truncate", "write", "rename"} /\ step' = "idle"
    /\ Fault("fileWrite")
    /\ holder' = Nobody
    /\ IF holder = Boot THEN UNCHANGED phase ELSE Move(holder, "called", "done")
    /\ UNCHANGED <<answer, memory, fileVars, up>>

\* A step of the flush fails: the caller gets the error, but the memory has
\* the change, and a later flush may write it.
FlushFails ==
    /\ step \in {"truncate", "write", "rename"} /\ step' = "idle"
    /\ Fault("fileWrite")
    /\ holder' = Nobody
    /\ IF holder = Boot THEN UNCHANGED phase ELSE Move(holder, "called", "failed")
    /\ UNCHANGED <<answer, memory, fileVars, up>>

ReturnJSON ==
    /\ step = "return" /\ step' = "idle"
    /\ holder' = Nobody
    /\ IF holder = Boot THEN up' = TRUE /\ UNCHANGED phase
                        ELSE Move(holder, "applied", "done") /\ UNCHANGED up
    /\ NoFault /\ UNCHANGED <<answer, memory, fileVars>>

\* The process ends: what it had open and what it remembered is gone.
CrashJSON ==
    /\ up \/ holder = Boot
    /\ Fault("storeCrash")
    /\ up' = FALSE /\ holder' = Nobody /\ step' = "idle" /\ memory' = NoContent
    /\ LET open == {c \in Calls : phase[c] \in {"called", "applied"}} IN
         /\ phase' = [c \in Calls |-> IF c \in open THEN "failed" ELSE phase[c]]
         /\ answer' = [c \in Calls |-> IF c \in open THEN "none" ELSE answer[c]]
    /\ UNCHANGED fileVars

JSONNext ==
    \/ StartLoads \/ StartCreates \/ CrashJSON
    \/ \E c \in Calls : CallJSON(c)
    \/ \E s \in Saves : Save(s)
    \/ \E g \in Gets : Get(g)
    \/ Truncate \/ Write \/ Rename \/ FlushFails \/ ReturnJSON
-----------------------------------------------------------------------------
(* NewJSONMetadataStore ends the process when the file does not parse, so  *)
(* a crash at any moment of a flush must leave the old file or the new.    *)
FileIsWhole == file.state # "torn"

(* While nobody is at work the memory of a running process is the file's   *)
(* content, except for records whose save was answered with an error: no   *)
(* acknowledged save is only in memory, where a crash or the next load     *)
(* would drop it.                                                          *)
AcknowledgedIsInFile ==
    up /\ holder = Nobody =>
        \A k \in Keys : memory[k] # file.content[k] =>
            memory[k] \in Saves /\ phase[memory[k]] = "failed"
=============================================================================

------------------------------ MODULE StoreProofs ------------------------------
(* Theorems about the metadata stores, for any set of calls and keys and   *)
(* any failures: the JSON file is always whole, no acknowledged save is    *)
(* only in memory, and both stores implement KeyValue.                     *)
EXTENDS MetadataStore, TLAPS

\* Who holds the mutex and how far that call is.
HolderInv ==
    /\ (holder = Nobody) <=> (step = "idle")
    /\ holder = Boot => ~up
    /\ holder \in Saves =>
         /\ up /\ memory[KeyOf[holder]] = holder
         /\ phase[holder] = IF step = "return" THEN "applied" ELSE "called"
    /\ holder \in Gets => up /\ step = "return" /\ phase[holder] = "applied"

\* Memory and file differ in failed saves and in the save at work.
MemoryInv ==
    /\ ~up => memory = NoContent
    /\ holder = Boot => file.content = NoContent
    /\ up => \A k \in Keys : memory[k] # file.content[k] =>
                /\ memory[k] \in Saves /\ KeyOf[memory[k]] = k
                /\ phase[memory[k]] = "failed" \/ (memory[k] = holder /\ step # "return")

FilesInv ==
    /\ FileIsWhole
    /\ step = "rename" => tmp = Whole(memory)
    /\ \A c \in Calls : phase[c] # "sent"
    /\ \A s \in Saves : answer[s] = "none"
    /\ \A c \in Calls : answer[c] # "none" => phase[c] \in {"applied", "done"}

JSONInv == HolderInv /\ MemoryInv /\ FilesInv

RedisInv ==
    /\ \A c \in inbox : phase[c] \in {"sent", "failed"}
    /\ \A s \in Saves : reply[s] = "none" /\ answer[s] = "none"
    /\ \A c \in Calls : answer[c] # "none" => phase[c] = "done"

StoreInv ==
    /\ TypeOK
    /\ backend = "json" => JSONInv
    /\ backend = "redis" => RedisInv /\ JSONInit
-----------------------------------------------------------------------------
(* A call moves from one phase to another, and no other call does. *)
LEMMA MoveType ==
    ASSUME CallsTypeOK, NEW c \in Calls, NEW from, NEW to \in Phases, Move(c, from, to)
    PROVE  /\ phase' \in [Calls -> Phases]
           /\ phase[c] = from /\ phase'[c] = to
           /\ \A d \in Calls \ {c} : phase'[d] = phase[d]
  BY DEF CallsTypeOK, Move

(* The fault budget is kept, whether or not a step is a failure. *)
LEMMA BudgetKept ==
    ASSUME FaultsTypeOK, NEW kind, NoFault \/ Fault(kind)
    PROVE  FaultsTypeOK'
  BY FaultAssumption DEF FaultsTypeOK, NoFault, Fault

(* What the files hold is content. *)
LEMMA NoContentType == NoContent \in Contents
  BY DEF NoContent, Contents

LEMMA FileContents ==
    ASSUME JSONTypeOK
    PROVE  file.content \in Contents /\ tmp.content \in Contents
  BY NoContentType DEF JSONTypeOK, Torn, Absent, Whole

(* A step of the JSON store keeps the types. *)
LEMMA JSONTypes ==
    ASSUME CallsTypeOK, JSONTypeOK, JSONNext
    PROVE  CallsTypeOK' /\ JSONTypeOK'
  <1> USE DEF Enter, jsonVars, fileVars
  <1>1. CASE StartLoads
    BY <1>1, BudgetKept, FileContents DEF StartLoads, CallsTypeOK, JSONTypeOK
  <1>2. CASE StartCreates
    BY <1>2, BudgetKept DEF StartCreates, CallsTypeOK, JSONTypeOK
  <1>3. CASE CrashJSON
    <2>1. phase' \in [Calls -> Phases] /\ answer' \in [Calls -> Saves \cup {"missing", "none"}]
      BY <1>3 DEF CrashJSON, CallsTypeOK, Phases
    <2>2. FaultsTypeOK'
      BY <1>3, BudgetKept DEF CrashJSON, CallsTypeOK
    <2>3. QED BY <1>3, <2>1, <2>2, NoContentType DEF CrashJSON, CallsTypeOK, JSONTypeOK
  <1>4. ASSUME NEW c \in Calls, CallJSON(c) PROVE CallsTypeOK' /\ JSONTypeOK'
    <2>1. phase' \in [Calls -> Phases]
      BY <1>4, MoveType DEF CallJSON, Phases
    <2>2. QED BY <1>4, <2>1, BudgetKept DEF CallJSON, CallsTypeOK, JSONTypeOK
  <1>5. ASSUME NEW s \in Saves, Save(s) PROVE CallsTypeOK' /\ JSONTypeOK'
    <2>1. PICK loaded \in {memory, file.content} :
            Loads(loaded) /\ memory' = [loaded EXCEPT ![KeyOf[s]] = s]
      BY <1>5 DEF Save
    <2>2. memory' \in Contents
      BY <2>1, FileContents DEF JSONTypeOK, Contents
    <2>3. FaultsTypeOK'
      BY <2>1, BudgetKept DEF Loads, CallsTypeOK
    <2>4. QED BY <1>5, <2>2, <2>3 DEF Save, CallsTypeOK, JSONTypeOK, Calls
  <1>6. ASSUME NEW g \in Gets, Get(g) PROVE CallsTypeOK' /\ JSONTypeOK'
    <2>1. PICK loaded \in {memory, file.content} :
            Loads(loaded) /\ memory' = loaded /\ answer' = [answer EXCEPT ![g] = loaded[KeyOf[g]]]
      BY <1>6 DEF Get
    <2>2. loaded \in Contents /\ KeyOf[g] \in Keys
      BY <2>1, FileContents DEF JSONTypeOK, Keys, Calls
    <2>3. answer' \in [Calls -> Saves \cup {"missing", "none"}]
      BY <2>1, <2>2 DEF CallsTypeOK, Contents
    <2>4. phase' \in [Calls -> Phases]
      BY <1>6, MoveType DEF Get, Phases, Calls
    <2>5. FaultsTypeOK'
      BY <2>1, BudgetKept DEF Loads, CallsTypeOK
    <2>6. QED BY <1>6, <2>1, <2>2, <2>3, <2>4, <2>5 DEF Get, CallsTypeOK, JSONTypeOK, Calls
  <1>7. CASE Truncate
    BY <1>7, BudgetKept DEF Truncate, CallsTypeOK, JSONTypeOK
  <1>8. CASE Write
    BY <1>8, BudgetKept DEF Write, CallsTypeOK, JSONTypeOK
  <1>9. CASE Rename
    <2>1. phase' \in [Calls -> Phases]
      BY <1>9, MoveType DEF Rename, JSONTypeOK, CallsTypeOK, Phases, Nobody, Move
    <2>2. QED BY <1>9, <2>1, BudgetKept DEF Rename, CallsTypeOK, JSONTypeOK
  <1>10. CASE FlushFails
    <2>1. phase' \in [Calls -> Phases]
      BY <1>10, MoveType DEF FlushFails, JSONTypeOK, CallsTypeOK, Phases, Nobody, Move
    <2>2. QED BY <1>10, <2>1, BudgetKept DEF FlushFails, CallsTypeOK, JSONTypeOK
  <1>11. CASE ReturnJSON
    <2>1. phase' \in [Calls -> Phases]
      BY <1>11, MoveType DEF ReturnJSON, JSONTypeOK, CallsTypeOK, Phases, Nobody, Move
    <2>2. QED BY <1>11, <2>1, BudgetKept DEF ReturnJSON, CallsTypeOK, JSONTypeOK
  <1>12. QED BY <1>1, <1>2, <1>3, <1>4, <1>5, <1>6, <1>7, <1>8, <1>9, <1>10, <1>11 DEF JSONNext

(* Nobody and the process that starts are no calls. *)
LEMMA HoldersDiffer == Nobody # Boot /\ Nobody \notin Calls /\ Boot \notin Calls
  BY HolderAssumption DEF Nobody, Boot

(* A save is no get. *)
LEMMA SavesAreNotGets == Saves \cap Gets = {} /\ Saves \subseteq Calls /\ Gets \subseteq Calls
  BY CallsAssumption DEF Calls

(* Every call is about one of the keys. *)
LEMMA KeyOfCall == ASSUME NEW c \in Calls PROVE KeyOf[c] \in Keys
  BY DEF Keys

(* A step of the JSON store keeps its invariant. *)
LEMMA JSONSafe ==
    ASSUME CallsTypeOK, JSONTypeOK, JSONInv, JSONNext
    PROVE  JSONInv'
  <1> USE HoldersDiffer, SavesAreNotGets DEF JSONInv, Enter, jsonVars, fileVars
  <1>1. CASE StartLoads
    BY <1>1 DEF StartLoads, HolderInv, MemoryInv, FilesInv, FileIsWhole
  <1>2. CASE StartCreates
    <2>1. file.content = NoContent
      BY <1>2 DEF StartCreates, JSONTypeOK, FilesInv, FileIsWhole, Absent, Whole, Torn
    <2>2. QED BY <1>2, <2>1 DEF StartCreates, HolderInv, MemoryInv, FilesInv, FileIsWhole
  <1>3. CASE CrashJSON
    <2>1. HolderInv' /\ MemoryInv'
      BY <1>3 DEF CrashJSON, HolderInv, MemoryInv
    <2>2. FilesInv'
      BY <1>3 DEF CrashJSON, FilesInv, FileIsWhole, CallsTypeOK
    <2>3. QED BY <2>1, <2>2
  <1>4. ASSUME NEW c \in Calls, CallJSON(c) PROVE JSONInv'
    <2>1. /\ phase[c] = "new" /\ phase'[c] = "called"
          /\ \A d \in Calls \ {c} : phase'[d] = phase[d]
      BY <1>4, MoveType DEF CallJSON, Phases
    <2>2. HolderInv'
      BY <1>4, <2>1 DEF CallJSON, HolderInv, JSONTypeOK
    <2>3. MemoryInv'
      BY <1>4, <2>1 DEF CallJSON, MemoryInv
    <2>4. FilesInv'
      BY <1>4, <2>1 DEF CallJSON, FilesInv, FileIsWhole
    <2>5. QED BY <2>2, <2>3, <2>4
  <1>5. ASSUME NEW s \in Saves, Save(s) PROVE JSONInv'
    <2>1. PICK loaded \in {memory, file.content} : memory' = [loaded EXCEPT ![KeyOf[s]] = s]
      BY <1>5 DEF Save
    <2>2. /\ loaded \in [Keys -> Saves \cup {"missing"}] /\ KeyOf[s] \in Keys
          /\ up /\ holder = Nobody /\ holder' = s /\ step' = "truncate"
          /\ UNCHANGED <<phase, answer, file, tmp, up>> /\ phase[s] = "called"
      BY <1>5, <2>1, FileContents, KeyOfCall DEF Save, JSONTypeOK, Contents
    <2>3. memory'[KeyOf[s]] = s /\ \A k \in Keys \ {KeyOf[s]} : memory'[k] = loaded[k]
      BY <2>1, <2>2
    <2>4. HolderInv'
      BY <2>2, <2>3 DEF HolderInv
    <2>5. MemoryInv'
      BY <2>1, <2>2, <2>3 DEF MemoryInv
    <2>6. FilesInv'
      BY <2>2 DEF FilesInv, FileIsWhole
    <2>7. QED BY <2>4, <2>5, <2>6
  <1>6. ASSUME NEW g \in Gets, Get(g) PROVE JSONInv'
    <2>1. PICK loaded \in {memory, file.content} :
            memory' = loaded /\ answer' = [answer EXCEPT ![g] = loaded[KeyOf[g]]]
      BY <1>6 DEF Get
    <2>2. /\ phase[g] = "called" /\ phase'[g] = "applied"
          /\ \A d \in Calls \ {g} : phase'[d] = phase[d] /\ answer'[d] = answer[d]
      BY <1>6, <2>1, MoveType DEF Get, Phases, CallsTypeOK
    <2>3. /\ up /\ holder = Nobody /\ holder' = g /\ step' = "return"
          /\ UNCHANGED <<file, tmp, up>>
      BY <1>6 DEF Get
    <2>4. HolderInv'
      BY <2>2, <2>3 DEF HolderInv
    <2>5. MemoryInv'
      BY <2>1, <2>2, <2>3 DEF MemoryInv
    <2>6. FilesInv'
      BY <2>2, <2>3 DEF FilesInv, FileIsWhole
    <2>7. QED BY <2>4, <2>5, <2>6
  <1>7. CASE Truncate
    BY <1>7 DEF Truncate, HolderInv, MemoryInv, FilesInv, FileIsWhole
  <1>8. CASE Write
    BY <1>8 DEF Write, HolderInv, MemoryInv, FilesInv, FileIsWhole
  <1>9. CASE Rename
    <2>1. file' = Whole(memory) /\ file'.content = memory /\ file'.state = "whole"
      BY <1>9 DEF Rename, FilesInv, Whole
    <2>2. UNCHANGED <<memory, holder, up, answer>> /\ step' = "return" /\ step = "rename"
      BY <1>9 DEF Rename
    <2>3. holder \in Calls \cup {Boot}
      BY <1>9 DEF Rename, HolderInv, JSONTypeOK
    <2>4. CASE holder = Boot
      <3>1. UNCHANGED phase
        BY <1>9, <2>4 DEF Rename
      <3>2. QED BY <2>1, <2>2, <2>4, <3>1 DEF HolderInv, MemoryInv, FilesInv, FileIsWhole
    <2>5. CASE holder \in Saves
      <3>1. /\ phase[holder] = "called" /\ phase'[holder] = "applied"
            /\ \A d \in Calls \ {holder} : phase'[d] = phase[d]
        BY <1>9, <2>5, MoveType DEF Rename, Phases
      <3>2. QED BY <2>1, <2>2, <2>5, <3>1 DEF HolderInv, MemoryInv, FilesInv, FileIsWhole
    <2>6. QED BY <2>2, <2>3, <2>4, <2>5 DEF HolderInv, Calls
  <1>10. CASE FlushFails
    <2>1. /\ UNCHANGED <<answer, memory, file, tmp, up>> /\ step' = "idle" /\ holder' = Nobody
          /\ step \in {"truncate", "write", "rename"}
      BY <1>10 DEF FlushFails
    <2>2. holder \in Saves \cup {Boot}
      BY <2>1 DEF HolderInv, JSONTypeOK, Calls
    <2>3. CASE holder = Boot
      <3>1. UNCHANGED phase
        BY <1>10, <2>3 DEF FlushFails
      <3>2. QED BY <2>1, <2>3, <3>1 DEF HolderInv, MemoryInv, FilesInv, FileIsWhole
    <2>4. CASE holder \in Saves
      <3>1. /\ phase[holder] = "called" /\ phase'[holder] = "failed"
            /\ \A d \in Calls \ {holder} : phase'[d] = phase[d]
        BY <1>10, <2>4, MoveType DEF FlushFails, Phases
      <3>2. HolderInv'
        BY <2>1 DEF HolderInv
      <3>3. MemoryInv'
        BY <2>1, <2>4, <3>1 DEF MemoryInv, HolderInv
      <3>4. FilesInv'
        BY <2>1, <2>4, <3>1 DEF FilesInv, FileIsWhole
      <3>5. QED BY <3>2, <3>3, <3>4
    <2>5. QED BY <2>2, <2>3, <2>4
  <1>11. CASE ReturnJSON
    <2>1. /\ UNCHANGED <<answer, memory, file, tmp>> /\ step' = "idle" /\ holder' = Nobody
          /\ step = "return" /\ holder \in Calls \cup {Boot}
      BY <1>11 DEF ReturnJSON, HolderInv, JSONTypeOK
    <2>2. CASE holder = Boot
      <3>1. UNCHANGED phase /\ up' = TRUE
        BY <1>11, <2>2 DEF ReturnJSON
      <3>2. QED BY <2>1, <2>2, <3>1 DEF HolderInv, MemoryInv, FilesInv, FileIsWhole
    <2>3. CASE holder \in Calls
      <3>1. /\ phase[holder] = "applied" /\ phase'[holder] = "done" /\ UNCHANGED up
            /\ \A d \in Calls \ {holder} : phase'[d] = phase[d]
        BY <1>11, <2>3, MoveType DEF ReturnJSON, Phases
      <3>2. HolderInv'
        BY <2>1 DEF HolderInv
      <3>3. MemoryInv'
        BY <2>1, <2>3, <3>1 DEF MemoryInv, HolderInv
      <3>4. FilesInv'
        BY <2>1, <2>3, <3>1 DEF FilesInv, FileIsWhole
      <3>5. QED BY <3>2, <3>3, <3>4
    <2>4. QED BY <2>1, <2>2, <2>3
  <1>12. QED BY <1>1, <1>2, <1>3, <1>4, <1>5, <1>6, <1>7, <1>8, <1>9, <1>10, <1>11 DEF JSONNext
-----------------------------------------------------------------------------
(* A step of the Redis store keeps the types and its invariant. *)
LEMMA RedisSafe ==
    ASSUME CallsTypeOK, RedisTypeOK, RedisInv, RedisNext
    PROVE  CallsTypeOK' /\ RedisTypeOK' /\ RedisInv'
  <1> USE SavesAreNotGets DEF RedisInv, redisVars, RedisTypeOK
  <1>1. ASSUME NEW c \in Calls, CallRedis(c) PROVE CallsTypeOK' /\ RedisTypeOK' /\ RedisInv'
    BY <1>1, MoveType, BudgetKept DEF CallRedis, CallsTypeOK, Phases
  <1>2. ASSUME NEW c \in Calls, Send(c) PROVE CallsTypeOK' /\ RedisTypeOK' /\ RedisInv'
    BY <1>2, MoveType, BudgetKept DEF Send, CallsTypeOK, Phases
  <1>3. ASSUME NEW c \in Calls, SendFails(c) PROVE CallsTypeOK' /\ RedisTypeOK' /\ RedisInv'
    BY <1>3, MoveType, BudgetKept DEF SendFails, CallsTypeOK, Phases
  <1>4. ASSUME NEW c \in Calls, Execute(c) PROVE CallsTypeOK' /\ RedisTypeOK' /\ RedisInv'
    <2>1. redis' \in Contents
      BY <1>4 DEF Execute, Contents
    <2>2. KeyOf[c] \in Keys
      BY KeyOfCall
    <2>3. reply' \in [Calls -> Saves \cup {"missing", "none"}]
      BY <1>4, <2>2 DEF Execute, Contents
    <2>4. /\ phase' \in [Calls -> Phases]
          /\ phase'[c] \in {phase[c], "applied"} /\ \A d \in Calls \ {c} : phase'[d] = phase[d]
          /\ phase'[c] # phase[c] => phase[c] = "sent"
      BY <1>4, MoveType DEF Execute, Phases, CallsTypeOK
    <2>5. \A s \in Saves : reply'[s] = "none"
      BY <1>4 DEF Execute
    <2>6. QED BY <1>4, <2>1, <2>3, <2>4, <2>5, BudgetKept DEF Execute, CallsTypeOK
  <1>5. ASSUME NEW c \in Calls, Refuse(c) PROVE CallsTypeOK' /\ RedisTypeOK' /\ RedisInv'
    <2>1. /\ phase' \in [Calls -> Phases]
          /\ phase'[c] \in {phase[c], "failed"} /\ \A d \in Calls \ {c} : phase'[d] = phase[d]
          /\ phase'[c] # phase[c] => phase[c] = "sent"
      BY <1>5, MoveType DEF Refuse, Phases, CallsTypeOK
    <2>2. QED BY <1>5, <2>1, BudgetKept DEF Refuse, CallsTypeOK
  <1>6. ASSUME NEW c \in Calls, Receive(c) PROVE CallsTypeOK' /\ RedisTypeOK' /\ RedisInv'
    <2>1. /\ phase' \in [Calls -> Phases] /\ phase[c] = "applied" /\ phase'[c] = "done"
          /\ \A d \in Calls \ {c} : phase'[d] = phase[d]
      BY <1>6, MoveType DEF Receive, Phases
    <2>2. /\ answer' \in [Calls -> Saves \cup {"missing", "none"}]
          /\ \A d \in Calls \ {c} : answer'[d] = answer[d]
          /\ c \in Saves => answer'[c] = answer[c]
      BY <1>6 DEF Receive, CallsTypeOK
    <2>3. QED BY <1>6, <2>1, <2>2, BudgetKept DEF Receive, CallsTypeOK
  <1>7. ASSUME NEW c \in Calls, ReceiveShort(c) PROVE CallsTypeOK' /\ RedisTypeOK' /\ RedisInv'
    BY <1>7, MoveType, BudgetKept DEF ReceiveShort, CallsTypeOK, Phases
  <1>8. ASSUME NEW c \in Calls, Timeout(c) PROVE CallsTypeOK' /\ RedisTypeOK' /\ RedisInv'
    BY <1>8, BudgetKept DEF Timeout, CallsTypeOK, Phases
  <1>9. CASE RedisRestart
    BY <1>9, BudgetKept DEF RedisRestart, CallsTypeOK, Phases
  <1>10. QED BY <1>1, <1>2, <1>3, <1>4, <1>5, <1>6, <1>7, <1>8, <1>9 DEF RedisNext
-----------------------------------------------------------------------------
LEMMA Initially == Init => StoreInv
  <1> SUFFICES ASSUME Init PROVE StoreInv
    OBVIOUS
  <1> USE NoContentType DEF Init, CallsInit, JSONInit, RedisInit
  <1>1. CallsTypeOK
    BY FaultAssumption DEF CallsTypeOK, FaultsTypeOK, Phases
  <1>2. JSONTypeOK /\ RedisTypeOK
    BY DEF JSONTypeOK, RedisTypeOK
  <1>3. JSONInv
    BY HoldersDiffer, SavesAreNotGets DEF JSONInv, HolderInv, MemoryInv, FilesInv, FileIsWhole, Absent
  <1>4. RedisInv
    BY SavesAreNotGets DEF RedisInv
  <1>5. QED BY <1>1, <1>2, <1>3, <1>4 DEF StoreInv, TypeOK

LEMMA Stays == StoreInv /\ [Next]_storeVars => StoreInv'
  <1> SUFFICES ASSUME StoreInv, [Next]_storeVars PROVE StoreInv'
    OBVIOUS
  <1>1. CASE backend = "json" /\ backend' = backend /\ JSONNext /\ UNCHANGED redisVars
    BY <1>1, JSONTypes, JSONSafe DEF StoreInv, TypeOK, RedisTypeOK, redisVars
  <1>2. CASE backend = "redis" /\ backend' = backend /\ RedisNext /\ UNCHANGED jsonVars
    BY <1>2, RedisSafe DEF StoreInv, TypeOK, JSONTypeOK, JSONInit, jsonVars
  <1>3. CASE UNCHANGED storeVars
    BY <1>3 DEF storeVars, jsonVars, redisVars, StoreInv, TypeOK, CallsTypeOK, FaultsTypeOK, JSONTypeOK,
         RedisTypeOK, JSONInit, RedisInv, JSONInv, HolderInv, MemoryInv, FilesInv, FileIsWhole
  <1>4. QED BY <1>1, <1>2, <1>3 DEF Next

(* Every state of both stores satisfies the inductive invariant: who holds *)
(* the mutex, how memory and files differ, and which replies are to come.  *)
THEOREM StoreInvariance == Spec => []StoreInv
  BY Initially, Stays, PTL DEF Spec

(* Both stores keep their types. *)
THEOREM StoreTypeCorrect == Spec => []TypeOK
  <1>1. StoreInv => TypeOK
    BY DEF StoreInv
  <1>2. QED BY <1>1, StoreInvariance, PTL

(* Whenever the process dies, the next start finds a file it can parse. *)
THEOREM FileStaysWhole == Spec => []FileIsWhole
  <1>1. StoreInv => FileIsWhole
    BY DEF StoreInv, TypeOK, JSONInv, FilesInv, JSONInit, FileIsWhole, Absent
  <1>2. QED BY <1>1, StoreInvariance, PTL

(* What a save has acknowledged is in the file, whatever failed before. *)
THEOREM AcknowledgedStays == Spec => []AcknowledgedIsInFile
  <1>1. StoreInv => AcknowledgedIsInFile
    BY HoldersDiffer, SavesAreNotGets
       DEF StoreInv, TypeOK, JSONInv, MemoryInv, JSONInit, AcknowledgedIsInFile
  <1>2. QED BY <1>1, StoreInvariance, PTL
-----------------------------------------------------------------------------
\* What KeyValue sees of the stores.
KVStored == IF backend = "json" THEN file.content ELSE redis
KVPhase == [c \in Calls |-> IF phase[c] = "sent" THEN "called" ELSE phase[c]]
KVAnswer == [c \in Calls |-> IF backend = "redis" /\ phase[c] = "applied" THEN reply[c] ELSE answer[c]]

LEMMA JSONMaps ==
    ASSUME CallsTypeOK, JSONInv, backend = "json"
    PROVE  KVStored = file.content /\ KVPhase = phase /\ KVAnswer = answer
  BY DEF KVStored, KVPhase, KVAnswer, CallsTypeOK, JSONInv, FilesInv

LEMMA JSONMapsNext ==
    ASSUME CallsTypeOK', JSONInv', backend' = "json"
    PROVE  KVStored' = file'.content /\ KVPhase' = phase' /\ KVAnswer' = answer'
  BY DEF KVStored, KVPhase, KVAnswer, CallsTypeOK, JSONInv, FilesInv

(* What a step of the JSON store is to KeyValue: a save is applied with    *)
(* the rename, a get when it looks into the memory.                        *)
LEMMA JSONImplements ==
    ASSUME StoreInv, StoreInv', backend = "json", backend' = backend, JSONNext
    PROVE  [Promise!Next]_<<KVStored, KVPhase, KVAnswer>>
  <1>a. CallsTypeOK /\ JSONTypeOK /\ JSONInv /\ CallsTypeOK' /\ JSONInv'
    BY DEF StoreInv, TypeOK
  <1>0. /\ KVStored = file.content /\ KVPhase = phase /\ KVAnswer = answer
        /\ KVStored' = file'.content /\ KVPhase' = phase' /\ KVAnswer' = answer'
    BY <1>a, JSONMaps, JSONMapsNext
  <1>b. ASSUME UNCHANGED <<file, phase, answer>>
        PROVE  UNCHANGED <<KVStored, KVPhase, KVAnswer>>
    BY <1>b, <1>0
  <1>c. Promise!Calls = Calls /\ Promise!Keys = Keys
    BY DEF Promise!Calls, Promise!Keys, Calls, Keys
  <1> USE HoldersDiffer, SavesAreNotGets DEF Enter, jsonVars, fileVars
  <1>1. CASE StartLoads \/ StartCreates \/ Truncate \/ Write
    BY <1>1, <1>b DEF StartLoads, StartCreates, Truncate, Write
  <1>2. ASSUME NEW s \in Saves, Save(s) PROVE UNCHANGED <<KVStored, KVPhase, KVAnswer>>
    BY <1>2, <1>b DEF Save
  <1>3. ASSUME NEW c \in Calls, CallJSON(c) PROVE Promise!Call(c)
    BY <1>3, <1>0 DEF CallJSON, Move, Promise!Call, Promise!Move, Promise!Calls, KVStored, KVPhase, KVAnswer
  <1>4. ASSUME NEW g \in Gets, Get(g) PROVE Promise!Look(g)
    <2>1. PICK loaded \in {memory, file.content} : answer' = [answer EXCEPT ![g] = loaded[KeyOf[g]]]
      BY <1>4 DEF Get
    <2>2. UNCHANGED file /\ Move(g, "called", "applied") /\ up /\ holder = Nobody
      BY <1>4 DEF Get
    <2>3. loaded[KeyOf[g]] \in {file.content[KeyOf[g]]} \cup
            {s \in Saves : phase[s] = "failed" /\ KeyOf[s] = KeyOf[g]}
      BY <1>a, <2>1, <2>2, KeyOfCall DEF JSONInv, MemoryInv
    <2>4. QED BY <1>0, <2>1, <2>2, <2>3
             DEF Move, Promise!Look, Promise!Move, Promise!Calls, Promise!Doubtful, KVStored, KVPhase, KVAnswer
  <1>5. CASE Rename
    <2>1. file'.content = memory /\ UNCHANGED answer /\ step = "rename" /\ holder \in Saves \cup {Boot}
      BY <1>5, <1>a DEF Rename, JSONInv, FilesInv, HolderInv, JSONTypeOK, Calls, Whole
    <2>2. CASE holder = Boot
      <3>1. memory = file.content /\ UNCHANGED phase
        BY <1>5, <1>a, <2>2 DEF Rename, JSONInv, HolderInv, MemoryInv
      <3>2. QED BY <1>0, <2>1, <3>1
    <2>3. CASE holder \in Saves
      <3>1. Move(holder, "called", "applied") /\ memory[KeyOf[holder]] = holder
        BY <1>5, <1>a, <2>3 DEF Rename, JSONInv, HolderInv
      <3>2. \A k \in Keys \ {KeyOf[holder]} :
              memory[k] \in {file.content[k]} \cup {s \in Saves : phase[s] = "failed" /\ KeyOf[s] = k}
        BY <1>a, <2>3 DEF JSONInv, MemoryInv, HolderInv
      <3>3. memory \in [Keys -> Saves \cup {"missing"}]
        BY <1>a DEF JSONTypeOK, Contents
      <3>4. PICK s \in Saves : s = holder
        BY <2>3
      <3>5. Promise!Apply(s)
        BY <1>0, <1>c, <2>1, <3>1, <3>2, <3>3, <3>4
           DEF Move, Promise!Apply, Promise!Move, Promise!Calls, Promise!Doubtful, KVStored, KVPhase, KVAnswer
      <3>6. QED BY <3>5 DEF Promise!Next
    <2>4. QED BY <2>1, <2>2, <2>3
  <1>6. CASE FlushFails
    <2>1. UNCHANGED <<file, answer>> /\ holder \in Saves \cup {Boot}
      BY <1>6, <1>a DEF FlushFails, JSONInv, HolderInv, JSONTypeOK, Calls
    <2>2. CASE holder = Boot
      BY <1>6, <1>b, <2>1, <2>2 DEF FlushFails
    <2>3. CASE holder \in Saves
      <3>1. Move(holder, "called", "failed") /\ answer[holder] = "none"
        BY <1>6, <1>a, <2>3 DEF FlushFails, JSONInv, FilesInv
      <3>2. /\ phase[holder] = "called"
            /\ phase' = [c \in Calls |-> IF c \in {holder} THEN "failed" ELSE phase[c]]
            /\ answer' = [c \in Calls |-> IF c \in {holder} THEN "none" ELSE answer[c]]
        BY <1>a, <2>1, <3>1 DEF Move, CallsTypeOK
      <3>3. PICK cs \in SUBSET Promise!Calls : cs = {holder}
        BY <1>c, <2>3
      <3>4. Promise!Fail(cs)
        BY <1>0, <2>1, <3>2, <3>3 DEF Promise!Fail, Promise!Calls, Calls, KVStored, KVPhase, KVAnswer
      <3>5. QED BY <3>4 DEF Promise!Next
    <2>4. QED BY <2>1, <2>2, <2>3
  <1>7. CASE ReturnJSON
    <2>1. UNCHANGED <<file, answer>> /\ holder \in Calls \cup {Boot}
      BY <1>7, <1>a DEF ReturnJSON, JSONInv, HolderInv, JSONTypeOK
    <2>2. CASE holder = Boot
      BY <1>7, <1>b, <2>1, <2>2 DEF ReturnJSON
    <2>3. CASE holder \in Calls
      <3>1. Move(holder, "applied", "done")
        BY <1>7, <2>3 DEF ReturnJSON
      <3>2. PICK c \in Promise!Calls : c = holder
        BY <1>c, <2>3
      <3>3. Promise!Return(c)
        BY <1>0, <2>1, <3>1, <3>2 DEF Move, Promise!Return, Promise!Move, Promise!Calls, KVStored, KVPhase, KVAnswer
      <3>4. QED BY <3>3 DEF Promise!Next
    <2>4. QED BY <2>1, <2>2, <2>3
  <1>8. CASE CrashJSON
    <2> DEFINE cs == {c \in Calls : phase[c] \in {"called", "applied"}}
    <2>1. /\ phase' = [c \in Calls |-> IF c \in cs THEN "failed" ELSE phase[c]]
          /\ answer' = [c \in Calls |-> IF c \in cs THEN "none" ELSE answer[c]]
          /\ UNCHANGED file
      BY <1>8 DEF CrashJSON
    <2>2. \A c \in cs : phase[c] \in {"called", "applied"}
      OBVIOUS
    <2>3. PICK ended \in SUBSET Promise!Calls : ended = cs
      BY <1>c
    <2> HIDE DEF cs
    <2>4. Promise!Fail(ended)
      BY <1>0, <2>1, <2>2, <2>3 DEF Promise!Fail, Promise!Calls, Calls, KVStored, KVPhase, KVAnswer
    <2>5. QED BY <2>4 DEF Promise!Next
  <1>9. QED BY <1>c, <1>1, <1>2, <1>3, <1>4, <1>5, <1>6, <1>7, <1>8 DEF JSONNext, Promise!Next

LEMMA RedisMaps ==
    ASSUME backend = "redis"
    PROVE  /\ KVStored = redis
           /\ KVAnswer = [c \in Calls |-> IF phase[c] = "applied" THEN reply[c] ELSE answer[c]]
  BY DEF KVStored, KVAnswer

LEMMA RedisMapsNext ==
    ASSUME backend' = "redis"
    PROVE  /\ KVStored' = redis'
           /\ KVAnswer' = [c \in Calls |-> IF phase'[c] = "applied" THEN reply'[c] ELSE answer'[c]]
  BY DEF KVStored, KVAnswer

(* What a step of the Redis store is to KeyValue: calls take effect when   *)
(* the server executes their commands, late for a caller that gave up.     *)
LEMMA RedisImplements ==
    ASSUME StoreInv, StoreInv', backend = "redis", backend' = backend, RedisNext
    PROVE  [Promise!Next]_<<KVStored, KVPhase, KVAnswer>>
  <1>a. /\ CallsTypeOK /\ RedisTypeOK /\ RedisInv /\ CallsTypeOK' /\ RedisTypeOK' /\ RedisInv'
    BY DEF StoreInv, TypeOK
  <1>0. /\ KVStored = redis /\ KVStored' = redis'
        /\ KVAnswer = [c \in Calls |-> IF phase[c] = "applied" THEN reply[c] ELSE answer[c]]
        /\ KVAnswer' = [c \in Calls |-> IF phase'[c] = "applied" THEN reply'[c] ELSE answer'[c]]
        /\ KVPhase = [c \in Calls |-> IF phase[c] = "sent" THEN "called" ELSE phase[c]]
        /\ KVPhase' = [c \in Calls |-> IF phase'[c] = "sent" THEN "called" ELSE phase'[c]]
    BY RedisMaps, RedisMapsNext DEF KVPhase
  <1>c. Promise!Calls = Calls /\ Promise!Keys = Keys
    BY DEF Promise!Calls, Promise!Keys, Calls, Keys
  \* A call that fails, with no answer seen before or after.
  <1>f. ASSUME NEW c \in Calls, phase[c] \in {"called", "sent", "applied"}, phase'[c] = "failed",
               \A d \in Calls \ {c} : phase'[d] = phase[d], UNCHANGED <<answer, reply, redis>>
        PROVE  Promise!Fail({c})
    <2>1. answer[c] = "none"
      BY <1>a, <1>f DEF RedisInv
    <2>2. KVPhase[c] \in {"called", "applied"}
      BY <1>0, <1>f
    <2>3. KVPhase' = [d \in Calls |-> IF d \in {c} THEN "failed" ELSE KVPhase[d]]
      BY <1>0, <1>f
    <2>4. KVAnswer' = [d \in Calls |-> IF d \in {c} THEN "none" ELSE KVAnswer[d]]
      BY <1>0, <1>f, <2>1
    <2>5. KVStored' = KVStored
      BY <1>0, <1>f
    <2>6. QED BY <2>2, <2>3, <2>4, <2>5 DEF Promise!Fail, Promise!Calls, Calls, KVStored, KVPhase, KVAnswer
  <1> USE SavesAreNotGets DEF redisVars
  <1>1. ASSUME NEW c \in Calls, CallRedis(c) PROVE Promise!Call(c)
    <2>1. phase[c] = "new" /\ phase'[c] = "called" /\ \A d \in Calls \ {c} : phase'[d] = phase[d]
      BY <1>1, <1>a, MoveType DEF CallRedis, Phases
    <2>2. KVPhase[c] = "new" /\ KVPhase' = [KVPhase EXCEPT ![c] = "called"]
      BY <1>0, <2>1
    <2>3. UNCHANGED <<KVStored, KVAnswer>>
      BY <1>0, <1>1, <2>1 DEF CallRedis
    <2>4. QED BY <2>2, <2>3 DEF Promise!Call, Promise!Move, Promise!Calls, KVStored, KVPhase, KVAnswer
  <1>2. ASSUME NEW c \in Calls, Send(c) PROVE UNCHANGED <<KVStored, KVPhase, KVAnswer>>
    <2>1. phase[c] = "called" /\ phase'[c] = "sent" /\ \A d \in Calls \ {c} : phase'[d] = phase[d]
      BY <1>2, <1>a, MoveType DEF Send, Phases
    <2>2. UNCHANGED <<reply, redis, answer>>
      BY <1>2 DEF Send
    <2>3. QED BY <1>0, <2>1, <2>2
  <1>3. ASSUME NEW c \in Calls, SendFails(c) \/ ReceiveShort(c) \/ Timeout(c) PROVE Promise!Fail({c})
    <2>1. /\ phase[c] \in {"called", "sent", "applied"} /\ phase'[c] = "failed"
          /\ \A d \in Calls \ {c} : phase'[d] = phase[d]
      BY <1>3, <1>a DEF SendFails, ReceiveShort, Timeout, Move, CallsTypeOK
    <2>2. UNCHANGED <<answer, reply, redis>>
      BY <1>3 DEF SendFails, ReceiveShort, Timeout
    <2>3. QED BY <1>f, <2>1, <2>2
  <1>4. ASSUME NEW c \in Calls, Execute(c) PROVE [Promise!Next]_<<KVStored, KVPhase, KVAnswer>>
    <2>1. c \in inbox /\ phase[c] \in {"sent", "failed"} /\ UNCHANGED answer /\ KeyOf[c] \in Keys
      BY <1>4, <1>a, KeyOfCall DEF Execute, RedisInv
    <2>2. CASE phase[c] = "sent"
      <3>1. phase'[c] = "applied" /\ \A d \in Calls \ {c} : phase'[d] = phase[d]
        BY <1>4, <1>a, <2>2, MoveType DEF Execute, Phases
      <3>2. KVPhase[c] = "called" /\ KVPhase' = [KVPhase EXCEPT ![c] = "applied"]
        BY <1>0, <2>2, <3>1
      <3>3. CASE c \in Saves
        <4>1. redis' = [redis EXCEPT ![KeyOf[c]] = c] /\ UNCHANGED reply
          BY <1>4, <3>3 DEF Execute
        <4>2. KVAnswer' = KVAnswer
          BY <1>0, <1>a, <2>1, <2>2, <3>1, <3>3, <4>1 DEF RedisInv
        <4>3. redis \in [Keys -> Saves \cup {"missing"}] /\ redis' \in [Keys -> Saves \cup {"missing"}]
          BY <1>a DEF RedisTypeOK, Contents
        <4>4. Promise!Apply(c)
          BY <1>0, <1>c, <2>1, <3>2, <4>1, <4>2, <4>3
             DEF Promise!Apply, Promise!Move, Promise!Doubtful, KVStored, KVPhase, KVAnswer
        <4>5. QED BY <3>3, <4>4 DEF Promise!Next
      <3>4. CASE c \in Gets
        <4>1. reply' = [reply EXCEPT ![c] = redis[KeyOf[c]]] /\ UNCHANGED redis
          BY <1>4, <3>4 DEF Execute
        <4>2. KVAnswer' = [KVAnswer EXCEPT ![c] = redis[KeyOf[c]]]
          BY <1>0, <1>a, <2>1, <3>1, <4>1 DEF RedisTypeOK
        <4>3. Promise!Look(c)
          BY <1>0, <3>2, <4>1, <4>2 DEF Promise!Look, Promise!Move, Promise!Doubtful, KVStored, KVPhase, KVAnswer
        <4>4. QED BY <3>4, <4>3 DEF Promise!Next
      <3>5. QED BY <3>3, <3>4 DEF Calls
    <2>3. CASE phase[c] = "failed"
      <3>1. UNCHANGED phase
        BY <1>4, <2>3 DEF Execute
      <3>2. KVPhase' = KVPhase /\ KVPhase[c] = "failed"
        BY <1>0, <2>3, <3>1
      <3>3. KVAnswer' = KVAnswer
        BY <1>0, <1>4, <1>a, <2>1, <2>3, <3>1 DEF Execute, RedisTypeOK
      <3>4. CASE c \in Saves
        <4>1. redis' = [redis EXCEPT ![KeyOf[c]] = c]
          BY <1>4, <3>4 DEF Execute
        <4>2. Promise!ApplyLate(c)
          BY <1>0, <3>2, <3>3, <4>1 DEF Promise!ApplyLate, KVStored, KVPhase, KVAnswer
        <4>3. QED BY <3>4, <4>2 DEF Promise!Next
      <3>5. CASE c \in Gets
        BY <1>0, <1>4, <3>2, <3>3, <3>5 DEF Execute
      <3>6. QED BY <3>4, <3>5 DEF Calls
    <2>4. QED BY <2>1, <2>2, <2>3
  <1>5. ASSUME NEW c \in Calls, Refuse(c) PROVE Promise!Fail({c}) \/ UNCHANGED <<KVStored, KVPhase, KVAnswer>>
    <2>1. UNCHANGED <<answer, reply, redis>>
      BY <1>5 DEF Refuse
    <2>2. CASE phase[c] = "sent"
      <3>1. phase'[c] = "failed" /\ \A d \in Calls \ {c} : phase'[d] = phase[d]
        BY <1>5, <1>a, <2>2, MoveType DEF Refuse, Phases
      <3>2. QED BY <1>f, <2>1, <2>2, <3>1
    <2>3. CASE phase[c] # "sent"
      BY <1>0, <1>5, <2>1, <2>3 DEF Refuse
    <2>4. QED BY <2>2, <2>3
  <1>6. ASSUME NEW c \in Calls, Receive(c) PROVE Promise!Return(c)
    <2>1. phase[c] = "applied" /\ phase'[c] = "done" /\ \A d \in Calls \ {c} : phase'[d] = phase[d]
      BY <1>6, <1>a, MoveType DEF Receive, Phases
    <2>2. UNCHANGED <<reply, redis>> /\ answer'[c] = reply[c] /\ \A d \in Calls \ {c} : answer'[d] = answer[d]
      BY <1>6, <1>a DEF Receive, CallsTypeOK, RedisInv, Calls
    <2>3. KVPhase[c] = "applied" /\ KVPhase' = [KVPhase EXCEPT ![c] = "done"]
      BY <1>0, <2>1
    <2>4. UNCHANGED <<KVStored, KVAnswer>>
      BY <1>0, <2>1, <2>2
    <2>5. QED BY <2>3, <2>4 DEF Promise!Return, Promise!Move, KVStored, KVPhase, KVAnswer
  <1>7. CASE RedisRestart
    <2> DEFINE lost == {c \in inbox : phase[c] = "sent"}
    <2>1. /\ phase' = [c \in Calls |-> IF c \in lost THEN "failed" ELSE phase[c]]
          /\ UNCHANGED <<answer, reply, redis>>
      BY <1>7 DEF RedisRestart
    <2>2. PICK ended \in SUBSET Promise!Calls : ended = lost
      BY <1>a, <1>c DEF RedisTypeOK
    <2>3. \A c \in lost : KVPhase[c] = "called" /\ answer[c] = "none"
      BY <1>0, <1>a DEF RedisTypeOK, RedisInv
    <2>4. KVPhase' = [c \in Calls |-> IF c \in lost THEN "failed" ELSE KVPhase[c]]
      BY <1>0, <2>1
    <2>5. KVAnswer' = [c \in Calls |-> IF c \in lost THEN "none" ELSE KVAnswer[c]]
      BY <1>0, <2>1, <2>3
    <2> HIDE DEF lost
    <2>6. Promise!Fail(ended)
      BY <1>0, <2>1, <2>2, <2>3, <2>4, <2>5 DEF Promise!Fail, Promise!Calls, Calls, KVStored, KVPhase, KVAnswer
    <2>7. QED BY <2>6 DEF Promise!Next
  <1>8. QED
    BY <1>c, <1>1, <1>2, <1>3, <1>4, <1>5, <1>6, <1>7 DEF RedisNext, Promise!Next

(* Either store implements the linearizable key-value store, whatever the  *)
(* calls, the keys and the failures.                                       *)
THEOREM KeyValueImplemented == Spec => ImplementsKeyValue
  <1>1. Init => Promise!Init
    BY DEF Init, CallsInit, JSONInit, RedisInit, Absent, NoContent, Promise!Init, Promise!Keys, Promise!Calls,
           Keys, Calls
  <1>2. StoreInv /\ StoreInv' /\ [Next]_storeVars => [Promise!Next]_<<KVStored, KVPhase, KVAnswer>>
    <2> SUFFICES ASSUME StoreInv, StoreInv', [Next]_storeVars
                 PROVE  [Promise!Next]_<<KVStored, KVPhase, KVAnswer>>
      OBVIOUS
    <2>1. CASE UNCHANGED storeVars
      BY <2>1 DEF storeVars, jsonVars, redisVars, KVStored, KVPhase, KVAnswer
    <2>2. CASE Next
      BY <2>2, JSONImplements, RedisImplements DEF Next
    <2>3. QED BY <2>1, <2>2
  <1>3. StoreInv /\ StoreInv' /\ [Next]_storeVars =>
          [Promise!Next]_<<IF backend = "json" THEN file.content ELSE redis,
                           [c \in Calls |-> IF phase[c] = "sent" THEN "called" ELSE phase[c]],
                           [c \in Calls |-> IF backend = "redis" /\ phase[c] = "applied" THEN reply[c] ELSE answer[c]]>>
    BY <1>2 DEF KVStored, KVPhase, KVAnswer
  <1>4. QED BY <1>1, <1>3, StoreInvariance, PTL DEF Spec, ImplementsKeyValue, Promise!Spec
=============================================================================

------------------------------- MODULE HttpProofs -------------------------------
(* Theorems about the submission handlers behind the rate limiter, for any *)
(* number of clients and requests: the limiter takes nothing from what the *)
(* handlers promise, and it bounds bursts without refusing anyone early.   *)
EXTENDS HttpServer, SubmissionProofs, FiniteSetTheorems

\* The admissions of c before those its bucket counts.
Before(c) == Len(admitted[c]) - bucket[c].count

\* The k-th admission, at time, against the end of the window, with before
\* admissions that its bucket no longer counts: those it counts fall within the
\* window, earlier ones before it, and those more than Limit earlier before
\* the window before it.
Placed(time, k, before, reset) ==
    /\ time <= reset
    /\ k > before => time + Window >= reset
    /\ k <= before => time + Window < reset
    /\ k <= before - Limit => time + Window + Window < reset

LogInv(c) ==
    /\ Before(c) >= 0
    /\ bucket[c].reset <= now + Window
    /\ \A k \in DOMAIN admitted[c] :
         /\ admitted[c][k] <= now
         /\ Placed(admitted[c][k], k, Before(c), bucket[c].reset)

LimiterInv == LimiterTypeOK /\ \A c \in Clients : LogInv(c)

LEMMA LimitsType == Limit \in Nat \ {0} /\ Window \in Nat \ {0} /\ MaxTime \in Nat \ {0}
  BY LimiterAssumption

(* What the invariant says of one client, in plain numbers. *)
LEMMA LogType ==
    ASSUME LimiterInv, NEW c \in Clients
    PROVE  /\ now \in Nat /\ now <= MaxTime
           /\ bucket[c] \in [count : 0..Limit, reset : 0..MaxTime + Window]
           /\ bucket[c].count \in Nat /\ bucket[c].count <= Limit
           /\ bucket[c].reset \in Nat
           /\ admitted[c] \in Seq(Times)
           /\ Len(admitted[c]) \in Nat
           /\ DOMAIN admitted[c] = 1..Len(admitted[c])
           /\ \A k \in DOMAIN admitted[c] : admitted[c][k] \in Nat
           /\ Before(c) \in Nat
           /\ Before(c) = Len(admitted[c]) - bucket[c].count
           /\ LogInv(c)
  <1>1. admitted[c] \in Seq(Times) /\ bucket[c] \in [count : 0..Limit, reset : 0..MaxTime + Window]
    BY DEF LimiterInv, LimiterTypeOK
  <1>2. now \in Nat /\ now <= MaxTime
    BY LimitsType DEF LimiterInv, LimiterTypeOK, Times
  <1>3. bucket[c].count \in Nat /\ bucket[c].count <= Limit /\ bucket[c].reset \in Nat
    BY <1>1, LimitsType
  <1>4. LogInv(c)
    BY DEF LimiterInv
  <1>5. Len(admitted[c]) \in Nat /\ DOMAIN admitted[c] = 1..Len(admitted[c])
    BY <1>1
  <1>6. \A k \in DOMAIN admitted[c] : admitted[c][k] \in Nat
    BY <1>1, <1>5, LimitsType DEF Times
  <1>7. Before(c) \in Nat
    <2>1. Before(c) >= 0
      BY <1>4 DEF LogInv
    <2>2. Before(c) \in Int
      BY <1>3, <1>5, LimitsType DEF Before
    <2>3. QED BY <2>1, <2>2
  <1>8. QED BY <1>1, <1>2, <1>3, <1>4, <1>5, <1>6, <1>7 DEF Before

(* The numbers in it. *)
LEMMA LogNumbers ==
    ASSUME LimiterInv, NEW c \in Clients
    PROVE  /\ now \in Nat /\ Window \in Nat /\ Window > 0 /\ Limit \in Nat /\ Limit > 0
           /\ bucket[c].reset \in Nat /\ bucket[c].reset <= now + Window
           /\ bucket[c].count \in Nat /\ bucket[c].count <= Limit
           /\ Len(admitted[c]) \in Nat /\ Before(c) \in Nat
           /\ Before(c) = Len(admitted[c]) - bucket[c].count
  BY LogType, LimitsType DEF LogInv

(* One admission in it. *)
LEMMA LogEntry ==
    ASSUME LimiterInv, NEW c \in Clients, NEW k \in 1..Len(admitted[c])
    PROVE  /\ k \in Nat /\ admitted[c][k] \in Nat /\ admitted[c][k] <= now
           /\ Placed(admitted[c][k], k, Before(c), bucket[c].reset)
  BY LogType DEF LogInv

(* The bucket a request meets is a bucket. *)
LEMMA CurrentType ==
    ASSUME LimiterInv, NEW c \in Clients
    PROVE  /\ Current(c) \in [count : 0..Limit, reset : 0..MaxTime + Window]
           /\ Current(c).reset <= now + Window
  BY LimitsType, LogType DEF LogInv, Current

(* An admission falls into the window its bucket counts; when it starts a  *)
(* new window, every earlier admission is before that window, and all but  *)
(* the last Limit of them before the window before it.                     *)
LEMMA AdmitKeepsLog ==
    ASSUME LimiterInv, NEW c \in Clients, Admit(c)
    PROVE  LogInv(c)'
  <1> DEFINE log == admitted[c]
  <1>1. /\ now' = now
        /\ bucket'[c] = [Current(c) EXCEPT !.count = @ + 1]
        /\ admitted'[c] = Append(log, now)
        /\ Current(c).count < Limit
    BY DEF Admit, HasRoom, LimiterInv, LimiterTypeOK
  <1>2. /\ Len(log) \in Nat
        /\ Len(admitted'[c]) = Len(log) + 1
        /\ DOMAIN admitted'[c] = 1..(Len(log) + 1)
        /\ admitted'[c][Len(log) + 1] = now
        /\ \A k \in 1..Len(log) : admitted'[c][k] = log[k] /\ log[k] \in Nat
    <2>1. log \in Seq(Times) /\ now \in Times
      BY LogType DEF LimiterInv, LimiterTypeOK
    <2>2. QED BY <1>1, <2>1, LogType
  <1>3. ASSUME NEW k \in 1..Len(log)
        PROVE  /\ k \in Nat /\ log[k] \in Nat /\ log[k] <= now
               /\ Placed(log[k], k, Before(c), bucket[c].reset)
    BY LogEntry
  <1>4. CASE now > bucket[c].reset
    <2>1. Current(c) = [count |-> 0, reset |-> now + Window]
      BY <1>4 DEF Current
    <2>2. bucket'[c] = [count |-> 1, reset |-> now + Window]
      BY <1>1, <2>1
    <2>3. bucket'[c].count = 1 /\ bucket'[c].reset = now + Window
      BY <2>2
    <2>4. Before(c)' = Len(log)
      BY <1>2, <2>3 DEF Before
    <2>5. ASSUME NEW k \in 1..Len(log)
          PROVE  Placed(log[k], k, Len(log), now + Window)
      <3>1. PICK time, t, n, before, reset, count \in Nat :
              /\ time = log[k] /\ t = now /\ n = Len(log)
              /\ before = Before(c) /\ reset = bucket[c].reset
              /\ count = bucket[c].count
        BY <1>3, LogNumbers
      <3>c. before = n - count /\ count <= Limit
        BY <3>1, LogNumbers
      <3>2. n - Limit <= before
        BY <3>c, LimitsType
      <3>3. Placed(time, k, before, reset) /\ t > reset /\ k \in 1..n
        BY <1>3, <1>4, <3>1
      <3>4. Placed(time, k, n, t + Window)
        BY <3>2, <3>3, LimitsType DEF Placed
      <3>5. QED BY <1>3, <1>4, <3>1, <3>4, LimitsType DEF Placed
    <2>6. Placed(now, Len(log) + 1, Len(log), now + Window)
      BY <1>2, LogNumbers DEF Placed
    <2>7. QED BY <1>1, <1>2, <1>3, <2>3, <2>4, <2>5, <2>6, LogNumbers DEF LogInv
  <1>5. CASE ~(now > bucket[c].reset)
    <2>1. Current(c) = bucket[c]
      BY <1>5 DEF Current
    <2>2. bucket'[c] = [bucket[c] EXCEPT !.count = @ + 1]
      BY <1>1, <2>1
    <2>3. bucket'[c].count = bucket[c].count + 1 /\ bucket'[c].reset = bucket[c].reset
      BY <2>2, LogType
    <2>4. Before(c)' = Before(c)
      <3>1. bucket[c].count \in Nat /\ Before(c) = Len(log) - bucket[c].count
        BY LogNumbers
      <3>2. Before(c)' = (Len(log) + 1) - (bucket[c].count + 1)
        BY <1>2, <2>3 DEF Before
      <3>3. \A n, count \in Nat : (n + 1) - (count + 1) = n - count
        OBVIOUS
      <3>4. QED BY <1>2, <3>1, <3>2, <3>3
    <2>5. Before(c) <= Len(log) /\ bucket[c].reset <= now + Window
      BY LogType DEF LogInv
    <2>6. Placed(now, Len(log) + 1, Before(c), bucket[c].reset)
      BY <1>2, <1>5, <2>5, LogNumbers DEF Placed
    <2>7. ASSUME NEW k \in 1..(Len(log) + 1)
          PROVE  /\ admitted'[c][k] \in Nat /\ admitted'[c][k] <= now
                 /\ Placed(admitted'[c][k], k, Before(c), bucket[c].reset)
      <3>1. k \in 1..Len(log) \/ k = Len(log) + 1
        BY LogNumbers
      <3>2. CASE k \in 1..Len(log)
        BY <1>2, <1>3, <3>2
      <3>3. CASE k = Len(log) + 1
        BY <1>2, <2>6, <3>3, LogNumbers
      <3>4. QED BY <3>1, <3>2, <3>3
    <2>8. QED BY <1>1, <1>2, <2>3, <2>4, <2>5, <2>7, LogNumbers DEF LogInv
  <1>6. QED BY <1>4, <1>5

(* A refusal comes within the window and leaves the bucket as it is. *)
LEMMA RefuseKeepsBucket ==
    ASSUME LimiterInv, NEW c \in Clients, ~HasRoom(c)
    PROVE  Current(c) = bucket[c] /\ ~(now > bucket[c].reset) /\ bucket[c].count = Limit
  BY LogType, LimitsType DEF HasRoom, Current

(* An operation of the limiter keeps the invariant. *)
LEMMA LimiterStep ==
    ASSUME LimiterInv,
           \/ \E c \in Clients : Admit(c) \/ Refuse(c)
           \/ PassTime \/ Forget \/ UNCHANGED limiterVars
    PROVE  LimiterInv'
  <1>1. ASSUME NEW c \in Clients, Admit(c) PROVE LimiterInv'
    <2>1. [Current(c) EXCEPT !.count = @ + 1] \in [count : 0..Limit, reset : 0..MaxTime + Window]
      BY <1>1, CurrentType, LimitsType DEF Admit, HasRoom
    <2>2. now \in Times /\ admitted[c] \in Seq(Times)
      BY DEF LimiterInv, LimiterTypeOK
    <2>3. Append(admitted[c], now) \in Seq(Times)
      BY <2>2
    <2>4. /\ bucket' = [bucket EXCEPT ![c] = [Current(c) EXCEPT !.count = @ + 1]]
          /\ admitted' = [admitted EXCEPT ![c] = Append(admitted[c], now)]
          /\ now' = now
      BY <1>1 DEF Admit
    <2>5. LimiterTypeOK'
      BY <2>1, <2>3, <2>4 DEF LimiterInv, LimiterTypeOK
    <2>6. ASSUME NEW d \in Clients, d # c PROVE LogInv(d)'
      <3>1. bucket'[d] = bucket[d] /\ admitted'[d] = admitted[d]
        BY <2>4, <2>6 DEF LimiterInv, LimiterTypeOK
      <3>2. QED BY <3>1, <2>4 DEF LimiterInv, LogInv, Before
    <2>7. QED BY <1>1, <2>5, <2>6, AdmitKeepsLog DEF LimiterInv
  <1>2. ASSUME NEW c \in Clients, Refuse(c) PROVE LimiterInv'
    <2>1. bucket' = bucket /\ now' = now /\ admitted' = admitted
      BY <1>2, RefuseKeepsBucket DEF Refuse, LimiterInv, LimiterTypeOK
    <2>2. QED BY <2>1 DEF LimiterInv, LimiterTypeOK, LogInv, Before
  <1>3. CASE PassTime
    <2>1. bucket' = bucket /\ admitted' = admitted /\ now' = now + 1 /\ now < MaxTime
      BY <1>3 DEF PassTime
    <2>2. LimiterTypeOK'
      BY <2>1, LimitsType DEF LimiterInv, LimiterTypeOK, Times
    <2>3. ASSUME NEW c \in Clients PROVE LogInv(c)'
      <3>1. Before(c)' = Before(c) /\ now \in Nat /\ Window \in Nat
        BY <2>1, LogType, LimitsType DEF Before
      <3>2. \A r, w \in Nat : r <= now + w => r <= now' + w
        BY <2>1, <3>1
      <3>3. bucket'[c].reset <= now' + Window
        BY <2>1, <3>1, <3>2, LogType DEF LogInv
      <3>4. \A k \in DOMAIN admitted[c] : admitted[c][k] <= now'
        BY <2>1, <3>1, LogType DEF LogInv
      <3>5. QED BY <2>1, <3>1, <3>3, <3>4, LogType DEF LogInv
    <2>4. QED BY <2>2, <2>3 DEF LimiterInv
  <1>4. CASE Forget
    <2>1. LimiterTypeOK'
      BY <1>4, LimitsType DEF Forget, LimiterInv, LimiterTypeOK, NoBucket, Times
    <2>2. ASSUME NEW c \in Clients PROVE LogInv(c)'
      <3>1. /\ bucket'[c].count = 0 /\ bucket'[c].reset = 0
            /\ admitted'[c] = <<>> /\ now' = now
        BY <1>4 DEF Forget, NoBucket
      <3>2. now' \in Nat
        BY <3>1, LogType
      <3>3. QED BY <3>1, <3>2, LimitsType DEF LogInv, Before
    <2>3. QED BY <2>1, <2>2 DEF LimiterInv
  <1>5. CASE UNCHANGED limiterVars
    BY <1>5 DEF limiterVars, LimiterInv, LimiterTypeOK, LogInv, Before
  <1>6. QED BY <1>1, <1>2, <1>3, <1>4, <1>5

(* The invariant holds from the start, when nobody was let in, and every   *)
(* step of the server keeps it.                                            *)
LEMMA LimiterInvariant == HttpSpec => []LimiterInv
  <1>1. HttpInit => LimiterInv
    <2>1. ASSUME HttpInit PROVE LimiterTypeOK
      BY <2>1, LimitsType DEF HttpInit, LimiterInit, LimiterTypeOK, NoBucket, Times
    <2>2. ASSUME HttpInit, NEW c \in Clients PROVE LogInv(c)
      <3>1. bucket[c].count = 0 /\ bucket[c].reset = 0 /\ admitted[c] = <<>> /\ now = 1
        BY <2>2 DEF HttpInit, LimiterInit, NoBucket
      <3>2. QED BY <3>1, LimitsType DEF LogInv, Before
    <2>3. QED BY <2>1, <2>2 DEF LimiterInv
  <1>2. LimiterInv /\ [HttpNext]_httpVars => LimiterInv'
    BY LimiterStep, HttpAssumption
       DEF HttpNext, httpVars, SubmitRequest, StatusRequest, TooManyRequests
  <1>3. QED BY <1>1, <1>2, PTL DEF HttpSpec

(* The buckets and the counts keep their types: no client is ever let in   *)
(* more than Limit times on one bucket.                                    *)
THEOREM LimiterTypeCorrect == HttpSpec => []LimiterTypeOK
  <1>1. LimiterInv => LimiterTypeOK
    BY DEF LimiterInv
  <1>2. QED BY <1>1, LimiterInvariant, PTL

(* However a client spreads its requests over time, no stretch of a        *)
(* window's length sees more than two windows' worth of them: the          *)
(* admissions still in reach are the ones its bucket counts and at most    *)
(* Limit before those.                                                     *)
THEOREM BurstsAreBounded == HttpSpec => []AdmissionIsBounded
  <1>1. ASSUME LimiterInv, NEW c \in Clients PROVE Cardinality(Recent(c)) <= 2 * Limit
    <2> DEFINE reach == (Before(c) - Limit + 1)..Len(admitted[c])
    <2>1. ASSUME NEW k \in Recent(c) PROVE k \in reach
      <3>1. k \in DOMAIN admitted[c] /\ k \in Int /\ now <= admitted[c][k] + Window
        BY LogType, <1>1 DEF Recent
      <3>2. admitted[c][k] \in Nat /\ Placed(admitted[c][k], k, Before(c), bucket[c].reset)
            /\ bucket[c].reset <= now + Window
        BY <3>1, <1>1, LogType DEF LogInv
      <3>3. ~(k <= Before(c) - Limit)
        BY <3>1, <3>2, <1>1, LogNumbers DEF Placed
      <3>4. QED BY <3>1, <3>3, <1>1, LogType, LimitsType
    <2>2. Before(c) - Limit + 1 \in Int /\ Len(admitted[c]) \in Int
      BY <1>1, LogType, LimitsType
    <2>3. IsFiniteSet(reach) /\ Cardinality(reach) <= 2 * Limit
      <3>1. IsFiniteSet(reach)
            /\ Cardinality(reach) = IF Before(c) - Limit + 1 > Len(admitted[c]) THEN 0
                                    ELSE Len(admitted[c]) - (Before(c) - Limit + 1) + 1
        BY <2>2, FS_Interval
      <3>2. Len(admitted[c]) - (Before(c) - Limit + 1) + 1 = bucket[c].count + Limit
        <4>1. PICK n, count, before \in Nat :
                /\ Len(admitted[c]) = n /\ bucket[c].count = count
                /\ Before(c) = before /\ before = n - count
          BY <1>1, LogNumbers
        <4>2. n - (before - Limit + 1) + 1 = count + Limit
          BY <4>1, LimitsType
        <4>3. QED BY <4>1, <4>2
      <3>3. bucket[c].count \in Nat /\ bucket[c].count <= Limit
        BY <1>1, LogType, LimitsType
      <3>4. QED BY <3>1, <3>2, <3>3, LimitsType
    <2>4. Recent(c) \in SUBSET reach
      BY <2>1
    <2>5. Cardinality(Recent(c)) <= Cardinality(reach) /\ IsFiniteSet(Recent(c))
      BY <2>3, <2>4, FS_Subset
    <2>6. Cardinality(Recent(c)) \in Nat /\ Cardinality(reach) \in Nat
      BY <2>3, <2>5, FS_CardinalityType
    <2>7. QED BY <2>3, <2>5, <2>6, LimitsType
  <1>2. LimiterInv => AdmissionIsBounded
    BY <1>1 DEF AdmissionIsBounded
  <1>3. QED BY <1>2, LimiterInvariant, PTL

(* Nobody is refused who did not use up a window's worth of requests       *)
(* within the last window.                                                 *)
THEOREM RefusalsAreDeserved == HttpSpec => []RefusalIsDeserved
  <1>1. ASSUME LimiterInv, NEW c \in Clients, ~HasRoom(c) PROVE Cardinality(Recent(c)) >= Limit
    <2> DEFINE counted == (Before(c) + 1)..Len(admitted[c])
    <2>1. bucket[c].count = Limit /\ now <= bucket[c].reset
      BY <1>1, RefuseKeepsBucket, LogType
    <2>2. ASSUME NEW k \in counted PROVE k \in Recent(c)
      <3>1. k \in DOMAIN admitted[c] /\ k > Before(c)
        BY <1>1, LogType
      <3>2. Placed(admitted[c][k], k, Before(c), bucket[c].reset) /\ admitted[c][k] \in Nat
        BY <3>1, <1>1, LogType DEF LogInv
      <3>3. PICK time, t, reset, before \in Nat :
              /\ time = admitted[c][k] /\ t = now
              /\ reset = bucket[c].reset /\ before = Before(c)
        BY <3>2, <1>1, LogNumbers
      <3>4. time + Window >= reset
        BY <3>1, <3>2, <3>3 DEF Placed
      <3>5. t <= reset
        BY <3>3, <2>1
      <3>6. t <= time + Window
        BY <3>4, <3>5, LimitsType
      <3>7. now <= admitted[c][k] + Window
        BY <3>3, <3>6
      <3>8. QED BY <3>1, <3>7 DEF Recent
    <2>3. Before(c) + 1 \in Int /\ Len(admitted[c]) \in Int
      BY <1>1, LogType
    <2>4. Cardinality(counted) = Limit
      <3>1. Cardinality(counted) = IF Before(c) + 1 > Len(admitted[c]) THEN 0
                                   ELSE Len(admitted[c]) - (Before(c) + 1) + 1
        BY <2>3, FS_Interval
      <3>2. QED BY <3>1, <2>1, <1>1, LogType, LimitsType DEF Before
    <2>5. IsFiniteSet(Recent(c))
      <3>1. Recent(c) \in SUBSET (1..Len(admitted[c]))
        BY <1>1, LogType DEF Recent
      <3>2. IsFiniteSet(1..Len(admitted[c]))
        BY <2>3, FS_Interval
      <3>3. QED BY <3>1, <3>2, FS_Subset
    <2>6. counted \in SUBSET Recent(c)
      BY <2>2
    <2>7. Cardinality(counted) <= Cardinality(Recent(c))
      BY <2>5, <2>6, FS_Subset
    <2>8. Cardinality(Recent(c)) \in Nat
      BY <2>5, FS_CardinalityType
    <2>9. QED BY <2>4, <2>7, <2>8, LimitsType
  <1>2. LimiterInv => RefusalIsDeserved
    BY <1>1 DEF RefusalIsDeserved
  <1>3. QED BY <1>2, LimiterInvariant, PTL
-----------------------------------------------------------------------------
(* To the handlers a request that is refused is one that never came: the   *)
(* server behind the limiter behaves as the server without it.             *)
THEOREM LimiterIsTransparent == HttpSpec => SubmitSpec
  <1>1. HttpInit => SubmitInit
    BY DEF HttpInit
  <1>2. [HttpNext]_httpVars => [SubmitNext]_submitVars
    BY DEF HttpNext, SubmitNext, httpVars, SubmitRequest, StatusRequest, TooManyRequests
  <1>3. QED BY <1>1, <1>2, PTL DEF HttpSpec, SubmitSpec

(* What a 202 promises holds for the server the clients meet. *)
THEOREM AcceptedThroughLimiter == HttpSpec => [](AcceptedIsPublished /\ PublishedHasRecord /\ CopiesAreBounded)
  <1>1. SubmitSpec => [](AcceptedIsPublished /\ PublishedHasRecord)
    BY SubmissionSafe
  <1>2. SubmitSpec => []CopiesAreBounded
    BY DuplicatesAreBounded
  <1>3. QED BY <1>1, <1>2, LimiterIsTransparent, PTL
=============================================================================

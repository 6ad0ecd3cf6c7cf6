------------------------------ MODULE RateLimiter ------------------------------
(***************************************************************************)
(* The rate limiter in front of the /kyc handlers: per client a count of   *)
(* admitted requests that starts anew with the first request after its     *)
(* window.  Submissions and status requests share it.                      *)
(***************************************************************************)
EXTENDS Naturals, FiniteSets, Sequences

CONSTANTS
    Clients,      \* forwarded addresses, or address and port of a connection
    Limit,        \* requests per window (120)
    Window,       \* its length (a minute), in ticks of the clock
    MaxTime       \* bound: the clock stops here

ASSUME LimiterAssumption == {Limit, Window, MaxTime} \subseteq Nat \ {0}

VARIABLES
    now,          \* the clock, from 1
    bucket,       \* bucket[c]: [count, reset], reset = 0 before the first request of c
    admitted      \* admitted[c]: the times c was let in since the server started, in order

limiterVars == <<now, bucket, admitted>>

Times == 1..MaxTime
NoBucket == [count |-> 0, reset |-> 0]

LimiterTypeOK ==
    /\ now \in Times
    /\ bucket \in [Clients -> [count : 0..Limit, reset : 0..MaxTime + Window]]
    /\ admitted \in [Clients -> Seq(Times)]

LimiterInit ==
    /\ now = 1
    /\ bucket = [c \in Clients |-> NoBucket]
    /\ admitted = [c \in Clients |-> <<>>]
-----------------------------------------------------------------------------
\* The bucket a request of c meets.
Current(c) == IF now > bucket[c].reset THEN [count |-> 0, reset |-> now + Window] ELSE bucket[c]

\* Mutant of HasRoom: one more.
HasRoomForOneMore(c) == Current(c).count <= Limit

HasRoom(c) == Current(c).count < Limit

Admit(c) ==
    /\ HasRoom(c)
    /\ bucket' = [bucket EXCEPT ![c] = [Current(c) EXCEPT !.count = @ + 1]]
    /\ admitted' = [admitted EXCEPT ![c] = Append(@, now)]
    /\ UNCHANGED now

\* Mutant of Refuse: a refused request starts the window anew.
RefuseForLonger(c) ==
    /\ ~HasRoom(c)
    /\ bucket' = [bucket EXCEPT ![c] = [Current(c) EXCEPT !.reset = now + Window]]
    /\ UNCHANGED <<now, admitted>>

Refuse(c) ==
    /\ ~HasRoom(c)
    /\ bucket' = [bucket EXCEPT ![c] = Current(c)]
    /\ UNCHANGED <<now, admitted>>

PassTime == now < MaxTime /\ now' = now + 1 /\ UNCHANGED <<bucket, admitted>>

\* The buckets are in memory: a server that starts again has none.
Forget ==
    /\ bucket' = [c \in Clients |-> NoBucket]
    /\ admitted' = [c \in Clients |-> <<>>]
    /\ UNCHANGED now
-----------------------------------------------------------------------------
\* The admissions of c that a window's length reaches back to from now.
Recent(c) == {k \in DOMAIN admitted[c] : now <= admitted[c][k] + Window}

(* Two bursts around the end of a window pass, but no more than that in    *)
(* any stretch of a window's length.                                       *)
AdmissionIsBounded == \A c \in Clients : Cardinality(Recent(c)) <= 2 * Limit

(* Who is refused has made Limit requests within the last window: neither  *)
(* refused requests nor requests of long ago count.                        *)
RefusalIsDeserved == \A c \in Clients : ~HasRoom(c) => Cardinality(Recent(c)) >= Limit
=============================================================================

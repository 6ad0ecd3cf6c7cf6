----------------------------- MODULE StatusPolling -----------------------------
(***************************************************************************)
(* The page of the browser frontend: two forms whose submission starts to  *)
(* poll the status of its transaction, and the button "Poll until done".   *)
(* The calls of pollUntilDone overlap between their awaits; they share one *)
(* variable for the timer, one field for the transaction and one button.   *)
(***************************************************************************)
EXTENDS Faults

CONSTANTS
    Forms,        \* submissions, each of a transaction of its own
    Clicks,       \* clicks on the button, disjoint from Forms
    MaxAttempts,  \* attempts of a poll a form starts (45), at least 1
    MaxOpen       \* bound: requests of one timer that are open at once, at least 1

VARIABLES
    poll,         \* poll[p]: where the call p of submitJob or pollUntilDone is
    timers,       \* calls whose interval is running
    pollTimer,    \* state.pollTimer: the call that set it last
    attempts,     \* attempts[p]: ticks of the timer of p
    open,         \* status requests that were not answered yet
    field,        \* the transaction in the input field
    disabled,     \* the button is disabled
    decided       \* transactions that are COMPLETED or FAILED

vars == <<faults, poll, timers, pollTimer, attempts, open, field, disabled, decided>>

Polls == Forms \cup Clicks
\* Status requests: slot 0 is the first check of a call, the others are ticks.
Requests == [by : Polls, slot : 0..MaxOpen, txn : Forms, final : BOOLEAN]

TypeOK ==
    /\ FaultsTypeOK
    /\ poll \in [Polls -> {"idle", "posting", "checking", "waiting", "ended"}]
    /\ timers \subseteq Polls /\ pollTimer \in Polls \cup {"none"}
    /\ attempts \in [Polls -> 0..MaxAttempts]
    /\ open \subseteq Requests
    /\ field \in Forms \cup {"none"} /\ disabled \in BOOLEAN
    /\ decided \subseteq Forms

Init ==
    /\ faults = 0
    /\ poll = [p \in Polls |-> "idle"] /\ timers = {} /\ pollTimer = "none"
    /\ attempts = [p \in Polls |-> 0] /\ open = {}
    /\ field = "none" /\ disabled = FALSE /\ decided = {}

Goto(p, state) == poll' = [poll EXCEPT ![p] = state]
Clear == timers' = timers \ {pollTimer}
Ask(p, slot, t) == open' = open \cup {[by |-> p, slot |-> slot, txn |-> t, final |-> t \in decided]}

\* An answer says what was the case when the request was sent, or is now.
Says(r, final) == final \in {r.final, r.txn \in decided}
-----------------------------------------------------------------------------
\* The worker decides a job that was accepted.
Decide(f) ==
    /\ f \notin decided /\ poll[f] \notin {"idle", "posting"}
    /\ decided' = decided \cup {f} /\ NoFault
    /\ UNCHANGED <<poll, timers, pollTimer, attempts, open, field, disabled>>

Submit(f) ==
    /\ poll[f] = "idle" /\ Goto(f, "posting")
    /\ Clear /\ field' = "none" /\ NoFault
    /\ UNCHANGED <<pollTimer, attempts, open, disabled, decided>>

\* The job was accepted: the form goes on with pollUntilDone, up to the await
\* of its first check.
Posted(f) ==
    /\ poll[f] = "posting" /\ Goto(f, "checking")
    /\ Clear /\ field' = f /\ disabled' = TRUE
    /\ Ask(f, 0, f)
    /\ NoFault /\ UNCHANGED <<pollTimer, attempts, decided>>

PostFails(f) ==
    /\ poll[f] = "posting" /\ Goto(f, "ended")
    /\ Fault("submit")
    /\ UNCHANGED <<timers, pollTimer, attempts, open, field, disabled, decided>>

\* Without a transaction in the field the first check fails at once.
Click(c) ==
    /\ poll[c] = "idle" /\ ~disabled /\ Clear
    /\ IF field = "none"
       THEN Goto(c, "ended") /\ UNCHANGED <<open, disabled>>
       ELSE Goto(c, "checking") /\ Ask(c, 0, field) /\ disabled' = TRUE
    /\ NoFault /\ UNCHANGED <<pollTimer, attempts, field, decided>>

\* The first answer: the timer is set, by a call that may no longer be alone.
StartTimer(r) ==
    /\ r.slot = 0 /\ Says(r, FALSE)
    /\ open' = open \ {r} /\ Goto(r.by, "waiting")
    /\ timers' = timers \cup {r.by} /\ pollTimer' = r.by
    /\ NoFault /\ UNCHANGED <<attempts, field, disabled, decided>>

EndAtOnce(r) ==
    /\ r.slot = 0
    /\ (Says(r, TRUE) /\ NoFault) \/ Fault("status")
    /\ open' = open \ {r} /\ Goto(r.by, "ended")
    /\ disabled' = FALSE
    /\ UNCHANGED <<timers, pollTimer, attempts, field, decided>>
-----------------------------------------------------------------------------
\* A poll is over: whichever timer was set last is cleared.
Finish(p) ==
    /\ Clear /\ disabled' = FALSE
    /\ poll' = [poll EXCEPT ![p] = IF @ = "waiting" THEN "ended" ELSE @]

\* The interval fires, whether or not the last request was answered.
Tick(p) ==
    /\ p \in timers /\ field # "none"
    /\ attempts' = [attempts EXCEPT ![p] = IF @ < MaxAttempts THEN @ + 1 ELSE @]
    /\ \E slot \in 1..MaxOpen :
         /\ \A r \in open : r.by = p => r.slot # slot
         /\ Ask(p, slot, field)
    /\ NoFault /\ UNCHANGED <<poll, timers, pollTimer, field, disabled, decided>>

TickWithoutId(p) ==
    /\ p \in timers /\ field = "none"
    /\ attempts' = [attempts EXCEPT ![p] = IF @ < MaxAttempts THEN @ + 1 ELSE @]
    /\ Finish(p)
    /\ NoFault /\ UNCHANGED <<pollTimer, open, field, decided>>

\* A click hands its event over as maxAttempts, which no number reaches.
OutOfAttempts(p) == p \in Forms /\ attempts[p] >= MaxAttempts

Answer(r) ==
    /\ r.slot # 0 /\ open' = open \ {r}
    /\ \E final \in BOOLEAN :
         /\ Says(r, final)
         /\ IF final \/ OutOfAttempts(r.by) THEN Finish(r.by) ELSE UNCHANGED <<poll, timers, disabled>>
    /\ NoFault /\ UNCHANGED <<pollTimer, attempts, field, decided>>

AnswerFails(r) ==
    /\ r.slot # 0 /\ open' = open \ {r}
    /\ Fault("status") /\ Finish(r.by)
    /\ UNCHANGED <<pollTimer, attempts, field, decided>>
-----------------------------------------------------------------------------
Next ==
    \/ \E f \in Forms : Decide(f) \/ Submit(f) \/ Posted(f) \/ PostFails(f)
    \/ \E c \in Clicks : Click(c)
    \/ \E p \in Polls : Tick(p) \/ TickWithoutId(p)
    \/ \E r \in open : StartTimer(r) \/ EndAtOnce(r) \/ Answer(r) \/ AnswerFails(r)

Spec == Init /\ [][Next]_vars

(* Timers fire, requests are answered and jobs decided; whether the user   *)
(* does anything is open.                                                  *)
Fairness ==
    /\ \A f \in Forms : WF_vars(Decide(f)) /\ WF_vars(Posted(f))
    /\ \A p \in Polls :
         /\ WF_vars(Tick(p) \/ TickWithoutId(p))
         /\ WF_vars(\E r \in open : r.by = p /\ (StartTimer(r) \/ EndAtOnce(r) \/ Answer(r)))

FairSpec == Spec /\ Fairness
-----------------------------------------------------------------------------
(* README "Use the UI button **Poll until done**": when the jobs are done, *)
(* polling ends.                                                           *)
PollingEnds == <>[](timers = {})
=============================================================================

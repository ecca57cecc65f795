------------------------------- MODULE Pauses -------------------------------
(***************************************************************************)
(* Who may pause the miner (core/Miner.cpp): the user, by a key or the     *)
(* API; the timer, on battery power and while the user is active; Network, *)
(* when there is no pool.  The first two share the flag enabled, and the   *)
(* timer keeps count of its own reasons in auto_pause.                     *)
(*                                                                         *)
(* All handlers run on the event loop, one at a time; what the workers     *)
(* make of Nonce::m_paused, jobs that wait for a dataset and stop() are    *)
(* the subject of Mining.                                                  *)
(***************************************************************************)
EXTENDS Integers

Reason == {"battery", "active"}

VARIABLES
    enabled, active,
    paused,     \* Nonce::m_paused
    ticking,    \* the timer was started, by the first job
    state,      \* battery_power and user_active: what the timer saw last
    auto_pause,
    option,     \* pause-on-battery and pause-on-active
    world,      \* on battery power, the user is active
    hand,       \* not the program: the user's command since the timer's last change
    stale       \* not the program: pause-on-battery went off with battery_power set

vars == <<enabled, active, paused, ticking, state, auto_pause, option, world, hand, stale>>

TypeOK ==
    /\ enabled \in BOOLEAN /\ active \in BOOLEAN /\ paused \in BOOLEAN /\ ticking \in BOOLEAN
    /\ state \in [Reason -> BOOLEAN]
    /\ auto_pause \in 0 .. 2
    /\ option \in [Reason -> BOOLEAN]
    /\ world \in [Reason -> BOOLEAN]
    /\ hand \in {"none", "pause", "resume"}
    /\ stale \in BOOLEAN

Init ==
    /\ enabled = TRUE /\ active = FALSE /\ paused = TRUE /\ ticking = FALSE
    /\ state = [r \in Reason |-> FALSE] /\ auto_pause = 0
    /\ option \in [Reason -> BOOLEAN] /\ world \in [Reason -> BOOLEAN]
    /\ hand = "none" /\ stale = FALSE

-----------------------------------------------------------------------------
(* Mutant of MayChange: no look at the battery. *)
MayChange_Always(e, s) == TRUE

(* setEnabled(e) with the flags s: "can't resume while on battery power". *)
MayChange(e, s) == ~(option["battery"] /\ s["battery"] /\ e)

(* Mutant of Paused: the flag is set whether or not there is a pool. *)
Paused_AnyWay(e, was) == ~e

(* Nonce::m_paused after setEnabled(e). *)
Paused(e, was) == IF active THEN ~e ELSE was

SetEnabled(e) ==
    IF enabled # e /\ MayChange(e, state)
    THEN enabled' = e /\ paused' = Paused(e, paused)
    ELSE UNCHANGED <<enabled, paused>>

(* The keys p and r, and the requests pause and resume of the API. *)
Command(e) ==
    /\ SetEnabled(e)
    /\ hand' = IF e THEN "resume" ELSE "pause"
    /\ UNCHANGED <<active, ticking, state, auto_pause, option, world, stale>>

-----------------------------------------------------------------------------
(* What one reason makes of the miner m (flags s, count n, enabled e).     *)
(* Mutants: each timer counts; an end always resumes; the flag is written  *)
(* last.                                                                   *)
AutoPause_EachTime(m, r) ==
    LET s == [m.s EXCEPT ![r] = world[r]]
        n == m.n + (IF world[r] THEN 1 ELSE -1)
    IN  [s |-> s, n |-> n, e |-> IF MayChange(n = 0, s) THEN n = 0 ELSE m.e]

AutoPause_Resumes(m, r) ==
    IF m.s[r] = world[r] THEN m
    ELSE LET s == [m.s EXCEPT ![r] = world[r]]
         IN  [s |-> s, n |-> m.n + (IF world[r] THEN 1 ELSE -1),
              e |-> IF MayChange(~world[r], s) THEN ~world[r] ELSE m.e]

AutoPause_FlagLast(m, r) ==
    IF m.s[r] = world[r] THEN m
    ELSE LET n == m.n + (IF world[r] THEN 1 ELSE -1)
         IN  [s |-> [m.s EXCEPT ![r] = world[r]], n |-> n,
              e |-> IF MayChange(n = 0, m.s) THEN n = 0 ELSE m.e]

(* The lambda autoPause of onTimer(): a change of the reason is noted and  *)
(* counted, and the miner runs when no reason is left.                     *)
AutoPause(m, r) ==
    IF m.s[r] = world[r] THEN m
    ELSE LET s == [m.s EXCEPT ![r] = world[r]]
             n == m.n + (IF world[r] THEN 1 ELSE -1)
         IN  [s |-> s, n |-> n, e |-> IF MayChange(n = 0, s) THEN n = 0 ELSE m.e]

(* The reasons that are switched on, the battery first. *)
Polled(m) ==
    LET b == IF option["battery"] THEN AutoPause(m, "battery") ELSE m
    IN  IF option["active"] THEN AutoPause(b, "active") ELSE b

OnTimer ==
    /\ ticking
    /\ LET m == Polled([s |-> state, n |-> auto_pause, e |-> enabled])
       IN  /\ state' = m.s /\ auto_pause' = m.n /\ enabled' = m.e
           /\ paused' = IF m.e = enabled THEN paused ELSE Paused(m.e, paused)
           /\ hand' = IF m.s = state THEN hand ELSE "none"
           /\ stale' = (stale /\ m.s["battery"])
    /\ UNCHANGED <<active, ticking, option, world>>

-----------------------------------------------------------------------------
(* setJob() and handleJobChange() for a job that is ready. *)
SetJob ==
    /\ active' = TRUE
    /\ paused' = ~enabled
    /\ ticking' = TRUE
    /\ UNCHANGED <<enabled, state, auto_pause, option, world, hand, stale>>

(* pause(): "no active pools, stop mining". *)
Pause ==
    /\ active' = FALSE /\ paused' = TRUE
    /\ UNCHANGED <<enabled, ticking, state, auto_pause, option, world, hand, stale>>

(* A new configuration is read by the next timer; nothing else happens.    *)
Reload ==
    /\ option' \in [Reason -> BOOLEAN]
    /\ stale' = (stale \/ (state["battery"] /\ ~option'["battery"]))
    /\ UNCHANGED <<enabled, active, paused, ticking, state, auto_pause, world, hand>>

(* Not the program: the power supply or the user. *)
World ==
    /\ \E r \in Reason : world' = [world EXCEPT ![r] = ~@]
    /\ UNCHANGED <<enabled, active, paused, ticking, state, auto_pause, option, hand, stale>>

Next ==
    \/ \E e \in BOOLEAN : Command(e)
    \/ OnTimer
    \/ SetJob
    \/ Pause
    \/ Reload
    \/ World

Spec == Init /\ [][Next]_vars

(* The timer fires every 500 ms once it is started. *)
FairSpec == Spec /\ WF_vars(OnTimer)

-----------------------------------------------------------------------------
(* "pause mine on battery power": once the timer has seen the battery      *)
(* neither key, API, activity of the user nor a new job resume the miner.  *)
(* The exception: the option was off in between, see README.               *)
OnBatteryRests == option["battery"] /\ state["battery"] /\ ~stale => ~enabled

(* The pause the workers see is the one the flags ask for: no order of     *)
(* jobs, lost pools and pauses leaves them running or resting by mistake   *)
(* (setEnabled() returns early while there is no pool).                    *)
PausedInStep == paused <=> ~(active /\ enabled)

(* The count and the early return of setEnabled() never go out of step     *)
(* with the reasons: without a command of the user since the timer's last  *)
(* change the miner is enabled exactly when no reason holds.               *)
AutoDecides == hand = "none" => (enabled <=> \A r \in Reason : ~state[r])

(* No reason is left, and the timer is able to see that. *)
Free == \A r \in Reason : ~world[r] /\ (option[r] \/ ~state[r])

(* The miner comes back when the reasons are gone, however they overlapped *)
(* ("Fixed being unable to resume from pause-on-battery").                 *)
ComesBack == <>[](Free /\ hand # "pause") => <>[]enabled
=============================================================================

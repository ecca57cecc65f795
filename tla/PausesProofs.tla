--------------------------- MODULE PausesProofs ---------------------------
(***************************************************************************)
(* The invariants of Pauses, and why they hold: the timer's count is right *)
(* whenever setEnabled() is called.                                        *)
(***************************************************************************)
EXTENDS Pauses, TLAPS

(* The timer's count is the number of the reasons it saw. *)
Count(s) == (IF s["battery"] THEN 1 ELSE 0) + (IF s["active"] THEN 1 ELSE 0)

(* A battery that the timer saw and no longer asks for. *)
StaleKnown == state["battery"] /\ ~option["battery"] => stale

PauseInv ==
    /\ TypeOK /\ auto_pause = Count(state) /\ StaleKnown
    /\ OnBatteryRests /\ PausedInStep /\ AutoDecides

(* The states of the lambda autoPause: flags, a count that fits, enabled. *)
Flags == [Reason -> BOOLEAN]
Counted(m) == m.s \in Flags /\ m.n = Count(m.s) /\ m.e \in BOOLEAN

(* a comes from m: nothing happened, or a change of the flags decided. *)
Follows(a, m) ==
    /\ Counted(a)
    /\ \/ a = m
       \/ a.s # m.s /\ (a.e <=> \A q \in Reason : ~a.s[q])

(* autoPause of onTimer(): either the reason is as it was and nothing      *)
(* happens, or it is noted and the miner is enabled exactly when no reason *)
(* is left; setEnabled() never refuses here, for the count is right.       *)
LEMMA AutoPauseFacts ==
    ASSUME NEW STATE m, Counted(m), NEW STATE r, r \in Reason, world \in Flags
    PROVE  /\ Follows(AutoPause(m, r), m)
           /\ \A q \in Reason \ {r} : AutoPause(m, r).s[q] = m.s[q]
<1>1. CASE m.s[r] = world[r]
  <2>1. AutoPause(m, r) = m
    BY <1>1 DEF AutoPause
  <2> QED BY <2>1 DEF Follows
<1>2. CASE m.s[r] # world[r]
  <2> DEFINE s == [m.s EXCEPT ![r] = world[r]]
             n == m.n + (IF world[r] THEN 1 ELSE -1)
             a == [s |-> s, n |-> n, e |-> IF MayChange(n = 0, s) THEN n = 0 ELSE m.e]
  <2>1. AutoPause(m, r) = a
    BY <1>2, Zenon DEF AutoPause
  <2>2. s \in Flags /\ s[r] = world[r] /\ \A q \in Reason \ {r} : s[q] = m.s[q]
    BY DEF Counted, Flags
  <2>3. s # m.s
    BY <1>2, <2>2
  <2>4. m.s \in Flags /\ m.n = Count(m.s) /\ (m.s[r] <=> ~world[r])
    <3>1. m.s[r] \in BOOLEAN /\ world[r] \in BOOLEAN
      BY DEF Counted, Flags
    <3> QED BY <3>1, <1>2, Zenon DEF Counted
  <2>5. n = Count(s)
    <3> HIDE DEF s
    <3>1. CASE r = "battery"
      <4>1. /\ s["battery"] = world[r] /\ s["active"] = m.s["active"]
            /\ m.s["battery"] <=> ~world[r]
        BY <3>1, <2>2, <2>4 DEF Reason
      <4> QED BY <4>1, <2>4 DEF Count
    <3>2. CASE r = "active"
      <4>1. /\ s["active"] = world[r] /\ s["battery"] = m.s["battery"]
            /\ m.s["active"] <=> ~world[r]
        BY <3>2, <2>2, <2>4 DEF Reason
      <4> QED BY <4>1, <2>4 DEF Count
    <3> QED BY <3>1, <3>2 DEF Reason
  <2> HIDE DEF s, n
  <2>6. n = 0 <=> \A q \in Reason : ~s[q]
    BY <2>5 DEF Count, Reason
  <2>7. MayChange(n = 0, s)
    BY <2>6 DEF MayChange, Reason
  <2>8. a.s = s /\ a.n = n /\ a.e = (n = 0)
    BY <2>7, Zenon
  <2>9. a.e \in BOOLEAN
    BY <2>8, Zenon
  <2> HIDE DEF a
  <2>10. Counted(a)
    BY <2>2, <2>5, <2>8, <2>9 DEF Counted
  <2>11. a.e <=> \A q \in Reason : ~a.s[q]
    BY <2>6, <2>8
  <2> QED BY <2>1, <2>2, <2>3, <2>8, <2>10, <2>11 DEF Follows
<1> QED BY <1>1, <1>2

(* One timer: what the two reasons together leave behind. *)
LEMMA PolledFacts ==
    ASSUME NEW STATE m, Counted(m), world \in Flags, option \in Flags
    PROVE  /\ Follows(Polled(m), m)
           /\ ~option["battery"] => Polled(m).s["battery"] = m.s["battery"]
<1> DEFINE b == IF option["battery"] THEN AutoPause(m, "battery") ELSE m
           c == IF option["active"] THEN AutoPause(b, "active") ELSE b
<1>r. "battery" \in Reason /\ "active" \in Reason /\ "active" # "battery"
  BY DEF Reason
<1>1. Polled(m) = c
  BY DEF Polled
<1>2. /\ Follows(b, m) /\ b.s["active"] = m.s["active"]
      /\ ~option["battery"] => b = m
  <2>1. CASE option["battery"]
    <3>1. b = AutoPause(m, "battery")
      BY <2>1
    <3> HIDE DEF b
    <3>2. /\ Follows(AutoPause(m, "battery"), m)
          /\ \A q \in Reason \ {"battery"} : AutoPause(m, "battery").s[q] = m.s[q]
      BY <1>r, AutoPauseFacts
    <3> QED BY <1>r, <2>1, <3>1, <3>2
  <2>2. CASE ~option["battery"]
    <3>1. b = m
      BY <2>2
    <3> QED BY <3>1 DEF Follows
  <2> QED BY <2>1, <2>2
<1> HIDE DEF b
<1>6. Counted(b)
  BY <1>2 DEF Follows
<1>3. Follows(c, b) /\ c.s["battery"] = b.s["battery"]
  <2>1. CASE option["active"]
    <3>1. c = AutoPause(b, "active")
      BY <2>1
    <3> HIDE DEF c
    <3>2. /\ Follows(AutoPause(b, "active"), b)
          /\ \A q \in Reason \ {"active"} : AutoPause(b, "active").s[q] = b.s[q]
      BY <1>r, <1>6, AutoPauseFacts
    <3> QED BY <1>r, <3>1, <3>2
  <2>2. CASE ~option["active"]
    <3>1. c = b
      BY <2>2
    <3> QED BY <3>1, <1>2 DEF Follows
  <2> QED BY <2>1, <2>2
<1> HIDE DEF c
<1>4. CASE c = b
  BY <1>1, <1>2, <1>3, <1>4 DEF Follows
<1>5. CASE c # b
  <2>1. c.s # m.s
    <3>1. c.s # b.s /\ b.s \in Flags /\ c.s \in Flags /\ m.s \in Flags
      BY <1>2, <1>3, <1>5 DEF Follows, Counted
    <3>2. c.s["active"] # b.s["active"]
      BY <3>1, <1>3 DEF Flags, Reason
    <3> QED BY <3>2, <1>2
  <2> QED BY <1>1, <1>2, <1>3, <1>5, <2>1 DEF Follows
<1> QED BY <1>4, <1>5
(* A call of setEnabled(), by a command or by the timer, keeps the flag    *)
(* the workers read in step with enabled.                                  *)
LEMMA PausedKept ==
    ASSUME PausedInStep, enabled \in BOOLEAN, active \in BOOLEAN, paused \in BOOLEAN,
           NEW STATE e, e \in BOOLEAN, e # enabled
    PROVE  Paused(e, paused) \in BOOLEAN /\ (Paused(e, paused) <=> ~(active /\ e))
<1>1. CASE active
  BY <1>1, Zenon DEF Paused
<1>2. CASE ~active
  BY <1>2, Zenon DEF Paused, PausedInStep
<1> QED BY <1>1, <1>2

(* The keys and the API keep the invariant: a resume on battery is refused *)
(* (setEnabled).                                                           *)
LEMMA CommandPauseInv ==
    ASSUME PauseInv, NEW e \in BOOLEAN, Command(e) PROVE PauseInv'
<1>0. /\ UNCHANGED <<active, ticking, state, auto_pause, option, world, stale>>
      /\ hand' \in {"pause", "resume"}
  BY DEF Command
<1>t. enabled \in BOOLEAN /\ active \in BOOLEAN /\ paused \in BOOLEAN
  BY DEF PauseInv, TypeOK
<1>1. CASE enabled # e /\ MayChange(e, state)
  <2>1. enabled' = e /\ paused' = Paused(e, paused)
    BY <1>1, Zenon DEF Command, SetEnabled
  <2>2. paused' \in BOOLEAN /\ (paused' <=> ~(active /\ e))
    BY <1>1, <1>t, <2>1, PausedKept DEF PauseInv
  <2>3. TypeOK'
    BY <1>0, <2>1, <2>2 DEF PauseInv, TypeOK
  <2>4. PausedInStep'
    BY <1>0, <2>1, <2>2 DEF PausedInStep
  <2>5. OnBatteryRests' /\ AutoDecides'
    BY <1>0, <1>1, <2>1 DEF OnBatteryRests, AutoDecides, MayChange
  <2> QED BY <1>0, <2>3, <2>4, <2>5 DEF PauseInv, Count, StaleKnown
<1>2. CASE ~(enabled # e /\ MayChange(e, state))
  <2>1. UNCHANGED <<enabled, paused>>
    BY <1>2, Zenon DEF Command, SetEnabled
  <2> QED BY <1>0, <2>1 DEF PauseInv, TypeOK, PausedInStep, OnBatteryRests,
             AutoDecides, Count, StaleKnown
<1> QED BY <1>1, <1>2


(* The timer keeps the invariant, whichever reasons begin and end at once  *)
(* (onTimer).                                                              *)
LEMMA TimerPauseInv ==
    ASSUME PauseInv, OnTimer PROVE PauseInv'
<1> DEFINE m == [s |-> state, n |-> auto_pause, e |-> enabled]
           p == Polled(m)
<1>t. /\ enabled \in BOOLEAN /\ active \in BOOLEAN /\ paused \in BOOLEAN /\ stale \in BOOLEAN
      /\ state \in Flags /\ world \in Flags /\ option \in Flags
  BY DEF PauseInv, TypeOK, Flags
<1>1. m.s = state /\ m.n = auto_pause /\ m.e = enabled
  OBVIOUS
<1>2. state' = p.s /\ auto_pause' = p.n /\ enabled' = p.e
  BY DEF OnTimer
<1>3. /\ paused' = IF p.e = enabled THEN paused ELSE Paused(p.e, paused)
      /\ hand' = IF p.s = state THEN hand ELSE "none"
      /\ stale' = (stale /\ p.s["battery"])
      /\ UNCHANGED <<active, ticking, option, world>>
  BY DEF OnTimer
<1> HIDE DEF m
<1>4. Counted(m)
  BY <1>1, <1>t DEF Counted, PauseInv
<1>5. Follows(p, m) /\ (~option["battery"] => p.s["battery"] = m.s["battery"])
  BY <1>4, <1>t, PolledFacts
<1> HIDE DEF p
<1>6. /\ p.s \in Flags /\ p.n = Count(p.s) /\ p.e \in BOOLEAN
      /\ p.s["battery"] \in BOOLEAN /\ p.s["active"] \in BOOLEAN
  BY <1>5 DEF Follows, Counted, Flags, Reason
<1>7. p.n \in 0 .. 2
  BY <1>6 DEF Count
<1>8. stale' \in BOOLEAN
  BY <1>3, Zenon
<1>9. paused' \in BOOLEAN /\ (paused' <=> ~(active /\ p.e))
  <2>1. CASE p.e = enabled
    BY <2>1, <1>3, <1>t, Zenon DEF PauseInv, PausedInStep
  <2>2. CASE p.e # enabled
    <3>1. paused' = Paused(p.e, paused)
      BY <1>3, <2>2, Zenon
    <3> QED BY <3>1, <1>t, <1>6, <2>2, PausedKept DEF PauseInv
  <2> QED BY <2>1, <2>2
<1>10. StaleKnown'
  BY <1>1, <1>2, <1>3, <1>5 DEF PauseInv, StaleKnown
<1>11. PausedInStep'
  BY <1>2, <1>3, <1>9 DEF PausedInStep
<1>12. /\ hand' \in {"none", "pause", "resume"} /\ OnBatteryRests' /\ AutoDecides'
  <2>1. CASE p = m
    <3>1. state' = state /\ enabled' = enabled /\ hand' = hand
      BY <1>1, <1>2, <1>3, <2>1
    <3> QED BY <1>3, <3>1, <2>1, <1>1
            DEF PauseInv, TypeOK, OnBatteryRests, AutoDecides
  <2>2. CASE p # m
    <3>1. p.s # state /\ (p.e <=> \A q \in Reason : ~p.s[q])
      BY <1>1, <1>5, <2>2 DEF Follows
    <3>2. hand' = "none"
      BY <1>3, <3>1
    <3> QED BY <1>2, <3>1, <3>2 DEF OnBatteryRests, AutoDecides, Reason
  <2> QED BY <2>1, <2>2
<1>13. TypeOK'
  <2>1. enabled' \in BOOLEAN /\ active' \in BOOLEAN /\ ticking' \in BOOLEAN
    BY <1>2, <1>3, <1>6 DEF PauseInv, TypeOK
  <2>2. state' \in Flags /\ option' \in Flags /\ world' \in Flags /\ auto_pause' \in 0 .. 2
    BY <1>2, <1>3, <1>6, <1>7, <1>t
  <2> QED BY <2>1, <2>2, <1>8, <1>9, <1>12 DEF TypeOK, Flags
<1>14. auto_pause' = Count(state')
  BY <1>2, <1>6
<1> QED BY <1>10, <1>11, <1>12, <1>13, <1>14 DEF PauseInv, Count

(* Every step keeps the invariant. *)
LEMMA NextPauseInv ==
    ASSUME PauseInv, [Next]_vars PROVE PauseInv'
<1>1. ASSUME NEW e \in BOOLEAN, Command(e) PROVE PauseInv'
  BY <1>1, CommandPauseInv
<1>2. CASE OnTimer
  BY <1>2, TimerPauseInv
<1>3. CASE SetJob
  <2>1. /\ active' = TRUE /\ paused' = ~enabled /\ ticking' = TRUE
        /\ UNCHANGED <<enabled, state, auto_pause, option, world, hand, stale>>
    BY <1>3 DEF SetJob
  <2>2. paused' \in BOOLEAN /\ PausedInStep'
    BY <2>1, Zenon DEF PausedInStep
  <2> QED BY <2>1, <2>2 DEF PauseInv, TypeOK, OnBatteryRests, AutoDecides, Count, StaleKnown
<1>4. CASE Pause
  BY <1>4 DEF Pause, PauseInv, TypeOK, PausedInStep, OnBatteryRests, AutoDecides,
              Count, StaleKnown
<1>5. CASE Reload
  <2>1. /\ option' \in Flags /\ stale' = (stale \/ (state["battery"] /\ ~option'["battery"]))
        /\ UNCHANGED <<enabled, active, paused, ticking, state, auto_pause, world, hand>>
    BY <1>5 DEF Reload, Flags
  <2>2. stale' \in BOOLEAN
    BY <2>1, Zenon
  <2>3. TypeOK'
    BY <2>1, <2>2 DEF PauseInv, TypeOK, Flags
  <2>4. OnBatteryRests' /\ StaleKnown'
    BY <2>1 DEF PauseInv, OnBatteryRests, StaleKnown
  <2> QED BY <2>1, <2>3, <2>4 DEF PauseInv, PausedInStep, AutoDecides, Count
<1>6. CASE World
  <2>1. PICK r \in Reason : world' = [world EXCEPT ![r] = ~@]
    BY <1>6 DEF World
  <2>2. world' \in [Reason -> BOOLEAN]
    BY <2>1 DEF PauseInv, TypeOK
  <2> QED BY <1>6, <2>2 DEF World, PauseInv, TypeOK, PausedInStep, OnBatteryRests,
             AutoDecides, Count, StaleKnown
<1>7. CASE UNCHANGED vars
  BY <1>7 DEF vars, PauseInv, TypeOK, PausedInStep, OnBatteryRests, AutoDecides,
              Count, StaleKnown
<1> QED BY <1>1, <1>2, <1>3, <1>4, <1>5, <1>6, <1>7 DEF Next

(* The invariant of the pauses holds in every run of the miner's handlers  *)
(* (setEnabled, onTimer, setJob, pause).                                   *)
THEOREM PauseInvariant == Spec => []PauseInv
<1>1. Init => PauseInv
  <2> SUFFICES ASSUME Init PROVE PauseInv
    OBVIOUS
  <2>1. state \in [Reason -> BOOLEAN] /\ \A r \in Reason : ~state[r]
    BY DEF Init
  <2>2. ~state["battery"] /\ ~state["active"]
    BY <2>1 DEF Reason
  <2>3. TypeOK
    <3>1. /\ enabled \in BOOLEAN /\ active \in BOOLEAN /\ paused \in BOOLEAN
          /\ ticking \in BOOLEAN /\ stale \in BOOLEAN
      BY Zenon DEF Init
    <3> QED BY <2>1, <3>1 DEF Init, TypeOK
  <2>4. auto_pause = Count(state)
    BY <2>2 DEF Init, Count
  <2>5. StaleKnown /\ OnBatteryRests /\ AutoDecides
    BY <2>1, <2>2 DEF Init, StaleKnown, OnBatteryRests, AutoDecides
  <2>6. PausedInStep
    BY DEF Init, PausedInStep
  <2> QED BY <2>3, <2>4, <2>5, <2>6 DEF PauseInv
<1> QED BY <1>1, NextPauseInv, PTL DEF Spec

(* Once the timer has seen the battery nothing resumes the miner while the *)
(* option stays on: neither a key, the API, the end of the user's activity *)
(* nor a job (setEnabled).                                                 *)
THEOREM BatteryTheorem == Spec => []OnBatteryRests
<1>1. PauseInv => OnBatteryRests
  BY DEF PauseInv
<1> QED BY <1>1, PauseInvariant, PTL

(* The flag the workers read is set exactly when there is no pool or the   *)
(* miner is not enabled, although setEnabled() returns early without a     *)
(* pool.                                                                   *)
THEOREM PausedTheorem == Spec => []PausedInStep
<1>1. PauseInv => PausedInStep
  BY DEF PauseInv
<1> QED BY <1>1, PauseInvariant, PTL

(* Without a command of the user the miner is enabled exactly when the     *)
(* timer sees no reason: the count never goes out of step (onTimer).       *)
THEOREM AutoTheorem == Spec => []AutoDecides
<1>1. PauseInv => AutoDecides
  BY DEF PauseInv
<1> QED BY <1>1, PauseInvariant, PTL

(* The variables of the pauses keep their types; the count stays between 0 *)
(* and the number of reasons.                                              *)
THEOREM TypeCorrect == Spec => []TypeOK
<1>1. PauseInv => TypeOK
  BY DEF PauseInv
<1> QED BY <1>1, PauseInvariant, PTL
=============================================================================

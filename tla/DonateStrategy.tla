--------------------------- MODULE DonateStrategy ---------------------------
(***************************************************************************)
(* The fee rounds (net/strategies/DonateStrategy.cpp): wait, connect to a  *)
(* fee pool, mine for it for a while, leave it, wait again.  One timer     *)
(* ends the waiting and the round; the short WAIT after a round is ended   *)
(* by tick().  The fee pools are a strategy of their own, fee (PoolLink).  *)
(*                                                                         *)
(* The module has the actions; Network.tla adds what its listener does.    *)
(* m_route is always set (FeeTable always has a route, see FeeTable.tla),  *)
(* so the proxy of the original donation never exists and is left out.     *)
(***************************************************************************)
CONSTANT FeeSingle      \* the table names one fee pool only

VARIABLES
    fstate,     \* m_state
    timer,      \* m_timer is running
    stale,      \* m_routesVersion differs from FeeTable::version()
    fee         \* m_strategy

feeVars == <<fstate, timer, stale, fee>>

Fee == INSTANCE PoolLink WITH Single <- FeeSingle, link <- fee

FeeTypeOK ==
    /\ fstate \in {"IDLE", "CONNECT", "ACTIVE", "WAIT"}
    /\ timer \in BOOLEAN /\ stale \in BOOLEAN
    /\ fee \in Fee!LinkType

(* The constructor ends with setState(STATE_IDLE). *)
FeeInit ==
    /\ fstate = "IDLE"
    /\ timer = TRUE
    /\ stale = FALSE
    /\ fee = Fee!Off

isActive == fstate = "ACTIVE"

(* FeeTable::apply() took over a new table. *)
TableChanges == stale' = TRUE /\ UNCHANGED <<fstate, timer, fee>>

(* onTimer() in IDLE: refreshRoutes(), which replaces the strategy when    *)
(* the table changed, then connect().  What was left of the last round is  *)
(* over by then: the wait is at least 79 minutes.                          *)
Begins ==
    /\ fstate = "IDLE" /\ timer
    /\ fee = Fee!Off
    /\ fstate' = "CONNECT" /\ stale' = FALSE
    /\ fee' = Fee!Trying
    /\ timer' = FALSE

(* Mutant of Activates: a login in WAIT does not start the timer again. *)
Activates_NoTimer ==
    /\ Fee!Login
    /\ fstate' = "ACTIVE"
    /\ timer' = (fstate # "WAIT")
    /\ UNCHANGED stale

(* onActive(): also when the state is IDLE or WAIT, by a login that comes  *)
(* late or by the first fee pool taking over from a reserve.               *)
Activates ==
    /\ Fee!Login
    /\ fstate' = "ACTIVE"
    /\ timer' = TRUE
    /\ UNCHANGED stale

(* onTimer() in ACTIVE: the listener's onPause is Network's part. *)
Ends ==
    /\ fstate = "ACTIVE" /\ timer
    /\ fstate' = "WAIT" /\ timer' = FALSE
    /\ UNCHANGED <<stale, fee>>

(* Mutant of Leaves: idle() is forgotten. *)
Leaves_NoTimer ==
    /\ fstate = "WAIT"
    /\ Fee!Stop
    /\ fstate' = "IDLE"
    /\ UNCHANGED <<stale, timer>>

(* tick() in WAIT: the fee pools are left, the wait begins. *)
Leaves ==
    /\ fstate = "WAIT"
    /\ Fee!Stop
    /\ fstate' = "IDLE" /\ timer' = TRUE
    /\ UNCHANGED stale

(* The fee strategy's own steps that do not log in; onPause is ignored. *)
FeeLost == Fee!Lost /\ UNCHANGED <<fstate, timer, stale>>
FeeOver == (Fee!Over \/ Fee!Stopped) /\ UNCHANGED <<fstate, timer, stale>>

-----------------------------------------------------------------------------
(* The timer runs exactly in the states that only it can end: no state is  *)
(* left for good, and the assertion m_state != state in setState() is      *)
(* never hit by a timer that fires in CONNECT or WAIT.                     *)
TimerInStep == timer <=> fstate \in {"IDLE", "ACTIVE"}

(* The fee pools are wanted from CONNECT until they are stopped, and in    *)
(* CONNECT, which only a login ends, some fee pool is really being tried.  *)
ConnectIsTrying ==
    /\ fstate = "CONNECT" => fee = Fee!Trying
    /\ fstate = "IDLE" => ~fee.wanted

(* The fee rounds never stop coming while some fee pool can be reached.    *)
FeeComesAround == []<>isActive
=============================================================================

------------------------------ MODULE Network -------------------------------
(***************************************************************************)
(* Network.cpp: whose job the miner hashes.  It composes the main pools    *)
(* (main, a PoolLink), the fee rounds (DonateStrategy) and the miner, of   *)
(* which only the origin of the job in work is kept.  When the main pool   *)
(* is lost the miner goes on with its job for a grace period.              *)
(*                                                                         *)
(* A login and a job are one step when the answer to the login holds a     *)
(* job, two when the job is asked for afterwards (Epic).                   *)
(***************************************************************************)
EXTENDS DonateStrategy

CONSTANTS
    MainSingle,     \* one main pool: SinglePoolStrategy
    MayReload       \* the configuration may change at run time

ASSUME NetworkAssumption ==
    FeeSingle \in BOOLEAN /\ MainSingle \in BOOLEAN /\ MayReload \in BOOLEAN

VARIABLES
    main,       \* m_strategy
    owed,       \* the main pool has not sent a job since its last login
    diardi,     \* its last job is for a block the miner must not mine
    resilient,  \* m_resilient: some main pool has been logged in
    grace,      \* m_graceUntil # 0
    miner       \* "idle" (paused), or the origin of the job: "main", "fee";
                \* "rest": a main job, paused for a Diardi block

netVars == <<main, owed, diardi, resilient, grace, miner>>
vars == <<feeVars, netVars>>

Main == INSTANCE PoolLink WITH Single <- MainSingle, link <- main

TypeOK ==
    /\ FeeTypeOK
    /\ main \in Main!LinkType
    /\ owed \in BOOLEAN /\ diardi \in BOOLEAN /\ resilient \in BOOLEAN
    /\ grace \in BOOLEAN
    /\ miner \in {"idle", "main", "rest", "fee"}

Init ==
    /\ FeeInit
    /\ main = Main!Trying
    /\ owed = FALSE /\ diardi = FALSE /\ resilient = FALSE
    /\ grace = FALSE
    /\ miner = "idle"

MainActive == main.st = "active"

-----------------------------------------------------------------------------
(* The main pool. *)

(* setJob(): hashed, or rested for when the block is a Diardi block. *)
Hashed(d) == IF d THEN "rest" ELSE "main"

(* onJob() for a job of the main pool: dropped in a fee round. *)
Job(d) ==
    /\ owed' = FALSE /\ diardi' = d
    /\ miner' = IF isActive THEN miner ELSE Hashed(d)

(* onActive() with the job of the login, or before the job. *)
MainLogin ==
    /\ Main!Login
    /\ resilient' = TRUE /\ grace' = FALSE
    /\ \/ \E d \in BOOLEAN : Job(d)
       \/ owed' = TRUE /\ UNCHANGED <<diardi, miner>>
    /\ UNCHANGED feeVars

MainJob ==
    /\ MainActive
    /\ \E d \in BOOLEAN : Job(d)
    /\ UNCHANGED <<feeVars, main, resilient, grace>>

(* Mutant of Pause: the grace period is not started. *)
Pause_NoGrace == IF resilient THEN UNCHANGED <<grace, miner>> ELSE miner' = "idle" /\ UNCHANGED grace

(* onPause() when no main pool is active. *)
Pause ==
    IF resilient THEN grace' = TRUE /\ UNCHANGED miner
                 ELSE miner' = "idle" /\ UNCHANGED grace

MainLost ==
    /\ Main!Lost
    /\ owed' = FALSE
    /\ Pause
    /\ UNCHANGED <<feeVars, diardi, resilient>>

(* onConfigChanged(): stop(), which calls onPause only for a list of       *)
(* pools, then a new strategy and connect().                               *)
Reload ==
    /\ MayReload
    /\ main' = Main!Trying
    /\ owed' = FALSE
    /\ IF MainSingle THEN UNCHANGED <<grace, miner>> ELSE Pause
    /\ UNCHANGED <<feeVars, diardi, resilient>>

-----------------------------------------------------------------------------
(* The fee rounds. *)

FeeLogin ==
    /\ Activates
    /\ miner' \in {miner, "fee"}
    /\ UNCHANGED <<main, owed, diardi, resilient, grace>>

(* A job of the fee pool outside a round is dropped by DonateStrategy. *)
FeeJob ==
    /\ isActive /\ fee.st = "active"
    /\ miner' = "fee"
    /\ UNCHANGED <<feeVars, main, owed, diardi, resilient, grace>>

(* Mutant of FeeEnds: the main pool is not resumed. *)
FeeEnds_NoResume ==
    /\ Ends
    /\ IF MainActive THEN UNCHANGED <<grace, miner>> ELSE Pause
    /\ UNCHANGED <<main, owed, diardi, resilient>>

(* onPause() of the fee strategy: resume() hands over the last job of the  *)
(* main pool if that is active.                                            *)
FeeEnds ==
    /\ Ends
    /\ IF MainActive THEN miner' = Hashed(diardi) /\ UNCHANGED grace ELSE Pause
    /\ UNCHANGED <<main, owed, diardi, resilient>>

FeeQuiet ==
    /\ Begins \/ FeeLost \/ FeeOver \/ TableChanges
    /\ UNCHANGED netVars

-----------------------------------------------------------------------------
(* Mutant of Tick: the end of the grace period does not stop the miner.    *)
Tick_GoesOn(g, w) ==
    /\ g \/ w
    /\ g => grace
    /\ grace' = (grace /\ ~g)
    /\ UNCHANGED miner
    /\ IF w THEN Leaves ELSE UNCHANGED feeVars
    /\ UNCHANGED <<main, owed, diardi, resilient>>

(* tick(): g, the grace period is over; w, the fee round's WAIT is over.   *)
Tick(g, w) ==
    /\ g \/ w
    /\ g => grace
    /\ grace' = (grace /\ ~g)
    /\ miner' = IF g /\ ~MainActive THEN "idle" ELSE miner
    /\ IF w THEN Leaves ELSE UNCHANGED feeVars
    /\ UNCHANGED <<main, owed, diardi, resilient>>

Next ==
    \/ MainLogin \/ MainJob \/ MainLost \/ Reload
    \/ FeeLogin \/ FeeJob \/ FeeEnds \/ FeeQuiet
    \/ \E g, w \in BOOLEAN : Tick(g, w)

Spec == Init /\ [][Next]_vars

(* Timers fire, a stopped strategy comes to rest, and a fee pool can be    *)
(* reached; nothing is assumed of the main pool.                           *)
Fairness ==
    /\ WF_vars(Begins /\ UNCHANGED netVars)
    /\ WF_vars(FeeEnds)
    /\ WF_vars(\E g \in BOOLEAN : Tick(g, TRUE))
    /\ WF_vars(\E w \in BOOLEAN : Tick(TRUE, w))
    /\ WF_vars(FeeOver /\ UNCHANGED netVars)
    /\ WF_vars(FeeLogin)

FairSpec == Spec /\ Fairness

-----------------------------------------------------------------------------
(* No lost wake-up: when the main pool is connected, has sent a job and no *)
(* fee round is on, the miner works for the main pool, although main jobs  *)
(* are dropped in a round and the grace period may have paused the miner.  *)
MainServed ==
    MainActive /\ ~owed /\ ~isActive => miner = Hashed(diardi)

(* "mining goes on with the current job meanwhile (up to 60 s)": a job of  *)
(* the main pool is hashed only while that pool is connected or the grace  *)
(* period is running.                                                      *)
HashingIsCovered == miner = "main" => MainActive \/ grace

(* A job of the fee pool is hashed in a round, or for the rest of a grace  *)
(* period when there is no main pool to go back to, or until the job of    *)
(* the main pool that has just logged in.                                  *)
FeeIsCovered == miner = "fee" => isActive \/ grace \/ (MainActive /\ owed)

(* A main pool that stays connected gets the miner again after each round. *)
MainGetsItsTurn == <>[]MainActive => []<>(miner \in {"main", "rest"})
=============================================================================

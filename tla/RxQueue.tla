------------------------------ MODULE RxQueue -------------------------------
(***************************************************************************)
(* The thread that builds the RandomX dataset (crypto/rx/RxQueue.cpp).     *)
(* The event loop enqueues a seed, the thread builds the dataset of the    *)
(* last one enqueued and wakes the loop; workers ask for the dataset.      *)
(*                                                                         *)
(* Every section under m_mutex is one step.  Building always succeeds: a   *)
(* failed allocation leaves the queue never ready, and the miner paused.   *)
(***************************************************************************)
EXTENDS Naturals, Sequences

CONSTANTS
    Seed,       \* RxSeed: algorithm and seed hash
    NoSeed

ASSUME SeedAssumption == NoSeed \notin Seed

VARIABLES
    qstate,     \* m_state
    qseed,      \* m_seed: the seed enqueued or built last
    queue,      \* m_queue
    bg,         \* the seed the thread is building, NoSeed while it waits
    built,      \* m_storage: the seed of the finished dataset, or NoSeed
    async       \* m_async was sent and has not called back

queueVars == <<qstate, qseed, queue, bg, built, async>>

QueueTypeOK ==
    /\ qstate \in {"IDLE", "PENDING"}
    /\ qseed \in Seed \cup {NoSeed}
    /\ queue \in Seq(Seed)
    /\ bg \in Seed \cup {NoSeed} /\ built \in Seed \cup {NoSeed}
    /\ async \in BOOLEAN

QueueInit ==
    /\ qstate = "IDLE" /\ qseed = NoSeed /\ queue = <<>>
    /\ bg = NoSeed /\ built = NoSeed
    /\ async = FALSE

(* isReadyUnsafe(): after the first dataset the storage stays allocated. *)
isReady(s) == s # NoSeed /\ qstate = "IDLE" /\ qseed = s

(* dataset(): the storage compares its own seed as well. *)
dataset(s) == isReady(s) /\ built = s

(* Mutant of enqueue: the state is left to the thread. *)
enqueue_StaysIdle(s) ==
    /\ queue' = Append(queue, s) /\ qseed' = s
    /\ qstate' = IF bg = NoSeed THEN qstate ELSE "PENDING"
    /\ UNCHANGED <<bg, built, async>>

enqueue(s) ==
    /\ IF qstate = "PENDING" /\ qseed = s
       THEN UNCHANGED <<qstate, qseed, queue>>
       ELSE qstate' = "PENDING" /\ qseed' = s /\ queue' = Append(queue, s)
    /\ UNCHANGED <<bg, built, async>>

(* backgroundInit() up to the unlock: the newest item is taken. *)
Takes ==
    /\ bg = NoSeed /\ qstate = "PENDING"
    /\ bg' = queue[Len(queue)] /\ queue' = <<>>
    /\ built' = NoSeed
    /\ UNCHANGED <<qstate, qseed, async>>

(* Mutants of Builds: the loop is not woken; the state stays pending.      *)
Builds_Silent ==
    /\ bg # NoSeed
    /\ built' = bg /\ bg' = NoSeed
    /\ IF queue # <<>> THEN UNCHANGED <<qstate, qseed>> ELSE qstate' = "IDLE" /\ qseed' = bg
    /\ UNCHANGED <<queue, async>>

Builds_StaysPending ==
    /\ bg # NoSeed
    /\ built' = bg /\ bg' = NoSeed
    /\ qseed' = bg /\ async' = TRUE
    /\ UNCHANGED <<queue, qstate>>

(* backgroundInit() after init(): on to the next item, or ready. *)
Builds ==
    /\ bg # NoSeed
    /\ built' = bg /\ bg' = NoSeed
    /\ IF queue # <<>>
       THEN UNCHANGED <<qstate, qseed, async>>
       ELSE qstate' = "IDLE" /\ qseed' = bg /\ async' = TRUE
    /\ UNCHANGED queue

-----------------------------------------------------------------------------
(* isReady() looks at the seed of the queue, which changes before the      *)
(* dataset does: whenever it says yes the finished dataset is that seed's. *)
ReadyIsBuilt == \A s \in Seed : isReady(s) => built = s

(* m_queue.back() is never called on an empty queue (backgroundInit),      *)
(* although enqueue() may return without adding anything.                  *)
NeverTakesNothing == qstate = "PENDING" /\ bg = NoSeed => queue # <<>>
=============================================================================

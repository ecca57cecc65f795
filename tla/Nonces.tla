------------------------------- MODULE Nonces -------------------------------
(***************************************************************************)
(* Who hashes which nonces: Nonce::next, the reset that Miner::setJob      *)
(* decides on, and WorkerJob, which keeps a user job and a fee job side by *)
(* side.  CPU and GPU workers reserve blocks of different sizes from the   *)
(* same two counters.                                                      *)
(*                                                                         *)
(* Handlers of the event loop are lists of shared writes, as in Mining.    *)
(* The dataset is ready or being built; what a worker does inside a block  *)
(* changes nothing here.                                                   *)
(***************************************************************************)
EXTENDS Integers, Sequences

CONSTANTS
    Worker,
    Reserve,    \* nonces a worker reserves at once
    Mask,       \* the largest nonce, 2^k - 1
    Word,       \* 2^32: only the low word of a nonce is counted up
    MaxJobs     \* bound on the jobs

ASSUME NonceAssumption ==
    /\ Mask \in Nat /\ Word \in Nat \ {0} /\ MaxJobs \in Nat
    /\ Mask < Word \/ (Mask + 1) % Word = 0      \* Job::nonceMask()
    /\ Reserve \in [Worker -> 1 .. Word]

VARIABLES
    counter,    \* Nonce::m_nonces, for user jobs (0) and fee jobs (1)
    paused,     \* Nonce::m_paused
    job,        \* d_ptr->job
    reset,      \* d_ptr->reset
    userId,     \* d_ptr->userJobId
    ready, async,  \* the dataset of the job; its callback is on the way
    todo, incoming,
    latest,     \* the last user job of the pool
    jobs,       \* jobs sent so far
    w,
    told,       \* not the program: handleJobChange() was done since the job was stored;
    again,      \* blobs whose nonces the miner starts again, see UniqueNonces;
    given,      \* nonces of the other blobs that were handed out;
    twice       \* one of these was handed out a second time

minerVars == <<job, reset, userId, incoming, latest, jobs>>
ghosts    == <<told, again, given, twice>>
vars == <<counter, paused, minerVars, ready, async, todo, w, ghosts>>

(* A job: id and target (no), hashing blob, user or fee. *)
Job   == [no : 0 .. MaxJobs, blob : 0 .. MaxJobs, index : {0, 1}]
NoJob == [no |-> 0, blob |-> 0, index |-> 0]
Op    == {"pause", "run", "touch", "store", "reset"}

WorkerRecord ==
    [ pc    : {"idle", "take", "add", "work"},
      next  : Job,                      \* the job copied in consumeJob()
      index : {0, 1},                   \* m_index
      job   : [{0, 1} -> Job],          \* m_jobs
      fresh : BOOLEAN ]                 \* m_sequence is the current one

TypeOK ==
    /\ counter \in [{0, 1} -> 0 .. Mask + 1]
    /\ paused \in BOOLEAN /\ ready \in BOOLEAN /\ async \in BOOLEAN
    /\ job \in Job /\ incoming \in Job /\ latest \in Job
    /\ reset \in BOOLEAN /\ userId \in 0 .. MaxJobs /\ jobs \in 0 .. MaxJobs
    /\ todo \in Seq(Op)
    /\ w \in [Worker -> WorkerRecord]
    /\ told \in BOOLEAN /\ again \subseteq 0 .. MaxJobs
    /\ given \subseteq (0 .. MaxJobs) \X (0 .. Mask) /\ twice \in BOOLEAN

Init ==
    /\ counter = [x \in {0, 1} |-> 0]
    /\ paused = TRUE
    /\ job = NoJob /\ incoming = NoJob /\ latest = NoJob /\ reset = TRUE /\ userId = 0 /\ jobs = 0
    /\ ready = TRUE /\ async = FALSE
    /\ todo = <<>>
    /\ w = [i \in Worker |->
              [pc |-> "idle", next |-> NoJob, index |-> 0, job |-> [x \in {0, 1} |-> NoJob],
               fresh |-> FALSE]]
    /\ told = FALSE /\ again = {} /\ given = {} /\ twice = FALSE

-----------------------------------------------------------------------------
(* Nonce::next: the counter c, a block of r nonces. *)

Capped(c) == IF c > Mask THEN Mask + 1 ELSE c

(* Mutant of Crosses: off by one. *)
Crosses_OffByOne(c, r) == Word - (c % Word) < r - 1

(* A block is not longer than the nonce space; next() fails at once if so. *)
Offers(r) == Mask >= r - 1

(* The low word of the nonces would overflow inside the block. *)
Crosses(c, r) == Mask - c > r - 1 /\ Word - 1 - (c % Word) < r - 1

(* How many fetch_add are skipped, and where the one that is not begins. *)
Skipped(c, r) == CHOOSE k \in 0 .. Mask + 1 :
                    /\ c + k * r > Mask \/ ~Crosses(c + k * r, r)
                    /\ \A j \in 0 .. k - 1 : Crosses(c + j * r, r)

Fetched(c, r) == c + Skipped(c, r) * r

(* Mutant of Enough: the comparison of the last block is too generous. *)
Enough_OffByOne(d, r) == d <= Mask /\ Mask - d >= r - 2

Enough(d, r) == d <= Mask /\ Mask - d >= r - 1

(* The last block, or what is too short for one, pauses all workers. *)
Pauses(d, r) == d <= Mask /\ Mask - d <= r - 1

-----------------------------------------------------------------------------
(* The event loop. *)

(* The nonces of blob b will start again: those that were given are given  *)
(* a second time.                                                          *)
StartsAgain(b) ==
    /\ again' = again \cup {p[1] : p \in {q \in given : q[1] = b}}
    /\ given' = {p \in given : p[1] # b}

(* Miner::setJob() up to its lock; rebuild: the seed is a new one. *)
SetJob(j, rebuild) ==
    /\ todo = <<>>
    /\ incoming' = j
    /\ ready' = (ready /\ ~rebuild)
    /\ todo' = IF ready' THEN <<"store">> ELSE <<"pause", "touch", "store">>
    /\ UNCHANGED <<counter, paused, job, reset, userId, async, w, ghosts>>

(* A new job of the pool or of the fee pool. *)
NewJob(index) ==
    /\ jobs < MaxJobs
    /\ jobs' = jobs + 1
    /\ LET j == [no |-> jobs + 1, blob |-> jobs + 1, index |-> index]
       IN  /\ latest' = IF index = 0 THEN j ELSE latest
           /\ \E rebuild \in BOOLEAN : SetJob(j, rebuild)

(* The pool sends its last blob again with another id and target.  In a    *)
(* fee round Network does not pass it on: the round ends with another id.  *)
Retarget ==
    /\ todo = <<>> /\ jobs < MaxJobs /\ latest # NoJob
    /\ jobs' = jobs + 1
    /\ latest' = [latest EXCEPT !.no = jobs + 1]
    /\ IF job.index = 0
       THEN SetJob(latest', FALSE)
       ELSE /\ StartsAgain(latest.blob)
            /\ UNCHANGED <<counter, paused, job, reset, userId, incoming, ready, async, todo, w,
                           told, twice>>

(* The fee round ends: the last user job is set again. *)
FeeEnds ==
    /\ job.index = 1 /\ latest # NoJob
    /\ UNCHANGED <<jobs, latest>>
    /\ \E rebuild \in BOOLEAN : SetJob(latest, rebuild)

(* RxQueue: the dataset is built, between two handlers of the event loop;  *)
(* its callback comes later.                                               *)
Built ==
    /\ ~ready /\ todo = <<>>
    /\ ready' = TRUE /\ async' = TRUE
    /\ UNCHANGED <<counter, paused, minerVars, todo, w, ghosts>>

(* handleJobChange() of an active and enabled miner. *)
handleJobChange(r) == IF r THEN <<"reset", "touch", "run">> ELSE <<"touch", "run">>

OnDatasetReady ==
    /\ todo = <<>> /\ async
    /\ async' = FALSE
    /\ todo' = IF ready THEN handleJobChange(reset) ELSE <<>>
    /\ IF ready /\ reset /\ told THEN StartsAgain(job.blob) ELSE UNCHANGED <<again, given>>
    /\ UNCHANGED <<counter, paused, minerVars, ready, w, told, twice>>

(* Mutants of Resets: the blob is not compared; the id of the user job is  *)
(* not looked at.                                                          *)
Resets_SameBlob(j) ==
    \/ ~(job.index = 1 /\ j.index = 0 /\ userId = j.no)
    \/ ~ready /\ job.index = j.index

Resets_AfterFee(j) == job.blob # j.blob \/ (~ready /\ job.index = j.index)

(* setJob() under the lock: do the nonces start again? *)
Resets(j) ==
    \/ /\ ~(job.index = 1 /\ j.index = 0 /\ userId = j.no)
       /\ job.blob # j.blob
    \/ ~ready /\ job.index = j.index

(* The blob in work comes again while its dataset is being built. *)
SameUnready(j) == ~ready /\ job.index = j.index /\ job.blob = j.blob

Do(op) == todo # <<>> /\ Head(todo) = op

Store ==
    /\ Do("store")
    /\ job' = incoming
    /\ reset' = Resets(incoming)
    /\ userId' = IF incoming.index = 0 THEN incoming.no ELSE userId
    /\ todo' = IF ready THEN handleJobChange(reset') ELSE <<>>
    /\ incoming' = NoJob
    /\ told' = FALSE
    /\ IF SameUnready(incoming) THEN StartsAgain(incoming.blob)
       ELSE /\ again' = again \cap {incoming.blob, latest.blob}
            /\ given' = {p \in given : p[1] \in {incoming.blob, latest.blob}}
    /\ UNCHANGED <<counter, paused, latest, jobs, ready, async, w, twice>>

Touched == [i \in Worker |-> [w[i] EXCEPT !.fresh = FALSE]]

Writes ==
    /\ \/ Do("pause") /\ paused' = TRUE /\ UNCHANGED <<w, counter>>
       \/ Do("run") /\ paused' = FALSE /\ UNCHANGED <<w, counter>>
       \/ Do("touch") /\ w' = Touched /\ UNCHANGED <<paused, counter>>
       \/ Do("reset") /\ counter' = [counter EXCEPT ![job.index] = 0] /\ UNCHANGED <<paused, w>>
    /\ todo' = Tail(todo)
    /\ told' = (told \/ Do("run"))
    /\ UNCHANGED <<minerVars, ready, async, given, twice, again>>

-----------------------------------------------------------------------------
(* The workers. *)
Goes(i, r) == w' = [w EXCEPT ![i] = r] /\ UNCHANGED <<minerVars, ready, async, todo, told, again>>

Keeps == UNCHANGED <<counter, paused, given, twice>>

(* The workers know of the miner's job. *)
Announced == todo = <<>> /\ told

(* Worker i, which becomes r, takes its next block for job j. *)
Reserves(i, r, j, whenNone) ==
    LET x == j.index
        d == Fetched(counter[x], Reserve[i])
        s == {j.blob} \X (d .. d + Reserve[i] - 1)
    IN  /\ counter' = IF Offers(Reserve[i]) THEN [counter EXCEPT ![x] = Capped(d + Reserve[i])]
                      ELSE counter
        /\ paused' = (paused \/ (Offers(Reserve[i]) /\ Pauses(d, Reserve[i])))
        /\ Goes(i, [r EXCEPT !.pc = IF Enough(d, Reserve[i]) THEN "work" ELSE whenNone])
        /\ IF Enough(d, Reserve[i]) /\ j.blob = job.blob /\ Announced /\ j.blob \notin again
           THEN given' = given \cup s /\ twice' = (twice \/ given \cap s # {})
           ELSE UNCHANGED <<given, twice>>

(* CpuWorker::start: a pause ends, or the sequence number has changed. *)
Wakes(i) == w[i].pc = "idle" /\ ~paused /\ Goes(i, [w[i] EXCEPT !.pc = "take"]) /\ Keeps

Notices(i) ==
    /\ w[i].pc = "work" /\ ~w[i].fresh
    /\ Goes(i, [w[i] EXCEPT !.pc = IF paused THEN "idle" ELSE "take"]) /\ Keeps

(* consumeJob() copies the job under the lock. *)
Take(i) == w[i].pc = "take" /\ Goes(i, [w[i] EXCEPT !.pc = "add", !.next = job]) /\ Keeps

(* WorkerJob::add(): the job in work, or the user job of before the fee. *)
Known(r, j) == r.job[r.index] = j \/ (r.index = 1 /\ j.index = 0 /\ j = r.job[0])

(* WorkerJob::add() and save(), which ignores the result of next(). *)
Add(i) ==
    LET j == w[i].next
        r == [w[i] EXCEPT !.fresh = TRUE, !.index = j.index, !.next = NoJob]
    IN  /\ w[i].pc = "add"
        /\ IF Known(w[i], j)
           THEN Goes(i, [r EXCEPT !.pc = "work"]) /\ Keeps
           ELSE Reserves(i, [r EXCEPT !.job[j.index] = j], j, "work")

(* nextRound() at the end of a block; without another one, done(). *)
NextBlock(i) ==
    /\ w[i].pc = "work" /\ w[i].fresh
    /\ Reserves(i, w[i], w[i].job[w[i].index], "idle")

Next ==
    \/ NewJob(0) \/ NewJob(1) \/ Retarget \/ FeeEnds
    \/ Built \/ OnDatasetReady \/ Store \/ Writes
    \/ \E i \in Worker : Wakes(i) \/ Notices(i) \/ Take(i) \/ Add(i) \/ NextBlock(i)

Spec == Init /\ [][Next]_vars
-----------------------------------------------------------------------------
(* No nonce of the job of the miner is hashed twice: not by two workers,   *)
(* not after a fee round, not after the job came again with another target *)
(* (Miner::setJob, WorkerJob::add).  The exceptions are the blobs whose    *)
(* counter the miner resets though nonces of theirs are in work:           *)
(*  - the pool sends the blob with another id in a fee round (Retarget):   *)
(*    neither check of setJob() keeps the counter when the round ends;     *)
(*  - it sends the blob again while its dataset is being built, and        *)
(*    setJob() resets for "RandomX dataset change" (Store, Miner.cpp:624); *)
(*  - a job is set between the end of a dataset and its callback, which    *)
(*    resets for it a second time (OnDatasetReady, Miner.cpp:781).         *)
UniqueNonces == ~twice

(* The next block of a worker lies inside the nonce space and its low word *)
(* does not wrap, wherever workers with other sizes have left the counter  *)
(* (Nonce::next).                                                          *)
BlocksFit ==
    \A i \in Worker : \A x \in {0, 1} :
       LET d    == Fetched(counter[x], Reserve[i])
           last == d + Reserve[i] - 1
       IN  Enough(d, Reserve[i]) => last <= Mask /\ last \div Word = d \div Word
=============================================================================

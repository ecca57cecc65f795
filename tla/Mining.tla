------------------------------- MODULE Mining -------------------------------
(***************************************************************************)
(* The miner and its threads: Miner.cpp on the event loop, the counters of *)
(* Nonce that carry pause and job changes to the workers, CpuWorker.cpp on *)
(* each thread, and the dataset queue, for RandomX jobs.                   *)
(*                                                                         *)
(* A handler of the event loop is interleaved with the threads, so it is   *)
(* the list of its writes to shared memory (todo), done one by one.  The   *)
(* loads of the atomics are relaxed in the code; they are taken in program *)
(* order, as an x86 processor does them.                                   *)
(*                                                                         *)
(* Left out: the nonces (Nonce::next, reset), what is hashed and found,    *)
(* pauses by battery and by user activity (setEnabled by hand stands for   *)
(* them), failing self-tests.                                              *)
(***************************************************************************)
EXTENDS RxQueue

CONSTANTS
    Worker,     \* the threads
    Algo,       \* the algorithm of a seed
    MaxInputs   \* bound on the calls of the miner

ASSUME MiningAssumption == MaxInputs \in Nat /\ Worker # {}

VARIABLES
    job,        \* d_ptr->job: number and seed
    incoming,   \* the argument of setJob() under way
    active, enabled,
    todo,       \* what the handler under way still does, <<>> when the loop is free
    inputs,     \* calls so far
    paused,     \* Nonce::m_paused
    seq,        \* Nonce::m_sequence
    threads,    \* the backend's threads exist
    w           \* the workers

minerVars == <<job, incoming, active, enabled, todo, inputs>>
vars == <<queueVars, minerVars, paused, seq, threads, w>>

Job   == [no : 0 .. MaxInputs, seed : Seed \cup {NoSeed}]
NoJob == [no |-> 0, seed |-> NoSeed]

Op == {"pause", "run", "touch", "zero", "join", "store", "enqueue", "start"}

(* pc: top, sleep, loop, end - the places of CpuWorker::start; hash - in   *)
(* the body of its loop; take, mark, vm - in consumeJob(), which goes back *)
(* to top or loop.                                                         *)
WorkerRecord ==
    [ pc   : {"gone", "top", "sleep", "take", "mark", "vm", "loop", "hash", "end"},
      back : {"top", "loop"},
      job  : Job,       \* m_job.currentJob()
      seq  : Nat ]      \* m_job.sequence()

NewWorker == [pc |-> "top", back |-> "top", job |-> NoJob, seq |-> 0]

TypeOK ==
    /\ QueueTypeOK
    /\ job \in Job /\ incoming \in Job
    /\ active \in BOOLEAN /\ enabled \in BOOLEAN /\ threads \in BOOLEAN /\ paused \in BOOLEAN
    /\ todo \in Seq(Op)
    /\ inputs \in 0 .. MaxInputs /\ seq \in Nat
    /\ w \in [Worker -> WorkerRecord]
    /\ threads \/ \A i \in Worker : w[i].pc = "gone"

Init ==
    /\ QueueInit
    /\ job = NoJob /\ incoming = NoJob
    /\ active = FALSE /\ enabled = TRUE
    /\ todo = <<>> /\ inputs = 0
    /\ paused = TRUE /\ seq = 1
    /\ threads = FALSE
    /\ w = [i \in Worker |-> [NewWorker EXCEPT !.pc = "gone"]]

-----------------------------------------------------------------------------
(* Calls of the miner, while the loop is free. *)
Call(ops) ==
    /\ todo = <<>> /\ inputs < MaxInputs
    /\ inputs' = inputs + 1 /\ todo' = ops
    /\ UNCHANGED <<queueVars, job, paused, seq, threads, w>>

(* stop(): Nonce::stop() and the threads of the backends joined. *)
Halt == <<"run", "zero", "join">>

(* setJob() up to its lock. *)
Prepare(s) ==
    IF job = NoJob \/ Algo[job.seed] # Algo[s] THEN Halt
    ELSE IF isReady(s) THEN <<>> ELSE <<"pause", "touch">>

SetJob(s) ==
    /\ Call(Prepare(s) \o <<"store">>)
    /\ incoming' = [no |-> inputs + 1, seed |-> s]
    /\ UNCHANGED <<active, enabled>>

(* Mutant of Pause: the sequence is not touched. *)
Pause_NoTouch ==
    /\ Call(<<"pause">>)
    /\ active' = FALSE
    /\ UNCHANGED <<incoming, enabled>>

Pause ==
    /\ Call(<<"pause", "touch">>)
    /\ active' = FALSE
    /\ UNCHANGED <<incoming, enabled>>

SetEnabled(e) ==
    /\ enabled # e
    /\ Call(IF active THEN <<IF e THEN "run" ELSE "pause", "touch">> ELSE <<>>)
    /\ enabled' = e
    /\ UNCHANGED <<incoming, active>>

Stop == Call(Halt) /\ UNCHANGED <<incoming, active, enabled>>

(* handleJobChange(): the backend starts its threads if it has none. *)
handleJobChange(act) ==
    (IF enabled THEN <<>> ELSE <<"pause">>)
    \o (IF threads THEN <<>> ELSE <<"start">>)
    \o <<"touch">>
    \o (IF act /\ enabled THEN <<"run">> ELSE <<>>)

(* RxQueue::onReady and Miner::onDatasetReady, when the async handle fires. *)
OnDatasetReady ==
    /\ todo = <<>> /\ async
    /\ async' = FALSE
    /\ todo' = IF isReady(job.seed) THEN handleJobChange(active) ELSE <<>>
    /\ UNCHANGED <<qstate, qseed, queue, bg, built, job, incoming, active, enabled, inputs>>
    /\ UNCHANGED <<paused, seq, threads, w>>

-----------------------------------------------------------------------------
(* The writes of a handler. *)
Do(op) == todo # <<>> /\ Head(todo) = op

Counters ==
    /\ \/ Do("pause") /\ paused' = TRUE /\ UNCHANGED seq
       \/ Do("run") /\ paused' = FALSE /\ UNCHANGED seq
       \/ Do("touch") /\ seq' = seq + 1 /\ UNCHANGED paused
       \/ Do("zero") /\ seq' = 0 /\ UNCHANGED paused
    /\ todo' = Tail(todo)
    /\ UNCHANGED <<queueVars, job, incoming, active, enabled, inputs, threads, w>>

(* Mutant of Join: does not wait for the threads.                          *)
Join_Detaches ==
    /\ Do("join")
    /\ threads' = FALSE
    /\ seq' = IF threads THEN seq + 1 ELSE seq
    /\ todo' = Tail(todo)
    /\ UNCHANGED <<queueVars, job, incoming, active, enabled, inputs, paused, w>>

(* Workers::stop(): the threads end, then the sequence is touched. *)
Join ==
    /\ Do("join")
    /\ threads => \A i \in Worker : w[i].pc = "gone"
    /\ threads' = FALSE
    /\ seq' = IF threads THEN seq + 1 ELSE seq
    /\ todo' = Tail(todo)
    /\ UNCHANGED <<queueVars, job, incoming, active, enabled, inputs, paused, w>>

(* setJob() under the lock, with initRX(). *)
Store ==
    /\ Do("store")
    /\ job' = incoming /\ active' = TRUE
    /\ todo' = IF isReady(incoming.seed) THEN handleJobChange(TRUE) ELSE <<"enqueue">>
    /\ UNCHANGED <<queueVars, incoming, enabled, inputs, paused, seq, threads, w>>

Enqueue ==
    /\ Do("enqueue")
    /\ enqueue(job.seed)
    /\ todo' = Tail(todo)
    /\ UNCHANGED <<job, incoming, active, enabled, inputs, paused, seq, threads, w>>

Start ==
    /\ Do("start")
    /\ threads' = TRUE /\ seq' = seq + 1
    /\ w' = [i \in Worker |-> NewWorker]
    /\ todo' = Tail(todo)
    /\ UNCHANGED <<queueVars, job, incoming, active, enabled, inputs, paused>>

-----------------------------------------------------------------------------
(* The workers. *)
At(i, pc) == w[i].pc = pc

Goes(i, r) == w' = [w EXCEPT ![i] = r] /\ UNCHANGED <<queueVars, minerVars, paused, seq, threads>>

To(i, pc) == [w[i] EXCEPT !.pc = pc]

Consume(i, back) == [w[i] EXCEPT !.pc = "take", !.back = back]

Top(i) ==
    At(i, "top") /\ Goes(i, To(i, CASE seq = 0 -> "gone" [] seq # 0 /\ paused -> "sleep"
                                    [] OTHER -> "loop"))

Wakes(i) ==
    /\ At(i, "sleep") /\ (seq = 0 \/ ~paused)
    /\ Goes(i, IF seq = 0 THEN To(i, "gone") ELSE Consume(i, "loop"))

(* consumeJob(): job() waits for the lock that setJob() holds. *)
Take(i) ==
    /\ At(i, "take")
    /\ seq # 0 => ~Do("enqueue")
    /\ Goes(i, IF seq = 0 THEN To(i, w[i].back) ELSE [To(i, "mark") EXCEPT !.job = job])

(* WorkerJob::add() reads the sequence after the job was copied. *)
Mark(i) == At(i, "mark") /\ Goes(i, [To(i, "vm") EXCEPT !.seq = seq])

(* Mutant of Vm: the wait for the dataset is not interrupted. *)
Vm_Waits(i) == At(i, "vm") /\ dataset(w[i].job.seed) /\ Goes(i, To(i, w[i].back))

(* allocateRandomX_VM(): waits for the dataset of its job, or for the end. *)
Vm(i) ==
    /\ At(i, "vm")
    /\ dataset(w[i].job.seed) \/ seq = 0
    /\ Goes(i, To(i, w[i].back))

(* isOutdated(), and the check of l3(), which a thread without a job fails. *)
Loop(i) ==
    /\ At(i, "loop")
    /\ Goes(i, To(i, IF seq = w[i].seq /\ w[i].job # NoJob THEN "hash" ELSE "end"))

Hash(i) == At(i, "hash") /\ Goes(i, To(i, "loop"))

End(i) == At(i, "end") /\ Goes(i, IF paused THEN To(i, "top") ELSE Consume(i, "top"))

Works(i) ==
    \/ Top(i) \/ Wakes(i) \/ Take(i) \/ Mark(i) \/ Vm(i) \/ Loop(i) \/ Hash(i) \/ End(i)

Loops == Counters \/ Join \/ Store \/ Enqueue \/ Start \/ OnDatasetReady

Dataset == (Takes \/ Builds) /\ UNCHANGED <<minerVars, paused, seq, threads, w>>

Next ==
    \/ \E s \in Seed : SetJob(s)
    \/ Pause \/ \E e \in BOOLEAN : SetEnabled(e)
    \/ Stop
    \/ Loops \/ Dataset
    \/ \E i \in Worker : Works(i)

Spec == Init /\ [][Next]_vars

(* Threads and the event loop are scheduled; nobody has to call the miner. *)
FairSpec ==
    Spec /\ WF_vars(Loops) /\ WF_vars(Dataset) /\ \A i \in Worker : WF_vars(Works(i))

-----------------------------------------------------------------------------
(* A thread that takes a job after a rest while stop() sets the sequence   *)
(* number to 0 reads that 0 as the number of its job (WorkerJob::add).     *)
CaughtByStop(i) ==
    w[i].back = "loop" /\ (At(i, "mark") \/ (w[i].seq = 0 /\ w[i].job # NoJob))

(* Workers::stop() returns: it joins threads that may be asleep, hashing,  *)
(* or waiting for a dataset that is never built.  The exception are        *)
(* threads caught as above: number 0 is never outdated in a stopped miner. *)
StopEnds ==
    (Do("join") /\ ~ \E i \in Worker : CaughtByStop(i)) ~> (todo = <<>>)

(* No lost wake-up: a miner that is active and enabled is not left paused, *)
(* and has the dataset of its job, however the seeds came and the async    *)
(* calls were merged (Miner::setJob, onDatasetReady).                      *)
MinerResumes ==
    <>[](active /\ enabled) => <>[](~paused /\ isReady(job.seed))

(* Thread i has seen the pause end and has not read the sequence number. *)
Waking(i) == w[i].back = "loop" /\ w[i].pc \in {"take", "mark"}

(* A miner that is paused for good comes to rest (Miner::pause): no thread *)
(* hashes for ever, however often it was paused and resumed before.  The   *)
(* exception are threads that were waking up when the last pause began:    *)
(* they check nothing but the sequence number, which they may read after   *)
(* the pause has touched it, and hash until the next change.  README.md of *)
(* the program, line 183, says "While it rests the hashrate shown by the   *)
(* miner is 0", which such a thread contradicts.                           *)
RestIsRest ==
    \A i \in Worker :
        <>[](paused /\ todo = <<>>)
            => <>[]~At(i, "hash") \/ <>([]paused /\ Waking(i))
=============================================================================

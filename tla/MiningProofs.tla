---------------------------- MODULE MiningProofs ----------------------------
(***************************************************************************)
(* The dataset queue under the calls the miner really makes, and what the  *)
(* miner's flags make of its threads, for any seeds and any threads.       *)
(***************************************************************************)
EXTENDS Mining, SequenceTheorems, TLAPS

(* Operations a handler leaves for later that touch neither the job nor    *)
(* the queue.                                                              *)
Plain == Op \ {"store", "enqueue"}

Pending(op) == \E k \in 1 .. Len(todo) : todo[k] = op

(* What is still to be stored or enqueued is a seed. *)
SeedsKnown ==
    /\ todo \in Seq(Op)
    /\ Pending("store") => incoming.seed \in Seed
    /\ Pending("enqueue") => job.seed \in Seed

(* The thread works only while the state is pending. *)
IdleIsBuilt == qstate = "IDLE" => bg = NoSeed /\ built = qseed

QueueInv == QueueTypeOK /\ SeedsKnown /\ IdleIsBuilt /\ NeverTakesNothing

-----------------------------------------------------------------------------
(* The calls and handlers of the miner leave plain operations behind. *)
LEMMA PlainCalls ==
    /\ <<>> \in Seq(Plain)
    /\ Halt \in Seq(Plain)
    /\ <<"pause", "touch">> \in Seq(Plain) /\ <<"run", "touch">> \in Seq(Plain)
  BY DEF Plain, Op, Halt

(* The operations handleJobChange() leaves for later. *)
LEMMA ChangeIn ==
    ASSUME NEW STATE act, NEW S, {"start", "touch"} \subseteq S,
           ~enabled => "pause" \in S, act /\ enabled => "run" \in S
    PROVE  handleJobChange(act) \in Seq(S)
<1> DEFINE a == IF enabled THEN <<>> ELSE <<"pause">>
           b == IF threads THEN <<>> ELSE <<"start">>
           c == <<"touch">>
           d == IF act /\ enabled THEN <<"run">> ELSE <<>>
<1>1. a \in Seq(S) /\ b \in Seq(S) /\ c \in Seq(S) /\ d \in Seq(S)
  <2>1. <<>> \in Seq(S) /\ <<"start">> \in Seq(S) /\ <<"touch">> \in Seq(S)
    OBVIOUS
  <2>2. a = <<>> \/ (a = <<"pause">> /\ "pause" \in S)
    BY Zenon
  <2>6. a \in Seq(S)
    <3>1. "pause" \in S => <<"pause">> \in Seq(S)
      OBVIOUS
    <3> HIDE DEF a
    <3> QED BY <2>1, <2>2, <3>1, Zenon
  <2>3. b = <<>> \/ b = <<"start">>
    BY Zenon
  <2>4. d = <<>> \/ (d = <<"run">> /\ "run" \in S)
    BY Zenon
  <2>5. d \in Seq(S)
    <3>1. "run" \in S => <<"run">> \in Seq(S)
      OBVIOUS
    <3> HIDE DEF d
    <3> QED BY <2>1, <2>4, <3>1, Zenon
  <2> HIDE DEF a, b, d
  <2> QED BY <2>1, <2>3, <2>5, <2>6
<1>2. handleJobChange(act) = ((a \o b) \o c) \o d
  BY DEF handleJobChange
<1> HIDE DEF a, b, c, d
<1>3. a \o b \in Seq(S)
  BY <1>1, ConcatProperties
<1>4. (a \o b) \o c \in Seq(S)
  BY <1>1, <1>3, ConcatProperties
<1>5. ((a \o b) \o c) \o d \in Seq(S)
  BY <1>1, <1>4, ConcatProperties
<1> QED BY <1>2, <1>5

(* handleJobChange() neither stores a job nor enqueues a seed. *)
LEMMA PlainChange ==
    ASSUME NEW STATE act PROVE handleJobChange(act) \in Seq(Plain)
<1>1. {"start", "touch"} \subseteq Plain /\ "pause" \in Plain /\ "run" \in Plain
  BY DEF Plain, Op
<1> QED BY <1>1, ChangeIn

(* A plain list owes no job and no seed. *)
LEMMA PlainIsKnown ==
    ASSUME todo' \in Seq(Plain) PROVE SeedsKnown'
<1>1. todo' \in Seq(Op)
  BY DEF Plain
<1>2. \A k \in 1 .. Len(todo') : todo'[k] \in Plain
  OBVIOUS
<1> QED BY <1>1, <1>2 DEF SeedsKnown, Pending, Plain

(* What is left of a list is owed as before, if the jobs stay. *)
LEMMA TailIsKnown ==
    ASSUME SeedsKnown, todo # <<>>, todo' = Tail(todo), UNCHANGED <<job, incoming>>
    PROVE  SeedsKnown'
<1>1. todo \in Seq(Op)
  BY DEF SeedsKnown
<1>2. /\ todo' \in Seq(Op)
      /\ \A k \in 1 .. Len(todo') : k + 1 \in 1 .. Len(todo) /\ todo'[k] = todo[k + 1]
  BY <1>1, HeadTailProperties
<1>3. ASSUME NEW op, Pending(op)' PROVE Pending(op)
  BY <1>2, <1>3 DEF Pending
<1> QED BY <1>2, <1>3 DEF SeedsKnown

-----------------------------------------------------------------------------
(* The steps of the queue, while the state of the miner stays. *)
LEMMA QueueSteps ==
    ASSUME QueueTypeOK, IdleIsBuilt, NeverTakesNothing,
           \/ Takes \/ Builds
           \/ \E s \in Seed : enqueue(s)
    PROVE  QueueTypeOK' /\ IdleIsBuilt' /\ NeverTakesNothing'
<1>1. CASE Takes
  <2>1. queue # <<>> /\ queue[Len(queue)] \in Seed
    BY <1>1 DEF Takes, NeverTakesNothing, QueueTypeOK
  <2>2. bg' \in Seed /\ bg' # NoSeed /\ qstate' = "PENDING" /\ queue' \in Seq(Seed)
    BY <1>1, <2>1, SeedAssumption DEF Takes
  <2> QED BY <1>1, <2>2 DEF Takes, QueueTypeOK, IdleIsBuilt, NeverTakesNothing
<1>2. CASE Builds
  <2>1. CASE queue # <<>>
    BY <1>2, <2>1 DEF Builds, QueueTypeOK, IdleIsBuilt, NeverTakesNothing
  <2>2. CASE queue = <<>>
    BY <1>2, <2>2 DEF Builds, QueueTypeOK, IdleIsBuilt, NeverTakesNothing
  <2> QED BY <2>1, <2>2
<1>3. ASSUME NEW s \in Seed, enqueue(s)
      PROVE  QueueTypeOK' /\ IdleIsBuilt' /\ NeverTakesNothing'
  <2>1. CASE qstate = "PENDING" /\ qseed = s
    BY <1>3, <2>1 DEF enqueue, QueueTypeOK, IdleIsBuilt, NeverTakesNothing
  <2>2. CASE ~(qstate = "PENDING" /\ qseed = s)
    <3>1. Append(queue, s) \in Seq(Seed) /\ Append(queue, s) # <<>>
      BY AppendProperties DEF QueueTypeOK
    <3> QED BY <1>3, <2>2, <3>1 DEF enqueue, QueueTypeOK, IdleIsBuilt, NeverTakesNothing
  <2> QED BY <2>1, <2>2
<1> QED BY <1>1, <1>2, <1>3

(* Nothing else changes the queue. *)
LEMMA QueueStays ==
    ASSUME QueueTypeOK, IdleIsBuilt, NeverTakesNothing,
           UNCHANGED <<qstate, qseed, queue, bg, built>>, async' \in BOOLEAN
    PROVE  QueueTypeOK' /\ IdleIsBuilt' /\ NeverTakesNothing'
  BY DEF QueueTypeOK, IdleIsBuilt, NeverTakesNothing

-----------------------------------------------------------------------------
(* Every step keeps the invariant. *)
LEMMA NextQueueInv ==
    ASSUME QueueInv, [Next]_vars PROVE QueueInv'
<1> USE DEF QueueInv
<1>0. async \in BOOLEAN
  BY DEF QueueTypeOK
<1>1. ASSUME NEW s \in Seed, SetJob(s) PROVE QueueInv'
  <2>1. Prepare(s) \in Seq(Plain)
    BY PlainCalls DEF Prepare
  <2>2. /\ todo' = Prepare(s) \o <<"store">> /\ incoming'.seed = s /\ UNCHANGED queueVars
    BY <1>1 DEF SetJob, Call
  <2>3. <<"store">> \in Seq(Op) /\ Len(<<"store">>) = 1 /\ <<"store">>[1] = "store"
    BY DEF Op
  <2>4. Prepare(s) \in Seq(Op)
    BY <2>1 DEF Plain
  <2>5. /\ todo' \in Seq(Op)
        /\ Len(todo') = Len(Prepare(s)) + 1
        /\ \A k \in 1 .. Len(todo') :
              todo'[k] = IF k <= Len(Prepare(s)) THEN Prepare(s)[k] ELSE "store"
    <3> HIDE DEF QueueInv
    <3> DEFINE p == Prepare(s)
    <3>1. p \in Seq(Op) /\ todo' = p \o <<"store">>
      BY <2>2, <2>4
    <3> HIDE DEF p
    <3>2. todo' \in Seq(Op) /\ Len(todo') = Len(p) + 1
      BY <3>1, <2>3, ConcatProperties
    <3>3. \A k \in 1 .. Len(todo') : todo'[k] = IF k <= Len(p) THEN p[k] ELSE "store"
      BY <3>1, <3>2, <2>3, ConcatProperties
    <3> QED BY <3>2, <3>3 DEF p
  <2>6. \A k \in 1 .. Len(Prepare(s)) : Prepare(s)[k] # "enqueue"
    BY <2>1 DEF Plain
  <2>7. ~Pending("enqueue")'
    <3> HIDE DEF QueueInv
    <3>1. Len(Prepare(s)) \in Nat
      BY <2>1
    <3> QED BY <2>5, <2>6, <3>1 DEF Pending
  <2>8. SeedsKnown'
    BY <2>2, <2>5, <2>7 DEF SeedsKnown
  <2> QED BY <2>2, <2>8, <1>0, QueueStays DEF queueVars
<1>2. ASSUME Pause \/ Stop \/ \E e \in BOOLEAN : SetEnabled(e) PROVE QueueInv'
  <2>1. todo' \in Seq(Plain) /\ UNCHANGED queueVars
    BY <1>2, PlainCalls DEF Pause, Stop, SetEnabled, Call
  <2> QED BY <2>1, <1>0, PlainIsKnown, QueueStays DEF queueVars
<1>3. ASSUME OnDatasetReady PROVE QueueInv'
  <2>1. todo' \in Seq(Plain)
    BY <1>3, PlainCalls, PlainChange DEF OnDatasetReady
  <2>2. UNCHANGED <<qstate, qseed, queue, bg, built>> /\ async' \in BOOLEAN
    BY <1>3 DEF OnDatasetReady
  <2> QED BY <2>1, <2>2, PlainIsKnown, QueueStays
<1>4. ASSUME Counters \/ Join \/ Start PROVE QueueInv'
  <2>1. todo # <<>> /\ todo' = Tail(todo) /\ UNCHANGED <<job, incoming, queueVars>>
    BY <1>4 DEF Counters, Join, Start, Do
  <2> QED BY <2>1, <1>0, TailIsKnown, QueueStays DEF queueVars
<1>5. ASSUME Store PROVE QueueInv'
  <2>1. UNCHANGED queueVars /\ UNCHANGED incoming /\ job' = incoming
    BY <1>5 DEF Store
  <2>2. incoming.seed \in Seed
    <3>1. todo \in Seq(Op) /\ todo # <<>> /\ todo[1] = "store"
      BY <1>5 DEF Store, Do, SeedsKnown
    <3>2. 1 \in 1 .. Len(todo)
      BY <3>1
    <3> QED BY <3>1, <3>2 DEF SeedsKnown, Pending
  <2>3. CASE isReady(incoming.seed)
    <3>1. todo' \in Seq(Plain)
      BY <1>5, <2>3, PlainChange DEF Store
    <3> QED BY <3>1, <2>1, <1>0, PlainIsKnown, QueueStays DEF queueVars
  <2>4. CASE ~isReady(incoming.seed)
    <3>1. todo' = <<"enqueue">>
      BY <1>5, <2>4 DEF Store
    <3>2. SeedsKnown'
      BY <3>1, <2>1, <2>2 DEF SeedsKnown, Pending, Op
    <3> QED BY <3>2, <2>1, <1>0, QueueStays DEF queueVars
  <2> QED BY <2>3, <2>4
<1>6. ASSUME Enqueue PROVE QueueInv'
  <2>1. todo # <<>> /\ todo' = Tail(todo) /\ UNCHANGED <<job, incoming>> /\ enqueue(job.seed)
    BY <1>6 DEF Enqueue, Do
  <2>2. job.seed \in Seed
    <3>1. todo \in Seq(Op) /\ todo # <<>> /\ todo[1] = "enqueue"
      BY <1>6 DEF Enqueue, Do, SeedsKnown
    <3>2. 1 \in 1 .. Len(todo)
      BY <3>1
    <3> QED BY <3>1, <3>2 DEF SeedsKnown, Pending
  <2> QED BY <2>1, <2>2, TailIsKnown, QueueSteps
<1>7. ASSUME Dataset PROVE QueueInv'
  <2>1. SeedsKnown'
    BY <1>7 DEF Dataset, minerVars, SeedsKnown, Pending
  <2> QED BY <1>7, <2>1, QueueSteps DEF Dataset
<1>8. ASSUME UNCHANGED <<queueVars, minerVars>> PROVE QueueInv'
  <2>1. SeedsKnown'
    BY <1>8 DEF minerVars, SeedsKnown, Pending
  <2> QED BY <1>8, <2>1, <1>0, QueueStays DEF queueVars
<1>9. ASSUME NEW i \in Worker, Works(i) PROVE UNCHANGED <<queueVars, minerVars>>
  BY <1>9 DEF Works, Top, Wakes, Take, Mark, Vm, Loop, Hash, End, Goes
<1>10. ASSUME UNCHANGED vars PROVE UNCHANGED <<queueVars, minerVars>>
  BY <1>10 DEF vars
<1> HIDE DEF QueueInv
<1> QED BY <1>1, <1>2, <1>3, <1>4, <1>5, <1>6, <1>7, <1>8, <1>9, <1>10 DEF Next, Loops

(* The queue starts idle and empty, with nothing to do. *)
LEMMA InitQueueInv == Init => QueueInv
<1> SUFFICES ASSUME Init PROVE QueueInv
  OBVIOUS
<1>1. QueueTypeOK /\ IdleIsBuilt /\ NeverTakesNothing
  <2>1. /\ qstate = "IDLE" /\ qseed = NoSeed /\ queue = <<>>
        /\ bg = NoSeed /\ built = NoSeed /\ async = FALSE
    BY DEF Init, QueueInit
  <2>2. async \in BOOLEAN
    BY <2>1
  <2> QED BY <2>1, <2>2 DEF QueueTypeOK, IdleIsBuilt, NeverTakesNothing
<1>2. todo = <<>>
  BY DEF Init
<1>3. SeedsKnown
  BY <1>2 DEF SeedsKnown, Pending
<1> QED BY <1>1, <1>3 DEF QueueInv

(* The invariant holds in every reachable state. *)
LEMMA QueueInvariant == Spec => []QueueInv
  BY InitQueueInv, NextQueueInv, PTL DEF Spec

(* RxQueue::isReady() never says yes to a seed whose dataset is not the    *)
(* one in memory, in whatever order seeds come, datasets are finished and  *)
(* workers ask.                                                            *)
THEOREM ReadyCorrect == Spec => []ReadyIsBuilt
<1>1. QueueInv => ReadyIsBuilt
  BY DEF QueueInv, IdleIsBuilt, ReadyIsBuilt, isReady
<1> QED BY <1>1, QueueInvariant, PTL

(* backgroundInit() never takes the last item of an empty queue, although  *)
(* enqueue() may return without adding one.                                *)
THEOREM TakesCorrect == Spec => []NeverTakesNothing
<1>1. QueueInv => NeverTakesNothing
  BY DEF QueueInv
<1> QED BY <1>1, QueueInvariant, PTL


-----------------------------------------------------------------------------
(* The types of the miner and its threads. *)
MinerTypeOK ==
    /\ job \in Job /\ incoming \in Job
    /\ active \in BOOLEAN /\ enabled \in BOOLEAN /\ threads \in BOOLEAN /\ paused \in BOOLEAN
    /\ inputs \in 0 .. MaxInputs /\ seq \in Nat
    /\ w \in [Worker -> WorkerRecord]
    /\ threads \/ \A i \in Worker : w[i].pc = "gone"

(* A call of the miner changes its flags only. *)
LEMMA CallTypes ==
    ASSUME MinerTypeOK, NEW ops, Call(ops), incoming' \in Job,
           active' \in BOOLEAN, enabled' \in BOOLEAN
    PROVE  MinerTypeOK'
<1>1. inputs' = inputs + 1 /\ inputs < MaxInputs /\ UNCHANGED <<job, paused, seq, threads, w>>
  BY DEF Call
<1>2. inputs' \in 0 .. MaxInputs
  BY <1>1, MiningAssumption DEF MinerTypeOK
<1> QED BY <1>1, <1>2 DEF MinerTypeOK

(* A step of a thread: it exists, so the backend has threads. *)
LEMMA WorkerTypes ==
    ASSUME MinerTypeOK, NEW i \in Worker, Works(i)
    PROVE  MinerTypeOK'
<1> DEFINE v == w[i]
           pcs == {"gone", "top", "sleep", "take", "mark", "vm", "loop", "hash", "end"}
<1>1. v \in WorkerRecord /\ job \in Job /\ seq \in Nat
  BY DEF MinerTypeOK
<1>2. v.back \in {"top", "loop"} /\ v.back \in pcs
  BY <1>1 DEF WorkerRecord
<1>3. threads
  <2>1. v.pc # "gone"
    BY DEF Works, Top, Wakes, Take, Mark, Vm, Loop, Hash, End, At
  <2> QED BY <2>1 DEF MinerTypeOK
<1> HIDE DEF v
<1>4. \A p \in pcs : To(i, p) \in WorkerRecord
  BY <1>1 DEF To, WorkerRecord, v
<1>5. \A b \in {"top", "loop"} : Consume(i, b) \in WorkerRecord
  BY <1>1 DEF Consume, WorkerRecord, v
<1>6. /\ [To(i, "mark") EXCEPT !.job = job] \in WorkerRecord
      /\ [To(i, "vm") EXCEPT !.seq = seq] \in WorkerRecord
  BY <1>1, <1>4 DEF WorkerRecord
<1>7. \E r \in WorkerRecord : Goes(i, r)
  <2>1. CASE Top(i)
    <3>1. \E p \in pcs : Goes(i, To(i, p))
      BY <2>1 DEF Top
    <3> QED BY <1>4, <3>1
  <2>2. CASE Wakes(i)
    BY <1>4, <1>5, <2>2 DEF Wakes
  <2>3. CASE Take(i)
    <3>1. v.back \in pcs
      BY <1>2
    <3> QED BY <1>4, <1>6, <2>3, <3>1 DEF Take, v
  <2>4. CASE Mark(i)
    BY <1>6, <2>4 DEF Mark
  <2>5. CASE Vm(i)
    BY <1>2, <1>4, <2>5 DEF Vm, v
  <2>6. CASE Loop(i)
    <3>1. \E p \in pcs : Goes(i, To(i, p))
      BY <2>6 DEF Loop
    <3> QED BY <1>4, <3>1
  <2>7. CASE Hash(i)
    BY <1>4, <2>7 DEF Hash
  <2>8. CASE End(i)
    BY <1>4, <1>5, <2>8 DEF End
  <2> QED BY <2>1, <2>2, <2>3, <2>4, <2>5, <2>6, <2>7, <2>8 DEF Works
<1>8. PICK r \in WorkerRecord : Goes(i, r)
  BY <1>7
<1>9. w' = [w EXCEPT ![i] = r] /\ UNCHANGED <<job, incoming, active, enabled, inputs, paused, seq, threads>>
  BY <1>8 DEF Goes, minerVars
<1> QED BY <1>3, <1>9 DEF MinerTypeOK

(* Every step keeps the types. *)
LEMMA NextTypes ==
    ASSUME MinerTypeOK, [Next]_vars
    PROVE  MinerTypeOK'
<1>0. NoJob \in Job /\ NewWorker \in WorkerRecord
  BY MiningAssumption DEF NoJob, Job, NewWorker, WorkerRecord
<1>1. ASSUME NEW s \in Seed, SetJob(s) PROVE MinerTypeOK'
  <2>1. /\ Call(Prepare(s) \o <<"store">>) /\ UNCHANGED <<active, enabled>>
        /\ incoming' = [no |-> inputs + 1, seed |-> s]
    BY <1>1 DEF SetJob
  <2>2. inputs + 1 \in 0 .. MaxInputs
    BY <2>1, MiningAssumption DEF Call, MinerTypeOK
  <2>3. incoming' \in Job
    BY <2>1, <2>2 DEF Job
  <2> QED BY <2>1, <2>3, CallTypes DEF MinerTypeOK
<1>2. CASE Pause
  BY <1>2, CallTypes DEF Pause, MinerTypeOK
<1>3. ASSUME NEW e \in BOOLEAN, SetEnabled(e) PROVE MinerTypeOK'
  <2>1. PICK ops : Call(ops)
    BY <1>3 DEF SetEnabled
  <2>2. enabled' = e /\ UNCHANGED <<incoming, active>>
    BY <1>3 DEF SetEnabled
  <2>3. enabled' \in BOOLEAN /\ active' \in BOOLEAN /\ incoming' \in Job
    BY <2>2 DEF MinerTypeOK
  <2> QED BY <2>1, <2>3, CallTypes
<1>4. CASE Stop
  BY <1>4, CallTypes DEF Stop, MinerTypeOK
<1>5. CASE OnDatasetReady
  BY <1>5 DEF OnDatasetReady, MinerTypeOK
<1>6. CASE Counters
  <2>1. /\ UNCHANGED <<job, incoming, active, enabled, inputs, threads, w>>
        /\ \/ paused' = TRUE /\ UNCHANGED seq
           \/ paused' = FALSE /\ UNCHANGED seq
           \/ seq' = seq + 1 /\ UNCHANGED paused
           \/ seq' = 0 /\ UNCHANGED paused
    BY <1>6 DEF Counters
  <2>2. paused \in BOOLEAN /\ seq \in Nat /\ seq + 1 \in Nat /\ 0 \in Nat
    BY DEF MinerTypeOK
  <2>3. seq' \in Nat
    BY <2>1, <2>2, SMT
  <2>4. paused' \in BOOLEAN
    BY <2>1, <2>2, Zenon
  <2> QED BY <2>1, <2>3, <2>4 DEF MinerTypeOK
<1>7. CASE Join
  <2>1. /\ threads => \A i \in Worker : w[i].pc = "gone"
        /\ threads' = FALSE /\ seq' = IF threads THEN seq + 1 ELSE seq
        /\ UNCHANGED <<job, incoming, active, enabled, inputs, paused, w>>
    BY <1>7 DEF Join
  <2>2. seq \in Nat /\ seq + 1 \in Nat
    BY DEF MinerTypeOK
  <2>3. seq' \in Nat
    BY <2>1, <2>2, Zenon
  <2>4. threads' \in BOOLEAN
    BY <2>1, Zenon
  <2>5. \A i \in Worker : w[i].pc = "gone"
    BY <2>1 DEF MinerTypeOK
  <2> QED BY <2>1, <2>3, <2>4, <2>5 DEF MinerTypeOK
<1>8. CASE Store
  <2>1. job' = incoming /\ active' = TRUE /\ UNCHANGED <<incoming, enabled, inputs, paused, seq, threads, w>>
    BY <1>8 DEF Store
  <2> QED BY <2>1 DEF MinerTypeOK
<1>9. CASE Enqueue
  BY <1>9 DEF Enqueue, MinerTypeOK
<1>10. CASE Start
  <2>1. /\ threads' = TRUE /\ seq' = seq + 1 /\ w' = [i \in Worker |-> NewWorker]
        /\ UNCHANGED <<job, incoming, active, enabled, inputs, paused>>
    BY <1>10 DEF Start
  <2>2. w' \in [Worker -> WorkerRecord] /\ seq' \in Nat
    BY <1>0, <2>1 DEF MinerTypeOK
  <2> QED BY <2>1, <2>2 DEF MinerTypeOK
<1>11. CASE Dataset
  BY <1>11 DEF Dataset, MinerTypeOK, minerVars
<1>12. ASSUME NEW i \in Worker, Works(i) PROVE MinerTypeOK'
  BY <1>12, WorkerTypes
<1>13. CASE UNCHANGED vars
  BY <1>13 DEF vars, minerVars, MinerTypeOK
<1> QED BY <1>1, <1>2, <1>3, <1>4, <1>5, <1>6, <1>7, <1>8, <1>9, <1>10, <1>11, <1>12, <1>13
        DEF Next, Loops

(* Init has the types. *)
LEMMA InitTypes ==
    ASSUME Init
    PROVE  MinerTypeOK
<1>1. 0 \in 0 .. MaxInputs
  BY MiningAssumption
<1>2. NoJob \in Job
  BY <1>1 DEF NoJob, Job
<1> DEFINE r == [NewWorker EXCEPT !.pc = "gone"]
<1>3. r \in WorkerRecord /\ r.pc = "gone"
  BY <1>2 DEF NewWorker, WorkerRecord
<1> HIDE DEF r
<1>4. w = [i \in Worker |-> r]
  BY DEF Init, r
<1>5. w \in [Worker -> WorkerRecord] /\ \A i \in Worker : w[i].pc = "gone"
  BY <1>3, <1>4
<1> QED BY <1>1, <1>2, <1>5 DEF Init, MinerTypeOK

(* The types of the miner, the queue and the threads; a backend that has   *)
(* given its threads up has none that still runs, whatever the order of    *)
(* calls, stops and datasets (Workers::stop).                              *)
THEOREM TypeCorrect == Spec => []TypeOK
<1>1. Spec => []MinerTypeOK
  BY InitTypes, NextTypes, PTL DEF Spec
<1>2. QueueInv /\ MinerTypeOK => TypeOK
  BY DEF QueueInv, SeedsKnown, MinerTypeOK, TypeOK
<1> QED BY <1>1, <1>2, QueueInvariant, PTL

-----------------------------------------------------------------------------
(* Threads that run are wanted: whenever the loop is free, threads that    *)
(* are not paused have a pool and a miner that is enabled, although the    *)
(* writes of a handler pass through states where they do not (Miner::      *)
(* setJob, pause, setEnabled, onDatasetReady).                             *)
WorkIsWanted == todo = <<>> /\ threads /\ ~paused => active /\ enabled

(* The strengthening, for a handler under way: without a pool the threads  *)
(* are paused, or are about to be, or a job comes; ...                     *)
RestWithoutPool == paused \/ active \/ Do("pause") \/ Pending("store")

(* ... the same while the miner is not enabled, or the threads end; ...    *)
RestWhileOff == threads => paused \/ enabled \/ Do("pause") \/ Pending("join")

(* ... a run is wanted or part of a stop; ...                              *)
RunsAreWanted ==
    \A k \in 1 .. Len(todo) :
        todo[k] = "run" => (active /\ enabled) \/ \E j \in k + 1 .. Len(todo) : todo[j] = "join"

(* ... threads start at rest unless the miner is enabled; ...              *)
StartsAtRest ==
    Pending("start") => ~Pending("join") /\ (paused \/ enabled \/ Do("pause"))

(* ... and a job is stored last, and after each stop.                      *)
StoreIsLast ==
    /\ \A k \in 1 .. Len(todo) : todo[k] = "store" => k = Len(todo)
    /\ Pending("join") => Pending("store")

RestInv ==
    RestWithoutPool /\ RestWhileOff /\ RunsAreWanted /\ StartsAtRest /\ StoreIsLast

(* What handleJobChange() leaves to do: a miner that is not enabled is     *)
(* paused first, and runs only when it is wanted.                          *)
LEMMA ChangeFacts ==
    ASSUME NEW STATE act
    PROVE  LET h == handleJobChange(act)
           IN  /\ h \in Seq({"pause", "start", "touch", "run"})
               /\ \A k \in 1 .. Len(h) : h[k] = "run" => act /\ enabled
               /\ \A k \in 1 .. Len(h) : h[k] = "pause" => ~enabled
               /\ ~enabled => h # <<>> /\ Head(h) = "pause"
               /\ act /\ enabled => \E k \in 1 .. Len(h) : h[k] = "run"
<1> DEFINE h == handleJobChange(act)
           All == {"pause", "start", "touch", "run"}
<1>1. h \in Seq(All)
  BY ChangeIn
<1>2. ASSUME ~(act /\ enabled) PROVE h \in Seq({"pause", "start", "touch"})
  BY <1>2, ChangeIn
<1>3. \A k \in 1 .. Len(h) : h[k] = "run" => act /\ enabled
  BY <1>2
<1>4. ASSUME ~enabled PROVE h # <<>> /\ Head(h) = "pause"
  <2> DEFINE a == <<"pause">>
             b == IF threads THEN <<>> ELSE <<"start">>
             c == <<"touch">>
             d == <<>>
  <2>1. h = ((a \o b) \o c) \o d
    BY <1>4 DEF handleJobChange
  <2>2. /\ a \in Seq(All) /\ c \in Seq(All) /\ d \in Seq(All)
        /\ <<>> \in Seq(All) /\ <<"start">> \in Seq(All)
    OBVIOUS
  <2>3. b \in Seq(All)
    BY <2>2, Zenon
  <2>4. Len(a) = 1 /\ a[1] = "pause"
    OBVIOUS
  <2> HIDE DEF a, b, c, d, All, h
  <2>5. a \o b \in Seq(All) /\ Len(a \o b) >= 1 /\ (a \o b)[1] = "pause"
    BY <2>2, <2>3, <2>4, ConcatProperties
  <2>6. (a \o b) \o c \in Seq(All) /\ Len((a \o b) \o c) >= 1 /\ ((a \o b) \o c)[1] = "pause"
    BY <2>2, <2>5, ConcatProperties
  <2>7. h \in Seq(All) /\ Len(h) >= 1 /\ h[1] = "pause"
    BY <2>1, <2>2, <2>6, ConcatProperties
  <2> QED BY <2>7
<1>5. ASSUME enabled PROVE h \in Seq({"start", "touch", "run"})
  BY <1>5, ChangeIn
<1>6. \A k \in 1 .. Len(h) : h[k] = "pause" => ~enabled
  BY <1>5
<1>7. ASSUME act, enabled PROVE \E k \in 1 .. Len(h) : h[k] = "run"
  <2> DEFINE a == <<>>
             b == IF threads THEN <<>> ELSE <<"start">>
             c == <<"touch">>
             d == <<"run">>
  <2>1. h = ((a \o b) \o c) \o d
    BY <1>7 DEF handleJobChange
  <2>2. /\ a \in Seq(All) /\ c \in Seq(All) /\ d \in Seq(All)
        /\ <<>> \in Seq(All) /\ <<"start">> \in Seq(All)
    OBVIOUS
  <2>3. b \in Seq(All)
    BY <2>2, Zenon
  <2>4. Len(d) = 1 /\ d[1] = "run"
    OBVIOUS
  <2> DEFINE e == (a \o b) \o c
  <2> HIDE DEF a, b, c, d, All, h
  <2>5. a \o b \in Seq(All)
    BY <2>2, <2>3, ConcatProperties
  <2>6. e \in Seq(All)
    BY <2>2, <2>5, ConcatProperties
  <2> HIDE DEF e
  <2>7. h = e \o d
    BY <2>1 DEF e
  <2>10. /\ Len(h) = Len(e) + Len(d) /\ Len(e) \in Nat
         /\ \A i \in 1 .. Len(e) + Len(d) : h[i] = IF i <= Len(e) THEN e[i] ELSE d[i - Len(e)]
    BY <2>2, <2>6, <2>7, ConcatProperties
  <2>11. /\ Len(e) + 1 \in 1 .. Len(e) + Len(d) /\ ~(Len(e) + 1 <= Len(e))
         /\ (Len(e) + 1) - Len(e) = 1
    BY <2>4, <2>10
  <2>8. Len(h) = Len(e) + 1 /\ h[Len(e) + 1] = "run" /\ Len(e) \in Nat
    BY <2>4, <2>10, <2>11
  <2>9. Len(e) + 1 \in 1 .. Len(h)
    BY <2>8
  <2> QED BY <2>8, <2>9
<1> QED BY <1>1, <1>3, <1>4, <1>6, <1>7

(* The list of a handler after its first write. *)
LEMMA TailFacts ==
    ASSUME todo \in Seq(Op), todo # <<>>, todo' = Tail(todo)
    PROVE  /\ todo' \in Seq(Op) /\ Len(todo') = Len(todo) - 1
           /\ \A k \in 1 .. Len(todo') : k + 1 \in 1 .. Len(todo) /\ todo'[k] = todo[k + 1]
           /\ \A k \in 2 .. Len(todo) : k - 1 \in 1 .. Len(todo') /\ todo'[k - 1] = todo[k]
           /\ \A op \in Op : Pending(op)' => Pending(op)
           /\ \A op \in Op : Pending(op) /\ Head(todo) # op => Pending(op)'
<1>1. /\ todo' \in Seq(Op) /\ Len(todo') = Len(todo) - 1
      /\ \A k \in 1 .. Len(todo') : todo'[k] = todo[k + 1]
  BY HeadTailProperties
<1>2. Len(todo) \in Nat /\ Len(todo') \in Nat
  BY <1>1
<1>3. \A k \in 1 .. Len(todo') : k + 1 \in 1 .. Len(todo) /\ todo'[k] = todo[k + 1]
  BY <1>1, <1>2
<1>4. \A k \in 2 .. Len(todo) : k - 1 \in 1 .. Len(todo') /\ todo'[k - 1] = todo[k]
  <2> SUFFICES ASSUME NEW k \in 2 .. Len(todo)
               PROVE  k - 1 \in 1 .. Len(todo') /\ todo'[k - 1] = todo[k]
    OBVIOUS
  <2>1. k - 1 \in 1 .. Len(todo') /\ (k - 1) + 1 = k
    BY <1>1, <1>2
  <2> QED BY <2>1, <1>3
<1>5. ASSUME NEW op \in Op, Pending(op)' PROVE Pending(op)
  BY <1>3, <1>5 DEF Pending
<1>6. ASSUME NEW op \in Op, Pending(op), Head(todo) # op PROVE Pending(op)'
  <2>1. PICK k \in 1 .. Len(todo) : todo[k] = op
    BY <1>6 DEF Pending
  <2>2. k \in 2 .. Len(todo)
    BY <1>2, <1>6, <2>1
  <2> QED BY <1>4, <2>1, <2>2 DEF Pending
<1> QED BY <1>1, <1>3, <1>4, <1>5, <1>6

(* The order of the writes of a list stays while it is worked off. *)
LEMMA TailKeepsOrder ==
    ASSUME RunsAreWanted, StoreIsLast, todo \in Seq(Op), todo # <<>>, todo' = Tail(todo),
           Head(todo) # "store", UNCHANGED <<active, enabled>>
    PROVE  RunsAreWanted' /\ StoreIsLast'
<1>1. RunsAreWanted'
  <2> SUFFICES ASSUME NEW k \in 1 .. Len(todo'), todo'[k] = "run", ~(active /\ enabled)
               PROVE  \E j \in k + 1 .. Len(todo') : todo'[j] = "join"
    BY DEF RunsAreWanted
  <2>1. k + 1 \in 1 .. Len(todo) /\ todo[k + 1] = "run"
    BY TailFacts
  <2>2. PICK j \in (k + 1) + 1 .. Len(todo) : todo[j] = "join"
    BY <2>1 DEF RunsAreWanted
  <2>3. j \in 2 .. Len(todo) /\ j - 1 \in k + 1 .. Len(todo')
    BY TailFacts
  <2>4. todo'[j - 1] = "join"
    BY <2>2, <2>3, TailFacts
  <2> QED BY <2>3, <2>4
<1>2. ASSUME NEW k \in 1 .. Len(todo'), todo'[k] = "store" PROVE k = Len(todo')
  <2>1. k + 1 \in 1 .. Len(todo) /\ todo[k + 1] = "store" /\ Len(todo') = Len(todo) - 1
    BY <1>2, TailFacts
  <2>2. k + 1 = Len(todo)
    BY <2>1 DEF StoreIsLast
  <2>3. Len(todo) \in Nat /\ k \in Nat
    BY TailFacts
  <2>4. Len(todo) - 1 = k
    BY <2>2, <2>3
  <2> QED BY <2>1, <2>4
<1>3. Pending("join")' => Pending("store")'
  <2>1. "join" \in Op /\ "store" \in Op
    BY DEF Op
  <2> QED BY <2>1, TailFacts DEF StoreIsLast
<1> QED BY <1>1, <1>2, <1>3 DEF StoreIsLast

(* A call of the miner other than stop() keeps the invariant. *)
LEMMA CallRest ==
    ASSUME RestInv, todo = <<>>, UNCHANGED <<paused, threads>>, enabled \in BOOLEAN, active \in BOOLEAN,
           \/ /\ todo' = <<>> /\ active' = active /\ (enabled' = enabled \/ ~active)
           \/ todo' = <<"pause", "touch">>
           \/ /\ todo' = <<"run", "touch">> /\ active /\ active' = active /\ enabled'
           \/ /\ todo' \in {<<"store">>, <<"pause", "touch", "store">>,
                            <<"run", "zero", "join", "store">>}
              /\ UNCHANGED <<active, enabled>>
    PROVE  RestInv'
<1>0. /\ paused \/ active
      /\ threads => paused \/ enabled
  BY DEF RestInv, RestWithoutPool, RestWhileOff, Do, Pending
<1>1. CASE todo' = <<>> /\ active' = active /\ (enabled' = enabled \/ ~active)
  BY <1>0, <1>1 DEF RestInv, RestWithoutPool, RestWhileOff, RunsAreWanted, StartsAtRest,
                    StoreIsLast, Do, Pending
<1>2. CASE todo' = <<"pause", "touch">>
  BY <1>2 DEF RestInv, RestWithoutPool, RestWhileOff, RunsAreWanted, StartsAtRest,
                    StoreIsLast, Do, Pending
<1>3. CASE todo' = <<"run", "touch">> /\ active /\ active' = active /\ enabled'
  BY <1>3 DEF RestInv, RestWithoutPool, RestWhileOff, RunsAreWanted, StartsAtRest,
                    StoreIsLast, Do, Pending
<1>4. CASE todo' = <<"store">> /\ UNCHANGED <<active, enabled>>
  BY <1>0, <1>4 DEF RestInv, RestWithoutPool, RestWhileOff, RunsAreWanted, StartsAtRest,
                    StoreIsLast, Do, Pending
<1>5. CASE todo' = <<"pause", "touch", "store">>
  BY <1>5 DEF RestInv, RestWithoutPool, RestWhileOff, RunsAreWanted, StartsAtRest,
                    StoreIsLast, Do, Pending
<1>6. CASE todo' = <<"run", "zero", "join", "store">> /\ UNCHANGED <<active, enabled>>
  BY <1>0, <1>6 DEF RestInv, RestWithoutPool, RestWhileOff, RunsAreWanted, StartsAtRest,
                    StoreIsLast, Do, Pending
<1> QED BY <1>1, <1>2, <1>3, <1>4, <1>5, <1>6

(* handleJobChange() as the new list keeps the invariant, if without a     *)
(* pool the threads are paused.                                            *)
LEMMA ChangeRest ==
    ASSUME NEW STATE act, act \in BOOLEAN, todo' = handleJobChange(act), active' = act,
           UNCHANGED <<enabled, paused, threads>>, paused \/ act, threads => paused \/ enabled
    PROVE  RestInv'
<1>1. todo' \in Seq({"pause", "start", "touch", "run"})
  BY ChangeFacts
<1>2. \A k \in 1 .. Len(todo') : todo'[k] = "run" => act /\ enabled
  BY ChangeFacts
<1>3. ~enabled => Do("pause")'
  BY ChangeFacts DEF Do
<1>4. \A k \in 1 .. Len(todo') : todo'[k] # "store" /\ todo'[k] # "join"
  BY <1>1
<1>5. ~Pending("store")' /\ ~Pending("join")'
  BY <1>4 DEF Pending
<1>6. RestWithoutPool' /\ RestWhileOff'
  BY DEF RestWithoutPool, RestWhileOff
<1>7. RunsAreWanted'
  BY <1>2 DEF RunsAreWanted
<1>8. StartsAtRest'
  BY <1>3, <1>5 DEF StartsAtRest
<1>9. StoreIsLast'
  BY <1>4, <1>5 DEF StoreIsLast
<1> QED BY <1>6, <1>7, <1>8, <1>9 DEF RestInv

(* The writes of a handler keep the invariant. *)
LEMMA WriteRest ==
    ASSUME RestInv, todo \in Seq(Op), Counters \/ Join \/ Start \/ Enqueue
    PROVE  RestInv'
<1>0. todo # <<>> /\ todo' = Tail(todo) /\ UNCHANGED <<active, enabled>> /\ Head(todo) # "store"
  BY DEF Counters, Join, Start, Enqueue, Do
<1>1. RunsAreWanted' /\ StoreIsLast'
  BY <1>0, TailKeepsOrder DEF RestInv
<1>2. {"pause", "run", "join", "store", "start"} \subseteq Op
  BY DEF Op
<1>p. /\ \A op \in Op : Pending(op)' => Pending(op)
      /\ \A op \in Op : Pending(op) /\ Head(todo) # op => Pending(op)'
  BY <1>0, TailFacts
<1>s. /\ Pending("store") => Pending("store")'
      /\ Pending("join") /\ Head(todo) # "join" => Pending("join")'
      /\ Pending("join")' => Pending("join")
      /\ Pending("start")' => Pending("start")
  BY <1>0, <1>2, <1>p
<1>3. CASE Head(todo) = "pause"
  <2>1. paused' /\ threads' = threads
    BY <1>3 DEF Counters, Join, Start, Enqueue, Do
  <2>2. RestWithoutPool' /\ RestWhileOff'
    BY <2>1 DEF RestWithoutPool, RestWhileOff
  <2>3. StartsAtRest'
    BY <2>1, <1>s DEF RestInv, StartsAtRest
  <2> QED BY <1>1, <2>2, <2>3 DEF RestInv
<1>4. CASE Head(todo) = "run"
  <2>1. threads' = threads
    BY <1>4 DEF Counters, Join, Start, Enqueue, Do
  <2>2. (active /\ enabled) \/ Pending("join")
    <3>1. 1 \in 1 .. Len(todo) /\ todo[1] = "run"
      BY <1>0, <1>4
    <3>2. (active /\ enabled) \/ \E j \in 1 + 1 .. Len(todo) : todo[j] = "join"
      BY <3>1 DEF RestInv, RunsAreWanted
    <3>3. \A j \in 1 + 1 .. Len(todo) : j \in 1 .. Len(todo)
      BY <3>1
    <3> QED BY <3>2, <3>3 DEF Pending
  <2>3. (active /\ enabled) \/ (Pending("join") /\ Pending("store"))
    BY <2>2 DEF RestInv, StoreIsLast
  <2>4. (active' /\ enabled') \/ (Pending("join")' /\ Pending("store")')
    BY <1>0, <1>4, <2>3, <1>s
  <2>5. RestWithoutPool' /\ RestWhileOff'
    BY <2>4 DEF RestWithoutPool, RestWhileOff
  <2>6. StartsAtRest'
    BY <1>0, <1>s, <2>2 DEF RestInv, StartsAtRest
  <2> QED BY <1>1, <2>5, <2>6 DEF RestInv
<1>5. CASE Head(todo) = "join"
  <2>1. ~threads' /\ paused' = paused
    BY <1>5 DEF Counters, Join, Start, Enqueue, Do
  <2>2. Pending("join")
    BY <1>0, <1>5 DEF Pending
  <2>3. Pending("store")'
    BY <2>2, <1>s DEF RestInv, StoreIsLast
  <2>4. RestWithoutPool' /\ RestWhileOff'
    BY <2>1, <2>3 DEF RestWithoutPool, RestWhileOff
  <2>5. StartsAtRest'
    BY <2>2, <1>s DEF RestInv, StartsAtRest
  <2> QED BY <1>1, <2>4, <2>5 DEF RestInv
<1>6. CASE Head(todo) = "start"
  <2>1. paused' = paused
    BY <1>6 DEF Counters, Join, Start, Enqueue, Do
  <2>2. Pending("start")
    BY <1>0, <1>6 DEF Pending
  <2>3. ~Pending("join") /\ (paused \/ enabled)
    BY <2>2, <1>6 DEF RestInv, StartsAtRest, Do
  <2>4. RestWithoutPool'
    BY <1>0, <1>6, <2>1, <1>s DEF RestInv, RestWithoutPool, Do
  <2>5. RestWhileOff' /\ StartsAtRest'
    BY <1>0, <2>1, <2>3, <1>s DEF RestWhileOff, StartsAtRest
  <2> QED BY <1>1, <2>4, <2>5 DEF RestInv
<1>7. CASE Head(todo) \notin {"pause", "run", "join", "start"}
  <2>1. UNCHANGED <<paused, threads>>
    BY <1>7 DEF Counters, Join, Start, Enqueue, Do
  <2>2. RestWithoutPool'
    BY <1>0, <1>7, <2>1, <1>s DEF RestInv, RestWithoutPool, Do
  <2>3. RestWhileOff'
    BY <1>0, <1>7, <2>1, <1>s DEF RestInv, RestWhileOff, Do
  <2>4. StartsAtRest'
    BY <1>0, <1>7, <2>1, <1>s DEF RestInv, StartsAtRest, Do
  <2> QED BY <1>1, <2>2, <2>3, <2>4 DEF RestInv
<1> QED BY <1>3, <1>4, <1>5, <1>6, <1>7

(* The end of setJob() keeps the invariant. *)
LEMMA StoreRest ==
    ASSUME RestInv, todo \in Seq(Op), Store
    PROVE  RestInv'
<1>1. todo # <<>> /\ Head(todo) = "store" /\ active' = TRUE /\ UNCHANGED <<enabled, paused, threads>>
  BY DEF Store, Do
<1>2. ~Pending("join")
  <2>1. 1 \in 1 .. Len(todo) /\ todo[1] = "store"
    BY <1>1
  <2>2. Len(todo) = 1
    BY <2>1 DEF RestInv, StoreIsLast
  <2>3. \A k \in 1 .. Len(todo) : k = 1
    BY <2>2
  <2> QED BY <2>1, <2>3 DEF Pending
<1>3. threads => paused \/ enabled
  BY <1>1, <1>2 DEF RestInv, RestWhileOff, Do
<1>4. CASE todo' = handleJobChange(TRUE)
  BY <1>1, <1>3, <1>4, ChangeRest
<1>5. CASE todo' = <<"enqueue">>
  <2>1. \A op \in Op \ {"enqueue"} : ~Pending(op)'
    BY <1>5 DEF Pending
  <2>2. ~Pending("join")' /\ ~Pending("store")' /\ ~Pending("start")'
    BY <2>1 DEF Op
  <2>3. \A k \in 1 .. Len(todo') : todo'[k] = "enqueue"
    BY <1>5
  <2> QED BY <1>1, <1>3, <2>2, <2>3
          DEF RestInv, RestWithoutPool, RestWhileOff, RunsAreWanted, StartsAtRest, StoreIsLast
<1> QED BY <1>4, <1>5 DEF Store

(* setJob() for a dataset that is not ready. *)
LEMMA PauseThenStore == <<"pause", "touch">> \o <<"store">> = <<"pause", "touch", "store">>
<1> DEFINE a == <<"pause", "touch">>
           b == <<"store">>
           c == <<"pause", "touch", "store">>
           d == a \o b
<1>1. /\ a \in Seq(Op) /\ Len(a) = 2 /\ a[1] = "pause" /\ a[2] = "touch"
      /\ b \in Seq(Op) /\ Len(b) = 1 /\ b[1] = "store"
      /\ c \in Seq(Op) /\ Len(c) = 3
      /\ c[1] = "pause" /\ c[2] = "touch" /\ c[3] = "store"
  BY DEF Op
<1> HIDE DEF a, b, c
<1>2. /\ d \in Seq(Op) /\ Len(d) = Len(a) + Len(b)
      /\ \A i \in 1 .. Len(a) + Len(b) : d[i] = IF i <= Len(a) THEN a[i] ELSE b[i - Len(a)]
  BY <1>1, ConcatProperties
<1> HIDE DEF d
<1>3. Len(d) = 3 /\ d[1] = a[1] /\ d[2] = a[2] /\ d[3] = b[1]
  BY <1>1, <1>2
<1>4. \A i \in 1 .. 3 : d[i] = c[i]
  BY <1>1, <1>3
<1>5. d = c
  BY <1>1, <1>2, <1>3, <1>4, SeqEqual
<1> QED BY <1>5 DEF a, b, c, d

(* setJob() for another algorithm. *)
LEMMA HaltThenStore == <<"run", "zero", "join">> \o <<"store">> = <<"run", "zero", "join", "store">>
<1> DEFINE a == <<"run", "zero", "join">>
           b == <<"store">>
           c == <<"run", "zero", "join", "store">>
           d == a \o b
<1>1. /\ a \in Seq(Op) /\ Len(a) = 3 /\ a[1] = "run" /\ a[2] = "zero" /\ a[3] = "join"
      /\ b \in Seq(Op) /\ Len(b) = 1 /\ b[1] = "store"
      /\ c \in Seq(Op) /\ Len(c) = 4
      /\ c[1] = "run" /\ c[2] = "zero" /\ c[3] = "join" /\ c[4] = "store"
  BY DEF Op
<1> HIDE DEF a, b, c
<1>2. /\ d \in Seq(Op) /\ Len(d) = Len(a) + Len(b)
      /\ \A i \in 1 .. Len(a) + Len(b) : d[i] = IF i <= Len(a) THEN a[i] ELSE b[i - Len(a)]
  BY <1>1, ConcatProperties
<1> HIDE DEF d
<1>3. Len(d) = 4 /\ d[1] = a[1] /\ d[2] = a[2] /\ d[3] = a[3] /\ d[4] = b[1]
  BY <1>1, <1>2
<1>4. \A i \in 1 .. 4 : d[i] = c[i]
  BY <1>1, <1>3
<1>5. d = c
  BY <1>1, <1>2, <1>3, <1>4, SeqEqual
<1> QED BY <1>5 DEF a, b, c, d

(* The three ways setJob() begins. *)
LEMMA JobList ==
    ASSUME NEW s, SetJob(s)
    PROVE  /\ todo = <<>> /\ UNCHANGED <<active, enabled, paused, threads>>
           /\ todo' \in {<<"store">>, <<"pause", "touch", "store">>,
                         <<"run", "zero", "join", "store">>}
<1>1. /\ todo = <<>> /\ todo' = Prepare(s) \o <<"store">>
      /\ UNCHANGED <<active, enabled, paused, threads>>
  BY DEF SetJob, Call
<1>2. Prepare(s) \in {<<>>, <<"pause", "touch">>, <<"run", "zero", "join">>}
  BY DEF Prepare, Halt
<1>3. CASE Prepare(s) = <<>>
  BY <1>1, <1>3
<1>4. CASE Prepare(s) = <<"pause", "touch">>
  BY <1>1, <1>4, PauseThenStore
<1>5. CASE Prepare(s) = <<"run", "zero", "join">>
  BY <1>1, <1>5, HaltThenStore
<1> QED BY <1>1, <1>2, <1>3, <1>4, <1>5

(* Every step but a stop by request keeps the invariant. *)
LEMMA NextRest ==
    ASSUME RestInv, SeedsKnown, MinerTypeOK, [Next]_vars, [~Stop]_vars
    PROVE  RestInv'
<1>t. todo \in Seq(Op) /\ enabled \in BOOLEAN /\ active \in BOOLEAN
  BY DEF SeedsKnown, MinerTypeOK
<1>1. ASSUME NEW s \in Seed, SetJob(s) PROVE RestInv'
  BY <1>t, <1>1, JobList, CallRest
<1>2. CASE Pause
  <2>1. todo = <<>> /\ todo' = <<"pause", "touch">> /\ UNCHANGED <<paused, threads>>
    BY <1>2 DEF Pause, Call
  <2> QED BY <1>t, <2>1, CallRest
<1>3. ASSUME NEW e \in BOOLEAN, SetEnabled(e) PROVE RestInv'
  <2>1. todo = <<>> /\ enabled' = e /\ active' = active /\ UNCHANGED <<paused, threads>>
    BY <1>3 DEF SetEnabled, Call
  <2>2. CASE ~active
    <3>1. todo' = <<>>
      BY <1>3, <2>2 DEF SetEnabled, Call
    <3> QED BY <1>t, <2>1, <2>2, <3>1, CallRest
  <2>3. CASE active /\ e
    <3>1. todo' = <<"run", "touch">>
      BY <1>3, <2>3 DEF SetEnabled, Call
    <3> QED BY <1>t, <2>1, <2>3, <3>1, CallRest
  <2>4. CASE active /\ ~e
    <3>1. todo' = <<"pause", "touch">>
      BY <1>3, <2>4 DEF SetEnabled, Call
    <3> QED BY <1>t, <2>1, <3>1, CallRest
  <2> QED BY <2>2, <2>3, <2>4
<1>4. CASE Counters \/ Join \/ Start \/ Enqueue
  BY <1>t, <1>4, WriteRest
<1>5. CASE Store
  BY <1>t, <1>5, StoreRest
<1>6. CASE OnDatasetReady
  <2>1. todo = <<>> /\ UNCHANGED <<active, enabled, paused, threads>>
    BY <1>6 DEF OnDatasetReady
  <2>2. CASE todo' = handleJobChange(active)
    <3>1. (paused \/ active) /\ (threads => paused \/ enabled)
      BY <2>1 DEF RestInv, RestWithoutPool, RestWhileOff, Do, Pending
    <3> QED BY <1>t, <2>1, <2>2, <3>1, ChangeRest
  <2>3. CASE todo' = <<>>
    BY <1>t, <2>1, <2>3, CallRest
  <2> QED BY <1>6, <2>2, <2>3 DEF OnDatasetReady
<1>7. CASE UNCHANGED <<todo, active, enabled, paused, threads>>
  BY <1>7 DEF RestInv, RestWithoutPool, RestWhileOff, RunsAreWanted, StartsAtRest,
              StoreIsLast, Do, Pending
<1>8. CASE Dataset
  BY <1>7, <1>8 DEF Dataset, minerVars
<1>9. ASSUME NEW i \in Worker, Works(i) PROVE RestInv'
  <2>1. UNCHANGED <<todo, active, enabled, paused, threads>>
    BY <1>9 DEF Works, Top, Wakes, Take, Mark, Vm, Loop, Hash, End, Goes, minerVars
  <2> QED BY <2>1, <1>7
<1>10. CASE UNCHANGED vars
  BY <1>7, <1>10 DEF vars, minerVars
<1> QED BY <1>1, <1>2, <1>3, <1>4, <1>5, <1>6, <1>8, <1>9, <1>10 DEF Next, Loops

(* As long as nobody stops the miner by request, no order of jobs, lost    *)
(* pools, pauses and datasets leaves threads running that have no pool or  *)
(* that the user has paused.  A stop leaves Nonce::m_paused cleared, and a *)
(* dataset that is ready later starts the threads without a look at it.    *)
THEOREM NoUnwantedWork == Spec /\ [][~Stop]_vars => []WorkIsWanted
<1>1. Init => RestInv
  BY DEF Init, RestInv, RestWithoutPool, RestWhileOff, RunsAreWanted, StartsAtRest,
         StoreIsLast, Do, Pending
<1>2. RestInv /\ SeedsKnown /\ MinerTypeOK /\ [Next]_vars /\ [~Stop]_vars => RestInv'
  BY NextRest
<1>3. QueueInv => SeedsKnown
  BY DEF QueueInv
<1>4. Spec => []MinerTypeOK
  BY InitTypes, NextTypes, PTL DEF Spec
<1>5. RestInv => WorkIsWanted
  <2> SUFFICES ASSUME RestInv, todo = <<>>, threads, ~paused PROVE active /\ enabled
    BY DEF WorkIsWanted
  <2>1. ~Pending("store") /\ ~Pending("join") /\ ~Do("pause")
    BY DEF Pending, Do
  <2> QED BY <2>1 DEF RestInv, RestWithoutPool, RestWhileOff
<1> QED BY <1>1, <1>2, <1>3, <1>4, <1>5, QueueInvariant, PTL DEF Spec

-----------------------------------------------------------------------------
(* No lost wake-up: whenever the loop is free, a miner that has a pool and *)
(* is enabled but paused waits for the dataset of its own job, and either  *)
(* the queue is at work or the call that resumes the miner is on its way   *)
(* (Miner::setJob, RxQueue::enqueue, onDatasetReady).                      *)
WakeIsComing ==
    todo = <<>> /\ active /\ enabled /\ paused => qseed = job.seed /\ (async \/ qstate = "PENDING")

(* The strengthening: the newest seed is the one that is built last; ...   *)
LastWins == qstate = "PENDING" => (IF queue = <<>> THEN bg ELSE queue[Len(queue)]) = qseed

(* ... it is the seed of the job, or is about to be; ...                   *)
JobIsQueued ==
    /\ job.seed # NoSeed => qseed = job.seed \/ Pending("enqueue")
    /\ active => job.seed # NoSeed

(* ... and what pauses a miner that is wanted is followed by what resumes  *)
(* it.                                                                     *)
Resumes ==
    active /\ enabled /\ paused =>
        \/ async \/ qstate = "PENDING"
        \/ Pending("run") \/ Pending("store") \/ Pending("enqueue")
PausesAreMeant == Pending("pause") => ~(active /\ enabled) \/ Pending("store")

WakeInv == LastWins /\ JobIsQueued /\ Resumes /\ PausesAreMeant

(* The thread of the queue keeps the invariant. *)
LEMMA DatasetWake ==
    ASSUME WakeInv, QueueInv, Dataset PROVE WakeInv'
<1> USE DEF QueueInv
<1>0. UNCHANGED <<job, todo, active, enabled, paused>>
  BY DEF Dataset, minerVars
<1>1. CASE Takes
  <2>1. /\ bg' = queue[Len(queue)] /\ queue' = <<>> /\ queue # <<>>
        /\ qstate = "PENDING" /\ UNCHANGED <<qstate, qseed, async>>
    BY <1>1 DEF Takes, NeverTakesNothing
  <2>2. LastWins'
    BY <2>1 DEF WakeInv, LastWins
  <2> QED BY <1>0, <2>1, <2>2 DEF WakeInv, JobIsQueued, Resumes, PausesAreMeant, Pending
<1>2. CASE Builds
  <2>1. qstate = "PENDING"
    BY <1>2 DEF Builds, IdleIsBuilt, QueueTypeOK
  <2>2. CASE queue # <<>>
    <3>1. UNCHANGED <<qstate, qseed, async, queue>>
      BY <1>2, <2>2 DEF Builds
    <3>2. LastWins'
      BY <2>2, <3>1 DEF WakeInv, LastWins
    <3> QED BY <1>0, <3>1, <3>2 DEF WakeInv, JobIsQueued, Resumes, PausesAreMeant, Pending
  <2>3. CASE queue = <<>>
    <3>1. qstate' = "IDLE" /\ qseed' = bg /\ async' = TRUE
      BY <1>2, <2>3 DEF Builds
    <3>2. qseed' = qseed
      BY <2>1, <2>3, <3>1 DEF WakeInv, LastWins
    <3> QED BY <1>0, <3>1, <3>2 DEF WakeInv, LastWins, JobIsQueued, Resumes, PausesAreMeant, Pending
  <2> QED BY <2>2, <2>3
<1> QED BY <1>1, <1>2 DEF Dataset

(* A call of the miner keeps the invariant: what it leaves to do makes up  *)
(* for what it does.                                                       *)
LEMMA CallWake ==
    ASSUME WakeInv, todo = <<>>, UNCHANGED <<queueVars, job, paused>>,
           \/ todo' = <<>> /\ ~active'
           \/ todo' = <<>> /\ UNCHANGED <<active, enabled>>
           \/ todo' = <<"pause", "touch">> /\ (active' => active) /\ ~(active' /\ enabled')
           \/ todo' = <<"run", "touch">> /\ active' = active
           \/ todo' = <<"run", "zero", "join">> /\ active' = active
           \/ /\ todo' \in {<<"store">>, <<"pause", "touch", "store">>,
                            <<"run", "zero", "join", "store">>}
              /\ active' = active
    PROVE  WakeInv'
<1>0. UNCHANGED <<qstate, qseed, queue, bg, async, job, paused>>
  BY DEF queueVars
<1>1. LastWins'
  BY <1>0 DEF WakeInv, LastWins
<1>2. JobIsQueued'
  <2>1. ~Pending("enqueue")
    BY DEF Pending
  <2>2. active' => active
    OBVIOUS
  <2> QED BY <1>0, <2>1, <2>2 DEF WakeInv, JobIsQueued
<1>3. CASE todo' = <<>> /\ ~active'
  <2>1. Resumes' /\ PausesAreMeant'
    BY <1>3 DEF Resumes, PausesAreMeant
  <2> QED BY <1>1, <1>2, <2>1 DEF WakeInv
<1>4. CASE todo' = <<>> /\ UNCHANGED <<active, enabled>>
  BY <1>0, <1>1, <1>2, <1>4 DEF WakeInv, Resumes, PausesAreMeant, Pending
<1>5. CASE todo' = <<"pause", "touch">> /\ ~(active' /\ enabled')
  <2>1. Resumes' /\ PausesAreMeant'
    BY <1>5 DEF Resumes, PausesAreMeant
  <2> QED BY <1>1, <1>2, <2>1 DEF WakeInv
<1>6. CASE todo' = <<"run", "touch">> \/ todo' = <<"run", "zero", "join">>
  <2>1. Pending("run")' /\ ~Pending("pause")'
    BY <1>6 DEF Pending
  <2>2. Resumes' /\ PausesAreMeant'
    BY <2>1 DEF Resumes, PausesAreMeant
  <2> QED BY <1>1, <1>2, <2>2 DEF WakeInv
<1>7. CASE todo' \in {<<"store">>, <<"pause", "touch", "store">>,
                      <<"run", "zero", "join", "store">>}
  <2>1. Pending("store")'
    BY <1>7 DEF Pending
  <2>2. Resumes' /\ PausesAreMeant'
    BY <2>1 DEF Resumes, PausesAreMeant
  <2> QED BY <1>1, <1>2, <2>2 DEF WakeInv
<1> QED BY <1>3, <1>4, <1>5, <1>6, <1>7

(* The list of handleJobChange() resumes a miner that is wanted. *)
LEMMA ChangeWake ==
    ASSUME NEW STATE act, act \in BOOLEAN, todo' = handleJobChange(act), active' = act,
           enabled' = enabled
    PROVE  Resumes' /\ PausesAreMeant'
<1>1. act /\ enabled => Pending("run")'
  BY ChangeFacts DEF Pending
<1>2. Pending("pause")' => ~enabled
  BY ChangeFacts DEF Pending
<1> QED BY <1>1, <1>2 DEF Resumes, PausesAreMeant

(* The writes of a handler keep the invariant. *)
LEMMA WriteWake ==
    ASSUME WakeInv, SeedsKnown, Counters \/ Join \/ Start
    PROVE  WakeInv'
<1>0. /\ todo # <<>> /\ todo' = Tail(todo) /\ UNCHANGED <<active, enabled, job, queueVars>>
      /\ Head(todo) # "store" /\ Head(todo) # "enqueue"
  BY DEF Counters, Join, Start, Do
<1>q. UNCHANGED <<qstate, qseed, queue, bg, async>>
  BY <1>0 DEF queueVars
<1>1. {"pause", "run", "store", "enqueue"} \subseteq Op /\ todo \in Seq(Op)
  BY DEF Op, SeedsKnown
<1>p. /\ \A op \in Op : Pending(op)' => Pending(op)
      /\ \A op \in Op : Pending(op) /\ Head(todo) # op => Pending(op)'
  BY <1>0, <1>1, TailFacts
<1>s. /\ Pending("store") => Pending("store")'
      /\ Pending("enqueue") => Pending("enqueue")'
      /\ Pending("run") /\ Head(todo) # "run" => Pending("run")'
      /\ Pending("pause")' => Pending("pause")
  BY <1>0, <1>1, <1>p
<1>2. LastWins' /\ JobIsQueued'
  BY <1>0, <1>q, <1>s DEF WakeInv, LastWins, JobIsQueued
<1>3. PausesAreMeant'
  BY <1>0, <1>s DEF WakeInv, PausesAreMeant
<1>4. Resumes'
  <2>1. CASE Head(todo) = "pause"
    <3>1. Pending("pause")
      BY <1>0, <1>1, <2>1 DEF Pending
    <3>2. active /\ enabled => Pending("store")'
      BY <3>1, <1>s DEF WakeInv, PausesAreMeant
    <3> QED BY <1>0, <3>2 DEF Resumes
  <2>2. CASE Head(todo) = "run"
    <3>1. paused' = FALSE
      BY <2>2 DEF Counters, Join, Start, Do
    <3> QED BY <3>1 DEF Resumes
  <2>3. CASE Head(todo) \notin {"pause", "run"}
    <3>1. paused' = paused
      BY <2>3 DEF Counters, Join, Start, Do
    <3> QED BY <1>0, <1>q, <1>s, <2>3, <3>1 DEF WakeInv, Resumes
  <2> QED BY <2>1, <2>2, <2>3
<1> QED BY <1>2, <1>3, <1>4 DEF WakeInv

(* The end of setJob() keeps the invariant: the job is ready and handled,  *)
(* or its seed is enqueued.                                                *)
LEMMA StoreWake ==
    ASSUME WakeInv, QueueTypeOK, SeedsKnown, Store \/ Enqueue
    PROVE  WakeInv'
<1>1. CASE Store
  <2>1. /\ todo # <<>> /\ Head(todo) = "store" /\ job' = incoming /\ active' = TRUE
        /\ enabled' = enabled /\ UNCHANGED <<qstate, qseed, queue, bg, async>>
    BY <1>1 DEF Store, Do, queueVars
  <2>2. Pending("store")
    BY <2>1 DEF SeedsKnown, Pending
  <2>3. job'.seed \in Seed /\ job'.seed # NoSeed
    BY <2>1, <2>2, SeedAssumption DEF SeedsKnown
  <2>4. LastWins'
    BY <2>1 DEF WakeInv, LastWins
  <2>5. CASE isReady(incoming.seed)
    <3>1. todo' = handleJobChange(TRUE) /\ qseed' = job'.seed
      BY <1>1, <2>1, <2>5 DEF Store, isReady
    <3>2. Resumes' /\ PausesAreMeant'
      BY <2>1, <3>1, ChangeWake
    <3> QED BY <2>3, <2>4, <3>1, <3>2 DEF WakeInv, JobIsQueued
  <2>6. CASE ~isReady(incoming.seed)
    <3>1. todo' = <<"enqueue">>
      BY <1>1, <2>6 DEF Store
    <3>2. Pending("enqueue")' /\ ~Pending("pause")'
      BY <3>1 DEF Pending
    <3> QED BY <2>3, <2>4, <3>2 DEF WakeInv, JobIsQueued, Resumes, PausesAreMeant
  <2> QED BY <2>5, <2>6
<1>2. CASE Enqueue
  <2>1. /\ todo # <<>> /\ Head(todo) = "enqueue" /\ todo' = Tail(todo) /\ enqueue(job.seed)
        /\ UNCHANGED <<job, active, enabled, paused>>
    BY <1>2 DEF Enqueue, Do
  <2>2. qstate' = "PENDING" /\ qseed' = job.seed
    BY <2>1 DEF enqueue
  <2>3. "pause" \in Op /\ "store" \in Op /\ todo \in Seq(Op)
    BY DEF Op, SeedsKnown
  <2>4. (Pending("pause")' => Pending("pause")) /\ (Pending("store") => Pending("store")')
    BY <2>1, <2>3, TailFacts
  <2>5. PausesAreMeant'
    BY <2>1, <2>4 DEF WakeInv, PausesAreMeant
  <2>6. LastWins'
    <3>1. CASE qstate = "PENDING" /\ qseed = job.seed
      BY <2>1, <3>1 DEF enqueue, WakeInv, LastWins
    <3>2. CASE ~(qstate = "PENDING" /\ qseed = job.seed)
      <4>1. queue' = Append(queue, job.seed)
        BY <2>1, <3>2 DEF enqueue
      <4>2. Pending("enqueue")
        BY <2>1, <2>3 DEF Pending
      <4>3. queue \in Seq(Seed) /\ job.seed \in Seed
        BY <4>2 DEF QueueTypeOK, SeedsKnown
      <4>4. /\ queue' # <<>> /\ Len(queue') = Len(queue) + 1
            /\ queue'[Len(queue) + 1] = job.seed
        BY <4>1, <4>3, AppendProperties
      <4> QED BY <2>2, <4>4 DEF LastWins
    <3> QED BY <3>1, <3>2
  <2> QED BY <2>1, <2>2, <2>5, <2>6 DEF WakeInv, JobIsQueued, Resumes
<1> QED BY <1>1, <1>2

(* Every step keeps the invariant. *)
LEMMA NextWake ==
    ASSUME WakeInv, QueueInv, MinerTypeOK, [Next]_vars
    PROVE  WakeInv'
<1>t. /\ QueueTypeOK /\ SeedsKnown
      /\ enabled \in BOOLEAN /\ active \in BOOLEAN
  BY DEF QueueInv, MinerTypeOK
<1>1. ASSUME NEW s \in Seed, SetJob(s) PROVE WakeInv'
  <2>1. UNCHANGED <<queueVars, job, paused>>
    BY <1>1 DEF SetJob, Call
  <2> QED BY <1>1, <2>1, JobList, CallWake
<1>2. CASE Pause
  <2>1. /\ todo = <<>> /\ todo' = <<"pause", "touch">> /\ active' = FALSE
        /\ UNCHANGED <<queueVars, job, paused>>
    BY <1>2 DEF Pause, Call
  <2> QED BY <2>1, CallWake
<1>3. ASSUME NEW e \in BOOLEAN, SetEnabled(e) PROVE WakeInv'
  <2>1. todo = <<>> /\ enabled' = e /\ active' = active /\ UNCHANGED <<queueVars, job, paused>>
    BY <1>3 DEF SetEnabled, Call
  <2>2. CASE ~active
    <3>1. todo' = <<>>
      BY <1>3, <2>2 DEF SetEnabled, Call
    <3> QED BY <2>1, <2>2, <3>1, CallWake
  <2>3. CASE active /\ e
    <3>1. todo' = <<"run", "touch">>
      BY <1>3, <2>3 DEF SetEnabled, Call
    <3> QED BY <2>1, <3>1, CallWake
  <2>4. CASE active /\ ~e
    <3>1. todo' = <<"pause", "touch">>
      BY <1>3, <2>4 DEF SetEnabled, Call
    <3> QED BY <2>1, <2>4, <3>1, CallWake
  <2> QED BY <2>2, <2>3, <2>4
<1>4. CASE Stop
  <2>1. /\ todo = <<>> /\ todo' = <<"run", "zero", "join">> /\ active' = active
        /\ UNCHANGED <<queueVars, job, paused>>
    BY <1>4 DEF Stop, Call, Halt
  <2> QED BY <2>1, CallWake
<1>5. CASE Counters \/ Join \/ Start
  BY <1>t, <1>5, WriteWake
<1>6. CASE Store \/ Enqueue
  BY <1>t, <1>6, StoreWake
<1>7. CASE OnDatasetReady
  <2>1. todo = <<>> /\ UNCHANGED <<qstate, qseed, queue, bg, job, active, enabled, paused>>
    BY <1>7 DEF OnDatasetReady
  <2>2. ~Pending("enqueue") /\ ~Pending("run") /\ ~Pending("store")
    BY <2>1 DEF Pending
  <2>3. LastWins' /\ JobIsQueued'
    BY <2>1, <2>2 DEF WakeInv, LastWins, JobIsQueued
  <2>4. CASE isReady(job.seed)
    <3>1. todo' = handleJobChange(active)
      BY <1>7, <2>4 DEF OnDatasetReady
    <3>2. Resumes' /\ PausesAreMeant'
      BY <1>t, <2>1, <3>1, ChangeWake
    <3> QED BY <2>3, <3>2 DEF WakeInv
  <2>5. CASE ~isReady(job.seed)
    <3>1. todo' = <<>>
      BY <1>7, <2>5 DEF OnDatasetReady
    <3>2. active => qstate = "PENDING"
      BY <1>t, <2>2, <2>5 DEF WakeInv, JobIsQueued, isReady, QueueTypeOK
    <3>3. Resumes' /\ PausesAreMeant'
      BY <2>1, <3>1, <3>2 DEF Resumes, PausesAreMeant, Pending
    <3> QED BY <2>3, <3>3 DEF WakeInv
  <2> QED BY <2>4, <2>5
<1>8. CASE Dataset
  BY <1>8, DatasetWake
<1>9. CASE UNCHANGED <<qstate, qseed, queue, bg, async, job, todo, active, enabled, paused>>
  BY <1>9 DEF WakeInv, LastWins, JobIsQueued, Resumes, PausesAreMeant, Pending
<1>10. ASSUME NEW i \in Worker, Works(i) PROVE WakeInv'
  <2>1. UNCHANGED <<queueVars, minerVars, paused>>
    BY <1>10 DEF Works, Top, Wakes, Take, Mark, Vm, Loop, Hash, End, Goes
  <2> QED BY <2>1, <1>9 DEF queueVars, minerVars
<1>11. CASE UNCHANGED vars
  BY <1>9, <1>11 DEF vars, queueVars, minerVars
<1> QED BY <1>1, <1>2, <1>3, <1>4, <1>5, <1>6, <1>7, <1>8, <1>10, <1>11 DEF Next, Loops

(* The safety half of MinerResumes, for any seeds, threads and calls: the  *)
(* dataset that a paused miner waits for is that of its job, and somebody  *)
(* is still going to tell it.                                              *)
THEOREM NoLostWakeUp == Spec => [](WakeIsComing /\ LastWins)
<1>1. Init => WakeInv
  <2> SUFFICES ASSUME Init PROVE WakeInv
    OBVIOUS
  <2>1. job.seed = NoSeed /\ ~active /\ todo = <<>> /\ qstate = "IDLE"
    BY DEF Init, NoJob, QueueInit
  <2> QED BY <2>1 DEF WakeInv, LastWins, JobIsQueued, Resumes, PausesAreMeant, Pending
<1>2. WakeInv /\ QueueInv /\ MinerTypeOK /\ [Next]_vars => WakeInv'
  BY NextWake
<1>3. Spec => []MinerTypeOK
  BY InitTypes, NextTypes, PTL DEF Spec
<1>4. WakeInv => WakeIsComing /\ LastWins
  BY DEF WakeInv, WakeIsComing, JobIsQueued, Resumes, Pending
<1> QED BY <1>1, <1>2, <1>3, <1>4, QueueInvariant, PTL DEF Spec
=============================================================================

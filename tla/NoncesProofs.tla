---------------------------- MODULE NoncesProofs ----------------------------
(***************************************************************************)
(* Proofs about the nonces: blocks fit, and no nonce of the miner's job is *)
(* handed out twice, for any workers, block sizes and number of jobs.      *)
(***************************************************************************)
EXTENDS Nonces, WellFoundedInduction, TLAPS

(* What a handler of the event loop has still to write. *)
Before == {<<"store">>, <<"pause", "touch", "store">>, <<"touch", "store">>}
After  == {<<"reset", "touch", "run">>, <<"touch", "run">>, <<"run">>}

Storing == todo \in Before

(* The counter of the miner's job is about to start again: in this         *)
(* handler, or in the one that the dataset will call.                      *)
ResetDue ==
    \/ todo = <<"reset", "touch", "run">>
    \/ todo = <<>> /\ reset /\ ~told

(* The job that was set last is one of the fee. *)
InFee == IF Storing THEN incoming.index = 1 ELSE job.index = 1

(* No nonce of blob b was given; those that were are behind counter x. *)
NoneOf(b)   == \A p \in given : p[1] # b
Below(b, x) == \A p \in given : p[1] = b => p[2] < counter[x]

(* Nonces are given from the counter of their job, and where it starts     *)
(* again none of its blob was given, or they are forgotten (StartsAgain).  *)
GivenInv ==
    /\ Below(latest.blob, 0)
    /\ job.index = 1 => Below(job.blob, 1)
    /\ ResetDue => NoneOf(job.blob)
    /\ InFee /\ userId # latest.no => NoneOf(latest.blob)
    /\ Storing /\ Resets(incoming) /\ ~SameUnready(incoming) => NoneOf(incoming.blob)
    /\ Storing /\ incoming.index = 1 => NoneOf(incoming.blob)

(* The types, and the shapes of a list of writes. *)
TypeInv == TypeOK /\ todo \in Before \cup After \cup {<<>>}

(* The miner is on the last user job or on one of the fee. *)
JobsInv ==
    /\ latest.index = 0 /\ latest.no <= jobs /\ userId <= jobs
    /\ ~Storing => incoming = NoJob
    /\ ~Storing /\ job.index = 0 => job = latest /\ userId = latest.no
    /\ Storing => incoming = latest \/ incoming.index = 1
    /\ \A p \in given : p[1] <= jobs

(* A blob belongs to the user or to the fee, wherever it is. *)
Fits(j) ==
    /\ j.blob <= jobs
    /\ j.blob = job.blob => j.index = job.index
    /\ j.blob = latest.blob => j.index = 0
    /\ Storing /\ j.blob = incoming.blob => j.index = incoming.index

FitInv ==
    /\ Fits(NoJob) /\ Fits(job) /\ Fits(latest) /\ Fits(incoming)
    /\ \A i \in Worker : Fits(w[i].next) /\ Fits(w[i].job[0]) /\ Fits(w[i].job[1])

Inv == TypeInv /\ GivenInv /\ JobsInv /\ FitInv /\ ~twice

-----------------------------------------------------------------------------
(* Numbers. *)

(* A set of numbers has a least one. *)
LEMMA LeastOf ==
    ASSUME NEW T, T \subseteq Nat, T # {}
    PROVE  \E k \in T : \A j \in T : ~(j < k)
<1> DEFINE R == OpToRel(<, Nat)
<1>1. IsWellFoundedOn(R, Nat)
  BY NatLessThanWellFounded
<1>2. \A j, k \in Nat : j < k => <<j, k>> \in R
  BY DEF OpToRel
<1> HIDE DEF R
<1>3. PICK k \in T : \A j \in T : ~(<<j, k>> \in R)
  BY <1>1, WFMin
<1> QED BY <1>2, <1>3

(* Multiples of a block. *)
LEMMA Multiples ==
    ASSUME NEW r \in Nat, r >= 1, NEW j \in Nat, NEW k \in Nat
    PROVE  /\ k * r \in Nat /\ k * r >= k
           /\ j * r < k * r => j < k
<1>1. k * r \in Nat /\ j * r \in Nat
  OBVIOUS
<1>2. k * r >= k
  OBVIOUS
<1>3. j >= k => j * r >= k * r
  OBVIOUS
<1> QED BY <1>1, <1>2, <1>3

(* Nonce::next: the block that is not skipped begins at the counter or     *)
(* behind it.                                                              *)
LEMMA FetchedFacts ==
    ASSUME NEW c \in Nat, NEW r \in 1 .. Word
    PROVE  /\ Fetched(c, r) \in Nat /\ Fetched(c, r) >= c
           /\ Fetched(c, r) > Mask \/ ~Crosses(Fetched(c, r), r)
<1> DEFINE at(k) == c + k * r
           Good(k) == at(k) > Mask \/ ~Crosses(at(k), r)
           K == {k \in 0 .. Mask + 1 : Good(k)}
           First(k) == Good(k) /\ \A j \in 0 .. k - 1 : Crosses(at(j), r)
<1>0. r \in Nat /\ r >= 1 /\ Mask \in Nat
  BY NonceAssumption
<1>1. \A k \in Nat : at(k) \in Nat /\ at(k) >= c + k
  <2> TAKE k \in Nat
  <2>1. k * r \in Nat /\ k * r >= k
    BY <1>0, Multiples
  <2> HIDE DEF at
  <2> QED BY <2>1 DEF at
<1>2. Mask + 1 \in K
  <2>1. at(Mask + 1) > Mask
    BY <1>0, <1>1
  <2> QED BY <1>0, <2>1
<1>3. PICK k \in K : \A j \in K : ~(j < k)
  <2>1. K \subseteq Nat /\ K # {}
    <3> HIDE DEF Good, at
    <3>1. K \subseteq 0 .. Mask + 1
      OBVIOUS
    <3>2. 0 .. Mask + 1 \subseteq Nat
      BY <1>0
    <3> HIDE DEF K
    <3> QED BY <1>2, <3>1, <3>2
  <2> HIDE DEF K
  <2> QED BY <2>1, LeastOf
<1>4. k \in 0 .. Mask + 1 /\ Good(k) /\ k \in Nat
  BY <1>0, <1>3
<1>5. First(k)
  <2>1. ASSUME NEW j \in 0 .. k - 1 PROVE Crosses(at(j), r)
    <3>1. j \in 0 .. Mask + 1 /\ j < k
      BY <1>0, <1>4
    <3>2. j \notin K
      BY <1>3, <3>1
    <3> QED BY <3>1, <3>2
  <2> QED BY <1>4, <2>1
<1>6. Skipped(c, r) = CHOOSE m \in 0 .. Mask + 1 : First(m)
  BY DEF Skipped
<1> HIDE DEF First, at
<1>7. Skipped(c, r) \in 0 .. Mask + 1 /\ First(Skipped(c, r))
  BY <1>4, <1>5, <1>6
<1>8. Skipped(c, r) \in Nat /\ Fetched(c, r) = at(Skipped(c, r))
  BY <1>0, <1>7 DEF Fetched, at
<1> QED BY <1>1, <1>7, <1>8 DEF First

(* Division: what lies in the same word. *)
LEMMA SameWord ==
    ASSUME NEW W \in Nat \ {0}, NEW q \in Nat, NEW m \in Nat, m < W
    PROVE  (W * q + m) \div W = q
  OBVIOUS

(* Quotient and remainder. *)
LEMMA Division ==
    ASSUME NEW W \in Nat \ {0}, NEW a \in Nat
    PROVE  /\ a \div W \in Nat /\ a % W \in Nat /\ a % W < W
           /\ a = W * (a \div W) + (a % W)
  OBVIOUS

(* A block that next() hands out lies in the nonce space, in one word. *)
LEMMA BlockFits ==
    ASSUME NEW c \in Nat, NEW r \in 1 .. Word, Enough(Fetched(c, r), r)
    PROVE  /\ Fetched(c, r) + r - 1 <= Mask
           /\ (Fetched(c, r) + r - 1) \div Word = Fetched(c, r) \div Word
<1> DEFINE d == Fetched(c, r)
           e == d + r - 1
<1>1. d \in Nat /\ (d > Mask \/ ~Crosses(d, r)) /\ Enough(d, r)
  BY FetchedFacts
<1> HIDE DEF d
<1>2. Mask \in Nat /\ Word \in Nat \ {0} /\ r \in Nat /\ r >= 1 /\ r <= Word
  BY NonceAssumption
<1>3. d <= Mask /\ Mask - d >= r - 1 /\ e \in Nat /\ e <= Mask /\ d <= e
  BY <1>1, <1>2 DEF Enough
<1>4. CASE Mask < Word
  <2>1. d < Word /\ e < Word /\ Word * 0 + d = d /\ Word * 0 + e = e
    BY <1>1, <1>2, <1>3, <1>4
  <2>2. (Word * 0 + d) \div Word = 0 /\ (Word * 0 + e) \div Word = 0
    BY <1>1, <1>2, <1>3, <2>1, SameWord
  <2> QED BY <1>3, <2>1, <2>2 DEF d
<1>5. CASE ~(Mask < Word)
  <2>0. (Mask + 1) % Word = 0
    BY <1>5, NonceAssumption
  <2> DEFINE q == d \div Word
             m == d % Word
  <2>1. q \in Nat /\ m \in Nat /\ m < Word /\ d = Word * q + m
    BY <1>1, <1>2, Division
  <2>2. m + r - 1 < Word
    <3>1. CASE Mask - d > r - 1
      BY <1>1, <1>2, <1>3, <2>1, <3>1 DEF Crosses
    <3>2. CASE ~(Mask - d > r - 1)
      <4>1. Mask + 1 = d + r
        BY <1>1, <1>2, <1>3, <3>2
      <4> DEFINE t == (Mask + 1) \div Word
      <4>2. t \in Nat /\ Mask + 1 = Word * t
        BY <1>2, <2>0, Division
      <4> HIDE DEF t, q, m
      <4>3. Word * t = Word * q + (m + r)
        BY <1>2, <2>1, <4>1, <4>2
      <4>4. t <= q \/ t = q + 1 \/ t >= q + 2
        BY <2>1, <4>2
      <4>5. t <= q => Word * t <= Word * q
        BY <1>2, <2>1, <4>2
      <4>6. t >= q + 2 => Word * t >= Word * q + 2 * Word
        BY <1>2, <2>1, <4>2
      <4>7. Word * q \in Nat /\ Word * t \in Nat
        BY <1>2, <2>1, <4>2
      <4>8. t = q + 1 => Word * t = Word * q + Word
        BY <1>2, <2>1, <4>2
      <4>9. m + r > 0 /\ m + r < 2 * Word
        BY <1>2, <2>1
      <4>10. m + r = Word
        <5>1. ~(t <= q)
          BY <1>2, <2>1, <4>3, <4>5, <4>7, <4>9
        <5>2. ~(t >= q + 2)
          BY <1>2, <2>1, <4>3, <4>6, <4>7, <4>9
        <5> QED BY <1>2, <2>1, <4>3, <4>4, <4>7, <4>8, <5>1, <5>2
      <4> QED BY <1>2, <2>1, <4>10
    <3> QED BY <3>1, <3>2
  <2>3. e = Word * q + (m + r - 1)
    BY <1>2, <2>1
  <2>4. m + r - 1 \in Nat
    BY <1>2, <2>1
  <2>5. (Word * q + (m + r - 1)) \div Word = q
    BY <1>2, <2>1, <2>2, <2>4, SameWord
  <2> QED BY <1>3, <2>3, <2>5 DEF d
<1> QED BY <1>4, <1>5

(* A block that next() hands out lies behind the counter of before and     *)
(* before the counter of after.                                            *)
LEMMA BlockFacts ==
    ASSUME NEW c \in 0 .. Mask + 1, NEW r \in 1 .. Word
    PROVE  /\ Capped(Fetched(c, r) + r) \in 0 .. Mask + 1
           /\ c <= Capped(Fetched(c, r) + r)
           /\ Enough(Fetched(c, r), r) =>
                 \A y \in Fetched(c, r) .. Fetched(c, r) + r - 1 :
                    y \in 0 .. Mask /\ c <= y /\ y < Capped(Fetched(c, r) + r)
<1> DEFINE d == Fetched(c, r)
<1>0. Mask \in Nat /\ r \in Nat /\ r >= 1 /\ c \in Nat /\ c <= Mask + 1
  BY NonceAssumption
<1>1. d \in Nat /\ d >= c
  BY <1>0, FetchedFacts
<1> HIDE DEF d
<1>2. Capped(d + r) \in 0 .. Mask + 1 /\ c <= Capped(d + r)
  BY <1>0, <1>1 DEF Capped
<1>3. ASSUME Enough(d, r), NEW y \in d .. d + r - 1
      PROVE  y \in 0 .. Mask /\ c <= y /\ y < Capped(d + r)
  BY <1>0, <1>1, <1>3 DEF Enough, Capped
<1> QED BY <1>2, <1>3 DEF d

-----------------------------------------------------------------------------
(* The lists of writes of the handlers. *)
LEMMA ListFacts ==
    /\ handleJobChange(TRUE) = <<"reset", "touch", "run">>
    /\ handleJobChange(FALSE) = <<"touch", "run">>
    /\ Tail(<<"pause", "touch", "store">>) = <<"touch", "store">>
    /\ Tail(<<"touch", "store">>) = <<"store">>
    /\ Tail(<<"reset", "touch", "run">>) = <<"touch", "run">>
    /\ Tail(<<"touch", "run">>) = <<"run">>
    /\ Tail(<<"run">>) = <<>>
    /\ Before \cap (After \cup {<<>>}) = {} /\ <<>> \notin After
    /\ \A t \in Before \cup After \cup {<<>>} : t \in Seq(Op)
<1>1. handleJobChange(TRUE) = <<"reset", "touch", "run">> /\ handleJobChange(FALSE) = <<"touch", "run">>
  BY DEF handleJobChange
<1>2. /\ Tail(<<"pause", "touch", "store">>) = <<"touch", "store">>
      /\ Tail(<<"touch", "store">>) = <<"store">>
      /\ Tail(<<"reset", "touch", "run">>) = <<"touch", "run">>
      /\ Tail(<<"touch", "run">>) = <<"run">>
      /\ Tail(<<"run">>) = <<>>
  OBVIOUS
<1>3. Before \cap (After \cup {<<>>}) = {} /\ <<>> \notin After
  BY DEF Before, After
<1>4. \A t \in Before \cup After \cup {<<>>} : t \in Seq(Op)
  <2>1. <<>> \in Seq(Op) /\ <<"store">> \in Seq(Op) /\ <<"run">> \in Seq(Op)
    BY DEF Op
  <2>2. <<"touch", "store">> \in Seq(Op) /\ <<"touch", "run">> \in Seq(Op)
    BY DEF Op
  <2>3. <<"pause", "touch", "store">> \in Seq(Op) /\ <<"reset", "touch", "run">> \in Seq(Op)
    BY DEF Op
  <2> QED BY <2>1, <2>2, <2>3 DEF Before, After
<1> QED BY <1>1, <1>2, <1>3, <1>4

(* MinerPrivate::handleJobChange: the counters start again if they should. *)
LEMMA ChangeFacts ==
    \A r \in BOOLEAN : /\ handleJobChange(r) \in {<<"reset", "touch", "run">>, <<"touch", "run">>}
                       /\ handleJobChange(r) = <<"reset", "touch", "run">> => r
                       /\ handleJobChange(r) # <<>>
<1> TAKE r \in BOOLEAN
<1>1. /\ <<"touch", "run">> # <<"reset", "touch", "run">>
      /\ <<"touch", "run">> # <<>>
      /\ <<"reset", "touch", "run">> # <<>>
  OBVIOUS
<1>2. CASE r = TRUE
  BY <1>1, <1>2, ListFacts
<1>3. CASE r = FALSE
  BY <1>1, <1>3, ListFacts
<1> QED BY <1>2, <1>3

-----------------------------------------------------------------------------
(* The workers. *)

(* What a block reserved for job j changes: the counters grow, and what is *)
(* given lay between the counter of before and that of after.              *)
LEMMA ReservesFacts ==
    ASSUME TypeOK, NEW i \in Worker, NEW r \in WorkerRecord, NEW j \in Job,
           NEW z \in {"work", "idle"}, Reserves(i, r, j, z)
    PROVE  /\ counter' \in [{0, 1} -> 0 .. Mask + 1]
           /\ \A x \in {0, 1} : counter[x] <= counter'[x]
           /\ paused' \in BOOLEAN
           /\ \E p \in {"work", "idle"} : w' = [w EXCEPT ![i] = [r EXCEPT !.pc = p]]
           /\ UNCHANGED <<minerVars, ready, async, todo, told, again>>
           /\ given' \subseteq (0 .. MaxJobs) \X (0 .. Mask) /\ twice' \in BOOLEAN
           /\ \/ UNCHANGED <<given, twice>>
              \/ /\ j.blob = job.blob /\ Announced
                 /\ \A p \in given' : p \in given \/ (p[1] = j.blob /\ p[2] < counter'[j.index])
                 /\ twice' => twice \/ \E p \in given : p[1] = j.blob /\ ~(p[2] < counter[j.index])
<1> DEFINE x == j.index
           b == j.blob
           c == counter[x]
           n == Reserve[i]
           d == Fetched(c, n)
           D == d .. d + n - 1
           s == {b} \X D
           e == Capped(d + n)
<1>1. /\ counter' = IF Offers(n) THEN [counter EXCEPT ![x] = e] ELSE counter
      /\ paused' = (paused \/ (Offers(n) /\ Pauses(d, n)))
      /\ Goes(i, [r EXCEPT !.pc = IF Enough(d, n) THEN "work" ELSE z])
      /\ IF Enough(d, n) /\ b = job.blob /\ Announced /\ b \notin again
         THEN given' = given \cup s /\ twice' = (twice \/ given \cap s # {})
         ELSE UNCHANGED <<given, twice>>
  BY DEF Reserves
<1>2. x \in {0, 1} /\ b \in 0 .. MaxJobs /\ c \in 0 .. Mask + 1 /\ n \in 1 .. Word
  BY NonceAssumption DEF TypeOK, Job
<1>3. /\ e \in 0 .. Mask + 1 /\ c <= e
      /\ Enough(d, n) => \A y \in D : y \in 0 .. Mask /\ c <= y /\ y < e
  <2> HIDE DEF c, n
  <2> QED BY <1>2, BlockFacts
<1>4. Enough(d, n) => Offers(n)
  <2>1. d \in Nat /\ n \in Nat /\ Mask \in Nat
    <3>1. c \in Nat
      BY <1>2, NonceAssumption
    <3> HIDE DEF c, n
    <3> QED BY <1>2, <3>1, FetchedFacts, NonceAssumption
  <2> HIDE DEF d, n
  <2> QED BY <2>1 DEF Enough, Offers
<1> DEFINE q == IF Enough(d, n) THEN "work" ELSE z
<1>5. q \in {"work", "idle"}
  OBVIOUS
<1>c. counter \in [{0, 1} -> 0 .. Mask + 1] /\ paused \in BOOLEAN /\ twice \in BOOLEAN
      /\ given \subseteq (0 .. MaxJobs) \X (0 .. Mask) /\ Mask \in Nat
  BY NonceAssumption DEF TypeOK
<1> HIDE DEF D, e, d, n
<1>6. w' = [w EXCEPT ![i] = [r EXCEPT !.pc = q]] /\ UNCHANGED <<minerVars, ready, async, todo, told, again>>
  BY <1>1 DEF Goes
<1>7. /\ counter' \in [{0, 1} -> 0 .. Mask + 1]
      /\ \A y \in {0, 1} : counter[y] <= counter'[y]
      /\ Offers(n) => counter'[x] = e
  BY <1>1, <1>2, <1>3, <1>c
<1>8. paused' \in BOOLEAN
  BY <1>1, <1>c, Zenon
<1>9. CASE ~(Enough(d, n) /\ b = job.blob /\ Announced /\ b \notin again)
  <2>1. UNCHANGED <<given, twice>>
    BY <1>1, <1>9
  <2> HIDE DEF q
  <2> QED BY <1>5, <1>6, <1>7, <1>8, <1>c, <2>1
<1>10. CASE Enough(d, n) /\ b = job.blob /\ Announced /\ b \notin again
  <2>1. given' = given \cup s /\ twice' = (twice \/ given \cap s # {})
    BY <1>1, <1>10
  <2>2. \A p \in s : p \in (0 .. MaxJobs) \X (0 .. Mask) /\ p[1] = b /\ p[2] < e /\ ~(p[2] < c)
    <3> TAKE p \in s
    <3>1. p[1] = b /\ p[2] \in D /\ p = <<p[1], p[2]>>
      OBVIOUS
    <3>2. p[2] \in 0 .. Mask /\ c <= p[2] /\ p[2] < e
      BY <1>3, <1>10, <3>1
    <3>3. ~(p[2] < c)
      BY <1>2, <1>c, <3>2
    <3> QED BY <1>2, <3>1, <3>2, <3>3
  <2> HIDE DEF s, q
  <2>3. counter'[x] = e
    BY <1>4, <1>7, <1>10
  <2>4. twice' \in BOOLEAN
    BY <1>c, <2>1, Zenon
  <2>5. twice' => twice \/ \E p \in given : p[1] = b /\ ~(p[2] < c)
    <3>1. twice' => twice \/ \E p \in given : p \in s
      BY <2>1
    <3> QED BY <2>2, <3>1
  <2>6. given' \subseteq (0 .. MaxJobs) \X (0 .. Mask)
    BY <1>c, <2>1, <2>2
  <2>7. \A p \in given' : p \in given \/ (p[1] = b /\ p[2] < counter'[x])
    BY <2>1, <2>2, <2>3
  <2> QED BY <1>5, <1>6, <1>7, <1>8, <1>10, <2>4, <2>5, <2>6, <2>7
<1> QED BY <1>9, <1>10


WorkerStep(i) == Wakes(i) \/ Notices(i) \/ Take(i) \/ Add(i) \/ NextBlock(i)

(* The records of the workers: their jobs are copies of the miner's job. *)
Copies(i, r) ==
    /\ r \in WorkerRecord
    /\ r.next \in {w[i].next, job, NoJob}
    /\ r.job[0] \in {w[i].job[0], w[i].next}
    /\ r.job[1] \in {w[i].job[1], w[i].next}

(* What a worker may change, and the job it may have been given nonces of. *)
MayChange(i) ==
    /\ counter' \in [{0, 1} -> 0 .. Mask + 1]
    /\ \A x \in {0, 1} : counter[x] <= counter'[x]
    /\ paused' \in BOOLEAN
    /\ \E r : Copies(i, r) /\ w' = [w EXCEPT ![i] = r]
    /\ UNCHANGED <<minerVars, ready, async, todo, told, again>>
    /\ given' \subseteq (0 .. MaxJobs) \X (0 .. Mask) /\ twice' \in BOOLEAN
    /\ \/ UNCHANGED <<given, twice>>
       \/ \E j \in {w[i].next, w[i].job[0], w[i].job[1]} :
             /\ j.blob = job.blob /\ Announced
             /\ \A p \in given' : p \in given \/ (p[1] = j.blob /\ p[2] < counter'[j.index])
             /\ twice' => twice \/ \E p \in given : p[1] = j.blob /\ ~(p[2] < counter[j.index])

(* A step that reserves nothing. *)
LEMMA QuietStep ==
    ASSUME TypeOK, NEW i \in Worker, NEW r, Copies(i, r), Goes(i, r), Keeps
    PROVE  MayChange(i)
<1>1. \A x \in {0, 1} : counter[x] <= counter[x]
  BY NonceAssumption DEF TypeOK
<1>2. w' = [w EXCEPT ![i] = r] /\ UNCHANGED <<minerVars, ready, async, todo, told, again>>
      /\ UNCHANGED <<counter, paused, given, twice>>
  BY DEF Goes, Keeps
<1> QED BY <1>1, <1>2 DEF MayChange, TypeOK

(* A step that reserves a block. *)
LEMMA BlockStep ==
    ASSUME TypeOK, NEW i \in Worker, NEW r, Copies(i, r), NEW z \in {"work", "idle"},
           NEW j \in {w[i].next, w[i].job[0], w[i].job[1]}, j \in Job, Reserves(i, r, j, z)
    PROVE  MayChange(i)
<1>0. r \in WorkerRecord
  BY DEF Copies
<1>1. /\ counter' \in [{0, 1} -> 0 .. Mask + 1]
      /\ \A x \in {0, 1} : counter[x] <= counter'[x]
      /\ paused' \in BOOLEAN
      /\ \E p \in {"work", "idle"} : w' = [w EXCEPT ![i] = [r EXCEPT !.pc = p]]
      /\ UNCHANGED <<minerVars, ready, async, todo, told, again>>
      /\ given' \subseteq (0 .. MaxJobs) \X (0 .. Mask) /\ twice' \in BOOLEAN
      /\ \/ UNCHANGED <<given, twice>>
         \/ /\ j.blob = job.blob /\ Announced
            /\ \A p \in given' : p \in given \/ (p[1] = j.blob /\ p[2] < counter'[j.index])
            /\ twice' => twice \/ \E p \in given : p[1] = j.blob /\ ~(p[2] < counter[j.index])
  BY <1>0, ReservesFacts
<1>2. PICK p \in {"work", "idle"} : w' = [w EXCEPT ![i] = [r EXCEPT !.pc = p]]
  BY <1>1
<1>3. Copies(i, [r EXCEPT !.pc = p])
  BY <1>0 DEF Copies, WorkerRecord
<1>4. \E rr : Copies(i, rr) /\ w' = [w EXCEPT ![i] = rr]
  BY <1>2, <1>3
<1> QED BY <1>1, <1>4 DEF MayChange

(* Every step of a worker is one of the two. *)
LEMMA WorkerFacts ==
    ASSUME TypeOK, NEW i \in Worker, WorkerStep(i)
    PROVE  MayChange(i)
<1> DEFINE v == w[i]
<1>1. v \in WorkerRecord /\ job \in Job /\ NoJob \in Job
  <2>1. 0 \in 0 .. MaxJobs
    BY NonceAssumption
  <2> QED BY <2>1 DEF TypeOK, Job, NoJob
<1>2. /\ v.next \in Job /\ v.index \in {0, 1} /\ v.job \in [{0, 1} -> Job]
      /\ v.job[0] \in Job /\ v.job[1] \in Job
  BY <1>1 DEF WorkerRecord
<1> HIDE DEF v
<1>3. \A p \in {"idle", "take", "add", "work"} : Copies(i, [v EXCEPT !.pc = p])
  BY <1>1 DEF Copies, WorkerRecord, v
<1>4. CASE Wakes(i)
  BY <1>3, <1>4, QuietStep DEF Wakes, v
<1>5. CASE Notices(i)
  BY <1>3, <1>5, QuietStep DEF Notices, v
<1>6. CASE Take(i)
  <2> DEFINE r == [v EXCEPT !.pc = "add", !.next = job]
  <2>1. Copies(i, r)
    BY <1>1 DEF Copies, WorkerRecord, v
  <2>2. Goes(i, r) /\ Keeps
    BY <1>6 DEF Take, v
  <2> QED BY <2>1, <2>2, QuietStep
<1>7. CASE Add(i)
  <2> DEFINE j == v.next
             r == [v EXCEPT !.fresh = TRUE, !.index = j.index, !.next = NoJob]
             rk == [r EXCEPT !.pc = "work"]
             rn == [r EXCEPT !.job[j.index] = j]
  <2>1. j \in Job /\ j.index \in {0, 1}
    BY <1>2 DEF Job
  <2>2. r \in WorkerRecord /\ r.next = NoJob /\ r.job = v.job
    BY <1>1, <2>1 DEF WorkerRecord
  <2>3. \/ Known(v, j) /\ Goes(i, rk) /\ Keeps
        \/ Reserves(i, rn, j, "work")
    BY <1>7 DEF Add, v
  <2> HIDE DEF r
  <2>4. Copies(i, rk)
    BY <2>2 DEF Copies, WorkerRecord, v
  <2> DEFINE jj == [v.job EXCEPT ![j.index] = j]
  <2>5. /\ jj \in [{0, 1} -> Job]
        /\ jj[0] \in {v.job[0], j} /\ jj[1] \in {v.job[1], j}
    <3> HIDE DEF j
    <3> QED BY <1>2, <2>1
  <2>6. rn = [r EXCEPT !.job = jj]
    BY <2>2 DEF WorkerRecord
  <2> HIDE DEF jj, rn
  <2>7. Copies(i, rn)
    BY <2>2, <2>5, <2>6 DEF Copies, WorkerRecord, v
  <2>8. j \in {w[i].next, w[i].job[0], w[i].job[1]}
    BY DEF v
  <2> QED BY <2>1, <2>3, <2>4, <2>7, <2>8, QuietStep, BlockStep
<1>8. CASE NextBlock(i)
  <2> DEFINE j == v.job[v.index]
  <2>1. j \in Job /\ j \in {w[i].next, w[i].job[0], w[i].job[1]}
    BY <1>2 DEF v
  <2>2. Reserves(i, v, j, "idle")
    BY <1>8 DEF NextBlock, v
  <2>3. Copies(i, v)
    BY <1>1 DEF Copies, v
  <2> QED BY <2>1, <2>2, <2>3, BlockStep
<1> QED BY <1>4, <1>5, <1>6, <1>7, <1>8 DEF WorkerStep


-----------------------------------------------------------------------------
(* The types. *)

(* Miner::setJob up to its lock. *)
LEMMA SetJobFacts ==
    ASSUME TypeInv, NEW j, NEW rebuild \in BOOLEAN, SetJob(j, rebuild)
    PROVE  /\ todo = <<>> /\ incoming' = j
           /\ todo' \in Before /\ ready' \in BOOLEAN
           /\ ready /\ ~rebuild => ready'
           /\ UNCHANGED <<counter, paused, job, reset, userId, async, w, told, again, given, twice>>
<1>1. /\ todo = <<>> /\ incoming' = j
      /\ ready' = (ready /\ ~rebuild)
      /\ todo' = IF ready' THEN <<"store">> ELSE <<"pause", "touch", "store">>
      /\ UNCHANGED <<counter, paused, job, reset, userId, async, w, told, again, given, twice>>
  BY DEF SetJob, ghosts
<1>2. ready' \in BOOLEAN /\ (ready /\ ~rebuild => ready')
  BY <1>1, Zenon
<1>3. todo' \in Before
  BY <1>1 DEF Before
<1> QED BY <1>1, <1>2, <1>3

(* The jobs that a pool sends are jobs. *)
LEMMA JobFacts ==
    ASSUME TypeOK, jobs < MaxJobs, NEW x \in {0, 1}
    PROVE  /\ jobs + 1 \in 0 .. MaxJobs /\ jobs \in Nat
           /\ [no |-> jobs + 1, blob |-> jobs + 1, index |-> x] \in Job
           /\ [latest EXCEPT !.no = jobs + 1] \in Job
<1>1. jobs + 1 \in 0 .. MaxJobs /\ jobs \in Nat
  BY NonceAssumption DEF TypeOK
<1> QED BY <1>1 DEF TypeOK, Job

(* The nonces of a blob that will start again are forgotten. *)
LEMMA AgainFacts ==
    ASSUME TypeOK, NEW b, StartsAgain(b)
    PROVE  /\ again' \subseteq 0 .. MaxJobs /\ given' \subseteq given
           /\ \A p \in given' : p[1] # b
<1>1. \A p \in given : p[1] \in 0 .. MaxJobs
  BY DEF TypeOK
<1> QED BY <1>1 DEF StartsAgain, TypeOK

(* The lists of writes that are left after one. *)
LEMMA WritesFacts ==
    ASSUME TypeInv, Writes
    PROVE  /\ \/ todo = <<"pause", "touch", "store">> /\ todo' = <<"touch", "store">>
              \/ todo = <<"touch", "store">> /\ todo' = <<"store">>
              \/ todo = <<"touch", "run">> /\ todo' = <<"run">>
              \/ todo = <<"run">> /\ todo' = <<>>
              \/ todo = <<"reset", "touch", "run">> /\ todo' = <<"touch", "run">>
           /\ \/ todo = <<"reset", "touch", "run">> /\ counter' = [counter EXCEPT ![job.index] = 0]
              \/ UNCHANGED counter
           /\ w' = w \/ w' = Touched
           /\ paused' \in BOOLEAN /\ told' \in BOOLEAN
           /\ todo = <<"run">> => told'
           /\ UNCHANGED <<minerVars, ready, async, again, given, twice>>
<1>1. todo \in Before \cup After \cup {<<>>} /\ paused \in BOOLEAN
  BY DEF TypeInv, TypeOK
<1>2. /\ \/ Do("pause") /\ paused' = TRUE /\ UNCHANGED <<w, counter>>
         \/ Do("run") /\ paused' = FALSE /\ UNCHANGED <<w, counter>>
         \/ Do("touch") /\ w' = Touched /\ UNCHANGED <<paused, counter>>
         \/ Do("reset") /\ counter' = [counter EXCEPT ![job.index] = 0] /\ UNCHANGED <<paused, w>>
      /\ todo' = Tail(todo) /\ told' = (told \/ Do("run"))
      /\ UNCHANGED <<minerVars, ready, async, again, given, twice>>
  BY DEF Writes
<1>3. paused' \in BOOLEAN /\ (w' = w \/ w' = Touched)
  BY <1>1, <1>2
<1>4. todo # <<"store">> /\ todo # <<>>
  BY <1>2 DEF Do
<1>5. Do("reset") => todo = <<"reset", "touch", "run">>
  BY <1>1 DEF Do, Before, After
<1>6. \/ todo = <<"reset", "touch", "run">> /\ counter' = [counter EXCEPT ![job.index] = 0]
      \/ UNCHANGED counter
  BY <1>2, <1>5
<1>7. \/ todo = <<"pause", "touch", "store">> /\ todo' = <<"touch", "store">>
      \/ todo = <<"touch", "store">> /\ todo' = <<"store">>
      \/ todo = <<"touch", "run">> /\ todo' = <<"run">>
      \/ todo = <<"run">> /\ todo' = <<>>
      \/ todo = <<"reset", "touch", "run">> /\ todo' = <<"touch", "run">>
  BY <1>1, <1>2, <1>4, ListFacts DEF Before, After
<1>8. told' \in BOOLEAN /\ (Do("run") => told')
  BY <1>2, Zenon DEF TypeInv, TypeOK
<1>9. todo = <<"run">> => Do("run")
  BY DEF Do
<1> QED BY <1>2, <1>3, <1>6, <1>7, <1>8, <1>9

(* Miner::setJob under its lock. *)
LEMMA StoreFacts ==
    ASSUME TypeInv, Store
    PROVE  /\ todo = <<"store">> /\ job' = incoming /\ incoming' = NoJob
           /\ reset' \in BOOLEAN /\ (reset' => Resets(incoming))
           /\ incoming.index = 0 => userId' = incoming.no
           /\ incoming.index # 0 => userId' = userId
           /\ todo' \in {<<>>, <<"reset", "touch", "run">>, <<"touch", "run">>}
           /\ todo' # <<>> => ready
           /\ todo' = <<"reset", "touch", "run">> => Resets(incoming)
           /\ told' = FALSE /\ again' \subseteq 0 .. MaxJobs /\ given' \subseteq given
           /\ SameUnready(incoming) => \A p \in given' : p[1] # incoming.blob
           /\ UNCHANGED <<counter, paused, latest, jobs, ready, async, w, twice>>
<1>1. /\ Do("store") /\ job' = incoming /\ reset' = Resets(incoming)
      /\ userId' = IF incoming.index = 0 THEN incoming.no ELSE userId
      /\ todo' = IF ready THEN handleJobChange(reset') ELSE <<>>
      /\ incoming' = NoJob
      /\ told' = FALSE
      /\ IF SameUnready(incoming) THEN StartsAgain(incoming.blob)
         ELSE /\ again' = again \cap {incoming.blob, latest.blob}
              /\ given' = {p \in given : p[1] \in {incoming.blob, latest.blob}}
      /\ UNCHANGED <<counter, paused, latest, jobs, ready, async, w, twice>>
  BY DEF Store
<1>2. reset' \in BOOLEAN
  BY <1>1 DEF Resets
<1>3. todo \in Before \cup After \cup {<<>>}
  BY DEF TypeInv
<1>4. todo = <<"store">>
  BY <1>1, <1>3 DEF Do, Before, After
<1>5. /\ todo' \in {<<>>, <<"reset", "touch", "run">>, <<"touch", "run">>}
      /\ todo' # <<>> => ready
      /\ todo' = <<"reset", "touch", "run">> => reset'
  BY <1>1, <1>2, ChangeFacts
<1>6. reset' => Resets(incoming)
  BY <1>1, Zenon
<1>7. /\ again' \subseteq 0 .. MaxJobs /\ given' \subseteq given
      /\ SameUnready(incoming) => \A p \in given' : p[1] # incoming.blob
  <2>1. CASE SameUnready(incoming)
    <3>1. StartsAgain(incoming.blob)
      BY <1>1, <2>1
    <3> QED BY <3>1, AgainFacts DEF TypeInv
  <2>2. CASE ~SameUnready(incoming)
    BY <1>1, <2>2 DEF TypeInv, TypeOK
  <2> QED BY <2>1, <2>2
<1> QED BY <1>1, <1>2, <1>4, <1>5, <1>6, <1>7

(* The callback of the dataset. *)
LEMMA ReadyFacts ==
    ASSUME TypeInv, OnDatasetReady
    PROVE  /\ todo = <<>> /\ async /\ async' = FALSE
           /\ todo' \in {<<>>, <<"reset", "touch", "run">>, <<"touch", "run">>}
           /\ todo' # <<>> => ready
           /\ todo' = <<"reset", "touch", "run">> => reset
           /\ todo' = <<>> => ~ready
           /\ again' \subseteq 0 .. MaxJobs /\ given' \subseteq given
           /\ ready /\ reset /\ told => \A p \in given' : p[1] # job.blob
           /\ UNCHANGED <<counter, paused, minerVars, ready, w, told, twice>>
<1>1. reset \in BOOLEAN
  BY DEF TypeInv, TypeOK
<1>2. /\ todo = <<>> /\ async /\ async' = FALSE
      /\ todo' = IF ready THEN handleJobChange(reset) ELSE <<>>
      /\ IF ready /\ reset /\ told THEN StartsAgain(job.blob) ELSE UNCHANGED <<again, given>>
      /\ UNCHANGED <<counter, paused, minerVars, ready, w, told, twice>>
  BY DEF OnDatasetReady
<1>3. /\ again' \subseteq 0 .. MaxJobs /\ given' \subseteq given
      /\ ready /\ reset /\ told => \A p \in given' : p[1] # job.blob
  <2>1. CASE ready /\ reset /\ told
    <3>1. StartsAgain(job.blob)
      BY <1>2, <2>1
    <3> QED BY <3>1, AgainFacts DEF TypeInv
  <2>2. CASE ~(ready /\ reset /\ told)
    BY <1>2, <2>2 DEF TypeInv, TypeOK
  <2> QED BY <2>1, <2>2
<1> QED BY <1>1, <1>2, <1>3, ChangeFacts

(* Nonce::touch changes one field of each worker. *)
LEMMA TouchedFacts ==
    ASSUME TypeOK
    PROVE  /\ Touched \in [Worker -> WorkerRecord]
           /\ \A i \in Worker : Touched[i].next = w[i].next /\ Touched[i].job = w[i].job
<1>1. ASSUME NEW i \in Worker
      PROVE  /\ [w[i] EXCEPT !.fresh = FALSE] \in WorkerRecord
             /\ [w[i] EXCEPT !.fresh = FALSE].next = w[i].next
             /\ [w[i] EXCEPT !.fresh = FALSE].job = w[i].job
  <2>1. w[i] \in WorkerRecord
    BY DEF TypeOK
  <2> QED BY <2>1 DEF WorkerRecord
<1> QED BY <1>1 DEF Touched


(* Init has the types. *)
LEMMA InitType ==
    ASSUME Init
    PROVE  TypeInv
<1>1. /\ 0 \in 0 .. MaxJobs /\ 0 \in 0 .. Mask + 1 /\ <<>> \in Seq(Op)
  BY NonceAssumption, ListFacts
<1>2. NoJob \in Job
  BY <1>1 DEF NoJob, Job
<1> DEFINE r == [pc |-> "idle", next |-> NoJob, index |-> 0, job |-> [x \in {0, 1} |-> NoJob],
                 fresh |-> FALSE]
<1>3. r \in WorkerRecord
  BY <1>2 DEF WorkerRecord
<1> HIDE DEF r
<1>4. w = [i \in Worker |-> r]
  BY DEF Init, r
<1>5. w \in [Worker -> WorkerRecord]
  BY <1>3, <1>4
<1>6. counter \in [{0, 1} -> 0 .. Mask + 1]
  BY <1>1 DEF Init
<1> QED BY <1>1, <1>2, <1>5, <1>6 DEF Init, TypeInv, TypeOK

(* Every step keeps the types and the shapes of the lists. *)
LEMMA NextType ==
    ASSUME TypeInv, [Next]_vars
    PROVE  TypeInv'
<1>0. TypeOK /\ todo \in Before \cup After \cup {<<>>}
  BY DEF TypeInv
<1>n. NoJob \in Job
  <2>1. 0 \in 0 .. MaxJobs
    BY NonceAssumption
  <2> QED BY <2>1 DEF NoJob, Job
<1>s. \A t \in Before \cup After \cup {<<>>} : t \in Seq(Op)
  BY ListFacts
<1>1. ASSUME NEW j \in Job, NEW rebuild \in BOOLEAN, SetJob(j, rebuild),
             jobs' \in 0 .. MaxJobs, latest' \in Job
      PROVE  TypeInv'
  <2>1. /\ incoming' = j /\ todo' \in Before /\ ready' \in BOOLEAN
        /\ UNCHANGED <<counter, paused, job, reset, userId, async, w, told, again, given, twice>>
    BY <1>1, SetJobFacts
  <2> QED BY <1>0, <1>1, <1>s, <2>1 DEF TypeInv, TypeOK
<1>2. ASSUME NEW x \in {0, 1}, NewJob(x)
      PROVE  TypeInv'
  <2> DEFINE j == [no |-> jobs + 1, blob |-> jobs + 1, index |-> x]
  <2>1. /\ jobs < MaxJobs /\ jobs' = jobs + 1 /\ latest' = IF x = 0 THEN j ELSE latest
        /\ \E rebuild \in BOOLEAN : SetJob(j, rebuild)
    BY <1>2 DEF NewJob
  <2>2. j \in Job /\ jobs + 1 \in 0 .. MaxJobs
    BY <1>0, <2>1, JobFacts
  <2>3. latest' \in Job
    BY <1>0, <2>1, <2>2 DEF TypeOK
  <2> HIDE DEF j
  <2> QED BY <1>1, <2>1, <2>2, <2>3
<1>3. CASE Retarget
  <2>1. /\ jobs < MaxJobs /\ jobs' = jobs + 1 /\ latest' = [latest EXCEPT !.no = jobs + 1]
    BY <1>3 DEF Retarget
  <2>2. latest' \in Job /\ jobs' \in 0 .. MaxJobs
    BY <1>0, <2>1, JobFacts
  <2>3. CASE SetJob(latest', FALSE)
    BY <1>1, <2>2, <2>3
  <2>4. CASE /\ StartsAgain(latest.blob)
             /\ UNCHANGED <<counter, paused, job, reset, userId, incoming, ready, async, todo, w,
                            told, twice>>
    <3>1. again' \subseteq 0 .. MaxJobs /\ given' \subseteq given
      BY <1>0, <2>4, AgainFacts
    <3> QED BY <1>0, <2>2, <2>4, <3>1 DEF TypeInv, TypeOK
  <2> QED BY <1>3, <2>3, <2>4 DEF Retarget
<1>4. CASE FeeEnds
  <2>1. UNCHANGED <<jobs, latest>> /\ \E rebuild \in BOOLEAN : SetJob(latest, rebuild)
    BY <1>4 DEF FeeEnds
  <2>2. latest \in Job /\ jobs' \in 0 .. MaxJobs /\ latest' \in Job
    BY <1>0, <2>1 DEF TypeOK
  <2> QED BY <1>1, <2>1, <2>2
<1>5. CASE Built
  BY <1>0, <1>5 DEF Built, TypeInv, TypeOK, minerVars, ghosts
<1>6. CASE OnDatasetReady
  <2>1. /\ todo' \in {<<>>, <<"reset", "touch", "run">>, <<"touch", "run">>} /\ async' = FALSE
        /\ again' \subseteq 0 .. MaxJobs /\ given' \subseteq given
        /\ UNCHANGED <<counter, paused, minerVars, ready, w, told, twice>>
    BY <1>6, ReadyFacts
  <2>2. todo' \in Before \cup After \cup {<<>>}
    BY <2>1 DEF After
  <2> QED BY <1>0, <1>s, <2>1, <2>2 DEF TypeInv, TypeOK, minerVars
<1>7. CASE Store
  <2>1. /\ job' = incoming /\ incoming' = NoJob /\ reset' \in BOOLEAN
        /\ incoming.index = 0 => userId' = incoming.no
        /\ incoming.index # 0 => userId' = userId
        /\ todo' \in {<<>>, <<"reset", "touch", "run">>, <<"touch", "run">>}
        /\ told' = FALSE /\ again' \subseteq 0 .. MaxJobs /\ given' \subseteq given
        /\ UNCHANGED <<counter, paused, latest, jobs, ready, async, w, twice>>
    BY <1>7, StoreFacts
  <2>2. todo' \in Before \cup After \cup {<<>>}
    BY <2>1 DEF After
  <2>3. userId' \in 0 .. MaxJobs
    BY <1>0, <2>1 DEF TypeOK, Job
  <2> QED BY <1>0, <1>n, <1>s, <2>1, <2>2, <2>3 DEF TypeInv, TypeOK
<1>8. CASE Writes
  <2>1. /\ \/ todo' = <<"touch", "store">>
           \/ todo' = <<"store">>
           \/ todo' = <<"touch", "run">>
           \/ todo' = <<"run">>
           \/ todo' = <<>>
        /\ counter' = [counter EXCEPT ![job.index] = 0] \/ UNCHANGED counter
        /\ w' = w \/ w' = Touched
        /\ paused' \in BOOLEAN /\ told' \in BOOLEAN
        /\ UNCHANGED <<minerVars, ready, async, again, given, twice>>
    BY <1>8, WritesFacts
  <2>2. todo' \in Before \cup After \cup {<<>>}
    BY <2>1 DEF Before, After
  <2>3. w' \in [Worker -> WorkerRecord]
    BY <1>0, <2>1, TouchedFacts DEF TypeOK
  <2>4. counter' \in [{0, 1} -> 0 .. Mask + 1]
    <3>1. 0 \in 0 .. Mask + 1
      BY NonceAssumption
    <3> QED BY <1>0, <2>1, <3>1 DEF TypeOK
  <2> QED BY <1>0, <1>s, <2>1, <2>2, <2>3, <2>4 DEF TypeInv, TypeOK, minerVars
<1>9. ASSUME NEW i \in Worker, WorkerStep(i)
      PROVE  TypeInv'
  <2>1. MayChange(i)
    BY <1>0, <1>9, WorkerFacts
  <2>2. /\ counter' \in [{0, 1} -> 0 .. Mask + 1] /\ paused' \in BOOLEAN
        /\ \E r : Copies(i, r) /\ w' = [w EXCEPT ![i] = r]
        /\ UNCHANGED <<minerVars, ready, async, todo, told, again>>
        /\ given' \subseteq (0 .. MaxJobs) \X (0 .. Mask) /\ twice' \in BOOLEAN
    BY <2>1 DEF MayChange
  <2>3. w' \in [Worker -> WorkerRecord]
    BY <1>0, <2>2 DEF TypeOK, Copies
  <2> QED BY <1>0, <2>2, <2>3 DEF TypeInv, TypeOK, minerVars
<1>10. CASE UNCHANGED vars
  BY <1>0, <1>10 DEF vars, minerVars, ghosts, TypeInv, TypeOK
<1> QED BY <1>2, <1>3, <1>4, <1>5, <1>6, <1>7, <1>8, <1>9, <1>10 DEF Next, WorkerStep

(* Nonce, Miner::setJob and WorkerJob keep the types of TypeOK. *)
THEOREM TypeCorrect == Spec => []TypeOK
<1>1. TypeInv => TypeOK
  BY DEF TypeInv
<1> QED BY <1>1, InitType, NextType, PTL DEF Spec

(* Nonce::next for any number of workers and any block sizes up to a word: *)
(* the next block of every worker lies inside the nonce space, and its low *)
(* word does not wrap.                                                     *)
THEOREM BlocksFitAlways == Spec => []BlocksFit
<1>1. TypeOK => BlocksFit
  <2> SUFFICES ASSUME TypeOK, NEW i \in Worker, NEW x \in {0, 1}
               PROVE  Enough(Fetched(counter[x], Reserve[i]), Reserve[i]) =>
                         /\ Fetched(counter[x], Reserve[i]) + Reserve[i] - 1 <= Mask
                         /\ (Fetched(counter[x], Reserve[i]) + Reserve[i] - 1) \div Word
                               = Fetched(counter[x], Reserve[i]) \div Word
    BY DEF BlocksFit
  <2> DEFINE c == counter[x]
             n == Reserve[i]
  <2>1. c \in Nat /\ n \in 1 .. Word
    BY NonceAssumption DEF TypeOK
  <2> HIDE DEF c, n
  <2>2. Enough(Fetched(c, n), n) => /\ Fetched(c, n) + n - 1 <= Mask
                                    /\ (Fetched(c, n) + n - 1) \div Word = Fetched(c, n) \div Word
    BY <2>1, BlockFits
  <2> QED BY <2>2 DEF c, n
<1> QED BY <1>1, TypeCorrect, PTL


-----------------------------------------------------------------------------
(* No nonce is given twice. *)

(* Init satisfies the invariant. *)
LEMMA InitInv ==
    ASSUME Init
    PROVE  Inv
<1>1. TypeInv
  BY InitType
<1>2. /\ given = {} /\ ~twice /\ todo = <<>> /\ ~async /\ jobs = 0 /\ userId = 0
      /\ job = NoJob /\ incoming = NoJob /\ latest = NoJob
  BY DEF Init
<1>3. NoJob.no = 0 /\ NoJob.blob = 0 /\ NoJob.index = 0
  BY DEF NoJob
<1>4. ~Storing /\ <<>> \notin After
  BY <1>2, ListFacts DEF Storing
<1>5. GivenInv
  BY <1>2 DEF GivenInv, Below, NoneOf
<1>6. JobsInv
  BY <1>2, <1>3, <1>4 DEF JobsInv
<1>7. Fits(NoJob)
  BY <1>2, <1>3, <1>4 DEF Fits
<1>8. \A i \in Worker : w[i].next = NoJob /\ w[i].job[0] = NoJob /\ w[i].job[1] = NoJob
  BY DEF Init
<1> QED BY <1>1, <1>2, <1>5, <1>6, <1>7, <1>8 DEF Inv, FitInv

(* A step of a worker: only a job that is announced is given nonces, and   *)
(* they lie between the counter of before and that of after.               *)
LEMMA WorkerInv ==
    ASSUME Inv, NEW i \in Worker, WorkerStep(i), TypeInv'
    PROVE  Inv'
<1>0. TypeInv /\ TypeOK /\ GivenInv /\ JobsInv /\ FitInv /\ ~twice
  BY DEF Inv, TypeInv
<1>1. MayChange(i)
  BY <1>0, WorkerFacts
<1>2. UNCHANGED <<job, reset, userId, incoming, latest, jobs, ready, async, todo, told>>
  BY <1>1 DEF MayChange, minerVars
<1>3. Storing' = Storing /\ ResetDue' = ResetDue /\ InFee' = InFee
      /\ Resets(incoming)' = Resets(incoming) /\ SameUnready(incoming)' = SameUnready(incoming)
      /\ \A j : Fits(j)' = Fits(j)
  BY <1>2 DEF Storing, ResetDue, InFee, Resets, SameUnready, Fits
<1>4. FitInv'
  <2>1. PICK r : Copies(i, r) /\ w' = [w EXCEPT ![i] = r]
    BY <1>1 DEF MayChange
  <2>2. Fits(NoJob)' /\ Fits(job)' /\ Fits(latest)' /\ Fits(incoming)'
    BY <1>0, <1>2, <1>3 DEF FitInv, Fits
  <2>3. Fits(r.next) /\ Fits(r.job[0]) /\ Fits(r.job[1])
    BY <1>0, <2>1 DEF FitInv, Copies
  <2>4. ASSUME NEW k \in Worker
        PROVE  Fits(w'[k].next) /\ Fits(w'[k].job[0]) /\ Fits(w'[k].job[1])
    <3>1. w'[k] = IF k = i THEN r ELSE w[k]
      BY <1>0, <2>1 DEF TypeOK
    <3> QED BY <1>0, <2>3, <3>1 DEF FitInv
  <2>5. \A k \in Worker : Fits(w[k].next)' /\ Fits(w[k].job[0])' /\ Fits(w[k].job[1])'
    BY <1>2, <2>4 DEF Fits, Storing
  <2> QED BY <2>2, <2>5 DEF FitInv
<1>5. /\ \A x \in {0, 1} : \A y \in Int : y < counter[x] => y < counter'[x]
      /\ \A p \in given : p[2] \in Int
  <2>1. \A x \in {0, 1} : counter[x] <= counter'[x] /\ counter[x] \in Int /\ counter'[x] \in Int
    <3>1. counter \in [{0, 1} -> 0 .. Mask + 1] /\ counter' \in [{0, 1} -> 0 .. Mask + 1]
          /\ \A x \in {0, 1} : counter[x] <= counter'[x]
      BY <1>0, <1>1 DEF TypeOK, MayChange
    <3>2. 0 .. Mask + 1 \subseteq Int
      BY NonceAssumption
    <3> QED BY <3>1, <3>2
  <2>2. given \subseteq (0 .. MaxJobs) \X (0 .. Mask)
    BY <1>0 DEF TypeOK
  <2> QED BY <2>1, <2>2, NonceAssumption
<1>6. \A b : \A x \in {0, 1} : Below(b, x) => \A p \in given : p[1] = b => p[2] < counter'[x]
  BY <1>5 DEF Below
<1>7. CASE UNCHANGED <<given, twice>>
  <2>1. \A b : NoneOf(b)' = NoneOf(b)
    BY <1>7 DEF NoneOf
  <2>2. \A b : \A x \in {0, 1} : Below(b, x) => Below(b, x)'
    BY <1>6, <1>7 DEF Below
  <2>3. GivenInv'
    <3>1. Below(latest.blob, 0)' /\ (job.index = 1 => Below(job.blob, 1))'
      BY <1>0, <1>2, <2>2 DEF GivenInv, Below
    <3>2. (ResetDue => NoneOf(job.blob))' /\ (InFee /\ userId # latest.no => NoneOf(latest.blob))'
      BY <1>0, <1>2, <1>3, <1>7 DEF GivenInv, NoneOf
    <3>3. /\ (Storing /\ Resets(incoming) /\ ~SameUnready(incoming) => NoneOf(incoming.blob))'
          /\ (Storing /\ incoming.index = 1 => NoneOf(incoming.blob))'
      BY <1>0, <1>2, <1>3, <1>7 DEF GivenInv, NoneOf
    <3> QED BY <3>1, <3>2, <3>3 DEF GivenInv
  <2>4. JobsInv'
    BY <1>0, <1>2, <1>3, <1>7 DEF JobsInv
  <2> QED BY <1>0, <1>4, <1>7, <2>3, <2>4 DEF Inv
<1>8. CASE \E j \in {w[i].next, w[i].job[0], w[i].job[1]} :
              /\ j.blob = job.blob /\ Announced
              /\ \A p \in given' : p \in given \/ (p[1] = j.blob /\ p[2] < counter'[j.index])
              /\ twice' => twice \/ \E p \in given : p[1] = j.blob /\ ~(p[2] < counter[j.index])
  <2>1. PICK j \in {w[i].next, w[i].job[0], w[i].job[1]} :
              /\ j.blob = job.blob /\ Announced
              /\ \A p \in given' : p \in given \/ (p[1] = j.blob /\ p[2] < counter'[j.index])
              /\ twice' => twice \/ \E p \in given : p[1] = j.blob /\ ~(p[2] < counter[j.index])
    BY <1>8
  <2>2. Fits(j) /\ Fits(job)
    BY <1>0, <2>1 DEF FitInv
  <2>3. j.index = job.index /\ job.blob <= jobs /\ (job.blob = latest.blob => job.index = 0)
    BY <2>1, <2>2 DEF Fits
  <2>4. todo = <<>> /\ ~Storing /\ ~ResetDue
    BY <2>1, ListFacts DEF Announced, Storing, ResetDue
  <2>5. job.index \in {0, 1}
    BY <1>0 DEF TypeOK, Job
  <2>6. Below(job.blob, job.index)
    <3>1. CASE job.index = 0
      BY <1>0, <2>4, <3>1 DEF JobsInv, GivenInv
    <3>2. CASE job.index = 1
      BY <1>0, <3>2 DEF GivenInv
    <3> QED BY <2>5, <3>1, <3>2
  <2>7. ~twice'
    BY <1>0, <2>1, <2>3, <2>6 DEF Below
  <2>8. \A p \in given' : p \in given \/ (p[1] = job.blob /\ p[2] < counter'[job.index])
    BY <2>1, <2>3
  <2>9. GivenInv'
    <3>1. Below(latest.blob, 0)'
      <4> SUFFICES ASSUME NEW p \in given', p[1] = latest.blob PROVE p[2] < counter'[0]
        BY <1>2 DEF Below
      <4>1. CASE p \in given
        BY <1>0, <1>6, <4>1 DEF GivenInv
      <4>2. CASE p[1] = job.blob /\ p[2] < counter'[job.index]
        BY <2>3, <4>2
      <4> QED BY <2>8, <4>1, <4>2
    <3>2. (job.index = 1 => Below(job.blob, 1))'
      <4> SUFFICES ASSUME job.index = 1, NEW p \in given', p[1] = job.blob PROVE p[2] < counter'[1]
        BY <1>2 DEF Below
      <4> QED BY <1>0, <1>6, <2>8 DEF GivenInv
    <3>3. (InFee /\ userId # latest.no => NoneOf(latest.blob))'
      <4> SUFFICES ASSUME InFee, userId # latest.no PROVE \A p \in given' : p[1] # latest.blob
        BY <1>2, <1>3 DEF NoneOf
      <4>1. job.index = 1 /\ NoneOf(latest.blob)
        BY <1>0, <2>4 DEF InFee, GivenInv
      <4> QED BY <2>3, <2>8, <4>1 DEF NoneOf
    <3> QED BY <1>3, <2>4, <3>1, <3>2, <3>3 DEF GivenInv
  <2>10. JobsInv'
    <3>1. \A p \in given' : p[1] <= jobs'
      BY <1>0, <1>2, <2>3, <2>8 DEF JobsInv
    <3> QED BY <1>0, <1>2, <1>3, <3>1 DEF JobsInv
  <2> QED BY <1>0, <1>4, <2>7, <2>9, <2>10 DEF Inv
<1> QED BY <1>1, <1>7, <1>8 DEF MayChange


(* A job is set.  What the caller knows of it decides: where the counters  *)
(* will start again, or the job is one of the fee, its blob is a new one.  *)
LEMMA SetJobInv ==
    ASSUME Inv, NEW j \in Job, NEW rebuild \in BOOLEAN, SetJob(j, rebuild), TypeInv',
           jobs <= jobs',
           latest'.index = 0, latest'.no <= jobs', latest'.blob <= jobs',
           j = latest' \/ j.index = 1,
           latest'.blob = latest.blob \/ \A p \in given : p[1] # latest'.blob,
           latest'.blob = latest.blob \/ latest'.blob > jobs,
           j.index = 1 => latest' = latest /\ j.blob > jobs /\ j.blob <= jobs',
           Resets(j)' /\ ~SameUnready(j)' => \A p \in given : p[1] # j.blob
    PROVE  Inv'
<1>0. TypeInv /\ TypeOK /\ GivenInv /\ JobsInv /\ FitInv /\ ~twice
  BY DEF Inv, TypeInv
<1>1. /\ todo = <<>> /\ incoming' = j /\ todo' \in Before
      /\ UNCHANGED <<counter, paused, job, reset, userId, async, w, told, again, given, twice>>
  BY <1>0, SetJobFacts
<1>2. /\ ~Storing /\ Storing' /\ ~ResetDue' /\ todo' \notin After /\ todo' # <<>>
  <2>1. ~Storing /\ Storing' /\ todo' \notin After /\ todo' # <<>>
    BY <1>1, ListFacts DEF Storing
  <2>2. todo' # <<"reset", "touch", "run">>
    BY <2>1 DEF After
  <2> QED BY <2>1, <2>2 DEF ResetDue
<1>t. jobs \in Int /\ jobs' \in Int /\ j.blob \in Int /\ j.index \in {0, 1} /\ latest'.blob \in Int
      /\ latest.blob \in Int /\ job.blob \in Int /\ userId \in Int
      /\ \A p \in given : p[1] \in Int
  <2>1. (0 .. MaxJobs) \subseteq Int
    BY NonceAssumption
  <2>2. \A p \in given : p[1] \in 0 .. MaxJobs
    BY <1>0 DEF TypeOK
  <2>3. /\ jobs \in 0 .. MaxJobs /\ userId \in 0 .. MaxJobs /\ job \in Job /\ latest \in Job
        /\ jobs' \in 0 .. MaxJobs /\ latest' \in Job
    BY <1>0 DEF TypeInv, TypeOK
  <2> QED BY <2>1, <2>2, <2>3 DEF Job
<1>3. \A p \in given : p[1] <= jobs
  BY <1>0 DEF JobsInv
<1>4. j.index = 1 => \A p \in given : p[1] # j.blob
  BY <1>3, <1>t
<1>5. GivenInv'
  <2>1. Below(latest.blob, 0)'
    BY <1>0, <1>1 DEF GivenInv, Below
  <2>2. (job.index = 1 => Below(job.blob, 1))'
    BY <1>0, <1>1 DEF GivenInv, Below
  <2>3. (InFee /\ userId # latest.no => NoneOf(latest.blob))'
    <3> SUFFICES ASSUME j.index = 1, userId # latest'.no PROVE \A p \in given : p[1] # latest'.blob
      BY <1>1, <1>2 DEF InFee, NoneOf
    <3>1. latest' = latest /\ job.index = 1
      BY <1>0, <1>2 DEF JobsInv, TypeOK, Job
    <3>2. InFee
      BY <1>2, <3>1 DEF InFee
    <3> QED BY <1>0, <3>1, <3>2 DEF GivenInv, NoneOf
  <2>4. (Storing /\ Resets(incoming) /\ ~SameUnready(incoming) => NoneOf(incoming.blob))'
    <3>1. Resets(incoming)' = Resets(j)' /\ SameUnready(incoming)' = SameUnready(j)'
      BY <1>1 DEF Resets, SameUnready
    <3> QED BY <1>1, <3>1 DEF NoneOf
  <2>5. (Storing /\ incoming.index = 1 => NoneOf(incoming.blob))'
    BY <1>1, <1>4 DEF NoneOf
  <2> QED BY <1>2, <2>1, <2>2, <2>3, <2>4, <2>5 DEF GivenInv
<1>6. JobsInv'
  <2>1. userId' <= jobs' /\ \A p \in given' : p[1] <= jobs'
    <3>1. userId <= jobs
      BY <1>0 DEF JobsInv
    <3> QED BY <1>1, <1>3, <1>t, <3>1
  <2> QED BY <1>1, <1>2, <2>1 DEF JobsInv
<1>7. ASSUME NEW k \in Job, Fits(k) PROVE Fits(k)'
  <2>0. k.blob \in Int
    BY NonceAssumption DEF Job
  <2>1. /\ k.blob <= jobs /\ (k.blob = job.blob => k.index = job.index)
        /\ k.blob = latest.blob => k.index = 0
    BY <1>7 DEF Fits
  <2>2. k.blob <= jobs'
    BY <1>t, <2>0, <2>1
  <2>3. k.blob = latest'.blob => k.index = 0
    BY <1>t, <2>0, <2>1
  <2>4. k.blob = j.blob => k.index = j.index
    BY <1>t, <2>0, <2>1, <2>3
  <2> QED BY <1>1, <2>1, <2>2, <2>3, <2>4 DEF Fits
<1>8. FitInv'
  <2>1. /\ Fits(NoJob) /\ Fits(job)
        /\ \A i \in Worker : Fits(w[i].next) /\ Fits(w[i].job[0]) /\ Fits(w[i].job[1])
    BY <1>0 DEF FitInv
  <2>2. job \in Job /\ NoJob \in Job
    <3>1. 0 \in 0 .. MaxJobs
      BY NonceAssumption
    <3> QED BY <1>0, <3>1 DEF TypeOK, NoJob, Job
  <2>3. \A i \in Worker : w[i].next \in Job /\ w[i].job[0] \in Job /\ w[i].job[1] \in Job
    <3> TAKE i \in Worker
    <3>1. w[i] \in WorkerRecord
      BY <1>0 DEF TypeOK
    <3> QED BY <3>1 DEF WorkerRecord
  <2>4. Fits(NoJob)' /\ Fits(job)'
    <3>1. \A k \in Job : Fits(k) => Fits(k)'
      BY <1>7
    <3>2. (Fits(job))' = (/\ job.blob <= jobs'
                          /\ job.blob = latest'.blob => job.index = 0
                          /\ Storing' /\ job.blob = incoming'.blob => job.index = incoming'.index)
      BY <1>1 DEF Fits
    <3>4. /\ job.blob <= jobs'
          /\ job.blob = latest'.blob => job.index = 0
          /\ Storing' /\ job.blob = incoming'.blob => job.index = incoming'.index
      <4>1. /\ job.blob <= jobs
            /\ job.blob = latest.blob => job.index = 0
        BY <2>1 DEF Fits
      <4> QED BY <1>1, <1>t, <4>1
    <3> QED BY <2>1, <2>2, <3>1, <3>2, <3>4
  <2>5. \A i \in Worker : Fits(w[i].next)' /\ Fits(w[i].job[0])' /\ Fits(w[i].job[1])'
    <3> TAKE i \in Worker
    <3>1. \A k \in Job : Fits(k) =>
             /\ k.blob <= jobs'
             /\ k.blob = job'.blob => k.index = job'.index
             /\ k.blob = latest'.blob => k.index = 0
             /\ Storing' /\ k.blob = incoming'.blob => k.index = incoming'.index
      BY <1>7 DEF Fits
    <3> QED BY <1>1, <2>1, <2>3, <3>1 DEF Fits
  <2>6. Fits(latest)' /\ Fits(incoming)'
    <3>1. Fits(latest) /\ Fits(job)
      BY <1>0 DEF FitInv
    <3>2. /\ latest.blob <= jobs /\ (latest.blob = job.blob => job.index = 0)
          /\ job.blob <= jobs /\ job.index \in {0, 1}
      BY <1>0, <3>1 DEF Fits, JobsInv, TypeOK, Job
    <3>3. /\ latest'.blob <= jobs' /\ (latest'.blob = job.blob => job.index = 0)
      BY <1>t, <3>2
    <3>4. j.index = 1 => j.blob # job.blob /\ j.blob # latest'.blob /\ j.blob <= jobs'
      BY <1>t, <3>2
    <3>5. j.index = 0 => j = latest'
      BY <1>t
    <3> QED BY <1>1, <1>t, <3>3, <3>4, <3>5 DEF Fits
  <2> QED BY <2>4, <2>5, <2>6 DEF FitInv
<1> QED BY <1>0, <1>1, <1>5, <1>6, <1>8 DEF Inv

(* A step that leaves the jobs alone, those of the miner and the copies of *)
(* the workers.                                                            *)
LEMMA FitsKept ==
    ASSUME FitInv, UNCHANGED <<jobs, job, latest, incoming>>, Storing' = Storing,
           \A i \in Worker : w'[i].next = w[i].next /\ w'[i].job = w[i].job
    PROVE  FitInv'
<1>1. Fits(NoJob)' /\ Fits(job)' /\ Fits(latest)' /\ Fits(incoming)'
  BY DEF FitInv, Fits
<1>2. ASSUME NEW i \in Worker
      PROVE  Fits(w[i].next)' /\ Fits(w[i].job[0])' /\ Fits(w[i].job[1])'
  <2>1. Fits(w[i].next) /\ Fits(w[i].job[0]) /\ Fits(w[i].job[1])
    BY DEF FitInv
  <2> QED BY <2>1 DEF Fits
<1> QED BY <1>1, <1>2 DEF FitInv

(* The invariant is kept by every step. *)
LEMMA NextInv ==
    ASSUME Inv, [Next]_vars
    PROVE  Inv'
<1>0. TypeInv /\ TypeOK /\ GivenInv /\ JobsInv /\ FitInv /\ ~twice
  BY DEF Inv, TypeInv
<1>1. TypeInv'
  BY <1>0, NextType
<1>t. /\ jobs \in Int /\ job.index \in {0, 1} /\ latest.blob \in Int /\ latest.no \in Int
      /\ latest \in Job /\ \A p \in given : p[1] \in Int /\ p[1] <= jobs
  <2>1. (0 .. MaxJobs) \subseteq Int
    BY NonceAssumption
  <2>2. \A p \in given : p[1] \in 0 .. MaxJobs
    BY <1>0 DEF TypeOK
  <2> QED BY <1>0, <2>1, <2>2 DEF TypeOK, Job, JobsInv
<1>l. latest.blob <= jobs /\ latest.no <= jobs /\ latest.index = 0
  BY <1>0 DEF FitInv, Fits, JobsInv
<1>2. ASSUME NEW x \in {0, 1}, NewJob(x)
      PROVE  Inv'
  <2> DEFINE j == [no |-> jobs + 1, blob |-> jobs + 1, index |-> x]
  <2>1. /\ jobs < MaxJobs /\ jobs' = jobs + 1 /\ latest' = IF x = 0 THEN j ELSE latest
        /\ \E rebuild \in BOOLEAN : SetJob(j, rebuild)
    BY <1>2 DEF NewJob
  <2>2. j \in Job /\ j.no = jobs + 1 /\ j.blob = jobs + 1 /\ j.index = x
    BY <1>0, <2>1, JobFacts
  <2>3. PICK rebuild \in BOOLEAN : SetJob(j, rebuild)
    BY <2>1
  <2> HIDE DEF j
  <2>4. \A p \in given : p[1] # j.blob
    BY <1>t, <2>2
  <2>5. /\ jobs <= jobs' /\ j.blob > jobs /\ j.blob <= jobs' /\ j.no <= jobs'
        /\ latest.blob <= jobs' /\ latest.no <= jobs'
    BY <1>t, <1>l, <2>1, <2>2
  <2>6. CASE x = 0
    BY <1>1, <2>1, <2>2, <2>3, <2>4, <2>5, <2>6, SetJobInv
  <2>7. CASE x = 1
    BY <1>1, <1>l, <2>1, <2>2, <2>3, <2>4, <2>5, <2>7, SetJobInv
  <2> QED BY <2>6, <2>7
<1>3. CASE Retarget
  <2>1. /\ todo = <<>> /\ jobs < MaxJobs /\ jobs' = jobs + 1
        /\ latest' = [latest EXCEPT !.no = jobs + 1]
    BY <1>3 DEF Retarget
  <2>2. /\ latest' \in Job /\ latest'.no = jobs + 1 /\ latest'.blob = latest.blob
        /\ latest'.index = 0
    BY <1>0, <1>l, <2>1, JobFacts DEF Job
  <2>3. /\ jobs <= jobs' /\ latest'.no <= jobs' /\ latest'.blob <= jobs'
    BY <1>t, <1>l, <2>1, <2>2
  <2>s. ~Storing
    BY <2>1, ListFacts DEF Storing
  <2>4. CASE job.index = 0
    <3>1. SetJob(latest', FALSE)
      BY <1>3, <2>4 DEF Retarget
    <3>2. UNCHANGED job
      BY <1>0, <2>1, <3>1, SetJobFacts
    <3>3. job.blob = latest'.blob
      BY <1>0, <2>2, <2>4, <2>s DEF JobsInv
    <3>4. PICK j \in Job : j = latest'
      BY <2>2
    <3>5. Resets(j)' => SameUnready(j)'
      BY <3>2, <3>3, <3>4 DEF Resets, SameUnready
    <3>6. SetJob(j, FALSE) /\ j.index = 0
      BY <2>2, <3>1, <3>4
    <3>7. FALSE \in BOOLEAN /\ j = latest' /\ latest'.blob = latest.blob /\ latest'.index = 0
      BY <2>2, <3>4
    <3>8. PICK rebuild \in BOOLEAN : SetJob(j, rebuild)
      BY <3>6
    <3> QED BY <1>1, <2>3, <3>5, <3>6, <3>7, <3>8, SetJobInv
  <2>5. CASE job.index # 0
    <3>1. /\ StartsAgain(latest.blob)
          /\ UNCHANGED <<counter, paused, job, reset, userId, incoming, ready, async, todo, w,
                         told, twice>>
      BY <1>3, <2>5 DEF Retarget
    <3>2. /\ Storing' = Storing /\ ResetDue' = ResetDue /\ given' \subseteq given
          /\ \A p \in given' : p[1] # latest'.blob
      BY <1>0, <2>2, <3>1, AgainFacts DEF Storing, ResetDue
    <3>3. GivenInv'
      <4>1. Below(latest.blob, 0)'
        BY <3>2 DEF Below
      <4>2. (job.index = 1 => Below(job.blob, 1))' /\ (ResetDue => NoneOf(job.blob))'
        BY <1>0, <3>1, <3>2 DEF GivenInv, Below, NoneOf
      <4>3. (InFee /\ userId # latest.no => NoneOf(latest.blob))'
        BY <3>2 DEF NoneOf
      <4> QED BY <2>s, <3>2, <4>1, <4>2, <4>3 DEF GivenInv
    <3>4. JobsInv'
      <4>1. userId' <= jobs' /\ \A p \in given' : p[1] <= jobs'
        <5>1. userId \in Int /\ userId <= jobs
          BY <1>0, NonceAssumption DEF TypeOK, JobsInv
        <5> QED BY <1>t, <2>1, <3>1, <3>2, <5>1
      <4> QED BY <1>0, <2>2, <2>3, <2>5, <2>s, <3>1, <3>2, <4>1 DEF JobsInv
    <3>5. FitInv'
      <4>1. ASSUME NEW k \in Job, Fits(k)
            PROVE  /\ k.blob <= jobs' /\ (k.blob = job.blob => k.index = job.index)
                   /\ k.blob = latest'.blob => k.index = 0
        <5>1. k.blob \in Int
          BY NonceAssumption DEF Job
        <5> QED BY <1>t, <2>1, <2>2, <4>1, <5>1 DEF Fits
      <4>2. NoJob \in Job /\ job \in Job /\ latest \in Job
        BY <1>0, NonceAssumption DEF TypeOK, NoJob, Job
      <4>3. \A i \in Worker : w[i].next \in Job /\ w[i].job[0] \in Job /\ w[i].job[1] \in Job
        <5> TAKE i \in Worker
        <5>1. w[i] \in WorkerRecord
          BY <1>0 DEF TypeOK
        <5> QED BY <5>1 DEF WorkerRecord
      <4>4. Fits(NoJob)' /\ Fits(job)' /\ Fits(latest)' /\ Fits(incoming)'
        <5>1. incoming = NoJob
          BY <1>0, <2>s DEF JobsInv
        <5>2. Fits(NoJob)' /\ Fits(job)'
          BY <1>0, <2>s, <3>1, <3>2, <4>1, <4>2 DEF FitInv, Fits
        <5>3. latest.blob = job.blob => job.index = 0
          BY <1>0 DEF FitInv, Fits
        <5>4. Fits(latest)'
          BY <2>2, <2>3, <2>s, <3>1, <3>2, <5>3 DEF Fits
        <5> QED BY <3>1, <5>1, <5>2, <5>4
      <4>5. \A i \in Worker : Fits(w[i].next)' /\ Fits(w[i].job[0])' /\ Fits(w[i].job[1])'
        BY <1>0, <2>s, <3>1, <3>2, <4>1, <4>3 DEF FitInv, Fits
      <4> QED BY <4>4, <4>5 DEF FitInv
    <3> QED BY <1>0, <1>1, <3>1, <3>3, <3>4, <3>5 DEF Inv
  <2> QED BY <2>4, <2>5
<1>4. CASE FeeEnds
  <2>1. job.index = 1 /\ UNCHANGED <<jobs, latest>>
    BY <1>4 DEF FeeEnds
  <2>2. PICK rebuild \in BOOLEAN : SetJob(latest, rebuild)
    BY <1>4 DEF FeeEnds
  <2>3. todo = <<>> /\ UNCHANGED <<job, userId>>
    BY <1>0, <2>2, SetJobFacts
  <2>4. PICK j \in Job : j = latest
    BY <1>t
  <2>5. ~Storing /\ InFee
    BY <2>1, <2>3, ListFacts DEF Storing, InFee
  <2>6. Resets(j)' /\ ~SameUnready(j)' => \A p \in given : p[1] # j.blob
    <3>1. Resets(j)' => userId # latest.no
      BY <1>l, <2>1, <2>3, <2>4 DEF Resets
    <3> QED BY <1>0, <2>4, <2>5, <3>1 DEF GivenInv, NoneOf
  <2>7. jobs <= jobs' /\ j.index = 0 /\ SetJob(j, rebuild) /\ latest' = j /\ latest'.blob = latest.blob
        /\ latest'.no <= jobs' /\ latest'.blob <= jobs' /\ latest'.index = 0
    BY <1>t, <1>l, <2>1, <2>2, <2>4
  <2> QED BY <1>1, <2>6, <2>7, SetJobInv
<1>5. CASE Built
  <2>1. /\ ~ready /\ todo = <<>> /\ ready' = TRUE /\ async' = TRUE
        /\ UNCHANGED <<counter, paused, minerVars, todo, w, told, given, twice>>
    BY <1>5 DEF Built, ghosts
  <2>2. /\ Storing' = Storing /\ ~Storing /\ InFee' = InFee /\ (ResetDue' => ResetDue)
    BY <2>1, ListFacts DEF Storing, InFee, ResetDue, minerVars
  <2>3. GivenInv'
    BY <1>0, <2>1, <2>2 DEF GivenInv, Below, NoneOf, minerVars
  <2>4. JobsInv'
    BY <1>0, <2>1, <2>2 DEF JobsInv, minerVars
  <2>5. FitInv'
    BY <1>0, <2>1, <2>2, FitsKept DEF minerVars
  <2> QED BY <1>0, <1>1, <2>1, <2>3, <2>4, <2>5 DEF Inv
<1>6. CASE OnDatasetReady
  <2>1. /\ todo = <<>> /\ async /\ async' = FALSE
        /\ todo' \in {<<>>, <<"reset", "touch", "run">>, <<"touch", "run">>}
        /\ todo' # <<>> => ready
        /\ todo' = <<"reset", "touch", "run">> => reset
        /\ todo' = <<>> => ~ready
        /\ given' \subseteq given
        /\ ready /\ reset /\ told => \A p \in given' : p[1] # job.blob
        /\ UNCHANGED <<counter, paused, minerVars, ready, w, told, twice>>
    BY <1>0, <1>6, ReadyFacts
  <2>2. ~Storing
    BY <2>1, ListFacts DEF Storing
  <2>3. todo' \in After \cup {<<>>}
    BY <2>1 DEF After
  <2>4. ~Storing'
    BY <2>3, ListFacts DEF Storing
  <2>5. Storing' = Storing /\ InFee' = InFee
    <3>1. Storing' = Storing
      BY <2>2, <2>4 DEF Storing
    <3>2. InFee' = InFee
      BY <2>1, <2>2, <2>4 DEF InFee, minerVars
    <3> QED BY <3>1, <3>2
  <2>6. GivenInv'
    <3>1. (ResetDue => NoneOf(job.blob))'
      <4> SUFFICES ASSUME ResetDue' PROVE \A p \in given' : p[1] # job.blob
        BY <2>1 DEF NoneOf, minerVars
      <4>1. CASE ready /\ reset /\ told
        BY <2>1, <4>1
      <4>2. CASE ~(ready /\ reset /\ told)
        <5>1. reset /\ ~told
          BY <2>1, <4>2 DEF ResetDue, minerVars
        <5>2. NoneOf(job.blob)
          BY <1>0, <2>1, <5>1 DEF ResetDue, GivenInv
        <5> QED BY <2>1, <5>2 DEF NoneOf
      <4> QED BY <4>1, <4>2
    <3>2. Below(latest.blob, 0)' /\ (job.index = 1 => Below(job.blob, 1))'
          /\ (InFee /\ userId # latest.no => NoneOf(latest.blob))'
      BY <1>0, <2>1, <2>5 DEF GivenInv, Below, NoneOf, minerVars
    <3> QED BY <2>4, <3>1, <3>2 DEF GivenInv
  <2>7. JobsInv'
    BY <1>0, <2>1, <2>2, <2>4 DEF JobsInv, minerVars
  <2>8. FitInv'
    BY <1>0, <2>1, <2>5, FitsKept DEF minerVars
  <2> QED BY <1>0, <1>1, <2>1, <2>6, <2>7, <2>8 DEF Inv
<1>7. CASE Store
  <2>1. /\ todo = <<"store">> /\ job' = incoming /\ incoming' = NoJob
        /\ reset' => Resets(incoming)
        /\ incoming.index = 0 => userId' = incoming.no
        /\ incoming.index # 0 => userId' = userId
        /\ todo' \in {<<>>, <<"reset", "touch", "run">>, <<"touch", "run">>}
        /\ todo' # <<>> => ready
        /\ todo' = <<"reset", "touch", "run">> => Resets(incoming)
        /\ given' \subseteq given
        /\ SameUnready(incoming) => \A p \in given' : p[1] # incoming.blob
        /\ UNCHANGED <<counter, paused, latest, jobs, ready, async, w, twice>>
    BY <1>0, <1>7, StoreFacts
  <2>2. Storing
    BY <2>1 DEF Storing, Before
  <2>3. ~Storing'
    <3>1. todo' \in After \cup {<<>>}
      BY <2>1 DEF After
    <3> QED BY <3>1, ListFacts DEF Storing
  <2>4. incoming = latest \/ incoming.index = 1
    BY <1>0, <2>1, <2>2 DEF JobsInv
  <2>5. ResetDue' => \A p \in given' : p[1] # incoming.blob
    <3>1. ResetDue' => Resets(incoming)
      BY <2>1 DEF ResetDue
    <3>2. Resets(incoming) /\ ~SameUnready(incoming) => NoneOf(incoming.blob)
      BY <1>0, <2>2 DEF GivenInv
    <3> QED BY <2>1, <3>1, <3>2 DEF NoneOf
  <2>6. GivenInv'
    <3>1. Below(latest.blob, 0)'
      BY <1>0, <2>1 DEF GivenInv, Below
    <3>2. (job.index = 1 => Below(job.blob, 1))'
      BY <1>0, <2>1, <2>2 DEF GivenInv, Below, NoneOf
    <3>3. (ResetDue => NoneOf(job.blob))'
      BY <2>1, <2>5 DEF NoneOf
    <3>4. (InFee /\ userId # latest.no => NoneOf(latest.blob))'
      <4> SUFFICES ASSUME incoming.index = 1, userId # latest.no
                   PROVE  \A p \in given' : p[1] # latest.blob
        BY <2>1, <2>3 DEF InFee, NoneOf
      <4>1. InFee
        BY <2>2 DEF InFee
      <4> QED BY <1>0, <2>1, <4>1 DEF GivenInv, NoneOf
    <3> QED BY <2>3, <3>1, <3>2, <3>3, <3>4 DEF GivenInv
  <2>7. JobsInv'
    <3>1. incoming.index \in {0, 1} /\ userId' <= jobs'
      BY <1>0, <1>l, <2>1, <2>4 DEF JobsInv, TypeOK, Job
    <3>2. (job.index = 0 => job = latest /\ userId = latest.no)'
      BY <2>1, <2>4
    <3>3. \A p \in given' : p[1] <= jobs'
      BY <1>t, <2>1
    <3> QED BY <1>l, <2>1, <2>3, <2>4, <3>1, <3>2, <3>3 DEF JobsInv
  <2>8. FitInv'
    <3>1. /\ Fits(NoJob) /\ Fits(latest) /\ Fits(incoming)
          /\ \A i \in Worker : Fits(w[i].next) /\ Fits(w[i].job[0]) /\ Fits(w[i].job[1])
      BY <1>0 DEF FitInv
    <3>2. \A k : Fits(k) => /\ k.blob <= jobs /\ (k.blob = incoming.blob => k.index = incoming.index)
                            /\ k.blob = latest.blob => k.index = 0
      BY <2>2 DEF Fits
    <3>3. Fits(NoJob)' /\ Fits(latest)'
      BY <2>1, <2>3, <3>1, <3>2 DEF Fits
    <3>4. Fits(job)' /\ Fits(incoming)'
      <4>1. Fits(job)'
        BY <2>1, <2>3, <3>1, <3>2 DEF Fits
      <4>2. Fits(incoming)'
        BY <2>1, <3>3
      <4> QED BY <4>1, <4>2
    <3>5. \A i \in Worker : Fits(w[i].next)' /\ Fits(w[i].job[0])' /\ Fits(w[i].job[1])'
      BY <2>1, <2>3, <3>1, <3>2 DEF Fits
    <3> QED BY <3>3, <3>4, <3>5 DEF FitInv
  <2> QED BY <1>0, <1>1, <2>1, <2>6, <2>7, <2>8 DEF Inv
<1>8. CASE Writes
  <2>1. /\ \/ todo = <<"pause", "touch", "store">> /\ todo' = <<"touch", "store">>
           \/ todo = <<"touch", "store">> /\ todo' = <<"store">>
           \/ todo = <<"touch", "run">> /\ todo' = <<"run">>
           \/ todo = <<"run">> /\ todo' = <<>>
           \/ todo = <<"reset", "touch", "run">> /\ todo' = <<"touch", "run">>
        /\ \/ todo = <<"reset", "touch", "run">> /\ counter' = [counter EXCEPT ![job.index] = 0]
           \/ UNCHANGED counter
        /\ w' = w \/ w' = Touched
        /\ todo = <<"run">> => told'
        /\ UNCHANGED <<minerVars, ready, async, again, given, twice>>
    BY <1>0, <1>8, WritesFacts
  <2>2. /\ Storing' = Storing
        /\ todo' = <<>> => todo = <<"run">>
    BY <2>1 DEF Storing, Before, After
  <2>4. /\ InFee' = InFee /\ Resets(incoming)' = Resets(incoming)
        /\ SameUnready(incoming)' = SameUnready(incoming)
    BY <2>1, <2>2 DEF InFee, Resets, SameUnready, minerVars
  <2>5. ~ResetDue'
    <3>1. todo' # <<"reset", "touch", "run">>
      BY <2>1
    <3>2. todo' = <<>> => told'
      BY <2>1, <2>2
    <3> QED BY <3>1, <3>2 DEF ResetDue
  <2>6. GivenInv'
    <3>1. Below(latest.blob, 0)' /\ (job.index = 1 => Below(job.blob, 1))'
      <4>1. CASE UNCHANGED counter
        BY <1>0, <2>1, <4>1 DEF GivenInv, Below, minerVars
      <4>2. CASE todo = <<"reset", "touch", "run">> /\ counter' = [counter EXCEPT ![job.index] = 0]
        <5>1. NoneOf(job.blob) /\ ~Storing
          <6>1. ResetDue /\ todo \in After
            BY <4>2 DEF ResetDue, After
          <6> QED BY <1>0, <6>1, ListFacts DEF GivenInv, Storing
        <5>2. job.index = 0 => job = latest
          BY <1>0, <5>1 DEF JobsInv
        <5>3. job.index = 1 => counter'[0] = counter[0]
          BY <1>0, <4>2 DEF TypeOK
        <5> QED BY <1>0, <1>t, <2>1, <5>1, <5>2, <5>3 DEF GivenInv, Below, NoneOf, minerVars
      <4> QED BY <2>1, <4>1, <4>2
    <3>2. (InFee /\ userId # latest.no => NoneOf(latest.blob))'
      BY <1>0, <2>1, <2>4 DEF GivenInv, NoneOf, minerVars
    <3>3. /\ (Storing /\ Resets(incoming) /\ ~SameUnready(incoming) => NoneOf(incoming.blob))'
          /\ (Storing /\ incoming.index = 1 => NoneOf(incoming.blob))'
      BY <1>0, <2>1, <2>2, <2>4 DEF GivenInv, NoneOf, minerVars
    <3> QED BY <2>5, <3>1, <3>2, <3>3 DEF GivenInv
  <2>7. JobsInv'
    BY <1>0, <2>1, <2>2 DEF JobsInv, minerVars
  <2>8. FitInv'
    <3>1. \A i \in Worker : w'[i].next = w[i].next /\ w'[i].job = w[i].job
      BY <1>0, <2>1, TouchedFacts
    <3> QED BY <1>0, <2>1, <2>2, <3>1, FitsKept DEF minerVars
  <2> QED BY <1>0, <1>1, <2>1, <2>6, <2>7, <2>8 DEF Inv
<1>9. ASSUME NEW i \in Worker, WorkerStep(i)
      PROVE  Inv'
  BY <1>1, <1>9, WorkerInv
<1>10. CASE UNCHANGED vars
  <2>1. UNCHANGED <<counter, paused, job, reset, userId, incoming, latest, jobs, ready, async, todo,
                    w, told, given, twice>>
    BY <1>10 DEF vars, minerVars, ghosts
  <2>2. Storing' = Storing /\ ResetDue' = ResetDue /\ InFee' = InFee
        /\ Resets(incoming)' = Resets(incoming) /\ SameUnready(incoming)' = SameUnready(incoming)
    BY <2>1 DEF Storing, ResetDue, InFee, Resets, SameUnready
  <2>3. GivenInv'
    BY <1>0, <2>1, <2>2 DEF GivenInv, Below, NoneOf
  <2>4. JobsInv' /\ FitInv'
    BY <1>0, <2>1, <2>2, FitsKept DEF JobsInv
  <2> QED BY <1>0, <1>1, <2>1, <2>3, <2>4 DEF Inv
<1> QED BY <1>2, <1>3, <1>4, <1>5, <1>6, <1>7, <1>8, <1>9, <1>10 DEF Next, WorkerStep

(* Nonce::next, Miner::setJob and WorkerJob for any workers, block sizes   *)
(* and number of jobs, jobs and datasets coming in any order: no nonce of  *)
(* the miner's job is handed out twice, the three exceptions that          *)
(* UniqueNonces names aside.                                               *)
THEOREM NoncesAreUnique == Spec => []UniqueNonces
<1>1. Init => Inv
  BY InitInv
<1>2. Inv /\ [Next]_vars => Inv'
  BY NextInv
<1>3. Inv => UniqueNonces
  BY DEF Inv, UniqueNonces
<1> QED BY <1>1, <1>2, <1>3, PTL DEF Spec
=============================================================================

---------------------------- MODULE NetworkProofs ----------------------------
(***************************************************************************)
(* Proofs about Network and DonateStrategy, for lists of pools and for     *)
(* single pools alike, and about the table of fee routes they use          *)
(* (FeeTable), for any files, routes and targets.                          *)
(***************************************************************************)
EXTENDS Network, FeeTable, SequenceTheorems, TLAPS

(* A running grace period means that no main pool is active, and an active *)
(* main pool has made the network resilient.                               *)
GraceInStep == (grace => ~MainActive) /\ (MainActive => resilient)

FeeInv == FeeTypeOK /\ TimerInStep /\ ConnectIsTrying

Inv == TypeOK /\ FeeInv /\ GraceInStep /\ MainServed

USE DEF isActive, MainActive, Hashed

(* What a strategy does to its type. *)
LEMMA LinkTypes ==
    ASSUME fee \in Fee!LinkType, main \in Main!LinkType
    PROVE  /\ Fee!Login => fee' \in Fee!LinkType /\ fee'.st = "active"
           /\ Fee!Lost => fee' \in Fee!LinkType /\ fee'.wanted = fee.wanted /\ fee.st = "active"
           /\ Fee!Over => fee' \in Fee!LinkType /\ ~fee'.wanted /\ ~fee.wanted
           /\ Fee!Stopped => fee' \in Fee!LinkType /\ ~fee'.wanted /\ ~fee.wanted
           /\ Fee!Stop => fee' \in Fee!LinkType /\ ~fee'.wanted
           /\ Fee!Trying \in Fee!LinkType
           /\ Main!Login => main' \in Main!LinkType /\ main'.st = "active"
           /\ Main!Lost => main' \in Main!LinkType /\ main'.st = "trying" /\ main.st = "active"
           /\ Main!Trying \in Main!LinkType /\ Main!Trying.st = "trying"
<1> USE DEF Fee!LinkType, Main!LinkType
<1>1. Fee!Login => fee' \in Fee!LinkType /\ fee'.st = "active"
  BY DEF Fee!Login
<1>2. Fee!Lost => fee' \in Fee!LinkType /\ fee'.wanted = fee.wanted /\ fee.st = "active"
  BY DEF Fee!Lost
<1>3. Fee!Over => fee' \in Fee!LinkType /\ ~fee'.wanted /\ ~fee.wanted
  BY DEF Fee!Over, Fee!Off
<1>4. Fee!Stopped => fee' \in Fee!LinkType /\ ~fee'.wanted /\ ~fee.wanted
  BY DEF Fee!Stopped, Fee!Off
<1>5. Fee!Stop => fee' \in Fee!LinkType /\ ~fee'.wanted
  BY DEF Fee!Stop
<1>6. Fee!Trying \in Fee!LinkType
  BY DEF Fee!Trying
<1>7. Main!Login => main' \in Main!LinkType /\ main'.st = "active"
  BY DEF Main!Login
<1>8. Main!Lost => main' \in Main!LinkType /\ main'.st = "trying" /\ main.st = "active"
  BY DEF Main!Lost
<1>9. Main!Trying \in Main!LinkType /\ Main!Trying.st = "trying"
  BY DEF Main!Trying
<1> QED  BY <1>1, <1>2, <1>3, <1>4, <1>5, <1>6, <1>7, <1>8, <1>9

(* The constructors establish the invariant. *)
LEMMA InitInv == Init => Inv
<1> SUFFICES ASSUME Init PROVE Inv
  OBVIOUS
<1>1. fee \in Fee!LinkType /\ ~fee.wanted
  BY DEF Init, FeeInit, Fee!Off, Fee!LinkType
<1>2. main \in Main!LinkType /\ ~MainActive
  BY DEF Init, Main!Trying, Main!LinkType
<1>3. TypeOK
  BY <1>1, <1>2 DEF Init, FeeInit, TypeOK, FeeTypeOK
<1>4. FeeInv
  BY <1>1, <1>3 DEF Init, FeeInit, FeeInv, TypeOK, TimerInStep, ConnectIsTrying
<1>5. GraceInStep /\ MainServed
  BY <1>2 DEF Init, GraceInStep, MainServed
<1> QED  BY <1>3, <1>4, <1>5 DEF Inv

(* The steps of the fee rounds keep the invariant of the fee rounds. *)
LEMMA FeeStep ==
    ASSUME FeeInv, main \in Main!LinkType,
           \/ TableChanges \/ Begins \/ Activates \/ Ends \/ Leaves \/ FeeLost \/ FeeOver
           \/ UNCHANGED feeVars
    PROVE  FeeInv'
<1> USE DEF FeeInv, FeeTypeOK, TimerInStep, ConnectIsTrying
<1>1. CASE TableChanges
  BY <1>1 DEF TableChanges
<1>2. CASE Begins
  BY <1>2, LinkTypes DEF Begins
<1>3. CASE Activates
  BY <1>3, LinkTypes DEF Activates
<1>4. CASE Ends
  BY <1>4 DEF Ends
<1>5. CASE Leaves
  BY <1>5, LinkTypes DEF Leaves
<1>6. CASE FeeLost
  BY <1>6, LinkTypes DEF FeeLost, Fee!Trying
<1>7. CASE FeeOver
  BY <1>7, LinkTypes DEF FeeOver, Fee!Trying
<1>8. CASE UNCHANGED feeVars
  BY <1>8 DEF feeVars
<1> QED  BY <1>1, <1>2, <1>3, <1>4, <1>5, <1>6, <1>7, <1>8

(* Every step of Next leaves the fee rounds alone or is one of theirs. *)
LEMMA NextFeeStep ==
    ASSUME [Next]_vars
    PROVE  \/ TableChanges \/ Begins \/ Activates \/ Ends \/ Leaves \/ FeeLost \/ FeeOver
           \/ UNCHANGED feeVars
  BY DEF Next, vars, MainLogin, MainJob, MainLost, Reload, FeeLogin, FeeJob, FeeEnds, FeeQuiet, Tick

(* A job of the main pool outside a fee round is the one hashed next. *)
LEMMA JobStep ==
    ASSUME TypeOK, fstate' = fstate, \E d \in BOOLEAN : Job(d)
    PROVE  /\ owed' = FALSE /\ diardi' \in BOOLEAN
           /\ miner' \in {"idle", "main", "rest", "fee"}
           /\ ~isActive' => miner' = Hashed(diardi)'
<1>1. PICK d \in BOOLEAN : Job(d)
  OBVIOUS
<1>2. diardi' = d /\ owed' = FALSE
  BY <1>1 DEF Job
<1>3. ~isActive => miner' = (IF d THEN "rest" ELSE "main")
  BY <1>1 DEF Job
<1>4. isActive => miner' = miner
  BY <1>1 DEF Job
<1> QED  BY <1>2, <1>3, <1>4 DEF TypeOK

(* The invariant is inductive. *)
LEMMA NextInv ==
    ASSUME Inv, [Next]_vars
    PROVE  Inv'
<1> USE DEF Inv, TypeOK, GraceInStep, MainServed, netVars
<1>0. FeeInv' /\ FeeTypeOK'
  BY FeeStep, NextFeeStep DEF FeeInv
<1>a. main \in Main!LinkType /\ fee \in Fee!LinkType
  BY DEF FeeTypeOK
<1>1. CASE MainLogin
  <2>1. fstate' = fstate /\ main' \in Main!LinkType /\ resilient' = TRUE /\ grace' = FALSE
    BY <1>1, <1>a, LinkTypes DEF MainLogin, feeVars
  <2>2. CASE \E d \in BOOLEAN : Job(d)
    BY <1>0, <2>1, <2>2, JobStep
  <2>3. CASE owed' = TRUE /\ UNCHANGED <<diardi, miner>>
    BY <1>0, <2>1, <2>3
  <2> QED  BY <1>1, <2>2, <2>3 DEF MainLogin
<1>2. CASE MainJob
  <2>1. fstate' = fstate /\ UNCHANGED <<main, resilient, grace>>
    BY <1>2 DEF MainJob, feeVars
  <2>2. \E d \in BOOLEAN : Job(d)
    BY <1>2 DEF MainJob
  <2> QED  BY <1>0, <2>1, <2>2, JobStep
<1>3. CASE MainLost
  BY <1>0, <1>3, <1>a, LinkTypes DEF MainLost, Pause, feeVars
<1>4. CASE Reload
  BY <1>0, <1>4, <1>a, LinkTypes DEF Reload, Pause, feeVars
<1>5. CASE FeeLogin
  BY <1>0, <1>5 DEF FeeLogin, Activates
<1>6. CASE FeeJob
  BY <1>0, <1>6 DEF FeeJob, feeVars
<1>7. CASE FeeEnds
  BY <1>0, <1>7 DEF FeeEnds, Ends, Pause
<1>8. CASE FeeQuiet
  BY <1>0, <1>8 DEF FeeQuiet, Begins, FeeLost, FeeOver, TableChanges
<1>9. ASSUME NEW g \in BOOLEAN, NEW w \in BOOLEAN, Tick(g, w)
      PROVE  Inv'
  BY <1>0, <1>9 DEF Tick, Leaves, feeVars
<1>10. CASE UNCHANGED vars
  BY <1>0, <1>10 DEF vars, feeVars
<1> QED  BY <1>1, <1>2, <1>3, <1>4, <1>5, <1>6, <1>7, <1>8, <1>9, <1>10 DEF Next

(* The inductive invariant holds in every state Network and DonateStrategy *)
(* reach.                                                                  *)
THEOREM InvHolds == Spec => []Inv
  BY InitInv, NextInv, PTL DEF Spec

(* Types of the fee rounds and of the network. *)
THEOREM TypeCorrect == Spec => []TypeOK
  BY InvHolds, PTL DEF Inv

(* The state machine of the fee rounds never gets stuck without its timer  *)
(* and never hits the assertion in DonateStrategy::setState.               *)
THEOREM TimerCorrect == Spec => []TimerInStep
<1>1. Inv => TimerInStep
  BY DEF Inv, FeeInv
<1> QED  BY <1>1, InvHolds, PTL

(* In CONNECT a fee pool is being tried; in IDLE none is wanted. *)
THEOREM ConnectCorrect == Spec => []ConnectIsTrying
<1>1. Inv => ConnectIsTrying
  BY DEF Inv, FeeInv
<1> QED  BY <1>1, InvHolds, PTL

(* No job of a connected main pool is forgotten. *)
THEOREM MainIsServed == Spec => []MainServed
  BY InvHolds, PTL DEF Inv

-----------------------------------------------------------------------------
(* Without a reload of a single main pool nothing is hashed for nobody. *)
Covered == HashingIsCovered /\ FeeIsCovered

(* Every step keeps what is hashed covered. *)
LEMMA CoveredStep ==
    ASSUME ~(MainSingle /\ MayReload), Inv, Covered, [Next]_vars
    PROVE  Covered'
<1> USE DEF Covered, HashingIsCovered, FeeIsCovered, Inv, GraceInStep, netVars
<1>1. CASE MainLogin
  BY <1>1, LinkTypes DEF MainLogin, Job, feeVars, TypeOK, FeeTypeOK
<1>2. CASE MainJob
  BY <1>2 DEF MainJob, Job, feeVars
<1>3. CASE MainLost
  BY <1>3, LinkTypes DEF MainLost, Pause, feeVars, TypeOK, FeeTypeOK
<1>4. CASE Reload
  BY <1>4 DEF Reload, Pause, feeVars
<1>5. CASE FeeLogin
  BY <1>5 DEF FeeLogin, Activates
<1>6. CASE FeeJob
  BY <1>6 DEF FeeJob, feeVars
<1>7. CASE FeeEnds
  BY <1>7 DEF FeeEnds, Ends, Pause
<1>8. CASE FeeQuiet
  BY <1>8 DEF FeeQuiet, Begins, FeeLost, FeeOver, TableChanges
<1>9. ASSUME NEW g \in BOOLEAN, NEW w \in BOOLEAN, Tick(g, w)
      PROVE  Covered'
  BY <1>9 DEF Tick, Leaves, feeVars
<1>10. CASE UNCHANGED vars
  BY <1>10 DEF vars, feeVars
<1> QED  BY <1>1, <1>2, <1>3, <1>4, <1>5, <1>6, <1>7, <1>8, <1>9, <1>10 DEF Next

(* The miner hashes a job of the main pool only for a pool that is         *)
(* connected or within the grace period, and a fee job only in a fee round *)
(* or within what onPause and onActive leave of it.                        *)
THEOREM NothingForNobody ==
    ASSUME ~(MainSingle /\ MayReload)
    PROVE  Spec => [](HashingIsCovered /\ FeeIsCovered)
<1>1. Init => Covered
  BY DEF Init, Covered, HashingIsCovered, FeeIsCovered
<1>2. Inv /\ Covered /\ [Next]_vars => Covered'
  BY CoveredStep
<1>3. Covered => HashingIsCovered /\ FeeIsCovered
  BY DEF Covered
<1> QED  BY <1>1, <1>2, <1>3, InvHolds, PTL DEF Spec

(* ... and in particular the fee pool gets no work outside of a round but  *)
(* what onPause and onActive leave it (Network::onActive, onPause).        *)
THEOREM FeeOnlyWhenDue ==
    ASSUME ~(MainSingle /\ MayReload)
    PROVE  Spec => []FeeIsCovered
  BY NothingForNobody, PTL

-----------------------------------------------------------------------------
(* FeeTable. *)

(* Every action leaves the table alone or replaces it by a file that       *)
(* apply() takes.                                                          *)
TableStep ==
    \/ UNCHANGED table
    \/ \E f \in File : /\ Why(f) = ""
                       /\ current' = Merged(f)
                       /\ sequence' = f.seq
                       /\ version' = version + 1

(* Every step leaves the table alone or installs one whole file. *)
LEMMA TableSteps == ASSUME TableNext PROVE TableStep
<1>1. CASE \E i \in 1 .. Len(reqs) : RequestStep(i)
  <2>1. PICK i \in 1 .. Len(reqs) : RequestStep(i) BY <1>1
  <2>2. ASSUME NEW f \in File, Answered(i, f) PROVE TableStep
    BY <2>2 DEF Answered, OnFile, TableStep, table
  <2>3. QED
    BY <2>1, <2>2 DEF RequestStep, Resolved, ResolveFailed, Connected, Advance,
       ConnectFailed, AnswerFailed, TimedOut, OnFailure, TableStep, table
<1>2. CASE Start \/ TableTick \/ WallTick \/ \E g \in BOOLEAN : SetGpu(g)
  BY <1>2 DEF Start, TableTick, WallTick, SetGpu, TableStep, table
<1>3. QED BY <1>1, <1>2 DEF TableNext

(* What a file that apply() takes has passed. *)
LEMMA Taken ==
    ASSUME NEW f \in File, Why(f) = "", sequence \in Nat
    PROVE  Usable(f) /\ f.seq > sequence
  BY FileAssumption DEF Why, FileType, Usable

(* A merged table has a list of routes for every target, none empty. *)
LEMMA MergedType ==
    ASSUME NEW f \in File
    PROVE  Merged(f) \in [Target -> Seq(Route)] /\ \A t \in Target : Merged(f)[t] # <<>>
<1>1. f.routes \in [Target -> Seq(Route)] BY FileAssumption DEF FileType
<1>2. \A t \in Target : Builtin[t] \in Seq(Route) /\ Builtin[t] # <<>>
  BY BuiltinAssumption DEF NonEmptySeq
<1>3. QED BY <1>1, <1>2 DEF Merged

(* The callback of the one request removes it. *)
LEMMA DropOne ==
    ASSUME NEW i \in 1 .. Len(reqs), reqs \in Seq(Request), Len(reqs) <= 1
    PROVE  Drop(i) \in Seq(Request) /\ Len(Drop(i)) = 0
<1>0. Len(reqs) \in Nat BY LenProperties
<1> DEFINE n == Len(reqs)
<1>1. n = 1
  <2> HIDE DEF n
  <2>1. n \in Nat /\ i \in 1 .. n /\ n <= 1 BY <1>0 DEF n
  <2>2. QED BY <2>1
<1>2. Drop(i) = [j \in 1 .. 0 |-> IF j < i THEN reqs[j] ELSE reqs[j + 1]] BY <1>1 DEF Drop
<1>3. QED BY <1>2

(***************************************************************************)
(* What the code installs, which is more than FromSignedFile asks: the     *)
(* table is the built-in one or the whole of one file, merged with the     *)
(* built-in routes.  The inductive invariant is its conjunction with the   *)
(* other invariants and the type invariant.                                *)
(***************************************************************************)
WholeFile ==
    \/ sequence = 0 /\ current = Builtin /\ version = 1
    \/ \E f \in File : Usable(f) /\ f.seq = sequence /\ f.seq > 0 /\ current = Merged(f)

FeeTableInv == TableTypeOK /\ AlwaysARoute /\ WholeFile /\ SingleRequest

(* The built-in table satisfies the invariant. *)
LEMMA InitFeeTable == TableInit => FeeTableInv
<1> SUFFICES ASSUME TableInit PROVE FeeTableInv OBVIOUS
<1>1. \A t \in Target : Builtin[t] \in Seq(Route) /\ Builtin[t] # <<>>
  BY BuiltinAssumption DEF NonEmptySeq
<1>2. Builtin \in [Target -> Seq(Route)] BY BuiltinAssumption, <1>1
<1>3. reqs \in Seq(Request) BY EmptySeq DEF TableInit
<1>3a. current \in [Target -> Seq(Route)] BY <1>2 DEF TableInit
<1>3b. TableTypeOK BY <1>3, <1>3a DEF TableInit, TableTypeOK
<1>4. AlwaysARoute BY <1>1 DEF TableInit, AlwaysARoute
<1>5. WholeFile /\ SingleRequest BY DEF TableInit, WholeFile, SingleRequest
<1>6. QED BY <1>3b, <1>4, <1>5 DEF FeeTableInv

(* The table: a step that replaces it installs one whole, taken file.      *)
LEMMA TableInv ==
    ASSUME FeeTableInv, TableNext
    PROVE  /\ current' \in [Target -> Seq(Route)] /\ version' \in Nat /\ sequence' \in Nat
           /\ AlwaysARoute' /\ WholeFile'
<1>1. TableStep BY TableSteps
<1>2. CASE UNCHANGED table
  <2>1. current' = current /\ version' = version /\ sequence' = sequence BY <1>2 DEF table
  <2>2. WholeFile' BY <2>1 DEF FeeTableInv, WholeFile, Merged, Usable, Listed
  <2>3. AlwaysARoute' BY <2>1 DEF FeeTableInv, AlwaysARoute
  <2>4. QED BY <2>1, <2>2, <2>3 DEF FeeTableInv, TableTypeOK
<1>3. ASSUME NEW f \in File, Why(f) = "", current' = Merged(f), sequence' = f.seq,
             version' = version + 1
      PROVE  /\ current' \in [Target -> Seq(Route)] /\ version' \in Nat /\ sequence' \in Nat
             /\ AlwaysARoute' /\ WholeFile'
  <2>1. f.seq \in Nat /\ sequence \in Nat
    BY FileAssumption DEF FileType, FeeTableInv, TableTypeOK
  <2>2. Usable(f) /\ f.seq > sequence BY <1>3, <2>1, Taken
  <2>2a. f.seq > 0 BY <2>1, <2>2
  <2>3. WholeFile' BY <1>3, <2>2, <2>2a DEF WholeFile, Merged, Usable, Listed
  <2>4. AlwaysARoute' BY <1>3, MergedType DEF AlwaysARoute
  <2>5. current' \in [Target -> Seq(Route)] BY <1>3, MergedType
  <2>6. version \in Nat BY DEF FeeTableInv, TableTypeOK
  <2>6b. version' = version + 1 BY <1>3
  <2>6a. version' \in Nat BY <2>6, <2>6b
  <2>7. sequence' \in Nat BY <1>3, <2>1
  <2>8. QED BY <2>3, <2>4, <2>5, <2>6a, <2>7
<1>4. QED BY <1>1, <1>2, <1>3 DEF TableStep

(* The other variables of the type invariant and the request bookkeeping.  *)
RequestInv ==
    /\ off \in BOOLEAN /\ gpu \in BOOLEAN /\ started \in BOOLEAN /\ busy \in BOOLEAN
    /\ wait \in Nat /\ wall \in Nat
    /\ reqs \in Seq(Request)
    /\ SingleRequest

(* The callback of the only request leaves none and resets busy. *)
LEMMA CallbackInv ==
    ASSUME RequestInv, NEW i \in 1 .. Len(reqs),
           busy' = FALSE, reqs' = Drop(i), wait' \in Nat, UNCHANGED <<off, gpu, started, wall>>
    PROVE  RequestInv'
<1>1. Len(reqs) <= 1 BY DEF RequestInv, SingleRequest
<1>2. Drop(i) \in Seq(Request) /\ Len(Drop(i)) = 0 BY <1>1, DropOne DEF RequestInv
<1>3. QED BY <1>2 DEF RequestInv, SingleRequest

(* A request that goes on to its next phase stays the only one. *)
LEMMA AdvanceInv ==
    ASSUME RequestInv, NEW i \in 1 .. Len(reqs), NEW from \in Phase, NEW to \in Phase,
           Advance(i, from, to)
    PROVE  RequestInv'
<1>1. reqs \in Seq(Request) BY DEF RequestInv
<1>2. reqs[i] \in Request BY <1>1, ElementOfSeq
<1>3. [reqs[i] EXCEPT !.phase = to] \in Request BY <1>2 DEF Request
<1>4. reqs' = [reqs EXCEPT ![i] = [reqs[i] EXCEPT !.phase = to]] BY DEF Advance
<1>5. reqs' \in Seq(Request) /\ Len(reqs') = Len(reqs) BY <1>1, <1>3, <1>4, ExceptSeq
<1>6. QED BY <1>5 DEF Advance, RequestInv, SingleRequest

(* Time passes: a request is added only when none is under way.            *)
LEMMA TickInv == ASSUME RequestInv, TableTick PROVE RequestInv'
<1> DEFINE n == Len(reqs)
<1>1. reqs \in Seq(Request) /\ n \in Nat BY LenProperties DEF RequestInv
<1>2. \A i \in 1 .. n : [reqs[i] EXCEPT !.left = @ - 1] \in Request
  <2> TAKE i \in 1 .. n
  <2>1. reqs[i] \in Request BY <1>1, ElementOfSeq
  <2>2. reqs[i].left > 0 BY DEF TableTick
  <2>3. QED BY <2>1, <2>2, NumberAssumption DEF Request
<1>3. Older \in Seq(Request) /\ Len(Older) = n
  <2>1. Older = [i \in 1 .. n |-> [reqs[i] EXCEPT !.left = @ - 1]] BY DEF Older
  <2>2. Older \in [1 .. n -> Request] BY <1>2, <2>1
  <2>3. QED BY <1>1, <2>1, <2>2, SeqDef
<1>4. CASE Due
  <2> DEFINE r == [phase |-> "dns", left |-> kFetchTimeout]
  <2>1. r \in Request BY NumberAssumption DEF Request, Phase
  <2>2. reqs' = Append(Older, r) /\ busy' = TRUE /\ wait' = kRetryInterval
    BY <1>4 DEF TableTick
  <2>3. n = 0 BY <1>4 DEF Due, RequestInv, SingleRequest
  <2>4. reqs' \in Seq(Request) /\ Len(reqs') = 1
    BY <1>3, <2>1, <2>2, <2>3, AppendProperties
  <2>5. started /\ ~off BY <1>4 DEF Due, RequestInv, SingleRequest
  <2>6. QED BY <2>2, <2>4, <2>5, NumberAssumption DEF RequestInv, SingleRequest, TableTick
<1>5. CASE ~Due
  <2>1. reqs' = Older /\ wait' = Sooner /\ busy' = busy BY <1>5 DEF TableTick
  <2>2. wait' \in Nat BY <2>1 DEF Sooner, RequestInv
  <2>3. QED BY <1>3, <2>1, <2>2 DEF RequestInv, SingleRequest, TableTick
<1>6. QED BY <1>4, <1>5

(* Every event of a request keeps the request part of the invariant. *)
LEMMA RequestStepInv ==
    ASSUME RequestInv, NEW i \in 1 .. Len(reqs), RequestStep(i)
    PROVE  RequestInv'
<1> USE NumberAssumption
<1>1. CASE Resolved(i) BY <1>1, AdvanceInv DEF Resolved, Phase
<1>2. CASE ResolveFailed(i) BY <1>2, AdvanceInv DEF ResolveFailed, Phase
<1>3. CASE Connected(i) BY <1>3, AdvanceInv DEF Connected, Phase
<1>4. CASE OnFailure(i) BY <1>4, CallbackInv DEF OnFailure
<1>5. ASSUME NEW f \in File, Answered(i, f) PROVE RequestInv'
  <2>1. wait' \in Nat BY <1>5 DEF Answered, OnFile
  <2>2. QED BY <1>5, <2>1, CallbackInv DEF Answered, OnFile
<1>6. QED BY <1>1, <1>2, <1>3, <1>4, <1>5
          DEF RequestStep, ConnectFailed, AnswerFailed, TimedOut

(* So does every step. *)
LEMMA NextRequestInv == ASSUME RequestInv, TableNext PROVE RequestInv'
<1>1. CASE Start BY <1>1, NumberAssumption DEF Start, RequestInv, SingleRequest
<1>2. ASSUME NEW g \in BOOLEAN, SetGpu(g) PROVE RequestInv'
  BY <1>2 DEF SetGpu, RequestInv, SingleRequest
<1>3. CASE TableTick BY <1>3, TickInv
<1>4. CASE WallTick BY <1>4 DEF WallTick, RequestInv, SingleRequest
<1>5. CASE \E i \in 1 .. Len(reqs) : RequestStep(i) BY <1>5, RequestStepInv
<1>6. QED BY <1>1, <1>2, <1>3, <1>4, <1>5 DEF TableNext

(* The invariant is inductive. *)
LEMMA NextFeeTable == ASSUME FeeTableInv, [TableNext]_tableVars PROVE FeeTableInv'
<1>1. CASE TableNext
  <2>1. RequestInv BY DEF FeeTableInv, TableTypeOK, RequestInv
  <2>2. RequestInv' BY <1>1, <2>1, NextRequestInv
  <2>3. QED BY <1>1, <2>2, TableInv DEF FeeTableInv, TableTypeOK, RequestInv
<1>2. CASE UNCHANGED tableVars
  <2>1. WholeFile' BY <1>2 DEF tableVars, FeeTableInv, WholeFile, Merged, Usable, Listed
  <2>2. QED BY <1>2, <2>1 DEF tableVars, FeeTableInv, TableTypeOK, AlwaysARoute, SingleRequest
<1>3. QED BY <1>1, <1>2

(* It holds in every state the program reaches. *)
THEOREM SpecInv == TableSpec => []FeeTableInv
  BY InitFeeTable, NextFeeTable, PTL DEF TableSpec

(* Whatever files the operator publishes, every variable keeps its type.   *)
THEOREM TableTypeCorrect == TableSpec => []TableTypeOK
  BY SpecInv, PTL DEF FeeTableInv

(* mainRoute() never fails and the fee pools are never an empty list, for  *)
(* any set of published files.                                             *)
THEOREM RouteAlwaysExists == TableSpec => []AlwaysARoute
  BY SpecInv, PTL DEF FeeTableInv

(* The table never shows anything but the built-in routes and those of     *)
(* signed, valid files, and the newest one taken rules what it names.      *)
THEOREM TableIsAuthentic == TableSpec => []FromSignedFile
<1>1. FeeTableInv => FromSignedFile
  <2> SUFFICES ASSUME FeeTableInv PROVE FromSignedFile OBVIOUS
  <2>1. CASE sequence = 0 /\ current = Builtin /\ version = 1 BY <2>1 DEF FromSignedFile
  <2>2. ASSUME NEW f \in File, Usable(f), f.seq = sequence, f.seq > 0, current = Merged(f)
        PROVE  FromSignedFile
    <3>1. f.seq \in Nat BY FileAssumption DEF FileType
    <3>2. \A t \in Target : IF f.routes[t] # <<>> THEN current[t] = f.routes[t]
                                                 ELSE current[t] = Builtin[t]
      BY <2>2 DEF Merged
    <3>3. sequence # 0 /\ f.seq <= sequence BY <2>2, <3>1
    <3>4. QED BY <2>2, <3>2, <3>3 DEF FromSignedFile
  <2>3. QED BY <2>1, <2>2 DEF FeeTableInv, WholeFile
<1>2. QED BY <1>1, SpecInv, PTL

(* busy is exact: one request at most, none when updates are turned off.   *)
THEOREM OneRequest == TableSpec => []SingleRequest
  BY SpecInv, PTL DEF FeeTableInv

(* The table only ever moves forward in the operator's numbering, and the  *)
(* version tells its readers of every change.                              *)
THEOREM TableNeverRollsBack == TableSpec => NoRollback
<1> DEFINE Forward == (current' # current \/ sequence' # sequence)
                         => sequence' > sequence /\ version' = version + 1
<1>1. FeeTableInv /\ [TableNext]_tableVars => [Forward]_tableVars
  <2> SUFFICES ASSUME FeeTableInv, TableNext PROVE Forward BY DEF tableVars
  <2>1. TableStep BY TableSteps
  <2>2. sequence \in Nat BY DEF FeeTableInv, TableTypeOK
  <2>3. QED BY <2>1, <2>2, Taken DEF TableStep, table
<1>2. QED BY <1>1, SpecInv, PTL DEF TableSpec, NoRollback
=============================================================================

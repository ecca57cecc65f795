-------------------------- MODULE SupervisorProofs --------------------------
(***************************************************************************)
(* The children of the supervisors and the distance of fee rounds, for any *)
(* routes.                                                                 *)
(***************************************************************************)
EXTENDS Supervisor, TLAPS

(* The flags of the supervisor are what the system knows. *)
FlagsInStep == running = Flags(proc)

(* Where in its loop a supervisor may have which child. *)
ChildrenInStep ==
    /\ proc["fee"] # "none" => pc \in {"fee", "rieFee"}
    /\ proc["main"] # "none" => pc \notin {"boot", "rie", "fee", "rieFee", "exited"}

(* After a fee round and before time passes the next round is later, in    *)
(* memory and, once it is written, on disk, where an earlier time cannot   *)
(* come back; a start of the program knows what is on disk only.           *)
PaidIsLater ==
    /\ mode = "auto" /\ paid # "no" /\ pc # "save" => due = "later"
    /\ mode = "auto" /\ paid = "disk" => file \in {"later", "none"}
    /\ pc = "boot" => paid # "memory"

(* Each of the two programs stays in its own loop. *)
ModeInStep ==
    /\ pc \in {"rie", "rieWait", "rieFee"} => mode = "ric"
    /\ pc \in {"top", "fee", "save", "fetch", "check", "wait"} => mode = "auto"

Inv == TypeOK /\ FlagsInStep /\ ChildrenInStep /\ PaidIsLater /\ ModeInStep

-----------------------------------------------------------------------------
(* What the operations on children make of well-formed children. *)
Procs == [Child -> {"none", "alive", "dead"}]

(* A child that is stopped is gone, the other stays as it is (stopChild).  *)
LEMMA StoppedFacts ==
    ASSUME NEW STATE p, p \in Procs, NEW CONSTANT c \in Child
    PROVE  /\ Stopped(p, c) \in Procs
           /\ Stopped(p, c)[c] = "none"
           /\ \A d \in Child \ {c} : Stopped(p, c)[d] = p[d]
  BY DEF Stopped, Procs, Child

(* A start gives a live child or nothing new (startProcess).               *)
LEMMA StartedFacts ==
    ASSUME NEW STATE p, p \in Procs, NEW CONSTANT c \in Child, NEW q \in Started(p, c)
    PROVE  /\ q \in Procs
           /\ q[c] \in {p[c], "alive"}
           /\ \A d \in Child \ {c} : q[d] = p[d]
  BY DEF Started, Procs, Child

(* A first start of the program has the invariant.                         *)
LEMMA InitInv == Init => Inv
<1> SUFFICES ASSUME Init PROVE Inv
  OBVIOUS
<1>1. running = Flags(proc)
  BY DEF Init, Flags, Child
<1>2. TypeOK
  BY Zenon DEF Init, TypeOK, Time, Paid
<1>3. ChildrenInStep
  BY DEF Init, ChildrenInStep, Child
<1>4. PaidIsLater
  BY DEF Init, PaidIsLater
<1>5. ModeInStep
  BY DEF Init, ModeInStep
<1> QED BY <1>1, <1>2, <1>3, <1>4, <1>5 DEF Inv, FlagsInStep

(* Whatever the children become, the flags follow. *)
LEMMA BecomeFacts ==
    ASSUME NEW p, p \in Procs, Become(p)
    PROVE  /\ proc' = p /\ proc' \in Procs
           /\ running' \in [Child -> BOOLEAN]
           /\ FlagsInStep'
  BY DEF Become, FlagsInStep, Flags

(* A step that keeps the children keeps their flags right. *)
LEMMA KeepFacts ==
    ASSUME Inv, Keep
    PROVE  /\ proc' = proc /\ proc' \in Procs
           /\ running' \in [Child -> BOOLEAN]
           /\ FlagsInStep'
  BY DEF Inv, TypeOK, Keep, FlagsInStep, Flags, Procs

(* A start of the program has no children and is in neither loop. *)
LEMMA FreshFacts ==
    ASSUME Fresh
    PROVE  /\ proc' \in Procs /\ running' \in [Child -> BOOLEAN]
           /\ FlagsInStep' /\ ChildrenInStep' /\ ModeInStep'
<1>1. proc' \in Procs /\ running' \in [Child -> BOOLEAN]
  BY DEF Fresh, Procs
<1>2. FlagsInStep'
  BY DEF Fresh, FlagsInStep, Flags
<1>3. ChildrenInStep'
  BY DEF Fresh, ChildrenInStep, Child
<1>4. ModeInStep'
  BY DEF Fresh, ModeInStep
<1> QED BY <1>1, <1>2, <1>3, <1>4

-----------------------------------------------------------------------------
(* Types, except those of the children, which the lemmas above give. *)
Types ==
    /\ mode \in {"auto", "ric"}
    /\ pc \in {"boot", "top", "fee", "save", "fetch", "check", "wait", "rie", "rieWait",
               "rieFee", "exited"}
    /\ mining \in Route \cup {NoRoute} /\ current \in Route \cup {NoRoute}
    /\ next \in Route \cup {NoRoute} /\ haveCurrent \in BOOLEAN
    /\ due \in Time /\ file \in Time \cup {"none"}
    /\ shutdown \in BOOLEAN /\ server \in Route \cup {NoRoute}
    /\ timer \in BOOLEAN /\ paid \in Paid /\ disk \in SUBSET {"r", "w"}

(* The loop of --auto keeps the invariant. *)
LEMMA AutoInv ==
    ASSUME Inv, Boot \/ Top \/ FeeEnds \/ Save \/ Fetch \/ Check \/ Wait \/ Last
    PROVE  Inv'
<1> USE DEF Inv
<1>p. proc \in Procs /\ Types
  BY DEF TypeOK, Types, Procs
<1>c. "main" \in Child /\ "fee" \in Child /\ "main" # "fee"
  BY DEF Child
<1> SUFFICES /\ proc' \in Procs /\ running' \in [Child -> BOOLEAN] /\ Types'
             /\ FlagsInStep' /\ ChildrenInStep' /\ PaidIsLater' /\ ModeInStep'
  BY Zenon DEF TypeOK, Types, Procs
<1>1. CASE Boot
  <2>1. proc' = proc /\ proc' \in Procs /\ running' \in [Child -> BOOLEAN] /\ FlagsInStep'
    BY <1>1, KeepFacts DEF Boot
  <2>2. Types'
    <3>1. Loaded \in Time
      BY <1>p DEF Loaded, CanLoad, Types, Time
    <3>2. Written \in {"later", file}
      BY DEF Written
    <3>3. due' \in Time /\ file' \in Time \cup {"none"}
      BY <1>1, <1>p, <3>1, <3>2 DEF Boot, Types, Time
    <3> QED BY <1>1, <1>p, <3>3 DEF Boot, Types, routeVars
  <2>3. ChildrenInStep'
    BY <1>1, <2>1 DEF Boot, ChildrenInStep
  <2>4. PaidIsLater'
    <3>1. /\ pc = "boot" /\ pc' # "boot" /\ pc' # "save"
          /\ mode' = mode /\ paid' = paid
      BY <1>1 DEF Boot
    <3>2. mode = "auto" => due' = Loaded /\ file' \in {file, "later"}
      BY <1>1 DEF Boot, Written
    <3>3. Loaded \in {file, "later"} /\ (file = "none" => Loaded = "later")
      BY DEF Loaded, CanLoad
    <3>4. paid \in Paid
      BY <1>p DEF Types
    <3>5. mode = "auto" /\ paid # "no" => paid = "disk" /\ file \in {"later", "none"}
      BY <3>1, <3>4 DEF PaidIsLater, Paid
    <3> QED BY <3>1, <3>2, <3>3, <3>5 DEF PaidIsLater
  <2>5. ModeInStep'
    BY <1>1 DEF Boot, ModeInStep
  <2> QED BY <2>1, <2>2, <2>3, <2>4, <2>5
<1>2. CASE Top
  <2>1. CASE Keep
    <3>1. proc' = proc /\ proc' \in Procs /\ running' \in [Child -> BOOLEAN] /\ FlagsInStep'
      BY <2>1, KeepFacts
    <3>2. pc' = "save" \/ pc' = "fetch" \/ (pc' = "fee" /\ proc'["fee"] = "alive")
      BY <1>2 DEF Top, Become
    <3>3. Types'
      <4>1. pc' \in {"save", "fetch", "fee"}
        BY <3>2
      <4>2. haveCurrent' \in BOOLEAN
        BY Zenon, <1>2, <1>p DEF Top, Types
      <4> QED BY <1>2, <1>p, <4>1, <4>2 DEF Top, Types, world
    <3>4. proc["fee"] = "none"
      BY <1>2 DEF Top, ChildrenInStep
    <3>5. ChildrenInStep'
      BY <1>2, <3>1, <3>2, <3>4 DEF ChildrenInStep
    <3>6. PaidIsLater'
      BY <1>2 DEF Top, PaidIsLater, world
    <3>7. ModeInStep'
      BY <1>2, <3>2 DEF Top, ModeInStep, world
    <3> QED BY <3>1, <3>3, <3>5, <3>6, <3>7
  <2>2. CASE ~Keep
    <3> DEFINE q == BeforeFee(proc)
    <3>1. q \in Procs /\ q["main"] = "none" /\ q["fee"] = proc["fee"]
      BY <1>p, <1>c, StoppedFacts DEF BeforeFee
    <3>2. PICK p \in Started(q, "fee") :
             Become(p) /\ pc' = IF p["fee"] = "alive" THEN "fee" ELSE "save"
      BY <1>2, <2>2 DEF Top
    <3> HIDE DEF q
    <3>3. p \in Procs /\ p["main"] = "none" /\ p["fee"] \in {q["fee"], "alive"}
      BY <3>1, <1>c, StartedFacts
    <3>4. proc["fee"] = "none"
      BY <1>2 DEF Top, ChildrenInStep
    <3>5. proc' = p /\ proc' \in Procs /\ running' \in [Child -> BOOLEAN] /\ FlagsInStep'
      BY <3>2, <3>3, BecomeFacts
    <3>6. Types'
      <4>1. pc' \in {"save", "fee"}
        BY <3>2
      <4>2. haveCurrent' \in BOOLEAN
        BY Zenon, <1>2, <1>p DEF Top, Types
      <4> QED BY <1>2, <1>p, <4>1, <4>2 DEF Top, Types, world
    <3>7. ChildrenInStep'
      BY <3>1, <3>2, <3>3, <3>4, <3>5 DEF ChildrenInStep
    <3>8. PaidIsLater'
      BY <1>2 DEF Top, PaidIsLater, world
    <3>9. ModeInStep'
      BY <1>2, <3>2 DEF Top, ModeInStep, world
    <3> QED BY <3>5, <3>6, <3>7, <3>8, <3>9
  <2> QED BY <2>1, <2>2
<1>3. CASE FeeEnds
  <2>1. /\ proc' \in Procs /\ running' \in [Child -> BOOLEAN] /\ FlagsInStep'
        /\ proc'["fee"] = "none" /\ proc'["main"] = proc["main"]
    BY <1>3, <1>p, <1>c, StoppedFacts, BecomeFacts DEF FeeEnds
  <2>2. Types'
    BY <1>3, <1>p DEF FeeEnds, Types, Paid, routeVars, world
  <2>3. ChildrenInStep'
    BY <1>3, <2>1 DEF FeeEnds, ChildrenInStep
  <2>4. PaidIsLater'
    BY <1>3 DEF FeeEnds, PaidIsLater
  <2>5. ModeInStep'
    BY <1>3 DEF FeeEnds, ModeInStep, world
  <2> QED BY <2>1, <2>2, <2>3, <2>4, <2>5
<1>4. CASE Save
  <2>1. proc' = proc /\ proc' \in Procs /\ running' \in [Child -> BOOLEAN] /\ FlagsInStep'
    BY <1>4, KeepFacts DEF Save
  <2>2. Types'
    <3>1. paid' \in Paid
      BY <1>4, <1>p DEF Save, Types, Paid
    <3>2. due' \in Time /\ file' \in Time \cup {"none"}
      BY <1>4, <1>p DEF Save, FeeSaved, Written, Types, Time
    <3> QED BY <1>4, <1>p, <3>1, <3>2 DEF Save, Types, routeVars
  <2>3. ChildrenInStep'
    BY <1>4, <2>1 DEF Save, ChildrenInStep
  <2>4. PaidIsLater'
    BY <1>4 DEF Save, FeeSaved, Written, PaidIsLater
  <2>5. ModeInStep'
    BY <1>4 DEF Save, ModeInStep
  <2> QED BY <2>1, <2>2, <2>3, <2>4, <2>5
<1>5. CASE Fetch
  <2>1. proc' = proc /\ proc' \in Procs /\ running' \in [Child -> BOOLEAN] /\ FlagsInStep'
    BY <1>5, KeepFacts DEF Fetch
  <2>2. Types'
    BY <1>5, <1>p DEF Fetch, Types, world
  <2>3. ChildrenInStep'
    BY <1>5, <2>1 DEF Fetch, ChildrenInStep
  <2>4. PaidIsLater'
    BY <1>5 DEF Fetch, PaidIsLater, world
  <2>5. ModeInStep'
    BY <1>5 DEF Fetch, ModeInStep, world
  <2> QED BY <2>1, <2>2, <2>3, <2>4, <2>5
<1>6. CASE Check
  <2>1. /\ proc' \in Procs /\ running' \in [Child -> BOOLEAN] /\ FlagsInStep'
        /\ proc'["fee"] = proc["fee"]
        /\ pc' = "wait" \/ (pc' = "exited" /\ proc'["main"] = "none")
    <3>1. CASE Keep /\ pc' = "wait"
      BY <3>1, KeepFacts
    <3>2. CASE Become(Stopped(proc, "main")) /\ pc' = "exited"
      BY <3>2, <1>p, <1>c, StoppedFacts, BecomeFacts
    <3>3. CASE Become([proc EXCEPT !["main"] = "alive"]) /\ pc' = "wait"
      <4> DEFINE p == [proc EXCEPT !["main"] = "alive"]
      <4>1. p \in Procs /\ p["fee"] = proc["fee"]
        BY <1>p, <1>c DEF Procs
      <4> HIDE DEF p
      <4> QED BY <3>3, <4>1, BecomeFacts DEF p
    <3> QED BY <1>6, <3>1, <3>2, <3>3 DEF Check
  <2>2. Types'
    <3>1. /\ mining' \in Route \cup {NoRoute} /\ current' \in Route \cup {NoRoute}
          /\ haveCurrent' \in BOOLEAN
      BY Zenon, <1>6, <1>p DEF Check, Types
    <3> QED BY <1>6, <1>p, <2>1, <3>1 DEF Check, Types, world
  <2>3. ChildrenInStep'
    BY <1>6, <2>1 DEF Check, ChildrenInStep
  <2>4. PaidIsLater'
    BY <1>6 DEF Check, PaidIsLater, world
  <2>5. ModeInStep'
    BY <1>6, <2>1 DEF Check, ModeInStep, world
  <2> QED BY <2>1, <2>2, <2>3, <2>4, <2>5
<1>7. CASE Wait
  <2>1. /\ proc' \in Procs /\ running' \in [Child -> BOOLEAN] /\ FlagsInStep'
        /\ proc'["fee"] = proc["fee"]
    <3>1. CASE Keep
      BY <3>1, KeepFacts
    <3>2. CASE Reaped("main")
      <4> DEFINE p == [proc EXCEPT !["main"] = "none"]
      <4>1. p \in Procs /\ p["fee"] = proc["fee"]
        BY <1>p, <1>c DEF Procs
      <4>2. Become(p)
        BY <3>2 DEF Reaped
      <4> HIDE DEF p
      <4> QED BY <4>1, <4>2, BecomeFacts
    <3> QED BY <1>7, <3>1, <3>2 DEF Wait
  <2>2. Types'
    <3>1. /\ pc' = "top" /\ haveCurrent' \in BOOLEAN
          /\ UNCHANGED <<current, next, mining, due, paid, mode, file, disk, shutdown, server, timer>>
      <4>1. haveCurrent \in BOOLEAN
        BY <1>p DEF Types
      <4> QED BY <1>7, <4>1 DEF Wait, world
    <3> QED BY <1>p, <3>1 DEF Types
  <2>3. ChildrenInStep'
    BY <1>7, <2>1 DEF Wait, ChildrenInStep
  <2>4. PaidIsLater'
    BY <1>7 DEF Wait, PaidIsLater, world
  <2>5. ModeInStep'
    BY <1>7 DEF Wait, ModeInStep, world
  <2> QED BY <2>1, <2>2, <2>3, <2>4, <2>5
<1>8. CASE Last
  <2>1. /\ proc' \in Procs /\ running' \in [Child -> BOOLEAN] /\ FlagsInStep'
        /\ proc'["main"] = "none" /\ proc'["fee"] = proc["fee"]
    BY <1>8, <1>p, <1>c, StoppedFacts, BecomeFacts DEF Last
  <2>2. Types'
    BY <1>8, <1>p DEF Last, Types, routeVars, world
  <2>3. ChildrenInStep'
    BY <1>8, <2>1 DEF Last, ChildrenInStep
  <2>4. PaidIsLater'
    BY <1>8 DEF Last, PaidIsLater, world
  <2>5. ModeInStep'
    BY <1>8 DEF Last, ModeInStep, world
  <2> QED BY <2>1, <2>2, <2>3, <2>4, <2>5
<1> QED BY <1>1, <1>2, <1>3, <1>4, <1>5, <1>6, <1>7, <1>8

(* The loop of -a ric keeps the invariant. *)
LEMMA RicInv ==
    ASSUME Inv, RieStart \/ RieWait \/ RieFee
    PROVE  Inv'
<1> USE DEF Inv
<1>p. proc \in Procs /\ Types
  BY DEF TypeOK, Types, Procs
<1>c. "main" \in Child /\ "fee" \in Child /\ "main" # "fee"
  BY DEF Child
<1> SUFFICES /\ proc' \in Procs /\ running' \in [Child -> BOOLEAN] /\ Types'
             /\ FlagsInStep' /\ ChildrenInStep' /\ PaidIsLater' /\ ModeInStep'
  BY Zenon DEF TypeOK, Types, Procs
<1>r. mode = "ric"
  BY DEF RieStart, RieWait, RieFee, ModeInStep
<1>1. Ric
  BY DEF RieStart, RieWait, RieFee
<1>2. pc' \in {"exited", "rie", "rieWait", "rieFee"}
  BY DEF RieStart, RieWait, RieFee
<1>3. Types'
  BY <1>p, <1>1, <1>2 DEF Ric, Types, routeVars, world
<1>4. PaidIsLater' /\ ModeInStep'
  BY <1>r, <1>1, <1>2 DEF Ric, world, PaidIsLater, ModeInStep
<1>5. CASE RieStart
  <2>1. PICK p \in Started(proc, "main") :
           Become(p) /\ pc' = IF p["main"] = "alive" THEN "rieWait" ELSE "exited"
    BY <1>5 DEF RieStart
  <2>2. p \in Procs /\ p["main"] \in {proc["main"], "alive"} /\ p["fee"] = proc["fee"]
    BY <1>p, <1>c, StartedFacts
  <2>3. proc' = p /\ proc' \in Procs /\ running' \in [Child -> BOOLEAN] /\ FlagsInStep'
    BY <2>1, <2>2, BecomeFacts
  <2>4. ChildrenInStep'
    BY <1>5, <2>1, <2>2, <2>3 DEF RieStart, ChildrenInStep
  <2> QED BY <1>3, <1>4, <2>3, <2>4
<1>6. CASE RieWait
  <2>0. proc["fee"] = "none"
    BY <1>6 DEF RieWait, ChildrenInStep
  <2>1. CASE Reaped("main") /\ pc' = "exited"
    <3> DEFINE p == [proc EXCEPT !["main"] = "none"]
    <3>1. p \in Procs /\ p["fee"] = proc["fee"] /\ p["main"] = "none"
      BY <1>p, <1>c DEF Procs
    <3>2. Become(p)
      BY <2>1 DEF Reaped
    <3> HIDE DEF p
    <3>3. proc' = p /\ proc' \in Procs /\ running' \in [Child -> BOOLEAN] /\ FlagsInStep'
      BY <3>1, <3>2, BecomeFacts
    <3>4. ChildrenInStep'
      BY <2>0, <2>1, <3>1, <3>3 DEF ChildrenInStep
    <3> QED BY <1>3, <1>4, <3>3, <3>4
  <2>2. CASE Become(Stopped(proc, "main")) /\ pc' = "exited"
    <3>1. /\ proc' \in Procs /\ running' \in [Child -> BOOLEAN] /\ FlagsInStep'
          /\ proc'["main"] = "none" /\ proc'["fee"] = proc["fee"]
      BY <2>2, <1>p, <1>c, StoppedFacts, BecomeFacts
    <3>2. ChildrenInStep'
      BY <2>0, <2>2, <3>1 DEF ChildrenInStep
    <3> QED BY <1>3, <1>4, <3>1, <3>2
  <2>3. CASE \E p \in Started(Stopped(proc, "main"), "fee") : Become(p) /\ pc' = "rieFee"
    <3> DEFINE q == Stopped(proc, "main")
    <3>1. q \in Procs /\ q["main"] = "none"
      BY <1>p, <1>c, StoppedFacts
    <3>2. PICK p \in Started(q, "fee") : Become(p) /\ pc' = "rieFee"
      BY <2>3
    <3> HIDE DEF q
    <3>3. p \in Procs /\ p["main"] = "none"
      BY <3>1, <1>c, StartedFacts
    <3>4. proc' = p /\ proc' \in Procs /\ running' \in [Child -> BOOLEAN] /\ FlagsInStep'
      BY <3>2, <3>3, BecomeFacts
    <3>5. ChildrenInStep'
      BY <3>2, <3>3, <3>4 DEF ChildrenInStep
    <3> QED BY <1>3, <1>4, <3>4, <3>5
  <2> QED BY <1>6, <2>1, <2>2, <2>3 DEF RieWait
<1>7. CASE RieFee
  <2>1. /\ proc' \in Procs /\ running' \in [Child -> BOOLEAN] /\ FlagsInStep'
        /\ proc'["fee"] = "none" /\ proc'["main"] = proc["main"]
    BY <1>7, <1>p, <1>c, StoppedFacts, BecomeFacts DEF RieFee
  <2>2. ChildrenInStep'
    BY <1>7, <2>1 DEF RieFee, ChildrenInStep
  <2> QED BY <1>3, <1>4, <2>1, <2>2
<1> QED BY <1>5, <1>6, <1>7

(* So does the world: children that die, time, signals, kills, restarts. *)
LEMMA WorldInv ==
    ASSUME Inv,
           \/ \E c \in Child : Dies(c)
           \/ \E r \in Route \cup {NoRoute} : ServerSays(r)
           \/ \E d \in SUBSET {"r", "w"} : DiskBecomes(d)
           \/ TimePasses \/ Signal \/ Killed \/ KilledInSave \/ Restart
    PROVE  Inv'
<1> USE DEF Inv
<1>p. proc \in Procs /\ Types /\ running \in [Child -> BOOLEAN]
  BY DEF TypeOK, Types, Procs
<1> SUFFICES /\ proc' \in Procs /\ running' \in [Child -> BOOLEAN] /\ Types'
             /\ FlagsInStep' /\ ChildrenInStep' /\ PaidIsLater' /\ ModeInStep'
  BY Zenon DEF TypeOK, Types, Procs
<1>1. ASSUME NEW c \in Child, Dies(c)
      PROVE  /\ proc' \in Procs /\ running' \in [Child -> BOOLEAN] /\ Types'
             /\ FlagsInStep' /\ ChildrenInStep' /\ PaidIsLater' /\ ModeInStep'
  <2>1. proc' \in Procs /\ \A d \in Child : proc'[d] = "none" <=> proc[d] = "none"
    BY <1>1, <1>p DEF Dies, Procs
  <2>2. FlagsInStep' /\ running' = running
    BY <1>1, <2>1 DEF Dies, FlagsInStep, Flags
  <2>3. Types'
    BY <1>1, <1>p DEF Dies, Types, routeVars, world
  <2>4. ChildrenInStep'
    BY <1>1, <2>1 DEF Dies, ChildrenInStep, Child
  <2>5. PaidIsLater' /\ ModeInStep'
    BY <1>1 DEF Dies, PaidIsLater, ModeInStep, world
  <2> QED BY <1>p, <2>1, <2>2, <2>3, <2>4, <2>5
<1>2. ASSUME NEW r \in Route \cup {NoRoute}, ServerSays(r)
      PROVE  /\ proc' \in Procs /\ running' \in [Child -> BOOLEAN] /\ Types'
             /\ FlagsInStep' /\ ChildrenInStep' /\ PaidIsLater' /\ ModeInStep'
  <2>1. Types'
    BY <1>2, <1>p DEF ServerSays, Types, routeVars
  <2>2. FlagsInStep' /\ ChildrenInStep' /\ PaidIsLater' /\ ModeInStep'
    BY <1>2 DEF ServerSays, FlagsInStep, Flags, ChildrenInStep, PaidIsLater, ModeInStep
  <2> QED BY <1>2, <1>p, <2>1, <2>2 DEF ServerSays
<1>3. CASE TimePasses
  <2>2. UNCHANGED <<pc, proc, running, mode>> /\ paid' = "no"
    BY <1>3 DEF TimePasses
  <2>5. /\ current' = current /\ next' = next /\ haveCurrent' = haveCurrent
        /\ mining' = mining /\ shutdown' = shutdown /\ server' = server /\ timer' = timer
        /\ pc' = pc /\ mode' = mode /\ disk' = disk
    BY <1>3 DEF TimePasses, routeVars
  <2>6. due' \in Time /\ (file' = file \/ file' = "now")
    BY <1>3 DEF TimePasses
  <2>7. file' \in Time \cup {"none"}
    BY <2>6, <1>p DEF Types, Time
  <2>8. paid' \in Paid
    BY <2>2 DEF Paid
  <2>1. Types'
    BY <2>5, <2>6, <2>7, <2>8, <1>p DEF Types
  <2>3. FlagsInStep' /\ ChildrenInStep' /\ ModeInStep'
    BY <2>2 DEF FlagsInStep, Flags, ChildrenInStep, ModeInStep
  <2>4. PaidIsLater'
    BY <2>2 DEF PaidIsLater
  <2> QED BY <1>p, <2>1, <2>2, <2>3, <2>4
<1>4. CASE Signal
  <2>1. Types'
    BY <1>4, <1>p DEF Signal, Types, routeVars
  <2>2. FlagsInStep' /\ ChildrenInStep' /\ PaidIsLater' /\ ModeInStep'
    BY <1>4 DEF Signal, FlagsInStep, Flags, ChildrenInStep, PaidIsLater, ModeInStep
  <2> QED BY <1>4, <1>p, <2>1, <2>2 DEF Signal
<1>5. CASE Killed \/ KilledInSave
  <2>1. Fresh /\ Types' /\ PaidIsLater'
    BY <1>5, <1>p DEF Killed, KilledInSave, Fresh, Types, Time, Paid, PaidIsLater
  <2> QED BY <2>1, FreshFacts
<1>6. CASE Restart
  <2>1. Fresh /\ Types' /\ PaidIsLater'
    BY <1>6, <1>p DEF Restart, Fresh, Types, Time, Paid, PaidIsLater
  <2> QED BY <2>1, FreshFacts
<1>7. ASSUME NEW d \in SUBSET {"r", "w"}, DiskBecomes(d)
      PROVE  /\ proc' \in Procs /\ running' \in [Child -> BOOLEAN] /\ Types'
             /\ FlagsInStep' /\ ChildrenInStep' /\ PaidIsLater' /\ ModeInStep'
  <2>1. Types'
    BY <1>7, <1>p DEF DiskBecomes, Types, routeVars
  <2>2. FlagsInStep' /\ ChildrenInStep' /\ PaidIsLater' /\ ModeInStep'
    BY <1>7 DEF DiskBecomes, FlagsInStep, Flags, ChildrenInStep, PaidIsLater, ModeInStep
  <2> QED BY <1>7, <1>p, <2>1, <2>2 DEF DiskBecomes
<1> QED BY <1>1, <1>2, <1>3, <1>4, <1>5, <1>6, <1>7

(* Every step of the supervisor and of the world keeps the invariant. *)
LEMMA NextInv == Inv /\ [Next]_vars => Inv'
<1> SUFFICES ASSUME Inv, [Next]_vars PROVE Inv'
  OBVIOUS
<1>1. CASE Steps
  BY <1>1, AutoInv, RicInv DEF Steps
<1>2. CASE Next /\ ~Steps
  BY <1>2, WorldInv DEF Next
<1>3. CASE UNCHANGED vars
  BY <1>3 DEF vars, Inv, TypeOK, FlagsInStep, Flags, ChildrenInStep, PaidIsLater, ModeInStep
<1> QED BY <1>1, <1>2, <1>3

-----------------------------------------------------------------------------
(* The invariant holds in every run of a supervisor (maybeAuto,            *)
(* maybeDispatch), its kills and restarts included.                        *)
THEOREM Invariant == Spec => []Inv
  BY InitInv, NextInv, PTL DEF Spec

(* The variables of the supervisor keep their types. *)
THEOREM TypeCorrect == Spec => []TypeOK
<1>1. Inv => TypeOK
  BY DEF Inv
<1> QED BY <1>1, Invariant, PTL

(* The miner and the fee miner never run side by side (maybeAuto and       *)
(* maybeDispatch stop the one before they start the other), for any routes *)
(* and wherever signals, deaths and kills fall.                            *)
THEOREM SideBySide == Spec => []OneMiner
<1>1. Inv => OneMiner
  BY DEF Inv, ChildrenInStep, OneMiner
<1> QED BY <1>1, Invariant, PTL

(* A supervisor that ends by itself has stopped its children (stopChild,   *)
(* stopProcess), on whichever of its exits.                                *)
THEOREM LeavesNothing == Spec => []NothingLeft
<1>1. Inv => NothingLeft
  BY DEF Inv, ChildrenInStep, NothingLeft, Child
<1> QED BY <1>1, Invariant, PTL

(* A fee round starts only at the top of the loop of --auto, with its time *)
(* come, and by PaidIsLater that is not the time of a round that has been: *)
(* the file, once written, carries the next time over a restart and over a *)
(* kill, however it can be opened then (loadFeeDueEpoch, saveFeeDueEpoch). *)
THEOREM NotRepeated == Spec => FeeSpaced
<1> DEFINE Spaced == mode = "auto" /\ proc["fee"] # "alive" /\ proc'["fee"] = "alive" => paid = "no"
<1>1. ASSUME Inv, [Next]_vars, ~Spaced PROVE FALSE
  <2>1. mode = "auto" /\ proc["fee"] # "alive" /\ proc'["fee"] = "alive" /\ paid # "no"
    BY <1>1
  <2>p. proc \in Procs /\ "fee" \in Child /\ "main" \in Child /\ "fee" # "main"
    BY <1>1 DEF Inv, TypeOK, Procs, Child
  <2>2. CASE Top
    <3>1. due = "later"
      BY <1>1, <2>1, <2>2 DEF Top, Inv, PaidIsLater
    <3>2. Keep
      BY <3>1, <2>2 DEF Top
    <3> QED BY <3>2, <2>1 DEF Keep
  <2>3. CASE Boot \/ Save \/ Fetch
    BY <2>1, <2>3 DEF Boot, Save, Fetch, Keep
  <2>4. CASE FeeEnds \/ Last
    <3>1. proc' \in {Stopped(proc, "fee"), Stopped(proc, "main")}
      BY <2>4 DEF FeeEnds, Last, Become
    <3> QED BY <2>1, <2>p, <3>1, StoppedFacts
  <2>5. CASE Check \/ Wait
    <3>1. \/ proc' = proc \/ proc' = Stopped(proc, "main")
          \/ proc' = [proc EXCEPT !["main"] = "alive"]
          \/ proc' = [proc EXCEPT !["main"] = "none"]
      BY <2>5 DEF Check, Wait, Keep, Become, Reaped
    <3> QED BY <2>1, <2>p, <3>1 DEF Stopped, Procs
  <2>6. CASE RieStart \/ RieWait \/ RieFee
    BY <1>1, <2>1, <2>6 DEF Inv, ModeInStep, RieStart, RieWait, RieFee
  <2>7. CASE \E c \in Child : Dies(c)
    BY <2>1, <2>7, <2>p DEF Dies, Procs
  <2>8. CASE \E r \in Route \cup {NoRoute} : ServerSays(r)
    BY <2>1, <2>8 DEF ServerSays
  <2>11. CASE \E d \in SUBSET {"r", "w"} : DiskBecomes(d)
    BY <2>1, <2>11 DEF DiskBecomes
  <2>9. CASE TimePasses \/ Signal \/ UNCHANGED vars
    BY <2>1, <2>9 DEF TimePasses, Signal, vars
  <2>10. CASE Killed \/ KilledInSave \/ Restart
    BY <2>1, <2>10, <2>p DEF Killed, KilledInSave, Restart, Fresh
  <2> QED BY <1>1, <2>2, <2>3, <2>4, <2>5, <2>6, <2>7, <2>8, <2>9, <2>10, <2>11
      DEF Next, Steps
<1>2. Inv /\ [Next]_vars => [Spaced]_vars
  BY <1>1
<1> QED BY <1>2, Invariant, PTL DEF Spec, FeeSpaced
=============================================================================

----------------------------- MODULE Supervisor -----------------------------
(***************************************************************************)
(* The process that runs miners as child processes: --auto, which follows  *)
(* the signed route of the account server (autoswitch/AutoSwitch.cpp), and *)
(* -a ric, which runs rieMiner (riecoin/Dispatch.cpp).  Both stop their    *)
(* miner for a fee round and start it again afterwards.                    *)
(*                                                                         *)
(* A time is "later" or "now" (it has come).  The supervisor may be told   *)
(* to stop at any moment, or killed, and be started again; a child may     *)
(* die at any moment.  Left out: the signature of a route, what the child  *)
(* mines, the faster refresh while its pool is away.                       *)
(***************************************************************************)
EXTENDS Integers

CONSTANTS
    Place,     \* algorithm, host, port, user and TLS of a route
    Extra,     \* its password and coin
    NoRoute    \* the account server is unreachable or has no route

Route == [place : Place, extra : Extra]

ASSUME RouteAssumption == NoRoute \notin Route

Child == {"main", "fee"}
Time  == {"later", "now"}
Paid  == {"no", "memory", "disk"}

VARIABLES
    mode,      \* "auto" or "ric"
    pc,
    proc,      \* what the operating system knows of a child
    running,   \* ChildProcess::running
    mining,    \* the route the child "main" was started with
    current, haveCurrent, next,
    due,       \* feeDueEpoch
    file,      \* the state file; "none": there is none
    disk,      \* how the state file can be opened: "r", "w"
    shutdown,  \* shuttingDown()
    server,    \* the answer of the account server
    timer,     \* ric: there is a fee route, so the round of rieMiner ends
    paid       \* not the program: a fee round has ended, no time has passed since, and
               \* the time of the next one is in memory or on disk as well

vars == <<mode, pc, proc, running, mining, current, haveCurrent, next, due, file, disk,
          shutdown, server, timer, paid>>

routeVars == <<current, haveCurrent, next>>
world     == <<mode, file, disk, shutdown, server, timer>>

TypeOK ==
    /\ mode \in {"auto", "ric"}
    /\ pc \in {"boot", "top", "fee", "save", "fetch", "check", "wait", "rie", "rieWait",
               "rieFee", "exited"}
    /\ proc \in [Child -> {"none", "alive", "dead"}]
    /\ running \in [Child -> BOOLEAN]
    /\ mining \in Route \cup {NoRoute} /\ current \in Route \cup {NoRoute}
    /\ next \in Route \cup {NoRoute} /\ haveCurrent \in BOOLEAN
    /\ due \in Time /\ file \in Time \cup {"none"}
    /\ shutdown \in BOOLEAN /\ server \in Route \cup {NoRoute}
    /\ timer \in BOOLEAN /\ paid \in Paid /\ disk \in SUBSET {"r", "w"}

(* What a start of the program finds in memory. *)
Fresh ==
    /\ proc' = [c \in Child |-> "none"] /\ running' = [c \in Child |-> FALSE]
    /\ mining' = NoRoute /\ current' = NoRoute /\ haveCurrent' = FALSE /\ next' = NoRoute
    /\ due' = "later" /\ shutdown' = FALSE
    /\ pc' = "boot"
    /\ paid' = IF paid = "disk" THEN "disk" ELSE "no"

Init ==
    /\ mode \in {"auto", "ric"} /\ timer \in BOOLEAN
    /\ pc = "boot"
    /\ proc = [c \in Child |-> "none"] /\ running = [c \in Child |-> FALSE]
    /\ mining = NoRoute /\ current = NoRoute /\ haveCurrent = FALSE /\ next = NoRoute
    /\ due = "later" /\ file \in Time \cup {"none"} /\ shutdown = FALSE
    /\ server \in Route \cup {NoRoute}
    /\ paid = "no" /\ disk \in SUBSET {"r", "w"}

-----------------------------------------------------------------------------
(* Child processes: the states p of the processes, f of the flags. *)

(* stopChild(), stopProcess(): terminated and waited for. *)
Stopped(p, c) == [p EXCEPT ![c] = "none"]

(* startProcess() succeeds, or fails and leaves all as it is. *)
Started(p, c) == {p, [p EXCEPT ![c] = "alive"]}

(* The flags after that. *)
Flags(p) == [c \in Child |-> p[c] # "none"]

(* The children are p now. *)
Become(p) == proc' = p /\ running' = Flags(p)

Keep == UNCHANGED <<proc, running>>

(* waitChild() has seen that the child died, and has collected it. *)
Reaped(c) == proc[c] = "dead" /\ Become([proc EXCEPT ![c] = "none"])

-----------------------------------------------------------------------------
(* --auto *)

(* Mutant of Loaded: each start waits anew. *)
Loaded_Fresh == "later"

(* loadFeeDueEpoch() finds a time ... *)
CanLoad == file # "none" /\ "r" \in disk

(* ... or there is a first random wait. *)
Loaded == IF CanLoad THEN file ELSE "later"

(* saveFeeDueEpoch(): nothing is written when the file cannot be opened. *)
Written == IF "w" \in disk THEN "later" ELSE file

Boot ==
    /\ pc = "boot"
    /\ \/ /\ mode = "auto" /\ pc' = "top"
          /\ due' = Loaded /\ file' = IF CanLoad THEN file ELSE Written
       \/ mode = "ric" /\ pc' = "rie" /\ UNCHANGED <<due, file>>
    /\ Keep
    /\ UNCHANGED <<routeVars, mode, mining, disk, shutdown, server, timer, paid>>

(* Mutant of BeforeFee: the miner goes on in the fee round. *)
BeforeFee_GoesOn(p) == p

(* The miner is stopped for the fee round. *)
BeforeFee(p) == Stopped(p, "main")

(* The top of the loop.  A fee round may find no route, or not start. *)
Top ==
    /\ pc = "top" /\ ~shutdown
    /\ IF due = "now"
       THEN \/ pc' = "save" /\ Keep /\ UNCHANGED haveCurrent
            \/ /\ \E p \in Started(BeforeFee(proc), "fee") :
                     Become(p) /\ pc' = IF p["fee"] = "alive" THEN "fee" ELSE "save"
               /\ haveCurrent' = (haveCurrent /\ ~running["main"])
       ELSE pc' = "fetch" /\ Keep /\ UNCHANGED haveCurrent
    /\ UNCHANGED <<current, next, mining, due, paid, world>>

(* The fee round ends: its time is over, its miner died, or a shutdown. *)
FeeEnds ==
    /\ pc = "fee" /\ pc' = "save"
    /\ Become(Stopped(proc, "fee"))
    /\ paid' = "memory"
    /\ UNCHANGED <<routeVars, mining, due, world>>

(* Mutant of FeeSaved: the next round is only remembered. *)
FeeSaved_InMemory == due' = "later" /\ UNCHANGED file

FeeSaved == due' = "later" /\ file' = Written

Save ==
    /\ pc = "save" /\ pc' = "fetch"
    /\ FeeSaved
    /\ paid' = IF paid = "memory" /\ "w" \in disk THEN "disk" ELSE paid
    /\ Keep
    /\ UNCHANGED <<routeVars, mode, mining, disk, shutdown, server, timer>>

(* fetchRoute(): without an answer the route in use is kept, if any. *)
Fetch ==
    /\ pc = "fetch"
    /\ \/ server # NoRoute /\ next' = server /\ pc' = "check"
       \/ server = NoRoute /\ haveCurrent /\ next' = current /\ pc' = "check"
       \/ server = NoRoute /\ ~haveCurrent /\ UNCHANGED next /\ pc' = "top"
    /\ Keep
    /\ UNCHANGED <<current, haveCurrent, mining, due, paid, world>>

(* Route::operator== looks neither at the password nor at the coin. *)
Same(a, b) == a # NoRoute /\ b # NoRoute /\ a.place = b.place

(* Mutant of Outdated: a new route waits for the next start. *)
Outdated_Sticky(up) == ~haveCurrent \/ ~up

(* The child is to be started (again); up: it still runs. *)
Outdated(up) == ~haveCurrent \/ ~Same(next, current) \/ ~up

(* The child is looked after, and started on another route. *)
Check ==
    /\ pc = "check"
    /\ LET up == running["main"] /\ proc["main"] # "dead"
       IN  \/ ~Outdated(up) /\ pc' = "wait" /\ Keep /\ UNCHANGED <<mining, current, haveCurrent>>
           \/ /\ Outdated(up)
              /\ \/ Become(Stopped(proc, "main")) /\ pc' = "exited"
                    /\ UNCHANGED <<mining, current, haveCurrent>>
                 \/ Become([proc EXCEPT !["main"] = "alive"]) /\ pc' = "wait"
                    /\ mining' = next /\ current' = next /\ haveCurrent' = TRUE
    /\ UNCHANGED <<next, due, paid, world>>

(* waitChild() until the next refresh: the child died, or time is up. *)
Wait ==
    /\ pc = "wait" /\ pc' = "top"
    /\ \/ Reaped("main") /\ haveCurrent' = FALSE
       \/ proc["main"] # "dead" /\ Keep /\ UNCHANGED haveCurrent
    /\ UNCHANGED <<current, next, mining, due, paid, world>>

(* Mutant of Last: the child is left behind. *)
Last_Leaves ==
    /\ pc = "top" /\ shutdown /\ pc' = "exited"
    /\ Keep
    /\ UNCHANGED <<routeVars, mining, due, paid, world>>

(* A shutdown is noticed at the top of the loop. *)
Last ==
    /\ pc = "top" /\ shutdown /\ pc' = "exited"
    /\ Become(Stopped(proc, "main"))
    /\ UNCHANGED <<routeVars, mining, due, paid, world>>

-----------------------------------------------------------------------------
(* -a ric *)
Ric == UNCHANGED <<routeVars, mining, due, world, paid>>

RieStart ==
    /\ pc = "rie"
    /\ \E p \in Started(proc, "main") :
          Become(p) /\ pc' = IF p["main"] = "alive" THEN "rieWait" ELSE "exited"
    /\ Ric

(* Mutant of Times: a wait without a timer does not end. *)
Times_Deaf == timer

(* runFor() returns though the child lives. *)
Times == timer \/ shutdown

(* The end of a round of rieMiner: it ended by itself, which is the end,   *)
(* or it is stopped, for a shutdown or for a fee round.                    *)
RieWait ==
    /\ pc = "rieWait"
    /\ \/ Reaped("main") /\ pc' = "exited"
       \/ /\ Times /\ proc["main"] # "dead"
          /\ IF shutdown THEN Become(Stopped(proc, "main")) /\ pc' = "exited"
             ELSE \E p \in Started(Stopped(proc, "main"), "fee") :
                     Become(p) /\ pc' = "rieFee"
    /\ Ric

RieFee ==
    /\ pc = "rieFee"
    /\ Become(Stopped(proc, "fee"))
    /\ pc' = IF shutdown THEN "exited" ELSE "rie"
    /\ Ric

-----------------------------------------------------------------------------
(* The world. *)
Dies(c) ==
    /\ proc[c] = "alive" /\ proc' = [proc EXCEPT ![c] = "dead"]
    /\ UNCHANGED <<pc, running, routeVars, mining, due, world, paid>>

ServerSays(r) ==
    /\ mode = "auto" /\ server' = r
    /\ UNCHANGED <<pc, proc, running, routeVars, mining, due, mode, file, disk, shutdown, timer, paid>>

(* The time of the next fee round comes; the file may hold an earlier one. *)
TimePasses ==
    /\ mode = "auto" /\ due = "later"
    /\ due' \in Time /\ file' = (IF file = "later" THEN "now" ELSE file)
    /\ <<due', file'>> # <<due, file>>
    /\ paid' = "no"
    /\ UNCHANGED <<pc, proc, running, routeVars, mining, mode, disk, shutdown, server, timer>>

(* Permissions, a full disk: fopen() fails or works again. *)
DiskBecomes(d) ==
    /\ mode = "auto" /\ disk' = d
    /\ UNCHANGED <<pc, proc, running, routeVars, mining, due, mode, file, shutdown, server,
                   timer, paid>>

(* Ctrl-C or SIGTERM *)
Signal ==
    /\ pc \notin {"boot", "exited"} /\ ~shutdown /\ shutdown' = TRUE
    /\ UNCHANGED <<pc, proc, running, routeVars, mining, due, mode, file, disk, server, timer, paid>>

(* The supervisor is killed; its children are on their own, out of sight. *)
Killed == pc # "exited" /\ Fresh /\ UNCHANGED <<mode, file, disk, server, timer>>

(* ... while it writes the file, which is emptied first. *)
KilledInSave ==
    /\ mode = "auto" /\ "w" \in disk
    /\ pc = "save" \/ (pc = "boot" /\ ~CanLoad)
    /\ Fresh /\ file' = "none" /\ UNCHANGED <<mode, disk, server, timer>>

(* The program is started again after it ended. *)
Restart ==
    /\ pc = "exited"
    /\ Fresh /\ UNCHANGED <<mode, file, disk, server, timer>>

Steps == Boot \/ Top \/ FeeEnds \/ Save \/ Fetch \/ Check \/ Wait \/ Last
         \/ RieStart \/ RieWait \/ RieFee

Next ==
    \/ Steps
    \/ \E c \in Child : Dies(c)
    \/ \E r \in Route \cup {NoRoute} : ServerSays(r)
    \/ \E d \in SUBSET {"r", "w"} : DiskBecomes(d)
    \/ TimePasses \/ Signal \/ Killed \/ KilledInSave \/ Restart

Spec == Init /\ [][Next]_vars

(* The supervisor is scheduled and time goes on; nobody has to start it.   *)
FairSpec == Spec /\ WF_vars(Steps) /\ WF_vars(TimePasses)

-----------------------------------------------------------------------------
(* The miner and the fee miner never run side by side: each would take the *)
(* threads of the other (maybeAuto, maybeDispatch).                        *)
OneMiner == ~(proc["main"] = "alive" /\ proc["fee"] = "alive")

(* A supervisor that ends by itself leaves no child behind, whatever ended *)
(* it and wherever the signal found it (stopChild, stopProcess).           *)
NothingLeft == pc = "exited" => \A c \in Child : proc[c] # "alive"

(* A fee round is not repeated: another one only starts after some time,   *)
(* over restarts and kills as well once the next time is on disk           *)
(* (saveFeeDueEpoch).  A kill or a restart may repeat the round when it    *)
(* was not: the supervisor was killed before it had written the time down, *)
(* or the file could not be opened for it.  In the second case an old time *)
(* that is still readable repeats the round at every restart, where the    *)
(* comment at line 599 expects a fresh random wait.                        *)
FeeSpaced ==
    [][mode = "auto" /\ proc["fee"] # "alive" /\ proc'["fee"] = "alive" => paid = "no"]_vars

(* The fee comes around though routes change, children die and the         *)
(* supervisor is restarted or killed any number of times, as long as it    *)
(* gets around its loop (the comment above kFeeUnitMs) and the state file  *)
(* can be read and written: without it each start waits anew (line 574).   *)
FeeComesAround ==
    []<>(mode = "auto" /\ pc = "wait") /\ <>[](disk = {"r", "w"}) => []<>(pc = "save")

(* A route the server sticks to is the one that is mined, but for its      *)
(* password and its coin: a route that differs only in these is not taken  *)
(* up until the miner is started for another reason (Route::operator==).   *)
FollowsServer ==
    \A r \in Route :
       <>[](server = r) /\ []<>(pc = "wait")
           => []<>(Same(mining, r) /\ proc["main"] = "alive")

(* "keep mining what we have while the route server is unreachable": a     *)
(* supervisor with a route keeps a miner running through an outage of the  *)
(* account server.                                                         *)
KeepsMining ==
    [](haveCurrent /\ [](server = NoRoute /\ ~shutdown /\ pc \notin {"boot", "exited"})
          => []<>(proc["main"] = "alive"))

(* A shutdown ends the program, with or without a timer, unless it is      *)
(* killed first.                                                           *)
ShutdownEnds == shutdown ~> (pc = "exited" \/ ~shutdown)
=============================================================================

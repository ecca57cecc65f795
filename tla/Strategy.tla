------------------------------ MODULE Strategy ------------------------------
(***************************************************************************)
(* A pool strategy and its clients: FailoverStrategy.cpp for a list of     *)
(* pools, SinglePoolStrategy.cpp for one pool.  The first pool is tried    *)
(* forever; when it fails often enough the next pools are tried one after  *)
(* another, and as soon as the first one logs in the others are dropped.   *)
(*                                                                         *)
(* Client callbacks call the strategy synchronously, so a callback and all *)
(* it does to the strategy and to the other clients is one step.           *)
(***************************************************************************)
EXTENDS Client

CONSTANTS
    Sizes,      \* the lengths a list of pools may have
    Retries,    \* m_retries
    Outlooks,   \* sets of pools that may be the ones to stop failing some day
    Overlap,    \* links fail and deadlines end before a dropped client is gone
    MayStop     \* stop() and a later connect() happen, as for the fee pools

AnyId == UNION {0 .. k - 1 : k \in Sizes}

(* Retries > 1 as for the fee pools (2) and by default for the main pools  *)
(* (5); see README for what a single retry would allow.                    *)
ASSUME StrategyAssumption ==
    Sizes \subseteq Nat \ {0} /\ Retries \in Nat \ {0, 1} /\ Retries <= FailCap
    /\ Outlooks \subseteq SUBSET AnyId /\ Overlap \in BOOLEAN /\ MayStop \in BOOLEAN

VARIABLES
    n,          \* the number of pools
    cl,         \* the clients
    index,      \* m_index: the pool being tried
    active,     \* m_active: the pool in use, -1 for none
    running,    \* between connect() and stop()
    good,       \* not the program: the pools that stop failing some day
    healthy     \* not the program: the pools that do not fail any more

world == <<n, good, healthy>>
vars == <<cl, index, active, running, world>>

Id == 0 .. n - 1

TypeOK ==
    /\ n \in Sizes
    /\ cl \in [Id -> ClientRecord]
    /\ index \in Id
    /\ active \in Id \cup {-1}
    /\ running \in BOOLEAN
    /\ good \in Outlooks /\ healthy \in {{}, good}

(* createStrategy() makes a SinglePoolStrategy of a list of one. *)
Single == n = 1

Init ==
    /\ n \in Sizes
    /\ cl = [i \in Id |-> IF i = 0 THEN Connect(NewClient) ELSE NewClient]
    /\ index = 0
    /\ active = -1
    /\ running = TRUE
    /\ good \in Outlooks /\ good \subseteq Id /\ healthy = {}

-----------------------------------------------------------------------------
(* The listener interface of the strategies. *)

(* Mutant of Advances: only the loss of the pool in use counts. *)
Advances_OnlyActive(i, f) ==
    f # -1 /\ ~(index = 0 /\ f < Retries) /\ active = i /\ index = i /\ n - index > 1

(* FailoverStrategy::onClose: does the next pool get its turn? *)
Advances(i, f) ==
    /\ f # -1
    /\ ~(index = 0 /\ f < Retries)
    /\ index = i
    /\ n - index > 1

(* Mutants of OnClose: m_active is not reset; SinglePoolStrategy ignores a *)
(* disconnect as FailoverStrategy does.                                    *)
OnClose_KeepsActive(i, cs) ==
    /\ active' = active
    /\ IF Advances(i, cs[i].failures)
       THEN /\ index' = index + 1
            /\ cl' = [cs EXCEPT ![index + 1] = Connect(@)]
       ELSE cl' = cs /\ index' = index

OnClose_AsFailover(i, cs) ==
    /\ active' = IF active = i /\ cs[i].failures # -1 THEN -1 ELSE active
    /\ cl' = cs /\ index' = index

(* onClose(client i, failures f) with cs the clients after the callback.   *)
(* SinglePoolStrategy ignores failures, FailoverStrategy a disconnect.     *)
OnClose(i, cs) ==
    LET f == cs[i].failures
    IN  /\ active' = IF active = i /\ (Single \/ f # -1) THEN -1 ELSE active
        /\ IF Advances(i, f)
           THEN /\ index' = index + 1
                /\ cl' = [cs EXCEPT ![index + 1] = Connect(@)]
           ELSE cl' = cs /\ index' = index

(* The pool in use after client i logged in: the first pool always, any    *)
(* other one only when there is none.                                      *)
Chosen(i) == IF i = 0 \/ active = -1 THEN i ELSE active

(* Mutant of Dropped: the reserves stay connected. *)
Dropped_None(cs, a) == cs

(* Mutant of Dropped: the loop starts at 0 and drops the first pool too. *)
Dropped_First(cs, a) == [j \in Id |-> IF j # a THEN Disconnect(cs[j]) ELSE cs[j]]

(* Every reserve but the one in use is disconnected. *)
Dropped(cs, a) == [j \in Id |-> IF j # 0 /\ j # a THEN Disconnect(cs[j]) ELSE cs[j]]

(* onLoginSuccess(client i). *)
OnLoginSuccess(i, cs) ==
    /\ cl' = Dropped(cs, Chosen(i))
    /\ active' = Chosen(i)
    /\ index' = IF Chosen(i) # active THEN Chosen(i) ELSE index

-----------------------------------------------------------------------------
(* Steps of client i that its strategy is not told about. *)
Own(i, c) ==
    /\ cl' = [cl EXCEPT ![i] = c]
    /\ UNCHANGED <<index, active, running, world>>

Resolved(i)     == cl[i].dns /\ Own(i, OnResolved(cl[i]))
Connected(i)    == cl[i].st = "Connecting" /\ cl[i].sock = "open" /\ Own(i, OnConnected(cl[i]))
ConnectError(i) == cl[i].st = "Connecting" /\ cl[i].sock = "open" /\ Own(i, Close(cl[i]))
TlsReady(i)     == cl[i].phase = "tls" /\ cl[i].sock = "open" /\ Own(i, Login(cl[i]))
TlsError(i)     == cl[i].phase = "tls" /\ cl[i].sock = "open" /\ Own(i, Close(cl[i]))

(* A refused login closes the connection of an Epic or Hacash pool; else   *)
(* only when the message is critical or the pool is the second of the list *)
(* (parseResponse asks m_id == 1).                                         *)
LoginRefused(i) ==
    /\ cl[i].phase = "login" /\ cl[i].sock = "open"
    /\ \E critical \in BOOLEAN :
         Own(i, IF RefusalCloses \/ i = 1 \/ critical THEN Close(cl[i]) ELSE OnLoginRefused(cl[i]))

(* Assumed unless Overlap: what is left of a client that was disconnected, *)
(* a lookup that is not cancelled or a socket, ends before the next retry  *)
(* or loss of another client.                                              *)
Settled == \A i \in Id : cl[i].failures = -1 => ~cl[i].dns /\ cl[i].sock = "none"

(* End of the stream, a read or write error, a job that is invalid or was  *)
(* sent twice, a critical error in an answer.                              *)
LinkFailed(i) ==
    /\ cl[i].st = "Connected" /\ cl[i].sock = "open"
    /\ Overlap \/ Single \/ Settled
    /\ \E learned \in BOOLEAN : Own(i, Died(cl[i], learned))

(* Steps that call the strategy. *)
LoginAccepted(i) ==
    /\ cl[i].phase = "login" /\ cl[i].sock = "open"
    /\ OnLoginSuccess(i, [cl EXCEPT ![i] = OnLoginAccepted(cl[i])])
    /\ UNCHANGED <<running, world>>

ResolveError(i) ==
    /\ cl[i].dns
    /\ OnClose(i, [cl EXCEPT ![i] = OnResolveError(cl[i])])
    /\ UNCHANGED <<running, world>>

Closed(i) ==
    /\ cl[i].sock = "closing"
    /\ OnClose(i, [cl EXCEPT ![i] = OnClosed(cl[i])])
    /\ UNCHANGED <<running, world>>

-----------------------------------------------------------------------------
(* What tick() may find due for one client. *)
Due == {"nothing", "expired", "silent", "silent twice", "renewal"}

(* Mutant of Ticked: a retry deadline never connects again. *)
Ticked_NotRetried(c, d) ==
    IF d = "expired" /\ c.armed /\ c.st \in {"Connecting", "Connected"} THEN Close(c) ELSE c

(* Mutant of Ticked: an expired deadline connects in every state. *)
Ticked_AnyState(c, d) == IF d = "expired" /\ c.armed THEN Connect(c) ELSE c

(* tick() and epicWatch(). *)
Ticked(c, d) ==
    CASE d = "expired" /\ c.armed /\ c.st = "Reconnecting" -> Connect(c)
      [] d = "expired" /\ c.armed /\ c.st \in {"Connecting", "Connected"} -> Close(c)
      [] d = "silent" /\ Pingable /\ c.st = "Connected" -> Died(c, FALSE)
      [] d = "silent twice" /\ Pingable /\ c.st = "Connected" -> Died(c, TRUE)
      [] d = "renewal" /\ c.rotate /\ c.st = "Connected" -> Renew(c)
      [] OTHER -> c

(* The loop runs pending close callbacks before it comes back to a timer.  *)
NoClosePending == \A i \in Id : cl[i].sock # "closing"

(* A healthy pool answers in time; only its retries and renewals come due. *)
MayBeDue(i, d) ==
    /\ i \in healthy => \/ d = "nothing"
                        \/ d = "expired" /\ cl[i].st = "Reconnecting"
                        \/ d = "renewal" /\ cl[i].phase = "up"
    /\ Overlap \/ (d # "nothing" /\ cl[i].failures # -1 => Settled)

Tick(due) ==
    /\ NoClosePending
    /\ \A i \in Id : MayBeDue(i, due[i])
    /\ cl' = [i \in Id |-> Ticked(cl[i], due[i])]
    /\ UNCHANGED <<index, active, running, world>>

Stop ==
    /\ MayStop
    /\ cl' = [i \in Id |-> Disconnect(cl[i])]
    /\ IF Single THEN UNCHANGED <<index, active>> ELSE index' = 0 /\ active' = -1
    /\ running' = FALSE
    /\ UNCHANGED world

(* The next connect() of a stopped strategy comes when the traces of the   *)
(* last connection are gone.                                               *)
Restart ==
    /\ ~running
    /\ \A i \in Id : ~Alive(cl[i])
    /\ cl' = [cl EXCEPT ![index] = Connect(@)]
    /\ running' = TRUE
    /\ UNCHANGED <<index, active, world>>

(* Not the program: the outage of the good pools ends. *)
Heal ==
    /\ healthy # good
    /\ healthy' = good
    /\ UNCHANGED <<n, cl, index, active, running, good>>

Works(i) ==
    \/ Resolved(i) \/ Connected(i) \/ TlsReady(i) \/ LoginAccepted(i) \/ Closed(i)

Fails(i) ==
    /\ i \notin healthy
    /\ \/ ResolveError(i) \/ ConnectError(i) \/ TlsError(i)
       \/ LoginRefused(i) \/ LinkFailed(i)

(* connect() was called over an open socket, which connect(addr) is about  *)
(* to overwrite, or connect(addr) has overwritten one that was closing.    *)
(* What the program does with two sockets of one client is not modelled:   *)
(* the behaviour stays here.                                               *)
Overrun == \E i \in Id : cl[i].sock = "lost" \/ (cl[i].dns /\ cl[i].sock = "open")

Beyond == Overrun /\ UNCHANGED vars

Next ==
    \/ ~Overrun /\ \/ \E i \in Id : Works(i) \/ Fails(i)
                   \/ \E due \in [Id -> Due] : Tick(due)
                   \/ Stop
                   \/ Restart
                   \/ Heal
    \/ Beyond

Spec == Init /\ [][Next]_vars

(* Good pools do their part; lookups and uv_close always call back; the    *)
(* timer ticks every second, so a deadline is found due unless it is       *)
(* cleared first.                                                          *)
TickOf(i, d) == Tick([j \in Id |-> IF j = i THEN d ELSE "nothing"])

Fairness ==
    /\ WF_vars(Heal)
    /\ \A i \in AnyId :
         /\ WF_vars(i \in Id /\ Closed(i))
         /\ WF_vars(i \in Id /\ (Resolved(i) \/ ResolveError(i)))
         /\ SF_vars(i \in Id /\ TickOf(i, "expired"))
         /\ SF_vars(i \in Id /\ TickOf(i, "silent"))
         /\ WF_vars(i \in good /\ Works(i))

FairSpec == Spec /\ Fairness

-----------------------------------------------------------------------------
(* A session that is logged in is the one in use: no pool is left mining   *)
(* for nobody after the first pool is back (Dropped), after a login that   *)
(* comes too late, after stop() (FailoverStrategy::onLoginSuccess).  And   *)
(* the strategy never says active without a session, or a session whose    *)
(* close callback is about to take it back (isActive(), submit()).         *)
SessionInUse ==
    /\ \A i \in Id : Up(cl[i]) => active = i
    /\ active # -1 => Up(cl[active]) \/ cl[active].sock = "closing"

(* connect() over a socket, open or closing, may lose it: Client::         *)
(* connect(addr) overwrites m_socket.  The code meets one such case: the   *)
(* failover of onClose() goes to a client that was dropped and is not gone *)
(* yet, one whose lookup went on after disconnect() or whose close         *)
(* callback is pending.  Nothing else does it: no retry of tick(), however *)
(* deadlines end, no restart, and no failover to a client that was not     *)
(* dropped before.                                                         *)
LosesSocket(i) == cl[i].dns /\ cl[i].sock # "none"

OnlyDroppedOverrun ==
    [][\A i \in Id : LosesSocket(i)' /\ ~LosesSocket(i) =>
          cl[i].failures = -1 /\ index' = i /\ index = i - 1]_vars

(* A pool configured with TLS never sees a login in the clear, although    *)
(* isTLS() is false whenever m_tls has been deleted (Client::onClose).     *)
NeverInTheClear == PoolTls => \A i \in Id : ~cl[i].plain

(* After the outage of the first or of the last pool ends the miner works  *)
(* again and again (FailoverStrategy::onClose, Client::tick), unless a     *)
(* socket is lost.  A pool between them has no such promise: once dropped, *)
(* it is not tried again while the later ones fail.                        *)
Recovers == good \cap {0, n - 1} # {} => []<>(active # -1) \/ <>Overrun

(* After the outage of the first pool ends the miner goes back to it       *)
(* (FailoverStrategy::onLoginSuccess), unless a socket is lost.            *)
FailsBack == 0 \in good => []<>(active = 0) \/ <>Overrun

-----------------------------------------------------------------------------
(* What Network and DonateStrategy see of the strategy: see PoolLink. *)
LinkState ==
    CASE active # -1 /\ Single /\ cl[active].failures = -1 -> "stopping"
      [] active # -1 /\ ~(Single /\ cl[active].failures = -1) -> "active"
      [] active = -1 /\ (\E i \in Id : Alive(cl[i])) -> "trying"
      [] OTHER -> "none"

LinkView == [st |-> LinkState, wanted |-> running]

One  == INSTANCE PoolLink WITH Single <- TRUE, link <- LinkView
Many == INSTANCE PoolLink WITH Single <- FALSE, link <- LinkView

(* The strategies keep the promises of PoolLink; above all, one that was   *)
(* stopped and has settled never logs in again by itself.                  *)
KeepsPromises ==
    /\ IF Single THEN One!Init ELSE Many!Init
    /\ [][IF Single THEN One!Next ELSE Many!Next]_LinkView
=============================================================================

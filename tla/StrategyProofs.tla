--------------------------- MODULE StrategyProofs ---------------------------
(***************************************************************************)
(* Proofs about the pool strategies and their clients, for lists of pools  *)
(* of any length.                                                          *)
(***************************************************************************)
EXTENDS Strategy, TLAPS

(* What is true of a client at any time: the lookup, the socket and the    *)
(* session in step with the socket state, a retry deadline unless it was   *)
(* disconnected, a TLS session for whatever may send a login.              *)
InStep(c) ==
    /\ c.dns => c.st = "HostLookup"
    /\ c.sock = "none" <=> c.st \in {"Unconnected", "HostLookup", "Reconnecting"}
    /\ c.sock = "open" <=> c.st \in {"Connecting", "Connected"}
    /\ c.phase # "none" <=> c.st = "Connected"
    /\ c.st = "HostLookup" /\ ~c.dns => c.failures = -1
    /\ c.st = "Reconnecting" => (c.armed <=> c.failures # -1)
    /\ PoolTls /\ (c.dns \/ c.sock = "open") => c.tls
    /\ PoolTls => ~c.plain

(* A login clears the count of failures. *)
Sound(c) == InStep(c) /\ (c.phase = "up" => c.failures = 0)

Ok(c) == c \in ClientRecord /\ Sound(c)

-----------------------------------------------------------------------------
(* The operations of Client. *)

(* setState() changes the state, the deadline and the mark of a renewal.   *)
LEMMA SetStateFacts ==
    ASSUME NEW STATE c, c \in ClientRecord, NEW CONSTANT s \in SocketState
    PROVE  /\ SetState(c, s) \in ClientRecord
           /\ SetState(c, s).st = s
           /\ SetState(c, s).dns = c.dns
           /\ SetState(c, s).sock = c.sock
           /\ SetState(c, s).phase = c.phase
           /\ SetState(c, s).failures = c.failures
           /\ SetState(c, s).tls = c.tls
           /\ SetState(c, s).plain = c.plain
           /\ c.st # s /\ s \in {"Connecting", "Reconnecting"} => SetState(c, s).armed
           /\ s = "Closing" => SetState(c, s).armed = c.armed
<1> DEFINE a == CASE s = "HostLookup" -> FALSE
                  [] s \in {"Connecting", "Reconnecting"} -> TRUE
                  [] OTHER -> c.armed
           d == [c EXCEPT !.st = s, !.armed = a, !.planned = s # "Connected" /\ @]
<1>1. a \in BOOLEAN /\ (s \in {"Connecting", "Reconnecting"} => a) /\ (s = "Closing" => a = c.armed)
  BY DEF ClientRecord
<1>2. SetState(c, s) = IF c.st = s THEN c ELSE d
  BY DEF SetState
<1> HIDE DEF a
<1>3. /\ d \in ClientRecord /\ d.st = s /\ d.dns = c.dns /\ d.sock = c.sock
      /\ d.phase = c.phase /\ d.failures = c.failures /\ d.tls = c.tls /\ d.plain = c.plain
      /\ d.armed = a
  BY <1>1 DEF ClientRecord
<1> HIDE DEF d
<1> QED BY <1>1, <1>2, <1>3

(* close(): an open socket is about to go, or nothing happens. *)
LEMMA CloseFacts ==
    ASSUME NEW STATE c, c \in ClientRecord, InStep(c)
    PROVE  /\ Ok(Close(c))
           /\ c.sock # "open" => Close(c) = c
           /\ c.sock = "open" => Close(c).sock = "closing"
           /\ Close(c).dns = c.dns
           /\ Close(c).failures = c.failures
           /\ Close(c).st = "Unconnected" <=> c.st = "Unconnected"
           /\ ~Up(Close(c))
<1> DEFINE d == SetState(c, "Closing")
           e == [d EXCEPT !.sock = "closing", !.phase = "none"]
<1>1. CASE c.sock # "open"
  <2>1. Close(c) = c
    BY <1>1 DEF Close, InStep, ClientRecord, SocketState
  <2> QED BY <1>1, <2>1 DEF Ok, Sound, InStep, Up
<1>2. CASE c.sock = "open"
  <2>1. Close(c) = e
    BY <1>2 DEF Close, InStep
  <2>2. /\ d \in ClientRecord /\ d.st = "Closing" /\ d.dns = c.dns
        /\ d.failures = c.failures /\ d.tls = c.tls /\ d.plain = c.plain
    BY SetStateFacts DEF SocketState
  <2> HIDE DEF d
  <2>3. /\ e \in ClientRecord /\ e.st = "Closing" /\ e.dns = c.dns /\ e.sock = "closing"
        /\ e.phase = "none" /\ e.failures = c.failures /\ e.tls = c.tls /\ e.plain = c.plain
    BY <2>2 DEF ClientRecord, SessionPhase
  <2> HIDE DEF e
  <2>4. Sound(e)
    BY <1>2, <2>3 DEF Sound, InStep
  <2> QED BY <1>2, <2>1, <2>3, <2>4 DEF Ok, Up, Sound, InStep
<1> QED BY <1>1, <1>2

(* disconnect(): the client is put aside; its lookup goes on. *)
LEMMA DisconnectFacts ==
    ASSUME NEW STATE c, Ok(c)
    PROVE  /\ Ok(Disconnect(c))
           /\ Disconnect(c).failures = -1
           /\ Disconnect(c).dns = c.dns
           /\ Disconnect(c).sock = IF c.sock = "open" THEN "closing" ELSE c.sock
           /\ Disconnect(c).st = "Unconnected" <=> c.st = "Unconnected"
           /\ ~Up(Disconnect(c))
           /\ Alive(Disconnect(c)) => Alive(c)
<1> DEFINE d == [c EXCEPT !.armed = FALSE, !.failures = -1]
<1>0. c \in ClientRecord /\ Sound(c)
  BY DEF Ok
<1>1. -1 \in -1 .. FailCap
  BY ClientAssumption
<1>2. /\ d \in ClientRecord /\ d.st = c.st /\ d.dns = c.dns /\ d.sock = c.sock
      /\ d.phase = c.phase /\ d.failures = -1 /\ d.tls = c.tls /\ d.plain = c.plain
      /\ d.armed = FALSE
  BY <1>0, <1>1 DEF ClientRecord
<1> HIDE DEF d
<1>3. InStep(d)
  BY <1>0, <1>2 DEF Sound, InStep
<1>4. Disconnect(c) = Close(d)
  BY DEF Disconnect, d
<1>5. /\ Ok(Close(d)) /\ Close(d).failures = -1 /\ Close(d).dns = c.dns
      /\ Close(d).sock = IF c.sock = "open" THEN "closing" ELSE c.sock
      /\ Close(d).st = "Unconnected" <=> c.st = "Unconnected"
      /\ ~Up(Close(d))
  BY <1>2, <1>3, CloseFacts
<1>6. Alive(Close(d)) => Alive(c)
  BY <1>5 DEF Alive, Ok, Sound, InStep
<1> QED BY <1>4, <1>5, <1>6

(* A client without a lookup and without a socket. *)
Idle(c) == ~c.dns /\ c.sock = "none"

(* connect(): called for an idle client it starts a lookup, with a TLS     *)
(* session for a pool that wants one.                                      *)
LEMMA ConnectFacts ==
    ASSUME NEW STATE c, Ok(c), Idle(c)
    PROVE  /\ Ok(Connect(c))
           /\ Connect(c).dns /\ Connect(c).sock = "none" /\ Connect(c).st = "HostLookup"
           /\ Connect(c).failures # -1
           /\ ~Up(Connect(c))
<1> DEFINE d == SetState(c, "HostLookup")
           e == [d EXCEPT !.failures = IF @ = -1 THEN 0 ELSE @, !.dns = TRUE, !.tls = PoolTls \/ @]
<1>0. c \in ClientRecord /\ Sound(c) /\ ~c.dns /\ c.sock = "none"
  BY DEF Ok, Idle
<1>1. /\ d \in ClientRecord /\ d.st = "HostLookup" /\ d.sock = c.sock /\ d.phase = c.phase
      /\ d.failures = c.failures /\ d.tls = c.tls /\ d.plain = c.plain
  BY <1>0, SetStateFacts DEF SocketState
<1>2. Connect(c) = e
  BY DEF Connect
<1> HIDE DEF d
<1>3. (IF d.failures = -1 THEN 0 ELSE d.failures) \in (-1 .. FailCap) \ {-1}
  BY <1>1, ClientAssumption DEF ClientRecord
<1>4. (PoolTls \/ d.tls) \in BOOLEAN
  OBVIOUS
<1>5. /\ e \in ClientRecord /\ e.st = "HostLookup" /\ e.dns = TRUE /\ e.sock = c.sock
      /\ e.phase = c.phase /\ e.failures # -1 /\ e.tls = (PoolTls \/ c.tls) /\ e.plain = c.plain
  BY <1>1, <1>3, <1>4 DEF ClientRecord
<1> HIDE DEF e
<1>6. Sound(e)
  BY <1>0, <1>5 DEF Sound, InStep
<1> QED BY <1>0, <1>2, <1>5, <1>6 DEF Ok, Up

(* reconnect(), after a failed lookup or a closed socket: a wait for the   *)
(* next attempt, or nothing for a client that was disconnected.            *)
LEMMA ReconnectFacts ==
    ASSUME NEW STATE c, c \in ClientRecord, Idle(c), c.phase = "none", PoolTls => ~c.plain,
           c.st \in {"Unconnected", "HostLookup"}
    PROVE  /\ Ok(Reconnect(c)) /\ Idle(Reconnect(c))
           /\ Reconnect(c).failures = -1 <=> c.failures = -1
           /\ c.failures # -1 => Reconnect(c).st = "Reconnecting" /\ Reconnect(c).armed
           /\ c.failures = -1 => Reconnect(c).st = c.st
           /\ c.failures = 0 => Reconnect(c).failures < 2
           /\ ~Up(Reconnect(c))
<1>1. CASE c.failures = -1
  <2>1. Reconnect(c) = c
    BY <1>1 DEF Reconnect
  <2>2. Sound(c)
    BY <1>1 DEF Sound, InStep, Idle
  <2> QED BY <1>1, <2>1, <2>2 DEF Ok, Up
<1>2. CASE c.failures # -1
  <2> DEFINE d == SetState(c, "Reconnecting")
             g == IF c.planned THEN d.failures ELSE Again(d.failures)
             e == [d EXCEPT !.armed = TRUE, !.planned = FALSE, !.failures = g]
  <2>1. /\ d \in ClientRecord /\ d.st = "Reconnecting" /\ d.dns = c.dns /\ d.sock = c.sock
        /\ d.phase = c.phase /\ d.failures = c.failures /\ d.tls = c.tls /\ d.plain = c.plain
    BY SetStateFacts DEF SocketState
  <2>2. Reconnect(c) = e
    BY <1>2 DEF Reconnect
  <2> HIDE DEF d
  <2>3. c.failures \in -1 .. FailCap
    BY DEF ClientRecord
  <2>4. Again(c.failures) \in (-1 .. FailCap) \ {-1} /\ (c.failures = 0 => Again(c.failures) < 2)
    BY <1>2, <2>3, ClientAssumption DEF Again
  <2>5. g \in (-1 .. FailCap) \ {-1} /\ (c.failures = 0 => g < 2)
    BY <1>2, <2>1, <2>3, <2>4
  <2> HIDE DEF g
  <2>6. /\ e \in ClientRecord /\ e.st = "Reconnecting" /\ e.dns = c.dns /\ e.sock = c.sock
        /\ e.phase = c.phase /\ e.failures = g /\ e.tls = c.tls /\ e.plain = c.plain
        /\ e.armed = TRUE
    BY <2>1, <2>5 DEF ClientRecord
  <2> HIDE DEF e
  <2>7. Sound(e)
    BY <2>5, <2>6 DEF Sound, InStep, Idle
  <2> QED BY <1>2, <2>2, <2>5, <2>6, <2>7 DEF Ok, Up, Idle
<1> QED BY <1>1, <1>2

(* onResolved(), with an address: a socket is opened. *)
LEMMA OnResolvedFacts ==
    ASSUME NEW STATE c, Ok(c), c.dns
    PROVE  /\ Ok(OnResolved(c))
           /\ OnResolved(c).sock = "open" /\ OnResolved(c).st = "Connecting"
           /\ OnResolved(c).failures = c.failures
           /\ ~Up(OnResolved(c))
<1> DEFINE b == [c EXCEPT !.dns = FALSE]
           d == SetState(b, "Connecting")
           e == [d EXCEPT !.sock = "open"]
<1>0. c \in ClientRecord /\ Sound(c) /\ c.dns /\ c.sock = "none"
  BY DEF Ok, Sound, InStep
<1>1. /\ b \in ClientRecord /\ b.dns = FALSE /\ b.st = c.st /\ b.phase = c.phase
      /\ b.failures = c.failures /\ b.tls = c.tls /\ b.plain = c.plain /\ b.sock = c.sock
  BY <1>0 DEF ClientRecord
<1> HIDE DEF b
<1>3. /\ d \in ClientRecord /\ d.st = "Connecting" /\ d.dns = FALSE /\ d.phase = c.phase
      /\ d.failures = c.failures /\ d.tls = c.tls /\ d.plain = c.plain /\ d.sock = c.sock
  BY <1>1, SetStateFacts DEF SocketState
<1> HIDE DEF d
<1>2. OnResolved(c) = e
  BY <1>0, <1>3 DEF OnResolved, b, d
<1>4. /\ e \in ClientRecord /\ e.st = "Connecting" /\ e.dns = FALSE /\ e.sock = "open"
      /\ e.phase = c.phase /\ e.failures = c.failures /\ e.tls = c.tls /\ e.plain = c.plain
  BY <1>3 DEF ClientRecord
<1> HIDE DEF e
<1>5. Sound(e)
  BY <1>0, <1>4 DEF Sound, InStep
<1> QED BY <1>0, <1>2, <1>4, <1>5 DEF Ok, Up, Sound, InStep

(* ... without one. *)
LEMMA OnResolveErrorFacts ==
    ASSUME NEW STATE c, Ok(c), c.dns
    PROVE  /\ Ok(OnResolveError(c)) /\ Idle(OnResolveError(c))
           /\ OnResolveError(c).failures = -1 <=> c.failures = -1
           /\ c.failures # -1 => OnResolveError(c).st = "Reconnecting"
           /\ OnResolveError(c).st # "Unconnected"
           /\ ~Up(OnResolveError(c))
<1> DEFINE b == [c EXCEPT !.dns = FALSE]
<1>0. c \in ClientRecord /\ Sound(c) /\ c.dns
  BY DEF Ok
<1>1. /\ b \in ClientRecord /\ b.dns = FALSE /\ b.st = c.st /\ b.phase = c.phase
      /\ b.failures = c.failures /\ b.plain = c.plain /\ b.sock = c.sock
  BY <1>0 DEF ClientRecord
<1>2. OnResolveError(c) = Reconnect(b)
  BY DEF OnResolveError
<1> HIDE DEF b
<1>3. Idle(b) /\ b.phase = "none" /\ b.st = "HostLookup" /\ (PoolTls => ~b.plain)
  BY <1>0, <1>1 DEF Sound, InStep, Idle
<1> QED BY <1>1, <1>2, <1>3, ReconnectFacts

(* login(): over TLS if the pool wants it. *)
LEMMA LoginFacts ==
    ASSUME NEW STATE c, c \in ClientRecord, c.st = "Connected", c.sock = "open", ~c.dns,
           PoolTls => c.tls /\ ~c.plain
    PROVE  /\ Ok(Login(c))
           /\ Login(c).sock = "open" /\ Login(c).st = "Connected" /\ ~Login(c).dns
           /\ Login(c).failures = c.failures
           /\ ~Up(Login(c))
<1> DEFINE p == c.plain \/ ~c.tls
           e == [c EXCEPT !.phase = "login", !.armed = FALSE, !.plain = @ \/ ~c.tls]
<1>1. p \in BOOLEAN /\ (PoolTls => ~p)
  OBVIOUS
<1>2. /\ e \in ClientRecord /\ e.st = c.st /\ e.dns = c.dns /\ e.sock = c.sock
      /\ e.phase = "login" /\ e.failures = c.failures /\ e.tls = c.tls /\ e.plain = p
  BY <1>1 DEF ClientRecord, SessionPhase
<1>3. Login(c) = e
  BY DEF Login
<1> HIDE DEF e, p
<1>4. Sound(e)
  BY <1>1, <1>2 DEF Sound, InStep
<1> QED BY <1>2, <1>3, <1>4 DEF Ok, Up

(* onConnect() *)
LEMMA OnConnectedFacts ==
    ASSUME NEW STATE c, Ok(c), c.st = "Connecting"
    PROVE  /\ Ok(OnConnected(c))
           /\ OnConnected(c).sock = "open" /\ OnConnected(c).st = "Connected"
           /\ OnConnected(c).failures = c.failures
           /\ ~Up(OnConnected(c))
<1> DEFINE d == SetState(c, "Connected")
           e == [d EXCEPT !.phase = "tls", !.armed = TRUE]
<1>0. c \in ClientRecord /\ Sound(c)
  BY DEF Ok
<1>1. /\ d \in ClientRecord /\ d.st = "Connected" /\ d.dns = c.dns /\ d.sock = c.sock
      /\ d.failures = c.failures /\ d.tls = c.tls /\ d.plain = c.plain
  BY <1>0, SetStateFacts DEF SocketState
<1>2. OnConnected(c) = IF PoolTls /\ d.tls THEN e ELSE Login(d)
  BY DEF OnConnected
<1> HIDE DEF d
<1>3. ~d.dns /\ d.sock = "open" /\ (PoolTls => d.tls /\ ~d.plain)
  BY <1>0, <1>1 DEF Sound, InStep
<1>4. CASE PoolTls /\ d.tls
  <2>1. /\ e \in ClientRecord /\ e.st = "Connected" /\ e.dns = d.dns /\ e.sock = d.sock
        /\ e.phase = "tls" /\ e.failures = d.failures /\ e.tls = d.tls /\ e.plain = d.plain
    BY <1>1 DEF ClientRecord, SessionPhase
  <2> HIDE DEF e
  <2>2. Sound(e)
    BY <1>3, <1>4, <2>1 DEF Sound, InStep
  <2> QED BY <1>1, <1>2, <1>3, <1>4, <2>1, <2>2 DEF Ok, Up
<1>5. CASE ~(PoolTls /\ d.tls)
  <2>1. OnConnected(c) = Login(d)
    BY <1>2, <1>5
  <2> QED BY <1>1, <1>3, <2>1, LoginFacts
<1> QED BY <1>4, <1>5

(* onClose() *)
LEMMA OnClosedFacts ==
    ASSUME NEW STATE c, Ok(c), c.sock = "closing"
    PROVE  /\ Ok(OnClosed(c)) /\ Idle(OnClosed(c))
           /\ OnClosed(c).failures = -1 <=> c.failures = -1
           /\ c.failures # -1 => OnClosed(c).st = "Reconnecting"
           /\ c.failures = 0 => OnClosed(c).failures < 2
           /\ ~Up(OnClosed(c))
<1> DEFINE d == SetState(c, "Unconnected")
           e == [d EXCEPT !.sock = "none", !.tls = FALSE]
<1>0. c \in ClientRecord /\ Sound(c)
  BY DEF Ok
<1>1. /\ d \in ClientRecord /\ d.st = "Unconnected" /\ d.dns = c.dns /\ d.phase = c.phase
      /\ d.failures = c.failures /\ d.plain = c.plain
  BY <1>0, SetStateFacts DEF SocketState
<1>2. OnClosed(c) = Reconnect(e)
  BY DEF OnClosed
<1> HIDE DEF d
<1>3. /\ e \in ClientRecord /\ e.st = "Unconnected" /\ e.dns = c.dns /\ e.sock = "none"
      /\ e.phase = c.phase /\ e.failures = c.failures /\ e.plain = c.plain
  BY <1>1 DEF ClientRecord
<1> HIDE DEF e
<1>4. Idle(e) /\ e.phase = "none" /\ (PoolTls => ~e.plain)
  BY <1>0, <1>3 DEF Sound, InStep, Idle
<1> QED BY <1>2, <1>3, <1>4, ReconnectFacts

(* The answer to the login. *)
LEMMA OnLoginFacts ==
    ASSUME NEW STATE c, Ok(c), c.phase = "login"
    PROVE  /\ Ok(OnLoginAccepted(c)) /\ Up(OnLoginAccepted(c))
           /\ OnLoginAccepted(c).failures = 0
           /\ OnLoginAccepted(c).st = "Connected"
           /\ Ok(OnLoginRefused(c)) /\ ~Up(OnLoginRefused(c))
           /\ OnLoginRefused(c).sock = "open"
           /\ OnLoginRefused(c).st = "Connected"
           /\ OnLoginRefused(c).failures = c.failures
<1> DEFINE d == [c EXCEPT !.phase = "up", !.failures = 0]
           e == [c EXCEPT !.phase = "refused"]
<1>0. c \in ClientRecord /\ Sound(c)
  BY DEF Ok
<1>1. 0 \in -1 .. FailCap
  BY ClientAssumption
<1>2. /\ d \in ClientRecord /\ d.st = c.st /\ d.dns = c.dns /\ d.sock = c.sock
      /\ d.phase = "up" /\ d.failures = 0 /\ d.tls = c.tls /\ d.plain = c.plain
  BY <1>0, <1>1 DEF ClientRecord, SessionPhase
<1>3. /\ e \in ClientRecord /\ e.st = c.st /\ e.dns = c.dns /\ e.sock = c.sock
      /\ e.phase = "refused" /\ e.failures = c.failures /\ e.tls = c.tls /\ e.plain = c.plain
  BY <1>0 DEF ClientRecord, SessionPhase
<1>4. OnLoginAccepted(c) = d /\ OnLoginRefused(c) = e
  BY DEF OnLoginAccepted, OnLoginRefused
<1> HIDE DEF d, e
<1>5. Sound(d) /\ Sound(e) /\ c.sock = "open" /\ c.st = "Connected"
  BY <1>0, <1>2, <1>3 DEF Sound, InStep
<1> QED BY <1>2, <1>3, <1>4, <1>5 DEF Ok, Up

(* A connection that died or is renewed is closed. *)
LEMMA DiedFacts ==
    ASSUME NEW STATE c, Ok(c), c.st = "Connected", NEW CONSTANT x \in BOOLEAN
    PROVE  \A d \in {Died(c, x), Renew(c)} :
              Ok(d) /\ d.sock = "closing" /\ d.failures = c.failures /\ ~d.dns
<1> DEFINE a == [c EXCEPT !.rotate = @ \/ x]
           b == [c EXCEPT !.planned = TRUE]
<1>0. c \in ClientRecord /\ Sound(c)
  BY DEF Ok
<1>1. c.rotate \/ x \in BOOLEAN
  BY <1>0 DEF ClientRecord
<1>2. /\ a \in ClientRecord /\ a.st = c.st /\ a.dns = c.dns /\ a.sock = c.sock /\ a.armed = c.armed
      /\ a.phase = c.phase /\ a.failures = c.failures /\ a.tls = c.tls /\ a.plain = c.plain
  BY <1>0, <1>1 DEF ClientRecord
<1>3. /\ b \in ClientRecord /\ b.st = c.st /\ b.dns = c.dns /\ b.sock = c.sock /\ b.armed = c.armed
      /\ b.phase = c.phase /\ b.failures = c.failures /\ b.tls = c.tls /\ b.plain = c.plain
  BY <1>0 DEF ClientRecord
<1>4. Died(c, x) = Close(a) /\ Renew(c) = Close(b)
  BY DEF Died, Renew
<1> HIDE DEF a, b
<1>5. InStep(a) /\ InStep(b) /\ a.sock = "open" /\ b.sock = "open" /\ ~c.dns
  BY <1>0, <1>2, <1>3 DEF Sound, InStep
<1> QED BY <1>2, <1>3, <1>4, <1>5, CloseFacts

(* Something that is due connects a client that waits for its retry,       *)
(* closes an open socket or does nothing.                                  *)
LEMMA TickedFacts ==
    ASSUME NEW STATE c, Ok(c), NEW CONSTANT d \in Due
    PROVE  /\ Ok(Ticked(c, d))
           /\ \/ Ticked(c, d) = c
              \/ /\ d # "nothing" /\ c.st = "Reconnecting" /\ c.failures # -1
                 /\ Ticked(c, d).dns /\ Ticked(c, d).failures # -1
                 /\ Ticked(c, d).sock = "none" /\ Ticked(c, d).st = "HostLookup"
              \/ /\ d # "nothing" /\ c.sock = "open"
                 /\ Ticked(c, d).sock = "closing" /\ Ticked(c, d).failures = c.failures
<1>0. c \in ClientRecord /\ Sound(c)
  BY DEF Ok
<1>1. CASE d = "expired" /\ c.armed /\ c.st = "Reconnecting"
  <2>1. Ticked(c, d) = Connect(c)
    BY <1>1 DEF Ticked
  <2>2. c.failures # -1 /\ Idle(c)
    BY <1>0, <1>1 DEF Sound, InStep, Idle
  <2> QED BY <1>1, <2>1, <2>2, ConnectFacts
<1>2. CASE d = "expired" /\ c.armed /\ c.st \in {"Connecting", "Connected"}
  <2>1. Ticked(c, d) = Close(c)
    BY <1>2 DEF Ticked
  <2>2. c.sock = "open" /\ InStep(c)
    BY <1>0, <1>2 DEF Sound, InStep
  <2> QED BY <1>0, <1>2, <2>1, <2>2, CloseFacts
<1>3. CASE d \in {"silent", "silent twice"} /\ Pingable /\ c.st = "Connected"
  <2>1. Ticked(c, d) = Died(c, FALSE) \/ Ticked(c, d) = Died(c, TRUE)
    BY <1>3 DEF Ticked
  <2>2. c.sock = "open"
    BY <1>0, <1>3 DEF Sound, InStep
  <2> QED BY <1>3, <2>1, <2>2, DiedFacts
<1>4. CASE d = "renewal" /\ c.rotate /\ c.st = "Connected"
  <2>1. Ticked(c, d) = Renew(c)
    BY <1>4 DEF Ticked
  <2>2. c.sock = "open"
    BY <1>0, <1>4 DEF Sound, InStep
  <2> QED BY <1>4, <2>1, <2>2, DiedFacts
<1>5. CASE /\ ~(d = "expired" /\ c.armed /\ c.st = "Reconnecting")
           /\ ~(d = "expired" /\ c.armed /\ c.st \in {"Connecting", "Connected"})
           /\ ~(d \in {"silent", "silent twice"} /\ Pingable /\ c.st = "Connected")
           /\ ~(d = "renewal" /\ c.rotate /\ c.st = "Connected")
  <2>1. Ticked(c, d) = c
    BY <1>5 DEF Ticked
  <2> QED BY <2>1
<1> QED BY <1>1, <1>2, <1>3, <1>4, <1>5

-----------------------------------------------------------------------------
(* The strategy. *)

(* Links fail, and deadlines end, only when nothing is left of the clients *)
(* that were dropped (Settled).                                            *)
Orderly == ~Overlap

(* Not being tried: dropped, or never connected so far. *)
Aside(c) == c.failures = -1 \/ c.st = "Unconnected"

AllSound == \A i \in Id : Sound(cl[i])

(* The pool in use is the one m_index points to. *)
IndexInUse == active # -1 => index = active /\ (~Single => cl[active].failures # -1)

(* Pools behind m_index are not being tried ... *)
Waiting == \A j \in Id : j > index => Aside(cl[j])

(* ... and while one is in use, only the first pool is. *)
Reserves == active # -1 => \A j \in Id \ {0, active} : Aside(cl[j])

(* The next close callback of the pool that is tried does not advance. *)
Harmless ==
    \/ index = n - 1
    \/ index = 0 /\ (cl[0].st = "Reconnecting" \/ (cl[0].st = "Closing" /\ cl[0].failures = 0))

(* While the pool that is tried has no session, nothing is left of dropped *)
(* clients that it could advance to.                                       *)
Quiet == cl[index].failures # -1 /\ ~Up(cl[index]) => Settled \/ Harmless

(* The first pool is tried as long as the strategy is wanted, and the pool *)
(* of m_index even after that.                                             *)
FirstTried == running => ~Aside(cl[0])
IndexTried == index # 0 => ~Aside(cl[index])

Inv ==
    /\ TypeOK /\ AllSound /\ SessionInUse /\ IndexInUse /\ Waiting /\ Reserves /\ Quiet
    /\ FirstTried /\ IndexTried

(* Facts about the number of pools. *)
LEMMA IdFacts ==
    ASSUME TypeOK
    PROVE  /\ n \in Nat \ {0} /\ 0 \in Id /\ -1 \notin Id
           /\ \A j \in Id : j \in Nat /\ j <= n - 1
           /\ index \in Nat /\ index \in Id
           /\ Single => Id = {0}
  BY StrategyAssumption DEF TypeOK, Id, Single

(* A step of one client that the strategy is not told about keeps the      *)
(* invariant: it goes on without a session, or loses one when nothing of   *)
(* dropped clients is left.                                                *)
LEMMA OwnInv ==
    ASSUME Inv, Orderly, NEW i \in Id, NEW STATE d, Ok(d), Own(i, d),
           cl[i].dns \/ cl[i].sock = "open",
           d.failures = cl[i].failures, d.st # "Unconnected", ~Up(d),
           Up(cl[i]) => d.sock = "closing" /\ (Overlap \/ Single \/ Settled)
    PROVE  Inv'
<1> USE DEF Inv
<1>0. n \in Nat \ {0} /\ 0 \in Id /\ -1 \notin Id /\ index \in Id
  BY IdFacts
<1>1. /\ cl \in [Id -> ClientRecord] /\ index' = index /\ active' = active /\ running' = running
      /\ n' = n /\ good' = good /\ healthy' = healthy /\ Id' = Id /\ Single' = Single
  BY DEF Own, world, TypeOK, Id, Single
<1>2. /\ cl' \in [Id -> ClientRecord] /\ cl'[i] = d
      /\ \A j \in Id : j # i => cl'[j] = cl[j]
  BY <1>1 DEF Own, Ok
<1>3. TypeOK'
  BY <1>1, <1>2 DEF TypeOK
<1>4. AllSound'
  BY <1>1, <1>2 DEF AllSound, Ok
<1>5. Sound(cl[i])
  BY DEF AllSound
<1>6. SessionInUse'
  BY <1>0, <1>1, <1>2, <1>5 DEF SessionInUse, Sound, InStep, TypeOK
<1>7. IndexInUse'
  BY <1>0, <1>1, <1>2 DEF IndexInUse, TypeOK
<1>8. Waiting' /\ Reserves'
  BY <1>0, <1>1, <1>2, <1>5 DEF Waiting, Reserves, Aside, Sound, InStep
<1>9. FirstTried' /\ IndexTried'
  BY <1>0, <1>1, <1>2 DEF FirstTried, IndexTried, Aside
<1>10. Settled => Settled'
  BY <1>1, <1>2 DEF Settled
<1>11. Quiet'
  <2> SUFFICES ASSUME cl'[index].failures # -1, ~Up(cl'[index]) PROVE Settled' \/ Harmless'
    BY <1>1 DEF Quiet
  <2>1. cl[index].failures # -1
    BY <1>0, <1>2
  <2>2. CASE ~Up(cl[index])
    <3>1. Harmless => Harmless'
      BY <1>0, <1>1, <1>2, <1>5 DEF Harmless, Sound, InStep
    <3> QED BY <2>1, <2>2, <3>1, <1>10 DEF Quiet
  <2>3. CASE Up(cl[index])
    <3>1. i = index
      BY <1>0, <1>2, <2>3
    <3>2. d.sock = "closing" /\ (Overlap \/ Single \/ Settled)
      BY <2>3, <3>1
    <3>3. d.st = "Closing" /\ d.failures = 0
      BY <2>3, <3>1, <3>2, <1>5 DEF Ok, Sound, InStep, Up, ClientRecord, SocketState
    <3>4. CASE Settled
      BY <3>4, <1>10
    <3>5. CASE ~Settled
      <4>1. n = 1
        BY <3>2, <3>5 DEF Orderly, Single
      <4>2. index = n - 1
        BY <4>1, <1>0 DEF Id
      <4> QED BY <1>1, <1>2, <3>1, <3>3, <4>2 DEF Harmless
    <3> QED BY <3>4, <3>5
  <2> QED BY <2>2, <2>3
<1> QED BY <1>3, <1>4, <1>6, <1>7, <1>8, <1>9, <1>11

(* A close or a failed lookup of client i, which becomes d. *)
Ended(i, d) ==
    /\ Ok(d) /\ Idle(d) /\ ~Up(d)
    /\ cl[i].dns \/ cl[i].sock = "closing"
    /\ d.failures = -1 <=> cl[i].failures = -1
    /\ d.failures # -1 => d.st = "Reconnecting"
    /\ cl[i].st = "Closing" /\ cl[i].failures = 0 => d.failures < 2
    /\ OnClose(i, [cl EXCEPT ![i] = d])
    /\ UNCHANGED <<running, world>>

(* When the next pool gets its turn it is idle: nothing is left of it.     *)
LEMMA AdvanceFacts ==
    ASSUME Inv, NEW i \in Id, NEW STATE d, Ended(i, d), Advances(i, d.failures)
    PROVE  /\ index = i /\ index + 1 \in Id /\ d.failures # -1
           /\ Settled /\ Ok(cl[index + 1]) /\ Idle(cl[index + 1])
<1> USE DEF Inv
<1>0. n \in Nat \ {0} /\ index \in Nat /\ index \in Id
  BY IdFacts
<1>1. /\ index = i /\ d.failures # -1 /\ n - index > 1
      /\ ~(index = 0 /\ d.failures < Retries)
  BY DEF Advances
<1>2. index + 1 \in Id /\ index # n - 1
  BY <1>0, <1>1 DEF Id
<1>3. Sound(cl[i]) /\ Sound(cl[index + 1]) /\ cl[index + 1] \in ClientRecord
  BY <1>2 DEF AllSound, TypeOK
<1>4. cl[i].failures # -1 /\ ~Up(cl[i])
  BY <1>1, <1>3 DEF Ended, Up, Sound, InStep
<1>5. ~Harmless
  <2>1. CASE index = 0
    <3>1. d.failures \in Int /\ Retries \in Nat /\ Retries >= 2
      BY StrategyAssumption, ClientAssumption DEF Ended, Ok, ClientRecord
    <3>2. ~(d.failures < 2)
      BY <1>1, <2>1, <3>1
    <3>3. cl[0].st # "Reconnecting"
      BY <1>1, <1>3, <2>1 DEF Ended, Sound, InStep
    <3> QED BY <1>1, <1>2, <2>1, <3>2, <3>3 DEF Ended, Harmless
  <2>2. CASE index # 0
    BY <1>2, <2>2 DEF Harmless
  <2> QED BY <2>1, <2>2
<1>6. Settled
  BY <1>1, <1>4, <1>5 DEF Quiet
<1>7. Aside(cl[index + 1])
  BY <1>0, <1>2 DEF Waiting
<1>8. Idle(cl[index + 1])
  BY <1>2, <1>3, <1>6, <1>7 DEF Aside, Settled, Idle, Sound, InStep
<1> QED BY <1>1, <1>2, <1>3, <1>6, <1>8 DEF Ok

(* A close or a failed lookup keeps the invariant. *)
LEMMA EndedInv ==
    ASSUME Inv, NEW i \in Id, NEW STATE d, Ended(i, d)
    PROVE  Inv'
<1> USE DEF Inv
<1>0. n \in Nat \ {0} /\ 0 \in Id /\ -1 \notin Id /\ index \in Id /\ index \in Nat
      /\ \A j \in Id : j \in Nat
  BY IdFacts
<1>1. /\ cl \in [Id -> ClientRecord] /\ running' = running
      /\ n' = n /\ good' = good /\ healthy' = healthy /\ Id' = Id /\ Single' = Single
  BY DEF Ended, world, TypeOK, Id, Single
<1>2. /\ Sound(cl[i]) /\ Ok(d) /\ Idle(d) /\ ~Up(d)
      /\ cl[i].dns \/ cl[i].sock = "closing"
      /\ d.failures = -1 <=> cl[i].failures = -1
      /\ d.failures # -1 => d.st = "Reconnecting"
  BY DEF AllSound, Ended
<1>3. cl[i].st # "Unconnected" /\ ~Up(cl[i])
  BY <1>2 DEF Sound, InStep, Up
<1> DEFINE cs == [cl EXCEPT ![i] = d]
<1>4. /\ cs \in [Id -> ClientRecord] /\ cs[i] = d
      /\ \A j \in Id : j # i => cs[j] = cl[j]
  BY <1>1, <1>2 DEF Ok
<1> HIDE DEF cs
<1>5. active' = IF active = i /\ (Single \/ d.failures # -1) THEN -1 ELSE active
  BY <1>4 DEF Ended, OnClose, cs
<1>6. Settled => \A j \in Id : cs[j].failures = -1 => ~cs[j].dns /\ cs[j].sock = "none"
  BY <1>2, <1>4 DEF Settled, Idle
<1>7. CASE ~Advances(i, d.failures)
  <2>1. cl' = cs /\ index' = index
    BY <1>4, <1>7 DEF Ended, OnClose, cs
  <2>2. TypeOK' /\ AllSound'
    BY <1>1, <1>2, <1>4, <1>5, <2>1 DEF TypeOK, AllSound, Ok
  <2>3. active' # -1 => active' = active /\ active # i
    BY <1>0, <1>2, <1>5 DEF IndexInUse
  <2>4. SessionInUse'
    BY <1>0, <1>1, <1>2, <1>3, <1>4, <1>5, <2>1, <2>3 DEF SessionInUse, TypeOK
  <2>5. IndexInUse'
    BY <1>0, <1>1, <1>4, <2>1, <2>3 DEF IndexInUse, TypeOK
  <2>6. Waiting' /\ Reserves'
    BY <1>0, <1>1, <1>2, <1>3, <1>4, <2>1, <2>3 DEF Waiting, Reserves, Aside
  <2>7. FirstTried' /\ IndexTried'
    BY <1>0, <1>1, <1>2, <1>3, <1>4, <2>1 DEF FirstTried, IndexTried, Aside
  <2>8. Quiet'
    <3> SUFFICES ASSUME cs[index].failures # -1, ~Up(cs[index]) PROVE Settled' \/ Harmless'
      BY <2>1 DEF Quiet
    <3>1. cl[index].failures # -1 /\ ~Up(cl[index])
      BY <1>0, <1>2, <1>3, <1>4
    <3>2. Settled => Settled'
      BY <1>1, <1>6, <2>1 DEF Settled
    <3>3. Harmless => Harmless'
      BY <1>0, <1>1, <1>2, <1>4, <2>1 DEF Harmless, Sound, InStep
    <3> QED BY <3>1, <3>2, <3>3 DEF Quiet
  <2> QED BY <2>2, <2>4, <2>5, <2>6, <2>7, <2>8
<1>8. CASE Advances(i, d.failures)
  <2> DEFINE e == Connect(cl[index + 1])
  <2>0. /\ index = i /\ index + 1 \in Id /\ d.failures # -1
        /\ Settled /\ Ok(cl[index + 1]) /\ Idle(cl[index + 1])
    BY <1>8, AdvanceFacts
  <2>1. index + 1 # i /\ index + 1 # 0 /\ index + 1 \in Nat
    BY <1>0, <2>0
  <2>2. cl' = [cs EXCEPT ![index + 1] = e] /\ index' = index + 1
    BY <1>4, <1>8, <2>0, <2>1 DEF Ended, OnClose, cs
  <2>3. Ok(e) /\ e.failures # -1 /\ e.st = "HostLookup" /\ ~Up(e)
    BY <2>0, ConnectFacts
  <2> HIDE DEF e
  <2>4. /\ cl' \in [Id -> ClientRecord] /\ cl'[index + 1] = e /\ cl'[i] = d
        /\ \A j \in Id : j # i /\ j # index + 1 => cl'[j] = cl[j]
    BY <1>4, <2>0, <2>1, <2>2, <2>3 DEF Ok
  <2>5. active' = -1
    BY <1>5, <2>0 DEF IndexInUse
  <2>6. TypeOK' /\ AllSound'
    BY <1>1, <1>2, <2>0, <2>2, <2>3, <2>4, <2>5 DEF TypeOK, AllSound, Ok
  <2>7. \A j \in Id : ~Up(cl'[j])
    <3> TAKE j \in Id
    <3>1. CASE j = i \/ j = index + 1
      BY <3>1, <1>2, <2>3, <2>4
    <3>2. CASE j # i /\ j # index + 1
      <4>1. Up(cl[j]) => active = j
        BY DEF SessionInUse
      <4>2. active = j => index = j
        BY <1>0 DEF IndexInUse
      <4> QED BY <3>2, <4>1, <4>2, <2>0, <2>4
    <3> QED BY <3>1, <3>2
  <2>8. SessionInUse' /\ IndexInUse' /\ Reserves'
    BY <1>1, <2>5, <2>7 DEF SessionInUse, IndexInUse, Reserves
  <2>9. Waiting'
    BY <1>0, <1>1, <2>0, <2>1, <2>2, <2>4 DEF Waiting
  <2>10. FirstTried' /\ IndexTried'
    BY <1>0, <1>1, <1>2, <2>0, <2>1, <2>2, <2>3, <2>4 DEF FirstTried, IndexTried, Aside
  <2>11. Settled'
    BY <1>1, <1>2, <2>0, <2>3, <2>4 DEF Settled, Idle
  <2> QED BY <2>6, <2>8, <2>9, <2>10, <2>11 DEF Quiet
<1> QED BY <1>7, <1>8

(* What an accepted login makes of the strategy. *)
LEMMA LoginAcceptedFacts ==
    ASSUME Inv, NEW i \in Id, LoginAccepted(i)
    PROVE  /\ active # i /\ Chosen(i) \in Id /\ Chosen(i) \in {i, active}
           /\ i = 0 => Chosen(i) = 0
           /\ active = -1 => Chosen(i) = i
           /\ active # -1 /\ i # 0 => Chosen(i) = active
           /\ active' = Chosen(i) /\ index' = Chosen(i)
           /\ running' = running /\ UNCHANGED world /\ Id' = Id /\ Single' = Single
           /\ cl' \in [Id -> ClientRecord]
           /\ \A j \in Id : Sound(cl'[j])
           /\ Chosen(i) = i => Up(cl'[i]) /\ cl'[i].failures = 0 /\ cl'[i].st = "Connected"
           /\ Chosen(i) # i => cl'[Chosen(i)] = cl[Chosen(i)]
           /\ i # 0 /\ Chosen(i) # 0 => cl'[0] = cl[0]
           /\ \A j \in Id \ {0, Chosen(i)} : cl'[j].failures = -1 /\ ~Up(cl'[j])
<1> USE DEF Inv
<1>0. n \in Nat \ {0} /\ 0 \in Id /\ -1 \notin Id /\ index \in Id /\ active \in Id \cup {-1}
  BY IdFacts DEF TypeOK
<1>1. cl[i].phase = "login" /\ cl[i].sock = "open" /\ cl[i] \in ClientRecord /\ Sound(cl[i])
  BY DEF LoginAccepted, TypeOK, AllSound
<1>2. active # i
  BY <1>0, <1>1 DEF SessionInUse, Up
<1> DEFINE a == Chosen(i)
           d == OnLoginAccepted(cl[i])
           cs == [cl EXCEPT ![i] = d]
<1>3. /\ a \in Id /\ a \in {i, active} /\ (i = 0 => a = 0) /\ (active = -1 => a = i)
      /\ active # -1 /\ i # 0 => a = active
  BY <1>0, <1>2 DEF Chosen
<1>4. /\ cl' = Dropped(cs, a) /\ active' = a /\ index' = (IF a # active THEN a ELSE index)
      /\ running' = running /\ UNCHANGED world
  BY DEF LoginAccepted, OnLoginSuccess
<1>5. index' = a
  BY <1>0, <1>3, <1>4 DEF IndexInUse
<1>6. Ok(d) /\ Up(d) /\ d.failures = 0 /\ d.st = "Connected"
  BY <1>1, OnLoginFacts DEF Ok
<1> HIDE DEF a, d
<1>7. /\ \A j \in Id : Ok(cs[j])
      /\ cs[i] = d /\ \A j \in Id : j # i => cs[j] = cl[j]
  BY <1>6 DEF TypeOK, AllSound, Ok
<1> HIDE DEF cs
<1>8. \A j \in Id : /\ Ok(Disconnect(cs[j])) /\ Disconnect(cs[j]).failures = -1
                    /\ ~Up(Disconnect(cs[j]))
  <2> TAKE j \in Id
  <2> DEFINE c == cs[j]
  <2>1. Ok(c)
    BY <1>7
  <2> HIDE DEF c
  <2>2. Ok(Disconnect(c)) /\ Disconnect(c).failures = -1 /\ ~Up(Disconnect(c))
    BY <2>1, DisconnectFacts
  <2> QED BY <2>2 DEF c
<1>9. \A j \in Id : cl'[j] = IF j # 0 /\ j # a THEN Disconnect(cs[j]) ELSE cs[j]
  BY <1>4 DEF Dropped
<1>10. \A j \in Id : Ok(cl'[j])
  BY <1>7, <1>8, <1>9
<1>11. cl' \in [Id -> ClientRecord]
  BY <1>4, <1>10 DEF Dropped, Ok
<1>12. Id' = Id /\ Single' = Single
  BY <1>4 DEF world, Id, Single
<1>13. /\ a = i => Up(cl'[i]) /\ cl'[i].failures = 0 /\ cl'[i].st = "Connected"
       /\ a # i => cl'[a] = cl[a]
       /\ i # 0 /\ a # 0 => cl'[0] = cl[0]
       /\ \A j \in Id \ {0, a} : cl'[j].failures = -1 /\ ~Up(cl'[j])
  BY <1>0, <1>3, <1>6, <1>7, <1>8, <1>9
<1> QED BY <1>2, <1>3, <1>4, <1>5, <1>10, <1>11, <1>12, <1>13 DEF a, Ok

(* An accepted login keeps the invariant. *)
LEMMA LoginAcceptedInv ==
    ASSUME Inv, NEW i \in Id, LoginAccepted(i)
    PROVE  Inv'
<1> USE DEF Inv
<1>0. n \in Nat \ {0} /\ 0 \in Id /\ -1 \notin Id /\ active \in Id \cup {-1}
      /\ (Single => Id = {0}) /\ \A j \in Id : j \in Nat
  BY IdFacts DEF TypeOK
<1>1. cl[i].phase = "login" /\ cl[i].sock = "open" /\ Sound(cl[i])
  BY DEF LoginAccepted, AllSound
<1> DEFINE a == Chosen(i)
<1>2. /\ active # i /\ a \in Id /\ a \in {i, active}
      /\ i = 0 => a = 0
      /\ active = -1 => a = i
      /\ active # -1 /\ i # 0 => a = active
      /\ active' = a /\ index' = a
      /\ running' = running /\ UNCHANGED world /\ Id' = Id /\ Single' = Single
      /\ cl' \in [Id -> ClientRecord]
      /\ \A j \in Id : Sound(cl'[j])
      /\ a = i => Up(cl'[i]) /\ cl'[i].failures = 0 /\ cl'[i].st = "Connected"
      /\ a # i => cl'[a] = cl[a]
      /\ i # 0 /\ a # 0 => cl'[0] = cl[0]
      /\ \A j \in Id \ {0, a} : cl'[j].failures = -1 /\ ~Up(cl'[j])
  BY LoginAcceptedFacts
<1> HIDE DEF a
<1>3. TypeOK' /\ AllSound'
  BY <1>2 DEF TypeOK, AllSound, world
<1>4. a # i => Up(cl[a]) \/ cl[a].sock = "closing"
  BY <1>0, <1>2 DEF SessionInUse
<1>5. a # i => index = a /\ ~Single /\ cl[a].failures # -1 /\ cl[a].st # "Unconnected"
  <2> SUFFICES ASSUME a # i PROVE index = a /\ ~Single /\ cl[a].failures # -1 /\ cl[a].st # "Unconnected"
    OBVIOUS
  <2>1. active = a /\ active # -1 /\ ~Single
    BY <1>0, <1>2
  <2>2. Sound(cl[a])
    BY <1>2 DEF AllSound
  <2> QED BY <2>1, <2>2, <1>4 DEF IndexInUse, Up, Sound, InStep
<1>6. SessionInUse'
  <2>1. ASSUME NEW j \in Id, Up(cl'[j]) PROVE a = j
    <3>1. CASE j = 0 /\ a # 0
      <4>1. i # 0 /\ Up(cl[0])
        BY <1>2, <2>1, <3>1
      <4>2. active = 0
        BY <1>0, <4>1 DEF SessionInUse
      <4> QED BY <1>0, <1>2, <3>1, <4>1, <4>2
    <3>2. CASE ~(j = 0 /\ a # 0)
      BY <1>2, <2>1, <3>2
    <3> QED BY <3>1, <3>2
  <2>2. Up(cl'[a]) \/ cl'[a].sock = "closing"
    BY <1>2, <1>4
  <2> QED BY <1>2, <2>1, <2>2 DEF SessionInUse
<1>7. IndexInUse'
  BY <1>2, <1>5 DEF IndexInUse
<1>8. Waiting' /\ Reserves'
  BY <1>0, <1>2 DEF Waiting, Reserves, Aside
<1>9. FirstTried'
  BY <1>0, <1>2 DEF FirstTried, Aside
<1>10. IndexTried'
  BY <1>2, <1>5 DEF IndexTried, Aside
<1>11. Quiet'
  <2>1. CASE a = i
    BY <1>2, <2>1 DEF Quiet
  <2>2. CASE a # i
    <3>1. i # 0 /\ index' = index /\ cl'[index] = cl[index] /\ index = a /\ active = a /\ a # -1
      BY <1>0, <1>2, <1>5, <2>2
    <3>2. CASE Up(cl[a])
      BY <3>1, <3>2 DEF Quiet
    <3>3. CASE ~Up(cl[a])
      <4>1. Settled \/ Harmless
        BY <1>5, <2>2, <3>1, <3>3 DEF Quiet
      <4>2. Aside(cl[i]) /\ cl[i].st # "Unconnected"
        BY <1>0, <1>1, <1>2, <3>1 DEF Reserves, Sound, InStep
      <4>3. ~Settled
        BY <1>1, <4>2 DEF Settled, Aside
      <4>4. Harmless'
        BY <1>0, <1>2, <3>1, <4>1, <4>3 DEF Harmless, world
      <4> QED BY <4>4 DEF Quiet
    <3> QED BY <3>2, <3>3
  <2> QED BY <2>1, <2>2
<1> QED BY <1>3, <1>6, <1>7, <1>8, <1>9, <1>10, <1>11

(* What a tick makes of each client. *)
LEMMA TickFacts ==
    ASSUME Orderly, Inv, NEW due \in [Id -> Due], Tick(due), NEW j \in Id
    PROVE  /\ Ok(cl'[j])
           /\ cl'[j].failures = -1 <=> cl[j].failures = -1
           /\ Aside(cl'[j]) <=> Aside(cl[j])
           /\ \/ cl'[j] = cl[j]
              \/ /\ cl[j].failures # -1 => Settled
                 /\ \/ cl[j].st = "Reconnecting" /\ cl[j].failures # -1
                       /\ cl'[j].dns /\ cl'[j].sock = "none"
                    \/ cl[j].sock = "open" /\ cl'[j].sock = "closing"
<1> DEFINE c == cl[j]
           d == due[j]
<1>1. Ok(c) /\ d \in Due
  BY DEF Inv, TypeOK, AllSound, Ok
<1>2. cl'[j] = Ticked(c, d) /\ (d # "nothing" /\ c.failures # -1 => Settled)
  BY DEF Tick, MayBeDue, Orderly
<1> HIDE DEF c, d
<1>3. /\ Ok(Ticked(c, d))
      /\ \/ Ticked(c, d) = c
         \/ /\ d # "nothing" /\ c.st = "Reconnecting" /\ c.failures # -1
            /\ Ticked(c, d).dns /\ Ticked(c, d).failures # -1
            /\ Ticked(c, d).sock = "none" /\ Ticked(c, d).st = "HostLookup"
         \/ /\ d # "nothing" /\ c.sock = "open"
            /\ Ticked(c, d).sock = "closing" /\ Ticked(c, d).failures = c.failures
  BY <1>1, TickedFacts
<1>4. Aside(Ticked(c, d)) <=> Aside(c)
  BY <1>1, <1>3 DEF Ok, Sound, InStep, Aside
<1> QED BY <1>2, <1>3, <1>4 DEF c

(* A tick keeps the invariant. *)
LEMMA TickInv ==
    ASSUME Orderly, Inv, NEW due \in [Id -> Due], Tick(due)
    PROVE  Inv'
<1> USE DEF Inv
<1>0. n \in Nat \ {0} /\ 0 \in Id /\ -1 \notin Id /\ index \in Id /\ active \in Id \cup {-1}
  BY IdFacts DEF TypeOK
<1>1. /\ index' = index /\ active' = active /\ running' = running /\ UNCHANGED world
      /\ Id' = Id /\ Single' = Single /\ n' = n
  BY DEF Tick, world, Id, Single
<1>2. \A j \in Id :
        /\ Ok(cl'[j])
        /\ cl'[j].failures = -1 <=> cl[j].failures = -1
        /\ Aside(cl'[j]) <=> Aside(cl[j])
        /\ \/ cl'[j] = cl[j]
           \/ /\ cl[j].failures # -1 => Settled
              /\ \/ cl[j].st = "Reconnecting" /\ cl[j].failures # -1
                    /\ cl'[j].dns /\ cl'[j].sock = "none"
                 \/ cl[j].sock = "open" /\ cl'[j].sock = "closing"
  BY TickFacts
<1>3. cl' \in [Id -> ClientRecord] /\ \A j \in Id : Sound(cl'[j])
  BY <1>2 DEF Tick, Ok
<1>4. TypeOK' /\ AllSound'
  BY <1>1, <1>3 DEF TypeOK, AllSound, world
<1>5. \A j \in Id : Up(cl'[j]) => Up(cl[j])
  BY <1>2 DEF Up
<1>6. \A j \in Id : Up(cl[j]) => Up(cl'[j]) \/ cl'[j].sock = "closing"
  BY <1>2 DEF Up, AllSound, Sound, InStep
<1>7. SessionInUse'
  BY <1>0, <1>1, <1>5, <1>6 DEF SessionInUse, Tick, NoClosePending
<1>8. IndexInUse' /\ Waiting' /\ Reserves' /\ FirstTried' /\ IndexTried'
  BY <1>0, <1>1, <1>2 DEF IndexInUse, Waiting, Reserves, FirstTried, IndexTried
<1>9. Settled => Settled'
  BY <1>1, <1>2 DEF Settled
<1>10. Quiet'
  <2> SUFFICES ASSUME cl'[index].failures # -1, ~Up(cl'[index]) PROVE Settled' \/ Harmless'
    BY <1>1 DEF Quiet
  <2>1. cl[index].failures # -1
    BY <1>0, <1>2
  <2>2. CASE cl'[index] = cl[index]
    BY <1>0, <1>1, <1>9, <2>1, <2>2 DEF Quiet, Harmless
  <2>3. CASE cl'[index] # cl[index]
    BY <1>0, <1>2, <1>9, <2>1, <2>3
  <2> QED BY <2>2, <2>3
<1> QED BY <1>4, <1>7, <1>8, <1>10

(* What stop() makes of each client. *)
LEMMA StopFacts ==
    ASSUME Inv, Stop, NEW j \in Id
    PROVE  /\ Ok(cl'[j]) /\ cl'[j].failures = -1 /\ ~Up(cl'[j])
           /\ cl'[j].sock = IF cl[j].sock = "open" THEN "closing" ELSE cl[j].sock
           /\ Alive(cl'[j]) => Alive(cl[j])
<1> DEFINE c == cl[j]
<1>1. Ok(c)
  BY DEF Inv, TypeOK, AllSound, Ok
<1>2. cl'[j] = Disconnect(c)
  BY DEF Stop
<1> HIDE DEF c
<1>3. /\ Ok(Disconnect(c)) /\ Disconnect(c).failures = -1 /\ ~Up(Disconnect(c))
      /\ Disconnect(c).sock = IF c.sock = "open" THEN "closing" ELSE c.sock
      /\ Alive(Disconnect(c)) => Alive(c)
  BY <1>1, DisconnectFacts
<1> QED BY <1>2, <1>3 DEF c

(* stop() keeps the invariant. *)
LEMMA StopInv ==
    ASSUME Inv, Stop
    PROVE  Inv'
<1> USE DEF Inv
<1>0. n \in Nat \ {0} /\ 0 \in Id /\ -1 \notin Id /\ index \in Id /\ active \in Id \cup {-1}
      /\ (Single => Id = {0})
  BY IdFacts DEF TypeOK
<1>1. /\ running' = FALSE /\ UNCHANGED world /\ Id' = Id /\ Single' = Single
      /\ index' = 0 /\ active' = IF Single THEN active ELSE -1
  BY <1>0 DEF Stop, world, Id, Single
<1>2. \A j \in Id :
        /\ Ok(cl'[j]) /\ cl'[j].failures = -1 /\ ~Up(cl'[j])
        /\ cl'[j].sock = IF cl[j].sock = "open" THEN "closing" ELSE cl[j].sock
  BY StopFacts
<1>3. cl' \in [Id -> ClientRecord]
  BY <1>2 DEF Stop, Ok
<1>4. TypeOK' /\ AllSound'
  BY <1>0, <1>1, <1>2, <1>3 DEF TypeOK, AllSound, Ok, world
<1>5. SessionInUse'
  BY <1>0, <1>1, <1>2 DEF SessionInUse, Up
<1>6. IndexInUse' /\ Waiting' /\ Reserves' /\ FirstTried' /\ IndexTried' /\ Quiet'
  BY <1>0, <1>1, <1>2 DEF IndexInUse, Waiting, Reserves, FirstTried, IndexTried, Quiet, Aside
<1> QED BY <1>4, <1>5, <1>6

(* A stopped strategy that is connected again has come to rest. *)
LEMMA RestartFacts ==
    ASSUME Inv, Restart
    PROVE  /\ index = 0 /\ active = -1
           /\ \A j \in Id : Idle(cl[j])
           /\ Ok(cl'[0]) /\ cl'[0].dns /\ cl'[0].st = "HostLookup" /\ cl'[0].sock = "none"
           /\ cl'[0].failures # -1 /\ ~Up(cl'[0])
           /\ cl' \in [Id -> ClientRecord] /\ \A j \in Id : j # 0 => cl'[j] = cl[j]
           /\ index' = index /\ active' = active /\ running' = TRUE /\ UNCHANGED world
           /\ Id' = Id /\ Single' = Single
<1> USE DEF Inv
<1>0. n \in Nat \ {0} /\ 0 \in Id /\ -1 \notin Id /\ index \in Id /\ active \in Id \cup {-1}
  BY IdFacts DEF TypeOK
<1>1. \A j \in Id : Idle(cl[j]) /\ ~Alive(cl[j]) /\ Sound(cl[j])
  BY DEF Restart, Alive, Idle, AllSound
<1>2. index = 0
  BY <1>0, <1>1 DEF IndexTried, Aside, Alive, Sound, InStep, Idle, TypeOK, ClientRecord, SocketState
<1>3. active = -1
  BY <1>0, <1>1 DEF SessionInUse, Up, Idle
<1> DEFINE c == cl[0]
<1>4. Ok(c) /\ Idle(c)
  BY <1>0, <1>1 DEF Ok, TypeOK
<1>5. cl' = [cl EXCEPT ![0] = Connect(c)]
  BY <1>0, <1>2 DEF Restart, TypeOK
<1> HIDE DEF c
<1>6. /\ Ok(Connect(c)) /\ Connect(c).dns /\ Connect(c).st = "HostLookup"
      /\ Connect(c).sock = "none" /\ Connect(c).failures # -1 /\ ~Up(Connect(c))
  BY <1>4, ConnectFacts
<1>7. /\ cl'[0] = Connect(c) /\ cl' \in [Id -> ClientRecord]
      /\ \A j \in Id : j # 0 => cl'[j] = cl[j]
  BY <1>0, <1>5, <1>6 DEF TypeOK, Ok
<1>8. /\ index' = index /\ active' = active /\ running' = TRUE /\ UNCHANGED world
      /\ Id' = Id /\ Single' = Single
  BY DEF Restart, world, Id, Single
<1> QED BY <1>1, <1>2, <1>3, <1>6, <1>7, <1>8

(* ... and has the invariant. *)
LEMMA RestartInv ==
    ASSUME Inv, Restart
    PROVE  Inv'
<1> USE DEF Inv
<1>0. n \in Nat \ {0} /\ 0 \in Id /\ -1 \notin Id /\ \A j \in Id : j \in Nat
  BY IdFacts DEF TypeOK
<1>1. /\ index = 0 /\ active = -1
      /\ \A j \in Id : Idle(cl[j])
      /\ Ok(cl'[0]) /\ cl'[0].dns /\ cl'[0].st = "HostLookup" /\ cl'[0].sock = "none"
      /\ cl'[0].failures # -1 /\ ~Up(cl'[0])
      /\ cl' \in [Id -> ClientRecord] /\ \A j \in Id : j # 0 => cl'[j] = cl[j]
      /\ index' = index /\ active' = active /\ running' = TRUE /\ UNCHANGED world
      /\ Id' = Id /\ Single' = Single
  BY RestartFacts
<1>2. TypeOK' /\ AllSound'
  BY <1>0, <1>1 DEF TypeOK, AllSound, Ok, world
<1>3. SessionInUse'
  BY <1>0, <1>1 DEF SessionInUse, Up, Idle
<1>4. IndexInUse' /\ Waiting' /\ Reserves' /\ FirstTried' /\ IndexTried'
  BY <1>0, <1>1 DEF IndexInUse, Waiting, Reserves, FirstTried, IndexTried, Aside
<1>5. Settled'
  BY <1>0, <1>1 DEF Settled, Idle
<1> QED BY <1>2, <1>3, <1>4, <1>5 DEF Quiet

-----------------------------------------------------------------------------
(* The invariant holds at the start ... *)
LEMMA InitInv == Init => Inv
<1> SUFFICES ASSUME Init PROVE Inv
  OBVIOUS
<1>0. n \in Nat \ {0} /\ n \in Sizes /\ 0 \in Id /\ -1 \notin Id /\ \A j \in Id : j \in Nat
  BY StrategyAssumption DEF Init, Id
<1>1. NewClient \in ClientRecord
  BY ClientAssumption DEF NewClient, ClientRecord, SocketState, SessionPhase
<1>2. Ok(NewClient) /\ Idle(NewClient)
  BY <1>1 DEF NewClient, Ok, Sound, InStep, Idle
<1>3. /\ Ok(Connect(NewClient)) /\ Connect(NewClient).failures # -1
      /\ Connect(NewClient).st = "HostLookup" /\ ~Up(Connect(NewClient))
  BY <1>2, ConnectFacts
<1>4. NewClient.failures = 0 /\ NewClient.st = "Unconnected" /\ ~Up(NewClient)
  BY DEF NewClient, Up
<1>5. /\ cl \in [Id -> ClientRecord] /\ cl[0] = Connect(NewClient)
      /\ \A j \in Id : j # 0 => cl[j] = NewClient
  BY <1>0, <1>1, <1>3 DEF Init, Ok
<1>6. index = 0 /\ active = -1 /\ running = TRUE
  BY DEF Init
<1>7. TypeOK
  BY <1>0, <1>5, <1>6 DEF Init, TypeOK
<1>8. AllSound
  BY <1>0, <1>2, <1>3, <1>5 DEF AllSound, Ok
<1>9. SessionInUse
  BY <1>0, <1>3, <1>4, <1>5, <1>6 DEF SessionInUse
<1>10. IndexInUse /\ Waiting /\ Reserves /\ FirstTried /\ IndexTried
  BY <1>0, <1>3, <1>4, <1>5, <1>6 DEF IndexInUse, Waiting, Reserves, FirstTried, IndexTried, Aside
<1>11. Settled
  BY <1>0, <1>3, <1>4, <1>5 DEF Settled
<1> QED BY <1>7, <1>8, <1>9, <1>10, <1>11 DEF Inv, Quiet

(* A close callback and a failed lookup end an attempt. *)
LEMMA ClosedEnds ==
    ASSUME Inv, NEW i \in Id, Closed(i)
    PROVE  Ended(i, OnClosed(cl[i]))
<1> DEFINE c == cl[i]
<1>1. Ok(c) /\ c.sock = "closing"
  BY DEF Inv, TypeOK, AllSound, Ok, Closed
<1>2. OnClose(i, [cl EXCEPT ![i] = OnClosed(c)]) /\ UNCHANGED <<running, world>>
  BY DEF Closed
<1> HIDE DEF c
<1>3. /\ Ok(OnClosed(c)) /\ Idle(OnClosed(c)) /\ ~Up(OnClosed(c))
      /\ OnClosed(c).failures = -1 <=> c.failures = -1
      /\ c.failures # -1 => OnClosed(c).st = "Reconnecting"
      /\ c.failures = 0 => OnClosed(c).failures < 2
  BY <1>1, OnClosedFacts
<1> QED BY <1>1, <1>2, <1>3 DEF Ended, c

(* A failed lookup ends an attempt. *)
LEMMA ResolveErrorEnds ==
    ASSUME Inv, NEW i \in Id, ResolveError(i)
    PROVE  Ended(i, OnResolveError(cl[i]))
<1> DEFINE c == cl[i]
<1>1. Ok(c) /\ c.dns
  BY DEF Inv, TypeOK, AllSound, Ok, ResolveError
<1>2. OnClose(i, [cl EXCEPT ![i] = OnResolveError(c)]) /\ UNCHANGED <<running, world>>
  BY DEF ResolveError
<1> HIDE DEF c
<1>3. /\ Ok(OnResolveError(c)) /\ Idle(OnResolveError(c)) /\ ~Up(OnResolveError(c))
      /\ OnResolveError(c).failures = -1 <=> c.failures = -1
      /\ c.failures # -1 => OnResolveError(c).st = "Reconnecting"
  BY <1>1, OnResolveErrorFacts
<1>4. c.st # "Closing"
  BY <1>1 DEF Ok, Sound, InStep
<1> QED BY <1>1, <1>2, <1>3, <1>4 DEF Ended, c

(* The steps of a client that the strategy is not told about. *)
OwnStep(i) ==
    \/ Resolved(i) \/ Connected(i) \/ TlsReady(i)
    \/ ConnectError(i) \/ TlsError(i) \/ LoginRefused(i) \/ LinkFailed(i)

(* What such a step makes of the client: it goes on, or its socket is      *)
(* closed.                                                                 *)
Continued(i, d) ==
    /\ Ok(d) /\ Own(i, d)
    /\ cl[i].dns \/ cl[i].sock = "open"
    /\ d.dns \/ d.sock # "none"
    /\ d.failures = cl[i].failures /\ d.st # "Unconnected" /\ ~Up(d)
    /\ Up(cl[i]) => d.sock = "closing" /\ (Overlap \/ Single \/ Settled)

(* Every step that a client takes by itself is of that kind. *)
LEMMA OwnStepFacts ==
    ASSUME Inv, NEW i \in Id, OwnStep(i)
    PROVE  \E d \in ClientRecord : Continued(i, d)
<1> DEFINE c == cl[i]
<1> SUFFICES \E d \in ClientRecord :
        /\ Ok(d) /\ Own(i, d)
        /\ c.dns \/ c.sock = "open"
        /\ d.dns \/ d.sock # "none"
        /\ d.failures = c.failures /\ d.st # "Unconnected" /\ ~Up(d)
        /\ Up(c) => d.sock = "closing" /\ (Overlap \/ Single \/ Settled)
  BY DEF Continued
<1>0. Ok(c) /\ c \in ClientRecord /\ InStep(c)
  BY DEF Inv, TypeOK, AllSound, Ok, Sound
<1>1. CASE Resolved(i)
  <2>1. c.dns /\ Own(i, OnResolved(c))
    BY <1>1 DEF Resolved
  <2> HIDE DEF c
  <2>2. /\ Ok(OnResolved(c)) /\ OnResolved(c).sock = "open" /\ OnResolved(c).st = "Connecting"
        /\ OnResolved(c).failures = c.failures /\ ~Up(OnResolved(c))
    BY <1>0, <2>1, OnResolvedFacts
  <2>3. ~Up(c) /\ OnResolved(c) \in ClientRecord
    BY <1>0, <2>1, <2>2 DEF Ok, InStep, Up
  <2> QED BY <2>1, <2>2, <2>3
<1>2. CASE Connected(i)
  <2>1. c.st = "Connecting" /\ c.sock = "open" /\ Own(i, OnConnected(c))
    BY <1>2 DEF Connected
  <2> HIDE DEF c
  <2>2. /\ Ok(OnConnected(c)) /\ OnConnected(c).sock = "open" /\ OnConnected(c).st = "Connected"
        /\ OnConnected(c).failures = c.failures /\ ~Up(OnConnected(c))
    BY <1>0, <2>1, OnConnectedFacts
  <2>3. ~Up(c) /\ OnConnected(c) \in ClientRecord
    BY <1>0, <2>1, <2>2 DEF Ok, InStep, Up
  <2> QED BY <2>1, <2>2, <2>3
<1>3. CASE TlsReady(i)
  <2>1. c.phase = "tls" /\ c.sock = "open" /\ Own(i, Login(c))
    BY <1>3 DEF TlsReady
  <2> HIDE DEF c
  <2>2. c.st = "Connected" /\ ~c.dns /\ (PoolTls => c.tls /\ ~c.plain) /\ ~Up(c)
    BY <1>0, <2>1 DEF InStep, Up
  <2>3. /\ Ok(Login(c)) /\ Login(c).sock = "open" /\ Login(c).st = "Connected"
        /\ Login(c).failures = c.failures /\ ~Up(Login(c))
    BY <1>0, <2>1, <2>2, LoginFacts
  <2> QED BY <2>1, <2>2, <2>3 DEF Ok
<1>4. ASSUME c.sock = "open", ~Up(c), Own(i, Close(c))
      PROVE  \E d \in ClientRecord :
               /\ Ok(d) /\ Own(i, d)
               /\ c.dns \/ c.sock = "open"
               /\ d.dns \/ d.sock # "none"
               /\ d.failures = c.failures /\ d.st # "Unconnected" /\ ~Up(d)
               /\ Up(c) => d.sock = "closing" /\ (Overlap \/ Single \/ Settled)
  <2> HIDE DEF c
  <2>1. c.st # "Unconnected"
    BY <1>0, <1>4 DEF InStep
  <2>2. /\ Ok(Close(c)) /\ Close(c).sock = "closing" /\ Close(c).failures = c.failures
        /\ Close(c).st # "Unconnected" /\ ~Up(Close(c))
    BY <1>0, <1>4, <2>1, CloseFacts
  <2> QED BY <1>4, <2>2 DEF Ok
<1>5. CASE ConnectError(i) \/ TlsError(i)
  <2>1. c.sock = "open" /\ (c.st = "Connecting" \/ c.phase = "tls") /\ Own(i, Close(c))
    BY <1>5 DEF ConnectError, TlsError
  <2>2. ~Up(c)
    <3> HIDE DEF c
    <3> QED BY <1>0, <2>1 DEF InStep, Up
  <2> QED BY <2>1, <2>2, <1>4
<1>6. CASE LoginRefused(i)
  <2>1. c.phase = "login" /\ c.sock = "open" /\ (Own(i, Close(c)) \/ Own(i, OnLoginRefused(c)))
    BY <1>6 DEF LoginRefused
  <2>2. ~Up(c)
    BY <2>1 DEF Up
  <2>3. CASE Own(i, Close(c))
    BY <2>1, <2>2, <2>3, <1>4
  <2>4. CASE Own(i, OnLoginRefused(c))
    <3> HIDE DEF c
    <3>1. /\ Ok(OnLoginRefused(c)) /\ OnLoginRefused(c).sock = "open" /\ ~Up(OnLoginRefused(c))
          /\ OnLoginRefused(c).st = "Connected" /\ OnLoginRefused(c).failures = c.failures
      BY <1>0, <2>1, OnLoginFacts
    <3> QED BY <2>1, <2>2, <2>4, <3>1 DEF Ok
  <2> QED BY <2>1, <2>3, <2>4
<1>7. CASE LinkFailed(i)
  <2>1. c.st = "Connected" /\ c.sock = "open" /\ (Overlap \/ Single \/ Settled)
    BY <1>7 DEF LinkFailed
  <2>2. PICK x \in BOOLEAN : Own(i, Died(c, x))
    BY <1>7 DEF LinkFailed
  <2> HIDE DEF c
  <2>3. /\ Ok(Died(c, x)) /\ Died(c, x).sock = "closing" /\ Died(c, x).failures = c.failures
    BY <1>0, <2>1, DiedFacts
  <2>4. Died(c, x).st # "Unconnected" /\ ~Up(Died(c, x))
    BY <2>3 DEF Ok, Sound, InStep, Up
  <2> QED BY <2>1, <2>2, <2>3, <2>4 DEF Ok
<1> QED BY <1>1, <1>2, <1>3, <1>5, <1>6, <1>7 DEF OwnStep

(* ... and every step keeps it. *)
LEMMA NextInv ==
    ASSUME Orderly, Inv, [Next]_vars
    PROVE  Inv'
<1>1. ASSUME NEW i \in Id, OwnStep(i) PROVE Inv'
  <2>1. PICK d \in ClientRecord : Continued(i, d)
    BY <1>1, OwnStepFacts
  <2> QED BY <1>1, <2>1, OwnInv DEF Continued
<1>2. ASSUME NEW i \in Id, Closed(i) PROVE Inv'
  BY <1>2, ClosedEnds, EndedInv
<1>3. ASSUME NEW i \in Id, ResolveError(i) PROVE Inv'
  BY <1>3, ResolveErrorEnds, EndedInv
<1>4. ASSUME NEW i \in Id, LoginAccepted(i) PROVE Inv'
  BY <1>4, LoginAcceptedInv
<1>5. ASSUME NEW due \in [Id -> Due], Tick(due) PROVE Inv'
  BY <1>5, TickInv
<1>6. CASE Stop
  BY <1>6, StopInv
<1>7. CASE Restart
  BY <1>7, RestartInv
<1>8. CASE Heal \/ UNCHANGED vars
  <2>1. UNCHANGED <<n, cl, index, active, running, good>> /\ healthy' \in {healthy, good}
    BY <1>8 DEF Heal, vars, world
  <2>2. Id' = Id /\ Single' = Single /\ TypeOK'
    BY <2>1 DEF Inv, TypeOK, Id, Single
  <2> QED BY <2>1, <2>2 DEF Inv, AllSound, SessionInUse, IndexInUse, Waiting, Reserves, Quiet,
        Settled, Harmless, FirstTried, IndexTried
<1> QED BY <1>1, <1>2, <1>3, <1>4, <1>5, <1>6, <1>7, <1>8 DEF Next, Beyond, Works, Fails, OwnStep

-----------------------------------------------------------------------------
(* The promises of PoolLink, step by step. *)

LinkStep == IF Single THEN One!Next ELSE Many!Next

(* The four cases of LinkState, before and after a step. *)
LEMMA LinkCases ==
    /\ active # -1 /\ Single /\ cl[active].failures = -1 => LinkState = "stopping"
    /\ active # -1 /\ ~(Single /\ cl[active].failures = -1) => LinkState = "active"
    /\ active = -1 /\ (\E i \in Id : Alive(cl[i])) => LinkState = "trying"
    /\ active = -1 /\ ~(\E i \in Id : Alive(cl[i])) => LinkState = "none"
    /\ active' # -1 /\ Single' /\ cl'[active'].failures = -1 => LinkState' = "stopping"
    /\ active' # -1 /\ ~(Single' /\ cl'[active'].failures = -1) => LinkState' = "active"
    /\ active' = -1 /\ (\E i \in Id' : Alive(cl'[i])) => LinkState' = "trying"
    /\ active' = -1 /\ ~(\E i \in Id' : Alive(cl'[i])) => LinkState' = "none"
<1>1. /\ active # -1 /\ Single /\ cl[active].failures = -1 => LinkState = "stopping"
      /\ active # -1 /\ ~(Single /\ cl[active].failures = -1) => LinkState = "active"
  BY DEF LinkState
<1>2. /\ active = -1 /\ (\E i \in Id : Alive(cl[i])) => LinkState = "trying"
      /\ active = -1 /\ ~(\E i \in Id : Alive(cl[i])) => LinkState = "none"
  BY DEF LinkState
<1>3. /\ active' # -1 /\ Single' /\ cl'[active'].failures = -1 => LinkState' = "stopping"
      /\ active' # -1 /\ ~(Single' /\ cl'[active'].failures = -1) => LinkState' = "active"
  BY DEF LinkState
<1>4. /\ active' = -1 /\ (\E i \in Id' : Alive(cl'[i])) => LinkState' = "trying"
      /\ active' = -1 /\ ~(\E i \in Id' : Alive(cl'[i])) => LinkState' = "none"
  BY DEF LinkState
<1> QED BY <1>1, <1>2, <1>3, <1>4

(* Which changes of the link PoolLink allows. *)
LEMMA LinkChanges ==
    ASSUME running \in BOOLEAN,
           \/ LinkState' = LinkState /\ running' = running
           \/ /\ LinkState = "trying" \/ (LinkState = "active" /\ ~Single)
              /\ LinkState' = "active" /\ running' = running
           \/ LinkState = "active" /\ LinkState' = "trying" /\ running' = running
           \/ LinkState = "trying" /\ LinkState' = "none" /\ ~running /\ running' = running
           \/ LinkState = "stopping" /\ LinkState' = "none" /\ ~running /\ running' = running
           \/ LinkState = "none" /\ ~running /\ LinkState' = "trying" /\ running' = TRUE
           \/ /\ running' = FALSE /\ LinkState' \in {"none", "trying", "stopping"}
              /\ LinkState' = "stopping" <=> Single /\ LinkState \in {"active", "stopping"}
              /\ LinkState = "none" => LinkState' = "none"
    PROVE  [LinkStep]_LinkView
<1> DEFINE s == LinkState
           t == LinkState'
<1>0. LinkView = [st |-> s, wanted |-> running] /\ LinkView' = [st |-> t, wanted |-> running']
  BY DEF LinkView
<1>1. LinkView.st = s /\ LinkView.wanted = running
  BY <1>0
<1> HIDE DEF s, t
<1>2. CASE t = s /\ running' = running
  BY <1>0, <1>2
<1>3. CASE /\ s = "trying" \/ (s = "active" /\ ~Single)
           /\ t = "active" /\ running' = running
  <2>1. CASE Single
    <3>1. One!Login
      BY <1>0, <1>1, <1>3, <2>1 DEF One!Login
    <3> QED BY <3>1, <2>1 DEF LinkStep, One!Next
  <2>2. CASE ~Single
    <3>1. Many!Login
      BY <1>0, <1>1, <1>3, <2>2 DEF Many!Login
    <3> QED BY <3>1, <2>2 DEF LinkStep, Many!Next
  <2> QED BY <2>1, <2>2
<1>4. CASE s = "active" /\ t = "trying" /\ running' = running
  <2>1. One!Lost /\ Many!Lost
    BY <1>0, <1>1, <1>4 DEF One!Lost, Many!Lost
  <2> QED BY <2>1 DEF LinkStep, One!Next, Many!Next
<1>5. CASE s = "trying" /\ t = "none" /\ ~running /\ running' = running
  <2>1. LinkView' = [st |-> "none", wanted |-> FALSE]
    BY <1>0, <1>5
  <2>2. One!Over /\ Many!Over
    BY <2>1, <1>1, <1>5 DEF One!Over, Many!Over, One!Off, Many!Off
  <2> QED BY <2>2 DEF LinkStep, One!Next, Many!Next
<1>6. CASE s = "stopping" /\ t = "none" /\ ~running /\ running' = running
  <2>1. LinkView' = [st |-> "none", wanted |-> FALSE]
    BY <1>0, <1>6
  <2>2. One!Stopped /\ Many!Stopped
    BY <2>1, <1>1, <1>6 DEF One!Stopped, Many!Stopped, One!Off, Many!Off
  <2> QED BY <2>2 DEF LinkStep, One!Next, Many!Next
<1>7. CASE s = "none" /\ ~running /\ t = "trying" /\ running' = TRUE
  <2>1. /\ LinkView = [st |-> "none", wanted |-> FALSE]
        /\ LinkView' = [st |-> "trying", wanted |-> TRUE]
    BY <1>0, <1>7
  <2>2. One!Connect /\ Many!Connect
    BY <2>1 DEF One!Connect, Many!Connect, One!Off, Many!Off, One!Trying, Many!Trying
  <2> QED BY <2>2 DEF LinkStep, One!Next, Many!Next
<1>8. CASE /\ running' = FALSE /\ t \in {"none", "trying", "stopping"}
           /\ t = "stopping" <=> Single /\ s \in {"active", "stopping"}
           /\ s = "none" => t = "none"
  <2>1. LinkView' = [st |-> t, wanted |-> FALSE]
    BY <1>0, <1>8
  <2>2. CASE Single
    <3>1. One!Stop
      BY <1>1, <1>8, <2>1, <2>2 DEF One!Stop
    <3> QED BY <3>1, <2>2 DEF LinkStep, One!Next
  <2>3. CASE ~Single
    <3>1. Many!Stop
      BY <1>1, <1>8, <2>1, <2>3 DEF Many!Stop
    <3> QED BY <3>1, <2>3 DEF LinkStep, Many!Next
  <2> QED BY <2>2, <2>3
<1> QED BY <1>2, <1>3, <1>4, <1>5, <1>6, <1>7, <1>8 DEF s, t

(* A sound client is alive when it is being tried, and an idle one that    *)
(* was dropped is not.                                                     *)
LEMMA AliveFacts ==
    ASSUME NEW STATE c, Ok(c)
    PROVE  /\ ~Aside(c) => Alive(c)
           /\ Idle(c) /\ c.failures = -1 => ~Alive(c)
           /\ c.st = "Reconnecting" /\ c.failures # -1 => Alive(c)
           /\ c.dns \/ c.sock # "none" => Alive(c)
  BY DEF Ok, Sound, InStep, Aside, Idle, Alive, ClientRecord, SocketState

(* A step that the strategy is not told about leaves the link as it is. *)
LEMMA OwnLink ==
    ASSUME Inv, NEW i \in Id, NEW d \in ClientRecord, Continued(i, d)
    PROVE  [LinkStep]_LinkView
<1>1. /\ cl \in [Id -> ClientRecord] /\ active' = active /\ running' = running /\ Id' = Id
      /\ Single' = Single /\ running \in BOOLEAN /\ active \in Id \cup {-1} /\ -1 \notin Id
  BY IdFacts DEF Inv, TypeOK, Continued, Own, world, Id, Single
<1>2. cl'[i] = d /\ \A j \in Id : j # i => cl'[j] = cl[j]
  BY <1>1 DEF Continued, Own
<1>3. Alive(cl[i]) /\ Alive(d) /\ d.failures = cl[i].failures
  BY DEF Continued, Alive
<1>4. LinkState' = LinkState
  <2>1. CASE active = -1
    BY <1>1, <1>2, <1>3, <2>1, LinkCases
  <2>2. CASE active # -1
    <3>1. cl'[active].failures = cl[active].failures
      BY <1>1, <1>2, <1>3, <2>2
    <3> QED BY <1>1, <2>2, <3>1, LinkCases
  <2> QED BY <2>1, <2>2
<1> QED BY <1>1, <1>4, LinkChanges

(* An accepted login makes the link active. *)
LEMMA LoginAcceptedLink ==
    ASSUME Inv, NEW i \in Id, LoginAccepted(i)
    PROVE  [LinkStep]_LinkView
<1>0. -1 \notin Id /\ (Single => Id = {0}) /\ active \in Id \cup {-1} /\ running \in BOOLEAN
  BY IdFacts DEF Inv, TypeOK
<1>1. /\ active # i /\ Chosen(i) \in Id /\ active' = Chosen(i) /\ running' = running
      /\ active = -1 => Chosen(i) = i
      /\ Single' = Single
      /\ Chosen(i) = i => cl'[i].failures = 0
  BY LoginAcceptedFacts DEF Inv
<1>2. Single => active = -1
  BY <1>0, <1>1
<1>3. LinkState = "trying" \/ (LinkState = "active" /\ ~Single)
  <2>1. Alive(cl[i])
    BY DEF LoginAccepted, Alive
  <2> QED BY <1>2, <2>1, LinkCases
<1>4. LinkState' = "active"
  <2>1. active' # -1 /\ (Single => active' = i /\ cl'[i].failures # -1)
    BY <1>0, <1>1, <1>2
  <2> QED BY <1>1, <2>1, LinkCases
<1> QED BY <1>0, <1>1, <1>3, <1>4, LinkChanges

(* The end of an attempt: the pool in use is lost, a stopped strategy has  *)
(* come to rest, or the link stays as it is.                               *)
LEMMA EndedLink ==
    ASSUME Inv, NEW i \in Id, NEW STATE d, Ended(i, d), Inv'
    PROVE  [LinkStep]_LinkView
<1>0. /\ 0 \in Id /\ -1 \notin Id /\ (Single => Id = {0}) /\ active \in Id \cup {-1}
      /\ running \in BOOLEAN /\ index \in Nat
  BY IdFacts DEF Inv, TypeOK
<1>1. /\ cl \in [Id -> ClientRecord] /\ running' = running /\ Id' = Id /\ Single' = Single
  BY DEF Inv, Ended, world, TypeOK, Id, Single
<1>2. /\ Ok(d) /\ Idle(d)
      /\ cl[i].dns \/ cl[i].sock = "closing"
      /\ d.failures = -1 <=> cl[i].failures = -1
      /\ d.failures # -1 => d.st = "Reconnecting"
  BY DEF Ended
<1>3. Alive(cl[i])
  BY <1>2 DEF Alive
<1>4. (d.failures # -1 => Alive(d)) /\ (d.failures = -1 => ~Alive(d))
  BY <1>2, AliveFacts
<1> DEFINE cs == [cl EXCEPT ![i] = d]
<1>5. cs[i] = d /\ \A j \in Id : j # i => cs[j] = cl[j]
  BY <1>1
<1> HIDE DEF cs
<1>6. active' = IF active = i /\ (Single \/ d.failures # -1) THEN -1 ELSE active
  BY <1>5 DEF Ended, OnClose, cs
<1>7. cl'[i] = d
  BY <1>0, <1>1, <1>5 DEF Ended, OnClose, Advances, cs
<1>8. d.failures = -1 \/ index # i => \A j \in Id : j # i => cl'[j] = cl[j]
  BY <1>5 DEF Ended, OnClose, Advances, cs
<1>9. IndexInUse /\ FirstTried
  BY DEF Inv
<1>10. CASE active = i /\ d.failures # -1
  <2>1. LinkState = "active"
    BY <1>0, <1>2, <1>10, LinkCases
  <2>2. LinkState' = "trying"
    BY <1>1, <1>4, <1>6, <1>7, <1>10, LinkCases
  <2> QED BY <1>0, <1>1, <2>1, <2>2, LinkChanges
<1>11. CASE active = i /\ d.failures = -1
  <2>1. Single
    BY <1>0, <1>2, <1>9, <1>11 DEF IndexInUse
  <2>2. i = 0 /\ Id = {0}
    BY <1>0, <2>1
  <2>3. LinkState = "stopping"
    BY <1>0, <1>2, <1>11, <2>1, LinkCases
  <2>4. LinkState' = "none"
    BY <1>1, <1>4, <1>6, <1>7, <1>11, <2>1, <2>2, LinkCases
  <2>5. ~running
    BY <1>2, <1>9, <1>11, <2>2 DEF FirstTried, Aside
  <2> QED BY <1>0, <1>1, <2>3, <2>4, <2>5, LinkChanges
<1>12. CASE active # i /\ active # -1
  <2>1. active' = active /\ cl'[active] = cl[active]
    BY <1>0, <1>6, <1>8, <1>9, <1>12 DEF IndexInUse
  <2>2. LinkState' = LinkState
    BY <1>1, <1>12, <2>1, LinkCases
  <2> QED BY <1>0, <1>1, <2>2, LinkChanges
<1>13. CASE active = -1 /\ d.failures # -1
  <2>1. LinkState = "trying" /\ LinkState' = "trying"
    BY <1>0, <1>1, <1>3, <1>4, <1>6, <1>7, <1>13, LinkCases
  <2> QED BY <1>0, <1>1, <2>1, LinkChanges
<1>14. CASE active = -1 /\ d.failures = -1
  <2>1. LinkState = "trying" /\ active' = -1
    BY <1>0, <1>3, <1>6, <1>14, LinkCases
  <2>2. CASE \E j \in Id : Alive(cl'[j])
    <3>1. LinkState' = "trying"
      BY <1>1, <2>1, <2>2, LinkCases
    <3> QED BY <1>0, <1>1, <2>1, <3>1, LinkChanges
  <2>3. CASE ~\E j \in Id : Alive(cl'[j])
    <3>1. LinkState' = "none"
      BY <1>1, <2>1, <2>3, LinkCases
    <3>2. ~running
      <4> DEFINE c == cl'[0]
      <4>1. Sound(c) /\ c \in ClientRecord /\ (running => ~Aside(c)) /\ ~Alive(c)
        BY <1>0, <1>1, <2>3 DEF Inv, AllSound, TypeOK, FirstTried
      <4> HIDE DEF c
      <4>2. ~Aside(c) => Alive(c)
        BY <4>1 DEF Sound, InStep, Aside, Alive, ClientRecord, SocketState
      <4> QED BY <4>1, <4>2
    <3> QED BY <1>0, <1>1, <2>1, <3>1, <3>2, LinkChanges
  <2> QED BY <2>2, <2>3
<1> QED BY <1>10, <1>11, <1>12, <1>13, <1>14

(* A tick leaves the link as it is. *)
LEMMA TickLink ==
    ASSUME Orderly, Inv, NEW due \in [Id -> Due], Tick(due)
    PROVE  [LinkStep]_LinkView
<1>0. running \in BOOLEAN /\ active \in Id \cup {-1} /\ AllSound
  BY DEF Inv, TypeOK
<1>1. active' = active /\ running' = running /\ Id' = Id /\ Single' = Single
  BY DEF Tick, world, Id, Single
<1>2. \A j \in Id :
        /\ cl'[j].failures = -1 <=> cl[j].failures = -1
        /\ Alive(cl'[j]) <=> Alive(cl[j])
  <2> TAKE j \in Id
  <2>1. /\ cl'[j].failures = -1 <=> cl[j].failures = -1
        /\ \/ cl'[j] = cl[j]
           \/ cl[j].st = "Reconnecting" /\ cl[j].failures # -1 /\ cl'[j].dns
           \/ cl[j].sock = "open" /\ cl'[j].sock = "closing"
    BY TickFacts
  <2>2. Sound(cl[j])
    BY <1>0 DEF AllSound
  <2> QED BY <2>1, <2>2 DEF Alive, Sound, InStep
<1>3. (\E j \in Id : Alive(cl'[j])) <=> (\E j \in Id : Alive(cl[j]))
  BY <1>2
<1>4. LinkState' = LinkState
  <2>1. CASE active = -1
    BY <1>1, <1>3, <2>1, LinkCases
  <2>2. CASE active # -1
    BY <1>0, <1>1, <1>2, <2>2, LinkCases
  <2> QED BY <2>1, <2>2
<1> QED BY <1>0, <1>1, <1>4, LinkChanges

(* stop() and the next connect(). *)
LEMMA StopLink ==
    ASSUME Inv, Stop
    PROVE  [LinkStep]_LinkView
<1>0. /\ -1 \notin Id /\ active \in Id \cup {-1} /\ running \in BOOLEAN /\ (Single => Id = {0})
  BY IdFacts DEF Inv, TypeOK
<1>1. /\ running' = FALSE /\ Id' = Id /\ Single' = Single
      /\ active' = IF Single THEN active ELSE -1
  BY DEF Stop, world, Id, Single
<1>2. \A j \in Id : cl'[j].failures = -1 /\ (Alive(cl'[j]) => Alive(cl[j]))
  BY StopFacts
<1>3. CASE Single /\ active # -1
  <2>1. LinkState' = "stopping" /\ LinkState \in {"active", "stopping"}
    BY <1>0, <1>1, <1>2, <1>3, LinkCases
  <2> QED BY <1>0, <1>1, <1>3, <2>1, LinkChanges
<1>4. CASE ~(Single /\ active # -1)
  <2>1. active' = -1
    BY <1>1, <1>4
  <2>2. LinkState' \in {"none", "trying"}
    BY <1>1, <2>1, LinkCases
  <2>3. LinkState = "none" => LinkState' = "none"
    <3>1. LinkState = "none" => ~\E j \in Id : Alive(cl[j])
      BY LinkCases
    <3> QED BY <1>1, <1>2, <2>1, <3>1, LinkCases
  <2>4. ~(Single /\ LinkState \in {"active", "stopping"})
    BY <1>4, LinkCases
  <2> QED BY <1>0, <1>1, <2>2, <2>3, <2>4, LinkChanges
<1> QED BY <1>3, <1>4

(* SinglePoolStrategy::connect after a stop is the link's Connect. *)
LEMMA RestartLink ==
    ASSUME Inv, Restart
    PROVE  [LinkStep]_LinkView
<1>0. 0 \in Id /\ running \in BOOLEAN
  BY IdFacts DEF Inv, TypeOK
<1>1. active = -1 /\ active' = -1 /\ running' = TRUE /\ Id' = Id /\ cl'[0].dns
  BY RestartFacts
<1>2. ~running /\ ~\E j \in Id : Alive(cl[j])
  BY DEF Restart
<1>3. LinkState = "none" /\ LinkState' = "trying"
  BY <1>0, <1>1, <1>2, LinkCases DEF Alive
<1> QED BY <1>0, <1>1, <1>2, <1>3, LinkChanges

(* The strategies start as PoolLink does ... *)
LEMMA InitLink == Init => IF Single THEN One!Init ELSE Many!Init
<1> SUFFICES ASSUME Init PROVE One!Init /\ Many!Init
  OBVIOUS
<1>1. Inv
  BY InitInv
<1>2. 0 \in Id /\ Ok(cl[0]) /\ active = -1 /\ running = TRUE /\ ~Aside(cl[0])
  BY <1>1, IdFacts DEF Inv, TypeOK, AllSound, Ok, Init, FirstTried
<1>3. Alive(cl[0])
  BY <1>2, AliveFacts
<1>4. LinkView = [st |-> "trying", wanted |-> TRUE]
  BY <1>2, <1>3, LinkCases DEF LinkView
<1> QED BY <1>4 DEF One!Init, Many!Init, One!Trying, Many!Trying

(* ... and take its steps only. *)
LEMMA NextLink ==
    ASSUME Orderly, Inv, [Next]_vars
    PROVE  [LinkStep]_LinkView
<1>0. Inv'
  BY NextInv
<1>1. ASSUME NEW i \in Id, OwnStep(i) PROVE [LinkStep]_LinkView
  <2>1. PICK d \in ClientRecord : Continued(i, d)
    BY <1>1, OwnStepFacts
  <2> QED BY <2>1, OwnLink
<1>2. ASSUME NEW i \in Id, Closed(i) PROVE [LinkStep]_LinkView
  BY <1>0, <1>2, ClosedEnds, EndedLink
<1>3. ASSUME NEW i \in Id, ResolveError(i) PROVE [LinkStep]_LinkView
  BY <1>0, <1>3, ResolveErrorEnds, EndedLink
<1>4. ASSUME NEW i \in Id, LoginAccepted(i) PROVE [LinkStep]_LinkView
  BY <1>4, LoginAcceptedLink
<1>5. ASSUME NEW due \in [Id -> Due], Tick(due) PROVE [LinkStep]_LinkView
  BY <1>5, TickLink
<1>6. CASE Stop
  BY <1>6, StopLink
<1>7. CASE Restart
  BY <1>7, RestartLink
<1>8. CASE Heal \/ UNCHANGED vars
  <2>1. UNCHANGED <<n, cl, active, running>>
    BY <1>8 DEF Heal, vars, world
  <2> QED BY <2>1 DEF LinkView, LinkState, Id, Single, Alive
<1> QED BY <1>1, <1>2, <1>3, <1>4, <1>5, <1>6, <1>7, <1>8 DEF Next, Beyond, Works, Fails, OwnStep
-----------------------------------------------------------------------------
(* Without any assumption on when links fail and deadlines end: what       *)
(* connect() may find when it is called.                                   *)

(* A client that is not connected has no socket, one that waits for its    *)
(* retry no open one, and a dropped one no retry deadline.                 *)
Steady(c) ==
    /\ c.st = "Unconnected" => c.sock = "none" /\ (c.failures # -1 => ~c.dns)
    /\ c.st = "Reconnecting" => c.sock # "open" /\ (c.failures = -1 => ~c.armed)

Weak(c) == c \in ClientRecord /\ Steady(c)

(* A lookup under way while there is a socket. *)
Doubled(c) == c.dns /\ c.sock # "none"

(* Step of a client from c to d that starts no lookup over a socket and    *)
(* does not bring a client back that was put aside.                        *)
Keeps(c, d) == Weak(d) /\ (Aside(c) => Aside(d)) /\ (Doubled(d) => Doubled(c))

(* close() and disconnect() *)
LEMMA CloseKeeps ==
    ASSUME NEW STATE c, Weak(c)
    PROVE  Keeps(c, Close(c)) /\ Close(c).failures = c.failures
<1> DEFINE d == SetState(c, "Closing")
           e == [d EXCEPT !.sock = "closing", !.phase = "none"]
<1>0. c \in ClientRecord /\ Steady(c)
  BY DEF Weak
<1>1. CASE c.st \in {"Closing", "Unconnected"} \/ c.sock = "none"
  <2>1. Close(c) = c
    BY <1>1 DEF Close
  <2> QED BY <2>1 DEF Keeps
<1>2. CASE ~(c.st \in {"Closing", "Unconnected"} \/ c.sock = "none")
  <2>1. Close(c) = e
    BY <1>2 DEF Close
  <2>2. d \in ClientRecord /\ d.st = "Closing" /\ d.dns = c.dns /\ d.failures = c.failures
    BY <1>0, SetStateFacts DEF SocketState
  <2> HIDE DEF d
  <2>3. /\ e \in ClientRecord /\ e.st = "Closing" /\ e.dns = c.dns /\ e.sock = "closing"
        /\ e.failures = c.failures
    BY <2>2 DEF ClientRecord, SessionPhase
  <2> HIDE DEF e
  <2> QED BY <1>2, <2>1, <2>3 DEF Keeps, Weak, Steady, Aside, Doubled
<1> QED BY <1>1, <1>2

(* disconnect() puts the client aside. *)
LEMMA DisconnectKeeps ==
    ASSUME NEW STATE c, Weak(c)
    PROVE  Keeps(c, Disconnect(c)) /\ Disconnect(c).failures = -1
<1> DEFINE d == [c EXCEPT !.armed = FALSE, !.failures = -1]
<1>0. c \in ClientRecord /\ Steady(c)
  BY DEF Weak
<1>1. -1 \in -1 .. FailCap
  BY ClientAssumption
<1>2. /\ d \in ClientRecord /\ d.st = c.st /\ d.dns = c.dns /\ d.sock = c.sock
      /\ d.failures = -1 /\ d.armed = FALSE
  BY <1>0, <1>1 DEF ClientRecord
<1>3. Disconnect(c) = Close(d)
  BY DEF Disconnect
<1> HIDE DEF d
<1>4. Weak(d) /\ Aside(d) /\ (Doubled(d) <=> Doubled(c))
  BY <1>0, <1>2 DEF Weak, Steady, Aside, Doubled
<1>5. Keeps(d, Close(d)) /\ Close(d).failures = -1
  BY <1>2, <1>4, CloseKeeps
<1> QED BY <1>3, <1>4, <1>5 DEF Keeps

(* connect(): a lookup over whatever socket there is. *)
LEMMA ConnectKeeps ==
    ASSUME NEW STATE c, Weak(c)
    PROVE  Weak(Connect(c)) /\ Connect(c).sock = c.sock
<1> DEFINE d == SetState(c, "HostLookup")
           e == [d EXCEPT !.failures = IF @ = -1 THEN 0 ELSE @, !.dns = TRUE, !.tls = PoolTls \/ @]
<1>0. c \in ClientRecord
  BY DEF Weak
<1>1. d \in ClientRecord /\ d.st = "HostLookup" /\ d.sock = c.sock
  BY <1>0, SetStateFacts DEF SocketState
<1>2. Connect(c) = e
  BY DEF Connect
<1> HIDE DEF d
<1>3. (IF d.failures = -1 THEN 0 ELSE d.failures) \in -1 .. FailCap
  BY <1>1, ClientAssumption DEF ClientRecord
<1>4. (PoolTls \/ d.tls) \in BOOLEAN
  OBVIOUS
<1>5. e \in ClientRecord /\ e.st = "HostLookup" /\ e.sock = c.sock
  BY <1>1, <1>3, <1>4 DEF ClientRecord
<1> HIDE DEF e
<1> QED BY <1>2, <1>5 DEF Weak, Steady

(* reconnect() *)
LEMMA ReconnectKeeps ==
    ASSUME NEW STATE c, c \in ClientRecord, c.sock # "open",
           c.st = "Unconnected" => c.sock = "none",
           c.st = "Reconnecting" /\ c.failures = -1 => ~c.armed
    PROVE  /\ Weak(Reconnect(c))
           /\ Reconnect(c).dns = c.dns /\ Reconnect(c).sock = c.sock
           /\ c.failures = -1 => Reconnect(c).failures = -1
<1>1. CASE c.failures = -1
  <2>1. Reconnect(c) = c
    BY <1>1 DEF Reconnect
  <2> QED BY <1>1, <2>1 DEF Weak, Steady
<1>2. CASE c.failures # -1
  <2> DEFINE d == SetState(c, "Reconnecting")
             g == IF c.planned THEN d.failures ELSE Again(d.failures)
             e == [d EXCEPT !.armed = TRUE, !.planned = FALSE, !.failures = g]
  <2>1. /\ d \in ClientRecord /\ d.st = "Reconnecting" /\ d.dns = c.dns /\ d.sock = c.sock
        /\ d.failures = c.failures
    BY SetStateFacts DEF SocketState
  <2>2. Reconnect(c) = e
    BY <1>2 DEF Reconnect
  <2> HIDE DEF d
  <2>3. c.failures \in -1 .. FailCap
    BY DEF ClientRecord
  <2>4. Again(c.failures) \in (-1 .. FailCap) \ {-1}
    BY <1>2, <2>3, ClientAssumption DEF Again
  <2>5. g \in (-1 .. FailCap) \ {-1}
    BY <1>2, <2>1, <2>3, <2>4
  <2> HIDE DEF g
  <2>6. /\ e \in ClientRecord /\ e.st = "Reconnecting" /\ e.dns = c.dns /\ e.sock = c.sock
        /\ e.failures = g
    BY <2>1, <2>5 DEF ClientRecord
  <2> HIDE DEF e
  <2> QED BY <1>2, <2>2, <2>5, <2>6 DEF Weak, Steady
<1> QED BY <1>1, <1>2

(* A lookup answers while no socket is open: connect(addr) opens one, an   *)
(* error leads to reconnect().                                             *)
LEMMA ResolvedKeeps ==
    ASSUME NEW STATE c, Weak(c), c.dns, c.sock # "open"
    PROVE  /\ Keeps(c, OnResolved(c)) /\ OnResolved(c).failures = c.failures
           /\ Keeps(c, OnResolveError(c))
<1> DEFINE b == [c EXCEPT !.dns = FALSE]
           d == SetState(b, "Connecting")
           s == IF d.sock = "none" THEN "open" ELSE "lost"
           e == [d EXCEPT !.sock = s]
<1>0. c \in ClientRecord /\ Steady(c)
  BY DEF Weak
<1>1. /\ b \in ClientRecord /\ b.dns = FALSE /\ b.st = c.st /\ b.sock = c.sock
      /\ b.failures = c.failures /\ b.armed = c.armed
  BY <1>0 DEF ClientRecord
<1>2. OnResolved(c) = e /\ OnResolveError(c) = Reconnect(b)
  BY DEF OnResolved, OnResolveError
<1> HIDE DEF b
<1>3. d \in ClientRecord /\ d.st = "Connecting" /\ d.dns = FALSE /\ d.failures = c.failures
  BY <1>1, SetStateFacts DEF SocketState
<1>4. s \in {"open", "lost"}
  OBVIOUS
<1> HIDE DEF d, s
<1>5. e \in ClientRecord /\ e.st = "Connecting" /\ e.dns = FALSE /\ e.failures = c.failures
  BY <1>3, <1>4 DEF ClientRecord
<1> HIDE DEF e
<1>6. Aside(c) => c.failures = -1
  BY <1>0 DEF Steady, Aside
<1>7. Keeps(c, e)
  BY <1>5, <1>6 DEF Keeps, Weak, Steady, Aside, Doubled
<1>8. /\ Weak(Reconnect(b)) /\ Reconnect(b).dns = FALSE
      /\ b.failures = -1 => Reconnect(b).failures = -1
  BY <1>0, <1>1, ReconnectKeeps DEF Steady
<1>9. Keeps(c, Reconnect(b))
  BY <1>1, <1>6, <1>8 DEF Keeps, Aside, Doubled
<1> QED BY <1>2, <1>5, <1>7, <1>9

(* The close callback takes the socket away. *)
LEMMA ClosedKeeps ==
    ASSUME NEW STATE c, Weak(c), c.sock = "closing"
    PROVE  Keeps(c, OnClosed(c))
<1> DEFINE d == SetState(c, "Unconnected")
           e == [d EXCEPT !.sock = "none", !.tls = FALSE]
<1>0. c \in ClientRecord /\ Steady(c)
  BY DEF Weak
<1>1. d \in ClientRecord /\ d.st = "Unconnected" /\ d.failures = c.failures
  BY <1>0, SetStateFacts DEF SocketState
<1>2. OnClosed(c) = Reconnect(e)
  BY DEF OnClosed
<1> HIDE DEF d
<1>3. /\ e \in ClientRecord /\ e.st = "Unconnected" /\ e.sock = "none"
      /\ e.failures = c.failures
  BY <1>1 DEF ClientRecord
<1> HIDE DEF e
<1>4. /\ Weak(Reconnect(e)) /\ Reconnect(e).sock = "none"
      /\ e.failures = -1 => Reconnect(e).failures = -1
  BY <1>3, ReconnectKeeps
<1>5. Aside(c) => c.failures = -1
  BY <1>0 DEF Steady, Aside
<1> QED BY <1>2, <1>3, <1>4, <1>5 DEF Keeps, Aside, Doubled

(* The session: onConnect(), login() and the answer to it. *)
LEMMA SessionKeeps ==
    ASSUME NEW STATE c, Weak(c), c.sock = "open"
    PROVE  /\ Keeps(c, Login(c)) /\ Login(c).failures = c.failures
           /\ Keeps(c, OnConnected(c)) /\ OnConnected(c).failures = c.failures
           /\ Keeps(c, OnLoginRefused(c)) /\ OnLoginRefused(c).failures = c.failures
           /\ Weak(OnLoginAccepted(c)) /\ (Doubled(OnLoginAccepted(c)) => Doubled(c))
<1>0. c \in ClientRecord /\ Steady(c)
  BY DEF Weak
<1>1. c.st \notin {"Unconnected", "Reconnecting"} /\ (Aside(c) => c.failures = -1)
  BY <1>0 DEF Steady, Aside
<1>2. ASSUME NEW STATE b, b \in ClientRecord, b.st \notin {"Unconnected", "Reconnecting"},
             b.dns = c.dns, b.failures = c.failures
      PROVE  Keeps(c, b)
  BY <1>1, <1>2 DEF Keeps, Weak, Steady, Aside, Doubled
<1>3. ASSUME NEW STATE b, b \in ClientRecord
      PROVE  /\ Login(b) \in ClientRecord /\ Login(b).st = b.st
             /\ Login(b).dns = b.dns /\ Login(b).failures = b.failures
  <2> DEFINE p == b.plain \/ ~b.tls
             e == [b EXCEPT !.phase = "login", !.armed = FALSE, !.plain = @ \/ ~b.tls]
  <2>1. p \in BOOLEAN
    OBVIOUS
  <2>2. e \in ClientRecord /\ e.st = b.st /\ e.dns = b.dns /\ e.failures = b.failures
    BY <1>3, <2>1 DEF ClientRecord, SessionPhase
  <2> QED BY <2>2 DEF Login
<1>4. Keeps(c, Login(c)) /\ Login(c).failures = c.failures
  <2> DEFINE l == Login(c)
  <2>1. l \in ClientRecord /\ l.st = c.st /\ l.dns = c.dns /\ l.failures = c.failures
    BY <1>0, <1>3
  <2> HIDE DEF l
  <2>2. Keeps(c, l)
    BY <1>1, <1>2, <2>1
  <2> QED BY <2>1, <2>2 DEF l
<1>5. Keeps(c, OnConnected(c)) /\ OnConnected(c).failures = c.failures
  <2> DEFINE d == SetState(c, "Connected")
             e == [d EXCEPT !.phase = "tls", !.armed = TRUE]
             l == Login(d)
  <2>1. d \in ClientRecord /\ d.st = "Connected" /\ d.dns = c.dns /\ d.failures = c.failures
    BY <1>0, SetStateFacts DEF SocketState
  <2>2. OnConnected(c) = IF PoolTls /\ d.tls THEN e ELSE l
    BY DEF OnConnected
  <2> HIDE DEF d
  <2>3. e \in ClientRecord /\ e.st = "Connected" /\ e.dns = c.dns /\ e.failures = c.failures
    BY <2>1 DEF ClientRecord, SessionPhase
  <2>4. l \in ClientRecord /\ l.st = "Connected" /\ l.dns = c.dns /\ l.failures = c.failures
    BY <2>1, <1>3
  <2> HIDE DEF e, l
  <2>5. Keeps(c, e) /\ Keeps(c, l)
    BY <1>2, <2>3, <2>4
  <2> QED BY <2>2, <2>3, <2>4, <2>5
<1>6. Keeps(c, OnLoginRefused(c)) /\ OnLoginRefused(c).failures = c.failures
  <2> DEFINE e == [c EXCEPT !.phase = "refused"]
  <2>1. e \in ClientRecord /\ e.st = c.st /\ e.dns = c.dns /\ e.failures = c.failures
    BY <1>0 DEF ClientRecord, SessionPhase
  <2>2. OnLoginRefused(c) = e
    BY DEF OnLoginRefused
  <2> HIDE DEF e
  <2>3. Keeps(c, e)
    BY <1>1, <1>2, <2>1
  <2> QED BY <2>1, <2>2, <2>3
<1>7. Weak(OnLoginAccepted(c)) /\ (Doubled(OnLoginAccepted(c)) => Doubled(c))
  <2> DEFINE e == [c EXCEPT !.phase = "up", !.failures = 0]
  <2>1. 0 \in -1 .. FailCap
    BY ClientAssumption
  <2>2. e \in ClientRecord /\ e.st = c.st /\ e.dns = c.dns /\ e.sock = c.sock
    BY <1>0, <2>1 DEF ClientRecord, SessionPhase
  <2>3. OnLoginAccepted(c) = e
    BY DEF OnLoginAccepted
  <2> HIDE DEF e
  <2> QED BY <1>1, <2>2, <2>3 DEF Weak, Steady, Doubled
<1> QED BY <1>4, <1>5, <1>6, <1>7

(* A connection that died or is renewed. *)
LEMMA DiedKeeps ==
    ASSUME NEW STATE c, Weak(c), NEW CONSTANT x \in BOOLEAN
    PROVE  Keeps(c, Died(c, x)) /\ Keeps(c, Renew(c))
<1> DEFINE a == [c EXCEPT !.rotate = @ \/ x]
           b == [c EXCEPT !.planned = TRUE]
<1>0. c \in ClientRecord /\ Steady(c)
  BY DEF Weak
<1>1. c.rotate \/ x \in BOOLEAN
  BY <1>0 DEF ClientRecord
<1>2. /\ a \in ClientRecord /\ a.st = c.st /\ a.dns = c.dns /\ a.sock = c.sock /\ a.armed = c.armed
      /\ a.failures = c.failures
  BY <1>0, <1>1 DEF ClientRecord
<1>3. /\ b \in ClientRecord /\ b.st = c.st /\ b.dns = c.dns /\ b.sock = c.sock /\ b.armed = c.armed
      /\ b.failures = c.failures
  BY <1>0 DEF ClientRecord
<1>4. Died(c, x) = Close(a) /\ Renew(c) = Close(b)
  BY DEF Died, Renew
<1> HIDE DEF a, b
<1>5. /\ Weak(a) /\ Aside(a) = Aside(c) /\ Doubled(a) = Doubled(c)
      /\ Weak(b) /\ Aside(b) = Aside(c) /\ Doubled(b) = Doubled(c)
  BY <1>0, <1>2, <1>3 DEF Weak, Steady, Aside, Doubled
<1>6. Keeps(a, Close(a)) /\ Keeps(b, Close(b))
  BY <1>5, CloseKeeps
<1> QED BY <1>4, <1>5, <1>6 DEF Keeps

(* A deadline that ends when no close callback is pending: the retry finds *)
(* no socket.                                                              *)
LEMMA TickedKeeps ==
    ASSUME NEW STATE c, Weak(c), NEW CONSTANT d \in Due, c.sock \in {"none", "open"}
    PROVE  Keeps(c, Ticked(c, d))
<1>0. Steady(c)
  BY DEF Weak
<1>1. CASE d = "expired" /\ c.armed /\ c.st = "Reconnecting"
  <2>1. Ticked(c, d) = Connect(c)
    BY <1>1 DEF Ticked
  <2>2. c.sock = "none" /\ ~Aside(c)
    BY <1>0, <1>1 DEF Steady, Aside
  <2>3. Weak(Connect(c)) /\ Connect(c).sock = "none"
    BY <2>2, ConnectKeeps
  <2> QED BY <2>1, <2>2, <2>3 DEF Keeps, Doubled
<1>2. CASE d = "expired" /\ c.armed /\ c.st \in {"Connecting", "Connected"}
  <2>1. Ticked(c, d) = Close(c)
    BY <1>2 DEF Ticked
  <2> QED BY <2>1, CloseKeeps
<1>3. CASE d \in {"silent", "silent twice"} /\ Pingable /\ c.st = "Connected"
  <2>1. Ticked(c, d) = Died(c, FALSE) \/ Ticked(c, d) = Died(c, TRUE)
    BY <1>3 DEF Ticked
  <2> QED BY <2>1, DiedKeeps
<1>4. CASE d = "renewal" /\ c.rotate /\ c.st = "Connected"
  <2>1. Ticked(c, d) = Renew(c)
    BY <1>4 DEF Ticked
  <2> QED BY <2>1, DiedKeeps
<1>5. CASE /\ ~(d = "expired" /\ c.armed /\ c.st = "Reconnecting")
           /\ ~(d = "expired" /\ c.armed /\ c.st \in {"Connecting", "Connected"})
           /\ ~(d \in {"silent", "silent twice"} /\ Pingable /\ c.st = "Connected")
           /\ ~(d = "renewal" /\ c.rotate /\ c.st = "Connected")
  <2>1. Ticked(c, d) = c
    BY <1>5 DEF Ticked
  <2> QED BY <2>1 DEF Keeps
<1> QED BY <1>1, <1>2, <1>3, <1>4, <1>5

(* The invariant that needs no assumption. *)
AllSteady == \A i \in Id : Steady(cl[i])

IndexKept == active # -1 => index = active

WeakInv == TypeOK /\ AllSteady /\ IndexKept /\ Waiting

(* The part of OnlyDroppedOverrun that is about one step. *)
OverrunStep ==
    \A i \in Id : Doubled(cl'[i]) /\ ~Doubled(cl[i]) =>
        cl[i].failures = -1 /\ index' = i /\ index = i - 1

(* A step of one client that the strategy is not told about. *)
LEMMA OwnWeak ==
    ASSUME WeakInv, NEW i \in Id, NEW STATE d, Keeps(cl[i], d), Own(i, d)
    PROVE  WeakInv' /\ OverrunStep
<1> USE DEF WeakInv
<1>1. /\ cl \in [Id -> ClientRecord] /\ index' = index /\ active' = active /\ running' = running
      /\ n' = n /\ good' = good /\ healthy' = healthy /\ Id' = Id
  BY DEF Own, world, TypeOK, Id
<1>2. d \in ClientRecord /\ Steady(d)
  BY DEF Keeps, Weak
<1>3. /\ cl' \in [Id -> ClientRecord] /\ cl'[i] = d
      /\ \A j \in Id : j # i => cl'[j] = cl[j]
  BY <1>1, <1>2 DEF Own
<1>4. TypeOK' /\ AllSteady' /\ IndexKept'
  BY <1>1, <1>2, <1>3 DEF TypeOK, AllSteady, IndexKept
<1>5. Waiting'
  BY <1>1, <1>3 DEF Waiting, Keeps
<1>6. OverrunStep
  BY <1>3 DEF OverrunStep, Keeps
<1> QED BY <1>4, <1>5, <1>6

(* A close callback or a failed lookup, and what the strategy makes of it: *)
(* the next pool in the list was dropped or has never been connected.      *)
LEMMA EndedWeak ==
    ASSUME WeakInv, NEW i \in Id, NEW STATE d, Keeps(cl[i], d),
           OnClose(i, [cl EXCEPT ![i] = d]), UNCHANGED <<running, world>>
    PROVE  WeakInv' /\ OverrunStep
<1> USE DEF WeakInv
<1>0. n \in Nat \ {0} /\ 0 \in Id /\ -1 \notin Id /\ index \in Id /\ index \in Nat
      /\ \A j \in Id : j \in Nat
  BY IdFacts
<1>1. /\ cl \in [Id -> ClientRecord] /\ running' = running
      /\ n' = n /\ good' = good /\ healthy' = healthy /\ Id' = Id
  BY DEF world, TypeOK, Id
<1>2. d \in ClientRecord /\ Steady(d)
  BY DEF Keeps, Weak
<1> DEFINE cs == [cl EXCEPT ![i] = d]
<1>3. /\ cs \in [Id -> ClientRecord] /\ cs[i] = d
      /\ \A j \in Id : j # i => cs[j] = cl[j]
  BY <1>1, <1>2
<1> HIDE DEF cs
<1>4. active' = IF active = i /\ (Single \/ d.failures # -1) THEN -1 ELSE active
  BY <1>3 DEF OnClose, cs
<1>5. CASE ~Advances(i, d.failures)
  <2>1. cl' = cs /\ index' = index
    BY <1>3, <1>5 DEF OnClose, cs
  <2>2. TypeOK' /\ AllSteady' /\ IndexKept'
    BY <1>1, <1>2, <1>3, <1>4, <2>1 DEF TypeOK, AllSteady, IndexKept
  <2>3. Waiting'
    BY <1>1, <1>3, <2>1 DEF Waiting, Keeps
  <2>4. OverrunStep
    BY <1>3, <2>1 DEF OverrunStep, Keeps
  <2> QED BY <2>2, <2>3, <2>4
<1>6. CASE Advances(i, d.failures)
  <2>1. index = i /\ d.failures # -1 /\ n - index > 1
    BY <1>6 DEF Advances
  <2>2. /\ index + 1 \in Id /\ index + 1 # i /\ index + 1 \in Nat /\ index = (index + 1) - 1
        /\ index + 1 > index
    BY <1>0, <2>1 DEF Id
  <2> DEFINE k == index + 1
             c == cl[k]
             e == Connect(c)
  <2>3. Weak(c) /\ Aside(c)
    BY <2>2 DEF Weak, AllSteady, TypeOK, Waiting
  <2>4. cl' = [cs EXCEPT ![k] = e] /\ index' = k
    BY <1>3, <1>6, <2>1, <2>2 DEF OnClose, cs
  <2> HIDE DEF c, k
  <2>5. Weak(e) /\ e.sock = c.sock
    BY <2>3, ConnectKeeps
  <2> HIDE DEF e
  <2>6. Doubled(e) => c.failures = -1
    BY <2>3, <2>5 DEF Weak, Steady, Aside, Doubled
  <2>7. /\ k \in Id /\ k # i /\ k \in Nat /\ index = k - 1 /\ k > index /\ c = cl[k]
    BY <2>2 DEF k, c
  <2>8. /\ cl' \in [Id -> ClientRecord] /\ cl'[k] = e /\ cl'[i] = d
        /\ \A j \in Id : j # i /\ j # k => cl'[j] = cl[j]
    BY <1>3, <2>4, <2>5, <2>7 DEF Weak
  <2>9. active' = -1
    BY <1>4, <2>1 DEF IndexKept
  <2>10. TypeOK'
    BY <1>1, <2>4, <2>7, <2>8, <2>9 DEF TypeOK
  <2>11. AllSteady' /\ IndexKept'
    BY <1>1, <1>2, <2>5, <2>8, <2>9 DEF AllSteady, IndexKept, Weak
  <2>12. Waiting'
    BY <1>0, <1>1, <2>1, <2>4, <2>7, <2>8 DEF Waiting
  <2>13. OverrunStep
    BY <2>4, <2>6, <2>7, <2>8 DEF OverrunStep, Keeps
  <2> QED BY <2>10, <2>11, <2>12, <2>13
<1> QED BY <1>5, <1>6

(* An accepted login: all but the first pool and the one in use are put    *)
(* aside.                                                                  *)
LEMMA LoginAcceptedWeak ==
    ASSUME WeakInv, NEW i \in Id, LoginAccepted(i)
    PROVE  WeakInv' /\ OverrunStep
<1> USE DEF WeakInv
<1>0. n \in Nat \ {0} /\ 0 \in Id /\ -1 \notin Id /\ index \in Id /\ active \in Id \cup {-1}
      /\ \A j \in Id : j \in Nat
  BY IdFacts DEF TypeOK
<1> DEFINE a == Chosen(i)
           c == cl[i]
           d == OnLoginAccepted(c)
           cs == [cl EXCEPT ![i] = d]
<1>1. a \in Id
  BY <1>0 DEF Chosen
<1>2. /\ cl' = Dropped(cs, a) /\ active' = a /\ index' = (IF a # active THEN a ELSE index)
      /\ running' = running /\ n' = n /\ good' = good /\ healthy' = healthy /\ Id' = Id
  BY DEF LoginAccepted, OnLoginSuccess, world, Id
<1>3. index' = a
  BY <1>0, <1>1, <1>2 DEF IndexKept
<1>4. c.sock = "open" /\ Weak(c)
  BY DEF LoginAccepted, Weak, TypeOK, AllSteady
<1> HIDE DEF a, c
<1>5. Weak(d) /\ (Doubled(d) => Doubled(c))
  BY <1>4, SessionKeeps
<1> HIDE DEF d
<1>6. \A j \in Id : Weak(cs[j]) /\ (Doubled(cs[j]) => Doubled(cl[j]))
  BY <1>5 DEF TypeOK, AllSteady, Weak, c
<1> HIDE DEF cs
<1>7. \A j \in Id : Keeps(cs[j], Disconnect(cs[j])) /\ Disconnect(cs[j]).failures = -1
  <2> TAKE j \in Id
  <2> DEFINE b == cs[j]
  <2>1. Weak(b)
    BY <1>6
  <2> HIDE DEF b
  <2>2. Keeps(b, Disconnect(b)) /\ Disconnect(b).failures = -1
    BY <2>1, DisconnectKeeps
  <2> QED BY <2>2 DEF b
<1>8. \A j \in Id : cl'[j] = IF j # 0 /\ j # a THEN Disconnect(cs[j]) ELSE cs[j]
  BY <1>2 DEF Dropped
<1>9. \A j \in Id : /\ Weak(cl'[j]) /\ (Doubled(cl'[j]) => Doubled(cl[j]))
                    /\ j # 0 /\ j # a => Aside(cl'[j])
  BY <1>6, <1>7, <1>8 DEF Keeps, Aside
<1>10. cl' \in [Id -> ClientRecord]
  BY <1>2, <1>9 DEF Dropped, Weak
<1>11. TypeOK' /\ AllSteady' /\ IndexKept'
  BY <1>1, <1>2, <1>3, <1>9, <1>10 DEF TypeOK, AllSteady, IndexKept, Weak
<1>12. Waiting'
  BY <1>0, <1>1, <1>2, <1>3, <1>9 DEF Waiting
<1>13. OverrunStep
  BY <1>9 DEF OverrunStep
<1> QED BY <1>11, <1>12, <1>13

(* A tick, whatever is due. *)
LEMMA TickWeak ==
    ASSUME WeakInv, ~Overrun, NEW due \in [Id -> Due], Tick(due)
    PROVE  WeakInv' /\ OverrunStep
<1> USE DEF WeakInv
<1>1. /\ index' = index /\ active' = active /\ running' = running
      /\ n' = n /\ good' = good /\ healthy' = healthy /\ Id' = Id
  BY DEF Tick, world, Id
<1>2. \A j \in Id : Keeps(cl[j], cl'[j])
  <2> TAKE j \in Id
  <2> DEFINE c == cl[j]
             d == due[j]
  <2>1. Weak(c) /\ d \in Due /\ cl'[j] = Ticked(c, d)
    BY DEF Tick, Weak, TypeOK, AllSteady
  <2>2. c.sock \in {"none", "open"}
    BY DEF Tick, NoClosePending, Overrun, TypeOK, ClientRecord
  <2> HIDE DEF c, d
  <2>3. Keeps(c, Ticked(c, d))
    BY <2>1, <2>2, TickedKeeps
  <2> QED BY <2>1, <2>3 DEF c
<1>3. cl' \in [Id -> ClientRecord]
  BY <1>2 DEF Tick, Keeps, Weak
<1>4. TypeOK' /\ AllSteady' /\ IndexKept'
  BY <1>1, <1>2, <1>3 DEF TypeOK, AllSteady, IndexKept, Keeps, Weak
<1>5. Waiting' /\ OverrunStep
  BY <1>1, <1>2 DEF Waiting, OverrunStep, Keeps
<1> QED BY <1>4, <1>5

(* stop() *)
LEMMA StopWeak ==
    ASSUME WeakInv, Stop
    PROVE  WeakInv' /\ OverrunStep
<1> USE DEF WeakInv
<1>0. 0 \in Id /\ -1 \notin Id /\ active \in Id \cup {-1} /\ (Single => Id = {0})
  BY IdFacts DEF TypeOK
<1>1. /\ running' = FALSE /\ n' = n /\ good' = good /\ healthy' = healthy /\ Id' = Id
      /\ IF Single THEN index' = index /\ active' = active ELSE index' = 0 /\ active' = -1
  BY DEF Stop, world, Id
<1>2. \A j \in Id : Keeps(cl[j], cl'[j]) /\ cl'[j].failures = -1
  <2> TAKE j \in Id
  <2> DEFINE c == cl[j]
  <2>1. Weak(c) /\ cl'[j] = Disconnect(c)
    BY DEF Stop, Weak, TypeOK, AllSteady
  <2> HIDE DEF c
  <2>2. Keeps(c, Disconnect(c)) /\ Disconnect(c).failures = -1
    BY <2>1, DisconnectKeeps
  <2> QED BY <2>1, <2>2 DEF c
<1>3. cl' \in [Id -> ClientRecord]
  BY <1>2 DEF Stop, Keeps, Weak
<1>4. TypeOK'
  BY <1>0, <1>1, <1>3 DEF TypeOK
<1>5. AllSteady' /\ IndexKept'
  BY <1>1, <1>2 DEF AllSteady, IndexKept, Keeps, Weak
<1>6. Waiting' /\ OverrunStep
  BY <1>1, <1>2 DEF Waiting, OverrunStep, Keeps, Aside
<1> QED BY <1>4, <1>5, <1>6

(* The next connect() of a stopped strategy. *)
LEMMA RestartWeak ==
    ASSUME WeakInv, Restart
    PROVE  WeakInv' /\ OverrunStep
<1> USE DEF WeakInv
<1>0. index \in Id /\ \A j \in Id : j \in Nat
  BY IdFacts
<1> DEFINE c == cl[index]
           e == Connect(c)
<1>1. Weak(c) /\ c.sock = "none"
  BY <1>0 DEF Restart, Alive, Weak, TypeOK, AllSteady
<1>2. /\ cl' = [cl EXCEPT ![index] = e] /\ index' = index /\ active' = active /\ running' = TRUE
      /\ n' = n /\ good' = good /\ healthy' = healthy /\ Id' = Id
  BY DEF Restart, world, Id
<1> HIDE DEF c
<1>3. Weak(e) /\ e.sock = "none"
  BY <1>1, ConnectKeeps
<1> HIDE DEF e
<1>4. /\ cl' \in [Id -> ClientRecord] /\ cl'[index] = e
      /\ \A j \in Id : j # index => cl'[j] = cl[j]
  BY <1>0, <1>2, <1>3 DEF TypeOK, Weak
<1>5. TypeOK' /\ AllSteady' /\ IndexKept'
  BY <1>2, <1>3, <1>4 DEF TypeOK, AllSteady, IndexKept, Weak
<1>6. Waiting'
  BY <1>0, <1>2, <1>4 DEF Waiting
<1>7. OverrunStep
  BY <1>0, <1>3, <1>4 DEF OverrunStep, Doubled
<1> QED BY <1>5, <1>6, <1>7

(* Every step keeps the invariant and overruns dropped clients only. *)
LEMMA NextWeak ==
    ASSUME WeakInv, [Next]_vars
    PROVE  WeakInv' /\ OverrunStep
<1>1. ASSUME ~Overrun, NEW i \in Id, Works(i) \/ Fails(i) PROVE WeakInv' /\ OverrunStep
  <2> DEFINE c == cl[i]
  <2>0. Weak(c) /\ (c.dns => c.sock # "open")
    BY <1>1 DEF WeakInv, TypeOK, AllSteady, Weak, Overrun
  <2>1. CASE LoginAccepted(i)
    BY <2>1, LoginAcceptedWeak
  <2>2. CASE Closed(i)
    <3>1. /\ c.sock = "closing" /\ UNCHANGED <<running, world>>
          /\ OnClose(i, [cl EXCEPT ![i] = OnClosed(c)])
      BY <2>2 DEF Closed
    <3>2. Keeps(cl[i], OnClosed(c))
      <4>1. c = cl[i]
        OBVIOUS
      <4> HIDE DEF c
      <4>2. Keeps(c, OnClosed(c))
        BY <2>0, <3>1, ClosedKeeps
      <4> QED BY <4>1, <4>2
    <3> QED BY <3>1, <3>2, EndedWeak
  <2>3. CASE ResolveError(i)
    <3>1. /\ c.dns /\ UNCHANGED <<running, world>>
          /\ OnClose(i, [cl EXCEPT ![i] = OnResolveError(c)])
      BY <2>3 DEF ResolveError
    <3>2. Keeps(cl[i], OnResolveError(c))
      <4>1. c = cl[i]
        OBVIOUS
      <4> HIDE DEF c
      <4>2. Keeps(c, OnResolveError(c))
        BY <2>0, <3>1, ResolvedKeeps
      <4> QED BY <4>1, <4>2
    <3> QED BY <3>1, <3>2, EndedWeak
  <2>4. CASE OwnStep(i)
    <3>1. \E d \in ClientRecord : Keeps(c, d) /\ Own(i, d)
      <4>1. \/ c.dns /\ Own(i, OnResolved(c))
            \/ c.sock = "open" /\ (\/ Own(i, OnConnected(c)) \/ Own(i, Login(c))
                                   \/ Own(i, Close(c)) \/ Own(i, OnLoginRefused(c))
                                   \/ \E x \in BOOLEAN : Own(i, Died(c, x)))
        BY <2>4 DEF OwnStep, Resolved, Connected, ConnectError, TlsReady, TlsError,
                    LoginRefused, LinkFailed
      <4> HIDE DEF c
      <4>2. CASE c.dns /\ Own(i, OnResolved(c))
        BY <2>0, <4>2, ResolvedKeeps DEF Keeps, Weak
      <4>3. CASE c.sock = "open" /\ (Own(i, OnConnected(c)) \/ Own(i, Login(c))
                                      \/ Own(i, OnLoginRefused(c)))
        BY <2>0, <4>3, SessionKeeps DEF Keeps, Weak
      <4>4. CASE Own(i, Close(c))
        BY <2>0, <4>4, CloseKeeps DEF Keeps, Weak
      <4>5. CASE \E x \in BOOLEAN : Own(i, Died(c, x))
        <5>1. PICK x \in BOOLEAN : Own(i, Died(c, x))
          BY <4>5
        <5>2. Keeps(c, Died(c, x))
          BY <2>0, DiedKeeps
        <5> QED BY <5>1, <5>2 DEF Keeps, Weak
      <4> QED BY <4>1, <4>2, <4>3, <4>4, <4>5
    <3>2. PICK d \in ClientRecord : Keeps(cl[i], d) /\ Own(i, d)
      BY <3>1
    <3> QED BY <3>2, OwnWeak
  <2> QED BY <1>1, <2>1, <2>2, <2>3, <2>4 DEF Works, Fails, OwnStep
<1>2. ASSUME ~Overrun, NEW due \in [Id -> Due], Tick(due) PROVE WeakInv' /\ OverrunStep
  BY <1>2, TickWeak
<1>3. CASE Stop
  BY <1>3, StopWeak
<1>4. CASE Restart
  BY <1>4, RestartWeak
<1>5. CASE Heal \/ UNCHANGED vars
  <2>1. UNCHANGED <<n, cl, index, active, running, good>> /\ healthy' \in {healthy, good}
    BY <1>5 DEF Heal, vars, world
  <2>2. Id' = Id /\ TypeOK'
    BY <2>1 DEF WeakInv, TypeOK, Id
  <2> QED BY <2>1, <2>2 DEF WeakInv, AllSteady, IndexKept, Waiting, OverrunStep
<1> QED BY <1>1, <1>2, <1>3, <1>4, <1>5 DEF Next, Beyond

(* The invariant holds at the start. *)
LEMMA InitWeak == Init => WeakInv
  BY InitInv DEF Inv, WeakInv, IndexInUse, IndexKept, AllSteady, AllSound, Sound, InStep, Steady

-----------------------------------------------------------------------------
(* The inductive invariant holds of every list of pools. *)
THEOREM Invariant == ASSUME Orderly PROVE Spec => []Inv
<1>1. Init => Inv
  BY InitInv
<1>2. Inv /\ [Next]_vars => Inv'
  BY NextInv
<1> QED BY <1>1, <1>2, PTL DEF Spec

(* ... and the weaker one whenever links fail and deadlines end. *)
THEOREM WeakInvariant == Spec => []WeakInv
<1>1. Init => WeakInv
  BY InitWeak
<1>2. WeakInv /\ [Next]_vars => WeakInv'
  BY NextWeak
<1> QED BY <1>1, <1>2, PTL DEF Spec

(* Type correctness. *)
THEOREM TypeCorrect == Spec => []TypeOK
<1>1. WeakInv => TypeOK
  BY DEF WeakInv
<1> QED BY <1>1, WeakInvariant, PTL

(* Client::tick(), FailoverStrategy::onClose() and connect(): only the     *)
(* failover to a dropped client starts a lookup over a socket, for lists   *)
(* of any length and whenever links fail and deadlines end.                *)
THEOREM OnlyDroppedAreOverrun == Spec => OnlyDroppedOverrun
<1>1. WeakInv /\ [Next]_vars =>
        [\A i \in Id : LosesSocket(i)' /\ ~LosesSocket(i) =>
            cl[i].failures = -1 /\ index' = i /\ index = i - 1]_vars
  BY NextWeak DEF OverrunStep, Doubled, LosesSocket
<1> QED BY <1>1, WeakInvariant, PTL DEF Spec, OnlyDroppedOverrun

(* FailoverStrategy::onLoginSuccess() and onClose(): a session that is     *)
(* logged in is the one in use, and the strategy is never active without.  *)
THEOREM SessionsAreUsed == ASSUME Orderly PROVE Spec => []SessionInUse
<1>1. Inv => SessionInUse
  BY DEF Inv
<1> QED BY <1>1, Invariant, PTL

(* Client::login() never sends the credentials of a TLS pool in the clear. *)
THEOREM LoginsAreSecret == ASSUME Orderly PROVE Spec => []NeverInTheClear
<1>1. Inv => NeverInTheClear
  BY DEF Inv, AllSound, Sound, InStep, NeverInTheClear
<1> QED BY <1>1, Invariant, PTL

(* The strategies with their clients implement PoolLink. *)
THEOREM Refinement == ASSUME Orderly PROVE Spec => KeepsPromises
<1>1. Init => IF Single THEN One!Init ELSE Many!Init
  BY InitLink
<1>2. Inv /\ [Next]_vars => [IF Single THEN One!Next ELSE Many!Next]_LinkView
  BY NextLink DEF LinkStep
<1> QED BY <1>1, <1>2, Invariant, PTL DEF Spec, KeepsPromises
=============================================================================

------------------------------- MODULE Client -------------------------------
(***************************************************************************)
(* One stratum connection (base/net/stratum/Client.cpp) as a record and    *)
(* the handlers of Client as functions from records to records; the        *)
(* strategies compose several of them (Strategy.tla).                      *)
(*                                                                         *)
(* Kept: the socket state, the name lookup and the socket with their       *)
(* asynchronous callbacks, the progress of the session on the socket, the  *)
(* failure counter with its special value -1, the deadline m_expire as     *)
(* armed or not (an armed deadline may fire at any tick), the renewal on   *)
(* purpose.  Left out: what is in the messages, SOCKS5, the ping deadline  *)
(* m_keepAlive (a ping only sends), and the leaving of the old socket open *)
(* on client.reconnect.                                                    *)
(***************************************************************************)
EXTENDS Integers

CONSTANTS
    FailCap,    \* failures are counted up to here; only "< retries" is asked
    PoolTls,    \* m_pool.isTLS()
    Pingable,   \* pingable(): a silent link is declared dead
    RefusalCloses   \* Epic and Hacash: close() when the login is refused

ASSUME ClientAssumption ==
    FailCap \in Nat \ {0} /\ PoolTls \in BOOLEAN /\ Pingable \in BOOLEAN
    /\ RefusalCloses \in BOOLEAN

SocketState == {"Unconnected", "HostLookup", "Connecting", "Connected",
                "Closing", "Reconnecting"}

(* The session on the open socket: handshake under way, login sent, login  *)
(* refused with the connection left open, logged in.                       *)
SessionPhase == {"none", "tls", "login", "refused", "up"}

ClientRecord ==
    [ st       : SocketState,                   \* m_state
      dns      : BOOLEAN,                       \* m_dns: the lookup owes a callback
      sock     : {"none", "open", "closing",    \* m_socket; closing: uv_close was called
                  "lost"},                      \* a second one over one that is left
      phase    : SessionPhase,
      failures : -1 .. FailCap,                 \* m_failures
      armed    : BOOLEAN,                       \* m_expire # 0
      planned  : BOOLEAN,                       \* m_planned
      rotate   : BOOLEAN,                       \* m_rotate # 0
      tls      : BOOLEAN,                       \* m_tls # nullptr
      plain    : BOOLEAN ]                      \* a login was sent without TLS

NewClient ==
    [ st |-> "Unconnected", dns |-> FALSE, sock |-> "none", phase |-> "none",
      failures |-> 0, armed |-> FALSE, planned |-> FALSE, rotate |-> FALSE,
      tls |-> FALSE, plain |-> FALSE ]

(* setState() with the deadlines it sets. *)
SetState(c, s) ==
    IF c.st = s THEN c
    ELSE [c EXCEPT !.st = s,
                   !.armed = CASE s = "HostLookup" -> FALSE
                               [] s \in {"Connecting", "Reconnecting"} -> TRUE
                               [] OTHER -> @,
                   !.planned = s # "Connected" /\ @]

(* close(): nothing to do, or uv_close with its callback to come. *)
Close(c) ==
    IF c.st \in {"Closing", "Unconnected"} \/ c.sock = "none" THEN c
    ELSE [SetState(c, "Closing") EXCEPT !.sock = "closing", !.phase = "none"]

(* disconnect(): a lookup under way is not cancelled. *)
Disconnect(c) == Close([c EXCEPT !.armed = FALSE, !.failures = -1])

(* Mutant of Connect: the TLS session is made for the first connection.    *)
Connect_TlsOnce(c) ==
    [SetState(c, "HostLookup") EXCEPT !.failures = IF @ = -1 THEN 0 ELSE @,
                                      !.dns = TRUE,
                                      !.tls = @ \/ (PoolTls /\ c.st = "Unconnected")]

(* connect() and resolve(). *)
Connect(c) ==
    [SetState(c, "HostLookup") EXCEPT !.failures = IF @ = -1 THEN 0 ELSE @,
                                      !.dns = TRUE, !.tls = PoolTls \/ @]

(* m_failures++. *)
Again(n) == IF n < FailCap THEN n + 1 ELSE FailCap

(* reconnect(): a client that was disconnected stays where it is. *)
Reconnect(c) ==
    IF c.failures = -1 THEN c
    ELSE [SetState(c, "Reconnecting") EXCEPT
            !.armed = TRUE, !.planned = FALSE,
            !.failures = IF c.planned THEN @ ELSE Again(@)]

-----------------------------------------------------------------------------
(* Callbacks of the event loop. *)

(* onResolved(): connect(addr), or reconnect() when the lookup failed. *)
OnResolved(c) ==
    [SetState([c EXCEPT !.dns = FALSE], "Connecting") EXCEPT
        !.sock = IF @ = "none" THEN "open" ELSE "lost"]

OnResolveError(c) == Reconnect([c EXCEPT !.dns = FALSE])

(* login(): send() arms m_expire and startTimeout() clears it again. *)
Login(c) == [c EXCEPT !.phase = "login", !.armed = FALSE, !.plain = @ \/ ~c.tls]

(* onConnect(): handshake(), which logs in at once without TLS. *)
OnConnected(c) ==
    LET d == SetState(c, "Connected")
    IN  IF PoolTls /\ d.tls THEN [d EXCEPT !.phase = "tls", !.armed = TRUE] ELSE Login(d)

(* onClose(): the socket is deleted and reconnect() runs. *)
OnClosed(c) ==
    Reconnect([SetState(c, "Unconnected") EXCEPT !.sock = "none", !.tls = FALSE])

(* parseResponse(), answer to the login: accepted, refused, or refused     *)
(* with a message that is_critical (or on the pool with id 1).             *)
OnLoginAccepted(c) == [c EXCEPT !.phase = "up", !.failures = 0]

OnLoginRefused(c) == [c EXCEPT !.phase = "refused"]

(* epicWatch(): the time for a renewal on purpose has come. *)
Renew(c) == Close([c EXCEPT !.planned = TRUE])

(* epicLearn(): a connection that died on its own may set m_rotate. *)
Died(c, learned) == Close([c EXCEPT !.rotate = @ \/ learned])

-----------------------------------------------------------------------------
(* Logged in over a socket that is open. *)
Up(c) == c.phase = "up" /\ c.sock = "open"

(* Something will still happen to this client without anyone calling it.   *)
Alive(c) == \/ c.dns \/ c.sock # "none"
            \/ c.st = "Reconnecting" /\ c.armed
=============================================================================

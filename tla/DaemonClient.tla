---------------------------- MODULE DaemonClient ----------------------------
(***************************************************************************)
(* Solo mining against a node (base/net/stratum/DaemonClient.cpp): the     *)
(* client polls the node for its height, or is told of a new block by ZMQ, *)
(* and asks for a block template when its job is outdated.                 *)
(*                                                                         *)
(* Every request has an HTTP connection of its own: answers come in any    *)
(* order, with the chain as it was when the node served them.  A tip of    *)
(* the chain stands for height and hash.  Left out: the older API of       *)
(* Cryptonote nodes, whose /getinfo is handled as /getheight is, and what  *)
(* is in a template.                                                       *)
(***************************************************************************)
EXTENDS Integers, Bags

CONSTANTS
    MaxTip,     \* bound on the blocks of the chain
    MaxHttp     \* bound on the requests under way

ASSUME DaemonAssumption == MaxTip \in Nat \ {0} /\ MaxHttp \in Nat \ {0}

VARIABLES
    zmq,        \* the pool has a ZMQ port
    st,         \* m_state
    timer,      \* m_timer: off, once after a failure, or repeated
    job,        \* the tip of the job, 0: none
    prev,       \* m_prevHash, 0: null
    req,        \* the template asked for last, 0: none
    expired,    \* the job is older than its timeout
    http,       \* requests under way
    z,          \* the ZMQ connection
    wanted,     \* between connect() and disconnect() of the owner
    tip,        \* of the node
    healthy     \* not the program: the node does not fail any more

node == <<tip, healthy>>
vars == <<zmq, st, timer, job, prev, req, expired, http, z, wanted, node>>

Tip     == 1 .. MaxTip
Kind    == {"height", "template", "submit"}
Request == [kind : Kind, at : 0 .. MaxTip]      \* at: when it was served, 0: not yet

TypeOK ==
    /\ zmq \in BOOLEAN /\ wanted \in BOOLEAN /\ expired \in BOOLEAN /\ healthy \in BOOLEAN
    /\ st \in {"Unconnected", "Connecting", "Connected"}
    /\ timer \in {"off", "once", "repeat"}
    /\ job \in 0 .. tip /\ prev \in 0 .. tip /\ req \in 0 .. tip
    /\ IsABag(http) /\ BagToSet(http) \subseteq Request
    /\ z \in {"none", "lookup", "connecting", "handshake", "connected", "closing"}
    /\ tip \in Tip

(* Requests b after one of kind k was sent. *)
Sent(b, k) == b (+) SetToBag({[kind |-> k, at |-> 0]})

Taken(r) == http (-) SetToBag({r})

Room == BagCardinality(http) < MaxHttp

Init ==
    /\ zmq \in BOOLEAN
    /\ st = "Connecting" /\ wanted = TRUE
    /\ timer = "off" /\ job = 0 /\ prev = 0 /\ req = 0 /\ expired = TRUE
    /\ http = IF zmq THEN EmptyBag ELSE Sent(EmptyBag, "template")
    /\ z = IF zmq THEN "lookup" ELSE "none"
    /\ tip = 1 /\ healthy = FALSE

-----------------------------------------------------------------------------
(* retry(), after it told the owner.  Mutant: no new timer. *)
Retry_NoTimer ==
    /\ st' = IF st = "Connected" THEN "Connecting" ELSE st
    /\ timer' = "off"
    /\ z' = IF z \in {"handshake", "connected"} THEN "closing" ELSE z

Retry ==
    /\ st' = IF st = "Connected" THEN "Connecting" ELSE st
    /\ timer' = "once"
    /\ z' = IF z \in {"handshake", "connected"} THEN "closing" ELSE z

JobKept == UNCHANGED <<job, prev, req, expired>>

Rest == UNCHANGED <<zmq, wanted, node>>

(* Assumed: the socket of ZMQ that retry() closes is gone before the next  *)
(* request fails; retry() would close it again, see README.                *)
Failed(r) ==
    /\ ~healthy /\ BagIn(r, http) /\ z # "closing"
    /\ http' = Taken(r)
    /\ Retry
    /\ JobKept /\ Rest

(* HttpClient::onResolved: no callback when the name does not resolve, and *)
(* a request to a node has no timeout.                                     *)
LookupFailed(k) ==
    LET r == [kind |-> k, at |-> 0]
    IN  /\ ~healthy /\ BagIn(r, http)
        /\ http' = Taken(r)
        /\ UNCHANGED <<st, timer, z>> /\ JobKept /\ Rest

-----------------------------------------------------------------------------
(* onHttpData() *)

isOutdated(t) == job # t \/ prev # t \/ expired

(* "Multiple /getheight responses can come at once". *)
HeightAnswered(r) ==
    LET asks == isOutdated(r.at) /\ req # r.at
    IN  /\ r.kind = "height" /\ r.at # 0 /\ BagIn(r, http)
        /\ req' = IF asks THEN r.at ELSE req
        /\ http' = IF asks THEN Sent(Taken(r), "template") ELSE Taken(r)
        /\ UNCHANGED <<st, timer, z, job, prev, expired>> /\ Rest

(* Mutant of Connects: the timer is left as it is. *)
Connects_NoTimer ==
    /\ st' = IF st = "Connecting" THEN "Connected" ELSE st
    /\ UNCHANGED timer

(* setState(ConnectedState), for a client that is connecting. *)
Connects ==
    /\ st' = IF st = "Connecting" THEN "Connected" ELSE st
    /\ timer' = IF st = "Connecting" THEN "repeat" ELSE timer

(* parseJob() *)
TemplateAnswered(r) ==
    /\ r.kind = "template" /\ r.at # 0 /\ BagIn(r, http)
    /\ http' = Taken(r)
    /\ job' = r.at /\ prev' = r.at /\ expired' = FALSE
    /\ Connects
    /\ UNCHANGED <<req, z>> /\ Rest

(* handleSubmitResponse(); a refused block is a failure as any other. *)
SubmitAnswered(r) ==
    /\ r.kind = "submit" /\ r.at # 0 /\ BagIn(r, http)
    /\ http' = IF zmq THEN Taken(r) ELSE Sent(Taken(r), "template")
    /\ UNCHANGED <<st, timer, z>> /\ JobKept /\ Rest

(* submit(): a block of the current job was found, by a thread that may    *)
(* not have heard of a failure yet.                                        *)
Submit ==
    /\ job # 0 /\ wanted /\ Room
    /\ http' = Sent(http, "submit")
    /\ UNCHANGED <<st, timer, z>> /\ JobKept /\ Rest

-----------------------------------------------------------------------------
(* m_prevHash and m_blocktemplateRequestHash are dropped. *)
Forgets(now) == IF now THEN prev' = 0 /\ req' = 0 ELSE UNCHANGED <<prev, req>>

(* What onTimer() sends. *)
Asks ==
    CASE zmq \/ st = "Connected" -> Sent(http, "height")
      [] ~zmq /\ st = "Connecting" -> Sent(http, "template")
      [] OTHER -> http

(* Mutant of OnTimer: an old job does not make a template asked for anew. *)
OnTimer_NoTimeout ==
    /\ timer # "off" /\ Room
    /\ timer' = IF timer = "once" THEN "off" ELSE timer
    /\ Forgets(zmq)
    /\ http' = Asks
    /\ UNCHANGED <<st, z, job, expired>> /\ Rest

OnTimer ==
    /\ timer # "off" /\ Room
    /\ timer' = IF timer = "once" THEN "off" ELSE timer
    /\ Forgets(zmq \/ expired)
    /\ http' = Asks
    /\ UNCHANGED <<st, z, job, expired>> /\ Rest

(* The job gets older than its timeout. *)
Ages ==
    /\ ~expired /\ expired' = TRUE
    /\ UNCHANGED <<st, timer, z, job, prev, req, http>> /\ Rest

(* Mutant of Disconnect: the timer is left as it is. *)
Disconnect_Timer ==
    /\ wanted /\ ~zmq /\ wanted' = FALSE
    /\ st' = "Unconnected"
    /\ UNCHANGED <<zmq, z, timer, http, node>> /\ JobKept

(* disconnect() and a later connect().  Assumed: a node with a ZMQ port is *)
(* the only pool, so nobody disconnects it, see README.                    *)
Disconnect ==
    /\ wanted /\ ~zmq /\ wanted' = FALSE
    /\ st' = "Unconnected" /\ timer' = "off"
    /\ UNCHANGED <<zmq, z, http, node>> /\ JobKept

Connect ==
    /\ ~wanted /\ Room /\ wanted' = TRUE
    /\ st' = "Connecting" /\ http' = Sent(http, "template")
    /\ UNCHANGED <<zmq, z, timer, node>> /\ JobKept

-----------------------------------------------------------------------------
(* The ZMQ connection. *)
ZGoes(from, to) == z = from /\ z' = to /\ UNCHANGED <<st, timer>> /\ JobKept /\ Rest

ZResolved  == ZGoes("lookup", "connecting") /\ UNCHANGED http
ZConnected == ZGoes("connecting", "handshake") /\ UNCHANGED http
ZClosed    == ZGoes("closing", "none") /\ UNCHANGED http

(* The subscription is sent: the first template. *)
ZReady == Room /\ ZGoes("handshake", "connected") /\ http' = Sent(http, "template")

(* A failed lookup or connect only retries; a broken link is closed first. *)
ZFailed ==
    /\ ~healthy /\ z \in {"lookup", "connecting", "handshake", "connected"}
    /\ st' = IF st = "Connected" THEN "Connecting" ELSE st
    /\ timer' = "once"
    /\ z' = IF z \in {"lookup", "connecting"} THEN "none" ELSE "closing"
    /\ UNCHANGED http /\ JobKept /\ Rest

(* ZMQParse(): a new block. *)
ZNotified ==
    /\ z = "connected" /\ Room
    /\ Forgets(TRUE)
    /\ http' = Sent(http, "height")
    /\ timer' = "repeat"
    /\ UNCHANGED <<st, z, job, expired>> /\ Rest

-----------------------------------------------------------------------------
(* The node: a block is found, a request is served; its outage ends.       *)
NewBlock ==
    /\ tip < MaxTip /\ tip' = tip + 1
    /\ UNCHANGED <<zmq, st, timer, http, z, wanted, healthy>> /\ JobKept

Served(k) ==
    LET r == [kind |-> k, at |-> 0]
    IN  /\ BagIn(r, http)
        /\ http' = Taken(r) (+) SetToBag({[r EXCEPT !.at = tip]})
        /\ UNCHANGED <<st, timer, z>> /\ JobKept /\ Rest

Heal ==
    /\ ~healthy /\ healthy' = TRUE
    /\ UNCHANGED <<zmq, st, timer, http, z, wanted, tip>> /\ JobKept

Answered(r) == HeightAnswered(r) \/ TemplateAnswered(r) \/ SubmitAnswered(r)

ZWorks == ZResolved \/ ZConnected \/ ZReady

Next ==
    \/ \E r \in Request : Answered(r) \/ Failed(r)
    \/ \E k \in Kind : Served(k) \/ LookupFailed(k)
    \/ Submit \/ OnTimer \/ Ages
    \/ Disconnect \/ Connect
    \/ ZWorks \/ ZClosed \/ ZFailed \/ ZNotified
    \/ NewBlock \/ Heal

Spec == Init /\ [][Next]_vars

(* Timers fire, time passes, a node that works serves and answers each     *)
(* request, connections come about or fail.  Strong fairness only because  *)
(* Room, a bound of the model, may hold a timer up.                        *)
FairSpec ==
    /\ Spec
    /\ SF_vars(OnTimer) /\ WF_vars(Ages) /\ WF_vars(Heal)
    /\ SF_vars(ZWorks) /\ WF_vars(ZClosed)
    /\ \A k \in Kind : WF_vars(Served(k))
    /\ \A r \in Request : WF_vars(Answered(r))

-----------------------------------------------------------------------------
(* A client that is wanted has something under way that makes it ask for a *)
(* template again or report a failure: a timer, the ZMQ connection, a      *)
(* request for a template, or one for the height that must lead to one.    *)
Going ==
    wanted => \/ timer # "off"
              \/ z \in {"lookup", "connecting", "handshake"}
              \/ \E r \in BagToSet(http) :
                    r.kind = "template" \/ (r.kind = "height" /\ prev = 0 /\ req = 0)

(* "number of times to retry before switch to backup server": a client     *)
(* that is wanted goes on trying whatever fails, is answered late or is    *)
(* repeated (DaemonClient::retry, onTimer, onHttpData).  The one exception *)
(* is a name that does not resolve while no timer runs, at the first       *)
(* connect for instance: nothing tells the client of it, and it waits for  *)
(* ever without a retry or a switch to the backup.                         *)
NeverStuck ==
    Going /\ [][Going => Going' \/ \E k \in Kind : LookupFailed(k)]_vars

(* The miner ends up on the tip of the chain: an old template that comes   *)
(* after a newer one, a request that is not repeated because it was made   *)
(* already, and a node that failed do not keep it on a stale job.  The     *)
(* exception is the client that a failed lookup left waiting for ever.     *)
FollowsChain ==
    <>[]wanted => <>[](job = tip /\ st = "Connected") \/ <>[]~Going

(* A client that was disconnected comes to rest, though answers and        *)
(* failures that come later start requests and timers once more.           *)
ComesToRest == <>[](~wanted) => <>[](http = EmptyBag /\ timer = "off")
=============================================================================

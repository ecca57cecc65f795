---------------------------- MODULE DaemonProofs ----------------------------
(***************************************************************************)
(* The solo mining client goes on trying, for any number of blocks and any *)
(* number of requests under way, unless a lookup fails while no timer runs *)
(***************************************************************************)
EXTENDS DaemonClient, TLAPS

(* Of the requests b, those of kind k. *)
Has(b, k) == \E r \in BagToSet(b) : r.kind = k

(* A request is served at a block the chain has. *)
ServedInTime == \A r \in BagToSet(http) : r.at <= tip

(* Who is wanted is not unconnected; nobody disconnects a ZMQ node. *)
WantedInStep == (wanted <=> st # "Unconnected") /\ (zmq => wanted)

(* A connected client looks at the chain for ever. *)
ConnectedPolls == st = "Connected" => timer = "repeat"

Early == {"lookup", "connecting", "handshake"}

(* Going, in the terms of the lemmas below: without a timer there is       *)
(* something under way that ends in a template.                            *)
HasCause ==
    wanted /\ timer = "off" /\ z \notin Early =>
       Has(http, "template") \/ (prev = 0 /\ req = 0 /\ Has(http, "height"))

Inv == TypeOK /\ ServedInTime /\ WantedInStep /\ ConnectedPolls

(* Going is what HasCause says. *)
LEMMA GoingIsCause == (Going <=> HasCause) /\ (Going' <=> HasCause')
  BY DEF Going, HasCause, Has, Early

-----------------------------------------------------------------------------
(* A request more. *)
LEMMA SentBag ==
    ASSUME NEW STATE b, NEW CONSTANT k, IsABag(b)
    PROVE  /\ IsABag(Sent(b, k))
           /\ BagToSet(Sent(b, k)) = BagToSet(b) \cup {[kind |-> k, at |-> 0]}
<1> DEFINE x == [kind |-> k, at |-> 0]
           c == SetToBag({x})
<1>1. c = [e \in {x} |-> 1] /\ DOMAIN c = {x}
  BY DEF SetToBag
<1>2. Sent(b, k) = b (+) c
  BY DEF Sent
<1> HIDE DEF x, c
<1>3. b \in [DOMAIN b -> {n \in Nat : n > 0}]
  BY DEF IsABag
<1>4. b (+) c = [e \in (DOMAIN b) \cup (DOMAIN c) |->
                   (IF e \in DOMAIN b THEN b[e] ELSE 0) + (IF e \in DOMAIN c THEN c[e] ELSE 0)]
  BY DEF (+)
<1>5. b (+) c \in [DOMAIN b \cup {x} -> {n \in Nat : n > 0}]
  BY <1>1, <1>3, <1>4
<1>6. DOMAIN (b (+) c) = DOMAIN b \cup {x}
  BY <1>5
<1> QED BY <1>2, <1>5, <1>6 DEF IsABag, BagToSet, x

(* A request less. *)
LEMMA TakenBag ==
    ASSUME NEW CONSTANT r, IsABag(http), BagIn(r, http)
    PROVE  /\ IsABag(Taken(r))
           /\ BagToSet(Taken(r)) \subseteq BagToSet(http)
           /\ BagToSet(http) \ {r} \subseteq BagToSet(Taken(r))
<1> DEFINE c == SetToBag({r})
           B == [e \in DOMAIN http |-> IF e \in DOMAIN c THEN http[e] - c[e] ELSE http[e]]
<1>1. c = [e \in {r} |-> 1] /\ DOMAIN c = {r}
  BY DEF SetToBag
<1>2. http \in [DOMAIN http -> {n \in Nat : n > 0}]
  BY DEF IsABag
<1>3. Taken(r) = [e \in {d \in DOMAIN B : B[d] > 0} |-> B[e]]
  BY DEF Taken, (-)
<1> HIDE DEF c
<1>4. /\ DOMAIN B = DOMAIN http
      /\ \A e \in DOMAIN http : B[e] \in Int
      /\ \A e \in DOMAIN http \ {r} : B[e] = http[e]
  BY <1>1, <1>2
<1> HIDE DEF B
<1>5. Taken(r) \in [{d \in DOMAIN B : B[d] > 0} -> {n \in Nat : n > 0}]
  BY <1>3, <1>4
<1>6. DOMAIN Taken(r) = {d \in DOMAIN B : B[d] > 0}
  BY <1>5
<1> QED BY <1>2, <1>4, <1>5, <1>6 DEF IsABag, BagToSet

(* A request is replaced by its answer. *)
LEMMA ServedBag ==
    ASSUME NEW CONSTANT r, NEW STATE s, IsABag(http), BagIn(r, http)
    PROVE  LET b == Taken(r) (+) SetToBag({s})
           IN  /\ IsABag(b)
               /\ BagToSet(b) \subseteq BagToSet(http) \cup {s}
               /\ (BagToSet(http) \ {r}) \cup {s} \subseteq BagToSet(b)
<1> DEFINE a == Taken(r)
           c == SetToBag({s})
<1>0. /\ IsABag(a) /\ BagToSet(a) \subseteq BagToSet(http)
      /\ BagToSet(http) \ {r} \subseteq BagToSet(a)
  BY TakenBag
<1>1. c = [e \in {s} |-> 1] /\ DOMAIN c = {s}
  BY DEF SetToBag
<1> HIDE DEF a, c
<1>3. a \in [DOMAIN a -> {n \in Nat : n > 0}]
  BY <1>0 DEF IsABag
<1>4. a (+) c = [e \in (DOMAIN a) \cup (DOMAIN c) |->
                   (IF e \in DOMAIN a THEN a[e] ELSE 0) + (IF e \in DOMAIN c THEN c[e] ELSE 0)]
  BY DEF (+)
<1>5. a (+) c \in [DOMAIN a \cup {s} -> {n \in Nat : n > 0}]
  BY <1>1, <1>3, <1>4
<1>6. DOMAIN (a (+) c) = DOMAIN a \cup {s}
  BY <1>5
<1>7. IsABag(a (+) c) /\ BagToSet(a (+) c) = BagToSet(a) \cup {s}
  BY <1>5, <1>6 DEF IsABag, BagToSet
<1> QED BY <1>0, <1>7 DEF a, c

-----------------------------------------------------------------------------
(* A step that leaves the requests alone or adds one of kind k. *)
LEMMA Sends ==
    ASSUME Inv, NEW CONSTANT k \in Kind
    PROVE  LET b == Sent(http, k)
           IN  /\ IsABag(b) /\ BagToSet(b) \subseteq Request
               /\ \A r \in BagToSet(b) : r.at <= tip
               /\ BagToSet(http) \subseteq BagToSet(b)
               /\ Has(b, k)
<1> DEFINE x == [kind |-> k, at |-> 0]
<1>1. /\ IsABag(Sent(http, k))
      /\ BagToSet(Sent(http, k)) = BagToSet(http) \cup {x}
  BY SentBag DEF Inv, TypeOK
<1>2. x \in Request /\ x.at <= tip /\ x.kind = k
  BY DaemonAssumption DEF Inv, TypeOK, Request, Tip
<1> HIDE DEF x
<1> QED BY <1>1, <1>2 DEF Inv, TypeOK, ServedInTime, Has

(* A step that takes request r and may send one of kind k. *)
LEMMA TakesOne ==
    ASSUME Inv, NEW CONSTANT r, BagIn(r, http), NEW CONSTANT k \in Kind
    PROVE  LET a == Taken(r)
               b == Sent(Taken(r), k)
           IN  /\ IsABag(a) /\ BagToSet(a) \subseteq Request
               /\ \A s \in BagToSet(a) : s.at <= tip
               /\ BagToSet(http) \ {r} \subseteq BagToSet(a)
               /\ IsABag(b) /\ BagToSet(b) \subseteq Request
               /\ \A s \in BagToSet(b) : s.at <= tip
               /\ BagToSet(http) \ {r} \subseteq BagToSet(b)
               /\ Has(b, k)
<1> DEFINE x == [kind |-> k, at |-> 0]
           a == Taken(r)
<1>1. /\ IsABag(a) /\ BagToSet(a) \subseteq BagToSet(http)
      /\ BagToSet(http) \ {r} \subseteq BagToSet(a)
  BY TakenBag DEF Inv, TypeOK
<1> HIDE DEF a
<1>2. /\ IsABag(Sent(a, k))
      /\ BagToSet(Sent(a, k)) = BagToSet(a) \cup {x}
  BY <1>1, SentBag
<1>3. x \in Request /\ x.at <= tip /\ x.kind = k
  BY DaemonAssumption DEF Inv, TypeOK, Request, Tip
<1> HIDE DEF x
<1>4. /\ BagToSet(http) \subseteq Request
      /\ \A s \in BagToSet(http) : s.at <= tip
  BY DEF Inv, TypeOK, ServedInTime
<1>5. /\ BagToSet(a) \subseteq Request
      /\ \A s \in BagToSet(a) : s.at <= tip
  BY <1>1, <1>4
<1>6. /\ BagToSet(Sent(a, k)) \subseteq Request
      /\ \A s \in BagToSet(Sent(a, k)) : s.at <= tip
      /\ BagToSet(http) \ {r} \subseteq BagToSet(Sent(a, k))
      /\ Has(Sent(a, k), k)
  BY <1>1, <1>2, <1>3, <1>5 DEF Has
<1> QED BY <1>1, <1>2, <1>5, <1>6 DEF a

-----------------------------------------------------------------------------
(* The requests under way are well formed. *)
HttpOK ==
    /\ IsABag(http) /\ BagToSet(http) \subseteq Request
    /\ \A r \in BagToSet(http) : r.at <= tip

(* The rest of the type invariant. *)
StateOK ==
    /\ zmq \in BOOLEAN /\ wanted \in BOOLEAN /\ expired \in BOOLEAN /\ healthy \in BOOLEAN
    /\ st \in {"Unconnected", "Connecting", "Connected"}
    /\ timer \in {"off", "once", "repeat"}
    /\ job \in 0 .. tip /\ prev \in 0 .. tip /\ req \in 0 .. tip
    /\ z \in {"none", "lookup", "connecting", "handshake", "connected", "closing"}
    /\ tip \in Tip

(* The invariant cut into the parts a step disturbs separately. *)
LEMMA InvParts ==
    /\ Inv <=> HttpOK /\ StateOK /\ WantedInStep /\ ConnectedPolls
    /\ Inv' <=> HttpOK' /\ StateOK' /\ WantedInStep' /\ ConnectedPolls'
  BY DEF Inv, TypeOK, ServedInTime, HttpOK, StateOK

(* It holds when the client first connects. *)
LEMMA InitInv == Init => Inv /\ HasCause
<1> SUFFICES ASSUME Init PROVE HttpOK /\ StateOK /\ WantedInStep /\ ConnectedPolls /\ HasCause
  BY InvParts
<1>1. IsABag(EmptyBag) /\ BagToSet(EmptyBag) = {}
  BY DEF IsABag, BagToSet, EmptyBag, SetToBag
<1>2. /\ IsABag(Sent(EmptyBag, "template"))
      /\ BagToSet(Sent(EmptyBag, "template")) = {[kind |-> "template", at |-> 0]}
  BY <1>1, SentBag
<1>3. [kind |-> "template", at |-> 0] \in Request
  BY DaemonAssumption DEF Request, Kind
<1>4. StateOK
  <2>1. tip \in Tip /\ job \in 0 .. tip /\ prev \in 0 .. tip /\ req \in 0 .. tip
    BY DaemonAssumption DEF Init, Tip
  <2>2. z = "lookup" \/ z = "none" BY Zenon DEF Init
  <2>3. /\ zmq \in BOOLEAN /\ wanted \in BOOLEAN /\ expired \in BOOLEAN /\ healthy \in BOOLEAN
        /\ st \in {"Unconnected", "Connecting", "Connected"}
        /\ timer \in {"off", "once", "repeat"}
    BY Zenon DEF Init
  <2> QED BY <2>1, <2>2, <2>3 DEF StateOK
<1>5. WantedInStep /\ ConnectedPolls
  BY DEF Init, WantedInStep, ConnectedPolls
<1>6. CASE zmq
  <2>1. http = EmptyBag /\ z = "lookup" BY <1>6 DEF Init
  <2>2. HttpOK BY <1>1, <2>1 DEF HttpOK
  <2>3. HasCause BY <2>1 DEF HasCause, Early
  <2> QED BY <1>4, <1>5, <2>2, <2>3
<1>7. CASE ~zmq
  <2>1. http = Sent(EmptyBag, "template") BY <1>7 DEF Init
  <2>2. HttpOK BY <1>2, <1>3, <2>1 DEF HttpOK, Init
  <2>3. [kind |-> "template", at |-> 0].kind = "template" OBVIOUS
  <2>4. [kind |-> "template", at |-> 0] \in BagToSet(http) BY <1>2, <2>1
  <2>5. Has(http, "template") BY <2>3, <2>4 DEF Has
  <2> QED BY <1>4, <1>5, <2>2, <2>5 DEF HasCause
<1> QED BY <1>6, <1>7

(* The callbacks of a request. *)
LEMMA AnswersInv ==
    ASSUME Inv, NEW CONSTANT r \in Request, Answered(r) \/ Failed(r)
    PROVE  Inv' /\ (HasCause => HasCause')
<1> SUFFICES HttpOK' /\ StateOK' /\ WantedInStep' /\ ConnectedPolls' /\ (HasCause => HasCause')
  BY InvParts
<1>0. HttpOK /\ StateOK /\ WantedInStep /\ ConnectedPolls
  BY InvParts
<1>1. BagIn(r, http)
  BY DEF Answered, HeightAnswered, TemplateAnswered, SubmitAnswered, Failed
<1> DEFINE a == Taken(r)
           b == Sent(Taken(r), "template")
<1>2. /\ IsABag(a) /\ BagToSet(a) \subseteq Request
      /\ \A s \in BagToSet(a) : s.at <= tip
      /\ BagToSet(http) \ {r} \subseteq BagToSet(a)
      /\ IsABag(b) /\ BagToSet(b) \subseteq Request
      /\ \A s \in BagToSet(b) : s.at <= tip
      /\ Has(b, "template")
  BY <1>1, TakesOne DEF Kind
<1>3. r.at \in 0 .. tip
  BY <1>0, <1>1 DEF HttpOK, StateOK, BagIn, Request, Tip
<1>4. (r.kind # "template" /\ Has(http, "template")) => Has(a, "template")
  BY <1>2 DEF Has
<1> HIDE DEF a, b
<1>5. CASE Failed(r)
  <2>1. http' = a /\ tip' = tip BY <1>5 DEF Failed, Rest, node, a
  <2>2. HttpOK' BY <1>2, <2>1 DEF HttpOK
  <2>3. st' = (IF st = "Connected" THEN "Connecting" ELSE st) /\ timer' = "once"
    BY <1>5 DEF Failed, Retry
  <2>4. UNCHANGED <<zmq, wanted, healthy, job, prev, req, expired>>
    BY <1>5 DEF Failed, JobKept, Rest, node
  <2>5. z' \in {z, "closing"} BY <1>5 DEF Failed, Retry
  <2>6. StateOK' BY <1>0, <2>1, <2>3, <2>4, <2>5 DEF StateOK
  <2>7. WantedInStep' BY <1>0, <2>3, <2>4 DEF StateOK, WantedInStep
  <2>8. ConnectedPolls' /\ HasCause'
    BY <1>0, <2>3 DEF StateOK, ConnectedPolls, HasCause
  <2> QED BY <2>2, <2>6, <2>7, <2>8
<1>6. CASE HeightAnswered(r)
  <2> DEFINE asks == isOutdated(r.at) /\ req # r.at
  <2>1. /\ r.kind = "height" /\ r.at # 0
        /\ req' = IF asks THEN r.at ELSE req
        /\ http' = IF asks THEN b ELSE a
    BY <1>6 DEF HeightAnswered, a, b
  <2>2. UNCHANGED <<st, timer, z, job, prev, expired, zmq, wanted, tip, healthy>>
    BY <1>6 DEF HeightAnswered, Rest, node
  <2>3. prev = 0 /\ req = 0 => asks
    BY <2>1 DEF isOutdated
  <2> HIDE DEF asks
  <2>4. http' = a \/ http' = b BY <2>1
  <2>5. HttpOK' BY <1>2, <2>2, <2>4 DEF HttpOK
  <2>6. StateOK'
    <3>1. req' \in 0 .. tip BY <1>0, <1>3, <2>1 DEF StateOK
    <3> QED BY <1>0, <2>2, <3>1 DEF StateOK
  <2>7. WantedInStep' /\ ConnectedPolls'
    BY <1>0, <2>2 DEF WantedInStep, ConnectedPolls
  <2>8. HasCause => HasCause'
    <3> SUFFICES ASSUME HasCause, wanted, timer = "off", z \notin Early PROVE Has(http', "template")
      BY <2>2 DEF HasCause, Has, Early
    <3>1. Has(http, "template") \/ asks BY <1>0, <2>3 DEF HasCause
    <3>2. CASE asks BY <1>2, <2>1, <3>2
    <3>3. CASE ~asks
      <4>1. http' = a BY <2>1, <3>3
      <4> QED BY <1>4, <2>1, <3>1, <3>3, <4>1
    <3> QED BY <3>2, <3>3
  <2> QED BY <2>5, <2>6, <2>7, <2>8
<1>7. CASE TemplateAnswered(r)
  <2>1. /\ http' = a /\ job' = r.at /\ prev' = r.at /\ expired' = FALSE
    BY <1>7 DEF TemplateAnswered, a
  <2>2. UNCHANGED <<req, z, zmq, wanted, tip, healthy>>
    BY <1>7 DEF TemplateAnswered, Rest, node
  <2>3. /\ st' = IF st = "Connecting" THEN "Connected" ELSE st
        /\ timer' = IF st = "Connecting" THEN "repeat" ELSE timer
    BY <1>7 DEF TemplateAnswered, Connects
  <2>4. HttpOK' BY <1>2, <2>1, <2>2 DEF HttpOK
  <2>5. StateOK' BY <1>0, <1>3, <2>1, <2>2, <2>3 DEF StateOK
  <2>6. WantedInStep' BY <1>0, <2>2, <2>3 DEF WantedInStep
  <2>7. ConnectedPolls' BY <1>0, <2>3 DEF ConnectedPolls
  <2>8. HasCause'
    <3>1. wanted => timer' = "repeat"
      BY <1>0, <2>3 DEF WantedInStep, ConnectedPolls, StateOK
    <3> QED BY <2>2, <3>1 DEF HasCause
  <2> QED BY <2>4, <2>5, <2>6, <2>7, <2>8
<1>8. CASE SubmitAnswered(r)
  <2>1. r.kind = "submit" /\ (http' = a \/ http' = b)
    BY <1>8 DEF SubmitAnswered, a, b
  <2>2. UNCHANGED <<st, timer, z, job, prev, req, expired, zmq, wanted, tip, healthy>>
    BY <1>8 DEF SubmitAnswered, JobKept, Rest, node
  <2>3. HttpOK' BY <1>2, <2>1, <2>2 DEF HttpOK
  <2>4. StateOK' /\ WantedInStep' /\ ConnectedPolls'
    BY <1>0, <2>2 DEF StateOK, WantedInStep, ConnectedPolls
  <2>5. HasCause => HasCause'
    <3>1. Has(http, "height") => Has(a, "height") BY <1>2, <2>1 DEF Has
    <3>2. /\ Has(http, "template") => Has(http', "template")
          /\ Has(http, "height") => Has(http', "height") \/ Has(http', "template")
      BY <1>2, <1>4, <2>1, <3>1
    <3> QED BY <1>0, <2>2, <3>2 DEF HasCause
  <2> QED BY <2>3, <2>4, <2>5
<1> QED BY <1>5, <1>6, <1>7, <1>8 DEF Answered

(* The node serves a request, or its name is not found. *)
LEMMA RequestInv ==
    ASSUME Inv, NEW CONSTANT k \in Kind, Served(k) \/ LookupFailed(k)
    PROVE  Inv' /\ (HasCause => HasCause' \/ LookupFailed(k))
<1> SUFFICES HttpOK' /\ StateOK' /\ WantedInStep' /\ ConnectedPolls' /\ (HasCause => HasCause' \/ LookupFailed(k))
  BY InvParts
<1>0. HttpOK /\ StateOK /\ WantedInStep /\ ConnectedPolls
  BY InvParts
<1> DEFINE r == [kind |-> k, at |-> 0]
<1>1. BagIn(r, http)
  BY DEF Served, LookupFailed
<1>2. UNCHANGED <<st, timer, z, job, prev, req, expired, zmq, wanted, tip, healthy>>
  BY DEF Served, LookupFailed, JobKept, Rest, node
<1>3. StateOK' /\ WantedInStep' /\ ConnectedPolls'
  BY <1>0, <1>2 DEF StateOK, WantedInStep, ConnectedPolls
<1>4. CASE LookupFailed(k)
  <2>1. http' = Taken(r) BY <1>4 DEF LookupFailed
  <2>2. HttpOK' BY <1>1, <1>2, <2>1, TakesOne DEF HttpOK
  <2> QED BY <1>3, <1>4, <2>2
<1>5. CASE Served(k)
  <2> DEFINE s == [r EXCEPT !.at = tip]
  <2>1. http' = Taken(r) (+) SetToBag({s}) BY <1>5 DEF Served
  <2>2. s = [kind |-> k, at |-> tip] OBVIOUS
  <2>3. s.kind = k /\ s.at = tip /\ r.kind = k BY <2>2
  <2>4. s \in Request /\ s.at <= tip
    <3>1. tip \in 0 .. MaxTip /\ tip <= tip BY <1>0, DaemonAssumption DEF StateOK, Tip
    <3> QED BY <2>2, <3>1 DEF Request
  <2> HIDE DEF r, s
  <2>5. /\ IsABag(http')
        /\ BagToSet(http') \subseteq BagToSet(http) \cup {s}
        /\ (BagToSet(http) \ {r}) \cup {s} \subseteq BagToSet(http')
    BY <1>0, <1>1, <2>1, ServedBag DEF HttpOK
  <2>6. HttpOK' BY <1>0, <1>2, <2>4, <2>5 DEF HttpOK
  <2>7. \A x \in Kind : Has(http, x) => Has(http', x)
    BY <2>3, <2>5 DEF Has
  <2>8. HasCause => HasCause' BY <1>0, <1>2, <2>7 DEF HasCause, Kind
  <2> QED BY <1>3, <2>6, <2>8
<1> QED BY <1>4, <1>5

(* The timer. *)
LEMMA TimerInv == ASSUME Inv, OnTimer PROVE Inv' /\ HasCause'
<1> SUFFICES HttpOK' /\ StateOK' /\ WantedInStep' /\ ConnectedPolls' /\ HasCause'
  BY InvParts
<1>0. HttpOK /\ StateOK /\ WantedInStep /\ ConnectedPolls
  BY InvParts
<1>1. UNCHANGED <<st, z, job, expired, zmq, wanted, tip, healthy>>
  BY DEF OnTimer, Rest, node
<1>2. timer # "off" /\ timer' = IF timer = "once" THEN "off" ELSE timer
  BY DEF OnTimer
<1>3. (prev' = 0 /\ req' = 0) \/ UNCHANGED <<prev, req>>
  BY DEF OnTimer, Forgets
<1>4. zmq => prev' = 0 /\ req' = 0
  BY DEF OnTimer, Forgets
<1> DEFINE h == Sent(http, "height")
           t == Sent(http, "template")
<1>5. /\ zmq \/ st = "Connected" => http' = h
      /\ ~zmq /\ st = "Connecting" => http' = t
      /\ ~zmq /\ st = "Unconnected" => http' = http
  BY DEF OnTimer, Asks
<1>6. /\ IsABag(h) /\ BagToSet(h) \subseteq Request
      /\ \A r \in BagToSet(h) : r.at <= tip
      /\ Has(h, "height")
  BY Sends DEF Kind
<1>7. /\ IsABag(t) /\ BagToSet(t) \subseteq Request
      /\ \A r \in BagToSet(t) : r.at <= tip
      /\ Has(t, "template")
  BY Sends DEF Kind
<1> HIDE DEF h, t
<1>8. http' \in {h, t, http}
  BY <1>0, <1>5 DEF StateOK
<1>9. HttpOK' BY <1>0, <1>1, <1>6, <1>7, <1>8 DEF HttpOK
<1>10. StateOK'
  <2>1. 0 \in 0 .. tip BY <1>0 DEF StateOK, Tip
  <2>2. prev' \in 0 .. tip /\ req' \in 0 .. tip BY <1>0, <1>3, <2>1 DEF StateOK
  <2> QED BY <1>0, <1>1, <1>2, <2>2 DEF StateOK
<1>11. WantedInStep' /\ ConnectedPolls'
  BY <1>0, <1>1, <1>2 DEF WantedInStep, ConnectedPolls
<1>12. HasCause'
  <2> SUFFICES ASSUME wanted', timer' = "off" PROVE
             Has(http', "template") \/ (prev' = 0 /\ req' = 0 /\ Has(http', "height"))
    BY DEF HasCause, Has
  <2>1. st = "Connecting"
    BY <1>0, <1>1, <1>2 DEF WantedInStep, ConnectedPolls, StateOK
  <2>2. CASE zmq BY <1>4, <1>5, <1>6, <2>2
  <2>3. CASE ~zmq BY <1>5, <1>7, <2>1, <2>3
  <2> QED BY <2>2, <2>3
<1> QED BY <1>9, <1>10, <1>11, <1>12

(* A request of kind k is sent and the state is otherwise kept or made     *)
(* harmless.                                                               *)
LEMMA SendInv == ASSUME Inv, Submit \/ Connect \/ ZReady \/ ZNotified
                PROVE  Inv' /\ (HasCause => HasCause')
<1> SUFFICES HttpOK' /\ StateOK' /\ WantedInStep' /\ ConnectedPolls' /\ (HasCause => HasCause')
  BY InvParts
<1>0. HttpOK /\ StateOK /\ WantedInStep /\ ConnectedPolls
  BY InvParts
<1>1. ASSUME NEW k \in Kind, http' = Sent(http, k), tip' = tip
      PROVE  HttpOK' /\ Has(http', k) /\ BagToSet(http) \subseteq BagToSet(http')
  <2>1. /\ IsABag(http') /\ BagToSet(http') \subseteq Request
        /\ \A r \in BagToSet(http') : r.at <= tip
        /\ BagToSet(http) \subseteq BagToSet(http')
        /\ Has(http', k)
    BY <1>1, Sends
  <2> QED BY <1>1, <2>1 DEF HttpOK
<1>2. "submit" \in Kind /\ "template" \in Kind /\ "height" \in Kind
  BY DEF Kind
<1>3. CASE Submit
  <2>1. http' = Sent(http, "submit") BY <1>3 DEF Submit
  <2>2. UNCHANGED <<st, timer, z, job, prev, req, expired, zmq, wanted, tip, healthy>>
    BY <1>3 DEF Submit, JobKept, Rest, node
  <2>3. HttpOK' /\ BagToSet(http) \subseteq BagToSet(http') BY <1>1, <1>2, <2>1, <2>2
  <2>4. \A k \in Kind : Has(http, k) => Has(http', k) BY <2>3 DEF Has
  <2>5. HasCause => HasCause' BY <1>0, <1>2, <2>2, <2>4 DEF HasCause
  <2> QED BY <1>0, <2>2, <2>3, <2>5 DEF StateOK, WantedInStep, ConnectedPolls
<1>4. CASE Connect
  <2>1. /\ http' = Sent(http, "template") /\ st' = "Connecting" /\ wanted' = TRUE
        /\ UNCHANGED <<zmq, z, timer, tip, healthy, job, prev, req, expired>>
    BY <1>4 DEF Connect, JobKept, node
  <2>2. HttpOK' /\ Has(http', "template") BY <1>1, <1>2, <2>1
  <2>3. StateOK' BY <1>0, <2>1 DEF StateOK
  <2>4. WantedInStep' /\ ConnectedPolls' BY <2>1 DEF WantedInStep, ConnectedPolls
  <2>5. HasCause' BY <2>2 DEF HasCause, Has
  <2> QED BY <2>2, <2>3, <2>4, <2>5
<1>5. CASE ZReady
  <2>1. /\ http' = Sent(http, "template") /\ z' = "connected"
        /\ UNCHANGED <<st, timer, job, prev, req, expired, zmq, wanted, tip, healthy>>
    BY <1>5 DEF ZReady, ZGoes, JobKept, Rest, node
  <2>2. HttpOK' /\ Has(http', "template") BY <1>1, <1>2, <2>1
  <2>3. StateOK' BY <1>0, <2>1 DEF StateOK
  <2>4. WantedInStep' /\ ConnectedPolls' BY <1>0, <2>1 DEF WantedInStep, ConnectedPolls
  <2>5. HasCause' BY <2>2 DEF HasCause, Has
  <2> QED BY <2>2, <2>3, <2>4, <2>5
<1>6. CASE ZNotified
  <2>1. /\ http' = Sent(http, "height") /\ timer' = "repeat" /\ prev' = 0 /\ req' = 0
        /\ UNCHANGED <<st, z, job, expired, zmq, wanted, tip, healthy>>
    BY <1>6 DEF ZNotified, Forgets, Rest, node
  <2>2. HttpOK' BY <1>1, <1>2, <2>1
  <2>3. StateOK'
    <3>1. 0 \in 0 .. tip BY <1>0 DEF StateOK, Tip
    <3> QED BY <1>0, <2>1, <3>1 DEF StateOK
  <2>4. WantedInStep' /\ ConnectedPolls' BY <1>0, <2>1 DEF WantedInStep, ConnectedPolls
  <2>5. HasCause' BY <2>1 DEF HasCause
  <2> QED BY <2>2, <2>3, <2>4, <2>5
<1> QED BY <1>3, <1>4, <1>5, <1>6

(* The steps that leave the requests alone. *)
LEMMA OtherInv ==
    ASSUME Inv,
           \/ Ages \/ Disconnect \/ ZResolved \/ ZConnected \/ ZClosed \/ ZFailed
           \/ NewBlock \/ Heal \/ UNCHANGED vars
    PROVE  Inv' /\ (HasCause => HasCause')
<1> SUFFICES HttpOK' /\ StateOK' /\ WantedInStep' /\ ConnectedPolls' /\ (HasCause => HasCause')
  BY InvParts
<1>0. HttpOK /\ StateOK /\ WantedInStep /\ ConnectedPolls
  BY InvParts
<1>1. CASE Ages \/ Heal \/ UNCHANGED vars
  <2>1. /\ UNCHANGED <<st, timer, z, job, prev, req, http, zmq, wanted, tip>>
        /\ expired' \in BOOLEAN /\ healthy' \in BOOLEAN
    BY <1>0, <1>1 DEF Ages, Heal, JobKept, Rest, node, vars, StateOK
  <2> QED BY <1>0, <2>1 DEF HttpOK, StateOK, WantedInStep, ConnectedPolls, HasCause, Has
<1>2. CASE NewBlock
  <2>1. UNCHANGED <<st, timer, z, job, prev, req, expired, http, zmq, wanted, healthy>>
    BY <1>2 DEF NewBlock, JobKept
  <2>2. /\ tip' \in Tip /\ tip <= tip' /\ tip \in Int /\ tip' \in Int
        /\ job \in 0 .. tip' /\ prev \in 0 .. tip' /\ req \in 0 .. tip'
    BY <1>0, <1>2, DaemonAssumption DEF NewBlock, StateOK, Tip
  <2>3. StateOK' BY <1>0, <2>1, <2>2 DEF StateOK
  <2>4. HttpOK'
    <3>1. \A r \in BagToSet(http) : r.at \in Int BY <1>0 DEF HttpOK, Request
    <3> QED BY <1>0, <2>1, <2>2, <3>1 DEF HttpOK
  <2>5. WantedInStep' /\ ConnectedPolls' /\ (HasCause => HasCause')
    BY <1>0, <2>1 DEF WantedInStep, ConnectedPolls, HasCause, Has
  <2> QED BY <2>3, <2>4, <2>5
<1>3. CASE Disconnect
  <2>1. /\ ~zmq /\ wanted' = FALSE /\ st' = "Unconnected" /\ timer' = "off"
        /\ UNCHANGED <<zmq, z, http, tip, healthy, job, prev, req, expired>>
    BY <1>3 DEF Disconnect, JobKept, node
  <2> QED BY <1>0, <2>1 DEF HttpOK, StateOK, WantedInStep, ConnectedPolls, HasCause
<1>4. CASE ZResolved \/ ZConnected \/ ZClosed
  <2>1. /\ UNCHANGED <<st, timer, job, prev, req, expired, http, zmq, wanted, tip, healthy>>
        /\ z' \in {"connecting", "handshake"} \/ (z = "closing" /\ z' = "none")
    BY <1>4 DEF ZResolved, ZConnected, ZClosed, ZGoes, JobKept, Rest, node
  <2> QED BY <1>0, <2>1 DEF HttpOK, StateOK, WantedInStep, ConnectedPolls, HasCause, Has, Early
<1>5. CASE ZFailed
  <2>1. /\ st' = (IF st = "Connected" THEN "Connecting" ELSE st) /\ timer' = "once"
        /\ z' \in {"none", "closing"}
        /\ UNCHANGED <<job, prev, req, expired, http, zmq, wanted, tip, healthy>>
    BY <1>5 DEF ZFailed, JobKept, Rest, node
  <2> QED BY <1>0, <2>1 DEF HttpOK, StateOK, WantedInStep, ConnectedPolls, HasCause
<1> QED BY <1>1, <1>2, <1>3, <1>4, <1>5

(* Every step keeps it, and all but a failed lookup keep a cause. *)
LEMMA NextInv ==
    ASSUME Inv, [Next]_vars
    PROVE  Inv' /\ (HasCause => HasCause' \/ \E k \in Kind : LookupFailed(k))
<1>1. CASE \E r \in Request : Answered(r) \/ Failed(r) BY <1>1, AnswersInv
<1>2. CASE \E k \in Kind : Served(k) \/ LookupFailed(k) BY <1>2, RequestInv
<1>3. CASE OnTimer BY <1>3, TimerInv
<1>4. CASE Submit \/ Connect \/ ZReady \/ ZNotified BY <1>4, SendInv
<1>5. CASE \/ Ages \/ Disconnect \/ ZResolved \/ ZConnected \/ ZClosed \/ ZFailed
           \/ NewBlock \/ Heal \/ UNCHANGED vars
  BY <1>5, OtherInv
<1> QED BY <1>1, <1>2, <1>3, <1>4, <1>5 DEF Next, ZWorks

(* The inductive invariant holds. *)
THEOREM Invariant == Spec => []Inv
  BY InitInv, NextInv, PTL DEF Spec

-----------------------------------------------------------------------------
(* The type invariant of the solo mining client. *)
THEOREM TypeCorrect == Spec => []TypeOK
<1>1. Inv => TypeOK BY DEF Inv
<1> QED BY <1>1, Invariant, PTL

(* A client that is wanted goes on trying whatever fails or comes late,    *)
(* for any chain and any number of requests; only a name that does not     *)
(* resolve can leave it with nothing (DaemonClient::retry, onTimer,        *)
(* onHttpData).                                                            *)
THEOREM NobodyStuck == Spec => NeverStuck
<1>1. Init => Going BY InitInv, GoingIsCause
<1>2. Inv /\ [Next]_vars => [Going => Going' \/ \E k \in Kind : LookupFailed(k)]_vars
  BY NextInv, GoingIsCause
<1> QED BY <1>1, <1>2, Invariant, PTL DEF Spec, NeverStuck

(* A connected client polls for ever: whatever fails, is answered late or  *)
(* is told by ZMQ leaves its timer repeating (setState, retry).            *)
THEOREM Polls == Spec => []ConnectedPolls
<1>1. Inv => ConnectedPolls BY DEF Inv
<1> QED BY <1>1, Invariant, PTL
=============================================================================

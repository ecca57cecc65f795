---------------------------- MODULE SharesProofs ----------------------------
(***************************************************************************)
(* Proofs about the way of a share, for any number of shares, sessions and *)
(* pings and any kind of pools.                                            *)
(***************************************************************************)
EXTENDS Shares, FiniteSetTheorems, SequenceTheorems, TLAPS

(* The numbers of the shares in a queue, and that they differ. *)
Nos(q) == {q[k].no : k \in 1 .. Len(q)}
Apart(q) == \A j, k \in 1 .. Len(q) : q[j].no = q[k].no => j = k

(* The same for the shares that wait for an answer. *)
Held(l) == {p[2].no : p \in l.pending}
OneEach(l) == \A p, q \in l.pending : p[2].no = q[2].no => p = q

(* The shares that were counted. *)
Counted == {n \in 1 .. MaxShares : counted[n] = 1}

(* What is true of client c at any time, s being the next request id: no   *)
(* request is out before the login, what it waits for after that is on the *)
(* wire, ids are not used twice, and over a failover strategy the shares   *)
(* on the wire are of the session the connection logged in to.             *)
LinkOk(c, l, s) ==
    /\ l \in LinkRecord
    /\ l.st \in {"down", "tls"} => l.wire = {}
    /\ l.st \in {"login", "up"} => l.pending \subseteq l.wire
    /\ \A q \in l.wire : q[1] < s /\ (q[2] = Ping \/ q[2].index = c)
    /\ \A p, q \in l.wire : p[1] = q[1] => p = q
    /\ l.st = "login" => l.logins > 0
    /\ l.st = "up" => l.rpc = SessionId(c, l)
    /\ c \in Failover => \A q \in l.wire : l.st = "up" /\ (q[2] = Ping \/ q[2].session = l.rpc)

(* A share is in one place: in a queue, with the client of the user's pool *)
(* or counted.                                                             *)
Spread ==
    /\ Apart(results) /\ Apart(bundles) /\ Apart(todo)
    /\ \A b \in batons : Apart(b)
    /\ OneEach(link[0])
    /\ Nos(results) \cup Nos(bundles) \cup Nos(todo) \cup Held(link[0]) \cup Counted
          \subseteq 1 .. shares
    /\ \A b \in batons : Nos(b) \subseteq 1 .. shares
    /\ Nos(results) \cap Nos(bundles) = {}
    /\ Nos(todo) \cap (Nos(results) \cup Nos(bundles)) = {}
    /\ \A b \in batons : Nos(b) \cap (Nos(results) \cup Nos(bundles) \cup Nos(todo)) = {}
    /\ \A b, d \in batons : b # d => Nos(b) \cap Nos(d) = {}
    /\ (Nos(results) \cup Nos(bundles) \cup Nos(todo)) \cap (Held(link[0]) \cup Counted) = {}
    /\ \A b \in batons : Nos(b) \cap (Held(link[0]) \cup Counted) = {}
    /\ Held(link[0]) \cap Counted = {}

Inv ==
    /\ TypeOK
    /\ \A c \in Index : LinkOk(c, link[c], sequence)
    /\ Spread
    /\ CountedOnce

-----------------------------------------------------------------------------
(* Queues. *)

(* The empty queue, and a queue with one more share. *)
LEMMA AppendFacts ==
    ASSUME NEW q \in Seq(Result), NEW r \in Result
    PROVE  /\ Nos(<<>>) = {} /\ Apart(<<>>)
           /\ Append(q, r) \in Seq(Result)
           /\ Nos(Append(q, r)) = Nos(q) \cup {r.no}
           /\ Apart(q) /\ r.no \notin Nos(q) => Apart(Append(q, r))
<1>1. Nos(<<>>) = {} /\ Apart(<<>>)
  BY DEF Nos, Apart
<1> DEFINE s == Append(q, r)
<1>2. /\ s \in Seq(Result) /\ Len(s) = Len(q) + 1 /\ Len(q) \in Nat /\ s[Len(q) + 1] = r
      /\ \A k \in 1 .. Len(q) : s[k] = q[k]
  BY AppendProperties
<1> HIDE DEF s
<1>3. Nos(s) = Nos(q) \cup {r.no}
  <2>1. \A k \in 1 .. Len(s) : k \in 1 .. Len(q) \/ k = Len(q) + 1
    BY <1>2
  <2>2. 1 .. Len(q) \subseteq 1 .. Len(s) /\ Len(q) + 1 \in 1 .. Len(s)
    BY <1>2
  <2> QED BY <1>2, <2>1, <2>2 DEF Nos
<1>4. ASSUME Apart(q), r.no \notin Nos(q) PROVE Apart(s)
  BY <1>2, <1>4 DEF Apart, Nos
<1> QED BY <1>1, <1>2, <1>3, <1>4 DEF s

(* The first share of a queue and the rest. *)
LEMMA TailFacts ==
    ASSUME NEW q \in Seq(Result), q # <<>>
    PROVE  /\ Tail(q) \in Seq(Result) /\ Head(q) \in Result
           /\ Nos(q) = Nos(Tail(q)) \cup {Head(q).no}
           /\ Apart(q) => Apart(Tail(q)) /\ Head(q).no \notin Nos(Tail(q))
<1> DEFINE s == Tail(q)
<1>1. /\ s \in Seq(Result) /\ Len(s) = Len(q) - 1 /\ Head(q) = q[1] /\ Head(q) \in Result
      /\ \A k \in 1 .. Len(s) : s[k] = q[k + 1]
  BY HeadTailProperties
<1>2. Len(q) \in Nat /\ Len(q) > 0
  BY EmptySeq, LenProperties
<1> HIDE DEF s
<1>3. Nos(q) = Nos(s) \cup {Head(q).no}
  <2>1. Nos(s) \subseteq Nos(q) /\ Head(q).no \in Nos(q)
    BY <1>1, <1>2 DEF Nos
  <2>2. \A k \in 1 .. Len(q) : k = 1 \/ (k - 1 \in 1 .. Len(s) /\ s[k - 1] = q[k])
    BY <1>1, <1>2
  <2>3. Nos(q) \subseteq Nos(s) \cup {Head(q).no}
    BY <1>1, <2>2 DEF Nos
  <2> QED BY <2>1, <2>3
<1>4. ASSUME Apart(q) PROVE Apart(s) /\ Head(q).no \notin Nos(s)
  <2>1. \A k \in 1 .. Len(s) : k + 1 \in 1 .. Len(q) /\ k + 1 # 1
    BY <1>1, <1>2
  <2>2. Head(q).no \notin Nos(s)
    <3> SUFFICES ASSUME NEW k \in 1 .. Len(s), s[k].no = Head(q).no PROVE FALSE
      BY DEF Nos
    <3>1. q[k + 1].no = q[1].no
      BY <1>1
    <3>2. 1 \in 1 .. Len(q)
      BY <1>2
    <3> QED BY <1>4, <2>1, <3>1, <3>2 DEF Apart
  <2>3. Apart(s)
    <3> SUFFICES ASSUME NEW j \in 1 .. Len(s), NEW k \in 1 .. Len(s), s[j].no = s[k].no
                 PROVE  j = k
      BY DEF Apart
    <3>1. q[j + 1].no = q[k + 1].no
      BY <1>1
    <3>2. j + 1 = k + 1
      BY <1>4, <2>1, <3>1 DEF Apart
    <3>3. j \in Int /\ k \in Int
      OBVIOUS
    <3> QED BY <3>2, <3>3
  <2> QED BY <2>2, <2>3
<1> QED BY <1>1, <1>3, <1>4 DEF s

(* A queue without its k-th share. *)
LEMMA RemoveFacts ==
    ASSUME NEW q \in Seq(Result), NEW k \in 1 .. Len(q)
    PROVE  /\ RemoveAt(q, k) \in Seq(Result)
           /\ Nos(RemoveAt(q, k)) \subseteq Nos(q)
           /\ Apart(q) => Apart(RemoveAt(q, k))
<1> DEFINE a == SubSeq(q, 1, k - 1)
           b == SubSeq(q, k + 1, Len(q))
           s == a \o b
<1>0. Len(q) \in Nat /\ k \in Nat /\ k >= 1 /\ k <= Len(q)
  BY LenProperties
<1>1. a \in Seq(Result) /\ Len(a) = k - 1 /\ \A j \in 1 .. k - 1 : a[j] = q[j]
  BY <1>0, SubSeqProperties
<1>2. b \in Seq(Result) /\ Len(b) = Len(q) - k /\ \A j \in 1 .. Len(q) - k : b[j] = q[k + j]
  BY <1>0, SubSeqProperties
<1> HIDE DEF a, b
<1>3. /\ s \in Seq(Result) /\ Len(s) = Len(q) - 1
      /\ \A j \in 1 .. Len(s) : s[j] = IF j <= k - 1 THEN a[j] ELSE b[j - (k - 1)]
  <2>1. /\ s \in Seq(Result) /\ Len(s) = Len(a) + Len(b)
        /\ \A j \in 1 .. Len(a) + Len(b) : s[j] = IF j <= Len(a) THEN a[j] ELSE b[j - Len(a)]
    BY <1>1, <1>2, ConcatProperties
  <2> HIDE DEF s
  <2>2. Len(a) = k - 1 /\ Len(b) = Len(q) - k /\ Len(a) + Len(b) = Len(q) - 1
    BY <1>0, <1>1, <1>2
  <2> QED BY <2>1, <2>2
<1> HIDE DEF s
<1>4. \A j \in 1 .. Len(s) : /\ j <= k - 1 => s[j] = q[j] /\ j \in 1 .. Len(q)
                             /\ j > k - 1 => s[j] = q[j + 1] /\ j + 1 \in 1 .. Len(q)
  <2> TAKE j \in 1 .. Len(s)
  <2>1. CASE j <= k - 1
    BY <1>0, <1>1, <1>3, <2>1
  <2>2. CASE j > k - 1
    <3>1. s[j] = b[j - (k - 1)] /\ j - (k - 1) \in 1 .. Len(q) - k
      BY <1>0, <1>3, <2>2
    <3>2. b[j - (k - 1)] = q[k + (j - (k - 1))] /\ k + (j - (k - 1)) = j + 1
      BY <1>0, <1>2, <3>1
    <3> QED BY <1>0, <1>3, <2>2, <3>1, <3>2
  <2> QED BY <1>0, <1>3, <2>1, <2>2
<1>5. Nos(s) \subseteq Nos(q)
  <2>1. ASSUME NEW j \in 1 .. Len(s) PROVE \E i \in 1 .. Len(q) : s[j] = q[i]
    <3>1. j \in Int /\ (j <= k - 1 \/ j > k - 1)
      BY <1>0
    <3> QED BY <1>4, <3>1
  <2> QED BY <2>1 DEF Nos
<1>6. ASSUME Apart(q) PROVE Apart(s)
  <2> SUFFICES ASSUME NEW i \in 1 .. Len(s), NEW j \in 1 .. Len(s), s[i].no = s[j].no
               PROVE  i = j
    BY DEF Apart
  <2>0. i \in Int /\ j \in Int /\ k \in Int
    BY <1>0
  <2>1. CASE i <= k - 1 /\ j <= k - 1
    <3>1. s[i] = q[i] /\ i \in 1 .. Len(q) /\ s[j] = q[j] /\ j \in 1 .. Len(q)
      BY <1>4, <2>1
    <3> QED BY <1>6, <3>1 DEF Apart
  <2>2. CASE i <= k - 1 /\ j > k - 1
    <3>1. s[i] = q[i] /\ i \in 1 .. Len(q) /\ s[j] = q[j + 1] /\ j + 1 \in 1 .. Len(q)
      BY <1>4, <2>2
    <3>2. i = j + 1
      BY <1>6, <3>1 DEF Apart
    <3> QED BY <2>0, <2>2, <3>2
  <2>3. CASE i > k - 1 /\ j <= k - 1
    <3>1. s[i] = q[i + 1] /\ i + 1 \in 1 .. Len(q) /\ s[j] = q[j] /\ j \in 1 .. Len(q)
      BY <1>4, <2>3
    <3>2. i + 1 = j
      BY <1>6, <3>1 DEF Apart
    <3> QED BY <2>0, <2>3, <3>2
  <2>4. CASE i > k - 1 /\ j > k - 1
    <3>1. s[i] = q[i + 1] /\ i + 1 \in 1 .. Len(q) /\ s[j] = q[j + 1] /\ j + 1 \in 1 .. Len(q)
      BY <1>4, <2>4
    <3>2. i + 1 = j + 1
      BY <1>6, <3>1 DEF Apart
    <3> QED BY <2>0, <3>2
  <2> QED BY <2>0, <2>1, <2>2, <2>3, <2>4
<1> QED BY <1>3, <1>5, <1>6 DEF s, a, b, RemoveAt

-----------------------------------------------------------------------------
(* Clients. *)

(* close(): nothing is on the wire any more. *)
LEMMA ClosedOk ==
    ASSUME NEW CONSTANT c \in Index, NEW STATE l, NEW STATE s, l \in LinkRecord
    PROVE  /\ LinkOk(c, Closed(l), s)
           /\ Closed(l).pending = l.pending
<1> DEFINE d == [l EXCEPT !.st = "down", !.wire = {}]
<1>1. /\ d \in LinkRecord /\ d.st = "down" /\ d.wire = {} /\ d.pending = l.pending
  BY DEF LinkRecord
<1> HIDE DEF d
<1>2. Closed(l) = d
  BY DEF Closed, d
<1> QED BY <1>1, <1>2 DEF LinkOk

(* submit(): the share is remembered under the id it is sent with. *)
LEMMA SentOk ==
    ASSUME NEW CONSTANT c \in Index, NEW STATE l, sequence \in Nat, LinkOk(c, l, sequence),
           NEW STATE r, r \in Result, r.index = c
    PROVE  /\ ~Refuses(l, r) => LinkOk(c, Sent(l, r), sequence + 1)
           /\ Sent(l, r).pending = l.pending \cup {<<sequence, r>>}
           /\ [l EXCEPT !.pending = Sent(l, r).pending] \in LinkRecord
           /\ [l EXCEPT !.pending = Sent(l, r).pending].pending = l.pending \cup {<<sequence, r>>}
<1> DEFINE x == <<sequence, r>>
           p == l.pending \cup {x}
           w == IF l.st = "tls" THEN l.wire ELSE l.wire \cup {x}
           d == [l EXCEPT !.pending = p, !.wire = w]
           e == [l EXCEPT !.pending = p]
<1>0. l \in LinkRecord
  BY DEF LinkOk
<1>1. x \in Nat \X Result /\ x[1] = sequence /\ x[2] = r
  OBVIOUS
<1>2. Sent(l, r) = d
  BY DEF Sent
<1> HIDE DEF x
<1>3. p \in SUBSET (Nat \X Result) /\ w \in SUBSET (Nat \X (Result \cup {Ping}))
  BY <1>0, <1>1 DEF LinkRecord
<1>4. (l.st = "tls" => w = l.wire) /\ (l.st # "tls" => w = l.wire \cup {x}) /\ p = l.pending \cup {x}
  OBVIOUS
<1> HIDE DEF p, w
<1>5. /\ d \in LinkRecord /\ d.pending = p /\ d.wire = w /\ d.st = l.st /\ d.logins = l.logins
      /\ d.rpc = l.rpc /\ e \in LinkRecord /\ e.pending = p
  BY <1>0, <1>3 DEF LinkRecord
<1> HIDE DEF d
<1>6. \A q \in l.wire : q[1] \in Nat /\ q[1] < sequence /\ (q[2] = Ping \/ q[2].index = c)
  BY <1>0 DEF LinkRecord, LinkOk
<1>7. ASSUME ~Refuses(l, r) PROVE LinkOk(c, d, sequence + 1)
  <2>0. l.st # "down" /\ r.session = l.rpc /\ (c \in Failover => l.st = "up")
    BY <1>7 DEF Refuses, Pool
  <2>1. \A q \in w : q[1] < sequence + 1 /\ (q[2] = Ping \/ q[2].index = c)
    BY <1>1, <1>4, <1>6
  <2>2. \A q1, q2 \in w : q1[1] = q2[1] => q1 = q2
    BY <1>1, <1>4, <1>6 DEF LinkOk
  <2>3. d.st \in {"down", "tls"} => d.wire = {}
    BY <1>4, <1>5, <2>0 DEF LinkOk
  <2>4. d.st \in {"login", "up"} => d.pending \subseteq d.wire
    BY <1>4, <1>5, <2>0 DEF LinkOk
  <2>5. c \in Failover => \A q \in w : l.st = "up" /\ (q[2] = Ping \/ q[2].session = l.rpc)
    BY <1>1, <1>4, <2>0 DEF LinkOk
  <2>6. d.st = "up" => d.rpc = SessionId(c, d)
    BY <1>5 DEF LinkOk, SessionId
  <2> QED BY <1>5, <2>1, <2>2, <2>3, <2>4, <2>5, <2>6 DEF LinkOk
<1>8. [l EXCEPT !.pending = Sent(l, r).pending] = e
  BY <1>2, <1>5
<1> QED BY <1>2, <1>4, <1>5, <1>7, <1>8 DEF x

(* send() of a ping. *)
LEMMA PingOk ==
    ASSUME NEW CONSTANT c \in Index, NEW STATE l, sequence \in Nat, LinkOk(c, l, sequence),
           l.st = "up"
    PROVE  /\ LinkOk(c, [l EXCEPT !.wire = @ \cup {<<sequence, Ping>>}], sequence + 1)
           /\ [l EXCEPT !.wire = @ \cup {<<sequence, Ping>>}].pending = l.pending
<1> DEFINE x == <<sequence, Ping>>
           w == l.wire \cup {x}
           d == [l EXCEPT !.wire = w]
<1>0. l \in LinkRecord
  BY DEF LinkOk
<1>1. x \in Nat \X (Result \cup {Ping}) /\ x[1] = sequence /\ x[2] = Ping
  OBVIOUS
<1> HIDE DEF x
<1>2. w \in SUBSET (Nat \X (Result \cup {Ping}))
  BY <1>0, <1>1 DEF LinkRecord
<1>3. w = l.wire \cup {x}
  OBVIOUS
<1> HIDE DEF w
<1>4. d \in LinkRecord /\ d.pending = l.pending /\ d.wire = w /\ d.st = l.st
      /\ d.rpc = l.rpc /\ d.logins = l.logins
  BY <1>0, <1>2 DEF LinkRecord
<1> HIDE DEF d
<1>5. \A q \in l.wire : q[1] \in Nat /\ q[1] < sequence /\ (q[2] = Ping \/ q[2].index = c)
  BY <1>0 DEF LinkRecord, LinkOk
<1>6. \A q \in w : q[1] < sequence + 1 /\ (q[2] = Ping \/ q[2].index = c)
  BY <1>1, <1>3, <1>5
<1>7. \A q1, q2 \in w : q1[1] = q2[1] => q1 = q2
  BY <1>1, <1>3, <1>5 DEF LinkOk
<1>8. c \in Failover => \A q \in w : l.st = "up" /\ (q[2] = Ping \/ q[2].session = l.rpc)
  BY <1>1, <1>3 DEF LinkOk
<1>9. d.st = "up" => d.rpc = SessionId(c, d)
  BY <1>4 DEF LinkOk, SessionId
<1>10. LinkOk(c, d, sequence + 1)
  BY <1>3, <1>4, <1>6, <1>7, <1>8, <1>9 DEF LinkOk
<1> QED BY <1>4, <1>10 DEF d, w, x

(* handleSubmitResponse(): exactly the share of the request is taken out.  *)
LEMMA ErasedOk ==
    ASSUME NEW CONSTANT c \in Index, NEW STATE l, LinkOk(c, l, sequence),
           NEW q \in l.wire
    PROVE  /\ LinkOk(c, Erased(l, q[1]), sequence)
           /\ Erased(l, q[1]).pending = {p \in l.pending : p[1] # q[1]}
           /\ {p \in l.pending : p[1] = q[1]} = {q} \cap l.pending
<1> DEFINE s == {p \in l.pending : p[1] # q[1]}
           d == [l EXCEPT !.pending = s]
<1>0. l \in LinkRecord
  BY DEF LinkOk
<1>1. s \in SUBSET (Nat \X Result) /\ s \subseteq l.pending
  BY <1>0 DEF LinkRecord
<1>2. Erased(l, q[1]) = d
  BY DEF Erased
<1>3. {p \in l.pending : p[1] = q[1]} = {q} \cap l.pending
  <2>1. l.st \in {"login", "up"}
    BY <1>0 DEF LinkOk, LinkRecord
  <2> QED BY <2>1 DEF LinkOk
<1> HIDE DEF s
<1>4. d \in LinkRecord /\ d.pending = s /\ d.wire = l.wire /\ d.st = l.st /\ d.logins = l.logins
      /\ d.rpc = l.rpc
  BY <1>0, <1>1 DEF LinkRecord
<1> HIDE DEF d
<1>5. LinkOk(c, d, sequence)
  BY <1>1, <1>4 DEF LinkOk, SessionId
<1> QED BY <1>2, <1>3, <1>4, <1>5 DEF s

(* A connection that goes on: handshake, login, and its answer. *)
LEMMA LoginOk ==
    ASSUME NEW CONSTANT c \in Index, NEW STATE l, sequence \in Nat, LinkOk(c, l, sequence)
    PROVE  /\ l.st = "down" => LET d == [l EXCEPT !.st = "tls"]
                               IN  LinkOk(c, d, sequence) /\ d.pending = l.pending
           /\ l.st \in {"down", "tls"} /\ l.logins < MaxSessions =>
                 LET d == [l EXCEPT !.st = "login", !.pending = {}, !.logins = @ + 1]
                 IN  LinkOk(c, d, sequence + 1) /\ d.pending = {}
           /\ \A id \in 1 .. MaxSessions :
                 l.st = "login" /\ id = SessionId(c, l) => LET d == [l EXCEPT !.st = "up", !.rpc = id]
                                   IN  LinkOk(c, d, sequence) /\ d.pending = l.pending
<1>0. l \in LinkRecord /\ l.logins \in 0 .. MaxSessions
  BY DEF LinkOk, LinkRecord
<1>1. ASSUME l.st = "down"
      PROVE  LET d == [l EXCEPT !.st = "tls"] IN LinkOk(c, d, sequence) /\ d.pending = l.pending
  <2> DEFINE d == [l EXCEPT !.st = "tls"]
  <2>1. d \in LinkRecord /\ d.st = "tls" /\ d.wire = l.wire /\ d.pending = l.pending
    BY <1>0 DEF LinkRecord
  <2> HIDE DEF d
  <2>2. LinkOk(c, d, sequence)
    BY <1>1, <2>1 DEF LinkOk
  <2> QED BY <2>1, <2>2 DEF d
<1>2. ASSUME l.st \in {"down", "tls"}, l.logins < MaxSessions
      PROVE  LET d == [l EXCEPT !.st = "login", !.pending = {}, !.logins = @ + 1]
             IN  LinkOk(c, d, sequence + 1) /\ d.pending = {}
  <2> DEFINE g == l.logins + 1
             d == [l EXCEPT !.st = "login", !.pending = {}, !.logins = g]
  <2>1. g \in 0 .. MaxSessions /\ g > 0
    BY <1>0, <1>2, SharesAssumption
  <2> HIDE DEF g
  <2>2. d \in LinkRecord /\ d.st = "login" /\ d.wire = l.wire /\ d.pending = {} /\ d.logins = g
    BY <1>0, <2>1 DEF LinkRecord
  <2> HIDE DEF d
  <2>3. LinkOk(c, d, sequence + 1)
    BY <1>2, <2>1, <2>2 DEF LinkOk
  <2> QED BY <2>2, <2>3 DEF d, g
<1>3. ASSUME NEW id \in 1 .. MaxSessions, l.st = "login", id = SessionId(c, l)
      PROVE  LET d == [l EXCEPT !.st = "up", !.rpc = id]
             IN  LinkOk(c, d, sequence) /\ d.pending = l.pending
  <2> DEFINE d == [l EXCEPT !.st = "up", !.rpc = id]
  <2>1. id \in 0 .. MaxSessions
    BY SharesAssumption
  <2>2. d \in LinkRecord /\ d.st = "up" /\ d.wire = l.wire /\ d.pending = l.pending
        /\ d.rpc = id /\ d.logins = l.logins
    BY <1>0, <2>1 DEF LinkRecord
  <2> HIDE DEF d
  <2>3. c \in Failover => l.wire = {}
    BY <1>3 DEF LinkOk
  <2>4. LinkOk(c, d, sequence)
    BY <1>3, <2>2, <2>3 DEF LinkOk, SessionId
  <2> QED BY <2>2, <2>4 DEF d
<1> QED BY <1>1, <1>2, <1>3

(* The id of the next request only grows. *)
LEMMA LaterOk ==
    ASSUME NEW CONSTANT c \in Index, NEW STATE l, NEW STATE s, NEW t, LinkOk(c, l, s),
           s \in Nat, t \in Nat, s <= t
    PROVE  LinkOk(c, l, t)
<1>1. \A q \in l.wire : q[1] \in Nat
  BY DEF LinkOk, LinkRecord
<1>2. \A q \in l.wire : q[1] < t
  BY <1>1 DEF LinkOk
<1> QED BY <1>2 DEF LinkOk

-----------------------------------------------------------------------------
(* The invariant holds at the start ... *)
LEMMA InitInv == Init => Inv
<1> SUFFICES ASSUME Init PROVE Inv
  OBVIOUS
<1> DEFINE new == [st |-> "down", rpc |-> 0, logins |-> 0, pending |-> {}, wire |-> {}]
<1>1. new \in LinkRecord /\ new.st = "down" /\ new.wire = {} /\ new.pending = {}
  BY SharesAssumption DEF LinkRecord
<1>2. link = [c \in Index |-> new] /\ 0 \in Index
  BY DEF Init, Index
<1> HIDE DEF new
<1>3. \A c \in Index : link[c] = new /\ LinkOk(c, link[c], sequence)
  BY <1>1, <1>2 DEF LinkOk
<1>4. TypeOK
  <2>1. <<>> \in Seq(Result)
    BY EmptySeq
  <2>2. results \in Seq(Result) /\ bundles \in Seq(Result) /\ todo \in Seq(Result) /\ batons = {}
    BY <2>1 DEF Init
  <2>3. link \in [Index -> LinkRecord] /\ counted \in [1 .. MaxShares -> Nat]
    BY <1>1, <1>2 DEF Init
  <2>4. 0 \in 0 .. MaxShares /\ 0 \in 0 .. MaxPings
    BY SharesAssumption
  <2> HIDE DEF new
  <2> QED BY <2>2, <2>3, <2>4 DEF Init, TypeOK
<1>5. Counted = {}
  BY DEF Counted, Init
<1>6. Nos(<<>>) = {} /\ Apart(<<>>)
  BY DEF Nos, Apart
<1>7. Held(link[0]) = {} /\ OneEach(link[0])
  BY <1>1, <1>2, <1>3 DEF Held, OneEach
<1>8. Spread
  BY <1>5, <1>6, <1>7 DEF Spread, Init
<1>9. CountedOnce
  <2>1. Cardinality(Counted) = 0
    BY <1>5, FS_EmptySet
  <2> QED BY <2>1 DEF CountedOnce, Counted, Init
<1> QED BY <1>3, <1>4, <1>8, <1>9 DEF Inv, Init

(* What the steps of JobResults leave alone. *)
Elsewhere == UNCHANGED <<net, known, pings, counted>>

(* A share that a thread found has a new number. *)
LEMMA SubmitInv ==
    ASSUME Inv, NEW k \in known, NEW d \in BOOLEAN,
           LET r == [no |-> shares + 1, index |-> k[1], session |-> k[2], done |-> d]
           IN  SubmitCpu(r) \/ SubmitGpu(r)
    PROVE  Inv'
<1> DEFINE r == [no |-> shares + 1, index |-> k[1], session |-> k[2], done |-> d]
<1> USE DEF Inv
<1>0. /\ shares < MaxShares /\ shares' = shares + 1 /\ shares \in Nat
      /\ batons' = batons /\ todo' = todo /\ Elsewhere
  BY SharesAssumption DEF SubmitCpu, SubmitGpu, Finds, Elsewhere, TypeOK
<1>1. r \in Result /\ r.no = shares + 1
  <2>1. k \in Index \X (1 .. MaxSessions) /\ shares + 1 \in 1 .. MaxShares
    BY <1>0, SharesAssumption DEF TypeOK
  <2> QED BY <2>1 DEF Result
<1>2. /\ link' = link /\ sequence' = sequence /\ counted' = counted
      /\ accepted' = accepted /\ rejected' = rejected /\ known' = known /\ pings' = pings
  BY <1>0 DEF Elsewhere, net
<1>3. \/ results' = Append(results, r) /\ bundles' = bundles /\ async' = TRUE
      \/ results' = results /\ bundles' = Append(bundles, r) /\ async' = TRUE
  BY DEF SubmitCpu, SubmitGpu
<1> HIDE DEF r
<1>4. /\ results \in Seq(Result) /\ bundles \in Seq(Result)
  BY DEF TypeOK
<1>5. ASSUME NEW q \in Seq(Result)
      PROVE  /\ Append(q, r) \in Seq(Result) /\ Nos(Append(q, r)) = Nos(q) \cup {shares + 1}
             /\ Apart(q) /\ shares + 1 \notin Nos(q) => Apart(Append(q, r))
  BY <1>1, <1>5, AppendFacts
<1>6. TypeOK'
  <2>1. results' \in Seq(Result) /\ bundles' \in Seq(Result) /\ async' = TRUE
    BY <1>3, <1>4, <1>5
  <2>2. shares' \in 0 .. MaxShares
    BY <1>0, SharesAssumption
  <2> QED BY <1>0, <1>2, <2>1, <2>2 DEF TypeOK
<1>7. Counted' = Counted /\ CountedOnce'
  BY <1>2 DEF Counted, CountedOnce
<1>8. 1 .. shares \subseteq 1 .. shares' /\ shares + 1 \in 1 .. shares' /\ shares + 1 \notin 1 .. shares
  BY <1>0
<1>9. Spread'
  <2>1. CASE results' = Append(results, r) /\ bundles' = bundles
    <3>1. Nos(results') = Nos(results) \cup {shares + 1} /\ Apart(results')
      BY <1>4, <1>5, <1>8, <2>1 DEF Spread
    <3>2. Nos(bundles') = Nos(bundles) /\ Apart(bundles')
      BY <2>1 DEF Spread
    <3> QED BY <1>0, <1>2, <1>7, <1>8, <3>1, <3>2 DEF Spread
  <2>2. CASE results' = results /\ bundles' = Append(bundles, r)
    <3>1. Nos(bundles') = Nos(bundles) \cup {shares + 1} /\ Apart(bundles')
      BY <1>4, <1>5, <1>8, <2>2 DEF Spread
    <3>2. Nos(results') = Nos(results) /\ Apart(results')
      BY <2>2 DEF Spread
    <3> QED BY <1>0, <1>2, <1>7, <1>8, <3>1, <3>2 DEF Spread
  <2> QED BY <1>3, <2>1, <2>2
<1> QED BY <1>2, <1>6, <1>7, <1>9

(* The event loop takes over both queues. *)
LEMMA OnAsyncInv ==
    ASSUME Inv, OnAsync
    PROVE  Inv'
<1> USE DEF Inv
<1>0. /\ todo = <<>> /\ todo' = results /\ results' = <<>> /\ bundles' = <<>> /\ async' = FALSE
      /\ batons' = IF bundles = <<>> THEN batons ELSE batons \cup {bundles}
      /\ shares' = shares /\ Elsewhere
  BY DEF OnAsync, Hands, Elsewhere
<1>1. /\ link' = link /\ sequence' = sequence /\ counted' = counted
      /\ accepted' = accepted /\ rejected' = rejected /\ known' = known /\ pings' = pings
  BY <1>0 DEF Elsewhere, net
<1>2. batons' \subseteq batons \cup {bundles}
  BY <1>0
<1>3. TypeOK'
  BY <1>0, <1>1, <1>2 DEF TypeOK
<1>4. Counted' = Counted /\ CountedOnce'
  BY <1>1 DEF Counted, CountedOnce
<1>5. /\ Nos(<<>>) = {} /\ Apart(<<>>)
  BY DEF Nos, Apart
<1>6. \A b \in batons' : b \in batons \/ b = bundles
  BY <1>2
<1>7. Spread'
  BY <1>0, <1>1, <1>4, <1>5, <1>6 DEF Spread
<1> QED BY <1>1, <1>3, <1>4, <1>7

(* The thread pool leaves out what does not check ... *)
LEMMA CheckHashInv ==
    ASSUME Inv, NEW b \in batons, NEW k \in DOMAIN b, CheckHash(b, k)
    PROVE  Inv'
<1> USE DEF Inv
<1> DEFINE s == RemoveAt(b, k)
<1>0. /\ batons' = (batons \ {b}) \cup {s}
      /\ UNCHANGED <<results, bundles, async, todo, shares>> /\ Elsewhere
  BY DEF CheckHash, Elsewhere
<1>1. /\ link' = link /\ sequence' = sequence /\ counted' = counted
      /\ accepted' = accepted /\ rejected' = rejected /\ known' = known /\ pings' = pings
  BY <1>0 DEF Elsewhere, net
<1>2. b \in Seq(Result) /\ Apart(b)
  BY DEF TypeOK, Spread
<1>3. k \in 1 .. Len(b)
  BY <1>2, LenProperties
<1>4. s \in Seq(Result) /\ Nos(s) \subseteq Nos(b) /\ Apart(s)
  BY <1>2, <1>3, RemoveFacts
<1> HIDE DEF s
<1>5. TypeOK'
  BY <1>0, <1>1, <1>4 DEF TypeOK
<1>6. Counted' = Counted /\ CountedOnce'
  BY <1>1 DEF Counted, CountedOnce
<1>7. \A d \in batons' : d = s \/ (d \in batons /\ d # b)
  BY <1>0
<1>8. Spread'
  <2>1. \A d \in batons' : Apart(d) /\ Nos(d) \subseteq 1 .. shares
    BY <1>4, <1>7 DEF Spread
  <2>2. \A d \in batons' : /\ Nos(d) \cap (Nos(results) \cup Nos(bundles) \cup Nos(todo)) = {}
                           /\ Nos(d) \cap (Held(link[0]) \cup Counted) = {}
    BY <1>4, <1>7 DEF Spread
  <2>3. \A d, e \in batons' : d # e => Nos(d) \cap Nos(e) = {}
    BY <1>4, <1>7 DEF Spread
  <2> QED BY <1>0, <1>1, <1>6, <2>1, <2>2, <2>3 DEF Spread
<1> QED BY <1>1, <1>5, <1>6, <1>8

(* ... and the event loop takes over the rest. *)
LEMMA BatonDoneInv ==
    ASSUME Inv, NEW b \in batons, BatonDone(b)
    PROVE  Inv'
<1> USE DEF Inv
<1>0. /\ batons' = batons \ {b} /\ todo = <<>> /\ todo' = b
      /\ UNCHANGED <<results, bundles, async, shares>> /\ Elsewhere
  BY DEF BatonDone, Hands, Elsewhere
<1>1. /\ link' = link /\ sequence' = sequence /\ counted' = counted
      /\ accepted' = accepted /\ rejected' = rejected /\ known' = known /\ pings' = pings
  BY <1>0 DEF Elsewhere, net
<1>2. TypeOK'
  BY <1>0, <1>1 DEF TypeOK
<1>3. Counted' = Counted /\ CountedOnce'
  BY <1>1 DEF Counted, CountedOnce
<1>4. \A d \in batons' : d \in batons /\ d # b
  BY <1>0
<1>5. Spread'
  <2>1. Apart(b) /\ Nos(b) \subseteq 1 .. shares
        /\ Nos(b) \cap (Nos(results) \cup Nos(bundles) \cup Held(link[0]) \cup Counted) = {}
    BY DEF Spread
  <2>2. \A d \in batons' : Nos(d) \cap (Nos(results) \cup Nos(bundles) \cup Nos(b)) = {}
    BY <1>4 DEF Spread
  <2> QED BY <1>0, <1>1, <1>3, <1>4, <2>1, <2>2 DEF Spread
<1> QED BY <1>1, <1>2, <1>3, <1>5

(* Steps of a client by which no share is added to those it waits for.     *)
LEMMA LinkInv ==
    ASSUME Inv, NEW c \in Index, NEW STATE l, Goes(c, l),
           sequence' \in Nat, sequence <= sequence', LinkOk(c, l, sequence'),
           l.pending \subseteq link[c].pending,
           UNCHANGED <<jobResults, accepted, rejected, shares, counted>>,
           known' \subseteq Index \X (1 .. MaxSessions), pings' \in 0 .. MaxPings
    PROVE  Inv'
<1> USE DEF Inv
<1>0. 0 \in Index /\ sequence \in Nat /\ link \in [Index -> LinkRecord] /\ l \in LinkRecord
  BY DEF Index, TypeOK, LinkOk
<1>1. link' \in [Index -> LinkRecord] /\ link'[c] = l /\ \A d \in Index : d # c => link'[d] = link[d]
  BY <1>0 DEF Goes
<1>2. \A d \in Index : LinkOk(d, link'[d], sequence')
  BY <1>0, <1>1, LaterOk
<1>3. /\ UNCHANGED <<results, bundles, async, batons, todo>>
      /\ UNCHANGED <<accepted, rejected, shares, counted>>
  BY DEF jobResults
<1>4. TypeOK'
  BY <1>1, <1>3 DEF TypeOK
<1>5. Counted' = Counted /\ CountedOnce'
  BY <1>3 DEF Counted, CountedOnce
<1>6. link'[0].pending \subseteq link[0].pending
  BY <1>0, <1>1
<1>7. Held(link'[0]) \subseteq Held(link[0]) /\ OneEach(link'[0])
  BY <1>6 DEF Held, OneEach, Spread
<1>8. Spread'
  BY <1>3, <1>5, <1>7 DEF Spread
<1> QED BY <1>2, <1>3, <1>4, <1>5, <1>8

(* A result is handed over: at most it joins those its client waits for.   *)
LEMMA HandedInv ==
    ASSUME Inv, todo # <<>>, todo' = Tail(todo), NEW STATE m,
           Goes(Head(todo).index, m), sequence' \in Nat, sequence <= sequence',
           LinkOk(Head(todo).index, m, sequence'),
           m.pending \subseteq link[Head(todo).index].pending \cup {<<sequence, Head(todo)>>},
           UNCHANGED <<results, bundles, async, batons, accepted, rejected, known, shares, pings,
                       counted>>
    PROVE  Inv'
<1> USE DEF Inv
<1> DEFINE r == Head(todo)
           c == Head(todo).index
<1>0. /\ 0 \in Index /\ sequence \in Nat /\ link \in [Index -> LinkRecord] /\ m \in LinkRecord
      /\ todo \in Seq(Result)
  BY DEF Index, TypeOK, LinkOk
<1>1. /\ Tail(todo) \in Seq(Result) /\ r \in Result
      /\ Nos(todo) = Nos(Tail(todo)) \cup {r.no}
      /\ Apart(todo) => Apart(Tail(todo)) /\ r.no \notin Nos(Tail(todo))
  BY <1>0, TailFacts
<1>2. c \in Index /\ r.index = c
  BY <1>1 DEF Result
<1> HIDE DEF r, c
<1>3. link' = [link EXCEPT ![c] = m]
  BY DEF Goes, c
<1>4. /\ link' \in [Index -> LinkRecord] /\ link'[c] = m
      /\ \A d \in Index : d # c => link'[d] = link[d]
  BY <1>0, <1>2, <1>3
<1>5. LinkOk(c, m, sequence') /\ m.pending \subseteq link[c].pending \cup {<<sequence, r>>}
  BY DEF c, r
<1>6. \A d \in Index : LinkOk(d, link'[d], sequence')
  BY <1>0, <1>4, <1>5, LaterOk
<1>7. TypeOK'
  BY <1>1, <1>4 DEF TypeOK
<1>8. Counted' = Counted /\ CountedOnce'
  BY DEF Counted, CountedOnce
<1>9. Apart(Tail(todo)) /\ r.no \notin Nos(Tail(todo)) /\ r.no \in Nos(todo)
      /\ Nos(Tail(todo)) \subseteq Nos(todo)
  BY <1>1 DEF Spread
<1>10. link'[0].pending \subseteq link[0].pending \cup {<<sequence, r>>}
  BY <1>0, <1>2, <1>4, <1>5
<1>11. Held(link'[0]) \subseteq Held(link[0]) \cup {r.no}
  BY <1>10 DEF Held
<1>12. OneEach(link'[0])
  <2>1. r.no \notin Held(link[0])
    BY <1>9 DEF Spread
  <2>2. OneEach(link[0])
    BY DEF Spread
  <2> QED BY <1>10, <2>1, <2>2 DEF OneEach, Held
<1>13. /\ r.no \notin Nos(results) \cup Nos(bundles) \cup Counted /\ r.no \in 1 .. shares
       /\ \A b \in batons : r.no \notin Nos(b)
  BY <1>9 DEF Spread
<1>14. Spread'
  BY <1>8, <1>9, <1>11, <1>12, <1>13 DEF Spread
<1> QED BY <1>6, <1>7, <1>8, <1>14

(* Network::onJobResult keeps the invariant: the share is refused, sent,   *)
(* or lost in a write that fails.                                          *)
LEMMA DeliverInv ==
    ASSUME Inv, NEW broken \in BOOLEAN, Deliver(broken)
    PROVE  Inv'
<1> DEFINE r == Head(todo)
           c == r.index
           l == link[c]
<1>0. /\ todo # <<>> /\ todo' = Tail(todo)
      /\ UNCHANGED <<results, bundles, async, batons, accepted, rejected, known, shares, pings,
                     counted>>
      /\ \/ Refuses(l, r) /\ UNCHANGED <<link, sequence>>
         \/ ~Refuses(l, r) /\ Goes(c, Closed(l)) /\ UNCHANGED sequence
         \/ /\ ~Refuses(l, r)
            /\ Goes(c, IF broken THEN Closed([l EXCEPT !.pending = Sent(l, r).pending])
                       ELSE Sent(l, r))
            /\ sequence' = IF broken THEN sequence ELSE sequence + 1
  BY DEF Deliver, Pool
<1>1. /\ todo \in Seq(Result) /\ sequence \in Nat /\ link \in [Index -> LinkRecord]
  BY DEF Inv, TypeOK
<1>2. r \in Result /\ c \in Index /\ l \in LinkRecord /\ LinkOk(c, l, sequence)
  BY <1>0, <1>1, TailFacts DEF Result, Inv
<1> DEFINE joined == l.pending \cup {<<sequence, r>>}
<1>3. ASSUME NEW STATE m, Goes(c, m), sequence' \in Nat, sequence <= sequence',
             LinkOk(c, m, sequence'), m.pending \subseteq joined
      PROVE  Inv'
  BY <1>0, <1>3, HandedInv
<1>4. CASE Refuses(l, r) /\ UNCHANGED <<link, sequence>>
  <2>2. Goes(c, l)
    BY <1>1, <1>2, <1>4 DEF Goes
  <2>3. sequence' \in Nat /\ sequence <= sequence' /\ LinkOk(c, l, sequence')
    BY <1>1, <1>2, <1>4
  <2> QED BY <1>3, <2>2, <2>3
<1>5. CASE ~Refuses(l, r) /\ Goes(c, Closed(l)) /\ UNCHANGED sequence
  <2>1. LinkOk(c, Closed(l), sequence') /\ Closed(l).pending = l.pending
    BY <1>2, ClosedOk
  <2> QED BY <1>1, <1>3, <1>5, <2>1
<1>6. CASE /\ ~Refuses(l, r)
           /\ Goes(c, IF broken THEN Closed([l EXCEPT !.pending = Sent(l, r).pending])
                      ELSE Sent(l, r))
           /\ sequence' = IF broken THEN sequence ELSE sequence + 1
  <2> DEFINE k == [l EXCEPT !.pending = Sent(l, r).pending]
  <2>1. /\ ~Refuses(l, r) => LinkOk(c, Sent(l, r), sequence + 1)
        /\ Sent(l, r).pending = joined
        /\ k \in LinkRecord /\ k.pending = joined
    BY <1>1, <1>2, SentOk
  <2>2. ~Refuses(l, r)
    BY <1>6
  <2> HIDE DEF k
  <2>3. LinkOk(c, Closed(k), sequence) /\ Closed(k).pending = joined
    BY <1>2, <2>1, ClosedOk
  <2>4. CASE broken
    <3>1. Goes(c, Closed(k)) /\ sequence' = sequence
      BY <1>6, <2>4 DEF k
    <3>2. LinkOk(c, Closed(k), sequence') /\ sequence' \in Nat /\ sequence <= sequence'
      BY <1>1, <2>3, <3>1
    <3> QED BY <1>3, <2>3, <3>1, <3>2
  <2>5. CASE ~broken
    <3>1. Goes(c, Sent(l, r)) /\ sequence' = sequence + 1
      BY <1>6, <2>5
    <3>2. LinkOk(c, Sent(l, r), sequence') /\ sequence' \in Nat /\ sequence <= sequence'
      BY <1>1, <2>1, <2>2, <3>1
    <3> QED BY <1>3, <2>1, <3>1, <3>2
  <2> QED BY <2>4, <2>5
<1> QED BY <1>0, <1>4, <1>5, <1>6

(* An answer counts the share of its request, which was not counted yet. *)
LEMMA AnswerInv ==
    ASSUME Inv, NEW c \in Index, NEW q \in link[c].wire,
           NEW e \in {"none", "rejected", "critical"}, Answer(c, q, e)
    PROVE  Inv'
<1> DEFINE l == link[c]
           hit == {p \in l.pending : p[1] = q[1]}
           m == Erased(l, q[1])
           f == IF e = "critical" THEN Closed(m) ELSE m
<1>0. /\ Goes(c, f) /\ UNCHANGED <<jobResults, sequence, known, shares, pings>>
      /\ IF hit # {} /\ c = 0 THEN Add(hit, e) ELSE UNCHANGED <<accepted, rejected, counted>>
  BY DEF Answer
<1>1. /\ LinkOk(c, l, sequence) /\ sequence \in Nat /\ link \in [Index -> LinkRecord] /\ 0 \in Index
      /\ known \subseteq Index \X (1 .. MaxSessions) /\ pings \in 0 .. MaxPings
  BY DEF Inv, TypeOK, Index
<1>2. /\ LinkOk(c, m, sequence) /\ m.pending = {p \in l.pending : p[1] # q[1]}
      /\ hit = {q} \cap l.pending
  <2> HIDE DEF l
  <2>1. q \in l.wire
    BY DEF l
  <2> QED BY <1>1, <2>1, ErasedOk
<1> HIDE DEF m
<1>3. LinkOk(c, f, sequence) /\ f.pending = m.pending
  <2>1. m \in LinkRecord
    BY <1>2 DEF LinkOk
  <2>2. LinkOk(c, Closed(m), sequence) /\ Closed(m).pending = m.pending
    BY <2>1, ClosedOk
  <2> QED BY <1>2, <2>2
<1> HIDE DEF f
<1>4. CASE ~(hit # {} /\ c = 0)
  <2>1. UNCHANGED <<accepted, rejected, counted>>
    BY <1>0, <1>4
  <2>2. sequence' = sequence /\ known' = known /\ pings' = pings
        /\ UNCHANGED <<jobResults, accepted, rejected, shares, counted>>
    BY <1>0, <2>1
  <2>3. f.pending \subseteq link[c].pending
    BY <1>2, <1>3
  <2>4. LinkOk(c, f, sequence') /\ sequence' \in Nat /\ sequence <= sequence'
        /\ known' \subseteq Index \X (1 .. MaxSessions) /\ pings' \in 0 .. MaxPings
    BY <1>1, <1>3, <2>2
  <2> QED BY <1>0, <2>2, <2>3, <2>4, LinkInv
<1>5. CASE hit # {} /\ c = 0
  <2> DEFINE k == q[2].no
  <2>1. q \in l.pending /\ hit = {q}
    BY <1>2, <1>5
  <2>2. q[2] \in Result /\ k \in Held(link[0]) /\ k \in 1 .. MaxShares
    <3>1. q[2] \in Result
      BY <1>1, <2>1 DEF LinkRecord
    <3> QED BY <1>5, <2>1, <3>1 DEF Held, Result
  <2>3. Add(hit, e)
    BY <1>0, <1>5
  <2>4. \/ accepted' = accepted + 1 /\ rejected' = rejected
        \/ accepted' = accepted /\ rejected' = rejected + 1
    BY <2>3 DEF Add
  <2>5. counted' = [n \in 1 .. MaxShares |-> counted[n] + IF n = k THEN 1 ELSE 0]
    BY <2>1, <2>3 DEF Add
  <2> HIDE DEF hit, k
  <2>6. counted \in [1 .. MaxShares -> Nat] /\ \A n \in 1 .. MaxShares : counted[n] <= 1
    BY DEF Inv, TypeOK, CountedOnce
  <2>7. k \notin Counted /\ counted[k] = 0
    <3>1. k \notin Counted
      BY <2>2 DEF Inv, Spread
    <3> QED BY <2>2, <2>6, <3>1 DEF Counted
  <2>8. /\ \A n \in 1 .. MaxShares : n # k => counted'[n] = counted[n]
        /\ counted'[k] = 1
        /\ counted' \in [1 .. MaxShares -> Nat]
    BY <2>2, <2>5, <2>6, <2>7
  <2>9. Counted' = Counted \cup {k}
    BY <2>2, <2>8 DEF Counted
  <2>10. CountedOnce'
    <3>1. accepted + rejected = Cardinality(Counted)
      BY DEF Inv, CountedOnce, Counted
    <3>2. IsFiniteSet(Counted)
      <4>1. IsFiniteSet(1 .. MaxShares)
        BY SharesAssumption, FS_Interval
      <4> QED BY <4>1, FS_Subset DEF Counted
    <3>3. Cardinality(Counted') = Cardinality(Counted) + 1 /\ Cardinality(Counted) \in Nat
      BY <2>7, <2>9, <3>2, FS_AddElement, FS_CardinalityType
    <3>4. accepted \in Nat /\ rejected \in Nat
      BY DEF Inv, TypeOK
    <3>5. accepted' + rejected' = Cardinality(Counted')
      BY <2>4, <3>1, <3>3, <3>4
    <3>6. \A n \in 1 .. MaxShares : counted'[n] <= 1
      BY <2>6, <2>8
    <3> QED BY <3>5, <3>6 DEF CountedOnce, Counted
  <2>11. f \in LinkRecord /\ link' = [link EXCEPT ![c] = f]
    BY <1>0, <1>3 DEF LinkOk, Goes
  <2>12. /\ link' \in [Index -> LinkRecord] /\ link'[0] = f
         /\ \A d \in Index : d # 0 => link'[d] = link[d]
    BY <1>1, <1>5, <2>11
  <2>13. /\ UNCHANGED <<results, bundles, async, batons, todo>>
         /\ UNCHANGED <<sequence, known, shares, pings>>
    BY <1>0 DEF jobResults
  <2>14. TypeOK'
    <3>1. accepted' \in Nat /\ rejected' \in Nat
      BY <2>4 DEF Inv, TypeOK
    <3> QED BY <2>8, <2>12, <2>13, <3>1 DEF Inv, TypeOK
  <2>15. \A d \in Index : LinkOk(d, link'[d], sequence')
    BY <1>3, <1>5, <2>12, <2>13 DEF Inv
  <2>16. link'[0].pending = {p \in link[0].pending : p[1] # q[1]}
    BY <1>2, <1>3, <1>5, <2>12
  <2>17. /\ Held(link'[0]) \subseteq Held(link[0]) /\ k \notin Held(link'[0])
         /\ OneEach(link'[0])
    <3>1. OneEach(link[0])
      BY DEF Inv, Spread
    <3>2. Held(link'[0]) \subseteq Held(link[0]) /\ OneEach(link'[0])
      BY <2>16, <3>1 DEF Held, OneEach
    <3>3. k \notin Held(link'[0])
      BY <1>5, <2>1, <2>16, <3>1 DEF Held, OneEach, k
    <3> QED BY <3>2, <3>3
  <2>18. /\ k \notin Nos(results) \cup Nos(bundles) \cup Nos(todo) /\ k \in 1 .. shares
         /\ \A b \in batons : k \notin Nos(b)
    BY <2>2 DEF Inv, Spread
  <2>19. Spread'
    BY <2>9, <2>13, <2>17, <2>18 DEF Inv, Spread
  <2> QED BY <2>10, <2>13, <2>14, <2>15, <2>19 DEF Inv
<1> QED BY <1>4, <1>5

(* The steps of a connection. *)
LEMMA ConnectionInv ==
    ASSUME Inv, NEW c \in Index,
           Handshake(c) \/ Login(c) \/ LoggedIn(c) \/ Down(c) \/ SendPing(c)
    PROVE  Inv'
<1> DEFINE l == link[c]
<1>0. /\ LinkOk(c, l, sequence) /\ l \in LinkRecord /\ sequence \in Nat
      /\ known \subseteq Index \X (1 .. MaxSessions) /\ pings \in 0 .. MaxPings
  BY DEF Inv, TypeOK, LinkOk
<1>1. ASSUME NEW STATE m, Goes(c, m), sequence' \in {sequence, sequence + 1},
             LinkOk(c, m, sequence'), m.pending \subseteq l.pending,
             UNCHANGED <<jobResults, accepted, rejected, shares, counted>>,
             known' \subseteq Index \X (1 .. MaxSessions), pings' \in 0 .. MaxPings
      PROVE  Inv'
  <2>1. sequence' \in Nat /\ sequence <= sequence'
    BY <1>0, <1>1
  <2> QED BY <1>1, <2>1, LinkInv
<1>2. CASE Handshake(c)
  <2> DEFINE m == [l EXCEPT !.st = "tls"]
  <2>1. /\ l.st = "down" /\ Goes(c, m) /\ sequence' = sequence /\ known' = known /\ pings' = pings
        /\ UNCHANGED <<jobResults, accepted, rejected, shares, counted>>
    BY <1>2 DEF Handshake, Handler
  <2> HIDE DEF l
  <2>2. LinkOk(c, m, sequence) /\ m.pending = l.pending
    BY <1>0, <2>1, LoginOk
  <2> HIDE DEF m
  <2> QED BY <1>0, <1>1, <2>1, <2>2
<1>3. CASE Login(c)
  <2> DEFINE m == [l EXCEPT !.st = "login", !.pending = {}, !.logins = @ + 1]
  <2>1. /\ l.st \in {"down", "tls"} /\ l.logins < MaxSessions
        /\ Goes(c, m) /\ sequence' = sequence + 1 /\ known' = known /\ pings' = pings
        /\ UNCHANGED <<jobResults, accepted, rejected, shares, counted>>
    BY <1>3 DEF Login, Handler
  <2> HIDE DEF l
  <2>2. LinkOk(c, m, sequence + 1) /\ m.pending = {}
    BY <1>0, <2>1, LoginOk
  <2> HIDE DEF m
  <2> QED BY <1>0, <1>1, <2>1, <2>2
<1>4. CASE LoggedIn(c)
  <2> DEFINE id == SessionId(c, l)
             m == [l EXCEPT !.st = "up", !.rpc = id]
  <2>1. /\ l.st = "login" /\ Goes(c, m) /\ known' = known \cup {<<c, id>>}
        /\ sequence' = sequence /\ pings' = pings
        /\ UNCHANGED <<jobResults, accepted, rejected, shares, counted>>
    BY <1>4 DEF LoggedIn
  <2>2. id \in 1 .. MaxSessions
    BY <1>0, <2>1, SharesAssumption DEF LinkOk, LinkRecord, SessionId
  <2> HIDE DEF l
  <2>3. LinkOk(c, m, sequence) /\ m.pending = l.pending
    <3>1. \A x \in 1 .. MaxSessions : l.st = "login" /\ x = SessionId(c, l) =>
            LET k == [l EXCEPT !.st = "up", !.rpc = x]
            IN  LinkOk(c, k, sequence) /\ k.pending = l.pending
      BY <1>0, LoginOk
    <3>2. LET k == [l EXCEPT !.st = "up", !.rpc = id]
          IN  LinkOk(c, k, sequence) /\ k.pending = l.pending
      BY <2>1, <2>2, <3>1
    <3> QED BY <3>2
  <2> HIDE DEF id
  <2>4. known' \subseteq Index \X (1 .. MaxSessions)
    BY <1>0, <2>1, <2>2
  <2> HIDE DEF m
  <2> QED BY <1>0, <1>1, <2>1, <2>3, <2>4
<1>5. CASE Down(c)
  <2>1. /\ Goes(c, Closed(l)) /\ sequence' = sequence /\ known' = known /\ pings' = pings
        /\ UNCHANGED <<jobResults, accepted, rejected, shares, counted>>
    BY <1>5 DEF Down, Handler
  <2> HIDE DEF l
  <2>2. LinkOk(c, Closed(l), sequence') /\ Closed(l).pending = l.pending
    BY <1>0, ClosedOk
  <2> QED BY <1>0, <1>1, <2>1, <2>2
<1>6. CASE SendPing(c)
  <2> DEFINE m == [l EXCEPT !.wire = @ \cup {<<sequence, Ping>>}]
  <2>1. /\ l.st = "up" /\ Goes(c, m) /\ sequence' = sequence + 1
        /\ pings < MaxPings /\ pings' = pings + 1 /\ known' = known
        /\ UNCHANGED <<jobResults, accepted, rejected, shares, counted>>
    BY <1>6 DEF SendPing, PingSent
  <2>2. pings' \in 0 .. MaxPings
    BY <1>0, <2>1, SharesAssumption
  <2> HIDE DEF l
  <2>3. LinkOk(c, m, sequence + 1) /\ m.pending = l.pending
    BY <1>0, <2>1, PingOk
  <2> HIDE DEF m
  <2> QED BY <1>0, <1>1, <2>1, <2>2, <2>3
<1> QED BY <1>2, <1>3, <1>4, <1>5, <1>6

(* ... and every step keeps it. *)
LEMMA NextInv ==
    ASSUME Inv, [Next]_vars
    PROVE  Inv'
<1>1. CASE \E k \in known : \E d \in BOOLEAN :
             LET r == [no |-> shares + 1, index |-> k[1], session |-> k[2], done |-> d]
             IN  SubmitCpu(r) \/ SubmitGpu(r)
  BY <1>1, SubmitInv
<1>2. CASE Deliveries
  BY <1>2, OnAsyncInv, BatonDoneInv, DeliverInv DEF Deliveries
<1>3. CASE \E b \in batons : \E k \in DOMAIN b : CheckHash(b, k)
  BY <1>3, CheckHashInv
<1>4. CASE \E c \in Index : Handshake(c) \/ Login(c) \/ LoggedIn(c) \/ Down(c) \/ SendPing(c)
  BY <1>4, ConnectionInv
<1>5. CASE \E c \in Index : \E q \in link[c].wire : \E e \in {"none", "rejected", "critical"} :
             Answer(c, q, e)
  BY <1>5, AnswerInv
<1>6. CASE UNCHANGED vars
  <2>1. UNCHANGED <<results, bundles, async, batons, todo, link, sequence, accepted, rejected,
                    known, shares, pings, counted>>
    BY <1>6 DEF vars, jobResults, net
  <2>2. Counted' = Counted /\ TypeOK' /\ CountedOnce'
    BY <2>1 DEF Inv, Counted, TypeOK, CountedOnce
  <2>3. Spread'
    BY <2>1, <2>2 DEF Inv, Spread
  <2> QED BY <2>1, <2>2, <2>3 DEF Inv
<1> QED BY <1>1, <1>2, <1>3, <1>4, <1>5, <1>6 DEF Next

-----------------------------------------------------------------------------
(* The inductive invariant. *)
THEOREM Invariant == Spec => []Inv
<1>1. Init => Inv
  BY InitInv
<1>2. Inv /\ [Next]_vars => Inv'
  BY NextInv
<1> QED BY <1>1, <1>2, PTL DEF Spec

(* Type correctness. *)
THEOREM TypeCorrect == Spec => []TypeOK
<1>1. Inv => TypeOK
  BY DEF Inv
<1> QED BY <1>1, Invariant, PTL

(* Client::submit, login and BaseClient::handleSubmitResponse: an answer   *)
(* meets the share that was sent with its id, or none.                     *)
THEOREM CreditIsRight == Spec => []CreditedRight
<1>1. Inv => CreditedRight
  BY DEF Inv, LinkOk, CreditedRight
<1> QED BY <1>1, Invariant, PTL

(* NetworkState::add counts a share once. *)
THEOREM CountIsRight == Spec => []CountedOnce
<1>1. Inv => CountedOnce
  BY DEF Inv
<1> QED BY <1>1, Invariant, PTL

(* FailoverStrategy::submit and Client::submit: a connection carries the   *)
(* shares of the session it logged in to.                                  *)
THEOREM SharesOfTheSession == Spec => []OwnSession
<1>1. Inv => OwnSession
  <2> SUFFICES ASSUME Inv, NEW c \in Failover, NEW q \in link[c].wire, q[2] # Ping
               PROVE  /\ link[c].st = "up" /\ q[2].index = c
                      /\ q[2].session = SessionId(c, link[c])
    BY DEF OwnSession
  <2>1. LinkOk(c, link[c], sequence)
    BY SharesAssumption DEF Inv
  <2> QED BY <2>1 DEF LinkOk
<1> QED BY <1>1, Invariant, PTL
=============================================================================

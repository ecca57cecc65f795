------------------------------- MODULE Shares -------------------------------
(***************************************************************************)
(* The way of a share: found by a thread, queued in JobResults, checked on *)
(* the thread pool when a GPU found it, handed to Network::onJobResult,    *)
(* sent by the client of the user's pool or of the fee pool, answered, and *)
(* counted by NetworkState.                                                *)
(*                                                                         *)
(* An async call of libuv takes one queue at once; its results are handed  *)
(* over one by one (todo) while threads go on finding shares.  A client is *)
(* the part of Client.tla that matters here: no connection, a TLS          *)
(* handshake, a login sent, logged in.                                     *)
(***************************************************************************)
EXTENDS Integers, Sequences, SequencesExt

CONSTANTS
    Failover,     \* the pools mined through a FailoverStrategy
    Tls,          \* the pools with a TLS handshake
    Stable,       \* the pools whose session id never changes (Epic, Hacash)
    MaxShares,    \* bound on the shares found
    MaxSessions,  \* bound on the logins of a pool
    MaxPings      \* bound on the pings

Index == {0, 1}   \* 0: the user's pool; 1: the fee pool

ASSUME SharesAssumption ==
    /\ Failover \subseteq Index /\ Tls \subseteq Index /\ Stable \subseteq Index
    /\ MaxShares \in Nat /\ MaxSessions \in Nat /\ MaxPings \in Nat

VARIABLES
    results, bundles,   \* JobResultsPrivate::m_results, m_bundles
    async,              \* the async handle was sent
    batons,             \* bundles on the thread pool
    todo,               \* results the running callback still hands over
    link,               \* the clients
    sequence,           \* BaseClient::m_sequence, one for all clients
    accepted, rejected, \* NetworkState
    known,              \* sessions that gave a job to the miner
    shares, pings,      \* found and sent so far
    counted             \* not the program: how often a share was counted

jobResults == <<results, bundles, async, batons, todo>>
net == <<link, sequence, accepted, rejected>>
vars == <<jobResults, net, known, shares, pings, counted>>

(* JobResult: a share, or the notice that the nonces of a job are used up  *)
(* (diff 0).                                                               *)
Result == [no : 1 .. MaxShares, index : Index, session : 1 .. MaxSessions, done : BOOLEAN]
Ping   == [no |-> 0, index |-> 0, session |-> 1, done |-> FALSE]

LinkRecord ==
    [ st      : {"down", "tls", "login", "up"},
      rpc     : 0 .. MaxSessions,        \* m_rpcId: the session it is from, 0: null
      logins  : 0 .. MaxSessions,
      pending : SUBSET (Nat \X Result),  \* m_results: request id and share
      wire    : SUBSET (Nat \X (Result \cup {Ping})) ]   \* requests the pool got on
                                                         \* this connection

TypeOK ==
    /\ results \in Seq(Result) /\ bundles \in Seq(Result) /\ todo \in Seq(Result)
    /\ async \in BOOLEAN
    /\ \A b \in batons : b \in Seq(Result)
    /\ link \in [Index -> LinkRecord]
    /\ sequence \in Nat /\ accepted \in Nat /\ rejected \in Nat
    /\ known \subseteq Index \X (1 .. MaxSessions)
    /\ shares \in 0 .. MaxShares /\ pings \in 0 .. MaxPings
    /\ counted \in [1 .. MaxShares -> Nat]

Init ==
    /\ results = <<>> /\ bundles = <<>> /\ async = FALSE /\ batons = {} /\ todo = <<>>
    /\ link = [c \in Index |-> [st |-> "down", rpc |-> 0, logins |-> 0,
                                pending |-> {}, wire |-> {}]]
    /\ sequence = 1 /\ accepted = 0 /\ rejected = 0
    /\ known = {} /\ shares = 0 /\ pings = 0
    /\ counted = [n \in 1 .. MaxShares |-> 0]

-----------------------------------------------------------------------------
(* JobResults. *)

(* A thread finds a share of a job it was given, perhaps of a session that *)
(* has ended since, or uses up the nonces of the job.                      *)
Finds(r) ==
    /\ shares < MaxShares
    /\ r.no = shares + 1 /\ <<r.index, r.session>> \in known
    /\ shares' = shares + 1
    /\ UNCHANGED <<batons, todo, net, known, pings, counted>>

SubmitCpu(r) ==
    Finds(r) /\ results' = Append(results, r) /\ async' = TRUE /\ UNCHANGED bundles

SubmitGpu(r) ==
    /\ Finds(r) /\ ~r.done
    /\ bundles' = Append(bundles, r) /\ async' = TRUE /\ UNCHANGED results

Hands(rs) ==
    /\ todo = <<>> /\ todo' = rs
    /\ UNCHANGED <<net, known, shares, pings, counted>>

(* Mutant of OnAsync: returns after the results, the bundles wait for the  *)
(* next call.                                                              *)
OnAsync_Results ==
    /\ async /\ async' = FALSE
    /\ Hands(results) /\ results' = <<>>
    /\ bundles' = IF results = <<>> THEN <<>> ELSE bundles
    /\ batons' = IF bundles = <<>> \/ results # <<>> THEN batons ELSE batons \cup {bundles}

(* submit() on the event loop: both lists are swapped out under the lock.  *)
OnAsync ==
    /\ async /\ async' = FALSE
    /\ Hands(results) /\ results' = <<>> /\ bundles' = <<>>
    /\ batons' = IF bundles = <<>> THEN batons ELSE batons \cup {bundles}

(* getResults() on the thread pool: what the GPU got wrong is left out. *)
CheckHash(b, k) ==
    /\ b \in batons /\ batons' = (batons \ {b}) \cup {RemoveAt(b, k)}
    /\ UNCHANGED <<results, bundles, async, todo, net, known, shares, pings, counted>>

(* The callback after it hands over the rest. *)
BatonDone(b) ==
    /\ b \in batons /\ batons' = batons \ {b}
    /\ Hands(b)
    /\ UNCHANGED <<results, bundles, async>>

-----------------------------------------------------------------------------
(* Client. *)
Goes(c, l) == link' = [link EXCEPT ![c] = l]

(* close(): the socket goes, m_rpcId and m_results stay. *)
Closed(l) == [l EXCEPT !.st = "down", !.wire = {}]

(* Network::onJobResult. *)
Pool(r) == r.index

(* Mutant of Refuses: FailoverStrategy::submit does not ask isActive(). *)
Refuses_NotAsked(l, r) == r.session # l.rpc \/ l.st = "down"

(* Mutant of Refuses: the session of the share is not compared. *)
Refuses_AnySession(l, r) == (Pool(r) \in Failover /\ l.st # "up") \/ l.st = "down"

(* FailoverStrategy::submit and the first lines of Client::submit. *)
Refuses(l, r) ==
    \/ Pool(r) \in Failover /\ l.st # "up"
    \/ r.session # l.rpc \/ l.st = "down"

(* Nothing of a share leaves before the handshake is over (SSL_write). *)
Sent(l, r) ==
    [l EXCEPT !.pending = @ \cup {<<sequence, r>>},
              !.wire = IF l.st = "tls" THEN @ ELSE @ \cup {<<sequence, r>>}]

(* A result is handed over; broken: the write fails and the client closes. *)
Deliver(broken) ==
    LET r == Head(todo)
        c == Pool(r)
        l == link[c]
    IN  /\ todo # <<>> /\ todo' = Tail(todo)
        /\ \/ /\ Refuses(l, r) /\ ~broken
              /\ UNCHANGED <<link, sequence>>
           \/ /\ ~Refuses(l, r) /\ r.done /\ ~broken
              /\ Goes(c, Closed(l)) /\ UNCHANGED sequence
           \/ /\ ~Refuses(l, r) /\ ~r.done
              /\ Goes(c, IF broken THEN Closed([l EXCEPT !.pending = Sent(l, r).pending])
                         ELSE Sent(l, r))
              /\ sequence' = IF broken THEN sequence ELSE sequence + 1
        /\ UNCHANGED <<results, bundles, async, batons, accepted, rejected, known, shares, pings,
                       counted>>

(* Handlers of the event loop that leave JobResults alone. *)
Handler == todo = <<>> /\ UNCHANGED <<jobResults, known, shares, pings, counted>>

(* onConnect(): the TLS handshake, or at once the login. *)
Handshake(c) ==
    /\ c \in Tls /\ link[c].st = "down" /\ link[c].logins < MaxSessions
    /\ Goes(c, [link[c] EXCEPT !.st = "tls"])
    /\ Handler /\ UNCHANGED <<sequence, accepted, rejected>>

(* Mutant of Login: what was never answered is kept. *)
Login_Keeps(c) ==
    /\ link[c].st = (IF c \in Tls THEN "tls" ELSE "down") /\ link[c].logins < MaxSessions
    /\ Goes(c, [link[c] EXCEPT !.st = "login", !.wire = {}, !.logins = @ + 1])
    /\ sequence' = sequence + 1
    /\ Handler /\ UNCHANGED <<accepted, rejected>>

(* login() *)
Login(c) ==
    /\ link[c].st = (IF c \in Tls THEN "tls" ELSE "down") /\ link[c].logins < MaxSessions
    /\ Goes(c, [link[c] EXCEPT !.st = "login", !.pending = {}, !.logins = @ + 1])
    /\ sequence' = sequence + 1
    /\ Handler /\ UNCHANGED <<accepted, rejected>>

(* The session id a pool gives to the login under way. *)
SessionId(c, l) == IF c \in Stable THEN 1 ELSE l.logins

(* parseResponse(), the login is accepted with a session id and a job. *)
LoggedIn(c) ==
    /\ link[c].st = "login" /\ todo = <<>>
    /\ LET id == SessionId(c, link[c])
       IN  Goes(c, [link[c] EXCEPT !.st = "up", !.rpc = id]) /\ known' = known \cup {<<c, id>>}
    /\ UNCHANGED <<jobResults, sequence, accepted, rejected, shares, pings, counted>>

(* A refused login, a lost connection, a timeout. *)
Down(c) ==
    /\ link[c].st # "down"
    /\ Goes(c, Closed(link[c]))
    /\ Handler /\ UNCHANGED <<sequence, accepted, rejected>>

(* Mutant of PingSent: sent with the id of the next request. *)
PingSent_SameId(c) ==
    Goes(c, [link[c] EXCEPT !.wire = @ \cup {<<sequence, Ping>>}]) /\ UNCHANGED sequence

PingSent(c) ==
    Goes(c, [link[c] EXCEPT !.wire = @ \cup {<<sequence, Ping>>}]) /\ sequence' = sequence + 1

SendPing(c) ==
    /\ link[c].st = "up" /\ pings < MaxPings /\ todo = <<>>
    /\ pings' = pings + 1
    /\ PingSent(c)
    /\ UNCHANGED <<jobResults, accepted, rejected, known, shares, counted>>

(* Mutant of Erased: an answered share stays. *)
Erased_Not(l, id) == l

(* m_results.erase() *)
Erased(l, id) == [l EXCEPT !.pending = {p \in @ : p[1] # id}]

(* NetworkState::add *)
Add(hit, error) ==
    /\ accepted' = IF error = "none" THEN accepted + 1 ELSE accepted
    /\ rejected' = IF error = "none" THEN rejected ELSE rejected + 1
    /\ counted' = [n \in 1 .. MaxShares |->
                     counted[n] + IF \E p \in hit : p[2].no = n THEN 1 ELSE 0]

(* parseResponse() and handleSubmitResponse(): the pool answers a request  *)
(* of this connection, perhaps once more; a critical error (any error, for *)
(* the client with id 1) closes it.  Results of the fee pool, whose        *)
(* listener is Network and not NetworkState, are not counted.              *)
Answer(c, q, error) ==
    LET l   == link[c]
        hit == {p \in l.pending : p[1] = q[1]}
        m   == Erased(l, q[1])
    IN  /\ todo = <<>> /\ q \in l.wire
        /\ error \in {"none", "rejected", "critical"}
        /\ Goes(c, IF error = "critical" THEN Closed(m) ELSE m)
        /\ IF hit # {} /\ c = 0
           THEN Add(hit, error)
           ELSE UNCHANGED <<accepted, rejected, counted>>
        /\ UNCHANGED <<jobResults, sequence, known, shares, pings>>

-----------------------------------------------------------------------------
Deliveries == OnAsync \/ (\E b \in batons : BatonDone(b)) \/ \E x \in BOOLEAN : Deliver(x)

Next ==
    \/ \E k \in known : \E d \in BOOLEAN :
          LET r == [no |-> shares + 1, index |-> k[1], session |-> k[2], done |-> d]
          IN  SubmitCpu(r) \/ SubmitGpu(r)
    \/ Deliveries
    \/ \E b \in batons : \E k \in DOMAIN b : CheckHash(b, k)
    \/ \E c \in Index : Handshake(c) \/ Login(c) \/ LoggedIn(c) \/ Down(c) \/ SendPing(c)
    \/ \E c \in Index : \E q \in link[c].wire : \E e \in {"none", "rejected", "critical"} :
          Answer(c, q, e)

Spec == Init /\ [][Next]_vars

(* The event loop and the thread pool run; pools owe nothing. *)
FairSpec == Spec /\ WF_vars(Deliveries)
-----------------------------------------------------------------------------
(* What a logged-in client waits for is what it has sent with that id on   *)
(* this connection: the ids are of one counter for all clients, requests   *)
(* that failed included, and the answer to a ping is never taken for the   *)
(* answer to a share (Client::submit, login, BaseClient::m_sequence).      *)
CreditedRight ==
    \A c \in Index : link[c].st \in {"login", "up"} =>
       /\ link[c].pending \subseteq link[c].wire
       /\ \A p, q \in link[c].wire : p[1] = q[1] => p = q

(* The totals of NetworkState count a share once, however often a pool     *)
(* answers and whatever it answers, and nothing but shares.                *)
CountedOnce ==
    /\ \A n \in 1 .. MaxShares : counted[n] <= 1
    /\ accepted + rejected = Cardinality({n \in 1 .. MaxShares : counted[n] = 1})

(* Over a FailoverStrategy a connection carries shares of its own login    *)
(* only, though m_rpcId keeps the id of the last session from close() to   *)
(* the answer of the next login, and the queues hold shares of both pools  *)
(* and of older sessions (isActive(), then Client::submit).  A             *)
(* SinglePoolStrategy does not ask whether it is active: a share of the    *)
(* last session may go out between a login and its answer.  A share whose  *)
(* session has ended by the time it is handed over is dropped by both.     *)
OwnSession ==
    \A c \in Failover : \A q \in link[c].wire :
        q[2] # Ping => /\ link[c].st = "up" /\ q[2].index = c
                       /\ q[2].session = SessionId(c, link[c])

(* Nothing stays in JobResults: every share a thread found is handed over, *)
(* though async calls merge (JobResultsPrivate::submit).                   *)
AllHandedOver == <>[](results = <<>> /\ bundles = <<>> /\ batons = {} /\ todo = <<>>)
=============================================================================

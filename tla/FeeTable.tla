------------------------------ MODULE FeeTable ------------------------------
(***************************************************************************)
(* The table of fee routes (net/strategies/FeeTable.cpp) and the HTTP      *)
(* request that refreshes it (base/net/http/HttpClient.cpp).               *)
(*                                                                         *)
(* The table starts with the built-in routes and is replaced by a file the *)
(* operator publishes: signed, numbered and dated.  A file is fetched at   *)
(* start and then periodically; one request at most is under way.          *)
(*                                                                         *)
(* Data: a route is an opaque value, the list of routes is kept per target *)
(* (FeeTable::routes filters the list by target and keeps its order), and  *)
(* a file is the record of what apply() looks at.  Time: the steady-clock  *)
(* deadlines are kept as the time left until them; the wall clock, which   *)
(* only the expiry date is compared with, is a variable of its own.        *)
(***************************************************************************)
EXTENDS Naturals, Sequences, FiniteSets

CONSTANTS
    Target,             \* FeeTarget: CPU, GPU
    Route,              \* the routes a file may name
    Builtin,            \* builtin(): target -> non-empty list of routes
    File,               \* the bodies the server may answer with
    kMaxRoutes,         \* routes in one file
    kMaxValidity,       \* how far in the future a file may expire
    kFirstFetchDelay,   \* first request after start()
    kRefreshInterval,   \* next request after a good file
    kRetryInterval,     \* next request after a failure
    kFetchTimeout,      \* FetchRequest::timeout
    MaxWall             \* bound on the wall clock

NonEmptySeq(S) == Seq(S) \ {<<>>}

(* What apply() reads from an answer: signed - the envelope parses, both   *)
(* parts decode and the signature of the payload verifies; shape - the     *)
(* payload is version 1 with its members; valid - parseRoute() takes every *)
(* entry (so every route is usable: it has a host and a port).             *)
FileType == [signed : BOOLEAN, shape : BOOLEAN, seq : Nat, expires : Nat,
             valid : BOOLEAN, routes : [Target -> Seq(Route)]]

ASSUME BuiltinAssumption == Builtin \in [Target -> NonEmptySeq(Route)]

ASSUME FileAssumption == File \subseteq FileType

ASSUME NumberAssumption ==
    /\ {kMaxRoutes, kMaxValidity, kFirstFetchDelay, MaxWall} \subseteq Nat
    /\ {kRefreshInterval, kRetryInterval, kFetchTimeout} \subseteq Nat \ {0}

VARIABLES
    off,        \* POOLPAYMINER_NO_REMOTE_FEE_ROUTES is set
    gpu,        \* State::gpu
    current,    \* State::current, per target
    version,    \* State::version
    sequence,   \* State::sequence: number of the file in use, 0 = built-in
    started,    \* State::started
    busy,       \* State::busy
    wait,       \* State::next - now, 0 once the request is due
    reqs,       \* the HTTP requests that still owe a callback
    wall        \* time(nullptr)

table == <<current, version, sequence>>
tableVars == <<off, gpu, current, version, sequence, started, busy, wait, reqs, wall>>

Phase   == {"dns", "stalled", "connect", "read"}
Request == [phase : Phase, left : 0 .. kFetchTimeout]

TableTypeOK ==
    /\ off \in BOOLEAN /\ gpu \in BOOLEAN /\ started \in BOOLEAN /\ busy \in BOOLEAN
    /\ current \in [Target -> Seq(Route)]
    /\ version \in Nat /\ sequence \in Nat /\ wait \in Nat /\ wall \in Nat
    /\ reqs \in Seq(Request)

TableInit ==
    /\ off \in BOOLEAN
    /\ gpu \in BOOLEAN
    /\ current = Builtin
    /\ version = 1
    /\ sequence = 0
    /\ started = FALSE
    /\ busy = FALSE
    /\ wait = 0
    /\ reqs = <<>>
    /\ wall = 0

-----------------------------------------------------------------------------
(* apply(): the reason a file is refused, or "" when it is taken. *)
Listed(f) == UNION {{<<t, i>> : i \in DOMAIN f.routes[t]} : t \in Target}

(* Mutant of Why: the signature is not checked. *)
Why_Unsigned(f) == IF f.shape /\ f.seq > sequence /\ f.valid THEN "" ELSE "unusable"

(* Mutant of Why: a file with the number of the one in use is taken again. *)
Why_SameNumber(f) == IF f.signed /\ f.valid /\ f.seq >= sequence THEN "" ELSE "unusable"

Why(f) ==
    CASE ~f.signed -> "invalid signature"
      [] f.signed /\ ~f.shape -> "unsupported content"
      [] f.signed /\ f.shape /\ f.seq <= sequence -> "not newer"
      [] OTHER ->
           IF \/ f.expires <= wall \/ f.expires > wall + kMaxValidity
              \/ Cardinality(Listed(f)) \notin 1 .. kMaxRoutes
              \/ ~f.valid
           THEN "unusable" ELSE ""

(* The routes of the targets the file names, the built-in ones elsewhere. *)
Merged(f) == [t \in Target |-> IF f.routes[t] # <<>> THEN f.routes[t] ELSE Builtin[t]]

Drop(i) == [j \in 1 .. Len(reqs) - 1 |-> IF j < i THEN reqs[j] ELSE reqs[j + 1]]

(* Listener::onHttpData for an answer with status 200 and body f ... *)
OnFile(i, f) ==
    /\ busy' = FALSE
    /\ reqs' = Drop(i)
    /\ IF Why(f) = ""
       THEN /\ current'  = Merged(f)
            /\ sequence' = f.seq
            /\ version'  = version + 1
       ELSE UNCHANGED table
    /\ wait' = IF Why(f) \in {"", "not newer"} THEN kRefreshInterval ELSE kRetryInterval
    /\ UNCHANGED <<off, gpu, started, wall>>

(* Mutant of OnFailure: busy is not reset. *)
OnFailure_StaysBusy(i) ==
    /\ reqs' = Drop(i)
    /\ wait' = kRetryInterval
    /\ UNCHANGED <<off, gpu, started, busy, wall, current, version, sequence>>

(* ... and for any other status, or an error of the connection. *)
OnFailure(i) ==
    /\ busy' = FALSE
    /\ reqs' = Drop(i)
    /\ wait' = kRetryInterval
    /\ UNCHANGED <<off, gpu, started, wall, current, version, sequence>>

-----------------------------------------------------------------------------
(* The request: name lookup, connection, answer, each of them may fail.    *)
(* A failed lookup returns without closing: only the timer ends it.        *)
Advance(i, from, to) ==
    /\ reqs[i].phase = from
    /\ reqs' = [reqs EXCEPT ![i].phase = to]
    /\ UNCHANGED <<off, gpu, current, version, sequence, started, busy, wait, wall>>

Resolved(i)      == Advance(i, "dns", "connect")
ResolveFailed(i) == Advance(i, "dns", "stalled")
Connected(i)     == Advance(i, "connect", "read")

ConnectFailed(i) == reqs[i].phase = "connect" /\ OnFailure(i)
Answered(i, f)   == reqs[i].phase = "read" /\ OnFile(i, f)
AnswerFailed(i)  == reqs[i].phase = "read" /\ OnFailure(i)

(* Mutant of TimedOut: the request is made without a timeout. *)
TimedOut_Never(i) == reqs[i].phase = "none" /\ OnFailure(i)

TimedOut(i)      == reqs[i].left = 0 /\ OnFailure(i)

-----------------------------------------------------------------------------
SetGpu(g) ==
    /\ gpu' = g
    /\ UNCHANGED <<off, current, version, sequence, started, busy, wait, reqs, wall>>

Start ==
    /\ ~started /\ ~off
    /\ started' = TRUE
    /\ wait' = kFirstFetchDelay
    /\ UNCHANGED <<off, gpu, current, version, sequence, busy, reqs, wall>>

(* Time passes and Network::tick calls FeeTable::tick.  A request whose    *)
(* timer has run out fires it before the clock moves on.                   *)
Due == started /\ ~busy /\ wait <= 1

Sooner == IF wait = 0 THEN 0 ELSE wait - 1

Older == [i \in 1 .. Len(reqs) |-> [reqs[i] EXCEPT !.left = @ - 1]]

TableTick ==
    /\ \A i \in 1 .. Len(reqs) : reqs[i].left > 0
    /\ IF Due
       THEN /\ busy' = TRUE
            /\ wait' = kRetryInterval
            /\ reqs' = Append(Older, [phase |-> "dns", left |-> kFetchTimeout])
       ELSE /\ wait' = Sooner
            /\ reqs' = Older
            /\ UNCHANGED busy
    /\ UNCHANGED <<off, gpu, current, version, sequence, started, wall>>

WallTick ==
    /\ wall < MaxWall
    /\ wall' = wall + 1
    /\ UNCHANGED <<off, gpu, current, version, sequence, started, busy, wait, reqs>>

RequestStep(i) ==
    \/ Resolved(i) \/ ResolveFailed(i)
    \/ Connected(i) \/ ConnectFailed(i)
    \/ \E f \in File : Answered(i, f)
    \/ AnswerFailed(i)
    \/ TimedOut(i)

TableNext ==
    \/ Start
    \/ \E g \in BOOLEAN : SetGpu(g)
    \/ TableTick
    \/ WallTick
    \/ \E i \in 1 .. Len(reqs) : RequestStep(i)

TableSpec == TableInit /\ [][TableNext]_tableVars

(* The loop keeps ticking, start() is called by the constructor of Network *)
(* and an armed timer fires; the network promises nothing.                 *)
TableFairness ==
    /\ WF_tableVars(Start)
    /\ WF_tableVars(TableTick)
    /\ WF_tableVars(\E i \in 1 .. Len(reqs) : TimedOut(i))

FairTableSpec == TableSpec /\ TableFairness

-----------------------------------------------------------------------------
(* Every target has a route at any moment, whatever files were published:  *)
(* mainRoute() never fails, so the fee pools of DonateStrategy are never   *)
(* an empty list (it takes m_pools.front() without a check).               *)
AlwaysARoute == \A t \in Target : current[t] # <<>>

(* A file that apply() takes. *)
Usable(f) == /\ f.signed /\ f.shape /\ f.valid
             /\ Cardinality(Listed(f)) \in 1 .. kMaxRoutes

(* Until a file is taken the table is the built-in one.  Afterwards the    *)
(* file whose number is remembered was signed and valid and rules every    *)
(* target it names, and a target it does not name has its built-in routes  *)
(* or those of an earlier file that was as good: refused and half-read     *)
(* files leave no trace (apply()).  Which of the two an unnamed target has *)
(* is left open here, because comment and code disagree: FeeTable.cpp:445  *)
(* says "the others stay as they are", and the code at 453 gives them the  *)
(* built-in routes again (Merged).                                         *)
FromSignedFile ==
    /\ sequence = 0 => current = Builtin /\ version = 1
    /\ sequence > 0 => \E f \in File :
           /\ Usable(f) /\ f.seq = sequence
           /\ \A t \in Target : f.routes[t] # <<>> => current[t] = f.routes[t]
    /\ \A t \in Target :
           \/ current[t] = Builtin[t]
           \/ \E f \in File : /\ Usable(f) /\ f.seq <= sequence
                              /\ f.routes[t] # <<>> /\ current[t] = f.routes[t]

(* busy says exactly whether a request is under way: there is at most one, *)
(* none that the table forgot, and none at all when updates are turned off *)
(* (FeeTable.h: "no request is made then").                                *)
SingleRequest ==
    /\ Len(reqs) = IF busy THEN 1 ELSE 0
    /\ busy => started
    /\ off => ~started

(* A file is never applied twice nor replaced by an older one, and every   *)
(* change of the table changes the version by which DonateStrategy notices *)
(* it (refreshRoutes compares version()).                                  *)
NoRollback ==
    [][(current' # current \/ sequence' # sequence)
          => sequence' > sequence /\ version' = version + 1]_tableVars

(* The miner never stops asking: whatever the network does to a request    *)
(* (also a lookup that fails, which no callback reports), the next request *)
(* follows.                                                                *)
KeepsAsking == [](started => <>(busy /\ <>~busy))
=============================================================================

------------------------------ MODULE PoolLink ------------------------------
(***************************************************************************)
(* What the owner of a pool strategy may rely on: Network for the main     *)
(* pools, DonateStrategy for the fee pools.  Strategy.tla, the strategies  *)
(* with their clients, implements this specification.                      *)
(*                                                                         *)
(*   none      no client will do anything by itself                        *)
(*   trying    some client is connecting, waiting or closing               *)
(*   active    isActive()                                                  *)
(*   stopping  SinglePoolStrategy after stop(): active until the socket is *)
(*             closed                                                      *)
(*                                                                         *)
(* A lookup that was under way when stop() was called goes on, so a        *)
(* strategy that is not wanted any more may still log in.                  *)
(***************************************************************************)
CONSTANT Single     \* SinglePoolStrategy, not FailoverStrategy
VARIABLE link

Off    == [st |-> "none", wanted |-> FALSE]
Trying == [st |-> "trying", wanted |-> TRUE]

LinkType == [st : {"none", "trying", "active", "stopping"}, wanted : BOOLEAN]

Init == link \in {Off, Trying}

(* connect() of the owner. *)
Connect == link = Off /\ link' = Trying

(* onLoginSuccess(): onActive is called, again when the first pool takes   *)
(* over from a reserve.                                                    *)
Login ==
    /\ link.st = "trying" \/ (link.st = "active" /\ ~Single)
    /\ link' = [st |-> "active", wanted |-> link.wanted]

(* onClose(): onPause is called. *)
Lost == link.st = "active" /\ link' = [st |-> "trying", wanted |-> link.wanted]

(* The last client of a stopped strategy is done. *)
Over ==
    /\ ~link.wanted /\ link.st = "trying"
    /\ link' = Off

(* The late close callback of SinglePoolStrategy: onPause is called. *)
Stopped ==
    /\ ~link.wanted /\ link.st = "stopping"
    /\ link' = Off

(* stop(): FailoverStrategy is inactive at once and calls onPause. *)
Stop ==
    \E s \in {"none", "trying", "stopping"} :
       /\ s = "stopping" <=> Single /\ link.st \in {"active", "stopping"}
       /\ link.st = "none" => s = "none"
       /\ link' = [st |-> s, wanted |-> FALSE]

Next == Connect \/ Login \/ Lost \/ Over \/ Stopped \/ Stop

Spec == Init /\ [][Next]_link
=============================================================================

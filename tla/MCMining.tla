------------------------------ MODULE MCMining ------------------------------
(* Three seeds, two of them of one algorithm, and one thread. *)
EXTENDS Mining, TLC

CONSTANTS s1, s2, s3, w1

MCSeed   == {s1, s2, s3}
MCWorker == {w1}
MCAlgo   == (s1 :> "rx/0") @@ (s2 :> "rx/0") @@ (s3 :> "rx/arq")
=============================================================================

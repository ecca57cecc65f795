---------------------------- MODULE MCFeeTable ----------------------------
(* Instance of FeeTable for TLC: two targets, files that differ in each of *)
(* the things apply() looks at.                                            *)
EXTENDS FeeTable

CONSTANTS cpu, gpuT, c0, g0, c1, g1

MCTarget  == {cpu, gpuT}
MCRoute   == {c0, g0, c1, g1}
MCBuiltin == [t \in MCTarget |-> IF t = cpu THEN <<c0>> ELSE <<g0>>]

FileOf(cs, gs, seq, expires) ==
    [signed |-> TRUE, shape |-> TRUE, seq |-> seq, expires |-> expires, valid |-> TRUE,
     routes |-> [t \in MCTarget |-> IF t = cpu THEN cs ELSE gs]]

(* Names the CPU target only; the GPU only; both; a second file with the   *)
(* same number; one that expires; one too many routes; none; an invalid    *)
(* route; a forged file; a file of another version; an old number.         *)
MCFile ==
    { FileOf(<<c1>>, <<>>, 1, 2), FileOf(<<>>, <<g1>>, 2, 3), FileOf(<<c1, c0>>, <<g1>>, 3, 3),
      FileOf(<<c0, c1>>, <<g0, g1>>, 4, 9),
      FileOf(<<c1, c0, c1>>, <<g1>>, 4, 3), FileOf(<<>>, <<>>, 4, 3),
      [FileOf(<<c1>>, <<g1>>, 4, 3) EXCEPT !.valid = FALSE],
      [FileOf(<<c1>>, <<g1>>, 4, 3) EXCEPT !.signed = FALSE],
      [FileOf(<<c1>>, <<g1>>, 4, 3) EXCEPT !.shape = FALSE],
      FileOf(<<c1, c1>>, <<g1>>, 3, 3), FileOf(<<c1>>, <<>>, 0, 3) }
=============================================================================

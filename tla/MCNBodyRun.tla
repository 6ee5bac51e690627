---------------------------- MODULE MCNBodyRun ----------------------------
(***************************************************************************)
(* Instances of NBodyRun for TLC.                                          *)
(***************************************************************************)
EXTENDS NBodyRun

\* Zero, two ordinary values, the worst case and infinity ...
FiniteLikelihoods == 0..(Worst + 1)

\* ... and NaN.
AllLikelihoods == {NaN} \cup FiniteLikelihoods

\* One value better than the worst case, the worst case and NaN.
FewLikelihoods == {NaN, 1, Worst}
=============================================================================

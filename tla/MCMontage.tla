----------------------------- MODULE MCMontage -----------------------------
(* An instance of Montage for TLC. *)
EXTENDS Montage

\* A clip that is played faster and begins late, and one with a cut.
MCClips ==
  << [t0 |-> 1, t1 |-> 4, cut0 |-> 4, cut1 |-> 4, rate |-> 2],
     [t0 |-> 0, t1 |-> 4, cut0 |-> 2, cut1 |-> 3, rate |-> 3] >>
=============================================================================

---------------------------- MODULE MCConfigFiles ----------------------------
(* Instances of ConfigFiles for TLC. *)
EXTENDS ConfigFiles, TLC

\* One camera; two that are calibrated and checked; a file that does not load.
SomeFiles ==
  {Default, [Default EXCEPT !.ir = "video2", !.homography = "measured", !.cross = TRUE], Torn}

Symmetry == Permutations(Procs)

=============================================================================

--------------------------- MODULE MCUnlockDaemon ---------------------------
(* Instances of UnlockDaemon for TLC. *)
EXTENDS UnlockDaemon

\* One frame at a time, two of two attempts; and pairs of frames, one of two.
SomeConfigs ==
  {[required |-> 2, attempts |-> 2, crossCheck |-> FALSE],
   [required |-> 1, attempts |-> 2, crossCheck |-> TRUE]}

=============================================================================

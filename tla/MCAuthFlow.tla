----------------------------- MODULE MCAuthFlow -----------------------------
(* Instances of AuthFlow for TLC. *)
EXTENDS AuthFlow

Base == [required |-> 1, attempts |-> 1,
         sudo |-> [required |-> 2, attempts |-> 3],
         session |-> [required |-> None, attempts |-> None],
         crossCheck |-> FALSE, fallback |-> TRUE, denyOnCamera |-> FALSE]

\* The defaults scaled down, a config without fallback, and one with
\* cross-check by which two of two attempts must match for sudo.
SomeConfigs ==
  {Base,
   [Base EXCEPT !.fallback = FALSE, !.sudo = [required |-> None, attempts |-> 2]],
   [Base EXCEPT !.crossCheck = TRUE, !.fallback = FALSE, !.denyOnCamera = TRUE,
                !.sudo = [required |-> 2, attempts |-> 2]]}

=============================================================================

--------------------------- MODULE MCJobLifecycle ---------------------------
(* Small instances of JobLifecycle for TLC. *)
EXTENDS JobLifecycle, TLC

(* Ids carry no order: no action and no safety property tells two apart.   *)
MCSymmetry == Permutations(Jobs) \union Permutations(Runs)
=============================================================================

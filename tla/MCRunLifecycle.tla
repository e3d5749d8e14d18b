---------------------------- MODULE MCRunLifecycle ----------------------------
(* Instances of RunLifecycle for TLC. *)
EXTENDS RunLifecycle, TLC

CONSTANTS r1, r2, c1

\* Two runs that race in one conversation.
SharedHome == (r1 :> c1) @@ (r2 :> c1)

Symmetry == Permutations(Runs)

\* One run of its own.
OwnHome == r1 :> c1
===============================================================================

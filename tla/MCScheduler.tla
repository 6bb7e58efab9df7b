------------------------------ MODULE MCScheduler -----------------------------
(* Four cases of two semantics; the first of each is the unperturbed one. *)
EXTENDS Scheduler

MCSemantic == [c \in Cases |-> IF c <= 2 THEN "x" ELSE "y"]
MCControls == {1, 3}
\* generate_trajectories marks the first case of the pool only.
MCSeedOnly == {1}
=============================================================================

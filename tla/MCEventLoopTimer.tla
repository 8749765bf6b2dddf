-------------------------- MODULE MCEventLoopTimer --------------------------
(* Instances of EventLoopTimer for TLC.                                    *)
EXTENDS EventLoopTimer, TLC

Symmetry == Permutations(Timers)
=============================================================================

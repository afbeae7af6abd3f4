---------------------- MODULE MCRCAcceleratorScheduler ----------------------
(* Small instances of RCAcceleratorScheduler for TLC.                      *)
EXTENDS RCAcceleratorScheduler, TLC

CONSTANTS t1, t2, t3, t4

(* The threads are interchangeable: a call chooses its own priority. *)
ThreadSymmetry == Permutations(Thread)

(* One slot per lane makes displacement and rejection frequent; mining has *)
(* two, so that order within a lane matters.                               *)
TwoMiningSlots == [p \in Priority |-> IF p = Mining THEN 2 ELSE 1]

(* The limits of the code. *)
MAX_WAITERS_PER_LANE == [p \in Priority |-> 2]
=============================================================================

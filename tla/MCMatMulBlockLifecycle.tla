----------------------- MODULE MCMatMulBlockLifecycle -----------------------
(* Small instances of MatMulBlockLifecycle for TLC.                        *)
EXTENDS MatMulBlockLifecycle, TLC

CONSTANTS h1, h2, h3

(* The hashes are interchangeable: no operation orders or inspects them. *)
HashSymmetry == Permutations(Hash)
=============================================================================

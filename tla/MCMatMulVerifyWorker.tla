------------------------ MODULE MCMatMulVerifyWorker ------------------------
(* Small instances of MatMulVerifyWorker for TLC.                          *)
EXTENDS MatMulVerifyWorker, TLC

CONSTANTS h1, h2, w1, w2

(* Two siblings: the case HandoffAuthenticatedTip is about. *)
Siblings == [h \in Hash |-> 1]
=============================================================================

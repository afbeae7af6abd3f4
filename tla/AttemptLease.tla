---------------------------- MODULE AttemptLease ----------------------------
(***************************************************************************)
(* What the MatMul block lifecycle table promises its callers: for every   *)
(* block hash at most one expensive validation attempt is live, it is      *)
(* named by a generation that is never used again, and only an attempt     *)
(* whose lease has run out can be displaced by a newer one.                *)
(***************************************************************************)
EXTENDS Naturals

CONSTANT Hash           \* block hashes

VARIABLES
    owner,              \* owner[h]: generation of the live attempt, 0 if none
    overdue,            \* the hashes whose live attempt has outlived its lease
    last                \* the last generation handed out

vars == <<owner, overdue, last>>

Init ==
    /\ owner = [h \in Hash |-> 0]
    /\ overdue = {}
    /\ last = 0

(* The attempts of the hashes in R end; other leases may be renewed. *)
End(R) ==
    /\ owner' = [h \in Hash |-> IF h \in R THEN 0 ELSE owner[h]]
    /\ overdue' \subseteq overdue \ R
    /\ UNCHANGED last

(* A new attempt begins: the hash is free, or its attempt is overdue. *)
Acquire(h) ==
    /\ owner[h] = 0 \/ h \in overdue
    /\ owner' = [owner EXCEPT ![h] = last + 1]
    /\ overdue' = overdue \ {h}
    /\ last' = last + 1

(* Time passes: the leases of some live attempts run out. *)
RunOut ==
    /\ overdue \subseteq overdue'
    /\ overdue' \subseteq {h \in Hash : owner[h] # 0}
    /\ UNCHANGED <<owner, last>>

Next ==
    \/ \E R \in SUBSET Hash : End(R)
    \/ \E h \in Hash : Acquire(h)
    \/ RunOut

Spec == Init /\ [][Next]_vars
=============================================================================

--------------------- MODULE MCShieldedTransitionJournal ---------------------
(***************************************************************************)
(* The journal on a tree of nine blocks:                                    *)
(*                                                                          *)
(*     g - a1 - a2 - a3 - a4 - a5                                           *)
(*                    |    |                                                *)
(*                    |    +-- y5     spends n1 a second time               *)
(*                    +-- b4          spends n1 and n2, consumes s1         *)
(*                    +-- x4          over the cap; spends n2, consumes s1  *)
(*                                                                          *)
(* a1 shields 10, a2 creates the anchor s1, a4 spends n1, consumes s1 and   *)
(* takes 2 out, a5 spends n3, creates s1 again and s2, which it consumes    *)
(* itself, and takes 2 more.                                                *)
(***************************************************************************)
EXTENDS ShieldedTransitionJournal, TLC

CONSTANTS g, a1, a2, a3, a4, a5, b4, x4, y5, n1, n2, n3, s1, s2

MCBlock == {g, a1, a2, a3, a4, a5, b4, x4, y5}

MCParent ==
    a1 :> g @@ a2 :> a1 @@ a3 :> a2 @@ a4 :> a3 @@ a5 :> a4
    @@ b4 :> a3 @@ x4 :> a3 @@ y5 :> a4

Elsewhere(none) == [b \in MCBlock |-> none]

MCNullifiers ==
    a4 :> {n1} @@ b4 :> {n1, n2} @@ x4 :> {n2} @@ y5 :> {n1} @@ a5 :> {n3}
    @@ Elsewhere({})

MCHeight ==
    g :> 0 @@ a1 :> 1 @@ a2 :> 2 @@ a3 :> 3 @@ a4 :> 4 @@ a5 :> 5
    @@ b4 :> 4 @@ x4 :> 4 @@ y5 :> 5

MCCreated == a2 :> {s1} @@ a5 :> {s1, s2} @@ Elsewhere({})

MCConsumed ==
    a4 :> {s1} @@ b4 :> {s1} @@ x4 :> {s1} @@ a5 :> {s2} @@ Elsewhere({})

MCValueBalance == a1 :> -10 @@ a4 :> 2 @@ a5 :> 2 @@ x4 :> 6 @@ Elsewhere(0)
====

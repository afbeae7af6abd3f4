-------------------------- MODULE MCDandelionManager --------------------------
(* Instances of DandelionManager for TLC: an outbound peer p1 and an inbound     *)
(* peer p2 of different netgroups, and a transaction t1 of half the others' size. *)
EXTENDS DandelionManager

CONSTANTS t1, t2, t3, p1, p2

SizeDef == [t \in Tx |-> IF t = t1 THEN 1 ELSE 2]

NetgroupDef == [p \in Peer |-> IF p = p1 THEN 1 ELSE 2]

(* Either no peer has sent its DANDELIONACC yet, so that p1 can only be a         *)
(* fallback relay, or p1 is a preferred relay and p2 still has to connect.        *)
InitialPeersDef == {[p \in Peer |-> "up"],
                    [p \in Peer |-> IF p = p1 THEN "capable" ELSE "new"]}
===============================================================================

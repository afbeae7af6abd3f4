------------------------- MODULE MCRCAdmissionStore -------------------------
(* Instances of RCAdmissionStore for TLC. *)
EXTENDS RCAdmissionStore, TLC

CONSTANTS h1, h2, h3, g1, g2

HashAndGroupSymmetry ==
    Permutations({h1, h2, h3}) \cup Permutations({g1, g2})
=============================================================================

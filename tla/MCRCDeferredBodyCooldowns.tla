--------------------- MODULE MCRCDeferredBodyCooldowns ----------------------
(* Instances of RCDeferredBodyCooldowns for TLC. *)
EXTENDS RCDeferredBodyCooldowns

CONSTANTS h1, h2, g1, g2
=============================================================================

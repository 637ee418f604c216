---------------------------- MODULE MCRateLimit ----------------------------
(* A counter as small as its limit allows: one more than it lets through    *)
(* stands for all that are refused.  No symmetry, for WindowEnds.           *)
EXTENDS RateLimit
=============================================================================

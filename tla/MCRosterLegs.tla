---------------------------- MODULE MCRosterLegs ----------------------------
(* Instances of RosterLegs for TLC: SOL-IBS and SOL-RSIREV share a coin.   *)
EXTENDS RosterLegs

CONSTANTS ibs, rsirev

Both == <<ibs, rsirev>>
Alone == <<rsirev>>

Case(o, r, k) == [orders |-> o, restart |-> r, kills |-> k]

Everyday == {Case("fill", "none", FALSE)}
AnySettings ==
    {Case("gated", "none", FALSE), Case("fill", "quiet", TRUE), Case("fill", "rough", FALSE)}
=============================================================================

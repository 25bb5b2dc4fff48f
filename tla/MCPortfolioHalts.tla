-------------------------- MODULE MCPortfolioHalts --------------------------
(* Instances of PortfolioHalts for TLC.                                    *)
EXTENDS PortfolioHalts

CONSTANTS w1, w2   \* two engines of the symbol
MCOrder == <<w1, w2>>

MCBps == {-420, -120, 1, 40, 120, 200}
Case(c, r, a, s, b, w, t) ==
    [crash |-> c, race |-> r, alarm |-> a, spans |-> s, bps |-> b, warm |-> w, trades |-> t]

AnySettings ==
    {Case("whole", FALSE, FALSE, {Day}, {-420, 200}, {}, 3),
     Case("whole", FALSE, FALSE, {Day}, {-420, -120, 200}, {}, 2),
     Case("torn", FALSE, FALSE, {Day}, {-120, 1, 120}, {40}, 2),
     Case("whole", TRUE, FALSE, {Day}, {-420, 200}, {}, 1),
     Case("no", FALSE, TRUE, {1, Day}, {-120, 40}, {}, 2)}
=============================================================================

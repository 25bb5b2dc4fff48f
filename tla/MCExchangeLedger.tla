-------------------------- MODULE MCExchangeLedger --------------------------
(* Instances of ExchangeLedger for TLC: two sleeves on one symbol.         *)
EXTENDS ExchangeLedger, TLC

CONSTANTS rip, mirror

Sleeves == Permutations({rip, mirror})
=============================================================================

---------------------------- MODULE MCLiveMirror ----------------------------
(* Instances of LiveMirror for TLC.  Each of AnySettings is the worst the  *)
(* properties that are not vacuous under it survive.                       *)
EXTENDS LiveMirror, TLC

Tags == Permutations(Legs)

Heard   == {"refuse", "query_fail", "crash_idle"}
AnyLoss == Heard \cup {"lose_sell", "lose_buy", "expire", "fee", "trigger"}

AnySettings ==
    {[stops |-> s, faults |-> f] :
        s \in BOOLEAN, f \in {AnyLoss, AnyLoss \ {"lose_sell"}, Heard \cup {"lose_buy"},
                              Heard \cup {"crash"}}}
    \cup {[stops |-> FALSE, faults |-> Heard \cup {"fee", "trigger"}],
          [stops |-> FALSE, faults |-> {"refuse", "write_fail"}]}

Quiet == {[stops |-> s, faults |-> Heard] : s \in BOOLEAN}
=============================================================================

---------------------------- MODULE MCStormGuards ----------------------------
(***************************************************************************)
(* Configurations of the storm guards for TLC.                             *)
(***************************************************************************)
EXTENDS StormGuards

CONSTANTS main, ws, btc, eth, xrp

(* Fills only, windows longer than a tick, several symbols. *)
Windows ==
    [second |-> 2, minute |-> 3, per_sec |-> 2, per_min |-> 3, new_syms |-> 2,
     coarse |-> 4, unfilled_sym |-> 9, lot_size |-> 1, unfilled_day |-> 9,
     consecutive |-> 1, base |-> 1, cap |-> 1,
     symbols |-> {btc, eth, xrp}, asks |-> {"ENTRY"}, outcomes |-> {"filled"}, burst |-> 3]

(* Every answer, one symbol, a minute of one tick. *)
Loops ==
    [second |-> 1, minute |-> 1, per_sec |-> 1, per_min |-> 1, new_syms |-> 1,
     coarse |-> 1, unfilled_sym |-> 3, lot_size |-> 2, unfilled_day |-> 4,
     consecutive |-> 1, base |-> 1, cap |-> 1,
     symbols |-> {btc}, asks |-> {"ENTRY", "EXIT"}, outcomes |-> AllOutcomes, burst |-> 2]

(* An exit that may be refused for ever, with a backoff that doubles. *)
Refusals ==
    [second |-> 1, minute |-> 1, per_sec |-> 1, per_min |-> 1, new_syms |-> 1,
     coarse |-> 2, unfilled_sym |-> 2, lot_size |-> 2, unfilled_day |-> 2,
     consecutive |-> 2, base |-> 1, cap |-> 2,
     symbols |-> {btc}, asks |-> {"ENTRY", "EXIT"},
     outcomes |-> {"filled", "working", "refused"}, burst |-> 2]

OnlyRefusals == {Refusals}
=============================================================================

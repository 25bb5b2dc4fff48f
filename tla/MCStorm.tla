------------------------------ MODULE MCStorm ------------------------------
(***************************************************************************)
(* What ExecutionGateway::submit asks about sending once more, in one run  *)
(* of TLC: whether a behaviour is one of OrderRecovery or of StormGuards   *)
(* is chosen at the start.                                                 *)
(***************************************************************************)
EXTENDS OrderRecovery, MCStormGuards, TLC

CONSTANTS s1, s2

VARIABLE part    \* "ids" or "guards"

(* The registry's own protocol at an exchange that checks no ids, and      *)
(* submit's handling with two recovering threads, late answers, overdue    *)
(* ids and crashes at an exchange that refuses executed ids.               *)
BothModes ==
    { [recoverers |-> {main}, handling |-> "query_first", dedup |-> FALSE, late |-> FALSE,
       slow |-> FALSE, crashes |-> FALSE, posts |-> 3],
      [recoverers |-> Callers, handling |-> "gateway", dedup |-> TRUE, late |-> TRUE,
       slow |-> TRUE, crashes |-> TRUE, posts |-> 2] }

WindowsAndLoops == {Windows, Loops}

EitherInit ==
    /\ Init /\ GuardsInit
    /\ \/ part = "ids" /\ limits = Windows
       \/ part = "guards" /\ mode.handling = "gateway"

(* A behaviour of the protocol ends with the last request. *)
EitherNext ==
    /\ \/ part = "ids" /\ Next /\ UNCHANGED guardVars
       \/ part = "ids" /\ mode.handling = "query_first" /\ UNCHANGED <<vars, guardVars>>
       \/ part = "guards" /\ GuardsNext /\ UNCHANGED vars
    /\ UNCHANGED part

EitherSpec == EitherInit /\ [][EitherNext]_<<vars, guardVars, part>>

Symmetry == Permutations(Signals)
=============================================================================

------------------------- MODULE MCProtectiveStops -------------------------
(***************************************************************************)
(* Instances of ProtectiveStops for TLC: one thread that does everything,  *)
(* or a trading thread beside the main loop.                               *)
(***************************************************************************)
EXTENDS ProtectiveStops

CONSTANTS main, ws

(* Calls that fail and stops that trigger, with and without cancels that   *)
(* fail; a process that may die; and one that may die while calls fail or  *)
(* stops are cancelled by hand.                                            *)
AnySettings ==
    { [faults |-> {"place_reject", "flatten_fail", "lost_answer", "trigger"},
       upper |-> FALSE, dust |-> 2, max |-> 4],
      [faults |-> {"place_reject", "flatten_fail", "lost_answer", "trigger", "cancel_fail"},
       upper |-> FALSE, dust |-> 2, max |-> 4],
      [faults |-> {"crash"}, upper |-> FALSE, dust |-> 1, max |-> 4],
      [faults |-> {"crash"}, upper |-> TRUE, dust |-> 1, max |-> 4],
      [faults |-> {"crash", "seed_fail", "place_reject", "flatten_fail"},
       upper |-> FALSE, dust |-> 1, max |-> 4],
      [faults |-> {"crash", "external_cancel"}, upper |-> TRUE, dust |-> 2, max |-> 4] }

(* Nothing goes wrong but the order of the threads' steps. *)
Faultless == {[faults |-> {}, upper |-> FALSE, dust |-> 1, max |-> 2]}
=============================================================================

------------------------------ MODULE MCSubmit ------------------------------
(***************************************************************************)
(* Two instances of SubmitGates in one run of TLC: which one a behaviour   *)
(* belongs to is chosen at the start.  "pilot": one thread, four coins,    *)
(* orders that expire and stops that sell, at one price.  "threads": the   *)
(* constants of the configuration: two threads at one coin, halts, moving  *)
(* prices, lost answers and restarts.                                      *)
(***************************************************************************)
EXTENDS SubmitGates

VARIABLE regime    \* "pilot" or "threads"

Pilot == INSTANCE SubmitGates WITH
    Asked <- {1, 2, 3, 5, 7}, Prices <- {10}, Outcomes <- {"expired entry"},
    Faults <- {"stop"}, Foreign <- 2, MaxHeld <- 8, MaxSum <- GrossMax

EitherInit ==
    \/ regime = "pilot" /\ Pilot!Init
    \/ regime = "threads" /\ Init /\ \A s \in Symbols : px[s] = px["btc"]

(* What the two instances do not need to vary. *)
Single == pc'["http"] = "idle"
OneCoin == /\ \A t \in Threads : order'[t].sym \in {"btc", "none"}
           /\ \A s \in Symbols \ {"btc"} : px'[s] = px[s]

(* How far ahead the pilot may get. *)
NotFarAhead == spent' >= -20

EitherNext ==
    /\ \/ regime = "pilot" /\ Pilot!Next /\ Single
       \/ regime = "threads" /\ Next /\ OneCoin
    /\ NotFarAhead /\ UNCHANGED regime

EitherSpec == EitherInit /\ [][EitherNext]_<<vars, regime>>
=============================================================================

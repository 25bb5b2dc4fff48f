---------------------------- MODULE SubmitGates ----------------------------
(***************************************************************************)
(* The gates of ExecutionGateway::submit that decide whether an order      *)
(* leaves and how large it is: clock, price collar, lot-size quarantine,   *)
(* exchange filters, the hard and the pilot ceilings, the kill switch and  *)
(* the cash, in the order submit asks them, on threads that run submit at  *)
(* once; and pilot_gross_usd, the running sum the pilot's ceiling is       *)
(* measured on.  Mode LIVE, pilot scope on.  What the storm guards, the    *)
(* id registry and the protective stop add is in the modules of their own; *)
(* here they may turn any order away.                                      *)
(*                                                                         *)
(* A quantity is counted in grains, the smallest quantity an order can     *)
(* name; LotStep grains make one lot step.                                 *)
(***************************************************************************)
EXTENDS Integers, FiniteSets

CONSTANTS Threads, Symbols,
          PilotSymbols,   \* live_pilot_symbols
          Filtered,       \* symbols with a valid cached LOT_SIZE
          Fallback,       \* others whose step fallback_step knows
          LotStep, MinQty,   \* LOT_SIZE of the exchange, in grains
          MinNotional,    \* MIN_NOTIONAL, of the filter and of the gateway
          HardMax, PilotMax, GrossMax,   \* the ceilings, in dollars
          CollarPct, Quarantine,         \* price_collar_pct_, LOTSIZE_QUARANTINE
          Asked, Prices,  \* quantities and reference prices engines come with
          Outcomes,       \* what the exchange may answer
          Faults,         \* subset of {"halt", "restart", "move", "stop"}
          Foreign,        \* grains of each coin outside the pilot at the start
          MaxHeld,        \* bound: grains of a coin the account can hold
          MaxSum          \* bound: nothing is added to a larger pilot sum

Bounds ==
    /\ PilotSymbols \subseteq Symbols /\ IsFiniteSet(Threads)
    /\ {LotStep, MinQty, MinNotional, HardMax, PilotMax, GrossMax} \subseteq Nat \ {0}
    /\ {CollarPct, Quarantine, Foreign, MaxHeld, MaxSum} \subseteq Nat
    /\ Asked \subseteq Nat /\ Prices \subseteq Nat \ {0}

ASSUME GatesAssumption == Bounds

VARIABLES pc,      \* how far each thread is in submit
          order,   \* the order each thread has in hand
          gross,   \* pilot_gross_usd
          rejects, \* lotsize_rejects_, up to the quarantine
          drift,   \* signed_trading_halted()
          halt,    \* kill_switch_active()
          px,      \* the live price of each symbol
          held,    \* the account: grains of each coin
          after,   \* observer: entries each thread sent since the halt began
          told,    \* observer: the sum has not yet missed anything
          spent    \* observer: dollars paid for the pilot's coins, less what
                   \* selling them has brought; not followed once ~told

market == <<drift, halt, px>>
watch == <<after, told, spent>>
vars == <<pc, order, gross, rejects, market, held, watch>>

NoOrder == [sym |-> "none", ask |-> "ENTRY", qty |-> 0, ref |-> 0, cut |-> FALSE,
            usd |-> 0, seen |-> 0]

Lesser(a, b) == IF a <= b THEN a ELSE b
Grains(usd, price) == usd \div price
ToStep(q) == (q \div LotStep) * LotStep
OnStep(q) == q % LotStep = 0

Init ==
    /\ pc = [t \in Threads |-> "idle"] /\ order = [t \in Threads |-> NoOrder]
    /\ gross = 0 /\ rejects = [s \in Symbols |-> 0]
    /\ drift \in BOOLEAN /\ halt = FALSE /\ px \in [Symbols -> Prices]
    /\ held = [s \in Symbols |-> IF s \in PilotSymbols THEN 0 ELSE Foreign]
    /\ after = [t \in Threads |-> 0] /\ told = TRUE /\ spent = 0

Goto(t, step) == pc' = [pc EXCEPT ![t] = step]

(* usd more is paid; heard: the sum is going to hear of it. *)
Pay(usd, heard) ==
    /\ told' = (told /\ heard)
    /\ spent' = IF told /\ heard THEN spent + usd ELSE 0

EntryInHand(t) == pc[t] # "idle" /\ order[t].ask = "ENTRY"

-----------------------------------------------------------------------------
(* The size of an order. *)

(* Mutant: without a valid filter every quantity passes as it is.          *)
NormalizedBroken(s, q) == IF s \in Filtered THEN ToStep(q) ELSE q

(* normalize(): to the lot step, cached or built in; as it is without one. *)
Normalized(s, q) == IF s \in Filtered \cup Fallback THEN ToStep(q) ELSE q

(* normalize() lets the quantity pass.                                     *)
Submittable(s, q, ref) ==
    /\ Normalized(s, q) > 0
    /\ s \in Filtered => Normalized(s, q) >= MinQty /\ Normalized(s, q) * ref >= MinNotional

(* Mutant: only the absolute ceiling. *)
CappedBroken(q, ref) == IF q * ref > HardMax THEN Grains(HardMax, ref) ELSE q

(* hard_max_order_usd_, then pilot_max_order_usd: neither returns to a step. *)
Capped(q, ref) ==
    LET most == Lesser(HardMax, PilotMax) IN
    IF q * ref > most THEN Grains(most, ref) ELSE q

-----------------------------------------------------------------------------
(* submit.  An order refused before its id is registered leaves no trace.  *)

Collared(s, ref) ==
    LET off == IF px[s] >= ref THEN px[s] - ref ELSE ref - px[s] IN
    off * 100 > CollarPct * ref

(* Mutant: the order's own notional is forgotten. *)
GrossRoomBroken(q, ref) == gross <= GrossMax

GrossRoom(q, ref) == gross + q * ref <= GrossMax

(* Gates 2 to 5 for an order that is not an exit. *)
EntryMayGo(s, q, ref) ==
    /\ ~drift /\ ~Collared(s, ref) /\ rejects[s] < Quarantine
    /\ s \in Filtered /\ s \in PilotSymbols
    /\ GrossRoom(q, ref) /\ q * ref >= MinNotional

(* Gates 0 to 5.                                                           *)
Size(t, s, ask, asked, ref) ==
    LET floored == Normalized(s, asked)
        q == IF ask = "ENTRY" THEN Capped(floored, ref) ELSE floored
    IN
    /\ pc[t] = "idle" /\ asked > 0
    /\ Submittable(s, asked, ref)
    /\ ask = "ENTRY" => EntryMayGo(s, q, ref)
    /\ order' = [order EXCEPT ![t] = [NoOrder EXCEPT !.sym = s, !.ask = ask,
                     !.qty = q, !.ref = ref, !.cut = (q # floored)]]
    /\ Goto(t, "sized")
    /\ Pay(0, ask = "ENTRY" => \A u \in Threads \ {t} : ~EntryInHand(u))
    /\ UNCHANGED <<gross, rejects, market, held, after>>

Drop(t) ==
    /\ Goto(t, "idle") /\ order' = [order EXCEPT ![t] = NoOrder]

(* Mutant: the switch stops exits and lets entries through. *)
KillSwitchBroken(t) ==
    /\ pc[t] = "sized"
    /\ IF order[t].ask = "EXIT" /\ halt THEN Drop(t) ELSE Goto(t, "cleared") /\ UNCHANGED order
    /\ UNCHANGED <<gross, rejects, market, held, watch>>

(* Gate 6. *)
KillSwitch(t) ==
    /\ pc[t] = "sized"
    /\ IF order[t].ask = "ENTRY" /\ halt THEN Drop(t) ELSE Goto(t, "cleared") /\ UNCHANGED order
    /\ UNCHANGED <<gross, rejects, market, held, watch>>

(* Gate 9: the cash there is, all of the order or less.                    *)
Reserve(t) ==
    /\ pc[t] = "cleared"
    /\ \E q \in 1..order[t].qty :
         /\ IF order[t].ask = "EXIT" THEN q = order[t].qty ELSE q * order[t].ref >= MinNotional
         /\ order' = [order EXCEPT ![t].qty = q, ![t].cut = @ \/ q < order[t].qty]
    /\ Goto(t, "reserved")
    /\ UNCHANGED <<gross, rejects, market, held, watch>>

(* The id is in flight, there is no cash, or a storm guard objects.        *)
TurnAway(t) ==
    /\ pc[t] \in {"cleared", "reserved"} /\ Drop(t)
    /\ UNCHANGED <<gross, rejects, market, held, watch>>

-----------------------------------------------------------------------------
(* The request, and what submit does with the answer.                      *)

Moved(t, s, q) ==
    held' = [held EXCEPT ![s] = IF order[t].ask = "ENTRY" THEN @ + q ELSE @ - q]

Leave(t) ==
    /\ pc[t] = "reserved"
    /\ after' = [after EXCEPT ![t] = IF halt /\ order[t].ask = "ENTRY" THEN @ + 1 ELSE @]

Accepted(t) ==
    LET o == order[t] IN
    /\ OnStep(o.qty)
    /\ IF o.ask = "EXIT" THEN o.qty <= held[o.sym] ELSE held[o.sym] + o.qty <= MaxHeld

(* What the order adds or takes: an answer without an executed quantity    *)
(* counts as the whole order at its reference price.                       *)
Counted(o, k) == IF k > 0 THEN k * px[o.sym] ELSE o.qty * o.ref

(* Nothing is taken from the sum that the pilot has not got back.          *)
Heard(o, k) == o.ask = "EXIT" => k > 0 /\ o.sym \in PilotSymbols

(* k grains of coin s at the live price, if the coin is the pilot's.       *)
Dollars(s, k) == IF s \in PilotSymbols THEN k * px[s] ELSE 0

Cost(o, k) == IF o.ask = "ENTRY" THEN Dollars(o.sym, k) ELSE -Dollars(o.sym, k)

(* The whole order executes, or all that is left of it expires.            *)
Executed(t, k) ==
    /\ Leave(t) /\ Accepted(t) /\ k \in 0..order[t].qty /\ OnStep(k)
    /\ k = order[t].qty \/ (order[t].ask = "ENTRY" /\ "expired entry" \in Outcomes)
                        \/ (order[t].ask = "EXIT" /\ "expired exit" \in Outcomes)
    /\ Moved(t, order[t].sym, k)
    /\ order' = [order EXCEPT ![t].usd = Counted(order[t], k)] /\ Goto(t, "answered")
    /\ Pay(Cost(order[t], k), Heard(order[t], k))
    /\ UNCHANGED <<gross, rejects, market>>

(* -1013: the quantity is not on the step.                                 *)
LotRefused(t) ==
    LET s == order[t].sym IN
    /\ Leave(t) /\ ~OnStep(order[t].qty) /\ Drop(t)
    /\ rejects' = [rejects EXCEPT ![s] = Lesser(@ + 1, Quarantine)]
    /\ UNCHANGED <<gross, market, held, told, spent>>

(* Another refusal; or no answer to an order that was executed.            *)
Failed(t) ==
    /\ Leave(t) /\ Drop(t)
    /\ \/ UNCHANGED <<held, told, spent>>
       \/ /\ "lost" \in Outcomes /\ Accepted(t) /\ Moved(t, order[t].sym, order[t].qty)
          /\ Pay(Cost(order[t], order[t].qty), order[t].ask = "EXIT")
    /\ UNCHANGED <<gross, rejects, market>>

(* pilot_gross_usd += ..., by a thread that holds no lock: the read.       *)
ReadGross(t) ==
    /\ pc[t] = "answered" /\ gross <= MaxSum /\ Goto(t, "adding")
    /\ order' = [order EXCEPT ![t].seen = gross]
    /\ Pay(0, \A u \in Threads \ {t} : pc[u] # "adding")
    /\ UNCHANGED <<gross, rejects, market, held, after>>

(* The write: a BUY adds, a SELL takes away, and never below zero.         *)
WriteGross(t) ==
    LET o == order[t] IN
    /\ pc[t] = "adding"
    /\ gross' = IF o.ask = "ENTRY" THEN o.seen + o.usd
                ELSE IF o.usd >= o.seen THEN 0 ELSE o.seen - o.usd
    /\ Drop(t)
    /\ UNCHANGED <<rejects, market, held, watch>>

-----------------------------------------------------------------------------
(* Around submit.                                                          *)

(* A daily kill, an emergency or a lapsed stream begins, or ends.          *)
Halt ==
    /\ "halt" \in Faults /\ halt' = ~halt
    /\ after' = [t \in Threads |-> 0]
    /\ UNCHANGED <<pc, order, gross, rejects, drift, px, held, told, spent>>

PriceMoves ==
    /\ "move" \in Faults /\ \E s \in Symbols, p \in Prices : px' = [px EXCEPT ![s] = p]
    /\ UNCHANGED <<pc, order, gross, rejects, drift, halt, held, watch>>

(* The resting stop executes, or close_symbol_from_broker sells: the order *)
(* does not pass submit.                                                   *)
SoldElsewhere ==
    /\ "stop" \in Faults
    /\ \E s \in Symbols :
         /\ held[s] > 0 /\ held' = [held EXCEPT ![s] = @ % LotStep]
         /\ Pay(-Dollars(s, ToStep(held[s])), TRUE)
    /\ UNCHANGED <<pc, order, gross, rejects, market, after>>

(* The sum, the counts and the orders in hand live in memory.              *)
Restart ==
    /\ "restart" \in Faults
    /\ pc' = [t \in Threads |-> "idle"] /\ order' = [t \in Threads |-> NoOrder]
    /\ gross' = 0 /\ rejects' = [s \in Symbols |-> 0]
    /\ drift' \in BOOLEAN
    /\ after' = [t \in Threads |-> 0] /\ Pay(0, FALSE)
    /\ UNCHANGED <<halt, px, held>>

Submit(t) ==
    \/ \E s \in Symbols, ask \in {"ENTRY", "EXIT"}, q \in Asked, ref \in Prices :
         Size(t, s, ask, q, ref)
    \/ KillSwitch(t) \/ Reserve(t) \/ TurnAway(t)
    \/ \E k \in 0..order[t].qty : Executed(t, k)
    \/ LotRefused(t) \/ Failed(t)
    \/ ReadGross(t) \/ WriteGross(t)

Next ==
    \/ \E t \in Threads : Submit(t)
    \/ Halt \/ PriceMoves \/ SoldElsewhere \/ Restart

Spec == Init /\ [][Next]_vars

-----------------------------------------------------------------------------
Orders == [sym : Symbols \cup {"none"}, ask : {"ENTRY", "EXIT"}, qty : Nat, ref : Nat,
           cut : BOOLEAN, usd : Nat, seen : Nat]

TypeOK ==
    /\ pc \in [Threads -> {"idle", "sized", "cleared", "reserved", "answered", "adding"}]
    /\ order \in [Threads -> Orders]
    /\ \A t \in Threads : pc[t] # "idle" => order[t].sym \in Symbols
    /\ gross \in Nat /\ rejects \in [Symbols -> 0..Quarantine]
    /\ drift \in BOOLEAN /\ halt \in BOOLEAN
    /\ px \in [Symbols -> Prices] /\ held \in [Symbols -> Nat]
    /\ after \in [Threads -> Nat] /\ told \in BOOLEAN /\ spent \in Int

(* When an entry leaves, the money the pilot has put into its coins, with  *)
(* the order, is within live_pilot_max_gross: at whatever prices the fills *)
(* before it came and wherever the prices went, though entries expire,     *)
(* sales go unanswered, stops sell behind the sum's back, and other        *)
(* threads sell meanwhile.  All of these make the sum of gate 4b err       *)
(* upwards (ExecutionGateway.hpp:111-118, 283-287, 511-518).  told ends    *)
(* where it errs downwards: two entries past the gate at once, two         *)
(* updates of the sum at once, a BUY executed without an answer, an exit   *)
(* that expires unfilled or is of a coin outside the pilot, a restart.     *)
SpentWithinCap ==
    told => \A t \in Threads :
        pc[t] = "reserved" /\ order[t].ask = "ENTRY" =>
            spent + order[t].qty * order[t].ref <= GrossMax

(* An entry that leaves is no larger than either ceiling and no smaller    *)
(* than the minimum, whichever of the four gates changed its size last,    *)
(* and is for a coin of the pilot (ExecutionGateway.hpp:257-292, 312-328). *)
EntriesFit ==
    \A t \in Threads :
        pc[t] = "reserved" /\ order[t].ask = "ENTRY" =>
            /\ order[t].qty * order[t].ref <= Lesser(HardMax, PilotMax)
            /\ order[t].qty * order[t].ref >= MinNotional
            /\ order[t].sym \in PilotSymbols

(* Only an order that a ceiling or the cash has cut, or an exit of a coin  *)
(* without any known step, can leave off its step: a leg that collects     *)
(* -1013 and is quarantined got there through one of these                 *)
(* (ExecutionGateway.hpp:235-250, main.cpp:3628-3637).                     *)
RawOnlyIfCut ==
    \A t \in Threads :
        pc[t] = "reserved" /\ ~OnStep(order[t].qty) =>
            \/ order[t].ask = "ENTRY" /\ order[t].cut
            \/ order[t].ask = "EXIT" /\ order[t].sym \notin Filtered \cup Fallback

(* Once a halt has begun, each thread sends at most the one entry that had *)
(* passed the kill switch before, however the threads and the halts        *)
(* interleave (ExecutionGateway.hpp:293-296, main.cpp:3832-3841).          *)
AfterHaltBounded == \A t \in Threads : after[t] <= 1
=============================================================================

-------------------------- MODULE ProtectiveStops --------------------------
(***************************************************************************)
(* The broker-side protective stop of one symbol: the steps of             *)
(* ExecutionGateway::submit around a fill, the pre-exit cancel,            *)
(* manage_protective_stop_, the periodic reconcile_stops and the flatten   *)
(* of a naked position, run by several threads against an exchange whose   *)
(* resting SELL stops lock the base they would sell.                       *)
(*                                                                         *)
(* One HTTP call is one step (BinanceREST holds its own mutex around each).*)
(* Quantities are lots; a stop protects exactly the held lots, so the 1%   *)
(* drift tolerance of the code is equality here.                           *)
(* The ledger and resting_stop_ are keyed by the symbol as it is spelled:  *)
(* the boot seeds and arms in upper case, and whoever trades the coin      *)
(* spells it in lower case (the roster) or in upper case (the mirror).     *)
(* The exchange sees one coin.  That all who trade a coin spell it alike   *)
(* is an assumption.                                                       *)
(***************************************************************************)
EXTENDS Integers, FiniteSets, Totals

CONSTANTS Threads,
          Traders,      \* threads that submit orders (WS callbacks, main loop, HTTP)
          Reconcilers,  \* threads that run reconcile_stops (main loop)
          Sides,        \* which orders the traders submit
          Ids,          \* exchange ids of stop orders
          Settings      \* what may go wrong, the dust and the bound of the holding

AllFaults == {"crash", "seed_fail", "cancel_fail", "place_reject", "flatten_fail",
              "lost_answer", "external_cancel", "trigger"}

None == 0      \* no order id

Keys == {"trade", "other"}  \* the spelling that orders carry, and the other one

ASSUME StopsAssumption ==
    /\ IsFiniteSet(Threads) /\ IsFiniteSet(Ids) /\ Ids \subseteq Nat \ {None}
    /\ None \notin Threads /\ Traders \subseteq Threads /\ Reconcilers \subseteq Threads
    /\ Sides \subseteq {"BUY", "SELL"}
    /\ Settings \subseteq [faults : SUBSET AllFaults,  \* at the exchange or in the process
                          upper : BOOLEAN,   \* orders are spelled like the boot's seed
                          dust : Nat \ {0},  \* smallest quantity that reaches MIN_NOTIONAL
                          max : Nat]         \* bound: most lots held, or bought unnoticed

VARIABLES base,      \* the exchange: lots held
          stops,     \* the exchange: stop id -> lots it locks; 0 = not resting
          pos,       \* the ledger's position, per key
          resting,   \* resting_stop_, per key: its id and qty
          rejected,  \* per key: whether it is in stop_rejected_
          mtx,       \* owner of stop_mtx_, or None
          pc, arg, ret,   \* per thread: next step, its quantity, where manage returns to
          key, todo, \* per thread: the key it works on, those its reconcile has left
          tried,     \* observer: per thread, the stops its pre-exit cancel addressed
          lost,      \* observer: lots bought that no answer told of
          calm,      \* observer: "running" in a reconcile nothing disturbs, "done" after
          lockedExit,   \* observer: an exit was refused over base the stop locks
          setting       \* one of Settings, fixed at start

exchange == <<base, stops>>
gateway == <<pos, resting, rejected, mtx>>
control == <<pc, arg, ret, key, todo, tried>>
observed == <<lost, calm, lockedExit>>
vars == <<base, stops, pos, resting, rejected, mtx, pc, arg, ret, key, todo, tried,
          lost, calm, lockedExit, setting>>

May(fault) == fault \in setting.faults
NoStop == [id |-> None, qty |-> 0]
Locked == Total(stops, Ids)
Free == base - Locked
Resting(i) == stops[i] > 0
Held(n) == n >= setting.dust           \* not flat: the notional reaches MIN_NOTIONAL

MaxBelief == 2 * setting.max           \* bound: what the ledger may believe, in lots

Rounds == {"held", "stale"}            \* the two passes of reconcile_stops
Steps == {"idle", "buy", "book_buy", "precancel", "sell", "book_sell",
          "read", "manage", "place", "cancel_all", "free", "cancel_again",
          "dump"} \cup Rounds

TypeOK ==
    /\ base \in Nat /\ stops \in [Ids -> Nat]
    /\ pos \in [Keys -> Nat] /\ rejected \in [Keys -> BOOLEAN]
    /\ resting \in [Keys -> [id : Ids \cup {None}, qty : Nat]]
    /\ mtx \in Threads \cup {None}
    /\ pc \in [Threads -> Steps] /\ arg \in [Threads -> Nat]
    /\ ret \in [Threads -> {"idle"} \cup Rounds]
    /\ key \in [Threads -> Keys] /\ todo \in [Threads -> SUBSET Keys]
    /\ tried \in [Threads -> SUBSET Ids]
    /\ lost \in Nat /\ calm \in {"no", "running", "done"}
    /\ lockedExit \in BOOLEAN /\ setting \in Settings

Init ==
    /\ base = 0 /\ stops = [i \in Ids |-> 0]
    /\ pos = [k \in Keys |-> 0] /\ resting = [k \in Keys |-> NoStop]
    /\ rejected = [k \in Keys |-> FALSE] /\ mtx = None
    /\ pc = [t \in Threads |-> "idle"] /\ arg = [t \in Threads |-> 0]
    /\ ret = [t \in Threads |-> "idle"]
    /\ key = [t \in Threads |-> "trade"] /\ todo = [t \in Threads |-> {}]
    /\ tried = [t \in Threads |-> {}]
    /\ lost = 0 /\ calm = "no" /\ lockedExit = FALSE
    /\ setting \in Settings

Goto(t, step) == pc' = [pc EXCEPT ![t] = step]

-----------------------------------------------------------------------------
(* Calls to the exchange. *)

(* DELETE of one stop: it is gone, or the call fails and it stays.  A stop *)
(* that no longer rests cannot be cancelled.                               *)
CancelStop(i) ==
    \/ stops' = [stops EXCEPT ![i] = 0]
    \/ May("cancel_fail") /\ UNCHANGED stops

(* The recorded stop of a key, if there is one, is cancelled and the       *)
(* record erased either way.                                               *)
Forget(k) ==
    /\ IF resting[k].id = None THEN UNCHANGED stops ELSE CancelStop(resting[k].id)
    /\ resting' = [resting EXCEPT ![k] = NoStop]

(* POST of a stop for q lots: it needs free base. *)
Accepts(q) == q <= Free
PlaceStop(i, q) ==
    /\ i \in Ids /\ ~Resting(i) /\ \A k \in Keys : i # resting[k].id
    /\ stops' = [stops EXCEPT ![i] = q]

-----------------------------------------------------------------------------
(* submit: an entry. *)

StartBuy(t, q) ==
    /\ pc[t] = "idle" /\ t \in Traders /\ "BUY" \in Sides
    /\ base + q <= setting.max /\ pos["trade"] + q <= MaxBelief
    /\ Goto(t, "buy") /\ arg' = [arg EXCEPT ![t] = q]
    /\ key' = [key EXCEPT ![t] = "trade"] /\ calm' = "no"
    /\ UNCHANGED <<exchange, gateway, ret, todo, tried, lost, lockedExit, setting>>

ExecuteBuy(t) ==
    /\ pc[t] = "buy" /\ Goto(t, "book_buy")
    /\ base' = base + arg[t]
    /\ UNCHANGED <<stops, gateway, arg, ret, key, todo, tried, observed, setting>>

BookBuy(t) ==
    /\ pc[t] = "book_buy" /\ Goto(t, "read")
    /\ pos' = [pos EXCEPT ![key[t]] = @ + arg[t]]
    /\ ret' = [ret EXCEPT ![t] = "idle"]
    /\ UNCHANGED <<exchange, resting, rejected, mtx, arg, key, todo, tried, observed, setting>>

(* submit: an exit, of a quantity computed from a slice and a price: the   *)
(* position is not consulted.                                              *)
StartSell(t, q) ==
    /\ pc[t] = "idle" /\ t \in Traders /\ "SELL" \in Sides
    /\ Goto(t, "precancel") /\ arg' = [arg EXCEPT ![t] = q]
    /\ key' = [key EXCEPT ![t] = "trade"] /\ tried' = [tried EXCEPT ![t] = {}]
    /\ calm' = "no"
    /\ UNCHANGED <<exchange, gateway, ret, todo, lost, lockedExit, setting>>

(* Mutant: the exit sells first and leaves the stop where it is. *)
PreExitCancelSkipped(t) ==
    /\ pc[t] = "precancel" /\ mtx = None /\ Goto(t, "sell")
    /\ UNCHANGED <<exchange, gateway, arg, ret, key, todo, tried, observed, setting>>

(* The pre-exit cancel: under stop_mtx_, one DELETE; erased either way. *)
PreExitCancel(t) ==
    /\ pc[t] = "precancel" /\ mtx = None /\ Goto(t, "sell")
    /\ Forget(key[t])
    /\ tried' = [tried EXCEPT ![t] = {resting[key[t]].id} \ {None}]
    /\ UNCHANGED <<base, pos, rejected, mtx, arg, ret, key, todo, observed, setting>>

(* The market SELL.  Refused when the base is not free; submit then        *)
(* returns without booking anything and without looking at the stop.       *)
ExecuteSell(t) ==
    /\ pc[t] = "sell"
    /\ IF arg[t] <= Free
       THEN /\ base' = base - arg[t] /\ Goto(t, "book_sell")
            /\ UNCHANGED lockedExit
       ELSE /\ Goto(t, "idle") /\ UNCHANGED base
            /\ lockedExit' = (lockedExit \/ arg[t] <= base)
    /\ tried' = [tried EXCEPT ![t] = {}]
    /\ UNCHANGED <<stops, gateway, arg, ret, key, todo, lost, calm, setting>>

BookSell(t) ==
    /\ pc[t] = "book_sell" /\ Goto(t, "read")
    /\ pos' = [pos EXCEPT ![key[t]] = IF arg[t] > @ THEN 0 ELSE @ - arg[t]]
    /\ ret' = [ret EXCEPT ![t] = "idle"]
    /\ UNCHANGED <<exchange, resting, rejected, mtx, arg, key, todo, tried, observed, setting>>

(* What the exchange executed of the order, the ledger never books: the    *)
(* answer is lost and submit returns, or the order expired in part, which  *)
(* counts as rejected, and submit goes on to the stop.                     *)
LoseAnswer(t) ==
    /\ May("lost_answer")
    /\ \E n \in 0..arg[t] :
        \/ /\ pc[t] = "buy"
           /\ base' = base + n /\ lost' = lost + n /\ lost' <= setting.max
        \/ /\ pc[t] = "sell" /\ n <= Free
           /\ base' = base - n /\ UNCHANGED lost
    /\ \E next \in {"idle", "read"} : Goto(t, next)
    /\ ret' = [ret EXCEPT ![t] = "idle"]
    /\ UNCHANGED <<stops, gateway, arg, key, todo, tried, calm, lockedExit, setting>>

-----------------------------------------------------------------------------
(* manage_protective_stop_. *)

(* held and entry are read before the lock is taken. *)
ReadHeld(t) ==
    /\ pc[t] = "read" /\ Goto(t, "manage")
    /\ arg' = [arg EXCEPT ![t] = pos[key[t]]]
    /\ UNCHANGED <<exchange, gateway, ret, key, todo, tried, observed, setting>>

(* Flat: cancel what rests, forget it and any earlier rejection. *)
ManageFlat(t) ==
    /\ pc[t] = "manage" /\ mtx = None /\ ~Held(arg[t])
    /\ Forget(key[t]) /\ rejected' = [rejected EXCEPT ![key[t]] = FALSE]
    /\ Goto(t, ret[t])
    /\ UNCHANGED <<base, pos, mtx, arg, ret, key, todo, tried, observed, setting>>

(* Mutant: any resting stop will do, whatever its quantity. *)
ManageAnyStop(t) ==
    /\ pc[t] = "manage" /\ mtx = None /\ Held(arg[t])
    /\ resting[key[t]].id # None
    /\ Goto(t, ret[t])
    /\ UNCHANGED <<exchange, gateway, arg, ret, key, todo, tried, observed, setting>>

(* Held and protected for the held quantity: nothing to do. *)
ManageMatches(t) ==
    /\ pc[t] = "manage" /\ mtx = None /\ Held(arg[t])
    /\ resting[key[t]].id # None /\ resting[key[t]].qty = arg[t]
    /\ Goto(t, ret[t])
    /\ UNCHANGED <<exchange, gateway, arg, ret, key, todo, tried, observed, setting>>

(* Mutant: a drifted stop is dropped from the record but not cancelled. *)
ManageRearmKeepsStop(t) ==
    /\ pc[t] = "manage" /\ mtx = None /\ Held(arg[t])
    /\ resting[key[t]].id = None \/ resting[key[t]].qty # arg[t]
    /\ resting' = [resting EXCEPT ![key[t]] = NoStop]
    /\ mtx' = t /\ Goto(t, "place")
    /\ UNCHANGED <<exchange, pos, rejected, arg, ret, key, todo, tried, observed, setting>>

(* Held with no stop, or one for another quantity: cancel that, go on to place. *)
ManageRearm(t) ==
    /\ pc[t] = "manage" /\ mtx = None /\ Held(arg[t])
    /\ resting[key[t]].id = None \/ resting[key[t]].qty # arg[t]
    /\ Forget(key[t])
    /\ mtx' = t /\ Goto(t, "place")
    /\ UNCHANGED <<base, pos, rejected, arg, ret, key, todo, tried, observed, setting>>

(* An earlier rejection suppresses the placement until the symbol is flat. *)
PlaceSuppressed(t) ==
    /\ pc[t] = "place" /\ rejected[key[t]]
    /\ mtx' = None /\ Goto(t, ret[t])
    /\ UNCHANGED <<exchange, pos, resting, rejected, arg, ret, key, todo, tried, observed,
                   setting>>

PlaceAccepted(t) ==
    /\ pc[t] = "place" /\ ~rejected[key[t]] /\ Accepts(arg[t])
    /\ \E i \in Ids :
        /\ PlaceStop(i, arg[t])
        /\ resting' = [resting EXCEPT ![key[t]] = [id |-> i, qty |-> arg[t]]]
    /\ mtx' = None /\ Goto(t, ret[t])
    /\ UNCHANGED <<base, pos, rejected, arg, ret, key, todo, tried, observed, setting>>

(* Mutant: the rejection goes unnoticed and the stop is recorded as resting. *)
PlaceRefusedSilently(t) ==
    /\ pc[t] = "place" /\ ~rejected[key[t]]
    /\ ~Accepts(arg[t]) \/ May("place_reject")
    /\ \E i \in Ids : resting' = [resting EXCEPT ![key[t]] = [id |-> i, qty |-> arg[t]]]
    /\ mtx' = None /\ Goto(t, ret[t])
    /\ UNCHANGED <<exchange, pos, rejected, arg, ret, key, todo, tried, observed, setting>>

(* The exchange refuses the stop: the position is naked, flatten it. *)
PlaceRefused(t) ==
    /\ pc[t] = "place" /\ ~rejected[key[t]]
    /\ ~Accepts(arg[t]) \/ May("place_reject")
    /\ rejected' = [rejected EXCEPT ![key[t]] = TRUE] /\ Goto(t, "cancel_all")
    /\ UNCHANGED <<exchange, pos, resting, mtx, arg, ret, key, todo, tried, observed, setting>>

(* close_symbol_from_broker, still under stop_mtx_: cancel every open      *)
(* order, read the free balance, sell it.  Nothing is reported to the      *)
(* ledger.                                                                 *)
CancelAll(t) ==
    /\ \/ pc[t] = "cancel_all" /\ Goto(t, "free")
       \/ pc[t] = "cancel_again" /\ Goto(t, "dump")
    /\ \/ stops' = [i \in Ids |-> 0]
       \/ May("cancel_fail") /\ UNCHANGED stops
    /\ UNCHANGED <<base, gateway, arg, ret, key, todo, tried, observed, setting>>

ReadFree(t) ==
    /\ pc[t] = "free" /\ Goto(t, "dump")
    /\ arg' = [arg EXCEPT ![t] = Free]
    /\ UNCHANGED <<exchange, gateway, ret, key, todo, tried, observed, setting>>

(* The balance read fails: cancel once more and sell the held quantity.    *)
ReadFails(t) ==
    /\ May("flatten_fail")
    /\ pc[t] = "free" /\ Goto(t, "cancel_again")
    /\ UNCHANGED <<exchange, gateway, arg, ret, key, todo, tried, observed, setting>>

DumpFree(t) ==
    /\ pc[t] = "dump" /\ mtx' = None /\ Goto(t, ret[t])
    /\ \/ base' = IF arg[t] <= Free THEN base - arg[t] ELSE base
       \/ May("flatten_fail") /\ UNCHANGED base
    /\ UNCHANGED <<stops, pos, resting, rejected, arg, ret, key, todo, tried, observed, setting>>

-----------------------------------------------------------------------------
(* reconcile_stops: the held symbols, then those with a stale stop. *)

StartReconcile(t) ==
    /\ pc[t] = "idle" /\ t \in Reconcilers
    /\ Goto(t, "held") /\ todo' = [todo EXCEPT ![t] = {k \in Keys : pos[k] > 0}]
    /\ calm' = IF \A u \in Threads \ {t} : pc[u] = "idle" THEN "running" ELSE "no"
    /\ UNCHANGED <<exchange, gateway, arg, ret, key, tried, lost, lockedExit, setting>>

(* The next symbol of the pass goes through manage_protective_stop_. *)
NextSymbol(t) ==
    /\ pc[t] \in Rounds /\ Goto(t, "read") /\ ret' = [ret EXCEPT ![t] = pc[t]]
    /\ \E k \in todo[t] :
        /\ key' = [key EXCEPT ![t] = k]
        /\ todo' = [todo EXCEPT ![t] = @ \ {k}]
    /\ UNCHANGED <<exchange, gateway, arg, tried, observed, setting>>

(* The symbols on record that the ledger no longer holds: one more pass. *)
FindStale(t) ==
    /\ pc[t] = "held" /\ todo[t] = {} /\ mtx = None /\ Goto(t, "stale")
    /\ todo' = [todo EXCEPT ![t] = {k \in Keys : resting[k].id # None /\ pos[k] = 0}]
    /\ UNCHANGED <<exchange, gateway, arg, ret, key, tried, observed, setting>>

(* The naked sweep only alerts, and the reconcile is over. *)
EndReconcile(t) ==
    /\ pc[t] = "stale" /\ todo[t] = {} /\ mtx = None
    /\ Goto(t, "idle")
    /\ calm' = IF calm = "running" THEN "done" ELSE calm
    /\ UNCHANGED <<exchange, gateway, arg, ret, key, todo, tried, lost, lockedExit, setting>>

-----------------------------------------------------------------------------
(* The world outside. *)

(* A stop is cancelled at the exchange, or the price falls through it;     *)
(* the process is not told.                                                *)
StopVanishes(i, how) ==
    /\ how \in {"external_cancel", "trigger"} /\ May(how) /\ Resting(i)
    /\ base' = IF how = "trigger" THEN base - stops[i] ELSE base
    /\ stops' = [stops EXCEPT ![i] = 0]
    /\ calm' = "no"
    /\ UNCHANGED <<gateway, control, lost, lockedExit, setting>>

(* What the boot seeds: the free balance unless it is dust, and nothing    *)
(* when the balance or the price cannot be read.                           *)
Seeds == {IF Held(Free) THEN Free ELSE 0} \cup {0 : f \in setting.faults \cap {"seed_fail"}}

SeedKey == IF setting.upper THEN "trade" ELSE "other"

(* Memory after a boot: the ledger as seeded, in upper case, and a sweep   *)
(* of it before any trading.                                               *)
Boot(t, seed) ==
    /\ pos' = [k \in Keys |-> IF k = SeedKey THEN seed ELSE 0]
    /\ resting' = [k \in Keys |-> NoStop] /\ rejected' = [k \in Keys |-> FALSE]
    /\ mtx' = None
    /\ pc' = [u \in Threads |-> IF u = t THEN "held" ELSE "idle"]
    /\ todo' = [u \in Threads |-> IF u = t /\ seed > 0 THEN {SeedKey} ELSE {}]
    /\ arg' = [u \in Threads |-> 0] /\ ret' = [u \in Threads |-> "idle"]
    /\ key' = [u \in Threads |-> "trade"] /\ tried' = [u \in Threads |-> {}]
    /\ calm' = "running"
    /\ UNCHANGED <<exchange, lost, lockedExit, setting>>

(* Mutant: the boot does not seed the balance into the ledger. *)
RestartUnseeded(t) == May("crash") /\ t \in Reconcilers /\ Boot(t, 0)

(* The process dies anywhere and boots. *)
Restart(t) ==
    /\ May("crash") /\ t \in Reconcilers
    /\ \E seed \in Seeds : Boot(t, seed)

-----------------------------------------------------------------------------
ThreadStep(t) ==
    \/ ExecuteBuy(t) \/ BookBuy(t)
    \/ PreExitCancel(t) \/ ExecuteSell(t) \/ BookSell(t) \/ LoseAnswer(t)
    \/ ReadHeld(t) \/ ManageFlat(t) \/ ManageMatches(t) \/ ManageRearm(t)
    \/ PlaceSuppressed(t) \/ PlaceAccepted(t) \/ PlaceRefused(t)
    \/ CancelAll(t) \/ ReadFree(t) \/ DumpFree(t)
    \/ ReadFails(t)
    \/ NextSymbol(t) \/ FindStale(t) \/ EndReconcile(t)

Next ==
    \/ \E t \in Threads :
        \/ ThreadStep(t) \/ StartReconcile(t)
        \/ Restart(t)
        \/ \E q \in 1..setting.max : StartBuy(t, q) \/ StartSell(t, q)
    \/ \E i \in Ids, how \in setting.faults : StopVanishes(i, how)

Spec == Init /\ [][Next]_vars

(* Threads run, a started operation goes on, and the main loop comes back  *)
(* to its reconcile; nothing obliges a trader to trade.  stop_mtx_ is      *)
(* granted to a thread that keeps asking.                                  *)
Fairness == \A t \in Threads : SF_vars(ThreadStep(t)) /\ WF_vars(StartReconcile(t))

FairSpec == Spec /\ Fairness

-----------------------------------------------------------------------------
Uncovered == base - Locked >= setting.dust

Without(faults) == setting.faults \cap faults = {}

(* While cancels succeed, the process lives and stops last: resting_stop_  *)
(* names exactly the stops that rest at the exchange, for the quantities   *)
(* they lock, and nothing else rests: no orphan locks base behind the      *)
(* gateway's back (ExecutionGateway.hpp:594-599).                          *)
StopsMatchRecord ==
    Without({"cancel_fail", "crash", "external_cancel", "trigger"}) =>
        /\ \A i \in Ids : Resting(i) => \E k \in Keys : resting[k].id = i
        /\ \A k \in Keys : resting[k].id # None => stops[resting[k].id] = resting[k].qty

(* Of the coins a process buys in its own life, while cancels succeed: an  *)
(* exit is never refused over base that a protective stop locks, whatever  *)
(* quantity it asks for, since the cancel before every SELL frees it       *)
(* (ExecutionGateway.hpp:432-446).  Coins an earlier life left are another  *)
(* matter: their stops are on no record, or on one under a spelling that   *)
(* the exit does not look up.                                              *)
ExitNeverLocked == Without({"cancel_fail", "crash"}) => ~lockedExit

(* While cancels succeed and the process lives, a SELL goes out only after *)
(* this very attempt tried to cancel every stop that rests                 *)
(* (ExecutionGateway.hpp:432, 457-458).                                    *)
ExitCancelsEveryStop ==
    Without({"cancel_fail", "crash"}) =>
        \A t \in Threads : pc[t] = "sell" => {i \in Ids : Resting(i)} \subseteq tried[t]

(* Where nothing fails but the process, which may die between any two      *)
(* steps, and every lot can be sold: after a reconcile that nothing        *)
(* disturbed every held lot is under a stop                                *)
(* (ExecutionGateway.hpp:664-668).                                         *)
CoveredAfterReconcile ==
    setting.faults \subseteq {"crash"} /\ setting.dust = 1 /\ calm = "done" => ~Uncovered

(* While the process lives and nobody else cancels its stops, whatever     *)
(* calls fail and whatever answers are lost: when a reconcile that nothing *)
(* disturbed leaves more unprotected than the buys the ledger never heard  *)
(* of, the naked sweep reports the position                                *)
(* (ExecutionGateway.hpp:698-706).                                         *)
NoSilentNaked ==
    /\ Without({"crash", "external_cancel"})
    /\ calm = "done" /\ Free - lost >= setting.dust
    => \E k \in Keys : Held(pos[k]) /\ resting[k].id = None

(* The threads are between a decision to trade and its booking.            *)
Trading == \E t \in Threads : pc[t] \in {"buy", "book_buy", "precancel", "sell", "book_sell"}

(* However entries, exits and reconciles interleave, once the trading ends *)
(* the holding ends up covered, and stays so; unless a stop was refused,   *)
(* and then the naked sweep finds the position in the ledger               *)
(* (main.cpp:12664-12668, ExecutionGateway.hpp:628-662).                   *)
EventuallyCovered ==
    <>[]~Trading => <>[](Uncovered => \E k \in Keys : rejected[k] /\ Held(pos[k]))
=============================================================================

----------------------------- MODULE StormGuards -----------------------------
(***************************************************************************)
(* The storm controls ExecutionGateway::submit applies to a LIVE order     *)
(* before it reaches Binance: SlowStormGuard (backoff and daily count per  *)
(* symbol), GlobalOrderRateGuard (sliding desk-wide windows and fan-out),  *)
(* the sticky circuit breaker and the LOT_SIZE quarantine, each behind a   *)
(* mutex of its own, with several threads between them.                    *)
(*                                                                         *)
(* Time is counted in ticks and kept as ages and remaining waits, so that  *)
(* it can run for ever in finitely many states.                            *)
(***************************************************************************)
EXTENDS Integers, FiniteSets, Totals

CONSTANTS Threads, Symbols,
          Limits    \* how the guards may be configured, and what they meet

AllAsks == {"ENTRY", "EXIT", "OPERATOR"}
AllOutcomes == {"filled", "working", "refused", "lot_size"}

(* second, minute: the two windows, in ticks; per_sec, per_min, new_syms:  *)
(* GlobalOrderRateGuard; coarse, unfilled_sym, lot_size: the gateway's     *)
(* MAX_ORDERS_PER_SEC, MAX_UNFILLED_PER_SYM and LOTSIZE_QUARANTINE;        *)
(* unfilled_day, consecutive, base, cap: SlowStormGuard.  What is submitted*)
(* for which symbols, how Binance may answer, and burst, the bound on the  *)
(* orders recorded in one tick.                                            *)
ASSUME StormAssumption ==
    /\ IsFiniteSet(Threads) /\ Threads # {}
    /\ IsFiniteSet(Symbols) /\ Symbols # {}
    /\ Limits \subseteq [second : Nat \ {0}, minute : Nat \ {0},
                        per_sec : Nat, per_min : Nat, new_syms : Nat,
                        coarse : Nat, unfilled_sym : Nat, lot_size : Nat,
                        unfilled_day : Nat, consecutive : Nat \ {0},
                        base : Nat \ {0}, cap : Nat \ {0},
                        symbols : SUBSET Symbols, asks : SUBSET AllAsks,
                        outcomes : SUBSET AllOutcomes, burst : Nat]
    /\ \A l \in Limits : l.second <= l.minute /\ l.base <= l.cap

VARIABLES orders,       \* min_ (and its tail sec_): age -> orders recorded
          newSyms,      \* new_syms_: age -> symbols newly opened
          consecutive,  \* retry_: <<symbol, intent>> -> consecutive failures
          wait,         \* retry_: <<symbol, intent>> -> ticks until next_allowed_ms
          today,        \* unfilled_today_
          unfilled,     \* unfilled_by_sym_
          lotRejects,   \* lotsize_rejects_
          tripped,      \* circuit_tripped_
          held,         \* whether the ledger holds the symbol
          pc, order,    \* per thread: the next check, and the order it carries
          entries,      \* observer: age -> entries admitted to the desk
          openings,     \* observer: age -> flat symbols an entry was admitted for
          sinceFill,    \* observer: symbol -> entries sent since it last filled
          afterTrip,    \* observer: entries sent after the trip
          refusedOperator,  \* observer: an operator's exit was refused
          limits            \* one of Limits, fixed at start

(* The slots of the windows: one for each tick of a minute. *)
Ages == 0..(limits.minute - 1)

window == <<orders, newSyms>>
storm == <<consecutive, wait, today>>
breaker == <<unfilled, lotRejects, tripped>>
desk == <<entries, openings>>
sent == <<sinceFill, afterTrip>>
lasting == <<refusedOperator, limits>>
guardVars == <<orders, newSyms, consecutive, wait, today, unfilled, lotRejects, tripped,
               held, pc, order, entries, openings, sinceFill, afterTrip, refusedOperator,
               limits>>

(* storm_intent_: what is being retried.  A LIVE sell is always an exit. *)
Intent(o) == IF o.ask = "ENTRY" THEN "OPEN" ELSE "EXIT"
Retry(o) == <<o.sym, Intent(o)>>
IsExit(o) == o.ask # "ENTRY"
RetryKeys == Symbols \X {"OPEN", "EXIT"}

(* Failures beyond this change nothing any more. *)
Saturation == limits.consecutive + Cardinality(Threads)

GuardsTyped ==
    /\ orders \in [Ages -> Nat] /\ newSyms \in [Ages -> SUBSET Symbols]
    /\ consecutive \in [RetryKeys -> 0..Saturation]
    /\ wait \in [RetryKeys -> 0..limits.cap]
    /\ today \in [Symbols -> Nat] /\ unfilled \in [Symbols -> Nat]
    /\ lotRejects \in [Symbols -> Nat] /\ tripped \in BOOLEAN
    /\ held \in [Symbols -> BOOLEAN]
    /\ pc \in [Threads -> {"idle", "storm", "rate", "coarse", "send", "answer"}]
    /\ order \in [Threads -> [sym : Symbols, ask : AllAsks]]
    /\ entries \in [Ages -> Nat] /\ openings \in [Ages -> SUBSET Symbols]
    /\ sinceFill \in [Symbols -> Nat] /\ afterTrip \in Nat /\ refusedOperator \in BOOLEAN
    /\ limits \in Limits

GuardsInit ==
    /\ limits \in Limits
    /\ orders = [a \in Ages |-> 0] /\ newSyms = [a \in Ages |-> {}]
    /\ consecutive = [k \in RetryKeys |-> 0] /\ wait = [k \in RetryKeys |-> 0]
    /\ today = [s \in Symbols |-> 0] /\ unfilled = [s \in Symbols |-> 0]
    /\ lotRejects = [s \in Symbols |-> 0] /\ tripped = FALSE
    /\ held = [s \in Symbols |-> FALSE]
    /\ pc = [t \in Threads |-> "idle"]
    /\ order \in [Threads -> [sym : {CHOOSE s \in Symbols : TRUE}, ask : {"ENTRY"}]]
    /\ entries = [a \in Ages |-> 0] /\ openings = [a \in Ages |-> {}]
    /\ sinceFill = [s \in Symbols |-> 0] /\ afterTrip = 0 /\ refusedOperator = FALSE

Advance(t, step) == pc' = [pc EXCEPT ![t] = step]
Sum(f, w) == Total(f, {a \in Ages : a < w})
Shift(f, fresh) == [a \in Ages |-> IF a = 0 THEN fresh ELSE f[a - 1]]
Capped(n, cap) == IF n < cap THEN n ELSE cap

-----------------------------------------------------------------------------
(* Time. *)

(* The sliding windows move; the backoffs run down. *)
Tick ==
    /\ orders' = Shift(orders, 0) /\ newSyms' = Shift(newSyms, {})
    /\ wait' = [k \in RetryKeys |-> IF wait[k] = 0 THEN 0 ELSE wait[k] - 1]
    /\ entries' = Shift(entries, 0) /\ openings' = Shift(openings, {})
    /\ UNCHANGED <<consecutive, today, breaker, held, pc, order, sent, lasting>>

(* A new UTC day clears the daily counts, never the backoffs. *)
Midnight ==
    /\ today' = [s \in Symbols |-> 0]
    /\ UNCHANGED <<window, consecutive, wait, breaker, held, pc, order, desk, sent,
                   lasting>>

-----------------------------------------------------------------------------
(* submit. *)

(* Mutant: an entry starts although the breaker has tripped. *)
StartTripped(t, o) ==
    /\ pc[t] = "idle" /\ o.ask \in limits.asks
    /\ IF IsExit(o) THEN held[o.sym] ELSE lotRejects[o.sym] < limits.lot_size
    /\ order' = [order EXCEPT ![t] = o] /\ Advance(t, "storm")
    /\ UNCHANGED <<window, storm, breaker, held, desk, sent, lasting>>

(* Past the circuit breaker and the quarantine, which exits ignore. *)
Start(t, o) ==
    /\ pc[t] = "idle" /\ o.ask \in limits.asks
    /\ IF IsExit(o) THEN held[o.sym]
       ELSE ~tripped /\ lotRejects[o.sym] < limits.lot_size
    /\ order' = [order EXCEPT ![t] = o] /\ Advance(t, "storm")
    /\ UNCHANGED <<window, storm, breaker, held, desk, sent, lasting>>

(* Mutant: a stopped loop is stopped for exits as well. *)
StoppedAll(o) ==
    consecutive[Retry(o)] >= limits.consecutive \/ today[o.sym] >= limits.unfilled_day

(* Mutant: only the daily count stops a loop. *)
StoppedByDay(o) == ~IsExit(o) /\ today[o.sym] >= limits.unfilled_day

(* An entry that keeps failing, or is never filled all day, is stopped. *)
Stopped(o) ==
    /\ ~IsExit(o)
    /\ consecutive[Retry(o)] >= limits.consecutive \/ today[o.sym] >= limits.unfilled_day

BackingOff(o) == wait[Retry(o)] > 0

(* SlowStormGuard::admit.  submit hands it no operator: operator_initiated *)
(* is false on every production path.                                      *)
AdmitStorm(t) ==
    /\ pc[t] = "storm"
    /\ LET refuse == Stopped(order[t]) \/ BackingOff(order[t]) IN
       /\ Advance(t, IF refuse THEN "idle" ELSE "rate")
       /\ refusedOperator' = (refusedOperator \/ (refuse /\ order[t].ask = "OPERATOR"))
    /\ UNCHANGED <<window, storm, breaker, held, order, desk, sent, limits>>

(* Mutant: orders are counted since the last tick, not over the window. *)
InWindowBucket(n) == orders[0]

(* Orders recorded in the last n ticks. *)
InWindow(n) == Sum(orders, n)

RecentlyOpened == UNION {newSyms[a] : a \in Ages}
Opens(o) == ~IsExit(o) /\ ~held[o.sym]

(* Mutant: the symbols are counted before the new one joins them. *)
FansOutLate(o) == Opens(o) /\ Cardinality(RecentlyOpened) > limits.new_syms

FansOut(o) ==
    /\ Opens(o) /\ o.sym \notin RecentlyOpened
    /\ Cardinality(RecentlyOpened) + 1 > limits.new_syms

TooMany(o) ==
    \/ InWindow(limits.second) + 1 > limits.per_sec
    \/ InWindow(limits.minute) + 1 > limits.per_min

(* GlobalOrderRateGuard::admit: exits are counted and never refused. *)
AdmitRate(t) ==
    LET o == order[t] IN
    /\ pc[t] = "rate" /\ orders[0] < limits.burst
    /\ IF ~IsExit(o) /\ (TooMany(o) \/ FansOut(o))
       THEN Advance(t, "idle") /\ UNCHANGED <<window, desk>>
       ELSE /\ Advance(t, "coarse")
            /\ orders' = [orders EXCEPT ![0] = @ + 1]
            /\ newSyms' = IF Opens(o) THEN [newSyms EXCEPT ![0] = @ \cup {o.sym}] ELSE newSyms
            /\ entries' = IF IsExit(o) THEN entries ELSE [entries EXCEPT ![0] = @ + 1]
            /\ openings' = IF Opens(o) THEN [openings EXCEPT ![0] = @ \cup {o.sym}]
                           ELSE openings
    /\ UNCHANGED <<storm, breaker, held, order, sent, lasting>>

(* Mutant: an unfilled run is noticed and does not trip. *)
CoarseUntripped(t) ==
    LET o == order[t] IN
    /\ pc[t] = "coarse"
    /\ Advance(t, "send")
    /\ unfilled' = IF IsExit(o) THEN unfilled ELSE [unfilled EXCEPT ![o.sym] = @ + 1]
    /\ UNCHANGED <<lotRejects, tripped>>
    /\ UNCHANGED <<window, storm, held, order, desk, sent, lasting>>

(* The coarse rate, then the unfilled run of the symbol; either trips for good. *)
Coarse(t) ==
    LET o == order[t]
        rate == ~IsExit(o) /\ InWindow(limits.second) > limits.coarse
        run  == ~IsExit(o) /\ unfilled[o.sym] + 1 > limits.unfilled_sym
    IN
    /\ pc[t] = "coarse"
    /\ Advance(t, IF rate \/ run THEN "idle" ELSE "send")
    /\ unfilled' = IF IsExit(o) \/ rate THEN unfilled ELSE [unfilled EXCEPT ![o.sym] = @ + 1]
    /\ tripped' = (tripped \/ rate \/ run)
    /\ UNCHANGED <<window, storm, lotRejects, held, order, desk, sent, lasting>>

(* The send is booked as unfilled before it goes out. *)
Send(t) ==
    LET o == order[t] IN
    /\ pc[t] = "send" /\ Advance(t, "answer")
    /\ today' = [today EXCEPT ![o.sym] = Capped(@ + 1, limits.unfilled_day)]
    /\ sinceFill' = IF IsExit(o) THEN sinceFill ELSE [sinceFill EXCEPT ![o.sym] = @ + 1]
    /\ afterTrip' = IF tripped /\ ~IsExit(o) THEN afterTrip + 1 ELSE afterTrip
    /\ UNCHANGED <<window, consecutive, wait, breaker, held, order, desk, lasting>>

(* A fill clears every latch of the symbol. *)
Filled(t) ==
    LET o == order[t] IN
    /\ "filled" \in limits.outcomes
    /\ pc[t] = "answer" /\ Advance(t, "idle")
    /\ unfilled' = [unfilled EXCEPT ![o.sym] = 0]
    /\ today' = [today EXCEPT ![o.sym] = 0]
    /\ consecutive' = [k \in RetryKeys |-> IF k[1] = o.sym THEN 0 ELSE consecutive[k]]
    /\ wait' = [k \in RetryKeys |-> IF k[1] = o.sym THEN 0 ELSE wait[k]]
    /\ \E h \in IF IsExit(o) THEN {TRUE, FALSE} ELSE {TRUE} : held' = [held EXCEPT ![o.sym] = h]
    /\ sinceFill' = [sinceFill EXCEPT ![o.sym] = 0]
    /\ UNCHANGED <<window, lotRejects, tripped, order, desk, afterTrip, lasting>>

(* Accepted and not filled: neither a fill nor a failure. *)
Working(t) ==
    /\ "working" \in limits.outcomes
    /\ pc[t] = "answer" /\ Advance(t, "idle")
    /\ UNCHANGED <<window, storm, breaker, held, order, desk, sent, lasting>>

(* on_fail: base, doubled per earlier failure, at most the cap. *)
Backoff[n \in 1..Saturation] ==
    Capped(IF n = 1 THEN limits.base ELSE 2 * Backoff[n - 1], limits.cap)

(* Rejected, cancelled or expired with nothing filled; -1013 also counts   *)
(* towards the quarantine of the symbol.                                   *)
Refused(t, lot) ==
    LET o == order[t]
        n == Capped(consecutive[Retry(o)] + 1, Saturation)
    IN
    /\ (IF lot THEN "lot_size" ELSE "refused") \in limits.outcomes
    /\ pc[t] = "answer" /\ Advance(t, "idle")
    /\ consecutive' = [consecutive EXCEPT ![Retry(o)] = n]
    /\ wait' = [wait EXCEPT ![Retry(o)] = Backoff[n]]
    /\ lotRejects' = IF lot THEN [lotRejects EXCEPT ![o.sym] = Capped(@ + 1, limits.lot_size)]
                     ELSE lotRejects
    /\ UNCHANGED <<window, today, unfilled, tripped, held, order, desk, sent, lasting>>

(* An emergency flatten outside submit: counted, never refused. *)
OutOfBand ==
    /\ orders[0] < limits.burst /\ "EXIT" \in limits.asks
    /\ orders' = [orders EXCEPT ![0] = @ + 1]
    /\ UNCHANGED <<newSyms, storm, breaker, held, pc, order, desk, sent, lasting>>

-----------------------------------------------------------------------------
Answer(t) ==
    \/ Filled(t) \/ Working(t)
    \/ Refused(t, FALSE) \/ Refused(t, TRUE)

ThreadStep(t) == AdmitStorm(t) \/ AdmitRate(t) \/ Coarse(t) \/ Send(t) \/ Answer(t)

GuardsNext ==
    \/ Tick \/ Midnight \/ OutOfBand
    \/ \E t \in Threads :
        \/ ThreadStep(t)
        \/ \E s \in limits.symbols, ask \in limits.asks : Start(t, [sym |-> s, ask |-> ask])

GuardsSpec == GuardsInit /\ [][GuardsNext]_guardVars

(* Time passes, and a submit that started goes on (strongly fair, because  *)
(* the bound `burst` may hold it up within a tick).  Nothing obliges       *)
(* anybody to submit: an engine clears its position whatever the answer    *)
(* was (EdgeEngine.hpp:2992-3032) and never asks for that exit again.      *)
Fairness == WF_guardVars(Tick) /\ \A t \in Threads : SF_guardVars(ThreadStep(t))

FairGuards == GuardsSpec /\ Fairness

-----------------------------------------------------------------------------
(* Entries admitted in any sliding second and any sliding minute stay      *)
(* within the desk-wide caps, and they open at most new_syms flat symbols, *)
(* across every tick boundary and however many threads admit               *)
(* (GlobalOrderRateGuard.hpp:59-62, 93-115).                               *)
AdmissionsBounded ==
    /\ Sum(entries, limits.second) <= limits.per_sec
    /\ Sum(entries, limits.minute) <= limits.per_min
    /\ Cardinality(UNION {openings[a] : a \in Ages}) <= limits.new_syms

(* A symbol that never fills is sent at most unfilled_sym entries, in      *)
(* however many days and retries, give or take the threads that were past  *)
(* the check when it last filled (ExecutionGateway.hpp:421-430).           *)
UnfilledBounded ==
    \A s \in Symbols : sinceFill[s] <= limits.unfilled_sym + Cardinality(Threads) - 1

(* After the breaker trips only the entries that were already past its     *)
(* check when it tripped may still go out (ExecutionGateway.hpp:185-190).  *)
AfterTripBounded == afterTrip <= Cardinality(Threads) - 1

(* An entry the exchange refuses again and again is stopped after          *)
(* `consecutive` sends, give or take the threads that were past the check  *)
(* (SlowStormGuard.hpp:39-43).                                             *)
RetriesStop == \A s \in Symbols : consecutive[<<s, "OPEN">>] < Saturation

(* Some thread has the exit of s at a step of submit. *)
ExitAt(s, step) ==
    \E t \in Threads : pc[t] = step /\ order[t] = [sym |-> s, ask |-> "EXIT"]

(* An exit that keeps failing is slowed down and never starved: as long as *)
(* somebody submits it again, as the mirror does for a sale that failed    *)
(* (main.cpp:1547-1575), the guards let it be sent again and again until   *)
(* the position is gone (SlowStormGuard.hpp:47-51).                        *)
ExitsKeepGoing ==
    \A s \in Symbols : []<>ExitAt(s, "storm") => []<>(~held[s] \/ ExitAt(s, "send"))

(* An exit the operator asks for is never delayed or refused               *)
(* (SlowStormGuard.hpp:47-48).                                             *)
OperatorNeverRefused == ~refusedOperator
=============================================================================

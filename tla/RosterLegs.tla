----------------------------- MODULE RosterLegs -----------------------------
(***************************************************************************)
(* The legs of one coin in the armed TREND ROSTER: each an EdgeEngine that *)
(* believes in its own position, sends orders through its order-intent     *)
(* callback and never looks at their answers, and a snapshot file from     *)
(* which a restart injects the positions again.                            *)
(*                                                                         *)
(* Two kinds of leg share the account: ride-to-flip legs (BUY at the       *)
(* signal, SELL at the flip) and the RSIREV legs (Intraday), whose BUY     *)
(* waits until the price confirms the entry, which then have a stop that   *)
(* never falls under the entry, and which at the flip sell one half and    *)
(* let the other half run on a trail.                                      *)
(*                                                                         *)
(* A tick closes bars and checks exits leg by leg under g_engine_mtx:      *)
(* `todo' is what the lock's holder still has to do to each leg, in the    *)
(* slots' order.  Kills hold the same lock.  Prices are points of a        *)
(* lattice, one apart where the code's confirm distance matters;           *)
(* indicators enter as verdicts.                                           *)
(***************************************************************************)
EXTENDS Integers, SequencesExt, Totals

CONSTANTS Order,       \* engines of g_slots on this coin, in that order
          Intraday,    \* those with rsi_revert_intraday_floor
          Prices,      \* points the mid price can be at
          Slices,      \* slice_usd a boot may compute from the free balance
          Settings,    \* what may go wrong
          MaxEntries,  \* bound: positions opened
          MaxKills,    \* bound: kills
          MaxBoots     \* bound: restarts

Legs == Range(Order)

AllSettings == [orders : {"fill", "gated"}, restart : {"none", "quiet", "rough"},
                kills : BOOLEAN]

ASSUME RosterAssumption ==
    /\ Order \in Seq(Legs) /\ IsInjective(Order) /\ Intraday \subseteq Legs
    /\ Prices \subseteq Nat \ {0} /\ Slices \subseteq Nat \ {0}
    /\ MaxEntries \in Nat /\ MaxKills \in Nat /\ MaxBoots \in Nat
    /\ Settings \subseteq AllSettings

VARIABLES pos,      \* in_position_ and the state of the position, per leg
          halted,   \* halted_
          px,       \* the last mid price; until a tick, the close boot fetched
          open,     \* the leg has had a tick since boot
          todo,     \* what the holder of g_engine_mtx has left to do, per leg
          up,       \* the process runs
          file,     \* data/open_positions.json
          slice,    \* slice_usd
          own,      \* coins the leg's fills bought less those they sold
          book,     \* observer: intents of the leg's last position
          count,    \* positions opened, kills and restarts, for the bounds
          setting   \* one of Settings, fixed at start

engine == <<pos, halted, px, open, todo>>
vars == <<pos, halted, px, open, todo, up, file, slice, own, book,
          count, setting>>

Flat == [in |-> FALSE, entry |-> 0, armed |-> FALSE, peak |-> 0, bars |-> 0,
         runner |-> FALSE]
NoBook == [buys |-> 0, sold |-> 0]

Positions == [in : BOOLEAN, entry : Nat, armed : BOOLEAN, peak : Nat,
              bars : 0..2, runner : BOOLEAN]

Bars == [low : BOOLEAN, at : Prices]   \* a signal's verdict, the close
Jobs == [bars : Seq(Bars), last : {"none", "exits", "kill"}]
Idle == [bars |-> <<>>, last |-> "none"]
Free == \A l \in Legs : todo[l] = Idle   \* g_engine_mtx is

Init ==
    /\ pos = [l \in Legs |-> Flat] /\ halted = [l \in Legs |-> FALSE]
    /\ px \in Prices /\ open = FALSE /\ todo = [l \in Legs |-> Idle]
    /\ up = TRUE
    /\ file = pos /\ slice \in Slices
    /\ own = [l \in Legs |-> 0] /\ book = [l \in Legs |-> NoBook]
    /\ count = [entries |-> 0, kills |-> 0, boots |-> 0]
    /\ setting \in Settings

-----------------------------------------------------------------------------
(* Orders: sized from the slice and the intent's reference price, never    *)
(* from what the leg holds, and floored to the lot step.                   *)

Coins == Total(own, Legs)
Qty(pct, ref) == (slice * pct) \div (100 * ref)

(* A BUY may be refused or cut down by the gateway and the allocator.      *)
Bought(q) == IF setting.orders = "fill" THEN {q} ELSE {0, q \div 2, q}
(* A SELL of more than the account holds is refused by the exchange.       *)
Sold(q) == (IF q <= Coins THEN {q} ELSE {0})
           \cup (IF setting.orders = "fill" THEN {} ELSE {0})

Buy(l, ref) ==
    /\ \E q \in Bought(Qty(100, ref)) : own' = [own EXCEPT ![l] = @ + q]
    /\ book' = [book EXCEPT ![l].buys = @ + 1]

Sell(l, pct, ref) ==
    /\ \E q \in Sold(Qty(pct, ref)) : own' = [own EXCEPT ![l] = @ - q]
    /\ book' = [book EXCEPT ![l].sold = @ + pct]

NoOrder == UNCHANGED <<own, book>>

Closed(p) == Flat

-----------------------------------------------------------------------------
(* The bar close of leg l at price c; `low' is its signal's verdict, whose *)
(* exact complement is the flip.                                           *)

Held(b) == IF b < 2 THEN b + 1 ELSE 2   \* bars_held_, as far as it is read

FlipDue(l, low) ==
    /\ pos[l].in /\ ~low
    /\ l \in Intraday => ~pos[l].runner /\ pos[l].bars >= 2

(* Mutant: the flip's runner is not marked as one.                         *)
FlipToRunnerBroken(l, c, low) ==
    /\ FlipDue(l, low) /\ l \in Intraday /\ pos[l].armed
    /\ Sell(l, 50, c)
    /\ pos' = [pos EXCEPT ![l].bars = Held(@)]
    /\ UNCHANGED count

FlipToRunner(l, c, low) ==
    /\ FlipDue(l, low) /\ l \in Intraday /\ pos[l].armed
    /\ Sell(l, 50, c)
    /\ pos' = [pos EXCEPT ![l].runner = TRUE, ![l].bars = Held(@)]
    /\ UNCHANGED count

(* Mutant: the exit of a position that never armed sends its SELL.         *)
FlipUnopenedBroken(l, c, low) ==
    /\ FlipDue(l, low) /\ l \in Intraday /\ ~pos[l].armed
    /\ Sell(l, 100, c)
    /\ pos' = [pos EXCEPT ![l] = Closed(@)]
    /\ UNCHANGED count

FlipUnopened(l, c, low) ==
    /\ FlipDue(l, low) /\ l \in Intraday /\ ~pos[l].armed
    /\ NoOrder
    /\ pos' = [pos EXCEPT ![l] = Closed(@)]
    /\ UNCHANGED count

FlipOut(l, c, low) ==
    /\ FlipDue(l, low) /\ l \notin Intraday
    /\ Sell(l, 100, c)
    /\ pos' = [pos EXCEPT ![l] = Closed(@)]
    /\ UNCHANGED count

(* Mutant: a halted engine still evaluates its signal.                     *)
MayEnterBroken(l) == ~pos[l].in

MayEnter(l) == ~pos[l].in /\ ~halted[l]

Opened(c) == [in |-> TRUE, entry |-> c, armed |-> FALSE, peak |-> c, bars |-> 1,
              runner |-> FALSE]

(* evaluate_signal_: an intraday leg opens on paper and sends nothing.     *)
Enter(l, c, low) ==
    /\ MayEnter(l) /\ low /\ count.entries < MaxEntries
    /\ pos' = [pos EXCEPT ![l] = Opened(c)]
    /\ count' = [count EXCEPT !.entries = @ + 1]
    /\ \E q \in IF l \in Intraday THEN {0} ELSE Bought(Qty(100, c)) :
           own' = [own EXCEPT ![l] = @ + q]
    /\ book' = [book EXCEPT ![l] = [buys |-> IF l \in Intraday THEN 0 ELSE 1, sold |-> 0]]

(* No flip, and no signal or one that a gate suppresses.                   *)
BarPasses(l, low) ==
    /\ ~FlipDue(l, low)
    /\ pos' = [pos EXCEPT ![l].bars = IF pos[l].in THEN Held(@) ELSE 0]
    /\ NoOrder /\ UNCHANGED count

CloseBar(l, c, low) ==
    /\ \/ FlipToRunner(l, c, low) \/ FlipUnopened(l, c, low)
       \/ FlipOut(l, c, low) \/ Enter(l, c, low) \/ BarPasses(l, low)
    /\ UNCHANGED halted

-----------------------------------------------------------------------------
(* check_exits_ of an intraday leg l at a price: its stop works only after *)
(* the entry day.  A ride-to-flip leg has none.                            *)

Confirm(entry) == entry + 1   \* the lattice point at or above +60 bp or 2 x cost

(* Mutant: the runner keeps the loose floor of the whole position.         *)
KeepBroken(p) == 10

(* Percent of the peak gain that the stop locks in.                        *)
Keep(p) == IF p.runner THEN 85 ELSE 10
Stopped(p, price) == 100 * price <= 100 * p.entry + Keep(p) * (p.peak - p.entry)

Managed(l) == pos[l].in /\ pos[l].bars >= 2
Peaked(p, price) == [p EXCEPT !.peak = IF price > @ THEN price ELSE @]

Arm(l, price) ==
    /\ Managed(l) /\ ~pos[l].armed /\ price >= Confirm(pos[l].entry)
    /\ Buy(l, price)
    /\ pos' = [pos EXCEPT ![l] = [Peaked(@, price) EXCEPT !.armed = TRUE]]

StopOut(l, price) ==
    /\ Managed(l) /\ pos[l].armed /\ Stopped(Peaked(pos[l], price), price)
    /\ Sell(l, IF pos[l].runner THEN 50 ELSE 100, price)
    /\ pos' = [pos EXCEPT ![l] = Closed(@)]

Rides(l, price) ==
    /\ IF Managed(l)
       THEN /\ IF pos[l].armed THEN ~Stopped(Peaked(pos[l], price), price)
                               ELSE price < Confirm(pos[l].entry)
            /\ pos' = [pos EXCEPT ![l] = Peaked(@, price)]
       ELSE UNCHANGED pos
    /\ NoOrder

CheckExits(l, price) ==
    /\ Arm(l, price) \/ StopOut(l, price) \/ Rides(l, price)
    /\ UNCHANGED <<halted, count>>

(* kill_all of one engine: without a price it halts and stays open.        *)
KillLeg(l) ==
    /\ IF pos[l].in /\ open
       THEN Sell(l, 100, px) /\ pos' = [pos EXCEPT ![l] = Closed(@)]
       ELSE NoOrder /\ UNCHANGED pos
    /\ halted' = [halted EXCEPT ![l] = TRUE]
    /\ UNCHANGED count

-----------------------------------------------------------------------------
(* The feed thread and the HTTP thread, under g_engine_mtx.                *)

(* The verdicts of the bars that a tick closes: none, one, or one and an   *)
(* empty filler, whose zero range is no signal for a ride-to-flip leg.  So *)
(* is the bar that the first tick after boot closes: seed_bars left it     *)
(* forming at the last close that was fetched.                             *)
Verdicts ==
    LET V == [Legs -> BOOLEAN]
        Empty == {f \in V : \A l \in Legs \ Intraday : ~f[l]}
        First == IF open THEN V ELSE Empty
    IN  {<<>>} \cup {<<v>> : v \in First} \cup {<<v, w>> : v \in First, w \in Empty}

(* on_tick: the bars close at the price before, the exits see the new one. *)
Tick(p, lows) ==
    /\ up /\ Free
    /\ todo' = [l \in Legs |->
           [bars |-> [j \in 1..Len(lows) |-> [low |-> lows[j][l], at |-> px]],
            last |-> IF l \in Intraday THEN "exits" ELSE "none"]]
    /\ px' = p /\ open' = TRUE
    /\ UNCHANGED <<pos, halted, up, file, slice, own, book, count, setting>>

(* /api/kill takes every engine; AGG_KILL and DAILY_KILL of the portfolio  *)
(* loop those in position.                                                 *)
Kill ==
    /\ up /\ Free
    /\ setting.kills /\ count.kills < MaxKills
    /\ \E chosen \in {Legs, {l \in Legs : pos[l].in}} :
           todo' = [l \in Legs |->
               IF l \in chosen THEN [bars |-> <<>>, last |-> "kill"] ELSE Idle]
    /\ count' = [count EXCEPT !.kills = @ + 1]
    /\ UNCHANGED <<pos, halted, px, open, up, file, slice, own, book, setting>>

(* It is the leg's turn: the slots before it are done.                     *)
Turn(l) ==
    /\ up /\ todo[l] # Idle
    /\ \E i \in 1..Len(Order) :
           l = Order[i] /\ \A j \in 1..i - 1 : todo[Order[j]] = Idle

WorkBar(l) ==
    /\ Turn(l) /\ todo[l].bars # <<>>
    /\ CloseBar(l, Head(todo[l].bars).at, Head(todo[l].bars).low)
    /\ todo' = [todo EXCEPT ![l].bars = Tail(@)]
    /\ UNCHANGED <<px, open, up, file, slice, setting>>

WorkLast(l) ==
    /\ Turn(l) /\ todo[l].bars = <<>>
    /\ \/ todo[l].last = "exits" /\ CheckExits(l, px)
       \/ todo[l].last = "kill" /\ KillLeg(l)
    /\ todo' = [todo EXCEPT ![l] = Idle]
    /\ UNCHANGED <<px, open, up, file, slice, setting>>

-----------------------------------------------------------------------------
(* The snapshot file, and restarts.                                        *)

(* Mutant: the snapshot does not hold trail_armed.                         *)
SavedBroken(p) == IF p.in THEN [p EXCEPT !.runner = FALSE, !.armed = FALSE] ELSE Flat

(* position_snapshot_json: the runner flag is not among its fields.        *)
Saved(p) == IF p.in THEN [p EXCEPT !.runner = FALSE] ELSE Flat
SavedAll == [l \in Legs |-> Saved(pos[l])]

(* Mutant: bars_held_ starts again at zero.                                *)
ResumedBroken(s) == [s EXCEPT !.bars = 0]

Resumed(s) == s

Snapshot ==
    /\ up /\ Free
    /\ setting.restart = "rough" /\ count.boots < MaxBoots
    /\ file' = SavedAll
    /\ UNCHANGED <<engine, up, slice, own, book, count, setting>>

MemoryIsLost ==
    /\ up' = FALSE
    /\ pos' = [l \in Legs |-> Flat] /\ halted' = [l \in Legs |-> FALSE]
    /\ open' = FALSE /\ todo' = [l \in Legs |-> Idle]
    /\ UNCHANGED <<px, slice, own, book, count, setting>>

(* The final snapshot, and no tick between it and feed.stop().             *)
Shutdown ==
    /\ up /\ Free
    /\ setting.restart = "quiet" /\ count.boots < MaxBoots
    /\ file' = SavedAll
    /\ MemoryIsLost

(* The process dies, or handles ticks after its final snapshot, which      *)
(* comes to the same; while it writes the file, it leaves an empty one.    *)
Crash ==
    /\ up /\ setting.restart = "rough" /\ count.boots < MaxBoots
    /\ file' \in {file, [l \in Legs |-> Flat]}
    /\ MemoryIsLost

Boot ==
    /\ ~up /\ up' = TRUE
    /\ pos' = [l \in Legs |-> IF file[l].in THEN Resumed(file[l]) ELSE Flat]
    /\ slice' \in Slices /\ px' \in Prices
    /\ count' = [count EXCEPT !.boots = @ + 1]
    /\ UNCHANGED <<halted, open, todo, file, own, book, setting>>

Next ==
    \/ \E p \in Prices, lows \in Verdicts : Tick(p, lows)
    \/ Kill
    \/ \E l \in Legs : WorkBar(l) \/ WorkLast(l)
    \/ Snapshot \/ Shutdown \/ Crash \/ Boot

Spec == Init /\ [][Next]_vars

-----------------------------------------------------------------------------
(* Properties.  What each needs of the setting is part of it; the README   *)
(* shows how it fails without.                                             *)

(* The state is well typed and a flat leg carries nothing over from its    *)
(* last position, whatever path closed it (exit_position_'s reset).        *)
TypeOK ==
    /\ pos \in [Legs -> Positions] /\ file \in [Legs -> Positions]
    /\ \A l \in Legs : ~pos[l].in => pos[l] = Flat
    /\ halted \in [Legs -> BOOLEAN] /\ px \in Prices /\ open \in BOOLEAN
    /\ todo \in [Legs -> Jobs]
    /\ count \in [entries : Nat, kills : Nat, boots : Nat]
    /\ up \in BOOLEAN
    /\ slice \in Slices /\ setting \in Settings
    /\ own \in [Legs -> Int] /\ book \in [Legs -> [buys : Nat, sold : Nat]]

(* No life of the process sells more of a position than all of it: the     *)
(* flip's half and the runner's half, or the whole once (close_bar_'s      *)
(* runner branch, check_exits_'s stop), however ticks, gaps, refused       *)
(* orders and the snapshot fall.                                           *)
SoldAtMostWhole ==
    count.kills = 0
        => \A l \in Legs : book[l].sold <= 100 * (1 + count.boots)

(* A position is bought once, and only sold after it was: arming is        *)
(* remembered by the snapshot, so that a restart does not send a deferred  *)
(* BUY again (a crash before the next snapshot does, once), and a deferred *)
(* entry that never armed leaves nothing to sell (rsirev_flat_book_).      *)
BoughtOnceThenSold ==
    \A l \in Legs :
        /\ book[l].buys <= IF setting.restart = "rough" THEN 1 + count.boots ELSE 1
        /\ count.kills = 0 /\ setting.restart # "rough" /\ book[l].sold > 0 => book[l].buys > 0

(* No intraday leg whose BUY is out stays open at or under its entry: once *)
(* a tick is dealt with, its stop has taken it out, entry day, half sold,  *)
(* kill or restart notwithstanding.                                        *)
FloorHolds ==
    setting.restart # "rough" /\ up /\ open /\ Free
        => \A l \in Intraday :
              pos[l].in /\ book[l].buys > 0 => px > pos[l].entry

(* The half that runs on keeps 85 % of the peak gain: after the flip sold  *)
(* the other half, the price is never seen at or under that trail.         *)
RunnerTrails ==
    count.boots = 0 /\ Free
        => \A l \in Intraday :
              pos[l].in /\ book[l].sold = 50
                  => 100 * px > 100 * pos[l].entry + 85 * (pos[l].peak - pos[l].entry)

(* A killed engine holds no position until the process restarts: neither   *)
(* the bars its tick still closes nor later ones open it again.            *)
KilledStaysFlat ==
    count.boots = 0
        => \A l \in Legs : halted[l] /\ open => ~pos[l].in

(* A leg that is out of its position leaves none of its coins behind and   *)
(* has taken none of another leg's: its SELLs are of the fraction it held  *)
(* (OrderIntentRecord::qty_frac).                                          *)
ExitSellsWhatIsHeld ==
    \A l \in Legs : ~pos[l].in => own[l] = 0
=============================================================================

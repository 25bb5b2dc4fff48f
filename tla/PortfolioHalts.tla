--------------------------- MODULE PortfolioHalts ---------------------------
(***************************************************************************)
(* The portfolio protections of main.cpp: the daily-loss kill, the         *)
(* emergency halt, the peak-equity ratchet with its decay and clamp, their *)
(* file data/protection_state.json, and the entry gates of the wired       *)
(* engines of one symbol.                                                  *)
(*                                                                         *)
(* Ticks, trades and the protections block of the main loop hold           *)
(* g_engine_mtx; the HTTP handlers of /api/ratchet_reset,                  *)
(* /api/daily_kill_clear and /api/session_reset do not, so the block and   *)
(* the handlers are several steps each, and a handler's save reads in one  *)
(* step what it writes in the next.  A save of the lock's holder is one    *)
(* step.  Equity is in basis points.  Timestamps become time left or       *)
(* elapsed, in units of two hours.                                         *)
(***************************************************************************)
EXTENDS Integers, SequencesExt

CONSTANTS Order,      \* engines of g_all_wired on the symbol, in that order
          Bps,        \* net_bp of a trade
          Settings,   \* what may happen
          MaxTrades,  \* bound: trades but those of kills, in any setting
          MaxBoots,   \* bound: restarts
          MaxResets   \* bound: operator requests

Wired == Range(Order)

Day == 12   \* units: DAILY_WINDOW_MS

AllSettings == [crash : {"no", "whole", "torn"},  \* which file a crash may leave
                race : BOOLEAN,                   \* handlers run inside the block
                alarm : BOOLEAN,                  \* BTC crashes, stops cascade
                spans : SUBSET {1, Day},          \* how far time jumps
                bps : SUBSET Bps,                 \* what trades bring
                warm : SUBSET Bps,                \* baselines asked of session_reset
                trades : 0..MaxTrades]            \* how many

ASSUME HaltsAssumption ==
    /\ Order \in Seq(Wired) /\ IsInjective(Order) /\ Bps \subseteq Int
    /\ MaxTrades \in Nat /\ Settings \subseteq AllSettings
    /\ MaxBoots \in Nat /\ MaxResets \in Nat

VARIABLES log,        \* g_trade_log, and with it the trade journal
          mem,        \* the protection atomics
          file,       \* data/protection_state.json
          emergency,  \* units left of the emergency halt
          ratchet,    \* ratchet_locked, and units since lock_start_ms
          below,      \* daily_below_threshold, unset until the first pass
          forced,     \* g_force_ratchet_unlock
          open,       \* g_gate_open
          eng,        \* the wired engines
          symCool,    \* the post-SL cooldown of the symbol runs
          loop,       \* how far the protections block is, with its locals
          reset,      \* how far the HTTP handler is, with its locals
          up,         \* the process runs
          due,        \* the block has not yet seen the last event
          seen,       \* observer: a pass of the block began in this emergency
          owed,       \* observer: units left of a kill that nobody cleared
          saved,      \* observer: that kill was saved, and no older save came after
          eased,      \* observer: the peak was lowered deliberately, or lost for good
          rebased,    \* observer: an operator set the equity
          count,      \* restarts and operator requests, for the bounds
          setting     \* one of Settings, fixed at start

vars == <<log, mem, file, emergency, ratchet, below, forced, open, eng, symCool,
          loop, reset, up, due, seen, owed, saved, eased, rebased, count, setting>>

Fresh == [in |-> FALSE, halted |-> FALSE, gate |-> TRUE, cool |-> "none"]
Unlocked == [locked |-> FALSE, for |-> 0]
Idle == [at |-> "idle", cum |-> 0, peak |-> 0, halted |-> FALSE]
Empty == [peak |-> 0, cum |-> 0, kill |-> 0, epoch |-> 0, base |-> 0]
NoReset == [at |-> "none", epoch |-> 0, cum |-> 0, peak |-> 0, save |-> Empty, old |-> FALSE]

Init ==
    /\ log = <<>> /\ mem = Empty /\ file = Empty
    /\ emergency = 0 /\ ratchet = Unlocked /\ below = "unset"
    /\ forced = FALSE /\ open = TRUE
    /\ eng = [e \in Wired |-> Fresh] /\ symCool = FALSE
    /\ loop = Idle /\ reset = NoReset /\ up = TRUE /\ due = TRUE
    /\ seen = FALSE /\ owed = 0 /\ saved = FALSE /\ eased = FALSE /\ rebased = FALSE
    /\ count = [boots |-> 0, resets |-> 0]
    /\ setting \in Settings

Locked == loop.at # "idle"                     \* the block holds g_engine_mtx
MayRun == up /\ (setting.race \/ reset.at = "none")
MayHandle == up /\ (setting.race \/ ~Locked)

-----------------------------------------------------------------------------
(* Equity.                                                                 *)

Larger(a, b) == IF a >= b THEN a ELSE b

(* The totals of all trades up to the i-th.                                *)
Running(trades) ==
    LET sum[i \in 0..Len(trades)] == IF i = 0 THEN 0 ELSE sum[i - 1] + trades[i].bp
    IN  sum

(* Net result of the trades after the first n, and the highest total.      *)
Net(trades, n) == Running(trades)[Len(trades)] - Running(trades)[n]
HighWater(trades) ==
    CHOOSE top \in Range(Running(trades)) : \A total \in Range(Running(trades)) : total <= top

(* Net result of the trades after the first n that meet Test.              *)
Sum(trades, n, Test(_)) ==
    FoldLeft(LAMBDA s, t : IF Test(t) THEN s + t.bp ELSE s, 0,
             SubSeq(trades, n + 1, Len(trades)))

DailyPnl(trades, n) == Sum(trades, n, LAMBDA t : t.age # "old")
HalfHourPnl(trades, n) == Sum(trades, n, LAMBDA t : t.age = "fresh")

Logged(trades, bp) == Append(trades, [bp |-> bp, age |-> "fresh"])

Credited(m, bp) == [m EXCEPT !.cum = @ + bp, !.peak = Larger(@, m.cum + bp)]

-----------------------------------------------------------------------------
(* Ticks and trades of the wired engines.                                  *)

(* A trade ends; a loss is a stop and cools the engine and the symbol.     *)
Trade(e, bp) ==
    /\ MayRun /\ ~Locked /\ eng[e].in /\ Len(log) < setting.trades
    /\ log' = Logged(log, bp)
    /\ mem' = Credited(mem, bp) /\ file' = mem'
    /\ eng' = [eng EXCEPT ![e] =
                  IF bp < 0 THEN [@ EXCEPT !.in = FALSE, !.gate = FALSE, !.cool = "on"]
                            ELSE [@ EXCEPT !.in = FALSE]]
    /\ symCool' = (symCool \/ bp < 0)
    /\ due' = TRUE
    /\ UNCHANGED <<emergency, ratchet, below, forced, open, loop, reset, up,
                   seen, owed, saved, eased, rebased, count, setting>>

(* Mutant: a cooldown that ends during an emergency opens the gate.        *)
CooledBroken(s) ==
    IF s.cool = "over" THEN [s EXCEPT !.gate = TRUE, !.cool = "none"] ELSE s

(* engine_check_cooldown_expiry, then the blocks of the symbol.            *)
Cooled(s) ==
    IF s.cool = "over" /\ emergency = 0
    THEN [s EXCEPT !.gate = TRUE, !.cool = "none"] ELSE s
Blocked(s) == IF symCool THEN [s EXCEPT !.gate = FALSE] ELSE s

(* Mutant: the exposure counts are those of the tick's start.              *)
MayEnterBroken(state, entered, e) ==
    state[e].gate /\ ~state[e].halted /\ \A o \in Wired : ~state[o].in

(* Portfolio gate, and CLUSTER_MAX_PER_SYMBOL on counts that are kept up   *)
(* to date from engine to engine.                                          *)
MayEnter(state, entered, e) ==
    state[e].gate /\ ~state[e].halted /\ \A o \in Wired : ~state[o].in /\ o \notin entered

(* Each engine in turn enters or not, as its signal says.                  *)
Entered(state, signals) ==
    LET entered[i \in 0..Len(Order)] ==
            IF i = 0 THEN {}
            ELSE LET before == entered[i - 1]
                 IN  before \cup {e \in {Order[i]} \cap signals : MayEnter(state, before, e)}
    IN  entered[Len(Order)]

AfterTick(signals) ==
    LET state == [e \in Wired |-> Blocked(Cooled(eng[e]))]
    IN  [e \in Wired |-> [state[e] EXCEPT !.in = @ \/ e \in Entered(state, signals)]]

Tick ==
    /\ MayRun /\ ~Locked
    /\ \E signals \in SUBSET Wired : eng' = AfterTick(signals)
    /\ UNCHANGED <<log, mem, file, emergency, ratchet, below, forced, open, symCool,
                   loop, reset, up, due, seen, owed, saved, eased, rebased, count, setting>>

-----------------------------------------------------------------------------
(* The protections block.                                                  *)

EmergencyDd == 150
EmergencyUnits == 2   \* EMERGENCY_HALT_DURATION_MS
DailyLoss == 400
KillUnits == 1        \* DAILY_HALT_MS

(* EMERGENCY: positions are closed and their engines stay halted; while it *)
(* runs, the gates are shut.                                               *)
EmergencyTrips(pnl, alarm) == emergency = 0 /\ (pnl <= -EmergencyDd \/ alarm)

Flattened == [e \in Wired |-> IF eng[e].in
                              THEN [eng[e] EXCEPT !.in = FALSE, !.halted = TRUE] ELSE eng[e]]
Shut == [e \in Wired |-> [eng[e] EXCEPT !.gate = FALSE]]

(* The trades and the equity after the closing of each position in turn.   *)
Closing(bps) ==
    LET closed[i \in 0..Len(Order)] ==
            IF i = 0 THEN [log |-> log, mem |-> mem]
            ELSE LET before == closed[i - 1]
                     bp == bps[Order[i]]
                 IN  IF eng[Order[i]].in
                     THEN [log |-> Logged(before.log, bp), mem |-> Credited(before.mem, bp)]
                     ELSE before
    IN  closed[Len(Order)]

(* DAILY_KILL fires on the first pass that sees the loss; the flag is      *)
(* seeded by the first pass of a process.                                  *)
WasBelow(pnl) == IF below = "unset" THEN mem.kill > 0 \/ pnl < -DailyLoss ELSE below = "yes"
KillTrips(pnl) == ~WasBelow(pnl) /\ pnl < -DailyLoss /\ mem.kill = 0

LoopReads(alarm, bps) ==
    LET pnl    == DailyPnl(log, mem.epoch)
        trips  == EmergencyTrips(HalfHourPnl(log, mem.epoch), alarm)
        kills  == KillTrips(pnl)
        after  == IF trips THEN Closing(bps) ELSE [log |-> log, mem |-> mem]
        closes == trips /\ \E e \in Wired : eng[e].in
    IN  /\ MayRun /\ ~Locked
        /\ emergency' = IF trips THEN EmergencyUnits ELSE emergency
        /\ log' = after.log
        /\ eng' = IF trips THEN Flattened ELSE IF emergency > 0 THEN Shut ELSE eng
        /\ mem' = IF kills THEN [after.mem EXCEPT !.kill = KillUnits] ELSE after.mem
        /\ file' = IF closes THEN after.mem ELSE file
        /\ below' = IF pnl < -DailyLoss THEN "yes" ELSE "no"
        /\ loop' = [Idle EXCEPT !.at = IF kills THEN "save" ELSE "equity",
                                !.halted = mem'.kill > 0]
        /\ reset' = [reset EXCEPT !.old = @ \/ (kills /\ reset.at = "write")]
        /\ due' = trips
        /\ seen' = (emergency > 0)
        /\ owed' = IF kills THEN KillUnits ELSE owed
        /\ saved' = (saved /\ ~kills)
        /\ UNCHANGED <<ratchet, forced, open, symCool, up, eased, rebased, count, setting>>

(* Mutant: a tripped kill is not saved.                                    *)
LoopSavesBroken ==
    /\ up /\ loop.at = "save"
    /\ loop' = [loop EXCEPT !.at = "equity"] /\ saved' = TRUE
    /\ UNCHANGED <<log, mem, file, emergency, ratchet, below, forced, open, eng, symCool,
                   reset, up, due, seen, owed, eased, rebased, count, setting>>

LoopSaves ==
    /\ up /\ loop.at = "save"
    /\ loop' = [loop EXCEPT !.at = "equity"]
    /\ file' = mem /\ saved' = TRUE
    /\ UNCHANGED <<log, mem, emergency, ratchet, below, forced, open, eng, symCool,
                   reset, up, due, seen, owed, eased, rebased, count, setting>>

MaxToleratedDd == 800

(* Mutant: the sum runs over the whole log on top of the baseline.         *)
EquityBroken == mem.base + Net(log, 0)

Equity == mem.base + Net(log, mem.epoch)

(* PEAK_CLAMP saves before the new peak is stored.                         *)
LoopEquity ==
    LET cum   == Equity
        peak  == Larger(mem.peak, cum)
        clamp == peak - cum > MaxToleratedDd
    IN  /\ up /\ loop.at = "equity"
        /\ loop' = [loop EXCEPT !.at = "ratchet", !.cum = cum,
                                !.peak = IF clamp THEN cum ELSE peak]
        /\ file' = IF clamp THEN mem ELSE file
        /\ eased' = (eased \/ clamp)
        /\ UNCHANGED <<log, mem, emergency, ratchet, below, forced, open, eng, symCool,
                       reset, up, due, seen, owed, saved, rebased, count, setting>>

RatchetArm == 150
Giveback == 100
RatchetRearm == 50
GivebackTrips(peak, cum) == peak - cum > Giveback \/ 100 * (peak - cum) > 15 * peak

(* Mutant: the peak does not decay.                                        *)
DecayedBroken(peak, cum, units) == peak

(* A tenth of the peak per day locked.                                     *)
Decayed(peak, cum, units) == Larger(cum, peak - (peak * units) \div (10 * Day))

(* Mutant: no unlock once the peak is below the arming threshold.          *)
RelockedBroken(r, peak, cum) ==
    IF peak < RatchetArm THEN r
    ELSE IF GivebackTrips(peak, cum) THEN [r EXCEPT !.locked = TRUE]
    ELSE IF peak - cum < RatchetRearm THEN Unlocked ELSE r

Relocked(r, peak, cum) ==
    IF peak < RatchetArm THEN Unlocked
    ELSE IF GivebackTrips(peak, cum) THEN [r EXCEPT !.locked = TRUE]
    ELSE IF peak - cum < RatchetRearm THEN Unlocked ELSE r

ThrottleZeroAt == 500   \* size_throttle

LoopRatchet ==
    LET held   == IF forced THEN Unlocked ELSE ratchet
        cum    == loop.cum
        decays == held.locked /\ held.for > 0 /\ loop.peak > cum
        peak   == IF decays THEN Decayed(loop.peak, cum, held.for) ELSE loop.peak
    IN  /\ up /\ loop.at = "ratchet"
        /\ mem' = [mem EXCEPT !.cum = cum, !.peak = peak]
        /\ file' = IF peak < loop.peak THEN mem' ELSE file
        /\ ratchet' = Relocked(IF decays THEN [held EXCEPT !.for = 0] ELSE held, peak, cum)
        /\ open' = (~ratchet'.locked /\ ~loop.halted /\ peak - cum < ThrottleZeroAt)
        /\ forced' = FALSE /\ loop' = Idle
        /\ eased' = (eased \/ peak < loop.peak)
        /\ UNCHANGED <<log, emergency, below, eng, symCool, reset, up, due, seen, owed,
                       saved, rebased, count, setting>>

-----------------------------------------------------------------------------
(* The HTTP handlers: one thread, without g_engine_mtx.                    *)

Asked == MayHandle /\ reset.at = "none" /\ count.resets < MaxResets
         /\ count' = [count EXCEPT !.resets = @ + 1]

(* ratchet_reset reads the equity, and then makes it the peak and clears   *)
(* the kill.                                                               *)
RatchetReset ==
    /\ Asked
    /\ reset' = [NoReset EXCEPT !.at = "peak", !.cum = mem.cum]
    /\ UNCHANGED <<log, mem, file, emergency, ratchet, below, forced, open, eng, symCool,
                   loop, up, due, seen, owed, saved, eased, rebased, setting>>

ResetPeak ==
    /\ up /\ reset.at = "peak"
    /\ mem' = [mem EXCEPT !.peak = reset.cum, !.kill = 0]
    /\ reset' = [reset EXCEPT !.at = "save"]
    /\ owed' = 0 /\ eased' = TRUE /\ due' = TRUE
    /\ UNCHANGED <<log, file, emergency, ratchet, below, forced, open, eng, symCool, loop,
                   up, seen, saved, rebased, count, setting>>

DailyKillClear ==
    /\ Asked
    /\ mem' = [mem EXCEPT !.kill = 0]
    /\ reset' = [NoReset EXCEPT !.at = "save"]
    /\ owed' = 0 /\ due' = TRUE
    /\ UNCHANGED <<log, file, emergency, ratchet, below, forced, open, eng, symCool, loop,
                   up, seen, saved, eased, rebased, setting>>

(* session_reset takes the time, reads the equity or is told one, stores   *)
(* the epoch, stores the equity again as the baseline, and clears the      *)
(* halts.                                                                  *)
SessionReset ==
    /\ Asked
    /\ reset' = [NoReset EXCEPT !.at = "read", !.epoch = Len(log)]
    /\ UNCHANGED <<log, mem, file, emergency, ratchet, below, forced, open, eng, symCool,
                   loop, up, due, seen, owed, saved, eased, rebased, setting>>

ReadEquity ==
    /\ up /\ reset.at = "read"
    /\ \/ /\ reset' = [reset EXCEPT !.at = "rebase", !.cum = mem.cum, !.peak = mem.peak]
          /\ UNCHANGED <<eased, rebased>>
       \/ \E cum \in setting.warm :
              /\ reset' = [reset EXCEPT !.at = "rebase", !.cum = cum,
                                        !.peak = Larger(mem.peak, cum)]
              /\ eased' = TRUE /\ rebased' = TRUE
    /\ mem' = [mem EXCEPT !.epoch = reset.epoch]
    /\ UNCHANGED <<log, file, emergency, ratchet, below, forced, open, eng, symCool, loop,
                   up, due, seen, owed, saved, count, setting>>

Rebase ==
    /\ up /\ reset.at = "rebase"
    /\ mem' = [mem EXCEPT !.base = reset.cum, !.cum = reset.cum, !.peak = reset.peak]
    /\ reset' = [reset EXCEPT !.at = "clear"]
    /\ UNCHANGED <<log, file, emergency, ratchet, below, forced, open, eng, symCool, loop,
                   up, due, seen, owed, saved, eased, rebased, count, setting>>

ClearHalts ==
    /\ up /\ reset.at = "clear"
    /\ mem' = [mem EXCEPT !.kill = 0]
    /\ reset' = [reset EXCEPT !.at = "save"]
    /\ emergency' = 0 /\ forced' = TRUE /\ due' = TRUE
    /\ owed' = 0 /\ seen' = FALSE
    /\ UNCHANGED <<log, file, ratchet, below, open, eng, symCool, loop, up, saved, eased,
                   rebased, count, setting>>

(* save_protection_state: the values are read, and what was read becomes   *)
(* the file.                                                               *)
SaveReads ==
    /\ up /\ reset.at = "save"
    /\ reset' = [reset EXCEPT !.at = "write", !.save = mem, !.old = FALSE]
    /\ UNCHANGED <<log, mem, file, emergency, ratchet, below, forced, open, eng, symCool, loop,
                   up, due, seen, owed, saved, eased, rebased, count, setting>>

SaveWrites ==
    /\ up /\ reset.at = "write"
    /\ file' = reset.save /\ saved' = (saved /\ ~reset.old)
    /\ reset' = NoReset
    /\ UNCHANGED <<log, mem, emergency, ratchet, below, forced, open, eng, symCool, loop,
                   up, due, seen, owed, eased, rebased, count, setting>>

Handler == ResetPeak \/ ReadEquity \/ Rebase \/ ClearHalts \/ SaveReads \/ SaveWrites

-----------------------------------------------------------------------------
(* Time.                                                                   *)

Less(n, units) == Larger(0, n - units)

(* The first k trades leave the day's window; none stays fresh.            *)
Aged(k) == [i \in 1..Len(log) |->
               [log[i] EXCEPT !.age = IF i <= k THEN "old" ELSE "day"]]
Leaving(units) ==
    IF units = Day THEN {Len(log)}
    ELSE {k \in 0..Len(log) : \A i \in 1..Len(log) :
              (log[i].age = "old" => i <= k) /\ (log[i].age = "fresh" => i > k)}

Warmer(s) == IF s.cool = "on" THEN [s EXCEPT !.cool = "over"] ELSE s

(* The block runs every minute, so it has seen what happened before.       *)
Pass(units) ==
    /\ units \in setting.spans
    /\ ~Locked /\ reset.at = "none" /\ (up => ~due)
    /\ \E k \in Leaving(units) : log' = Aged(k)
    /\ mem' = [mem EXCEPT !.kill = Less(@, units)]
    /\ file' = [file EXCEPT !.kill = Less(@, units)]
    /\ emergency' = Less(emergency, units) /\ owed' = Less(owed, units)
    /\ ratchet' = [ratchet EXCEPT !.for = IF ratchet.locked THEN units ELSE 0]
    /\ \E over \in IF units = Day THEN {Wired} ELSE SUBSET Wired :
           eng' = [e \in Wired |-> IF e \in over THEN Warmer(eng[e]) ELSE eng[e]]
    /\ symCool' = FALSE
    /\ due' = TRUE /\ seen' = (seen /\ emergency' > 0)
    /\ UNCHANGED <<below, forced, open, loop, reset, up, saved, eased, rebased, count, setting>>

-----------------------------------------------------------------------------
(* Crashes and restarts.                                                   *)

(* Between the journal line of a trade and the file, or anywhere else; a   *)
(* crash while the file is being rewritten leaves it empty.                *)
Crash ==
    /\ up /\ setting.crash # "no" /\ count.boots < MaxBoots
    /\ log' \in {log} \cup {Logged(log, bp) :
                   bp \in {b \in setting.bps : \E e \in Wired : eng[e].in /\ ~Locked}}
    /\ file' \in {file} \cup IF setting.crash = "torn" THEN {Empty} ELSE {}
    /\ up' = FALSE
    /\ mem' = Empty /\ emergency' = 0 /\ ratchet' = Unlocked /\ below' = "unset"
    /\ forced' = FALSE /\ open' = TRUE
    /\ eng' = [e \in Wired |-> Fresh] /\ symCool' = FALSE
    /\ loop' = Idle /\ reset' = NoReset /\ due' = TRUE /\ seen' = FALSE
    /\ owed' = IF saved THEN owed ELSE 0
    /\ UNCHANGED <<saved, eased, rebased, count, setting>>

ReplayTolerance == 1
Near(a, b) == a - b \in -ReplayTolerance..ReplayTolerance

(* Mutant: the replay restores the sum alone.                              *)
RebuiltBroken(m) == [m EXCEPT !.cum = Net(log, 0)]

(* The replay of the journal.                                              *)
Rebuilt(m) == [m EXCEPT !.cum = Net(log, 0), !.peak = Larger(@, HighWater(log))]

(* It wins if its sum and that of the file differ; a journal whose sum is  *)
(* that of no file at all, zero, leaves the peak at zero as well.          *)
Boot ==
    /\ ~up /\ up' = TRUE
    /\ IF Near(Net(log, 0), file.cum)
       THEN mem' = file /\ UNCHANGED file
            /\ eased' = (eased \/ (file = Empty /\ HighWater(log) > ReplayTolerance))
       ELSE mem' = Rebuilt(file) /\ file' = mem' /\ UNCHANGED eased
    /\ count' = [count EXCEPT !.boots = @ + 1]
    /\ UNCHANGED <<log, emergency, ratchet, below, forced, open, eng, symCool, loop, reset,
                   due, seen, owed, saved, rebased, setting>>

Loop == \/ \E alarm \in BOOLEAN, bps \in [Wired -> setting.bps] :
               (alarm => setting.alarm) /\ LoopReads(alarm, bps)
        \/ LoopSaves \/ LoopEquity \/ LoopRatchet

Next ==
    \/ \E e \in Wired, bp \in setting.bps : Trade(e, bp)
    \/ Tick \/ Loop
    \/ RatchetReset \/ DailyKillClear \/ SessionReset \/ Handler
    \/ \E units \in {1, Day} : Pass(units)
    \/ Crash \/ Boot

Spec == Init /\ [][Next]_vars

(* The main loop and the HTTP thread are scheduled and time goes on.       *)
Fairness ==
    /\ WF_vars(Loop) /\ WF_vars(Handler)
    /\ SF_vars(\E units \in {1, Day} : Pass(units))
    /\ WF_vars(Boot)

FairSpec == Spec /\ Fairness

-----------------------------------------------------------------------------
(* Properties.                                                             *)

Settled == up /\ ~Locked /\ ~due /\ reset.at = "none"

Trades == Seq([bp : Bps, age : {"fresh", "day", "old"}])
States == [peak : Int, cum : Int, kill : 0..KillUnits, epoch : Nat, base : Int]
Engines == [in : BOOLEAN, halted : BOOLEAN, gate : BOOLEAN, cool : {"none", "on", "over"}]
Passes == [at : {"idle", "save", "equity", "ratchet"}, cum : Int, peak : Int, halted : BOOLEAN]
Resets == [at : {"none", "peak", "read", "rebase", "clear", "save", "write"},
           epoch : Nat, cum : Int, peak : Int, save : States, old : BOOLEAN]

(* The state is well typed, and no epoch lies ahead of the trades, so that *)
(* every sum over the trades since an epoch is defined.                    *)
TypeOK ==
    /\ log \in Trades /\ mem \in States /\ file \in States
    /\ emergency \in 0..EmergencyUnits
    /\ ratchet \in [locked : BOOLEAN, for : 0..Day]
    /\ below \in {"unset", "no", "yes"} /\ forced \in BOOLEAN /\ open \in BOOLEAN
    /\ eng \in [Wired -> Engines] /\ symCool \in BOOLEAN
    /\ loop \in Passes /\ reset \in Resets
    /\ up \in BOOLEAN /\ due \in BOOLEAN /\ seen \in BOOLEAN /\ saved \in BOOLEAN
    /\ eased \in BOOLEAN /\ rebased \in BOOLEAN
    /\ owed \in 0..KillUnits /\ setting \in Settings
    /\ mem.epoch <= Len(log) /\ file.epoch <= Len(log)
    /\ reset.epoch <= Len(log) /\ reset.save.epoch <= Len(log)

(* At most CLUSTER_MAX_PER_SYMBOL = 1 position, also when bars of several  *)
(* engines close on one tick: the counts taken before the engines run are  *)
(* kept up to date from one to the next (main.cpp:11425-11501).            *)
CapHolds == \A e, o \in Wired : eng[e].in /\ eng[o].in => e = o

(* A daily kill that tripped halts entries for its two hours through       *)
(* passes of the block and requests that overlap them, unless an operator  *)
(* clears it; also through crashes and restarts, unless the process dies   *)
(* before the kill is saved or after a request's older save has replaced   *)
(* that one (main.cpp:12317-12319, 2699-2700, 2730-2731).                  *)
KillHolds ==
    setting.crash # "torn" => (IF up THEN mem ELSE file).kill >= owed

(* The equity the protections use is that of every trade ever made, but    *)
(* for the replay's tolerance, until an operator sets another: callback,   *)
(* recount of each pass, session reset's own rebase and a restart's        *)
(* replay, also of a lost or stale file, all agree, and the error of one   *)
(* is never added to the next's (main.cpp:1107-1113, 12370-12378, 2745).   *)
EquityIsAllTrades ==
    ~setting.race /\ ~rebased /\ Settled => Near(mem.cum, Net(log, 0))

(* The high-water mark is never lost: between passes, after a crash before *)
(* the file was written, and with no file at all.                          *)
PeakKept ==
    ~setting.race /\ ~eased /\ up /\ ~Locked => mem.peak + ReplayTolerance >= HighWater(log)

(* After a pass the ratchet is locked whenever too much of a peak worth    *)
(* defending was given back, never latched when there is nothing left to   *)
(* defend or the loss is regained, even by decay, reset or clamp.          *)
RatchetRight ==
    LET back  == mem.peak - mem.cum
        trips == GivebackTrips(mem.peak, mem.cum)
    IN  IF mem.peak < RatchetArm
        THEN ~ratchet.locked
        ELSE (trips => ratchet.locked) /\ (ratchet.locked => trips \/ ~(back < RatchetRearm))

LockedIffGivenBack == Settled => RatchetRight

(* Once the block has made a pass in an emergency, no gate opens and no    *)
(* engine enters until it is over, whichever cooldowns end meanwhile.      *)
EmergencyShuts ==
    up /\ ~Locked /\ seen /\ emergency > 0 => \A e \in Wired : ~eng[e].gate

(* The gate that the block closes opens again, by itself, unless the       *)
(* drawdown lies between the size throttle's zero and the clamp with the   *)
(* ratchet unlocked, which nothing ever resolves.                          *)
Stuck == ~ratchet.locked /\ mem.peak - mem.cum >= ThrottleZeroAt

GateReopens == ~open ~> (open \/ Stuck)
=============================================================================

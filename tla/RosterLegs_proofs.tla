------------------------- MODULE RosterLegs_proofs -------------------------
(***************************************************************************)
(* The promises of the roster's legs, for any engines on a coin, prices,   *)
(* order sizes, kills and restarts: a position is bought once, sold at     *)
(* most once over, never sold unbought; the floor and the runner's trail   *)
(* hold at every tick that is dealt with; a killed engine stays out.       *)
(***************************************************************************)
EXTENDS RosterLegs, TLAPS

-----------------------------------------------------------------------------
(* The inductive invariant.  Every part speaks of one leg: no leg's engine *)
(* reads another's, and they share only the price and the mutex.           *)

(* A position the code can build: its peak is not under its entry, only an *)
(* intraday leg arms, after the entry day, and only an armed one leaves a  *)
(* runner.                                                                 *)
Sound(l, p) ==
    /\ p.entry <= p.peak
    /\ p.armed => l \in Intraday /\ p.bars = 2
    /\ p.runner => p.armed

(* Bars are left only after a tick; an intraday leg's, and only those, are *)
(* followed by the check of its exits; a kill was counted.                 *)
JobsFit(l) ==
    /\ todo[l].bars # <<>> => open
    /\ todo[l].bars # <<>> /\ l \in Intraday => todo[l].last = "exits"
    /\ todo[l].last = "exits" => l \in Intraday
    /\ todo[l].last = "kill" => count.kills > 0 /\ todo[l].bars = <<>>

(* What the position may still sell and buy in this life of the process.   *)
Left(p) == IF ~p.in THEN 0 ELSE IF p.runner THEN 50 ELSE 100
MayBuy(l, p) == IF p.in /\ l \in Intraday /\ ~p.armed THEN 1 ELSE 0

SoldFits(l) ==
    count.kills = 0 => book[l].sold + Left(pos[l]) <= 100 * (1 + count.boots)

(* The position a boot would resume, when no restart is rough.             *)
Here(l) == IF up THEN pos[l] ELSE file[l]

RoughFits(l) == book[l].buys + MayBuy(l, pos[l]) <= 1 + count.boots

BoughtFits(l) ==
    setting.restart # "rough"
        => /\ book[l].buys + MayBuy(l, Here(l)) <= 1
           /\ Here(l).in /\ l \in Intraday => (Here(l).armed <=> book[l].buys > 0)
           /\ Here(l).in /\ l \notin Intraday => book[l].buys > 0
           /\ count.kills = 0 /\ book[l].sold > 0 => book[l].buys > 0

FloorFits(l) ==
    setting.restart # "rough" /\ up /\ open /\ l \in Intraday /\ todo[l] = Idle
        => (pos[l].in /\ pos[l].armed => px > pos[l].entry)

(* Until the first restart a leg that is in has had a tick, and is in with *)
(* the whole position or as a runner, which is above its trail.            *)
TrailFits(l) ==
    count.boots = 0 /\ pos[l].in
        => /\ open /\ ~halted[l]
           /\ l \in Intraday => book[l].sold = IF pos[l].runner THEN 50 ELSE 0
           /\ todo[l] = Idle /\ pos[l].runner => ~Stopped(pos[l], px)

LegInv(l) ==
    /\ Sound(l, pos[l]) /\ Sound(l, file[l])
    /\ JobsFit(l) /\ SoldFits(l) /\ RoughFits(l) /\ BoughtFits(l)
    /\ FloorFits(l) /\ TrailFits(l)

LegsInv ==
    /\ ~up => ~open
    /\ \A l \in Legs : LegInv(l)

Inv == TypeOK /\ LegsInv

-----------------------------------------------------------------------------
(* Type correctness.                                                       *)

LEMMA FlatTyped == Flat \in Positions
BY DEF Flat, Positions

LEMMA SettingsKnown ==
  ASSUME setting \in Settings
  PROVE  /\ setting.orders \in {"fill", "gated"} /\ setting.kills \in BOOLEAN
         /\ setting.restart \in {"none", "quiet", "rough"}
BY RosterAssumption DEF AllSettings

(* Orders are of natural amounts, whatever the gateway makes of them.      *)
LEMMA QuantityIsNat ==
  ASSUME TypeOK, NEW pct \in {50, 100}, NEW ref \in Prices
  PROVE  Qty(pct, ref) \in Nat
<1>1. slice \in Nat \ {0} /\ ref \in Nat \ {0}
  BY RosterAssumption DEF TypeOK
<1>2. \A a, b \in Nat \ {0} : a \div b \in Nat
  OBVIOUS
<1>3. slice * pct \in Nat \ {0} /\ 100 * ref \in Nat \ {0}
  BY <1>1
<1> QED BY <1>2, <1>3 DEF Qty

LEMMA BuyTyped ==
  ASSUME TypeOK, NEW l \in Legs, NEW ref \in Prices, Buy(l, ref)
  PROVE  /\ own' \in [Legs -> Int]
         /\ book' = [book EXCEPT ![l].buys = @ + 1]
         /\ book' \in [Legs -> [buys : Nat, sold : Nat]]
<1>1. PICK q \in Bought(Qty(100, ref)) : own' = [own EXCEPT ![l] = @ + q]
  BY DEF Buy
<1>2. q \in Int
  BY QuantityIsNat DEF Bought
<1> QED BY <1>1, <1>2 DEF TypeOK, Buy

LEMMA SellTyped ==
  ASSUME TypeOK, NEW l \in Legs, NEW pct \in {50, 100}, NEW ref \in Prices,
         Sell(l, pct, ref)
  PROVE  /\ own' \in [Legs -> Int]
         /\ book' = [book EXCEPT ![l].sold = @ + pct]
         /\ book' \in [Legs -> [buys : Nat, sold : Nat]]
<1>1. PICK q \in Sold(Qty(pct, ref)) : own' = [own EXCEPT ![l] = @ - q]
  BY DEF Sell
<1>2. q \in Int
  BY QuantityIsNat DEF Sold
<1> QED BY <1>1, <1>2 DEF TypeOK, Sell

(* What a change of one leg's position leaves typed.                       *)
PosTyped == pos \in [Legs -> Positions] /\ \A l \in Legs : ~pos[l].in => pos[l] = Flat

LEMMA OnePosition ==
  ASSUME TypeOK, NEW l \in Legs, NEW p \in Positions, ~p.in => p = Flat,
         pos' = [pos EXCEPT ![l] = p]
  PROVE  PosTyped'
BY DEF TypeOK, PosTyped

(* A bar may make a runner of the position, or age it.                     *)
Runner(p) == [[p EXCEPT !.runner = TRUE] EXCEPT !.bars = Held(p.bars)]
Aged(p) == [p EXCEPT !.bars = IF p.in THEN Held(p.bars) ELSE 0]

(* What each outcome of a bar does to the leg's position and its orders.   *)
LEMMA BarOutcomes ==
  ASSUME TypeOK, NEW l \in Legs, NEW c \in Prices, NEW low \in BOOLEAN, CloseBar(l, c, low)
  PROVE  LET p == pos[l]
             b == book[l]
         IN  /\ own' \in [Legs -> Int] /\ halted' = halted
             /\ count'.kills = count.kills /\ count'.boots = count.boots
             /\ count' \in [entries : Nat, kills : Nat, boots : Nat]
             /\ \/ /\ p.in /\ l \in Intraday /\ ~p.runner /\ p.bars >= 2 /\ p.armed
                   /\ pos' = [pos EXCEPT ![l] = Runner(p)]
                   /\ book' = [book EXCEPT ![l].sold = @ + 50]
                \/ /\ p.in /\ l \in Intraday /\ ~p.armed
                   /\ pos' = [pos EXCEPT ![l] = Flat] /\ book' = book
                \/ /\ p.in /\ l \notin Intraday
                   /\ pos' = [pos EXCEPT ![l] = Flat]
                   /\ book' = [book EXCEPT ![l].sold = @ + 100]
                \/ /\ ~p.in /\ ~halted[l]
                   /\ pos' = [pos EXCEPT ![l] = Opened(c)]
                   /\ book' = [book EXCEPT ![l] =
                          [buys |-> IF l \in Intraday THEN 0 ELSE 1, sold |-> 0]]
                \/ /\ pos' = [pos EXCEPT ![l] = Aged(p)] /\ book' = book
<1>1. halted' = halted
  BY DEF CloseBar
<1>2. CASE FlipToRunner(l, c, low)
  <2>1. own' \in [Legs -> Int] /\ book' = [book EXCEPT ![l].sold = @ + 50]
    BY <1>2, SellTyped DEF FlipToRunner
  <2>2. pos' = [pos EXCEPT ![l] = Runner(pos[l])]
    BY <1>2 DEF FlipToRunner, Runner, TypeOK, Positions
  <2> QED BY <1>1, <1>2, <2>1, <2>2 DEF FlipToRunner, FlipDue, TypeOK
<1>3. CASE FlipUnopened(l, c, low)
  BY <1>1, <1>3 DEF FlipUnopened, FlipDue, NoOrder, Closed, TypeOK
<1>4. CASE FlipOut(l, c, low)
  <2>1. own' \in [Legs -> Int] /\ book' = [book EXCEPT ![l].sold = @ + 100]
    BY <1>4, SellTyped DEF FlipOut
  <2> QED BY <1>1, <1>4, <2>1 DEF FlipOut, FlipDue, Closed, TypeOK
<1>5. CASE Enter(l, c, low)
  <2>1. PICK q \in IF l \in Intraday THEN {0} ELSE Bought(Qty(100, c)) :
            own' = [own EXCEPT ![l] = @ + q]
    BY <1>5 DEF Enter
  <2>2. q \in Int
    BY QuantityIsNat DEF Bought
  <2>3. own' \in [Legs -> Int]
    BY <2>1, <2>2 DEF TypeOK
  <2>4. pos' = [pos EXCEPT ![l] = Opened(c)]
    BY <1>5 DEF Enter
  <2>5. book' = [book EXCEPT ![l] = [buys |-> IF l \in Intraday THEN 0 ELSE 1, sold |-> 0]]
    BY <1>5 DEF Enter
  <2> QED BY <1>1, <1>5, <2>3, <2>4, <2>5 DEF Enter, MayEnter, TypeOK
<1>6. CASE BarPasses(l, low)
  <2>1. pos' = [pos EXCEPT ![l] = Aged(pos[l])]
    BY <1>6 DEF BarPasses, Aged, TypeOK
  <2> QED BY <1>1, <1>6, <2>1 DEF BarPasses, NoOrder, TypeOK
<1> QED BY <1>2, <1>3, <1>4, <1>5, <1>6 DEF CloseBar

(* What each outcome of the check of the exits, or of a kill, does.        *)
Armed(p, price) == [Peaked(p, price) EXCEPT !.armed = TRUE]

LEMMA ExitOutcomes ==
  ASSUME TypeOK, NEW l \in Legs, CheckExits(l, px)
  PROVE  LET p == pos[l]
         IN  /\ own' \in [Legs -> Int] /\ halted' = halted /\ count' = count
             /\ \/ /\ Managed(l) /\ ~p.armed /\ px >= Confirm(p.entry)
                   /\ pos' = [pos EXCEPT ![l] = Armed(p, px)]
                   /\ book' = [book EXCEPT ![l].buys = @ + 1]
                \/ /\ Managed(l) /\ p.armed
                   /\ pos' = [pos EXCEPT ![l] = Flat]
                   /\ book' = [book EXCEPT ![l].sold = @ + IF p.runner THEN 50 ELSE 100]
                \/ /\ Managed(l) /\ (p.armed => ~Stopped(Peaked(p, px), px))
                   /\ pos' = [pos EXCEPT ![l] = Peaked(p, px)] /\ book' = book
                \/ /\ ~Managed(l) /\ pos' = pos /\ book' = book
<1>0. px \in Prices
  BY DEF TypeOK
<1>1. halted' = halted /\ count' = count
  BY DEF CheckExits
<1>2. CASE Arm(l, px)
  <2>1. own' \in [Legs -> Int] /\ book' = [book EXCEPT ![l].buys = @ + 1]
    BY <1>0, <1>2, BuyTyped DEF Arm
  <2>2. pos' = [pos EXCEPT ![l] = Armed(pos[l], px)]
    BY <1>2 DEF Arm, Armed, TypeOK
  <2> QED BY <1>1, <1>2, <2>1, <2>2 DEF Arm
<1>3. CASE StopOut(l, px)
  <2> DEFINE pct == IF pos[l].runner THEN 50 ELSE 100
  <2>1. pct \in {50, 100}
    OBVIOUS
  <2>2. Sell(l, pct, px)
    BY <1>3 DEF StopOut
  <2> HIDE DEF pct
  <2>3. own' \in [Legs -> Int] /\ book' = [book EXCEPT ![l].sold = @ + pct]
    BY <1>0, <2>1, <2>2, SellTyped
  <2> QED BY <1>1, <1>3, <2>3 DEF StopOut, Closed, pct
<1>4. CASE Rides(l, px)
  <2>1. own' \in [Legs -> Int] /\ book' = book
    BY <1>4 DEF Rides, NoOrder, TypeOK
  <2>2. CASE Managed(l)
    <3>1. pos' = [pos EXCEPT ![l] = Peaked(pos[l], px)]
      BY <1>4, <2>2 DEF Rides, TypeOK
    <3> QED BY <1>1, <1>4, <2>1, <2>2, <3>1 DEF Rides
  <2>3. CASE ~Managed(l)
    BY <1>1, <1>4, <2>1, <2>3 DEF Rides
  <2> QED BY <2>2, <2>3
<1> QED BY <1>2, <1>3, <1>4 DEF CheckExits

LEMMA KillOutcomes ==
  ASSUME TypeOK, NEW l \in Legs, KillLeg(l)
  PROVE  /\ own' \in [Legs -> Int]
         /\ halted' = [halted EXCEPT ![l] = TRUE] /\ count' = count
         /\ \/ /\ pos[l].in /\ open
               /\ pos' = [pos EXCEPT ![l] = Flat]
               /\ book' = [book EXCEPT ![l].sold = @ + 100]
            \/ ~(pos[l].in /\ open) /\ pos' = pos /\ book' = book
<1>1. halted' = [halted EXCEPT ![l] = TRUE] /\ count' = count
  BY DEF KillLeg
<1>2. CASE pos[l].in /\ open
  <2>1. Sell(l, 100, px) /\ px \in Prices
    BY <1>2 DEF KillLeg, TypeOK
  <2>2. own' \in [Legs -> Int] /\ book' = [book EXCEPT ![l].sold = @ + 100]
    BY <2>1, SellTyped
  <2> QED BY <1>1, <1>2, <2>2 DEF KillLeg, Closed
<1>3. CASE ~(pos[l].in /\ open)
  BY <1>1, <1>3 DEF KillLeg, NoOrder, TypeOK
<1> QED BY <1>2, <1>3

-----------------------------------------------------------------------------
(* Type correctness.                                                       *)

LEMMA VerdictsTyped ==
  ASSUME NEW lows \in Verdicts
  PROVE  Len(lows) \in Nat /\ \A j \in 1..Len(lows) : lows[j] \in [Legs -> BOOLEAN]
<1> DEFINE V == [Legs -> BOOLEAN]
<1>1. CASE lows = <<>>
  BY <1>1
<1>2. CASE lows # <<>>
  <2>1. (\E v \in V : lows = <<v>>) \/ (\E v \in V, w \in V : lows = <<v, w>>)
    BY <1>2 DEF Verdicts
  <2> HIDE DEF V
  <2>2. ASSUME NEW v \in V, NEW w \in V PROVE <<v>> \in Seq(V) /\ <<v, w>> \in Seq(V)
    OBVIOUS
  <2>3. lows \in Seq(V)
    BY <2>1, <2>2
  <2> QED BY <2>3 DEF V
<1> QED BY <1>1, <1>2

(* The jobs of a tick.                                                     *)
LEMMA TickJobs ==
  ASSUME TypeOK, NEW p \in Prices, NEW lows \in Verdicts, Tick(p, lows)
  PROVE  /\ todo' \in [Legs -> Jobs]
         /\ \A l \in Legs : todo'[l].last = IF l \in Intraday THEN "exits" ELSE "none"
<1> DEFINE At(l) == [j \in 1..Len(lows) |-> [low |-> lows[j][l], at |-> px]]
<1>1. \A l \in Legs : At(l) \in Seq(Bars)
  <2> TAKE l \in Legs
  <2>1. Len(lows) \in Nat /\ px \in Prices
    BY VerdictsTyped DEF TypeOK
  <2>2. \A j \in 1..Len(lows) : [low |-> lows[j][l], at |-> px] \in Bars
    BY <2>1, VerdictsTyped DEF Bars
  <2> QED BY <2>1, <2>2
<1>2. todo' = [l \in Legs |-> [bars |-> At(l), last |-> IF l \in Intraday THEN "exits" ELSE "none"]]
  BY DEF Tick
<1>3. open' = TRUE
  BY DEF Tick
<1> HIDE DEF At
<1> QED BY <1>1, <1>2, <1>3 DEF Jobs

LEMMA NextBar ==
  ASSUME TypeOK, NEW l \in Legs, WorkBar(l)
  PROVE  /\ up /\ todo[l].bars # <<>>
         /\ Head(todo[l].bars).at \in Prices /\ Head(todo[l].bars).low \in BOOLEAN
         /\ todo' = [todo EXCEPT ![l].bars = Tail(@)]
         /\ todo' \in [Legs -> Jobs]
         /\ todo'[l].last = todo[l].last
<1>1. todo[l] \in Jobs /\ todo[l].bars \in Seq(Bars) /\ todo[l].bars # <<>>
  BY DEF TypeOK, Jobs, WorkBar
<1>2. Head(todo[l].bars) \in Bars /\ Tail(todo[l].bars) \in Seq(Bars)
  BY <1>1
<1>3. Head(todo[l].bars).at \in Prices /\ Head(todo[l].bars).low \in BOOLEAN
  BY <1>2 DEF Bars
<1>4. todo' = [todo EXCEPT ![l].bars = Tail(@)]
  BY DEF WorkBar
<1> DEFINE b == Tail(todo[l].bars)
<1>5. todo' = [todo EXCEPT ![l] = [todo[l] EXCEPT !.bars = b]] /\ b \in Seq(Bars)
  BY <1>2, <1>4
<1> HIDE DEF b
<1>6. [todo[l] EXCEPT !.bars = b] \in Jobs /\ [todo[l] EXCEPT !.bars = b].last = todo[l].last
  BY <1>1, <1>5 DEF Jobs
<1>7. todo' \in [Legs -> Jobs] /\ todo'[l].last = todo[l].last
  BY <1>5, <1>6 DEF TypeOK
<1> QED BY <1>1, <1>3, <1>4, <1>7 DEF WorkBar, Turn

LEMMA IdleTyped == Idle \in Jobs /\ Idle.bars = <<>> /\ Idle.last = "none"
<1>1. <<>> \in Seq(Bars)
  OBVIOUS
<1> QED BY <1>1 DEF Idle, Jobs

LEMMA MemoryTyped ==
  ASSUME TypeOK, MemoryIsLost
  PROVE  /\ PosTyped' /\ halted' \in [Legs -> BOOLEAN] /\ open' = FALSE /\ up' = FALSE
         /\ todo' \in [Legs -> Jobs]
         /\ UNCHANGED <<px, slice, own, book, count, setting>>
BY FlatTyped, IdleTyped DEF MemoryIsLost, PosTyped, Flat

LEMMA SavedTyped == ASSUME TypeOK PROVE SavedAll \in [Legs -> Positions]
<1>1. \A p \in Positions : Saved(p) \in Positions
  BY FlatTyped DEF Saved, Positions
<1> QED BY <1>1 DEF SavedAll, TypeOK

(* The other conjuncts of TypeOK, as one name.                             *)
RestTyped ==
    /\ halted \in [Legs -> BOOLEAN] /\ px \in Prices /\ open \in BOOLEAN
    /\ count \in [entries : Nat, kills : Nat, boots : Nat]
    /\ up \in BOOLEAN /\ slice \in Slices /\ setting \in Settings
    /\ book \in [Legs -> [buys : Nat, sold : Nat]]

LEMMA Parts == TypeOK <=> /\ PosTyped /\ file \in [Legs -> Positions] /\ RestTyped
                          /\ todo \in [Legs -> Jobs] /\ own \in [Legs -> Int]
BY DEF TypeOK, PosTyped, RestTyped

(* Every price of a position is a natural number.                          *)
LEMMA Held2 == \A b \in 0..2 : Held(b) \in 0..2 /\ (b = 2 => Held(b) = 2)
BY DEF Held

LEMMA ValuesTyped ==
  ASSUME NEW p \in Positions, NEW c \in Prices
  PROVE  /\ Runner(p) \in Positions /\ Opened(c) \in Positions /\ Aged(p) \in Positions
         /\ Peaked(p, c) \in Positions /\ Armed(p, c) \in Positions
<1>1. c \in Nat
  BY RosterAssumption
<1>2. Held(p.bars) \in 0..2
  BY Held2 DEF Positions
<1>3. Runner(p) \in Positions
  BY <1>2 DEF Runner, Positions
<1>4. Opened(c) \in Positions
  BY <1>1 DEF Opened, Positions
<1>5. Aged(p) \in Positions
  BY <1>2 DEF Aged, Positions
<1>6. Peaked(p, c) \in Positions
  BY <1>1 DEF Peaked, Positions
<1>7. Armed(p, c) \in Positions
  BY <1>6 DEF Armed, Positions
<1> QED BY <1>3, <1>4, <1>5, <1>6, <1>7

LEMMA ArmedFields ==
  ASSUME NEW p \in Positions, NEW r, r = [p EXCEPT !.armed = TRUE]
  PROVE  /\ r \in Positions /\ r.armed /\ r.in = p.in /\ r.bars = p.bars
         /\ r.runner = p.runner /\ r.entry = p.entry /\ r.peak = p.peak
BY DEF Positions

LEMMA RunnerFields ==
  ASSUME NEW p \in Positions, p.bars = 2
  PROVE  /\ Runner(p).runner /\ Runner(p).bars = 2 /\ Runner(p).in = p.in
         /\ Runner(p).armed = p.armed /\ Runner(p).entry = p.entry /\ Runner(p).peak = p.peak
<1> DEFINE r == [p EXCEPT !.runner = TRUE]
<1>1. /\ r \in Positions /\ r.runner /\ r.in = p.in /\ r.armed = p.armed
      /\ r.entry = p.entry /\ r.peak = p.peak
  BY DEF Positions
<1>2. Runner(p) = [r EXCEPT !.bars = 2]
  BY DEF Runner, Held
<1> HIDE DEF r
<1> QED BY <1>1, <1>2 DEF Positions

LEMMA LegStepTyped ==
  ASSUME TypeOK, NEW l \in Legs, WorkBar(l) \/ WorkLast(l)
  PROVE  TypeOK'
<1>1. pos[l] \in Positions /\ (~pos[l].in => pos[l] = Flat)
  BY DEF TypeOK
<1>2. UNCHANGED <<px, open, up, file, slice, setting>>
  BY DEF WorkBar, WorkLast
<1>3. CASE WorkBar(l)
  <2> DEFINE c == Head(todo[l].bars).at
             low == Head(todo[l].bars).low
  <2>1. c \in Prices /\ low \in BOOLEAN /\ CloseBar(l, c, low) /\ todo' \in [Legs -> Jobs]
    BY <1>3, NextBar DEF WorkBar
  <2> HIDE DEF c, low
  <2>2. /\ own' \in [Legs -> Int] /\ halted' = halted
        /\ count' \in [entries : Nat, kills : Nat, boots : Nat]
    BY <2>1, BarOutcomes
  <2>3. \E p \in Positions : (~p.in => p = Flat) /\ pos' = [pos EXCEPT ![l] = p]
    <3>1. /\ Runner(pos[l]).in = pos[l].in /\ Aged(pos[l]).in = pos[l].in /\ Opened(c).in
          /\ (~pos[l].in => Aged(pos[l]) = Flat)
      BY <1>1 DEF Runner, Aged, Opened, Positions, Flat
    <3>2. /\ Runner(pos[l]) \in Positions /\ Opened(c) \in Positions /\ Aged(pos[l]) \in Positions
          /\ Flat \in Positions
      BY <1>1, <2>1, ValuesTyped, FlatTyped
    <3>3. \/ pos[l].in /\ pos' = [pos EXCEPT ![l] = Runner(pos[l])]
          \/ pos' = [pos EXCEPT ![l] = Flat]
          \/ pos' = [pos EXCEPT ![l] = Opened(c)]
          \/ pos' = [pos EXCEPT ![l] = Aged(pos[l])]
      BY <2>1, BarOutcomes
    <3> QED BY <3>1, <3>2, <3>3, Zenon
  <2>4. book' \in [Legs -> [buys : Nat, sold : Nat]]
    <3>1. \/ book' = [book EXCEPT ![l].sold = @ + 50] \/ book' = [book EXCEPT ![l].sold = @ + 100]
          \/ book' = [book EXCEPT ![l] = [buys |-> IF l \in Intraday THEN 0 ELSE 1, sold |-> 0]]
          \/ book' = book
      BY <2>1, BarOutcomes
    <3> QED BY <3>1 DEF TypeOK
  <2>5. PosTyped'
    BY <2>3, OnePosition
  <2> QED BY <1>2, <2>1, <2>2, <2>4, <2>5 DEF TypeOK, PosTyped
<1>4. CASE WorkLast(l)
  <2>1. todo' \in [Legs -> Jobs]
    BY <1>4, IdleTyped DEF WorkLast, TypeOK
  <2>2. CASE CheckExits(l, px)
    <3>1. own' \in [Legs -> Int] /\ halted' = halted /\ count' = count
      BY <2>2, ExitOutcomes
    <3>2. \E p \in Positions : (~p.in => p = Flat) /\ pos' = [pos EXCEPT ![l] = p]
      <4>1. px \in Prices
        BY DEF TypeOK
      <4>2. /\ Armed(pos[l], px) \in Positions /\ Peaked(pos[l], px) \in Positions
            /\ Flat \in Positions /\ pos[l] \in Positions
        BY <1>1, <4>1, ValuesTyped, FlatTyped
      <4>3. Armed(pos[l], px).in = pos[l].in /\ Peaked(pos[l], px).in = pos[l].in
        BY <1>1 DEF Armed, Peaked, Positions
      <4>4. pos = [pos EXCEPT ![l] = pos[l]]
        BY DEF TypeOK
      <4>5. \/ pos[l].in /\ pos' = [pos EXCEPT ![l] = Armed(pos[l], px)]
            \/ pos' = [pos EXCEPT ![l] = Flat]
            \/ pos[l].in /\ pos' = [pos EXCEPT ![l] = Peaked(pos[l], px)]
            \/ pos' = pos
        BY <2>2, ExitOutcomes DEF Managed
      <4>7. pos[l].in => /\ ~Armed(pos[l], px).in => Armed(pos[l], px) = Flat
                         /\ ~Peaked(pos[l], px).in => Peaked(pos[l], px) = Flat
        BY <4>3
      <4>8. ~pos[l].in => pos[l] = Flat
        BY <1>1
      <4> DEFINE Fits(p) == (~p.in => p = Flat) /\ pos' = [pos EXCEPT ![l] = p]
      <4>9. CASE pos[l].in /\ pos' = [pos EXCEPT ![l] = Armed(pos[l], px)]
        <5>1. Fits(Armed(pos[l], px))
          BY <4>7, <4>9
        <5> QED BY <4>2, <5>1
      <4>10. CASE pos' = [pos EXCEPT ![l] = Flat]
        <5>1. Fits(Flat)
          BY <4>10
        <5> QED BY <4>2, <5>1
      <4>11. CASE pos[l].in /\ pos' = [pos EXCEPT ![l] = Peaked(pos[l], px)]
        <5>1. Fits(Peaked(pos[l], px))
          BY <4>7, <4>11
        <5> QED BY <4>2, <5>1
      <4>12. CASE pos' = pos
        <5>1. Fits(pos[l])
          BY <4>4, <4>8, <4>12
        <5> QED BY <4>2, <5>1
      <4> QED BY <4>5, <4>9, <4>10, <4>11, <4>12
    <3>3. book' \in [Legs -> [buys : Nat, sold : Nat]]
      <4>1. \/ book' = [book EXCEPT ![l].sold = @ + IF pos[l].runner THEN 50 ELSE 100]
            \/ book' = [book EXCEPT ![l].buys = @ + 1]
            \/ book' = book
        BY <2>2, ExitOutcomes
      <4>2. book[l].buys \in Nat /\ book[l].sold \in Nat
        BY DEF TypeOK
      <4> QED BY <4>1, <4>2 DEF TypeOK
    <3>4. PosTyped'
      BY <3>2, OnePosition
    <3> QED BY <1>2, <2>1, <3>1, <3>3, <3>4 DEF TypeOK, PosTyped
  <2>3. CASE KillLeg(l)
    <3>1. own' \in [Legs -> Int] /\ halted' \in [Legs -> BOOLEAN] /\ count' = count
      BY <2>3, KillOutcomes DEF TypeOK
    <3>2. PosTyped'
      <4>1. pos' = [pos EXCEPT ![l] = Flat] \/ pos' = pos
        BY <2>3, KillOutcomes
      <4> QED BY <4>1, FlatTyped DEF PosTyped, TypeOK
    <3>3. book' \in [Legs -> [buys : Nat, sold : Nat]]
      <4>1. book' = [book EXCEPT ![l].sold = @ + 100] \/ book' = book
        BY <2>3, KillOutcomes
      <4> QED BY <4>1 DEF TypeOK
    <3> QED BY <1>2, <2>1, <3>1, <3>2, <3>3 DEF TypeOK, PosTyped
  <2> QED BY <1>4, <2>2, <2>3 DEF WorkLast
<1> QED BY <1>3, <1>4

LEMMA TypeStep == TypeOK /\ [Next]_vars => TypeOK'
<1> SUFFICES ASSUME TypeOK, [Next]_vars PROVE TypeOK'
  OBVIOUS
<1>1. ASSUME NEW p \in Prices, NEW lows \in Verdicts, Tick(p, lows) PROVE TypeOK'
  <2>1. todo' \in [Legs -> Jobs]
    BY <1>1, TickJobs
  <2>2. px' \in Prices /\ open' \in BOOLEAN
        /\ UNCHANGED <<pos, halted, up, file, slice, own, book, count, setting>>
    BY <1>1 DEF Tick
  <2> QED BY <2>1, <2>2 DEF TypeOK
<1>2. CASE Kill
  <2>1. todo' \in [Legs -> Jobs]
    <3>1. PICK chosen : todo' = [l \in Legs |->
               IF l \in chosen THEN [bars |-> <<>>, last |-> "kill"] ELSE Idle]
      BY <1>2 DEF Kill
    <3>2. [bars |-> <<>>, last |-> "kill"] \in Jobs
      <4>1. <<>> \in Seq(Bars)
        OBVIOUS
      <4> QED BY <4>1 DEF Jobs
    <3> QED BY <3>1, <3>2, IdleTyped
  <2>2. count' = [count EXCEPT !.kills = @ + 1]
        /\ UNCHANGED <<pos, halted, px, open, up, file, slice, own, book, setting>>
    BY <1>2 DEF Kill
  <2>3. count' \in [entries : Nat, kills : Nat, boots : Nat]
    BY <2>2 DEF TypeOK
  <2> QED BY <2>1, <2>2, <2>3 DEF TypeOK
<1>3. ASSUME NEW l \in Legs, WorkBar(l) \/ WorkLast(l) PROVE TypeOK'
  BY <1>3, LegStepTyped
<1>4. CASE Snapshot
  BY <1>4, SavedTyped DEF Snapshot, engine, TypeOK
<1>5. CASE Shutdown
  <2>1. MemoryIsLost /\ file' \in [Legs -> Positions]
    BY <1>5, SavedTyped DEF Shutdown
  <2> QED BY <2>1, MemoryTyped DEF TypeOK, PosTyped
<1>6. CASE Crash
  <2>1. MemoryIsLost /\ file' \in [Legs -> Positions]
    BY <1>6, FlatTyped DEF Crash, TypeOK
  <2> QED BY <2>1, MemoryTyped DEF TypeOK, PosTyped
<1>7. CASE Boot
  <2>1. pos' = [l \in Legs |-> IF file[l].in THEN file[l] ELSE Flat]
    BY <1>7 DEF Boot, Resumed
  <2>2. PosTyped'
    BY <2>1, FlatTyped DEF PosTyped, TypeOK, Flat
  <2>3. count' \in [entries : Nat, kills : Nat, boots : Nat]
    BY <1>7 DEF Boot, TypeOK
  <2>4. up' = TRUE /\ slice' \in Slices /\ px' \in Prices
        /\ UNCHANGED <<halted, open, todo, file, own, book, setting>>
    BY <1>7 DEF Boot
  <2> QED BY <2>2, <2>3, <2>4 DEF TypeOK, PosTyped
<1>8. CASE UNCHANGED vars
  BY <1>8 DEF vars, TypeOK
<1> QED BY <1>1, <1>2, <1>3, <1>4, <1>5, <1>6, <1>7, <1>8 DEF Next

LEMMA TypeInit == Init => TypeOK
<1> SUFFICES ASSUME Init PROVE TypeOK
  OBVIOUS
<1>1. pos \in [Legs -> Positions] /\ file \in [Legs -> Positions] /\ \A l \in Legs : pos[l] = Flat
  BY FlatTyped DEF Init
<1>2. book \in [Legs -> [buys : Nat, sold : Nat]] /\ own \in [Legs -> Int]
  BY DEF Init, NoBook
<1>3. todo \in [Legs -> Jobs]
  BY IdleTyped DEF Init
<1>4. count \in [entries : Nat, kills : Nat, boots : Nat]
  BY DEF Init
<1> QED BY <1>1, <1>2, <1>3, <1>4 DEF Init, TypeOK

(* The state is well typed, and a leg that is out carries nothing over     *)
(* from its last position (exit_position_'s reset).                        *)
THEOREM StateWellTyped == Spec => []TypeOK
<1>1. Init => TypeOK
  BY TypeInit
<1>2. TypeOK /\ [Next]_vars => TypeOK'
  BY TypeStep
<1> QED BY <1>1, <1>2, PTL DEF Spec

-----------------------------------------------------------------------------
(* The inductive invariant holds.                                          *)

LEMMA LegsInit == Init => LegsInv
<1> SUFFICES ASSUME Init PROVE LegsInv
  OBVIOUS
<1>1. ASSUME NEW l \in Legs PROVE LegInv(l)
  <2>1. /\ pos[l] = Flat /\ file[l] = Flat /\ book[l] = NoBook /\ ~halted[l]
        /\ todo[l] = Idle /\ count.boots = 0
    BY DEF Init
  <2>2. Sound(l, pos[l]) /\ Sound(l, file[l])
    BY <2>1 DEF Sound, Flat
  <2>3. JobsFit(l)
    BY <2>1 DEF JobsFit, Idle
  <2>4. SoldFits(l) /\ RoughFits(l)
    BY <2>1 DEF SoldFits, RoughFits, Left, MayBuy, Flat, NoBook
  <2>5. BoughtFits(l) /\ FloorFits(l) /\ TrailFits(l)
    BY <2>1 DEF BoughtFits, FloorFits, TrailFits, MayBuy, Here, Flat, NoBook
  <2> QED BY <2>2, <2>3, <2>4, <2>5 DEF LegInv
<1> QED BY <1>1 DEF LegsInv, Init

(* A leg that a step leaves alone keeps its part of the invariant.         *)
LEMMA Untouched ==
  ASSUME NEW l \in Legs, LegInv(l),
         pos'[l] = pos[l], book'[l] = book[l], halted'[l] = halted[l], todo'[l] = todo[l],
         file'[l] = file[l], UNCHANGED <<px, open, up, setting>>,
         count'.kills = count.kills, count'.boots = count.boots
  PROVE  LegInv(l)'
<1>1. Sound(l, pos[l])' /\ Sound(l, file[l])' /\ JobsFit(l)'
  BY DEF LegInv, Sound, JobsFit
<1>2. SoldFits(l)' /\ RoughFits(l)'
  BY DEF LegInv, SoldFits, RoughFits, Left, MayBuy
<1>3. BoughtFits(l)' /\ FloorFits(l)'
  BY DEF LegInv, BoughtFits, FloorFits, Here, MayBuy
<1>4. TrailFits(l)'
  BY DEF LegInv, TrailFits, Stopped, Keep
<1> QED BY <1>1, <1>2, <1>3, <1>4 DEF LegInv

(* The leg whose bar closes.  More work is left for an intraday one, so    *)
(* the floor and the trail need not hold yet.                              *)
LEMMA BarKeepsLeg ==
  ASSUME TypeOK, NEW l \in Legs, LegInv(l), WorkBar(l)
  PROVE  LegInv(l)'
<1> DEFINE c == Head(todo[l].bars).at
           low == Head(todo[l].bars).low
<1>1. /\ up /\ todo[l].bars # <<>> /\ c \in Prices /\ low \in BOOLEAN
      /\ todo' = [todo EXCEPT ![l].bars = Tail(@)] /\ todo'[l].last = todo[l].last
      /\ CloseBar(l, c, low) /\ UNCHANGED <<px, open, up, file, slice, setting>>
  BY NextBar DEF WorkBar
<1> HIDE DEF c, low
<1>2. halted' = halted /\ count'.kills = count.kills /\ count'.boots = count.boots
  BY <1>1, BarOutcomes
<1>3. /\ pos[l] \in Positions /\ (~pos[l].in => pos[l] = Flat) /\ c \in Nat
      /\ book[l] \in [buys : Nat, sold : Nat] /\ count.boots \in Nat /\ count.kills \in Nat
      /\ Flat \in Positions
  BY <1>1, RosterAssumption, FlatTyped DEF TypeOK
<1>4. /\ open /\ todo[l].last # "kill" /\ (l \in Intraday => todo[l].last = "exits")
      /\ (todo[l].last = "exits" => l \in Intraday)
  BY <1>1 DEF LegInv, JobsFit
<1>5. JobsFit(l)' /\ (l \in Intraday => todo'[l] # Idle) /\ ~todo'[l].last = "kill"
  BY <1>1, <1>4, IdleTyped DEF JobsFit
<1>6. Sound(l, file[l])' /\ Sound(l, pos[l])
  BY <1>1 DEF LegInv, Sound
<1>7. up' /\ Here(l) = pos[l] /\ Here(l)' = pos'[l]
  BY <1>1 DEF Here
<1>8. FloorFits(l)'
  BY <1>5 DEF FloorFits
(* It is enough to know the leg's new position and the orders it sent.     *)
<1>9. SUFFICES /\ Sound(l, pos[l])' /\ SoldFits(l)' /\ RoughFits(l)' /\ BoughtFits(l)'
               /\ TrailFits(l)'
  BY <1>5, <1>6, <1>8 DEF LegInv
<1>10. SoldFits(l) /\ RoughFits(l) /\ BoughtFits(l) /\ TrailFits(l)
  BY DEF LegInv
<1>11. ASSUME pos[l].in, l \in Intraday, ~pos[l].runner, pos[l].bars >= 2, pos[l].armed,
              pos' = [pos EXCEPT ![l] = Runner(pos[l])],
              book' = [book EXCEPT ![l].sold = @ + 50]
       PROVE  Sound(l, pos[l])' /\ SoldFits(l)' /\ RoughFits(l)' /\ BoughtFits(l)' /\ TrailFits(l)'
  <2>1. /\ pos'[l].in /\ pos'[l].armed /\ pos'[l].runner /\ pos'[l].bars = 2
        /\ pos'[l].entry = pos[l].entry /\ pos'[l].peak = pos[l].peak
    <3>1. pos'[l] = Runner(pos[l])
      BY <1>11 DEF TypeOK
    <3>2. pos[l].bars = 2
      BY <1>3, <1>11 DEF Positions
    <3> QED BY <1>3, <1>11, <3>1, <3>2, RunnerFields
  <2>2. book'[l].sold = book[l].sold + 50 /\ book'[l].buys = book[l].buys
    BY <1>11 DEF TypeOK
  <2>3. Sound(l, pos[l])'
    BY <1>6, <1>11, <2>1 DEF Sound
  <2>4. SoldFits(l)'
    BY <1>2, <1>3, <1>10, <1>11, <2>1, <2>2 DEF SoldFits, Left
  <2>5. RoughFits(l)'
    BY <1>2, <1>3, <1>10, <1>11, <2>1, <2>2 DEF RoughFits, MayBuy
  <2>6. BoughtFits(l)'
    BY <1>1, <1>2, <1>3, <1>7, <1>10, <1>11, <2>1, <2>2 DEF BoughtFits, MayBuy
  <2>7. TrailFits(l)'
    BY <1>1, <1>2, <1>3, <1>5, <1>10, <1>11, <2>1, <2>2 DEF TrailFits
  <2> QED BY <2>3, <2>4, <2>5, <2>6, <2>7
<1>12. ASSUME pos[l].in, l \in Intraday, ~pos[l].armed, pos' = [pos EXCEPT ![l] = Flat], book' = book
       PROVE  Sound(l, pos[l])' /\ SoldFits(l)' /\ RoughFits(l)' /\ BoughtFits(l)' /\ TrailFits(l)'
  <2>1. pos'[l] = Flat /\ book'[l] = book[l]
    BY <1>12 DEF TypeOK
  <2>2. Sound(l, pos[l])' /\ TrailFits(l)'
    BY <2>1 DEF Sound, TrailFits, Flat
  <2>3. SoldFits(l)' /\ RoughFits(l)'
    BY <1>2, <1>3, <1>10, <1>12, <2>1 DEF SoldFits, RoughFits, Left, MayBuy, Flat
  <2>4. BoughtFits(l)'
    BY <1>1, <1>2, <1>3, <1>7, <1>10, <1>12, <2>1 DEF BoughtFits, MayBuy, Flat
  <2> QED BY <2>2, <2>3, <2>4
<1>13. ASSUME pos[l].in, l \notin Intraday, pos' = [pos EXCEPT ![l] = Flat],
              book' = [book EXCEPT ![l].sold = @ + 100]
       PROVE  Sound(l, pos[l])' /\ SoldFits(l)' /\ RoughFits(l)' /\ BoughtFits(l)' /\ TrailFits(l)'
  <2>1. pos'[l] = Flat /\ book'[l].sold = book[l].sold + 100 /\ book'[l].buys = book[l].buys
    BY <1>13 DEF TypeOK
  <2>2. Sound(l, pos[l])' /\ TrailFits(l)'
    BY <2>1 DEF Sound, TrailFits, Flat
  <2>3. ~pos[l].runner
    BY <1>6, <1>13 DEF Sound
  <2>4. SoldFits(l)' /\ RoughFits(l)'
    BY <1>2, <1>3, <1>10, <1>13, <2>1, <2>3 DEF SoldFits, RoughFits, Left, MayBuy, Flat
  <2>5. BoughtFits(l)'
    BY <1>1, <1>2, <1>3, <1>7, <1>10, <1>13, <2>1 DEF BoughtFits, MayBuy, Flat
  <2> QED BY <2>2, <2>4, <2>5
<1>14. ASSUME ~pos[l].in, ~halted[l], pos' = [pos EXCEPT ![l] = Opened(c)],
              book' = [book EXCEPT ![l] = [buys |-> IF l \in Intraday THEN 0 ELSE 1, sold |-> 0]]
       PROVE  Sound(l, pos[l])' /\ SoldFits(l)' /\ RoughFits(l)' /\ BoughtFits(l)' /\ TrailFits(l)'
  <2>1. /\ pos'[l] = Opened(c) /\ book'[l].sold = 0
        /\ book'[l].buys = IF l \in Intraday THEN 0 ELSE 1
    BY <1>14 DEF TypeOK
  <2>2. Sound(l, pos[l])'
    BY <1>3, <2>1 DEF Sound, Opened
  <2>3. SoldFits(l)' /\ RoughFits(l)'
    BY <1>2, <1>3, <2>1 DEF SoldFits, RoughFits, Left, MayBuy, Opened
  <2>4. BoughtFits(l)'
    BY <1>1, <1>2, <1>3, <1>7, <2>1 DEF BoughtFits, MayBuy, Opened
  <2>5. TrailFits(l)'
    BY <1>1, <1>2, <1>4, <1>14, <2>1 DEF TrailFits, Opened
  <2> QED BY <2>2, <2>3, <2>4, <2>5
<1>15. ASSUME pos' = [pos EXCEPT ![l] = Aged(pos[l])], book' = book
       PROVE  Sound(l, pos[l])' /\ SoldFits(l)' /\ RoughFits(l)' /\ BoughtFits(l)' /\ TrailFits(l)'
  <2>1. pos'[l] = Aged(pos[l]) /\ book'[l] = book[l]
    BY <1>15 DEF TypeOK
  <2>2. /\ pos'[l].in = pos[l].in /\ pos'[l].armed = pos[l].armed
        /\ pos'[l].runner = pos[l].runner /\ pos'[l].entry = pos[l].entry
        /\ pos'[l].peak = pos[l].peak /\ pos'[l].bars = IF pos[l].in THEN Held(pos[l].bars) ELSE 0
    BY <1>3, <2>1 DEF Aged, Positions
  <2>3. pos[l].armed => pos[l].in
    BY <1>3 DEF Flat
  <2>4. Sound(l, pos[l])'
    BY <1>6, <2>2, <2>3, Held2 DEF Sound
  <2>5. SoldFits(l)' /\ RoughFits(l)'
    BY <1>2, <1>10, <2>1, <2>2 DEF SoldFits, RoughFits, Left, MayBuy
  <2>6. BoughtFits(l)'
    BY <1>1, <1>2, <1>7, <1>10, <2>1, <2>2 DEF BoughtFits, MayBuy
  <2>7. TrailFits(l)'
    <3>1. pos[l].runner => l \in Intraday
      BY <1>6 DEF Sound
    <3> QED BY <1>1, <1>2, <1>5, <1>10, <2>1, <2>2, <3>1 DEF TrailFits
  <2> QED BY <2>4, <2>5, <2>6, <2>7
<1> QED
  <2>1. \/ /\ pos[l].in /\ l \in Intraday /\ ~pos[l].runner /\ pos[l].bars >= 2 /\ pos[l].armed
           /\ pos' = [pos EXCEPT ![l] = Runner(pos[l])]
           /\ book' = [book EXCEPT ![l].sold = @ + 50]
        \/ /\ pos[l].in /\ l \in Intraday /\ ~pos[l].armed
           /\ pos' = [pos EXCEPT ![l] = Flat] /\ book' = book
        \/ /\ pos[l].in /\ l \notin Intraday
           /\ pos' = [pos EXCEPT ![l] = Flat] /\ book' = [book EXCEPT ![l].sold = @ + 100]
        \/ /\ ~pos[l].in /\ ~halted[l] /\ pos' = [pos EXCEPT ![l] = Opened(c)]
           /\ book' = [book EXCEPT ![l] =
                  [buys |-> IF l \in Intraday THEN 0 ELSE 1, sold |-> 0]]
        \/ pos' = [pos EXCEPT ![l] = Aged(pos[l])] /\ book' = book
    BY <1>1, BarOutcomes
  <2> QED BY <1>11, <1>12, <1>13, <1>14, <1>15, <2>1

(* The leg whose exits are checked: it is idle after, so the floor and the *)
(* trail hold, at the price just seen.                                     *)
LEMMA ExitsKeepLeg ==
  ASSUME TypeOK, NEW l \in Legs, LegInv(l), up, CheckExits(l, px), todo'[l] = Idle,
         l \in Intraday,
         UNCHANGED <<px, open, up, file, slice, setting>>
  PROVE  LegInv(l)'
<1>1. halted' = halted /\ count' = count
  BY ExitOutcomes
<1>2. /\ pos[l] \in Positions /\ (~pos[l].in => pos[l] = Flat) /\ px \in Nat \ {0}
      /\ book[l] \in [buys : Nat, sold : Nat] /\ count.boots \in Nat /\ count.kills \in Nat
  BY RosterAssumption DEF TypeOK
<1>3. JobsFit(l)' /\ Sound(l, file[l])' /\ Sound(l, pos[l])
  BY IdleTyped DEF JobsFit, LegInv, Sound
<1>4. up' /\ Here(l) = pos[l] /\ Here(l)' = pos'[l]
  BY DEF Here
<1>5. SoldFits(l) /\ RoughFits(l) /\ BoughtFits(l) /\ TrailFits(l)
  BY DEF LegInv
<1>6. SUFFICES /\ Sound(l, pos[l])' /\ SoldFits(l)' /\ RoughFits(l)' /\ BoughtFits(l)'
               /\ FloorFits(l)' /\ TrailFits(l)'
  BY <1>3 DEF LegInv
(* The peak follows the price.                                             *)
<1> DEFINE q == Peaked(pos[l], px)
<1>7. /\ q.in = pos[l].in /\ q.armed = pos[l].armed /\ q.bars = pos[l].bars
      /\ q.runner = pos[l].runner /\ q.entry = pos[l].entry /\ q \in Positions
      /\ q.peak \in Nat /\ q.entry \in Nat /\ q.entry <= q.peak
  BY <1>2, <1>3 DEF Peaked, Positions, Sound
<1> HIDE DEF q
<1>8. ASSUME Managed(l), ~pos[l].armed, px >= Confirm(pos[l].entry),
             pos' = [pos EXCEPT ![l] = Armed(pos[l], px)],
             book' = [book EXCEPT ![l].buys = @ + 1]
      PROVE  /\ Sound(l, pos[l])' /\ SoldFits(l)' /\ RoughFits(l)' /\ BoughtFits(l)'
             /\ FloorFits(l)' /\ TrailFits(l)'
  <2>1. pos'[l] = Armed(pos[l], px)
    BY <1>8 DEF TypeOK
  <2>2. /\ pos'[l].in /\ pos'[l].armed /\ pos'[l].bars = 2 /\ pos'[l].runner = pos[l].runner
        /\ pos'[l].entry = pos[l].entry /\ pos'[l].entry <= pos'[l].peak
    <3>1. pos[l].bars = 2 /\ pos[l].in
      BY <1>2, <1>8 DEF Managed, Positions
    <3>2. Armed(pos[l], px) = [q EXCEPT !.armed = TRUE]
      BY DEF Armed, q
    <3>3. /\ Armed(pos[l], px).armed /\ Armed(pos[l], px).in = q.in
          /\ Armed(pos[l], px).bars = q.bars /\ Armed(pos[l], px).runner = q.runner
          /\ Armed(pos[l], px).entry = q.entry /\ Armed(pos[l], px).peak = q.peak
      BY <1>7, <3>2, ArmedFields
    <3> QED BY <1>7, <2>1, <3>1, <3>3
  <2>3. book'[l].buys = book[l].buys + 1 /\ book'[l].sold = book[l].sold
    BY <1>8 DEF TypeOK
  <2>4. ~pos[l].runner /\ pos[l].in /\ px > pos[l].entry
    BY <1>2, <1>3, <1>8 DEF Sound, Managed, Confirm, Positions
  <2>5. Sound(l, pos[l])' /\ FloorFits(l)'
    BY <2>2, <2>4 DEF Sound, FloorFits
  <2>6. SoldFits(l)' /\ RoughFits(l)'
    BY <1>1, <1>2, <1>5, <1>8, <2>2, <2>3, <2>4 DEF SoldFits, RoughFits, Left, MayBuy
  <2>7. BoughtFits(l)'
    BY <1>1, <1>2, <1>4, <1>5, <1>8, <2>2, <2>3, <2>4 DEF BoughtFits, MayBuy
  <2>8. TrailFits(l)'
    BY <1>1, <1>5, <2>2, <2>3, <2>4 DEF TrailFits
  <2> QED BY <2>5, <2>6, <2>7, <2>8
<1>9. ASSUME Managed(l), pos[l].armed, pos' = [pos EXCEPT ![l] = Flat],
             book' = [book EXCEPT ![l].sold = @ + IF pos[l].runner THEN 50 ELSE 100]
      PROVE  /\ Sound(l, pos[l])' /\ SoldFits(l)' /\ RoughFits(l)' /\ BoughtFits(l)'
             /\ FloorFits(l)' /\ TrailFits(l)'
  <2>1. /\ pos'[l] = Flat /\ book'[l].buys = book[l].buys
        /\ book'[l].sold = book[l].sold + IF pos[l].runner THEN 50 ELSE 100
    BY <1>9 DEF TypeOK
  <2>2. Sound(l, pos[l])' /\ FloorFits(l)' /\ TrailFits(l)'
    BY <2>1 DEF Sound, FloorFits, TrailFits, Flat
  <2>3. SoldFits(l)' /\ RoughFits(l)'
    BY <1>1, <1>2, <1>5, <1>9, <2>1 DEF SoldFits, RoughFits, Left, MayBuy, Flat, Managed
  <2>4. BoughtFits(l)'
    BY <1>1, <1>2, <1>4, <1>5, <1>9, <2>1 DEF BoughtFits, MayBuy, Flat, Managed
  <2> QED BY <2>2, <2>3, <2>4
<1>10. ASSUME Managed(l), pos[l].armed => ~Stopped(Peaked(pos[l], px), px),
              pos' = [pos EXCEPT ![l] = Peaked(pos[l], px)], book' = book
       PROVE  /\ Sound(l, pos[l])' /\ SoldFits(l)' /\ RoughFits(l)' /\ BoughtFits(l)'
              /\ FloorFits(l)' /\ TrailFits(l)'
  <2>1. pos'[l] = q /\ book'[l] = book[l] /\ (q.armed => ~Stopped(q, px))
    BY <1>7, <1>10 DEF TypeOK, q
  <2>2. Sound(l, pos[l])'
    BY <1>3, <1>7, <2>1 DEF Sound
  <2>3. SoldFits(l)' /\ RoughFits(l)'
    BY <1>1, <1>5, <1>7, <2>1 DEF SoldFits, RoughFits, Left, MayBuy
  <2>4. BoughtFits(l)'
    BY <1>1, <1>4, <1>5, <1>7, <2>1 DEF BoughtFits, MayBuy
  <2>5. FloorFits(l)'
    <3>1. ASSUME q.armed PROVE px > q.entry
      <4>1. 100 * px > 100 * q.entry + Keep(q) * (q.peak - q.entry)
        BY <1>2, <1>7, <2>1, <3>1 DEF Stopped, Keep
      <4>2. Keep(q) = 85 \/ Keep(q) = 10
        BY DEF Keep
      <4>3. q.peak - q.entry >= 0 /\ q.peak - q.entry \in Int
        BY <1>7
      <4>4. Keep(q) * (q.peak - q.entry) >= 0 /\ Keep(q) * (q.peak - q.entry) \in Int
        BY <4>2, <4>3
      <4>5. \A a, b, k \in Int : 100 * a > 100 * b + k /\ k >= 0 => a > b
        OBVIOUS
      <4> QED BY <1>2, <1>7, <4>1, <4>4, <4>5
    <3> QED BY <2>1, <3>1 DEF FloorFits
  <2>6. TrailFits(l)'
    BY <1>1, <1>3, <1>5, <1>7, <2>1 DEF TrailFits, Stopped, Keep, Sound
  <2> QED BY <2>2, <2>3, <2>4, <2>5, <2>6
<1>11. ASSUME ~Managed(l), pos' = pos, book' = book
       PROVE  /\ Sound(l, pos[l])' /\ SoldFits(l)' /\ RoughFits(l)' /\ BoughtFits(l)'
              /\ FloorFits(l)' /\ TrailFits(l)'
  <2>1. ~(pos[l].in /\ pos[l].armed) /\ ~(pos[l].in /\ pos[l].runner)
    BY <1>3, <1>11 DEF Sound, Managed
  <2>2. Sound(l, pos[l])' /\ SoldFits(l)' /\ RoughFits(l)'
    BY <1>1, <1>3, <1>5, <1>11 DEF Sound, SoldFits, RoughFits, Left, MayBuy
  <2>3. BoughtFits(l)' /\ FloorFits(l)' /\ TrailFits(l)'
    BY <1>1, <1>4, <1>5, <1>11, <2>1 DEF BoughtFits, FloorFits, TrailFits, MayBuy
  <2> QED BY <2>2, <2>3
<1> QED
  <2>1. \/ /\ Managed(l) /\ ~pos[l].armed /\ px >= Confirm(pos[l].entry)
           /\ pos' = [pos EXCEPT ![l] = Armed(pos[l], px)]
           /\ book' = [book EXCEPT ![l].buys = @ + 1]
        \/ /\ Managed(l) /\ pos[l].armed /\ pos' = [pos EXCEPT ![l] = Flat]
           /\ book' = [book EXCEPT ![l].sold = @ + IF pos[l].runner THEN 50 ELSE 100]
        \/ /\ Managed(l) /\ (pos[l].armed => ~Stopped(Peaked(pos[l], px), px))
           /\ pos' = [pos EXCEPT ![l] = Peaked(pos[l], px)] /\ book' = book
        \/ ~Managed(l) /\ pos' = pos /\ book' = book
    BY ExitOutcomes
  <2> QED BY <1>8, <1>9, <1>10, <1>11, <2>1

(* The leg that is killed.                                                 *)
LEMMA KillKeepsLeg ==
  ASSUME TypeOK, NEW l \in Legs, LegInv(l), up, KillLeg(l), todo'[l] = Idle, count.kills > 0,
         ~up => ~open,
         UNCHANGED <<px, open, up, file, slice, setting>>
  PROVE  LegInv(l)'
<1>1. count' = count /\ halted' = [halted EXCEPT ![l] = TRUE]
  BY KillOutcomes
<1>2. JobsFit(l)' /\ Sound(l, file[l])' /\ SoldFits(l)'
  BY <1>1, IdleTyped DEF JobsFit, LegInv, Sound, SoldFits, TypeOK
<1>3. SoldFits(l) /\ RoughFits(l) /\ BoughtFits(l) /\ TrailFits(l) /\ Sound(l, pos[l])
  BY DEF LegInv
<1>4. up' /\ Here(l) = pos[l] /\ Here(l)' = pos'[l] /\ count.boots \in Nat /\ count.kills \in Nat
      /\ book[l] \in [buys : Nat, sold : Nat] /\ halted'[l]
  BY <1>1 DEF Here, TypeOK
<1>5. ASSUME pos[l].in, open, pos' = [pos EXCEPT ![l] = Flat],
             book' = [book EXCEPT ![l].sold = @ + 100]
      PROVE  LegInv(l)'
  <2>1. pos'[l] = Flat /\ book'[l].buys = book[l].buys
    BY <1>5 DEF TypeOK
  <2>2. Sound(l, pos[l])' /\ FloorFits(l)' /\ TrailFits(l)'
    BY <2>1 DEF Sound, FloorFits, TrailFits, Flat
  <2>3. RoughFits(l)'
    BY <1>1, <1>3, <1>4, <1>5, <2>1 DEF RoughFits, MayBuy, Flat
  <2>4. BoughtFits(l)'
    BY <1>1, <1>3, <1>4, <1>5, <2>1 DEF BoughtFits, MayBuy, Flat
  <2> QED BY <1>2, <2>2, <2>3, <2>4 DEF LegInv
<1>6. ASSUME ~(pos[l].in /\ open), pos' = pos, book' = book
      PROVE  LegInv(l)'
  <2>1. Sound(l, pos[l])' /\ RoughFits(l)'
    BY <1>1, <1>3, <1>6 DEF Sound, RoughFits, MayBuy
  <2>2. BoughtFits(l)'
    BY <1>1, <1>3, <1>4, <1>6 DEF BoughtFits, MayBuy
  <2>3. FloorFits(l)' /\ TrailFits(l)'
    BY <1>1, <1>3, <1>6 DEF FloorFits, TrailFits
  <2> QED BY <1>2, <2>1, <2>2, <2>3 DEF LegInv
<1> QED BY <1>5, <1>6, KillOutcomes

(* The other legs: a leg's work touches nobody else's engine.              *)
LEMMA OthersKeep ==
  ASSUME TypeOK, NEW l \in Legs, NEW k \in Legs \ {l}, LegInv(k), WorkBar(l) \/ WorkLast(l)
  PROVE  LegInv(k)'
<1>1. UNCHANGED <<px, open, up, file, setting>>
  BY DEF WorkBar, WorkLast
<1>2. todo'[k] = todo[k]
  BY DEF WorkBar, WorkLast, TypeOK
<1>3. /\ pos'[k] = pos[k] /\ book'[k] = book[k] /\ halted'[k] = halted[k]
      /\ count'.kills = count.kills /\ count'.boots = count.boots
  <2>1. CASE WorkBar(l)
    <3>1. PICK c \in Prices, low \in BOOLEAN : CloseBar(l, c, low)
      <4> DEFINE b == Head(todo[l].bars)
      <4>1. b.at \in Prices /\ b.low \in BOOLEAN /\ CloseBar(l, b.at, b.low)
        BY <2>1, NextBar DEF WorkBar
      <4> HIDE DEF b
      <4> QED BY <4>1
    <3>2. /\ halted' = halted
          /\ count'.kills = count.kills /\ count'.boots = count.boots
      BY <3>1, BarOutcomes
    <3>3. \/ pos' = [pos EXCEPT ![l] = Runner(pos[l])]
          \/ pos' = [pos EXCEPT ![l] = Flat]
          \/ pos' = [pos EXCEPT ![l] = Opened(c)]
          \/ pos' = [pos EXCEPT ![l] = Aged(pos[l])]
      BY <3>1, BarOutcomes
    <3>4. \/ book' = [book EXCEPT ![l].sold = @ + 50] \/ book' = [book EXCEPT ![l].sold = @ + 100]
          \/ book' = [book EXCEPT ![l] = [buys |-> IF l \in Intraday THEN 0 ELSE 1, sold |-> 0]]
          \/ book' = book
      BY <3>1, BarOutcomes
    <3>5. pos'[k] = pos[k]
      BY <3>3 DEF TypeOK
    <3>6. book'[k] = book[k]
      BY <3>4 DEF TypeOK
    <3> QED BY <3>2, <3>5, <3>6
  <2>2. CASE WorkLast(l) /\ CheckExits(l, px)
    <3>1. halted' = halted /\ count' = count
      BY <2>2, ExitOutcomes
    <3>2. \/ pos' = [pos EXCEPT ![l] = Armed(pos[l], px)]
          \/ pos' = [pos EXCEPT ![l] = Flat]
          \/ pos' = [pos EXCEPT ![l] = Peaked(pos[l], px)]
          \/ pos' = pos
      BY <2>2, ExitOutcomes
    <3>3. \/ book' = [book EXCEPT ![l].sold = @ + IF pos[l].runner THEN 50 ELSE 100]
          \/ book' = [book EXCEPT ![l].buys = @ + 1]
          \/ book' = book
      BY <2>2, ExitOutcomes
    <3>4. pos'[k] = pos[k]
      BY <3>2 DEF TypeOK
    <3>5. book'[k] = book[k]
      BY <3>3 DEF TypeOK
    <3> QED BY <3>1, <3>4, <3>5
  <2>3. CASE WorkLast(l) /\ KillLeg(l)
    <3>1. halted'[k] = halted[k] /\ count' = count
      BY <2>3, KillOutcomes DEF TypeOK
    <3>2. pos'[k] = pos[k] /\ book'[k] = book[k]
      <4>1. (pos' = [pos EXCEPT ![l] = Flat] \/ pos' = pos)
            /\ (book' = [book EXCEPT ![l].sold = @ + 100] \/ book' = book)
        BY <2>3, KillOutcomes
      <4> QED BY <4>1 DEF TypeOK
    <3> QED BY <3>1, <3>2
  <2> QED BY <2>1, <2>2, <2>3 DEF WorkLast
<1> QED BY <1>1, <1>2, <1>3, Untouched

LEMMA WorkKeeps ==
  ASSUME TypeOK, LegsInv, NEW l \in Legs, WorkBar(l) \/ WorkLast(l)
  PROVE  LegsInv'
<1>1. /\ up /\ UNCHANGED <<px, open, up, file, slice, setting>> /\ LegInv(l)
      /\ (~up => ~open)
  BY DEF WorkBar, WorkLast, Turn, LegsInv
<1>2. LegInv(l)'
  <2>1. CASE WorkBar(l)
    BY <1>1, <2>1, BarKeepsLeg
  <2>2. CASE WorkLast(l) /\ todo[l].last = "exits" /\ CheckExits(l, px)
    <3>1. todo'[l] = Idle /\ l \in Intraday
      BY <1>1, <2>2 DEF WorkLast, LegInv, JobsFit, TypeOK
    <3> QED BY <1>1, <2>2, <3>1, ExitsKeepLeg
  <2>3. CASE WorkLast(l) /\ todo[l].last = "kill" /\ KillLeg(l)
    <3>1. todo'[l] = Idle /\ count.kills > 0
      BY <1>1, <2>3 DEF WorkLast, LegInv, JobsFit, TypeOK
    <3> QED BY <1>1, <2>3, <3>1, KillKeepsLeg
  <2> QED BY <2>1, <2>2, <2>3 DEF WorkLast
<1>3. ASSUME NEW k \in Legs \ {l} PROVE LegInv(k)'
  <2>1. LegInv(k)
    BY DEF LegsInv
  <2> QED BY <2>1, OthersKeep
<1> QED BY <1>1, <1>2, <1>3 DEF LegsInv

LEMMA TickKeeps ==
  ASSUME TypeOK, LegsInv, NEW p \in Prices, NEW lows \in Verdicts, Tick(p, lows)
  PROVE  LegsInv'
<1>1. up' /\ open' /\ UNCHANGED <<pos, halted, up, file, slice, own, book, count, setting>>
  BY DEF Tick, LegsInv
<1>2. ASSUME NEW l \in Legs PROVE LegInv(l)'
  <2>1. todo'[l].last = IF l \in Intraday THEN "exits" ELSE "none"
    BY TickJobs
  <2>2. l \in Intraday => todo'[l] # Idle
    BY <2>1, IdleTyped
  <2>3. LegInv(l)
    BY DEF LegsInv
  <2>4. JobsFit(l)' /\ Sound(l, pos[l])' /\ Sound(l, file[l])'
    BY <1>1, <2>1, <2>3 DEF JobsFit, LegInv, Sound
  <2>5. SoldFits(l)' /\ RoughFits(l)' /\ BoughtFits(l)'
    BY <1>1, <2>3 DEF LegInv, SoldFits, RoughFits, BoughtFits, Here, MayBuy, Left
  <2>6. FloorFits(l)'
    BY <2>2 DEF FloorFits
  <2>7. TrailFits(l)'
    <3>1. pos[l].runner => l \in Intraday
      BY <2>3 DEF LegInv, Sound
    <3> QED BY <1>1, <2>2, <2>3, <3>1 DEF LegInv, TrailFits
  <2> QED BY <2>4, <2>5, <2>6, <2>7 DEF LegInv
<1> QED BY <1>1, <1>2 DEF LegsInv

LEMMA KillKeeps ==
  ASSUME TypeOK, LegsInv, Kill
  PROVE  LegsInv'
<1>1. UNCHANGED <<pos, halted, px, open, up, file, slice, own, book, setting>>
  BY DEF Kill
<1>2. /\ count'.kills = count.kills + 1 /\ count'.boots = count.boots /\ count.kills \in Nat
  BY DEF Kill, TypeOK
<1>3. ASSUME NEW l \in Legs PROVE LegInv(l)'
  <2>1. LegInv(l) /\ todo[l] = Idle
    BY DEF LegsInv, Kill, Free
  <2>2. todo'[l] = Idle \/ todo'[l] = [bars |-> <<>>, last |-> "kill"]
    BY DEF Kill
  <2>3. JobsFit(l)'
    BY <1>2, <2>2, IdleTyped DEF JobsFit
  <2>4. Sound(l, pos[l])' /\ Sound(l, file[l])' /\ SoldFits(l)' /\ RoughFits(l)'
    BY <1>1, <1>2, <2>1 DEF LegInv, Sound, SoldFits, RoughFits, MayBuy
  <2>5. BoughtFits(l)'
    BY <1>1, <1>2, <2>1 DEF LegInv, BoughtFits, Here, MayBuy
  <2>6. FloorFits(l)' /\ TrailFits(l)'
    BY <1>1, <1>2, <2>1 DEF LegInv, FloorFits, TrailFits, Stopped, Keep
  <2> QED BY <2>3, <2>4, <2>5, <2>6 DEF LegInv
<1> QED BY <1>1, <1>3 DEF LegsInv

(* What the snapshot stores of a position.                                 *)
LEMMA SavedFields ==
  ASSUME NEW p \in Positions, ~p.in => p = Flat, NEW l, Sound(l, p)
  PROVE  /\ Saved(p) \in Positions /\ Saved(p).in = p.in /\ Saved(p).armed = p.armed
         /\ Sound(l, Saved(p))
<1>1. CASE p.in
  BY <1>1 DEF Saved, Positions, Sound
<1>2. CASE ~p.in
  BY <1>2, FlatTyped DEF Saved, Flat, Sound
<1> QED BY <1>1, <1>2

(* Memory is lost: nothing of it is promised but what the file holds.      *)
LEMMA LossKeeps ==
  ASSUME TypeOK, LegsInv, up, MemoryIsLost, NEW f \in [Legs -> Positions], file' = f,
         \A l \in Legs : Sound(l, f[l]),
         setting.restart # "rough" => f = SavedAll
  PROVE  LegsInv'
<1>1. /\ up' = FALSE /\ open' = FALSE
      /\ UNCHANGED <<px, slice, own, book, count, setting>>
  BY DEF MemoryIsLost
<1>2. ASSUME NEW l \in Legs PROVE LegInv(l)'
  <2>1. /\ pos'[l] = Flat /\ todo'[l] = Idle /\ LegInv(l)
        /\ pos[l] \in Positions /\ (~pos[l].in => pos[l] = Flat)
        /\ book[l] \in [buys : Nat, sold : Nat] /\ count.boots \in Nat /\ count.kills \in Nat
    BY DEF MemoryIsLost, LegsInv, TypeOK
  <2>2. JobsFit(l)' /\ Sound(l, pos[l])' /\ Sound(l, file[l])'
    BY <1>1, <2>1, IdleTyped DEF JobsFit, Sound, Flat
  <2>3. FloorFits(l)' /\ TrailFits(l)'
    BY <1>1, <2>1 DEF FloorFits, TrailFits, Flat
  <2>4. SoldFits(l)' /\ RoughFits(l)'
    BY <1>1, <2>1 DEF LegInv, SoldFits, RoughFits, Left, MayBuy, Flat
  <2>5. BoughtFits(l)'
    <3>1. SUFFICES ASSUME setting.restart # "rough" PROVE BoughtFits(l)'
      BY <1>1 DEF BoughtFits
    <3>2. f[l] = Saved(pos[l])
      BY <3>1 DEF SavedAll
    <3>3. f[l].in = pos[l].in /\ f[l].armed = pos[l].armed
      BY <2>1, <3>2, SavedFields DEF LegInv
    <3>4. Here(l) = pos[l] /\ Here(l)' = f[l]
      BY <1>1 DEF Here
    <3>5. BoughtFits(l)
      BY <2>1 DEF LegInv
    <3> QED BY <1>1, <3>3, <3>4, <3>5 DEF BoughtFits, MayBuy
  <2> QED BY <2>2, <2>3, <2>4, <2>5 DEF LegInv
<1> QED BY <1>1, <1>2 DEF LegsInv

LEMMA SavedSound ==
  ASSUME TypeOK, LegsInv
  PROVE  SavedAll \in [Legs -> Positions] /\ \A l \in Legs : Sound(l, SavedAll[l])
<1>1. ASSUME NEW l \in Legs PROVE Saved(pos[l]) \in Positions /\ Sound(l, Saved(pos[l]))
  BY SavedFields DEF TypeOK, LegsInv, LegInv
<1> QED BY <1>1 DEF SavedAll

LEMMA BootKeeps ==
  ASSUME TypeOK, LegsInv, Boot
  PROVE  LegsInv'
<1>1. /\ ~up /\ up' = TRUE /\ ~open
      /\ UNCHANGED <<halted, open, todo, file, own, book, setting>>
  BY DEF Boot, LegsInv
<1>2. count'.boots = count.boots + 1 /\ count'.kills = count.kills
      /\ count.boots \in Nat /\ count.kills \in Nat
  BY DEF Boot, TypeOK
<1>3. ASSUME NEW l \in Legs PROVE LegInv(l)'
  <2>1. pos'[l] = IF file[l].in THEN file[l] ELSE Flat
    BY DEF Boot, Resumed
  <2>2. /\ LegInv(l) /\ file[l] \in Positions /\ book[l] \in [buys : Nat, sold : Nat]
    BY DEF LegsInv, TypeOK
  <2>3. JobsFit(l)' /\ Sound(l, file[l])' /\ Sound(l, pos[l])'
    BY <1>1, <1>2, <2>1, <2>2 DEF LegInv, JobsFit, Sound, Flat
  <2>4. FloorFits(l)' /\ TrailFits(l)'
    BY <1>1, <1>2 DEF FloorFits, TrailFits
  <2>5. book[l].sold <= 100 * (1 + count.boots) \/ count.kills # 0
    BY <1>2, <2>2 DEF LegInv, SoldFits, Left
  <2>6. Left(pos[l])' \in {0, 50, 100}
    BY DEF Left
  <2>7. SoldFits(l)'
    BY <1>1, <1>2, <2>2, <2>5, <2>6 DEF SoldFits
  <2>8. RoughFits(l)'
    BY <1>1, <1>2, <2>2 DEF LegInv, RoughFits, MayBuy
  <2>9. BoughtFits(l)'
    <3>1. Here(l) = file[l] /\ Here(l)' = pos'[l]
      BY <1>1 DEF Here
    <3> QED BY <1>1, <1>2, <2>1, <2>2, <3>1 DEF LegInv, BoughtFits, MayBuy, Flat
  <2> QED BY <2>3, <2>4, <2>7, <2>8, <2>9 DEF LegInv
<1> QED BY <1>1, <1>3 DEF LegsInv

LEMMA LegsStep == TypeOK /\ LegsInv /\ [Next]_vars => LegsInv'
<1> SUFFICES ASSUME TypeOK, LegsInv, [Next]_vars PROVE LegsInv'
  OBVIOUS
<1>1. ASSUME NEW p \in Prices, NEW lows \in Verdicts, Tick(p, lows) PROVE LegsInv'
  BY <1>1, TickKeeps
<1>2. CASE Kill
  BY <1>2, KillKeeps
<1>3. ASSUME NEW l \in Legs, WorkBar(l) \/ WorkLast(l) PROVE LegsInv'
  BY <1>3, WorkKeeps
<1>4. CASE Snapshot
  <2>1. /\ up /\ setting.restart = "rough" /\ file' = SavedAll
        /\ UNCHANGED <<pos, halted, px, open, todo, up, slice, own, book, count, setting>>
    BY <1>4 DEF Snapshot, engine
  <2>2. ASSUME NEW l \in Legs PROVE LegInv(l)'
    <3>1. LegInv(l) /\ Sound(l, file[l])'
      BY <2>1, SavedSound DEF LegsInv
    <3>2. Sound(l, pos[l])' /\ JobsFit(l)' /\ SoldFits(l)' /\ RoughFits(l)'
      BY <2>1, <3>1 DEF LegInv, Sound, JobsFit, SoldFits, RoughFits, Left, MayBuy
    <3>3. BoughtFits(l)' /\ FloorFits(l)'
      BY <2>1 DEF BoughtFits, FloorFits
    <3>4. TrailFits(l)'
      BY <2>1, <3>1 DEF LegInv, TrailFits, Stopped, Keep
    <3> QED BY <3>1, <3>2, <3>3, <3>4 DEF LegInv
  <2> QED BY <2>1, <2>2 DEF LegsInv
<1>5. CASE Shutdown
  <2>1. up /\ MemoryIsLost /\ file' = SavedAll
    BY <1>5 DEF Shutdown
  <2> QED BY <2>1, SavedSound, LossKeeps
<1>6. CASE Crash
  <2>1. up /\ MemoryIsLost /\ setting.restart = "rough" /\ file' \in {file, [l \in Legs |-> Flat]}
    BY <1>6 DEF Crash
  <2>2. file' \in [Legs -> Positions]
    BY <2>1, FlatTyped DEF TypeOK
  <2>3. \A l \in Legs : Sound(l, file'[l])
    BY <2>1 DEF LegsInv, LegInv, Sound, Flat
  <2> QED BY <2>1, <2>2, <2>3, LossKeeps
<1>7. CASE Boot
  BY <1>7, BootKeeps
<1>8. CASE UNCHANGED vars
  <2>1. UNCHANGED <<pos, halted, px, open, todo, up, file, book, count, setting>>
    BY <1>8 DEF vars
  <2>2. ASSUME NEW l \in Legs PROVE LegInv(l)'
    BY <2>1, Untouched DEF LegsInv
  <2> QED BY <2>1, <2>2 DEF LegsInv
<1> QED BY <1>1, <1>2, <1>3, <1>4, <1>5, <1>6, <1>7, <1>8 DEF Next

THEOREM Inductive == Spec => [](TypeOK /\ LegsInv)
<1>1. Init => TypeOK /\ LegsInv
  BY TypeInit, LegsInit
<1>2. TypeOK /\ LegsInv /\ [Next]_vars => (TypeOK /\ LegsInv)'
  BY TypeStep, LegsStep
<1> QED BY <1>1, <1>2, PTL DEF Spec

-----------------------------------------------------------------------------
(* The promises.                                                           *)

(* However ticks, gaps, refused orders, restarts and the runner fall: no   *)
(* life of the process sells more of a position than all of it.            *)
THEOREM NeverSoldTwice == Spec => []SoldAtMostWhole
<1>1. TypeOK /\ LegsInv => SoldAtMostWhole
  <2> SUFFICES ASSUME TypeOK, LegsInv, count.kills = 0, NEW l \in Legs
               PROVE  book[l].sold <= 100 * (1 + count.boots)
    BY DEF SoldAtMostWhole
  <2>1. book[l].sold + Left(pos[l]) <= 100 * (1 + count.boots)
    BY DEF LegsInv, LegInv, SoldFits
  <2>2. Left(pos[l]) \in {0, 50, 100} /\ book[l].sold \in Nat /\ count.boots \in Nat
    BY DEF Left, TypeOK
  <2> QED BY <2>1, <2>2
<1> QED BY <1>1, Inductive, PTL

(* A position is bought once, and never sold before it was.                *)
THEOREM BoughtBeforeSold == Spec => []BoughtOnceThenSold
<1>1. TypeOK /\ LegsInv => BoughtOnceThenSold
  <2> SUFFICES ASSUME TypeOK, LegsInv, NEW l \in Legs
               PROVE  /\ book[l].buys <= IF setting.restart = "rough" THEN 1 + count.boots ELSE 1
                      /\ count.kills = 0 /\ setting.restart # "rough" /\ book[l].sold > 0
                            => book[l].buys > 0
    BY DEF BoughtOnceThenSold
  <2>1. RoughFits(l) /\ BoughtFits(l) /\ book[l].buys \in Nat /\ count.boots \in Nat
    BY DEF LegsInv, LegInv, TypeOK
  <2>2. CASE setting.restart = "rough"
    BY <2>1, <2>2 DEF RoughFits, MayBuy
  <2>3. CASE setting.restart # "rough"
    BY <2>1, <2>3 DEF BoughtFits, MayBuy
  <2> QED BY <2>2, <2>3
<1> QED BY <1>1, Inductive, PTL

(* No intraday leg whose BUY is out stays open at or under its entry once  *)
(* a tick is dealt with.                                                   *)
THEOREM FloorIsAFloor == Spec => []FloorHolds
<1>1. TypeOK /\ LegsInv => FloorHolds
  <2> SUFFICES ASSUME TypeOK, LegsInv, setting.restart # "rough", up, open, Free,
                      NEW l \in Intraday, pos[l].in, book[l].buys > 0
               PROVE  px > pos[l].entry
    BY DEF FloorHolds
  <2>1. l \in Legs
    BY RosterAssumption
  <2>2. BoughtFits(l) /\ FloorFits(l) /\ Here(l) = pos[l] /\ todo[l] = Idle
    BY <2>1 DEF LegsInv, LegInv, Here, Free
  <2>3. pos[l].armed
    BY <2>2 DEF BoughtFits
  <2> QED BY <2>2, <2>3 DEF FloorFits
<1> QED BY <1>1, Inductive, PTL

(* The half that runs on after the flip keeps 85 % of its peak gain.       *)
THEOREM TrailIsKept == Spec => []RunnerTrails
<1>1. TypeOK /\ LegsInv => RunnerTrails
  <2> SUFFICES ASSUME TypeOK, LegsInv, count.boots = 0, Free,
                      NEW l \in Intraday, pos[l].in, book[l].sold = 50
               PROVE  100 * px > 100 * pos[l].entry + 85 * (pos[l].peak - pos[l].entry)
    BY DEF RunnerTrails
  <2>1. l \in Legs
    BY RosterAssumption
  <2>2. TrailFits(l) /\ todo[l] = Idle /\ pos[l] \in Positions /\ px \in Nat
    BY <2>1, RosterAssumption DEF LegsInv, LegInv, Free, TypeOK
  <2>3. pos[l].runner /\ ~Stopped(pos[l], px)
    BY <2>2 DEF TrailFits
  <2>4. ~(100 * px <= 100 * pos[l].entry + 85 * (pos[l].peak - pos[l].entry))
    BY <2>3 DEF Stopped, Keep
  <2> QED BY <2>2, <2>4 DEF Positions
<1> QED BY <1>1, Inductive, PTL

(* A killed engine holds no position until the process restarts.           *)
THEOREM KilledEnginesStayOut == Spec => []KilledStaysFlat
<1>1. TypeOK /\ LegsInv => KilledStaysFlat
  BY DEF LegsInv, LegInv, TrailFits, KilledStaysFlat
<1> QED BY <1>1, Inductive, PTL
=============================================================================

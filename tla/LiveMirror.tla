----------------------------- MODULE LiveMirror -----------------------------
(***************************************************************************)
(* LiveMimicMirror (main.cpp): the real holdings that follow the legs of a *)
(* shadow book, all of one coin.  A handler (a leg opens, a leg is         *)
(* clipped, a tick, a kill) runs under the mirror's mutex as a series of   *)
(* blocking exchange calls; the file is written only at marked places, so  *)
(* a crash between two calls finds an older one.  The gateway below keeps  *)
(* its own books and, after each fill and every 30 s, a protective stop    *)
(* that locks the coins it would sell (in detail in ProtectiveStops).      *)
(*                                                                         *)
(* Quantities are lots.  Prices enter as choices: which tick breaks a      *)
(* floor, which entry is too far from its anchor.                          *)
(***************************************************************************)
EXTENDS Integers, FiniteSets, Totals

CONSTANTS Legs,      \* clip tags that trade the same coin
          BuyQty,    \* lots one BUY may be filled with
          MinSell,   \* fewest lots worth min_sell_usd_ (and MIN_NOTIONAL)
          MaxCoins,  \* bound: most lots ever on the account
          Settings   \* native_stops_enabled_, and what may go wrong

AllFaults == {"refuse", "lose_sell", "lose_buy", "expire", "fee", "query_fail",
              "trigger", "crash_idle", "crash", "write_fail"}

ASSUME MirrorAssumption ==
    /\ IsFiniteSet(Legs) /\ "none" \notin Legs
    /\ BuyQty \subseteq Nat \ {0}
    /\ MinSell \in Nat \ {0} /\ MaxCoins \in Nat
    /\ Settings \subseteq [stops : BOOLEAN, faults : SUBSET AllFaults]

VARIABLES world,     \* the coins at the exchange, and the gateway's books
          held,      \* held: leg -> recorded lots and pending_sell
          file,      \* LIVE_MIRROR_FILE: the last persisted held
          cooling,   \* legs retried less than 3 s ago
          job,       \* the handler that holds the mutex
          setting,   \* one of Settings, fixed at start
          unsold,    \* observer: lots of the leg's last BUY its SELLs did not take
          unbooked,  \* observer: lots of the leg's last BUY not yet booked as closed
          unwritten  \* observer: the last write of the file failed

vars == <<world, held, file, cooling, job, setting, unsold, unbooked, unwritten>>

May(fault) == fault \in setting.faults

Nothing == [qty |-> 0, pending |-> FALSE]
Holds(l) == held[l].qty > 0
HeldLots == [l \in Legs |-> held[l].qty]
HeldTotal == Total(HeldLots, Legs)

NoLeg == "none"
Idle == [kind |-> "idle", phase |-> "body", retry |-> {}, asked |-> NoLeg,
         size |-> 0, body |-> {}, dirty |-> FALSE]
Monus(a, b) == IF a > b THEN a - b ELSE 0
Least(a, b) == IF a < b THEN a ELSE b

(* coins: lots on the account; armed: locked by the stop in resting_stop_; *)
(* orphan: locked by stops of an earlier life; pos: the ledger's position; *)
(* latch: the coin is in stop_rejected_; backoff: the slow-storm guard     *)
(* refuses the coin's exits for now.                                       *)
Worlds == [coins : Nat, orphan : Nat, pos : Nat, armed : Nat,
           latch : BOOLEAN, backoff : BOOLEAN]
FreeOf(w) == Monus(w.coins, w.orphan + w.armed)

TypeOK ==
    /\ world \in Worlds
    /\ held \in [Legs -> [qty : Nat, pending : BOOLEAN]]
    /\ file \in [Legs -> [qty : Nat, pending : BOOLEAN]]
    /\ cooling \in SUBSET Legs
    /\ job \in [kind : {"idle", "open", "clip", "price", "kill"},
                phase : {"retry", "body"}, retry : SUBSET Legs,
                asked : Legs \cup {NoLeg}, size : Nat,
                body : SUBSET Legs, dirty : BOOLEAN]
    /\ setting \in Settings
    /\ unsold \in [Legs -> Int] /\ unbooked \in [Legs -> Int] /\ unwritten \in BOOLEAN

Init ==
    /\ world = [coins |-> 0, orphan |-> 0, pos |-> 0, armed |-> 0,
                latch |-> FALSE, backoff |-> FALSE]
    /\ held = [l \in Legs |-> Nothing] /\ file = held
    /\ cooling = {} /\ job = Idle
    /\ setting \in Settings
    /\ unsold = [l \in Legs |-> 0] /\ unbooked = unsold /\ unwritten = FALSE

-----------------------------------------------------------------------------
(* The gateway: ExecutionGateway::submit and manage_protective_stop_, each *)
(* as a map from the books before to the books after.                      *)

(* Mutant: the new stop is placed before the old one is cancelled.         *)
ManageBroken(w) ==
    IF ~setting.stops \/ (w.pos >= MinSell /\ w.armed = w.pos) THEN w
    ELSE IF w.pos < MinSell THEN [w EXCEPT !.armed = 0, !.latch = FALSE]
    ELSE IF w.latch THEN [w EXCEPT !.armed = 0]
    ELSE IF w.pos <= FreeOf(w) THEN [w EXCEPT !.armed = w.pos]
    ELSE [w EXCEPT !.armed = 0, !.orphan = 0, !.coins = 0, !.latch = TRUE]

(* The stop follows the ledger: none for dust, the old one if it still     *)
(* matches, a new one otherwise; a refused one (the ledger thinks it holds *)
(* more than is free) makes the gateway sell whatever it finds.            *)
Manage(w) ==
    IF ~setting.stops \/ (w.pos >= MinSell /\ w.armed = w.pos) THEN w
    ELSE IF w.pos < MinSell THEN [w EXCEPT !.armed = 0, !.latch = FALSE]
    ELSE IF w.latch THEN [w EXCEPT !.armed = 0]
    ELSE IF w.pos <= Monus(w.coins, w.orphan) THEN [w EXCEPT !.armed = w.pos]
    ELSE [w EXCEPT !.armed = 0, !.orphan = 0, !.coins = 0, !.latch = TRUE]

Answer(w, ok, took) == [w |-> w, ok |-> ok, took |-> took]

(* Before the sale the recorded stop is cancelled; after a failed one      *)
(* nothing arms it again and the guard backs the coin's exits off.         *)
Freed(w) == [w EXCEPT !.armed = 0]
Failed(w) == [w EXCEPT !.backoff = TRUE]

Sold(w, q) == Answer(Manage([Freed(w) EXCEPT !.coins = @ - q, !.pos = Monus(@, q),
                                              !.backoff = FALSE]), TRUE, q)
(* Executed, but the answer is lost: the ledger is not told. *)
SoldUnheard(w, q) == Answer(Failed([Freed(w) EXCEPT !.coins = @ - q]), FALSE, q)
(* EXPIRED after x of q lots: r.ok, and a REJECTED for the ledger.         *)
Expired(w, x) == Answer(Manage([Freed(w) EXCEPT !.coins = @ - x, !.backoff = (x = 0)]), TRUE, x)

Sales(w, q) ==
    IF w.backoff \/ q < MinSell THEN {Answer(w, FALSE, 0)}
    ELSE IF q > FreeOf(Freed(w)) THEN {Answer(Failed(Freed(w)), FALSE, 0)}
    ELSE {Sold(w, q)}
         \cup (IF May("refuse") THEN {Answer(Failed(Freed(w)), FALSE, 0)} ELSE {})
         \cup (IF May("lose_sell") THEN {SoldUnheard(w, q)} ELSE {})
         \cup (IF May("expire") THEN {Expired(w, x) : x \in 0..q-1} ELSE {})

(* A BUY: filled (Binance may keep its fee out of the coins it delivers),  *)
(* or not sent, or executed without the answer arriving.                   *)
Buys(w, q) ==
    LET Filled(fee) == Manage([w EXCEPT !.coins = @ + q - fee, !.pos = @ + q,
                                        !.backoff = FALSE])
    IN  {Answer(w, FALSE, 0), Answer(Filled(0), TRUE, q)}
        \cup (IF May("fee") THEN {Answer(Filled(1), TRUE, q)} ELSE {})
        \cup (IF May("lose_buy")
              THEN {Answer([w EXCEPT !.coins = @ + q], FALSE, q)} ELSE {})
        \cup (IF May("expire") THEN {Answer(Manage(w), TRUE, 0)} ELSE {})

-----------------------------------------------------------------------------
(* The handlers.  All but the kill first retry what is pending.            *)

Due == {l \in Legs : Holds(l) /\ held[l].pending /\ l \notin cooling}

(* Mutant: on_price does not call retry_pending_.                          *)
StartBroken(kind, legs, phase) ==
    /\ job = Idle
    /\ job' = [Idle EXCEPT !.kind = kind, !.phase = phase, !.body = legs,
                           !.retry = IF kind \in {"open", "clip"} THEN Due ELSE {},
                           !.dirty = (kind = "kill")]
    /\ UNCHANGED <<world, held, file, cooling, setting, unwritten, unsold, unbooked>>

Start(kind, legs, phase) ==
    /\ job = Idle
    /\ job' = [Idle EXCEPT !.kind = kind, !.phase = phase, !.body = legs,
                           !.retry = IF phase = "retry" THEN Due ELSE {},
                           !.dirty = (kind = "kill")]
    /\ UNCHANGED <<world, held, file, cooling, setting, unwritten, unsold, unbooked>>

LegOpens(l) == Start("open", {l}, "retry")
LegClips(l) == Start("clip", {l}, "retry")
PriceTick == (\E l \in Legs : Holds(l)) /\ Start("price", {}, "retry")
Kill == Start("kill", {l \in Legs : Holds(l)}, "body")

(* What a leg's end means for the observers: lots sold, lots booked; -1    *)
(* once more went out than came in.                                        *)
Left(n, out) == IF out > n THEN -1 ELSE n - out
Account(l, took, booked) ==
    /\ unsold' = [unsold EXCEPT ![l] = Left(@, took)]
    /\ unbooked' = [unbooked EXCEPT ![l] = Left(@, booked)]

(* retry_pending_: first the free balance is read (or cannot be), then,    *)
(* in another call, at most that much is sold.                             *)
Retrying(l) == job.phase = "retry" /\ job.asked = NoLeg /\ l \in job.retry

(* Mutant: the retry sells all that is free.                               *)
RetryAskBroken(l) ==
    /\ Retrying(l) /\ FreeOf(world) >= MinSell
    /\ job' = [job EXCEPT !.asked = l, !.size = FreeOf(world)]
    /\ UNCHANGED <<world, held, file, cooling, setting, unwritten, unsold, unbooked>>

RetryAsk(l) ==
    /\ Retrying(l)
    /\ \/ FreeOf(world) >= MinSell
          /\ job' = [job EXCEPT !.asked = l, !.size = Least(held[l].qty, FreeOf(world))]
       \/ May("query_fail")
          /\ job' = [job EXCEPT !.asked = l, !.size = held[l].qty]
    /\ UNCHANGED <<world, held, file, cooling, setting, unwritten, unsold, unbooked>>

(* Less than the minimum is free: the position counts as closed.           *)
RetryDust(l) ==
    /\ Retrying(l) /\ FreeOf(world) < MinSell
    /\ held' = [held EXCEPT ![l] = Nothing]
    /\ Account(l, 0, held[l].qty)
    /\ job' = [job EXCEPT !.retry = @ \ {l}, !.dirty = TRUE]
    /\ UNCHANGED <<world, file, cooling, setting, unwritten>>

(* Mutant: a sale that went through leaves the holding in place.           *)
RetrySellBroken(l) ==
    /\ job.asked = l
    /\ cooling' = cooling \cup {l}
    /\ \E a \in Sales(world, job.size) :
        /\ world' = a.w
        /\ Account(l, a.took, IF a.ok THEN job.size ELSE 0)
        /\ job' = [job EXCEPT !.retry = @ \ {l}, !.asked = NoLeg, !.size = 0,
                              !.dirty = @ \/ a.ok]
    /\ UNCHANGED <<held, file, setting, unwritten>>

RetrySell(l) ==
    /\ job.asked = l
    /\ cooling' = cooling \cup {l}
    /\ \E a \in Sales(world, job.size) :
        /\ world' = a.w
        /\ held' = IF a.ok THEN [held EXCEPT ![l] = Nothing] ELSE held
        /\ Account(l, a.took, IF a.ok THEN job.size ELSE 0)
        /\ job' = [job EXCEPT !.retry = @ \ {l}, !.asked = NoLeg, !.size = 0,
                              !.dirty = @ \/ a.ok]
    /\ UNCHANGED <<file, setting, unwritten>>

(* persist_: the temporary file is renamed over the old one, or cannot be  *)
(* opened or renamed, and nobody notices.                                  *)
Persist ==
    \/ file' = held /\ unwritten' = FALSE
    \/ May("write_fail") /\ UNCHANGED file /\ unwritten' = TRUE
Save == IF job.dirty THEN Persist ELSE UNCHANGED <<file, unwritten>>

(* Mutant: what the retries closed is not persisted.                       *)
RetryEndsBroken ==
    /\ job.phase = "retry" /\ job.retry = {}
    /\ \E broken \in SUBSET {l \in Legs : Holds(l) /\ ~held[l].pending} :
        /\ job.kind # "price" => broken = {}
        /\ job' = [job EXCEPT !.phase = "body", !.dirty = FALSE,
                              !.body = IF job.kind = "price" THEN broken ELSE @]
    /\ UNCHANGED <<world, held, file, cooling, setting, unwritten, unsold, unbooked>>

(* What changed is written; a tick then looks at the floors, and those of  *)
(* the holdings whose floor it breaks are sold.                            *)
RetryEnds ==
    /\ job.phase = "retry" /\ job.retry = {}
    /\ Save
    /\ \E broken \in SUBSET {l \in Legs : Holds(l) /\ ~held[l].pending} :
        /\ job.kind # "price" => broken = {}
        /\ job' = [job EXCEPT !.phase = "body", !.dirty = FALSE,
                              !.body = IF job.kind = "price" THEN broken ELSE @]
    /\ UNCHANGED <<world, held, cooling, setting, unsold, unbooked>>

(* on_open: declined (pause, gap from the anchor), already holding, or a   *)
(* BUY of which only an executed quantity makes a holding.                 *)
Decline(l) ==
    /\ job.phase = "body" /\ job.kind = "open" /\ l \in job.body
    /\ job' = [job EXCEPT !.body = {}]
    /\ UNCHANGED <<world, held, file, cooling, setting, unwritten, unsold, unbooked>>

Buy(l, q) ==
    /\ job.phase = "body" /\ job.kind = "open" /\ l \in job.body
    /\ ~Holds(l) /\ world.coins + q <= MaxCoins /\ world.pos + q <= MaxCoins
    /\ \E a \in Buys(world, q) :
        /\ world' = a.w
        /\ IF a.ok /\ a.took > 0
           THEN /\ held' = [held EXCEPT ![l] = [qty |-> q, pending |-> FALSE]]
                /\ unsold' = [unsold EXCEPT ![l] = q]
                /\ unbooked' = [unbooked EXCEPT ![l] = q]
                /\ job' = [job EXCEPT !.body = {}, !.dirty = TRUE]
           ELSE /\ job' = [job EXCEPT !.body = {}]
                /\ UNCHANGED <<held, unsold, unbooked>>
    /\ UNCHANGED <<file, cooling, setting, unwritten>>

(* Mutant: a holding whose sale fails is forgotten too.                    *)
SellLegBroken(l) ==
    /\ job.phase = "body" /\ job.kind # "open" /\ l \in job.body /\ Holds(l)
    /\ \E a \in Sales(world, held[l].qty) :
        /\ world' = a.w
        /\ held' = [held EXCEPT ![l] = Nothing]
        /\ Account(l, a.took, held[l].qty)
    /\ job' = [job EXCEPT !.body = @ \ {l}, !.dirty = TRUE]
    /\ UNCHANGED <<file, cooling, setting, unwritten>>

(* on_clip, on_price, flatten_all: a holding is sold and forgotten, or     *)
(* flagged for the retry.                                                  *)
SellLeg(l) ==
    /\ job.phase = "body" /\ job.kind # "open" /\ l \in job.body /\ Holds(l)
    /\ \E a \in Sales(world, held[l].qty) :
        /\ world' = a.w
        /\ held' = [held EXCEPT ![l] = IF a.ok THEN Nothing ELSE [@ EXCEPT !.pending = TRUE]]
        /\ Account(l, a.took, IF a.ok THEN held[l].qty ELSE 0)
    /\ job' = [job EXCEPT !.body = @ \ {l}, !.dirty = TRUE]
    /\ UNCHANGED <<file, cooling, setting, unwritten>>

(* The clip of a leg that never filled.                                    *)
NotHeld(l) ==
    /\ job.phase = "body" /\ job.kind = "clip" /\ l \in job.body /\ ~Holds(l)
    /\ job' = [job EXCEPT !.body = {}]
    /\ UNCHANGED <<world, held, file, cooling, setting, unwritten, unsold, unbooked>>

Finish ==
    /\ job # Idle /\ job.phase = "body" /\ job.body = {}
    /\ Save
    /\ job' = Idle
    /\ UNCHANGED <<world, held, cooling, setting, unsold, unbooked>>

-----------------------------------------------------------------------------
(* The surroundings. *)

(* The 30 s reconcile runs on the feed thread, so beside a kill at most.   *)
Reconcile ==
    /\ job.kind \in {"idle", "kill"}
    /\ world' = Manage(world)
    /\ UNCHANGED <<held, file, cooling, job, setting, unwritten, unsold, unbooked>>

Cooled ==
    /\ cooling # {} /\ cooling' = {}
    /\ UNCHANGED <<world, held, file, job, setting, unwritten, unsold, unbooked>>

BackoffEnds ==
    /\ world.backoff /\ world' = [world EXCEPT !.backoff = FALSE]
    /\ UNCHANGED <<held, file, cooling, job, setting, unwritten, unsold, unbooked>>

(* The stop executes at the exchange. *)
StopTriggers ==
    /\ May("trigger") /\ world.armed > 0
    /\ world' = [world EXCEPT !.coins = Monus(@, world.armed), !.armed = 0]
    /\ UNCHANGED <<held, file, cooling, job, setting, unwritten, unsold, unbooked>>

(* The process dies and boots: the mirror loads its file, the ledger is    *)
(* seeded with what is free if not dust, and stops that rest are in        *)
(* nobody's books.                                                         *)
Restart ==
    /\ May("crash") \/ (May("crash_idle") /\ job = Idle)
    /\ LET locked == world.orphan + world.armed
           free   == Monus(world.coins, locked)
       IN  world' = Manage([coins |-> world.coins, orphan |-> locked,
                            pos |-> IF free < MinSell THEN 0 ELSE free,
                            armed |-> 0, latch |-> FALSE, backoff |-> FALSE])
    /\ held' = file
    /\ job' = Idle /\ cooling' = {} /\ unwritten' = FALSE
    /\ UNCHANGED <<file, setting, unsold, unbooked>>

HandlerStep ==
    \/ \E l \in Legs : \/ RetryAsk(l) \/ RetryDust(l) \/ RetrySell(l)
                       \/ Decline(l) \/ SellLeg(l) \/ NotHeld(l)
                       \/ \E q \in BuyQty : Buy(l, q)
    \/ RetryEnds \/ Finish

Next ==
    \/ \E l \in Legs : LegOpens(l) \/ LegClips(l)
    \/ PriceTick \/ Kill \/ HandlerStep
    \/ Reconcile \/ Cooled \/ BackoffEnds \/ StopTriggers \/ Restart

Spec == Init /\ [][Next]_vars

(* Handlers run to their end; ticks come far more often than operators'    *)
(* kills, so some find nothing cooling or backed off; the exchange answers *)
(* the balance query and takes the sales, again and again.                 *)
Fairness ==
    /\ WF_vars(HandlerStep) /\ SF_vars(PriceTick)
    /\ SF_vars(PriceTick /\ ~world.backoff /\ cooling = {})
    /\ WF_vars(Cooled) /\ WF_vars(BackoffEnds)
    /\ \A l \in Legs : /\ SF_vars(RetryDust(l))
                       /\ SF_vars((RetrySell(l) \/ SellLeg(l)) /\ held'[l].qty = 0)

FairSpec == Spec /\ Fairness

-----------------------------------------------------------------------------
Without(faults) == setting.faults \cap faults = {}

(* A leg never sells more than it bought, although the free balance its    *)
(* retry is clamped to holds other legs' lots too; not so when a sale's    *)
(* answer is lost, the process dies inside a handler or the file cannot be *)
(* written (main.cpp:1286-1293, 1565).                                     *)
SoldOnce == Without({"lose_sell", "crash", "write_fail"}) => \A l \in Legs : unsold[l] >= 0

(* The realized ledger books no lot of a leg twice, whatever mixture of    *)
(* clip, floor, kill, retry and dust-clear closes it; not so when the      *)
(* process dies between a booking and the persist_ after it, or the file   *)
(* cannot be written (main.cpp:1383-1412).                                 *)
BookedOnce == Without({"crash", "write_fail"}) => \A l \in Legs : unbooked[l] >= 0

(* Without native stops every coin above dust belongs to a recorded        *)
(* holding, also while a handler is under way (main.cpp:1219-1220).        *)
NothingStranded ==
    ~setting.stops /\ Without({"lose_buy", "expire", "crash", "write_fail"})
        => world.coins < HeldTotal + MinSell

(* What the mirror records as held is on the account, also after the       *)
(* gateway's own emergency flatten of the coin: one that the mirror has    *)
(* not ordered must not happen (main.cpp:1243-1245, 1286-1293).            *)
HoldsBacked ==
    /\ Without({"lose_sell", "fee", "crash", "write_fail"})
    /\ setting.stops => Without({"expire", "trigger"})
    => HeldTotal <= world.coins

(* Between handlers the file is what memory is, so that a restart loses    *)
(* and resurrects nothing, unless the last write of the file failed        *)
(* (main.cpp:1490-1491, 1538).                                             *)
FileCurrent == job = Idle /\ ~unwritten => file = held

(* A sale that was flagged for retry ends, if the other legs of the coin   *)
(* stay out of the way (main.cpp:1528-1578).                               *)
PendingResolves ==
    \A l \in Legs : (<>[](\A m \in Legs \ {l} : ~Holds(m)))
                        => (held[l].pending ~> ~Holds(l))
=============================================================================

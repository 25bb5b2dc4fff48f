--------------------------- MODULE ExchangeLedger ---------------------------
(***************************************************************************)
(* ExchangeLedger: cash, positions, per-sleeve attribution and open-order  *)
(* reservations, changed only by the gateway's reservations and by the     *)
(* execution reports of the exchange.                                      *)
(*                                                                         *)
(* Money is counted in 1/FeeDen of a quote unit and quantity in lot steps, *)
(* so that q * px * (1 + fee_rate) is the exact integer Cost(q, px).       *)
(*                                                                         *)
(* Each method is one step.  The class takes no lock, so that holds as     *)
(* long as no kill on the HTTP thread books while the feed thread does.    *)
(***************************************************************************)
EXTENDS Integers, FiniteSets, Totals

CONSTANTS Sources,      \* sleeves
          Symbols,
          Prices,       \* fill and reference prices
          Fees,         \* fees a report may carry; 0 = none, the ledger estimates
          InitCash,     \* cash configured at start, in money units
          Enforce,      \* configure(.., enforce)
          FeeNum, FeeDen,
          MaxQty,       \* bound: largest quantity of one order or seed
          MaxOrders,    \* bound: orders submitted or adopted in a behaviour
          Hazards       \* which disturbances the environment may produce

AllHazards == {"slippage", "late_fill", "id_reuse", "oversell", "rich_adopt"}

ASSUME LedgerAssumption ==
    /\ IsFiniteSet(Sources) /\ IsFiniteSet(Symbols)
    /\ Prices \subseteq Nat \ {0} /\ Fees \subseteq Nat
    /\ InitCash \in Nat /\ Enforce \in BOOLEAN
    /\ FeeNum \in Nat /\ FeeDen \in Nat \ {0} /\ FeeNum <= FeeDen
    /\ MaxQty \in Nat /\ MaxOrders \in Nat
    /\ Hazards \subseteq AllHazards

Keys == Sources \X Symbols

(* With no signal id every order of one sleeve, symbol and side shares one *)
(* client id (OrderIdRegistry::make_client_id), so key and side are the id. *)
Cids == Keys \X {"BUY", "SELL"}
KeyOf(c) == c[1]
SymOf(c) == c[1][2]
IsBuy(c) == c[2] = "BUY"

VARIABLES total_cash, reserved_cash,  \* total_cash_, reserved_cash_
          pos,       \* symbol -> confirmed quantity (pos_)
          attrib,    \* <<source, symbol>> -> attributed quantity (attrib_)
          pending,   \* client id -> open order (pending_); NoOrder when absent
          booting,   \* startup reconciliation still runs
          working,   \* the exchange: quantity of each order that may still fill
          seeded,    \* observer: what is left of the pre-boot holding, owned by no sleeve
          overdrawn, \* observer: symbols of which a sleeve sold another sleeve's coins
          orders     \* bound counter

vars == <<total_cash, reserved_cash, pos, attrib, pending,
          booting, working, seeded, overdrawn, orders>>

NoOrder == [state |-> "NONE", reserved |-> 0]
Order(state, reserved) == [state |-> state, reserved |-> reserved]
OpenStates == {"ACCEPTED", "PARTIAL", "UNKNOWN"}

Enforced == Enforce /\ InitCash > 0
UnitCost(px) == px * (FeeDen + FeeNum)
Cost(q, px) == q * UnitCost(px)
Fee(q, px, fee) == IF fee > 0 THEN fee ELSE q * px * FeeNum

(* Mutant: cash that open orders hold counts as available. *)
AvailableGross == total_cash
Available == total_cash - reserved_cash

Monus(a, b) == IF a > b THEN a - b ELSE 0
Least(a, b) == IF a < b THEN a ELSE b

TypeOK ==
    /\ total_cash \in Int /\ reserved_cash \in Nat
    /\ pos \in [Symbols -> Nat] /\ seeded \in [Symbols -> Nat]
    /\ attrib \in [Keys -> Nat]
    /\ pending \in [Cids -> [state : OpenStates \cup {"NONE"}, reserved : Nat]]
    /\ working \in [Cids -> Nat]
    /\ overdrawn \subseteq Symbols
    /\ booting \in BOOLEAN /\ orders \in 0..MaxOrders

Init ==
    /\ total_cash = InitCash /\ reserved_cash = 0
    /\ pos = [s \in Symbols |-> 0]
    /\ attrib = [k \in Keys |-> 0]
    /\ pending = [c \in Cids |-> NoOrder]
    /\ booting = TRUE
    /\ working = [c \in Cids |-> 0]
    /\ seeded = [s \in Symbols |-> 0] /\ overdrawn = {}
    /\ orders = 0

-----------------------------------------------------------------------------
(* Startup reconciliation: only before trading starts. *)

(* What the open sells of a symbol offer, the base the exchange has locked. *)
Offered(s) == Total(working, {c \in Cids : ~IsBuy(c) /\ SymOf(c) = s})

(* adopt_pending: an order the exchange already works; no cash check.  Its *)
(* cost is within the cash unless "rich_adopt" says otherwise.             *)
Adopt(c, q, px) ==
    LET reserved == IF IsBuy(c) THEN Cost(q, px) ELSE 0 IN
    /\ booting /\ orders < MaxOrders /\ pending[c] = NoOrder
    /\ "rich_adopt" \in Hazards \/ reserved <= Available
    /\ IsBuy(c) \/ q <= pos[SymOf(c)] - Offered(SymOf(c))
    /\ pending' = [pending EXCEPT ![c] = Order("ACCEPTED", reserved)]
    /\ reserved_cash' = reserved_cash + reserved
    /\ working' = [working EXCEPT ![c] = q]
    /\ orders' = orders + 1
    /\ UNCHANGED <<total_cash, pos, attrib, booting, seeded, overdrawn>>

(* seed_position: SET, cash-neutral, attributed to no sleeve; main seeds   *)
(* every balance before it reconciles.                                     *)
Seed(s, q) ==
    /\ booting /\ orders = 0
    /\ pos' = [pos EXCEPT ![s] = q]
    /\ seeded' = [seeded EXCEPT ![s] = q]
    /\ UNCHANGED <<total_cash, reserved_cash, attrib, pending, booting, working,
                   overdrawn, orders>>

StartTrading ==
    /\ booting /\ booting' = FALSE
    /\ UNCHANGED <<total_cash, reserved_cash, pos, attrib, pending, working, seeded,
                   overdrawn, orders>>

-----------------------------------------------------------------------------
(* Calls of the gateway. *)

Submittable(c) ==
    /\ ~booting /\ orders < MaxOrders
    /\ "id_reuse" \in Hazards \/ (pending[c] = NoOrder /\ working[c] = 0)

(* Mutant: rejected when fully booked, but never resized. *)
ReserveBuyUnresized(c, q, px) ==
    /\ IsBuy(c) /\ Submittable(c)
    /\ Enforced => Available > 0
    /\ pending' = [pending EXCEPT ![c] = Order("ACCEPTED", Cost(q, px))]
    /\ reserved_cash' = reserved_cash + Cost(q, px)
    /\ working' = [working EXCEPT ![c] = q]
    /\ orders' = orders + 1
    /\ UNCHANGED <<total_cash, pos, attrib, booting, seeded, overdrawn>>

(* reserve_buy: rejected when fully booked, resized down to what is left.  *)
ReserveBuy(c, q, px) ==
    LET cost    == Cost(q, px)
        resized == Enforced /\ cost > Available
        granted == IF resized THEN Available ELSE cost
    IN  /\ IsBuy(c) /\ Submittable(c)
        /\ Enforced => Available > 0
        /\ pending' = [pending EXCEPT ![c] = Order("ACCEPTED", granted)]
        /\ reserved_cash' = reserved_cash + granted
        /\ working' = [working EXCEPT ![c] = IF resized THEN Available \div UnitCost(px) ELSE q]
        /\ orders' = orders + 1
        /\ UNCHANGED <<total_cash, pos, attrib, booting, seeded, overdrawn>>

(* note_sell, of any quantity: a roster exit is sized by its leg's notional *)
(* at the exit's price, without a look at what the sleeve owns.            *)
NoteSell(c, q) ==
    /\ ~IsBuy(c) /\ Submittable(c)
    /\ pending' = [pending EXCEPT ![c] = Order("ACCEPTED", 0)]
    /\ working' = [working EXCEPT ![c] = q]
    /\ orders' = orders + 1
    /\ UNCHANGED <<total_cash, reserved_cash, pos, attrib, booting, seeded, overdrawn>>

(* release: the order failed to submit.  With "late_fill" the failed send  *)
(* may have reached the exchange all the same.                             *)
Release(c) ==
    /\ pending[c].state = "ACCEPTED"
    /\ reserved_cash' = Monus(reserved_cash, pending[c].reserved)
    /\ pending' = [pending EXCEPT ![c] = NoOrder]
    /\ \/ working' = [working EXCEPT ![c] = 0]
       \/ "late_fill" \in Hazards /\ UNCHANGED working
    /\ UNCHANGED <<total_cash, pos, attrib, booting, seeded, overdrawn, orders>>

-----------------------------------------------------------------------------
(* apply_report, by the state the report carries. *)

Live(c) == ~booting /\ pending[c] # NoOrder

(* Mutant: a closing report frees the reservation and forgets to erase the order. *)
ReportClosedKeepsOrder(c) ==
    /\ Live(c)
    /\ reserved_cash' = reserved_cash - pending[c].reserved
    /\ working' = [working EXCEPT ![c] = 0]
    /\ UNCHANGED <<total_cash, pos, attrib, pending, booting, seeded, overdrawn, orders>>

(* REJECTED, CANCELLED, and a FILLED that carries no quantity. *)
ReportClosed(c) ==
    /\ Live(c)
    /\ reserved_cash' = Monus(reserved_cash, pending[c].reserved)
    /\ pending' = [pending EXCEPT ![c] = NoOrder]
    /\ working' = [working EXCEPT ![c] = 0]
    /\ UNCHANGED <<total_cash, pos, attrib, booting, seeded, overdrawn, orders>>

(* ACCEPTED and UNKNOWN: only the state changes, the reservation stays.    *)
ReportState(c, state) ==
    /\ Live(c)
    /\ pending' = [pending EXCEPT ![c].state = state]
    /\ UNCHANGED <<total_cash, reserved_cash, pos, attrib, booting, working, seeded, overdrawn, orders>>

(* What the exchange may report as executed for c: part of what it works,  *)
(* no more base than it holds, and at a cost the reservation covers,       *)
(* unless a hazard says otherwise.                                         *)
Fillable(c, q, px, fee) ==
    /\ ~booting /\ q \in 1..working[c]
    /\ fee <= q * px * FeeNum
    /\ pending[c] # NoOrder \/ "late_fill" \in Hazards
    /\ IF IsBuy(c) THEN \/ Hazards \cap {"slippage", "late_fill"} # {}
                        \/ Cost(q, px) <= pending[c].reserved
                   ELSE "oversell" \in Hazards \/ q <= pos[SymOf(c)]

(* Mutant: FILLED erases the order and keeps what it still held reserved. *)
UnwindFillKeepsRest(c, q, px, filled) ==
    LET consume == IF IsBuy(c) THEN Cost(q, px) ELSE 0
        rest    == Monus(pending[c].reserved, consume)
    IN  /\ pending' = [pending EXCEPT ![c] = IF filled THEN NoOrder ELSE Order("PARTIAL", rest)]
        /\ reserved_cash' = Monus(reserved_cash, consume)

(* The reservation bookkeeping of a fill: a buy consumes its estimated     *)
(* cost from the order and from the running counter, each clamped at zero; *)
(* FILLED then frees what the order still holds.                           *)
UnwindFill(c, q, px, filled) ==
    LET consume  == IF IsBuy(c) THEN Cost(q, px) ELSE 0
        rest     == Monus(pending[c].reserved, consume)
        reserved == Monus(reserved_cash, consume)
    IN  IF pending[c] = NoOrder
        THEN UNCHANGED <<pending, reserved_cash>>
        ELSE /\ pending' = [pending EXCEPT ![c] = IF filled THEN NoOrder
                                                  ELSE Order("PARTIAL", rest)]
             /\ reserved_cash' = IF filled THEN Monus(reserved, rest) ELSE reserved

FillBuy(c, q, px, fee) ==
    /\ pos' = [pos EXCEPT ![SymOf(c)] = @ + q]
    /\ attrib' = [attrib EXCEPT ![KeyOf(c)] = @ + q]
    /\ total_cash' = total_cash - (q * px * FeeDen + Fee(q, px, fee))
    /\ UNCHANGED <<seeded, overdrawn>>

(* What a sale takes beyond its sleeve's share and the pre-boot holding is *)
(* another sleeve's.                                                       *)
Overdraws(c, sell) == Monus(sell, attrib[KeyOf(c)]) > seeded[SymOf(c)]
Overdrawn(c, sell) == overdrawn \cup {s \in {SymOf(c)} : Overdraws(c, sell)}

(* Mutant: a sale leaves the sleeve its attribution. *)
FillSellKeepsAttribution(c, q, px, fee) ==
    LET sell == Least(q, pos[SymOf(c)]) IN
    /\ pos' = [pos EXCEPT ![SymOf(c)] = @ - sell]
    /\ seeded' = [seeded EXCEPT ![SymOf(c)] = Monus(@, Monus(sell, attrib[KeyOf(c)]))]
    /\ overdrawn' = Overdrawn(c, sell)
    /\ total_cash' = total_cash + sell * px * FeeDen - Fee(q, px, fee)
    /\ UNCHANGED attrib

(* The fee is charged on the reported quantity, the proceeds on the        *)
(* quantity the position can give.                                         *)
FillSell(c, q, px, fee) ==
    LET sell == Least(q, pos[SymOf(c)])
        own  == attrib[KeyOf(c)]
    IN
    /\ pos' = [pos EXCEPT ![SymOf(c)] = @ - sell]
    /\ seeded' = [seeded EXCEPT ![SymOf(c)] = Monus(@, Monus(sell, own))]
    /\ attrib' = [attrib EXCEPT ![KeyOf(c)] = Monus(@, sell)]
    /\ overdrawn' = Overdrawn(c, sell)
    /\ total_cash' = total_cash + sell * px * FeeDen - Fee(q, px, fee)

ReportFill(c, q, px, fee, filled) ==
    /\ Fillable(c, q, px, fee)
    /\ IF IsBuy(c) THEN FillBuy(c, q, px, fee) ELSE FillSell(c, q, px, fee)
    /\ UnwindFill(c, q, px, filled)
    /\ working' = [working EXCEPT ![c] = IF filled THEN 0 ELSE @ - q]
    /\ UNCHANGED <<booting, orders>>

-----------------------------------------------------------------------------
Next ==
    \/ StartTrading
    \/ \E s \in Symbols, q \in 1..MaxQty : Seed(s, q)
    \/ \E c \in Cids :
        \/ \E q \in 1..MaxQty, px \in Prices : Adopt(c, q, px) \/ ReserveBuy(c, q, px)
        \/ \E q \in 1..MaxQty : NoteSell(c, q)
        \/ Release(c) \/ ReportClosed(c)
        \/ \E state \in {"ACCEPTED", "UNKNOWN"} : ReportState(c, state)
        \/ \E q \in 1..working[c], px \in Prices, fee \in Fees, filled \in BOOLEAN :
              ReportFill(c, q, px, fee, filled)

Spec == Init /\ [][Next]_vars

-----------------------------------------------------------------------------
Reservations == [c \in Cids |-> pending[c].reserved]
Reserved == Total(Reservations, Cids)

Book == INSTANCE CashBook WITH
    Holders <- Cids, InitialCash <- InitCash,
    cash <- total_cash, hold <- Reservations

(* The running counter reserved_cash_ equals the sum of the reservations   *)
(* of the open orders: every path that opens, fills, closes or releases an *)
(* order adds or takes exactly its own share (ExchangeLedger.hpp:97-210).  *)
ReservedMatchesPending == reserved_cash = Reserved

(* With enforcement on, the cash promised to open buys never exceeds the   *)
(* cash in the book, through every resize, partial fill, fee and sale.     *)
NeverOverbooked == Enforced => reserved_cash <= total_cash

(* The ledger implements the cash book: sleeves sharing one capital can    *)
(* never each book it (ExchangeLedger.hpp:15-16).                          *)
ImplementsCashBook == Book!Spec

(* No confirmed coin is without an owner, whatever is sold, and the        *)
(* attributions and the pre-boot rest add up to the position exactly until *)
(* some sale takes another sleeve's coins: then the seller's attribution is *)
(* clamped at zero while the position falls in full, and the others keep   *)
(* claiming what was sold (ExchangeLedger.hpp:177-199).                    *)
AttributionExact == \A s \in Symbols :
    LET owned == seeded[s] + Total([x \in Sources |-> attrib[<<x, s>>]], Sources)
    IN  pos[s] <= owned /\ (s \notin overdrawn => pos[s] = owned)

(* Cash reserved for an order before its submission stays reserved while   *)
(* the order works: no other order's fill eats it.                         *)
ReservationsBacked == reserved_cash >= Reserved

(* Every reserved unit is recorded under the client id of an open order,   *)
(* so that a report can release it (ExchangeLedger.hpp:96).                *)
NoOrphanReservation == reserved_cash <= Reserved
=============================================================================

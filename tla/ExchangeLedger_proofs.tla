------------------------ MODULE ExchangeLedger_proofs ------------------------
(***************************************************************************)
(* Type correctness of the ledger and exact attributions in every          *)
(* environment, and, where reports stay within their reservations, that    *)
(* the running counter reserved_cash_ is exactly the sum of the open       *)
(* reservations, that the book is never overbooked, and that the ledger    *)
(* implements CashBook.                                                    *)
(***************************************************************************)
EXTENDS ExchangeLedger, Totals_proofs

(* The disturbances that break the reservation bookkeeping are absent. *)
Undisturbed == Hazards \cap {"slippage", "late_fill", "id_reuse"} = {}

(* No disturbance at all. *)
Calm == Hazards = {}

LEMMA CidsFinite == IsFiniteSet(Cids)
<1>1. IsFiniteSet(Keys)
  BY LedgerAssumption, FS_Product DEF Keys
<1>2. IsFiniteSet({"BUY", "SELL"})
  <2>1. IsFiniteSet({"BUY"} \cup {"SELL"})
    BY FS_Singleton, FS_AddElement
  <2> QED  BY <2>1
<1> QED  BY <1>1, <1>2, FS_Product DEF Cids

LEMMA CidParts ==
    ASSUME NEW c \in Cids
    PROVE  KeyOf(c) \in Keys /\ SymOf(c) \in Symbols
BY DEF Cids, Keys, KeyOf, SymOf

LEMMA MonusNat ==
    ASSUME NEW a \in Nat, NEW b \in Nat
    PROVE  Monus(a, b) \in Nat /\ (b <= a => Monus(a, b) = a - b)
BY DEF Monus

LEMMA CostNat ==
    ASSUME NEW q \in Nat, NEW px \in Prices, NEW fee \in Fees
    PROVE  /\ UnitCost(px) \in Nat \ {0}
           /\ Cost(q, px) \in Nat /\ Fee(q, px, fee) \in Nat
           /\ q * px * FeeDen \in Nat
           /\ Cost(q, px) = q * px * FeeDen + q * px * FeeNum
<1>1. px \in Nat /\ px >= 1 /\ FeeDen \in Nat /\ FeeDen >= 1 /\ FeeNum \in Nat /\ fee \in Nat
  BY LedgerAssumption
<1>2. q * px \in Nat
  BY <1>1
<1>3. (q * px) * FeeDen \in Nat /\ (q * px) * FeeNum \in Nat
  BY <1>1, <1>2
<1>4. px * (FeeDen + FeeNum) \in Nat /\ px * (FeeDen + FeeNum) # 0
  BY <1>1
<1>5. q * (px * (FeeDen + FeeNum)) = (q * px) * FeeDen + (q * px) * FeeNum
  BY <1>1
<1> QED  BY <1>1, <1>3, <1>4, <1>5 DEF UnitCost, Cost, Fee

LEMMA TypeCost ==
    ASSUME NEW q \in Nat, NEW px \in Prices
    PROVE  Cost(q, px) \in Nat /\ UnitCost(px) \in Nat \ {0}
<1>1. px \in Nat /\ px >= 1 /\ FeeDen \in Nat /\ FeeDen >= 1 /\ FeeNum \in Nat
  BY LedgerAssumption
<1>2. px * (FeeDen + FeeNum) \in Nat /\ px * (FeeDen + FeeNum) # 0
  BY <1>1
<1> QED  BY <1>2 DEF UnitCost, Cost

LEMMA CostPositive ==
    ASSUME NEW q \in 1..MaxQty, NEW px \in Prices
    PROVE  Cost(q, px) \in Nat /\ Cost(q, px) >= 1
<1>1. q \in Nat /\ q >= 1 /\ UnitCost(px) \in Nat /\ UnitCost(px) >= 1
  BY LedgerAssumption, TypeCost
<1>2. ASSUME NEW a \in Nat, NEW b \in Nat, a >= 1, b >= 1  PROVE a * b \in Nat /\ a * b >= 1
  BY <1>2
<1> QED  BY <1>1, <1>2 DEF Cost

-----------------------------------------------------------------------------
(* Type correctness. *)

LEMMA OrderType ==
    ASSUME NEW state \in OpenStates, NEW reserved \in Nat
    PROVE  Order(state, reserved) \in [state : OpenStates \cup {"NONE"}, reserved : Nat]
BY DEF Order, OpenStates

LEMMA NoOrderType ==
    NoOrder \in [state : OpenStates \cup {"NONE"}, reserved : Nat]
BY DEF NoOrder, OpenStates

LEMMA TypeInit == Init => TypeOK
BY LedgerAssumption, NoOrderType DEF Init, TypeOK

LEMMA TypeFill ==
    ASSUME TypeOK, NEW c \in Cids, NEW q \in 1..working[c], NEW px \in Prices,
           NEW fee \in Fees, NEW filled \in BOOLEAN, ReportFill(c, q, px, fee, filled)
    PROVE  TypeOK'
<1> USE CidParts
<1>1. working[c] \in Nat /\ q \in Nat /\ pos[SymOf(c)] \in Nat /\ attrib[KeyOf(c)] \in Nat
  BY DEF TypeOK
<1>2. px \in Nat /\ FeeDen \in Nat
  BY LedgerAssumption
<1>3. Cost(q, px) \in Nat /\ Fee(q, px, fee) \in Nat /\ q * px * FeeDen \in Nat
  BY <1>1, CostNat
<1>4. booting' \in BOOLEAN /\ orders' \in 0..MaxOrders /\ working' \in [Cids -> Nat]
  <2>1. working[c] - q \in Nat
    BY <1>1
  <2> QED  BY <2>1 DEF TypeOK, ReportFill
<1>5. pending' \in [Cids -> [state : OpenStates \cup {"NONE"}, reserved : Nat]]
      /\ reserved_cash' \in Nat
  <2> DEFINE consume == IF IsBuy(c) THEN Cost(q, px) ELSE 0
             rest == Monus(pending[c].reserved, consume)
             reserved == Monus(reserved_cash, consume)
  <2>1. pending[c].reserved \in Nat /\ reserved_cash \in Nat /\ consume \in Nat
    BY <1>3 DEF TypeOK
  <2>2. rest \in Nat /\ reserved \in Nat
    BY <2>1, MonusNat
  <2>3. Monus(reserved, rest) \in Nat
    BY <2>2, MonusNat
  <2>4. Order("PARTIAL", rest) \in [state : OpenStates \cup {"NONE"}, reserved : Nat]
    BY <2>2, OrderType DEF OpenStates
  <2>5. UnwindFill(c, q, px, filled)
    BY DEF ReportFill
  <2> HIDE DEF consume
  <2>6. CASE pending[c] = NoOrder
    BY <2>5, <2>6 DEF UnwindFill, TypeOK
  <2>7. CASE pending[c] # NoOrder
    <3>1. /\ pending' = [pending EXCEPT ![c] = IF filled THEN NoOrder ELSE Order("PARTIAL", rest)]
          /\ reserved_cash' = IF filled THEN Monus(reserved, rest) ELSE reserved
      BY <2>5, <2>7 DEF UnwindFill, consume
    <3> HIDE DEF rest, reserved
    <3> QED  BY <3>1, <2>2, <2>3, <2>4, NoOrderType DEF TypeOK
  <2> QED  BY <2>6, <2>7
<1>6. pos' \in [Symbols -> Nat] /\ attrib' \in [Keys -> Nat] /\ seeded' \in [Symbols -> Nat]
      /\ total_cash' \in Int /\ overdrawn' \subseteq Symbols
  <2>1. CASE IsBuy(c)
    <3>1. FillBuy(c, q, px, fee)
      BY <2>1 DEF ReportFill
    <3> QED  BY <3>1, <1>1, <1>3 DEF FillBuy, TypeOK
  <2>2. CASE ~IsBuy(c)
    <3> DEFINE sell == Least(q, pos[SymOf(c)])
               own  == attrib[KeyOf(c)]
    <3>1. FillSell(c, q, px, fee)
      BY <2>2 DEF ReportFill
    <3>2. sell \in Nat /\ pos[SymOf(c)] - sell \in Nat
      BY <1>1 DEF Least
    <3>3. Monus(sell, own) \in Nat /\ Monus(own, sell) \in Nat
      BY <3>2, <1>1, MonusNat
    <3>4. Monus(seeded[SymOf(c)], Monus(sell, own)) \in Nat
      BY <3>3, MonusNat DEF TypeOK
    <3>5. sell * px * FeeDen \in Nat
      BY <3>2, <1>2
    <3>6. overdrawn' \subseteq Symbols
      BY <3>1 DEF FillSell, Overdrawn, TypeOK
    <3> HIDE DEF sell
    <3> QED  BY <3>1, <3>2, <3>3, <3>4, <3>5, <3>6, <1>3 DEF FillSell, TypeOK, sell
  <2> QED  BY <2>1, <2>2
<1> QED  BY <1>4, <1>5, <1>6 DEF TypeOK
LEMMA TypeNext == TypeOK /\ [Next]_vars => TypeOK'
<1> SUFFICES ASSUME TypeOK, [Next]_vars  PROVE TypeOK'
  OBVIOUS
<1> USE CidParts
<1>1. CASE StartTrading
  BY <1>1 DEF StartTrading, TypeOK
<1>2. ASSUME NEW s \in Symbols, NEW q \in 1..MaxQty, Seed(s, q)  PROVE TypeOK'
  BY <1>2 DEF Seed, TypeOK
<1>3. ASSUME NEW c \in Cids, NEW q \in 1..MaxQty, NEW px \in Prices, Adopt(c, q, px)
      PROVE TypeOK'
  <2> DEFINE reserved == IF IsBuy(c) THEN Cost(q, px) ELSE 0
  <2>1. q \in Nat
    BY LedgerAssumption
  <2>2. reserved \in Nat
    BY <2>1, TypeCost
  <2>3. Order("ACCEPTED", reserved) \in [state : OpenStates \cup {"NONE"}, reserved : Nat]
    BY <2>2, OrderType DEF OpenStates
  <2>4. orders' \in 0..MaxOrders
    BY <1>3, LedgerAssumption DEF Adopt, TypeOK
  <2> HIDE DEF reserved
  <2>5. reserved_cash' \in Nat
    BY <1>3, <2>2 DEF Adopt, TypeOK, reserved
  <2>6. pending' = [pending EXCEPT ![c] = Order("ACCEPTED", reserved)]
    BY <1>3 DEF Adopt, reserved
  <2> QED  BY <1>3, <2>1, <2>3, <2>4, <2>5, <2>6 DEF Adopt, TypeOK
<1>4. ASSUME NEW c \in Cids, NEW q \in 1..MaxQty, NEW px \in Prices, ReserveBuy(c, q, px)
      PROVE TypeOK'
  <2> DEFINE resized == Enforced /\ Cost(q, px) > Available
             granted == IF resized THEN Available ELSE Cost(q, px)
             worked  == IF resized THEN Available \div UnitCost(px) ELSE q
  <2>1. q \in Nat /\ Cost(q, px) \in Nat /\ UnitCost(px) \in Nat \ {0}
    BY LedgerAssumption, TypeCost
  <2>2. Available \in Int /\ (resized => Available \in Nat)
    BY <1>4 DEF ReserveBuy, TypeOK, Available
  <2>3. granted \in Nat
    BY <2>1, <2>2
  <2>4. worked \in Nat
    <3>1. ASSUME NEW a \in Nat, NEW b \in Nat \ {0}  PROVE a \div b \in Nat
      BY <3>1
    <3> QED  BY <2>1, <2>2, <3>1
  <2>5. Order("ACCEPTED", granted) \in [state : OpenStates \cup {"NONE"}, reserved : Nat]
    BY <2>3, OrderType DEF OpenStates
  <2>6. orders' \in 0..MaxOrders
    BY <1>4, LedgerAssumption DEF ReserveBuy, Submittable, TypeOK
  <2>7. /\ pending' = [pending EXCEPT ![c] = Order("ACCEPTED", granted)]
        /\ reserved_cash' = reserved_cash + granted
        /\ working' = [working EXCEPT ![c] = worked]
        /\ UNCHANGED <<total_cash, pos, attrib, booting, seeded, overdrawn>>
    BY <1>4 DEF ReserveBuy
  <2> HIDE DEF granted, worked
  <2> QED  BY <2>3, <2>4, <2>5, <2>6, <2>7 DEF TypeOK
<1>5. ASSUME NEW c \in Cids, NEW q \in 1..MaxQty, NoteSell(c, q)  PROVE TypeOK'
  <2>1. q \in Nat
    BY LedgerAssumption
  <2>2. Order("ACCEPTED", 0) \in [state : OpenStates \cup {"NONE"}, reserved : Nat]
    BY OrderType DEF OpenStates
  <2>3. orders' \in 0..MaxOrders
    BY <1>5, LedgerAssumption DEF NoteSell, Submittable, TypeOK
  <2> QED  BY <1>5, <2>1, <2>2, <2>3 DEF NoteSell, TypeOK
<1>6. ASSUME NEW c \in Cids, Release(c)  PROVE TypeOK'
  <2>1. Monus(reserved_cash, pending[c].reserved) \in Nat
    BY MonusNat DEF TypeOK
  <2> QED  BY <1>6, <2>1, NoOrderType DEF Release, TypeOK
<1>7. ASSUME NEW c \in Cids, ReportClosed(c)  PROVE TypeOK'
  <2>1. Monus(reserved_cash, pending[c].reserved) \in Nat
    BY MonusNat DEF TypeOK
  <2> QED  BY <1>7, <2>1, NoOrderType DEF ReportClosed, TypeOK
<1>8. ASSUME NEW c \in Cids, NEW state \in {"ACCEPTED", "UNKNOWN"}, ReportState(c, state)
      PROVE TypeOK'
  <2>1. pending' \in [Cids -> [state : OpenStates \cup {"NONE"}, reserved : Nat]]
    BY <1>8 DEF ReportState, TypeOK, OpenStates
  <2> QED  BY <1>8, <2>1 DEF ReportState, TypeOK
<1>9. ASSUME NEW c \in Cids, NEW q \in 1..working[c], NEW px \in Prices, NEW fee \in Fees,
             NEW filled \in BOOLEAN, ReportFill(c, q, px, fee, filled)
      PROVE TypeOK'
  BY <1>9, TypeFill
<1>10. CASE UNCHANGED vars
  BY <1>10 DEF vars, TypeOK
<1> QED  BY <1>1, <1>2, <1>3, <1>4, <1>5, <1>6, <1>7, <1>8, <1>9, <1>10 DEF Next

(* Whatever the exchange reports, in any environment the model has, the    *)
(* ledger stays well formed; in particular reserved_cash_ never goes       *)
(* negative (the clamps of ExchangeLedger.hpp:131, 144, 168, 187, 206).    *)
THEOREM TypeCorrect == Spec => []TypeOK
BY TypeInit, TypeNext, PTL DEF Spec
-----------------------------------------------------------------------------
(* The running counter is the sum of the open reservations. *)

Balanced == TypeOK /\ ReservedMatchesPending

LEMMA ReservationsType ==
    ASSUME TypeOK
    PROVE  Reservations \in [Cids -> Nat]
BY DEF TypeOK, Reservations

(* Replacing the record of one order moves the sum by the change of its reservation. *)
LEMMA ReservationUpdate ==
    ASSUME Balanced, NEW c \in Cids,
           NEW o \in [state : OpenStates \cup {"NONE"}, reserved : Nat],
           pending' = [pending EXCEPT ![c] = o]
    PROVE  /\ Reservations' = [Reservations EXCEPT ![c] = o.reserved]
           /\ pending[c].reserved \in Nat /\ pending[c].reserved <= reserved_cash
           /\ Reserved' \in Nat
           /\ Reserved' = reserved_cash - pending[c].reserved + o.reserved
<1>1. Reservations \in [Cids -> Nat] /\ Reservations[c] = pending[c].reserved
  BY ReservationsType DEF Balanced, Reservations
<1>2. Reservations' = [Reservations EXCEPT ![c] = o.reserved]
  BY DEF Reservations, Balanced, TypeOK
<1>3. o.reserved \in Nat
  OBVIOUS
<1>4. /\ Total(Reservations, Cids) \in Nat
      /\ Total(Reservations', Cids) \in Nat
      /\ Total(Reservations', Cids) + pending[c].reserved
            = Total(Reservations, Cids) + o.reserved
  <2> DEFINE f == Reservations
             g == [f EXCEPT ![c] = o.reserved]
  <2>1. Total(f, Cids) \in Nat /\ Total(g, Cids) \in Nat
        /\ Total(g, Cids) + f[c] = Total(f, Cids) + o.reserved
    <3> HIDE DEF f
    <3>1. f \in [Cids -> Nat]
      BY <1>1 DEF f
    <3> QED  BY <3>1, <1>3, CidsFinite, TotalUpdate
  <2> QED  BY <1>1, <1>2, <2>1
<1>5. pending[c].reserved <= Total(Reservations, Cids)
  BY <1>1, CidsFinite, TotalBounds
<1>6. reserved_cash = Total(Reservations, Cids)
  BY DEF Balanced, ReservedMatchesPending, Reserved
<1>7. Reserved' = Total(Reservations', Cids)
  BY DEF Reserved
<1> QED  BY <1>1, <1>2, <1>3, <1>4, <1>5, <1>6, <1>7

LEMMA ReservationsKept ==
    ASSUME Balanced, UNCHANGED <<pending, reserved_cash>>
    PROVE  ReservedMatchesPending'
BY DEF Balanced, ReservedMatchesPending, Reserved, Reservations

LEMMA BalancedInit == Init => ReservedMatchesPending
<1> SUFFICES ASSUME Init  PROVE ReservedMatchesPending
  OBVIOUS
<1>1. Reservations \in [Cids -> Nat] /\ \A c \in Cids : Reservations[c] = 0
  BY DEF Init, Reservations, NoOrder
<1>2. Total(Reservations, Cids) = 0
  BY <1>1, CidsFinite, TotalBounds
<1> QED  BY <1>2 DEF Init, ReservedMatchesPending, Reserved

(* What a fill inside its reservation does to the counter and to the order. *)
LEMMA FillUnwinds ==
    ASSUME Undisturbed, Balanced, NEW c \in Cids, NEW q \in 1..working[c],
           NEW px \in Prices, NEW fee \in Fees, NEW filled \in BOOLEAN,
           ReportFill(c, q, px, fee, filled)
    PROVE  LET consume == IF IsBuy(c) THEN Cost(q, px) ELSE 0
               rest    == pending[c].reserved - consume
           IN  /\ consume \in Nat /\ rest \in Nat /\ consume <= reserved_cash
               /\ pending' = [pending EXCEPT ![c] = IF filled THEN NoOrder
                                                    ELSE Order("PARTIAL", rest)]
               /\ reserved_cash' = reserved_cash - consume - (IF filled THEN rest ELSE 0)
<1> DEFINE consume == IF IsBuy(c) THEN Cost(q, px) ELSE 0
           rest    == pending[c].reserved - consume
           clamped == Monus(pending[c].reserved, consume)
           counter == Monus(reserved_cash, consume)
<1>1. q \in Nat /\ pending[c].reserved \in Nat /\ reserved_cash \in Nat
  BY DEF Balanced, TypeOK
<1>2. consume \in Nat
  BY <1>1, TypeCost
<1>3. pending[c] # NoOrder /\ UnwindFill(c, q, px, filled)
  BY DEF ReportFill, Fillable, Undisturbed
<1>4. consume <= pending[c].reserved
  BY <1>1 DEF ReportFill, Fillable, Undisturbed
<1>5. pending[c].reserved <= reserved_cash
  <2>1. pending[c] \in [state : OpenStates \cup {"NONE"}, reserved : Nat]
        /\ Reservations \in [Cids -> Nat] /\ Reservations[c] = pending[c].reserved
    BY ReservationsType DEF Balanced, TypeOK, Reservations
  <2>2. Reservations[c] <= Total(Reservations, Cids)
    BY <2>1, CidsFinite, TotalBounds
  <2> QED  BY <2>1, <2>2 DEF Balanced, ReservedMatchesPending, Reserved
<1> HIDE DEF consume
<1>6. clamped = rest /\ rest \in Nat /\ counter = reserved_cash - consume /\ counter \in Nat
  BY <1>1, <1>2, <1>4, <1>5 DEF Monus
<1>7. rest <= counter
  BY <1>1, <1>2, <1>4, <1>5, <1>6
<1>8. /\ pending' = [pending EXCEPT ![c] = IF filled THEN NoOrder ELSE Order("PARTIAL", clamped)]
      /\ reserved_cash' = IF filled THEN Monus(counter, clamped) ELSE counter
  BY <1>3 DEF UnwindFill, consume
<1>9. Monus(counter, clamped) = counter - rest
  BY <1>6, <1>7 DEF Monus
<1>10. /\ pending' = [pending EXCEPT ![c] = IF filled THEN NoOrder ELSE Order("PARTIAL", rest)]
       /\ reserved_cash' = reserved_cash - consume - (IF filled THEN rest ELSE 0)
  BY <1>1, <1>2, <1>6, <1>8, <1>9
<1>11. consume <= reserved_cash
  BY <1>1, <1>2, <1>4, <1>5
<1> HIDE DEF rest, clamped, counter
<1> QED  BY <1>2, <1>6, <1>10, <1>11 DEF consume, rest
LEMMA BalancedNext ==
    ASSUME Undisturbed, Balanced, [Next]_vars
    PROVE  ReservedMatchesPending'
<1> USE DEF Balanced
<1>1. CASE StartTrading
  BY <1>1, ReservationsKept DEF StartTrading
<1>2. ASSUME NEW s \in Symbols, NEW q \in 1..MaxQty, Seed(s, q)
      PROVE  ReservedMatchesPending'
  BY <1>2, ReservationsKept DEF Seed
<1>3. ASSUME NEW c \in Cids, NEW q \in 1..MaxQty, NEW px \in Prices, Adopt(c, q, px)
      PROVE  ReservedMatchesPending'
  <2> DEFINE reserved == IF IsBuy(c) THEN Cost(q, px) ELSE 0
  <2>1. reserved \in Nat
    BY TypeCost, LedgerAssumption
  <2>2. pending' = [pending EXCEPT ![c] = Order("ACCEPTED", reserved)]
        /\ reserved_cash' = reserved_cash + reserved
        /\ pending[c].reserved = 0
    BY <1>3 DEF Adopt, NoOrder
  <2>3. reserved_cash \in Nat
    BY DEF TypeOK
  <2> HIDE DEF reserved
  <2>4. Reserved' = reserved_cash - pending[c].reserved + reserved
    <3>1. Order("ACCEPTED", reserved) \in [state : OpenStates \cup {"NONE"}, reserved : Nat]
          /\ Order("ACCEPTED", reserved).reserved = reserved
      BY <2>1, OrderType DEF OpenStates, Order
    <3> QED  BY <2>2, <3>1, ReservationUpdate
  <2> QED  BY <2>1, <2>2, <2>3, <2>4 DEF ReservedMatchesPending
<1>4. ASSUME NEW c \in Cids, NEW q \in 1..MaxQty, NEW px \in Prices, ReserveBuy(c, q, px)
      PROVE  ReservedMatchesPending'
  <2> DEFINE resized == Enforced /\ Cost(q, px) > Available
             granted == IF resized THEN Available ELSE Cost(q, px)
  <2>1. Cost(q, px) \in Nat /\ (resized => Available \in Nat)
    BY <1>4, TypeCost, LedgerAssumption DEF ReserveBuy, TypeOK, Available
  <2>2. granted \in Nat
    BY <2>1
  <2>3. pending' = [pending EXCEPT ![c] = Order("ACCEPTED", granted)]
        /\ reserved_cash' = reserved_cash + granted
        /\ pending[c].reserved = 0
    BY <1>4 DEF ReserveBuy, Submittable, Undisturbed, NoOrder
  <2>4. reserved_cash \in Nat
    BY DEF TypeOK
  <2> HIDE DEF granted
  <2>5. Reserved' = reserved_cash - pending[c].reserved + granted
    <3>1. Order("ACCEPTED", granted) \in [state : OpenStates \cup {"NONE"}, reserved : Nat]
          /\ Order("ACCEPTED", granted).reserved = granted
      BY <2>2, OrderType DEF OpenStates, Order
    <3> QED  BY <2>3, <3>1, ReservationUpdate
  <2> QED  BY <2>2, <2>3, <2>4, <2>5 DEF ReservedMatchesPending
<1>5. ASSUME NEW c \in Cids, NEW q \in 1..MaxQty, NoteSell(c, q)
      PROVE  ReservedMatchesPending'
  <2>1. pending' = [pending EXCEPT ![c] = Order("ACCEPTED", 0)]
        /\ reserved_cash' = reserved_cash /\ pending[c].reserved = 0
    BY <1>5 DEF NoteSell, Submittable, Undisturbed, NoOrder
  <2>2. Order("ACCEPTED", 0) \in [state : OpenStates \cup {"NONE"}, reserved : Nat]
        /\ Order("ACCEPTED", 0).reserved = 0
    BY OrderType DEF OpenStates, Order
  <2>3. Reserved' = reserved_cash - pending[c].reserved + 0
    BY <2>1, <2>2, ReservationUpdate
  <2>4. reserved_cash \in Nat
    BY DEF TypeOK
  <2> QED  BY <2>1, <2>3, <2>4 DEF ReservedMatchesPending
<1>6. ASSUME NEW c \in Cids, Release(c) \/ ReportClosed(c)
      PROVE  ReservedMatchesPending'
  <2>1. pending' = [pending EXCEPT ![c] = NoOrder]
        /\ reserved_cash' = Monus(reserved_cash, pending[c].reserved)
    BY <1>6 DEF Release, ReportClosed
  <2>2. NoOrder.reserved = 0
    BY DEF NoOrder
  <2>3. Reserved' = reserved_cash - pending[c].reserved + 0
        /\ pending[c].reserved \in Nat /\ pending[c].reserved <= reserved_cash
    BY <2>1, <2>2, NoOrderType, ReservationUpdate
  <2>4. reserved_cash \in Nat
    BY DEF TypeOK
  <2> QED  BY <2>1, <2>3, <2>4 DEF ReservedMatchesPending, Monus
<1>7. ASSUME NEW c \in Cids, NEW state \in {"ACCEPTED", "UNKNOWN"}, ReportState(c, state)
      PROVE  ReservedMatchesPending'
  <2>1. \A d \in Cids : pending'[d].reserved = pending[d].reserved
    BY <1>7 DEF ReportState, TypeOK
  <2>2. Reservations' = Reservations
    BY <2>1 DEF Reservations
  <2> QED  BY <1>7, <2>2 DEF ReportState, ReservedMatchesPending, Reserved
<1>8. ASSUME NEW c \in Cids, NEW q \in 1..working[c], NEW px \in Prices, NEW fee \in Fees,
             NEW filled \in BOOLEAN, ReportFill(c, q, px, fee, filled)
      PROVE  ReservedMatchesPending'
  <2> DEFINE consume == IF IsBuy(c) THEN Cost(q, px) ELSE 0
             rest    == pending[c].reserved - consume
             left    == IF filled THEN NoOrder ELSE Order("PARTIAL", rest)
  <2>1. /\ consume \in Nat /\ rest \in Nat /\ consume <= reserved_cash
        /\ pending' = [pending EXCEPT ![c] = left]
        /\ reserved_cash' = reserved_cash - consume - (IF filled THEN rest ELSE 0)
    BY <1>8, FillUnwinds
  <2>2. left \in [state : OpenStates \cup {"NONE"}, reserved : Nat]
        /\ left.reserved = IF filled THEN 0 ELSE rest
    <3> HIDE DEF rest
    <3> QED  BY <2>1, NoOrderType, OrderType DEF OpenStates, Order, NoOrder
  <2>3. Reserved' = reserved_cash - pending[c].reserved + left.reserved
        /\ pending[c].reserved \in Nat
    BY <2>1, <2>2, ReservationUpdate
  <2>4. reserved_cash \in Nat
    BY DEF TypeOK
  <2> HIDE DEF consume, left
  <2> QED  BY <2>1, <2>2, <2>3, <2>4 DEF ReservedMatchesPending
<1>9. CASE UNCHANGED vars
  BY <1>9, ReservationsKept DEF vars
<1> QED  BY <1>1, <1>2, <1>3, <1>4, <1>5, <1>6, <1>7, <1>8, <1>9 DEF Next

(* While fills stay within their reservations and client ids are not       *)
(* reused, the running counter reserved_cash_ never drifts from the        *)
(* reservations it sums, however many orders are open at once.             *)
THEOREM CounterExact == Undisturbed => (Spec => []ReservedMatchesPending)
<1> SUFFICES ASSUME Undisturbed  PROVE Spec => []ReservedMatchesPending
  OBVIOUS
<1>1. Init => Balanced
  BY TypeInit, BalancedInit DEF Balanced
<1>2. Balanced /\ [Next]_vars => Balanced'
  BY TypeNext, BalancedNext DEF Balanced
<1>3. Balanced => ReservedMatchesPending
  BY DEF Balanced
<1> QED  BY <1>1, <1>2, <1>3, PTL DEF Spec
-----------------------------------------------------------------------------
(* The cash promised to open orders never exceeds the cash there is. *)

LEMMA CalmUndisturbed == Calm => Undisturbed
BY DEF Calm, Undisturbed

(* What a buy spends it consumes from its reservation. *)
LEMMA BuySpends ==
    ASSUME Calm, Balanced, NEW c \in Cids, NEW q \in 1..working[c], NEW px \in Prices,
           NEW fee \in Fees, NEW filled \in BOOLEAN,
           ReportFill(c, q, px, fee, filled), IsBuy(c)
    PROVE  /\ total_cash' \in Int /\ total_cash' <= total_cash
           /\ total_cash - total_cash' <= Cost(q, px)
<1>1. q \in Nat
  BY DEF Balanced, TypeOK
<1>2. /\ Fee(q, px, fee) \in Nat /\ q * px * FeeDen \in Nat
      /\ Cost(q, px) = q * px * FeeDen + q * px * FeeNum
  BY <1>1, CostNat
<1>3. total_cash' = total_cash - (q * px * FeeDen + Fee(q, px, fee))
  BY DEF ReportFill, FillBuy
<1>4. Fee(q, px, fee) <= q * px * FeeNum
  <2>1. px \in Nat /\ FeeNum \in Nat
    BY LedgerAssumption
  <2>2. q * px \in Nat
    BY <1>1, <2>1
  <2>3. (q * px) * FeeNum \in Nat
    BY <2>1, <2>2
  <2>4. fee <= q * px * FeeNum
    BY DEF ReportFill, Fillable
  <2> QED  BY <2>3, <2>4 DEF Fee
<1>5. total_cash \in Int
  BY DEF Balanced, TypeOK
<1>6. (q * px) * FeeNum \in Nat
  <2>1. px \in Nat /\ FeeNum \in Nat
    BY LedgerAssumption
  <2>2. q * px \in Nat
    BY <1>1, <2>1
  <2> QED  BY <2>1, <2>2
<1> QED  BY <1>2, <1>3, <1>4, <1>5, <1>6

(* A sale never costs more in fees than it brings in. *)
LEMMA SellEarns ==
    ASSUME Calm, Balanced, NEW c \in Cids, NEW q \in 1..working[c], NEW px \in Prices,
           NEW fee \in Fees, NEW filled \in BOOLEAN,
           ReportFill(c, q, px, fee, filled), ~IsBuy(c)
    PROVE  total_cash' \in Int /\ total_cash' >= total_cash
<1>1. q \in Nat /\ px \in Nat /\ FeeNum \in Nat /\ FeeDen \in Nat /\ FeeNum <= FeeDen
      /\ total_cash \in Int /\ pos[SymOf(c)] \in Nat
  BY LedgerAssumption, CidParts DEF Balanced, TypeOK
<1>2. q * px \in Nat
  BY <1>1
<1>3. (q * px) * FeeNum \in Nat /\ (q * px) * FeeDen \in Nat
      /\ (q * px) * FeeNum <= (q * px) * FeeDen
  BY <1>1, <1>2
<1>4. q <= pos[SymOf(c)] /\ fee <= q * px * FeeNum
  BY DEF ReportFill, Fillable, Calm
<1>5. Least(q, pos[SymOf(c)]) = q
  BY <1>1, <1>4 DEF Least
<1>6. total_cash' = total_cash + q * px * FeeDen - Fee(q, px, fee)
  BY <1>5 DEF ReportFill, FillSell
<1>7. Fee(q, px, fee) <= (q * px) * FeeNum /\ Fee(q, px, fee) \in Nat
  BY <1>1, <1>3, <1>4, CostNat DEF Fee
<1> QED  BY <1>1, <1>3, <1>6, <1>7

LEMMA SolventNext ==
    ASSUME Calm, Enforced, Balanced, NeverOverbooked, [Next]_vars
    PROVE  NeverOverbooked'
<1>1. reserved_cash \in Nat /\ total_cash \in Int /\ reserved_cash <= total_cash
  BY DEF Balanced, TypeOK, NeverOverbooked
<1>2. Undisturbed
  BY CalmUndisturbed
<1>3. CASE StartTrading
  BY <1>1, <1>3 DEF StartTrading, NeverOverbooked
<1>4. ASSUME NEW s \in Symbols, NEW q \in 1..MaxQty, Seed(s, q)  PROVE NeverOverbooked'
  BY <1>1, <1>4 DEF Seed, NeverOverbooked
<1>5. ASSUME NEW c \in Cids, NEW q \in 1..MaxQty, NEW px \in Prices, Adopt(c, q, px)
      PROVE  NeverOverbooked'
  <2> DEFINE reserved == IF IsBuy(c) THEN Cost(q, px) ELSE 0
  <2>1. reserved \in Nat
    BY TypeCost, LedgerAssumption
  <2>2. reserved <= Available /\ reserved_cash' = reserved_cash + reserved
        /\ total_cash' = total_cash
    BY <1>5 DEF Adopt, Calm
  <2> HIDE DEF reserved
  <2> QED  BY <1>1, <2>1, <2>2 DEF Available, NeverOverbooked
<1>6. ASSUME NEW c \in Cids, NEW q \in 1..MaxQty, NEW px \in Prices, ReserveBuy(c, q, px)
      PROVE  NeverOverbooked'
  <2>1. Cost(q, px) \in Nat
    BY TypeCost, LedgerAssumption
  <2>2. reserved_cash' \in {reserved_cash + Available, reserved_cash + Cost(q, px)}
        /\ (reserved_cash' # reserved_cash + Available => Cost(q, px) <= Available)
        /\ total_cash' = total_cash
    BY <1>1, <1>6, <2>1 DEF ReserveBuy, Available
  <2> QED  BY <1>1, <2>1, <2>2 DEF Available, NeverOverbooked
<1>7. ASSUME NEW c \in Cids, NEW q \in 1..MaxQty, NoteSell(c, q)  PROVE NeverOverbooked'
  BY <1>1, <1>7 DEF NoteSell, NeverOverbooked
<1>8. ASSUME NEW c \in Cids, Release(c) \/ ReportClosed(c)  PROVE NeverOverbooked'
  <2>1. pending[c].reserved \in Nat
    BY DEF Balanced, TypeOK
  <2>2. reserved_cash' = Monus(reserved_cash, pending[c].reserved) /\ total_cash' = total_cash
    BY <1>8 DEF Release, ReportClosed
  <2> QED  BY <1>1, <2>1, <2>2 DEF Monus, NeverOverbooked
<1>9. ASSUME NEW c \in Cids, NEW state \in {"ACCEPTED", "UNKNOWN"}, ReportState(c, state)
      PROVE  NeverOverbooked'
  BY <1>1, <1>9 DEF ReportState, NeverOverbooked
<1>10. ASSUME NEW c \in Cids, NEW q \in 1..working[c], NEW px \in Prices, NEW fee \in Fees,
              NEW filled \in BOOLEAN, ReportFill(c, q, px, fee, filled)
       PROVE  NeverOverbooked'
  <2> DEFINE consume == IF IsBuy(c) THEN Cost(q, px) ELSE 0
             rest    == pending[c].reserved - consume
  <2>1. /\ consume \in Nat /\ rest \in Nat /\ consume <= reserved_cash
        /\ reserved_cash' = reserved_cash - consume - (IF filled THEN rest ELSE 0)
    BY <1>2, <1>10, FillUnwinds
  <2>2. total_cash' \in Int /\ total_cash' >= total_cash - consume
    <3>1. CASE IsBuy(c)
      BY <1>1, <1>10, <2>1, <3>1, BuySpends
    <3>2. CASE ~IsBuy(c)
      BY <1>1, <1>10, <3>2, SellEarns
    <3> QED  BY <3>1, <3>2
  <2> HIDE DEF consume, rest
  <2> QED  BY <1>1, <2>1, <2>2 DEF NeverOverbooked
<1>11. CASE UNCHANGED vars
  BY <1>1, <1>11 DEF vars, NeverOverbooked
<1> QED  BY <1>3, <1>4, <1>5, <1>6, <1>7, <1>8, <1>9, <1>10, <1>11 DEF Next

(* With cash enforcement on and no disturbance, open buy orders never hold *)
(* more cash than the book has: three sleeves cannot each book the capital.*)
THEOREM NotOverbooked == Calm => (Spec => []NeverOverbooked)
<1> SUFFICES ASSUME Calm, Enforced  PROVE Spec => []NeverOverbooked
  <2>1. CASE ~Enforced
    <3>1. NeverOverbooked
      BY <2>1 DEF NeverOverbooked
    <3> QED  BY <3>1, PTL
  <2> QED  BY <2>1
<1>1. Init => Balanced /\ NeverOverbooked
  BY TypeInit, BalancedInit, LedgerAssumption DEF Balanced, Init, NeverOverbooked
<1>2. Balanced /\ NeverOverbooked /\ [Next]_vars => (Balanced /\ NeverOverbooked)'
  BY CalmUndisturbed, TypeNext, BalancedNext, SolventNext DEF Balanced
<1> QED  BY <1>1, <1>2, PTL DEF Spec
-----------------------------------------------------------------------------
(* The ledger implements the cash book. *)

SellsHoldNothing == \A c \in Cids : ~IsBuy(c) => pending[c].reserved = 0

LEMMA SellsInit == Init => SellsHoldNothing
BY DEF Init, SellsHoldNothing, NoOrder

LEMMA SellsNext ==
    ASSUME Calm, Balanced, SellsHoldNothing, [Next]_vars
    PROVE  SellsHoldNothing'
<1> USE DEF SellsHoldNothing
<1>1. Undisturbed /\ pending \in [Cids -> [state : OpenStates \cup {"NONE"}, reserved : Nat]]
  BY CalmUndisturbed DEF Balanced, TypeOK
<1>2. CASE StartTrading
  BY <1>2 DEF StartTrading
<1>3. ASSUME NEW s \in Symbols, NEW q \in 1..MaxQty, Seed(s, q)  PROVE SellsHoldNothing'
  BY <1>3 DEF Seed
<1>4. ASSUME NEW c \in Cids, NEW q \in 1..MaxQty, NEW px \in Prices,
             Adopt(c, q, px) \/ ReserveBuy(c, q, px)
      PROVE  SellsHoldNothing'
  BY <1>1, <1>4 DEF Adopt, ReserveBuy, Order
<1>5. ASSUME NEW c \in Cids, NEW q \in 1..MaxQty, NoteSell(c, q)  PROVE SellsHoldNothing'
  BY <1>1, <1>5 DEF NoteSell, Order
<1>6. ASSUME NEW c \in Cids, Release(c) \/ ReportClosed(c)  PROVE SellsHoldNothing'
  BY <1>1, <1>6 DEF Release, ReportClosed, NoOrder
<1>7. ASSUME NEW c \in Cids, NEW state \in {"ACCEPTED", "UNKNOWN"}, ReportState(c, state)
      PROVE  SellsHoldNothing'
  BY <1>1, <1>7 DEF ReportState
<1>8. ASSUME NEW c \in Cids, NEW q \in 1..working[c], NEW px \in Prices, NEW fee \in Fees,
             NEW filled \in BOOLEAN, ReportFill(c, q, px, fee, filled)
      PROVE  SellsHoldNothing'
  <2> DEFINE consume == IF IsBuy(c) THEN Cost(q, px) ELSE 0
             rest    == pending[c].reserved - consume
  <2>1. pending' = [pending EXCEPT ![c] = IF filled THEN NoOrder ELSE Order("PARTIAL", rest)]
    BY <1>1, <1>8, FillUnwinds
  <2>2. ~IsBuy(c) => rest = 0
    OBVIOUS
  <2> HIDE DEF rest
  <2> QED  BY <1>1, <2>1, <2>2 DEF NoOrder, Order
<1>9. CASE UNCHANGED vars
  BY <1>9 DEF vars
<1> QED  BY <1>2, <1>3, <1>4, <1>5, <1>6, <1>7, <1>8, <1>9 DEF Next

LEMMA BookInit == Init => Book!Init
BY DEF Init, Book!Init, Reservations, NoOrder

(* A new reservation of a positive amount within the available cash commits it. *)
LEMMA CommitsCash ==
    ASSUME Balanced, NEW c \in Cids, NEW amount \in Nat, amount >= 1, amount <= Available,
           pending[c] = NoOrder, pending' = [pending EXCEPT ![c] = Order("ACCEPTED", amount)],
           total_cash' = total_cash
    PROVE  Book!Commit(c)
<1>1. Order("ACCEPTED", amount) \in [state : OpenStates \cup {"NONE"}, reserved : Nat]
      /\ Order("ACCEPTED", amount).reserved = amount
  BY OrderType DEF OpenStates, Order
<1>2. Reservations' = [Reservations EXCEPT ![c] = amount]
  BY <1>1, ReservationUpdate
<1>3. Reservations[c] = 0 /\ Reservations \in [Cids -> Nat]
  BY ReservationsType DEF Reservations, NoOrder, Balanced
<1>4. Reservations' = [Reservations EXCEPT ![c] = Reservations[c] + amount]
  BY <1>2, <1>3
<1>5. Book!Held = reserved_cash
  BY DEF Balanced, ReservedMatchesPending, Reserved, Total, Units,
         Book!Held, Book!Total, Book!Units, Book!Cardinality, Cardinality
<1>6. amount \in 1..(total_cash - Book!Held)
  BY <1>5 DEF Available, Balanced, TypeOK
<1> QED  BY <1>4, <1>6 DEF Book!Commit

LEMMA BookNext ==
    ASSUME Calm, Enforced, Balanced, SellsHoldNothing, [Next]_vars
    PROVE  [Book!Next]_Book!bookVars
<1>1. /\ reserved_cash \in Nat /\ total_cash \in Int
      /\ pending \in [Cids -> [state : OpenStates \cup {"NONE"}, reserved : Nat]]
      /\ Reservations \in [Cids -> Nat]
  BY ReservationsType DEF Balanced, TypeOK
<1>2. UNCHANGED <<total_cash, Reservations>> => [Book!Next]_Book!bookVars
  BY DEF Book!bookVars
<1>3. (\E c \in Cids : Book!Commit(c) \/ Book!Settle(c)) \/ Book!Income
        => [Book!Next]_Book!bookVars
  BY DEF Book!Next
<1>4. CASE StartTrading
  BY <1>2, <1>4 DEF StartTrading, Reservations
<1>5. ASSUME NEW s \in Symbols, NEW q \in 1..MaxQty, Seed(s, q)
      PROVE  [Book!Next]_Book!bookVars
  BY <1>2, <1>5 DEF Seed, Reservations
<1>6. ASSUME NEW c \in Cids, NEW q \in 1..MaxQty, NEW px \in Prices, Adopt(c, q, px)
      PROVE  [Book!Next]_Book!bookVars
  <2>1. CASE IsBuy(c)
    <3>1. Cost(q, px) \in Nat /\ Cost(q, px) >= 1
      BY CostPositive
    <3>2. Cost(q, px) <= Available /\ pending[c] = NoOrder /\ total_cash' = total_cash
          /\ pending' = [pending EXCEPT ![c] = Order("ACCEPTED", Cost(q, px))]
      BY <1>6, <2>1 DEF Adopt, Calm
    <3>3. Book!Commit(c)
      BY <3>1, <3>2, CommitsCash
    <3> QED  BY <1>3, <3>3
  <2>2. CASE ~IsBuy(c)
    <3>1. pending[c] = NoOrder /\ total_cash' = total_cash
          /\ pending' = [pending EXCEPT ![c] = Order("ACCEPTED", 0)]
      BY <1>6, <2>2 DEF Adopt
    <3>2. \A d \in Cids : pending'[d].reserved = pending[d].reserved
      BY <1>1, <3>1 DEF Order, NoOrder
    <3> QED  BY <1>2, <3>1, <3>2 DEF Reservations
  <2> QED  BY <2>1, <2>2
<1>7. ASSUME NEW c \in Cids, NEW q \in 1..MaxQty, NEW px \in Prices, ReserveBuy(c, q, px)
      PROVE  [Book!Next]_Book!bookVars
  <2> DEFINE resized == Enforced /\ Cost(q, px) > Available
             granted == IF resized THEN Available ELSE Cost(q, px)
  <2>1. Cost(q, px) \in Nat /\ Cost(q, px) >= 1
    BY CostPositive
  <2>2. Available \in Int /\ Available > 0
    BY <1>1, <1>7 DEF ReserveBuy, Available
  <2>3. granted \in Nat /\ granted >= 1 /\ granted <= Available
    BY <2>1, <2>2
  <2>4. pending[c] = NoOrder /\ total_cash' = total_cash
        /\ pending' = [pending EXCEPT ![c] = Order("ACCEPTED", granted)]
    BY <1>7 DEF ReserveBuy, Submittable, Calm
  <2> HIDE DEF granted
  <2>5. Book!Commit(c)
    BY <2>3, <2>4, CommitsCash
  <2> QED  BY <1>3, <2>5
<1>8. ASSUME NEW c \in Cids, NEW q \in 1..MaxQty, NoteSell(c, q)
      PROVE  [Book!Next]_Book!bookVars
  <2>1. \A d \in Cids : pending'[d].reserved = pending[d].reserved
    BY <1>1, <1>8 DEF NoteSell, Submittable, Calm, Order, NoOrder
  <2> QED  BY <1>2, <1>8, <2>1 DEF NoteSell, Reservations
<1>9. ASSUME NEW c \in Cids, Release(c) \/ ReportClosed(c)
      PROVE  [Book!Next]_Book!bookVars
  <2>1. pending' = [pending EXCEPT ![c] = NoOrder] /\ total_cash' = total_cash
    BY <1>9 DEF Release, ReportClosed
  <2>2. Reservations' = [Reservations EXCEPT ![c] = 0]
    BY <2>1, NoOrderType, ReservationUpdate DEF NoOrder
  <2>3. Reservations[c] \in Nat
    BY <1>1
  <2>4. Book!Settle(c)
    <3>1. 0 \in 0..Reservations[c] /\ 0 \in 0..(Reservations[c] - 0)
      BY <2>3
    <3>2. total_cash' = total_cash - 0
      BY <1>1, <2>1
    <3> QED  BY <2>2, <3>1, <3>2 DEF Book!Settle
  <2> QED  BY <1>3, <2>4
<1>10. ASSUME NEW c \in Cids, NEW state \in {"ACCEPTED", "UNKNOWN"}, ReportState(c, state)
       PROVE  [Book!Next]_Book!bookVars
  <2>1. \A d \in Cids : pending'[d].reserved = pending[d].reserved
    BY <1>1, <1>10 DEF ReportState
  <2> QED  BY <1>2, <1>10, <2>1 DEF ReportState, Reservations
<1>11. ASSUME NEW c \in Cids, NEW q \in 1..working[c], NEW px \in Prices, NEW fee \in Fees,
              NEW filled \in BOOLEAN, ReportFill(c, q, px, fee, filled)
       PROVE  [Book!Next]_Book!bookVars
  <2> DEFINE consume == IF IsBuy(c) THEN Cost(q, px) ELSE 0
             rest    == pending[c].reserved - consume
             left    == IF filled THEN NoOrder ELSE Order("PARTIAL", rest)
             kept    == IF filled THEN 0 ELSE rest
  <2>1. /\ consume \in Nat /\ rest \in Nat /\ pending' = [pending EXCEPT ![c] = left]
    BY <1>11, CalmUndisturbed, FillUnwinds
  <2>2. Reservations' = [Reservations EXCEPT ![c] = kept] /\ kept \in Nat
    <3>1. left \in [state : OpenStates \cup {"NONE"}, reserved : Nat] /\ left.reserved = kept
      <4> HIDE DEF rest
      <4> QED  BY <2>1, NoOrderType, OrderType DEF OpenStates, Order, NoOrder
    <3> HIDE DEF left, kept
    <3>2. Reservations' = [Reservations EXCEPT ![c] = left.reserved]
      BY <2>1, <3>1, ReservationUpdate
    <3> QED  BY <2>1, <3>1, <3>2 DEF kept
  <2>3. Reservations[c] = pending[c].reserved /\ Reservations[c] \in Nat
    BY <1>1 DEF Reservations
  <2>4. CASE IsBuy(c)
    <3> DEFINE spent == total_cash - total_cash'
    <3>1. spent \in Nat /\ spent <= consume /\ total_cash' = total_cash - spent
      BY <1>1, <1>11, <2>1, <2>4, BuySpends
    <3>2. spent \in 0..Reservations[c] /\ kept \in 0..(Reservations[c] - spent)
      <4> HIDE DEF spent, consume
      <4> QED  BY <2>1, <2>2, <2>3, <3>1
    <3> HIDE DEF spent, kept
    <3>3. Book!Settle(c)
      BY <2>2, <3>1, <3>2 DEF Book!Settle
    <3> QED  BY <1>3, <3>3
  <2>5. CASE ~IsBuy(c)
    <3>1. kept = Reservations[c]
      BY <2>3, <2>5 DEF SellsHoldNothing
    <3> HIDE DEF kept
    <3>2. Reservations' = Reservations
      BY <1>1, <2>2, <3>1
    <3>3. total_cash' \in Int /\ total_cash' >= total_cash
      BY <1>11, <2>5, SellEarns
    <3> QED  BY <1>3, <3>2, <3>3 DEF Book!Income
  <2> QED  BY <2>4, <2>5
<1>12. CASE UNCHANGED vars
  BY <1>2, <1>12 DEF vars, Reservations
<1> QED  BY <1>4, <1>5, <1>6, <1>7, <1>8, <1>9, <1>10, <1>11, <1>12 DEF Next

(* With enforcement on and no disturbance every step of the ledger is a    *)
(* step of the cash book, or leaves it alone: reservations, fills, fees,   *)
(* resizes and releases never let two orders hold the same cash.           *)
THEOREM LedgerImplementsCashBook ==
    Calm /\ Enforced => (Spec => ImplementsCashBook)
<1> SUFFICES ASSUME Calm, Enforced  PROVE Spec => ImplementsCashBook
  OBVIOUS
<1>1. Init => Balanced /\ SellsHoldNothing /\ Book!Init
  BY TypeInit, BalancedInit, SellsInit, BookInit DEF Balanced
<1>2. Balanced /\ SellsHoldNothing /\ [Next]_vars => (Balanced /\ SellsHoldNothing)'
  BY CalmUndisturbed, TypeNext, BalancedNext, SellsNext DEF Balanced
<1>3. Balanced /\ SellsHoldNothing /\ [Next]_vars => [Book!Next]_Book!bookVars
  BY BookNext
<1> QED  BY <1>1, <1>2, <1>3, PTL DEF Spec, ImplementsCashBook, Book!Spec

-----------------------------------------------------------------------------
(* Every confirmed coin has an owner, in every environment, and as long as *)
(* no sale took another sleeve's coins the owners' shares are exact: a sale *)
(* lowers its sleeve's share first, the pre-boot holding next, and only    *)
(* what neither covers leaves the position without leaving a share.        *)
Shares(s) == [x \in Sources |-> attrib[<<x, s>>]]
Owned(s) == seeded[s] + Total(Shares(s), Sources)

Covers(s) == pos[s] <= Owned(s) /\ (s \notin overdrawn => pos[s] = Owned(s))

AttributionInv ==
    /\ booting => \A k \in Keys : attrib[k] = 0
    /\ \A s \in Symbols : Covers(s)

(* Changing one attribution changes the sum of its symbol alone. *)
LEMMA ShareChanges ==
    ASSUME TypeOK, NEW k \in Keys, NEW v \in Nat, attrib' = [attrib EXCEPT ![k] = v]
    PROVE  /\ Total(Shares(k[2]), Sources) \in Nat
           /\ attrib[k] <= Total(Shares(k[2]), Sources)
           /\ Total(Shares(k[2])', Sources) = Total(Shares(k[2]), Sources) - attrib[k] + v
           /\ \A s \in Symbols \ {k[2]} : Shares(s)' = Shares(s)
<1> DEFINE x == k[1]
           s == k[2]
           f == Shares(s)
<1>1. k = <<x, s>> /\ x \in Sources /\ s \in Symbols
  BY DEF Keys
<1>2. f \in [Sources -> Nat] /\ f[x] = attrib[k]
  BY <1>1 DEF TypeOK, Keys, Shares
<1>3. Shares(s)' = [f EXCEPT ![x] = v]
  <2>1. ASSUME NEW y \in Sources
        PROVE  attrib'[<<y, s>>] = IF y = x THEN v ELSE attrib[<<y, s>>]
    <3>1. <<y, s>> \in Keys /\ (<<y, s>> = k <=> y = x)
      BY <1>1 DEF Keys
    <3> QED  BY <3>1 DEF TypeOK
  <2>2. Shares(s)' = [y \in Sources |-> IF y = x THEN v ELSE attrib[<<y, s>>]]
    BY <2>1 DEF Shares
  <2>3. [f EXCEPT ![x] = v] = [y \in Sources |-> IF y = x THEN v ELSE attrib[<<y, s>>]]
    BY DEF Shares
  <2> QED  BY <2>2, <2>3
<1>4. \A t \in Symbols \ {s} : Shares(t)' = Shares(t)
  BY <1>1 DEF TypeOK, Keys, Shares
<1> HIDE DEF f
<1>5. Total(f, Sources) \in Nat /\ f[x] <= Total(f, Sources)
  BY <1>1, <1>2, LedgerAssumption, TotalBounds
<1>6. /\ Total([f EXCEPT ![x] = v], Sources) \in Nat
      /\ Total([f EXCEPT ![x] = v], Sources) + f[x] = Total(f, Sources) + v
  <2>1. IsFiniteSet(Sources) /\ x \in Sources
    BY <1>1, LedgerAssumption
  <2> QED  BY ONLY <2>1, <1>2, v \in Nat, TotalUpdate
<1>7. attrib[k] \in Nat
  BY DEF TypeOK
<1>8. Total([f EXCEPT ![x] = v], Sources) = Total(f, Sources) - attrib[k] + v
  BY <1>2, <1>5, <1>6, <1>7
<1> QED  BY <1>2, <1>3, <1>4, <1>5, <1>8 DEF f

(* A sleeve without attributions has no share of any symbol.               *)
LEMMA NoShares ==
    ASSUME \A k \in Keys : attrib[k] = 0, NEW s \in Symbols
    PROVE  Total(Shares(s), Sources) = 0
<1>1. Shares(s) \in [Sources -> Nat] /\ \A x \in Sources : Shares(s)[x] = 0
  BY DEF Shares, Keys
<1> QED  BY <1>1, LedgerAssumption, TotalBounds

LEMMA CoversKept ==
    ASSUME UNCHANGED <<pos, attrib, seeded, overdrawn>>, NEW s \in Symbols, Covers(s)
    PROVE  Covers(s)'
BY DEF Covers, Owned, Shares

LEMMA AttributionInit == Init => AttributionInv
<1> SUFFICES ASSUME Init  PROVE AttributionInv
  OBVIOUS
<1>1. \A k \in Keys : attrib[k] = 0
  BY DEF Init
<1>2. ASSUME NEW s \in Symbols  PROVE Covers(s)
  BY <1>1, NoShares DEF Init, Covers, Owned
<1> QED  BY <1>1, <1>2 DEF AttributionInv

(* An executed BUY raises position and attribution alike.                  *)
LEMMA AttributionBuy ==
    ASSUME TypeOK, AttributionInv, NEW c \in Cids, NEW q \in 1..working[c],
           NEW px \in Prices, NEW fee \in Fees, FillBuy(c, q, px, fee), NEW s \in Symbols
    PROVE  Covers(s)'
<1> DEFINE k == KeyOf(c)
<1>1. k \in Keys /\ k[2] = SymOf(c) /\ attrib[k] \in Nat /\ q \in Nat
  BY CidParts DEF Cids, Keys, KeyOf, SymOf, TypeOK
<1>2. /\ attrib' = [attrib EXCEPT ![k] = attrib[k] + q]
      /\ pos' = [pos EXCEPT ![SymOf(c)] = @ + q]
      /\ seeded' = seeded /\ overdrawn' = overdrawn
  BY DEF FillBuy
<1>3. Covers(s) /\ pos[s] \in Nat /\ seeded[s] \in Nat
  BY DEF AttributionInv, TypeOK
<1>4. attrib[k] + q \in Nat
  BY <1>1
<1>5. /\ Total(Shares(k[2]), Sources) \in Nat
      /\ Total(Shares(k[2])', Sources) = Total(Shares(k[2]), Sources) - attrib[k] + (attrib[k] + q)
      /\ \A t \in Symbols \ {k[2]} : Shares(t)' = Shares(t)
  BY <1>1, <1>2, <1>4, ShareChanges
<1>6. CASE s = SymOf(c)
  <2>1. pos'[s] = pos[s] + q
    BY <1>2, <1>6 DEF TypeOK
  <2>2. Total(Shares(s)', Sources) = Total(Shares(s), Sources) + q
    BY <1>1, <1>5, <1>6
  <2>3. Owned(s) \in Nat /\ Owned(s)' = Owned(s) + q
    BY <1>1, <1>2, <1>3, <1>5, <1>6, <2>2 DEF Owned
  <2> QED  BY <1>1, <1>2, <1>3, <2>1, <2>3 DEF Covers
<1>7. CASE s # SymOf(c)
  <2>1. pos'[s] = pos[s] /\ Owned(s)' = Owned(s)
    BY <1>1, <1>2, <1>5, <1>7 DEF Owned, TypeOK
  <2> QED  BY <1>2, <1>3, <2>1 DEF Covers
<1> QED  BY <1>6, <1>7

(* What a sale of n takes from a share a and a rest s, and when it is all. *)
LEMMA SaleTakes ==
    ASSUME NEW n \in Nat, NEW a \in Nat, NEW s \in Nat
    PROVE  /\ Monus(a, n) \in Nat /\ Monus(s, Monus(n, a)) \in Nat
           /\ a + s <= n + Monus(a, n) + Monus(s, Monus(n, a))
           /\ ~(Monus(n, a) > s) => a + s = n + Monus(a, n) + Monus(s, Monus(n, a))
<1>1. CASE n <= a
  BY <1>1 DEF Monus
<1>2. CASE n > a /\ n - a <= s
  BY <1>2 DEF Monus
<1>3. CASE n > a /\ n - a > s
  BY <1>3 DEF Monus
<1> QED  BY <1>1, <1>2, <1>3

(* An executed SELL takes from its sleeve's share, then from the pre-boot  *)
(* holding, and for the rest from other sleeves' coins.                    *)
LEMMA AttributionSell ==
    ASSUME TypeOK, AttributionInv, NEW c \in Cids, NEW q \in 1..working[c],
           NEW px \in Prices, NEW fee \in Fees, FillSell(c, q, px, fee), NEW s \in Symbols
    PROVE  Covers(s)'
<1> DEFINE k == KeyOf(c)
           own == attrib[k]
           sell == Least(q, pos[SymOf(c)])
           rest == Monus(own, sell)
<1>1. /\ k \in Keys /\ k[2] = SymOf(c) /\ own \in Nat /\ q \in Nat
      /\ SymOf(c) \in Symbols /\ pos[SymOf(c)] \in Nat /\ seeded[SymOf(c)] \in Nat
  BY CidParts DEF Cids, Keys, KeyOf, SymOf, TypeOK
<1>2. sell \in Nat /\ sell <= pos[SymOf(c)]
  BY <1>1 DEF Least
<1>3. /\ attrib' = [attrib EXCEPT ![k] = rest]
      /\ pos' = [pos EXCEPT ![SymOf(c)] = @ - sell]
      /\ seeded' = [seeded EXCEPT ![SymOf(c)] = Monus(@, Monus(sell, own))]
      /\ overdrawn' = overdrawn \cup {t \in {SymOf(c)} : Monus(sell, own) > seeded[SymOf(c)]}
  BY DEF FillSell, Overdrawn, Overdraws
<1>4. Covers(s) /\ pos[s] \in Nat /\ seeded[s] \in Nat
  BY DEF AttributionInv, TypeOK
<1> HIDE DEF sell, own, rest
<1>5. rest \in Nat /\ attrib[k] = own
  <2>1. rest = Monus(own, sell) /\ attrib[k] = own
    BY DEF rest, own
  <2> QED  BY <1>1, <1>2, <2>1, MonusNat
<1>6. /\ Total(Shares(k[2]), Sources) \in Nat
      /\ own <= Total(Shares(k[2]), Sources)
      /\ Total(Shares(k[2])', Sources) = Total(Shares(k[2]), Sources) - own + rest
      /\ \A t \in Symbols \ {k[2]} : Shares(t)' = Shares(t)
  BY <1>1, <1>3, <1>5, ShareChanges
<1>7. CASE s = SymOf(c)
  <2> DEFINE left == Monus(seeded[s], Monus(sell, own))
             sum == Total(Shares(s), Sources)
  <2>1. pos'[s] = pos[s] - sell /\ seeded'[s] = left
    BY <1>1, <1>3, <1>7 DEF TypeOK
  <2>2. sum \in Nat /\ own <= sum /\ Total(Shares(s)', Sources) = sum - own + rest
    BY <1>1, <1>6, <1>7
  <2>3. /\ left \in Nat /\ own + seeded[s] <= sell + rest + left
        /\ ~(Monus(sell, own) > seeded[s]) => own + seeded[s] = sell + rest + left
    BY <1>1, <1>2, <1>4, SaleTakes DEF rest
  <2>4. Owned(s) = seeded[s] + sum /\ Owned(s)' = left + (sum - own + rest)
    BY <2>1, <2>2 DEF Owned
  <2> HIDE DEF left, sum
  <2>5. pos'[s] <= Owned(s)'
    <3>1. pos[s] <= seeded[s] + sum
      BY <1>4, <2>4 DEF Covers
    <3> QED  BY <1>1, <1>2, <1>4, <1>5, <2>1, <2>2, <2>3, <2>4, <3>1
  <2>6. ASSUME s \notin overdrawn'  PROVE pos'[s] = Owned(s)'
    <3>1. s \notin overdrawn /\ ~(Monus(sell, own) > seeded[s])
      BY <1>3, <1>7, <2>6
    <3>2. pos[s] = seeded[s] + sum /\ own + seeded[s] = sell + rest + left
      BY <1>4, <2>3, <2>4, <3>1 DEF Covers
    <3>3. left \in Nat
      BY <2>3
    <3> QED  BY <1>1, <1>2, <1>4, <1>5, <2>1, <2>2, <2>4, <3>2, <3>3
  <2> QED  BY <2>5, <2>6 DEF Covers
<1>8. CASE s # SymOf(c)
  <2>1. pos'[s] = pos[s] /\ Owned(s)' = Owned(s) /\ (s \notin overdrawn' => s \notin overdrawn)
    BY <1>1, <1>3, <1>6, <1>8 DEF Owned, TypeOK
  <2> QED  BY <1>4, <2>1 DEF Covers
<1> QED  BY <1>7, <1>8

(* Only the boot sets a position, before any sleeve has bought.            *)
LEMMA AttributionSeed ==
    ASSUME TypeOK, AttributionInv, NEW t \in Symbols, NEW q \in 1..MaxQty, Seed(t, q),
           NEW s \in Symbols
    PROVE  Covers(s)'
<1>1. /\ q \in Nat /\ \A k \in Keys : attrib[k] = 0
      /\ UNCHANGED <<attrib, overdrawn>>
      /\ pos' = [pos EXCEPT ![t] = q] /\ seeded' = [seeded EXCEPT ![t] = q]
  BY LedgerAssumption DEF Seed, AttributionInv
<1>2. Covers(s) /\ pos \in [Symbols -> Nat] /\ seeded \in [Symbols -> Nat]
  BY DEF AttributionInv, TypeOK
<1>3. Total(Shares(s), Sources) = 0 /\ Shares(s)' = Shares(s)
  BY <1>1, NoShares DEF Shares
<1>4. CASE s = t
  <2>1. pos'[s] = q /\ Owned(s)' = q
    BY <1>1, <1>2, <1>3, <1>4 DEF Owned
  <2> QED  BY <1>1, <2>1 DEF Covers
<1>5. CASE s # t
  <2>1. pos'[s] = pos[s] /\ Owned(s)' = Owned(s)
    BY <1>1, <1>2, <1>3, <1>5 DEF Owned
  <2> QED  BY <1>1, <1>2, <2>1 DEF Covers
<1> QED  BY <1>4, <1>5

LEMMA AttributionNext ==
    ASSUME TypeOK, AttributionInv, [Next]_vars
    PROVE  AttributionInv'
<1> DEFINE Sums == \A s \in Symbols : Covers(s)'
<1>1. (booting => \A k \in Keys : attrib[k] = 0)'
  <2>1. (attrib' = attrib /\ (booting' => booting)) \/ ~booting'
    <3>1. ASSUME NEW c \in Cids, NEW q \in 1..working[c], NEW px \in Prices, NEW fee \in Fees,
                 NEW filled \in BOOLEAN, ReportFill(c, q, px, fee, filled)
          PROVE  ~booting'
      BY <3>1 DEF ReportFill, Fillable
    <3>2. CASE UNCHANGED vars
      BY <3>2 DEF vars
    <3>3. CASE Next
      BY <3>1, <3>3 DEF Next, StartTrading, Seed, Adopt, ReserveBuy, NoteSell, Release,
                        ReportClosed, ReportState
    <3> QED  BY <3>2, <3>3
  <2> QED  BY <2>1 DEF AttributionInv
<1>2. ASSUME UNCHANGED <<pos, attrib, seeded, overdrawn>>  PROVE Sums
  BY <1>2, CoversKept DEF AttributionInv
<1>3. ASSUME StartTrading \/ UNCHANGED vars  PROVE Sums
  BY <1>2, <1>3 DEF StartTrading, vars
<1>4. ASSUME NEW s \in Symbols, NEW q \in 1..MaxQty, Seed(s, q)  PROVE Sums
  BY <1>4, AttributionSeed
<1>5. ASSUME NEW c \in Cids, NEW q \in 1..MaxQty, NEW px \in Prices,
             Adopt(c, q, px) \/ ReserveBuy(c, q, px)
      PROVE  Sums
  BY <1>2, <1>5 DEF Adopt, ReserveBuy
<1>6. ASSUME NEW c \in Cids, NEW q \in 1..MaxQty, NoteSell(c, q)  PROVE Sums
  BY <1>2, <1>6 DEF NoteSell
<1>7. ASSUME NEW c \in Cids, NEW state \in {"ACCEPTED", "UNKNOWN"}, ReportState(c, state)
      PROVE  Sums
  BY <1>2, <1>7 DEF ReportState
<1>8. ASSUME NEW c \in Cids, Release(c) \/ ReportClosed(c)  PROVE Sums
  BY <1>2, <1>8 DEF Release, ReportClosed
<1>9. ASSUME NEW c \in Cids, NEW q \in 1..working[c], NEW px \in Prices, NEW fee \in Fees,
             NEW filled \in BOOLEAN, ReportFill(c, q, px, fee, filled)
      PROVE  Sums
  BY <1>9, AttributionBuy, AttributionSell DEF ReportFill
<1>10. Sums
  BY <1>3, <1>4, <1>5, <1>6, <1>7, <1>8, <1>9 DEF Next
<1> QED  BY <1>1, <1>10 DEF AttributionInv

(* No confirmed coin is without an owner, and the owners' shares are exact *)
(* until a sale overdraws its sleeve's, in any environment the model has:  *)
(* sales of any size, slippage, late fills, shared client ids, oversold    *)
(* reports and rich adoptions included (ExchangeLedger.hpp:177-199).       *)
THEOREM SharesAddUp == Spec => []AttributionExact
<1>1. AttributionInv => AttributionExact
  BY DEF AttributionInv, AttributionExact, Covers, Owned, Shares
<1>2. TypeOK /\ AttributionInv /\ [Next]_vars => TypeOK' /\ AttributionInv'
  BY TypeNext, AttributionNext
<1>3. Init => TypeOK /\ AttributionInv
  BY TypeInit, AttributionInit
<1> QED  BY <1>1, <1>2, <1>3, PTL DEF Spec
=============================================================================

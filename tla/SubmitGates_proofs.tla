------------------------- MODULE SubmitGates_proofs -------------------------
(***************************************************************************)
(* What TLAPS proves of SubmitGates for every value of its constants:      *)
(* well-formedness, the size of an order that leaves, what leaves after a  *)
(* halt, and that the pilot's sum keeps the money put at stake within its  *)
(* ceiling as long as it has missed nothing.                               *)
(***************************************************************************)
EXTENDS SubmitGates, Totals_proofs, TLAPS

-----------------------------------------------------------------------------
(* Arithmetic. *)

LEMMA ProductNat == ASSUME NEW a \in Nat, NEW b \in Nat PROVE a * b \in Nat
  BY SMT

LEMMA ProductGrows == ASSUME NEW a \in Nat, NEW b \in Nat, NEW c \in Nat, c <= a PROVE c * b <= a * b
  BY SMTT(30)

LEMMA GrainsFit ==
    ASSUME NEW usd \in Nat, NEW price \in Nat \ {0}
    PROVE  Grains(usd, price) \in Nat /\ Grains(usd, price) * price <= usd
  BY SMTT(30) DEF Grains

LEMMA Stepped ==
    ASSUME Bounds, NEW q \in Nat
    PROVE  ToStep(q) \in Nat /\ OnStep(ToStep(q))
<1>1. LotStep \in Nat \ {0}
  BY DEF Bounds
<1>2. q \div LotStep \in Nat
  BY <1>1, SMTT(30)
<1>3. (q \div LotStep) * LotStep \in Nat
  BY <1>1, <1>2, ProductNat
<1>4. ((q \div LotStep) * LotStep) % LotStep = 0
  BY <1>1, SMTT(30)
<1> QED BY <1>3, <1>4 DEF ToStep, OnStep

(* Gate 4 hands on a natural quantity, on its step unless none is known.   *)
LEMMA NormalizedFits ==
    ASSUME Bounds, NEW s, NEW q \in Nat
    PROVE  /\ Normalized(s, q) \in Nat
           /\ s \in Filtered \cup Fallback => OnStep(Normalized(s, q))
  BY Stepped DEF Normalized

(* Gates 4a and 4b bring the order under both ceilings.                    *)
LEMMA CappedFits ==
    ASSUME Bounds, NEW q \in Nat, NEW ref \in Nat \ {0}
    PROVE  /\ Capped(q, ref) \in Nat
           /\ Capped(q, ref) * ref <= Lesser(HardMax, PilotMax)
<1> DEFINE most == Lesser(HardMax, PilotMax)
<1>1. most \in Nat
  BY DEF Bounds, Lesser
<1>2. Grains(most, ref) \in Nat /\ Grains(most, ref) * ref <= most
  BY <1>1, GrainsFit
<1>3. q * ref \in Nat
  BY ProductNat
<1>4. CASE q * ref > most
  BY <1>2, <1>4 DEF Capped
<1>5. CASE ~(q * ref > most)
  BY <1>1, <1>3, <1>5, SMT DEF Capped
<1> QED BY <1>4, <1>5

-----------------------------------------------------------------------------
(* Well-formedness. *)

LEMMA InitTyped ==
    ASSUME Bounds, Init PROVE TypeOK
<1>1. NoOrder \in Orders
  BY DEF NoOrder, Orders
<1>2. Foreign \in Nat /\ 0 \in 0..Quarantine
  BY DEF Bounds
<1>3. order \in [Threads -> Orders] /\ pc = [t \in Threads |-> "idle"]
  BY <1>1 DEF Init
<1>4. held \in [Symbols -> Nat]
  BY <1>2 DEF Init
<1>5. /\ gross \in Nat /\ rejects \in [Symbols -> 0..Quarantine]
      /\ drift \in BOOLEAN /\ halt \in BOOLEAN
      /\ px \in [Symbols -> Prices] /\ after \in [Threads -> Nat]
  BY <1>2 DEF Init
<1>6. told \in BOOLEAN /\ spent \in Int
  BY DEF Init
<1> QED BY <1>3, <1>4, <1>5, <1>6 DEF TypeOK

LEMMA PayTyped ==
    ASSUME TypeOK, NEW usd \in Int, NEW heard, Pay(usd, heard)
    PROVE  /\ told' \in BOOLEAN /\ spent' \in Int
           /\ told' => told /\ heard /\ spent' = spent + usd
<1>1. spent + usd \in Int
  BY DEF TypeOK
<1>2. CASE told /\ heard
  <2>1. told' /\ spent' = spent + usd
    BY <1>2 DEF Pay
  <2> QED BY <1>1, <1>2, <2>1 DEF Pay
<1>3. CASE ~(told /\ heard)
  <2>1. ~told' /\ spent' = 0
    BY <1>3 DEF Pay
  <2> QED BY <2>1 DEF Pay
<1> QED BY <1>2, <1>3

(* Coins are worth a natural number of dollars. *)
LEMMA DollarsNat ==
    ASSUME Bounds, TypeOK, NEW s \in Symbols, NEW k \in Nat
    PROVE  Dollars(s, k) \in Nat /\ k * px[s] \in Nat
<1>1. px[s] \in Nat
  BY DEF TypeOK, Bounds
<1> QED BY <1>1, ProductNat DEF Dollars

LEMMA CostInt ==
    ASSUME Bounds, TypeOK, NEW o \in Orders, o.sym \in Symbols, NEW k \in Nat
    PROVE  Cost(o, k) \in Int /\ Counted(o, k) \in Nat
<1>1. o.qty * o.ref \in Nat
  BY ProductNat DEF Orders
<1> QED BY <1>1, DollarsNat DEF Cost, Counted

LEMMA NextTyped ==
    ASSUME Bounds, TypeOK, [Next]_vars PROVE TypeOK'
<1> USE DEF TypeOK, market, watch
<1>n. NoOrder \in Orders
  BY DEF NoOrder, Orders
<1>1. ASSUME NEW t \in Threads, NEW s \in Symbols, NEW ask \in {"ENTRY", "EXIT"},
             NEW q \in Asked, NEW ref \in Prices, Size(t, s, ask, q, ref)
      PROVE  TypeOK'
  <2>1. q \in Nat /\ ref \in Nat \ {0}
    BY DEF Bounds
  <2>2. Normalized(s, q) \in Nat
    BY <2>1, NormalizedFits
  <2>3. Capped(Normalized(s, q), ref) \in Nat
    BY <2>1, <2>2, CappedFits
  <2> DEFINE size == IF ask = "ENTRY" THEN Capped(Normalized(s, q), ref) ELSE Normalized(s, q)
             new == [NoOrder EXCEPT !.sym = s, !.ask = ask, !.qty = size, !.ref = ref,
                                    !.cut = (size # Normalized(s, q))]
  <2>4. size \in Nat
    BY <2>2, <2>3
  <2> HIDE DEF size
  <2>5. new \in Orders /\ new.sym = s
    BY <2>1, <2>4 DEF NoOrder, Orders
  <2>6. order' = [order EXCEPT ![t] = new] /\ pc' = [pc EXCEPT ![t] = "sized"]
    BY <1>1 DEF Size, size, Goto
  <2> HIDE DEF new
  <2>7. UNCHANGED <<gross, rejects, drift, halt, px, held, after>>
    BY <1>1 DEF Size
  <2>8. told' \in BOOLEAN /\ spent' \in Int
    BY <1>1 DEF Size, Pay
  <2> QED BY <2>5, <2>6, <2>7, <2>8
<1>2. ASSUME NEW t \in Threads, KillSwitch(t) PROVE TypeOK'
  BY <1>2, <1>n DEF KillSwitch, Drop, Goto
<1>3. ASSUME NEW t \in Threads, Reserve(t) PROVE TypeOK'
  <2>1. PICK q \in 1..order[t].qty :
            order' = [order EXCEPT ![t].qty = q, ![t].cut = @ \/ q < order[t].qty]
    BY <1>3 DEF Reserve
  <2>2. order[t] \in Orders /\ order[t].sym \in Symbols /\ order[t].qty \in Nat
    BY <1>3 DEF Reserve, Orders
  <2>3. q \in Nat
    BY <2>2, SMT
  <2>4. order'[t] = [order[t] EXCEPT !.qty = q, !.cut = @ \/ q < order[t].qty]
    BY <2>1
  <2>5. order'[t] \in Orders /\ order'[t].sym = order[t].sym
    BY <2>2, <2>3, <2>4 DEF Orders
  <2>6. order' \in [Threads -> Orders] /\ \A u \in Threads \ {t} : order'[u] = order[u]
    BY <2>1, <2>5
  <2>7. pc' = [pc EXCEPT ![t] = "reserved"] /\ UNCHANGED <<gross, rejects, drift, halt, px, held, after, told, spent>>
    BY <1>3 DEF Reserve, Goto
  <2> QED BY <2>2, <2>5, <2>6, <2>7
<1>4. ASSUME NEW t \in Threads, TurnAway(t) PROVE TypeOK'
  BY <1>4, <1>n DEF TurnAway, Drop, Goto
<1>a. ASSUME NEW t \in Threads, Leave(t)
      PROVE  after' \in [Threads -> Nat] /\ pc[t] # "idle" /\ order[t] \in Orders
             /\ order[t].sym \in Symbols /\ order[t].qty \in Nat
  BY <1>a DEF Leave, Orders
<1>b. ASSUME NEW t \in Threads, Leave(t), NEW k \in 0..order[t].qty, Accepted(t),
             Moved(t, order[t].sym, k)
      PROVE  held' \in [Symbols -> Nat]
  <2> DEFINE s == order[t].sym
  <2>1. s \in Symbols /\ k \in Nat /\ order[t].qty \in Nat /\ k <= order[t].qty /\ held[s] \in Nat
    BY <1>a, <1>b
  <2>2. order[t].ask # "ENTRY" => order[t].ask = "EXIT"
    BY <1>a, <1>b DEF Orders
  <2>3. order[t].ask = "EXIT" => order[t].qty <= held[s]
    BY <1>b DEF Accepted
  <2>4. (IF order[t].ask = "ENTRY" THEN held[s] + k ELSE held[s] - k) \in Nat
    BY <2>1, <2>2, <2>3
  <2> QED BY <1>b, <2>1, <2>4 DEF Moved
<1>5. ASSUME NEW t \in Threads, NEW k \in 0..order[t].qty, Executed(t, k) PROVE TypeOK'
  <2>1. held' \in [Symbols -> Nat] /\ after' \in [Threads -> Nat]
    BY <1>5, <1>a, <1>b DEF Executed
  <2>0. order[t] \in Orders /\ order[t].sym \in Symbols /\ order[t].qty \in Nat
    BY <1>5, <1>a DEF Executed
  <2>2. k \in Nat
    BY <2>0
  <2>7. Cost(order[t], k) \in Int /\ Counted(order[t], k) \in Nat
    BY <2>0, <2>2, CostInt
  <2>3. order' = [order EXCEPT ![t].usd = Counted(order[t], k)] /\ pc' = [pc EXCEPT ![t] = "answered"]
    BY <1>5 DEF Executed, Goto
  <2>4. order'[t] \in Orders /\ order'[t].sym = order[t].sym
    BY <2>0, <2>3, <2>7 DEF Orders
  <2>5. order' \in [Threads -> Orders] /\ \A u \in Threads \ {t} : order'[u] = order[u]
    BY <2>3, <2>4
  <2>6. UNCHANGED <<gross, rejects, drift, halt, px>>
    BY <1>5 DEF Executed
  <2>8. told' \in BOOLEAN /\ spent' \in Int
    BY <1>5, <2>7, PayTyped DEF Executed
  <2> QED BY <2>0, <2>1, <2>3, <2>4, <2>5, <2>6, <2>8
<1>6. ASSUME NEW t \in Threads, LotRefused(t) PROVE TypeOK'
  <2>1. order[t].sym \in Symbols /\ after' \in [Threads -> Nat]
    BY <1>6, <1>a DEF LotRefused
  <2>2. Lesser(rejects[order[t].sym] + 1, Quarantine) \in 0..Quarantine
    BY <2>1 DEF Bounds, Lesser
  <2>3. rejects' \in [Symbols -> 0..Quarantine]
    BY <1>6, <2>1, <2>2 DEF LotRefused
  <2> QED BY <1>6, <1>n, <2>1, <2>3 DEF LotRefused, Drop, Goto
<1>7. ASSUME NEW t \in Threads, Failed(t) PROVE TypeOK'
  <2>1. held' \in [Symbols -> Nat] /\ after' \in [Threads -> Nat]
    <3>1. order[t].qty \in 0..order[t].qty
      BY <1>7, <1>a DEF Failed
    <3> QED BY <1>7, <1>a, <1>b, <3>1 DEF Failed
  <2>2. told' \in BOOLEAN /\ spent' \in Int
    <3>1. Cost(order[t], order[t].qty) \in Int
      BY <1>7, <1>a, CostInt DEF Failed
    <3> QED BY <1>7, <3>1, PayTyped DEF Failed
  <2> QED BY <1>7, <1>n, <2>1, <2>2 DEF Failed, Drop, Goto
<1>8. ASSUME NEW t \in Threads, ReadGross(t) PROVE TypeOK'
  <2>1. order' = [order EXCEPT ![t].seen = gross] /\ order[t] \in Orders /\ order[t].sym \in Symbols
    BY <1>8 DEF ReadGross
  <2>2. order'[t] \in Orders /\ order'[t].sym = order[t].sym
    BY <2>1 DEF Orders
  <2>3. order' \in [Threads -> Orders] /\ \A u \in Threads \ {t} : order'[u] = order[u]
    BY <2>1, <2>2
  <2>4. told' \in BOOLEAN /\ spent' \in Int
    BY <1>8 DEF ReadGross, Pay
  <2> QED BY <1>8, <2>1, <2>2, <2>3, <2>4 DEF ReadGross, Goto
<1>9. ASSUME NEW t \in Threads, WriteGross(t) PROVE TypeOK'
  <2> DEFINE o == order[t]
  <2>1. o \in Orders
    BY <1>9 DEF WriteGross
  <2>2. o.seen \in Nat /\ o.usd \in Nat
    BY <2>1 DEF Orders
  <2>4. gross' = IF o.ask = "ENTRY" THEN o.seen + o.usd
                 ELSE IF o.usd >= o.seen THEN 0 ELSE o.seen - o.usd
    BY <1>9 DEF WriteGross
  <2> HIDE DEF o
  <2>5. gross' \in Nat
    BY <2>2, <2>4
  <2> QED BY <1>9, <1>n, <2>5 DEF WriteGross, Drop, Goto
<1>10. CASE Halt
  BY <1>10 DEF Halt
<1>11. CASE PriceMoves
  BY <1>11 DEF PriceMoves
<1>12. CASE SoldElsewhere
  <2>1. PICK s \in Symbols : /\ held' = [held EXCEPT ![s] = @ % LotStep]
                             /\ Pay(-Dollars(s, ToStep(held[s])), TRUE)
    BY <1>12 DEF SoldElsewhere
  <2>2. held[s] % LotStep \in Nat
    BY <2>1 DEF Bounds
  <2>3. -Dollars(s, ToStep(held[s])) \in Int
    BY Stepped, DollarsNat
  <2>4. told' \in BOOLEAN /\ spent' \in Int
    BY <2>1, <2>3, PayTyped
  <2> QED BY <1>12, <2>1, <2>2, <2>4 DEF SoldElsewhere
<1>13. CASE Restart
  <2>1. 0 \in 0..Quarantine
    BY DEF Bounds
  <2>2. told' \in BOOLEAN /\ spent' \in Int
    BY <1>13 DEF Restart, Pay
  <2> QED BY <1>13, <1>n, <2>1, <2>2 DEF Restart
<1>14. CASE UNCHANGED vars
  BY <1>14 DEF vars
<1> QED
  BY <1>1, <1>2, <1>3, <1>4, <1>5, <1>6, <1>7, <1>8, <1>9, <1>10, <1>11, <1>12, <1>13, <1>14
  DEF Next, Submit

(* Whatever the threads, the exchange and restarts do, the pilot's sum and *)
(* the account never fall below zero (ExecutionGateway.hpp:511-518).       *)
THEOREM TypeCorrect == Spec => []TypeOK
<1>1. Init => TypeOK
  BY InitTyped, GatesAssumption
<1>2. TypeOK /\ [Next]_vars => TypeOK'
  BY NextTyped, GatesAssumption
<1> QED BY <1>1, <1>2, PTL DEF Spec

-----------------------------------------------------------------------------
(* What leaves after a halt.                                               *)

(* A thread beyond the kill switch with an entry has sent none since the   *)
(* halt began, for no entry passes the switch during a halt.               *)
HaltInv ==
    \A t \in Threads :
        /\ ~halt => after[t] = 0
        /\ after[t] \in {0, 1}
        /\ pc[t] \in {"cleared", "reserved"} /\ order[t].ask = "ENTRY" => after[t] = 0

LEMMA NextHalts ==
    ASSUME TypeOK, HaltInv, [Next]_vars PROVE HaltInv'
<1> USE DEF HaltInv, market, watch
<1>t. /\ pc \in [Threads -> {"idle", "sized", "cleared", "reserved", "answered", "adding"}]
      /\ order \in [Threads -> Orders] /\ after \in [Threads -> Nat]
  BY DEF TypeOK
<1>l. ASSUME NEW t \in Threads, Leave(t), pc'[t] = "idle" \/ pc'[t] = "answered",
             UNCHANGED halt,
             \A u \in Threads \ {t} : pc'[u] = pc[u] /\ order'[u] = order[u]
      PROVE  HaltInv'
  <2>1. after' = [after EXCEPT ![t] = IF halt /\ order[t].ask = "ENTRY" THEN @ + 1 ELSE @]
    BY <1>l DEF Leave
  <2>2. ASSUME NEW u \in Threads
        PROVE  /\ ~halt' => after'[u] = 0
               /\ after'[u] \in {0, 1}
               /\ pc'[u] \in {"cleared", "reserved"} /\ order'[u].ask = "ENTRY" => after'[u] = 0
    <3>1. CASE u = t
      <4>1. after[t] = 0 \/ ~(halt /\ order[t].ask = "ENTRY")
        BY <1>l DEF Leave
      <4> QED BY <1>l, <1>t, <2>1, <3>1, <4>1
    <3>2. CASE u # t
      BY <1>l, <1>t, <2>1, <3>2
    <3> QED BY <3>1, <3>2
  <2> QED BY <2>2
<1>1. ASSUME NEW t \in Threads, NEW s \in Symbols, NEW ask \in {"ENTRY", "EXIT"},
             NEW q \in Asked, NEW ref \in Prices, Size(t, s, ask, q, ref)
      PROVE  HaltInv'
  <2>1. pc' = [pc EXCEPT ![t] = "sized"] /\ UNCHANGED <<halt, after>>
        /\ \A u \in Threads \ {t} : order'[u] = order[u]
    BY <1>1, <1>t DEF Size, Goto
  <2> QED BY <1>t, <2>1
<1>2. ASSUME NEW t \in Threads, KillSwitch(t) PROVE HaltInv'
  <2>1. CASE order[t].ask = "ENTRY" /\ halt
    BY <1>2, <1>t, <2>1 DEF KillSwitch, Drop, Goto
  <2>2. CASE ~(order[t].ask = "ENTRY" /\ halt)
    BY <1>2, <1>t, <2>2 DEF KillSwitch, Goto
  <2> QED BY <2>1, <2>2
<1>3. ASSUME NEW t \in Threads, Reserve(t) PROVE HaltInv'
  <2>1. order'[t].ask = order[t].ask /\ \A u \in Threads \ {t} : order'[u] = order[u]
    BY <1>3, <1>t DEF Reserve, Orders
  <2> QED BY <1>3, <1>t, <2>1 DEF Reserve, Goto
<1>4. ASSUME NEW t \in Threads, TurnAway(t) PROVE HaltInv'
  BY <1>4, <1>t DEF TurnAway, Drop, Goto
<1>5. ASSUME NEW t \in Threads, NEW k \in 0..order[t].qty, Executed(t, k) PROVE HaltInv'
  <2>1. pc'[t] = "answered" /\ \A u \in Threads \ {t} : pc'[u] = pc[u] /\ order'[u] = order[u]
    BY <1>5, <1>t DEF Executed, Goto
  <2> QED BY <1>5, <1>l, <2>1 DEF Executed
<1>6. ASSUME NEW t \in Threads, LotRefused(t) PROVE HaltInv'
  <2>1. pc'[t] = "idle" /\ \A u \in Threads \ {t} : pc'[u] = pc[u] /\ order'[u] = order[u]
    BY <1>6, <1>t DEF LotRefused, Drop, Goto
  <2> QED BY <1>6, <1>l, <2>1 DEF LotRefused
<1>7. ASSUME NEW t \in Threads, Failed(t) PROVE HaltInv'
  <2>1. pc'[t] = "idle" /\ \A u \in Threads \ {t} : pc'[u] = pc[u] /\ order'[u] = order[u]
    BY <1>7, <1>t DEF Failed, Drop, Goto
  <2> QED BY <1>7, <1>l, <2>1 DEF Failed
<1>8. ASSUME NEW t \in Threads, ReadGross(t) PROVE HaltInv'
  BY <1>8, <1>t DEF ReadGross, Goto
<1>9. ASSUME NEW t \in Threads, WriteGross(t) PROVE HaltInv'
  BY <1>9, <1>t DEF WriteGross, Drop, Goto
<1>10. CASE Halt
  BY <1>10 DEF Halt
<1>11. CASE PriceMoves \/ SoldElsewhere \/ UNCHANGED vars
  <2>1. UNCHANGED <<pc, order, halt, after>>
    BY <1>11 DEF PriceMoves, SoldElsewhere, vars
  <2> QED BY <2>1
<1>12. CASE Restart
  BY <1>12 DEF Restart
<1> QED
  BY <1>1, <1>2, <1>3, <1>4, <1>5, <1>6, <1>7, <1>8, <1>9, <1>10, <1>11, <1>12 DEF Next, Submit

(* However many threads submit, each sends at most the one entry that had  *)
(* passed the kill switch when the halt began (ExecutionGateway.hpp:293).  *)
THEOREM HaltBinds == Spec => []AfterHaltBounded
<1>1. Init => TypeOK /\ HaltInv
  <2>1. Init => TypeOK
    BY InitTyped, GatesAssumption
  <2> QED BY <2>1 DEF Init, HaltInv
<1>2. TypeOK /\ HaltInv /\ [Next]_vars => (TypeOK /\ HaltInv)'
  BY NextTyped, NextHalts, GatesAssumption
<1>3. HaltInv => AfterHaltBounded
  BY DEF HaltInv, AfterHaltBounded
<1> QED BY <1>1, <1>2, <1>3, PTL DEF Spec

-----------------------------------------------------------------------------
(* The size of what leaves. *)

Fits(o) ==
    /\ o.qty * o.ref <= Lesser(HardMax, PilotMax)
    /\ o.qty * o.ref >= MinNotional
    /\ o.sym \in PilotSymbols

Explained(o) ==
    ~OnStep(o.qty) =>
        \/ o.ask = "ENTRY" /\ o.cut
        \/ o.ask = "EXIT" /\ o.sym \notin Filtered \cup Fallback

(* An order past the sizing gates has the size they gave it; the cash only *)
(* makes an entry smaller, and says so.                                    *)
SizeInv ==
    \A t \in Threads :
        pc[t] \in {"sized", "cleared", "reserved"} =>
            /\ order[t].qty \in Nat
            /\ order[t].ask = "ENTRY" => Fits(order[t])
            /\ Explained(order[t])

LEMMA SizedFits ==
    ASSUME Bounds, TypeOK, NEW t \in Threads, NEW s \in Symbols,
           NEW ask \in {"ENTRY", "EXIT"}, NEW q \in Asked, NEW ref \in Prices,
           Size(t, s, ask, q, ref)
    PROVE  /\ order'[t].qty \in Nat
           /\ order'[t].ask = "ENTRY" => Fits(order'[t])
           /\ Explained(order'[t])
<1> DEFINE floored == Normalized(s, q)
           size == IF ask = "ENTRY" THEN Capped(floored, ref) ELSE floored
           new == [NoOrder EXCEPT !.sym = s, !.ask = ask, !.qty = size, !.ref = ref,
                                  !.cut = (size # floored)]
<1>1. q \in Nat /\ ref \in Nat \ {0}
  BY DEF Bounds
<1>2. floored \in Nat /\ (s \in Filtered \cup Fallback => OnStep(floored))
  BY <1>1, NormalizedFits
<1>3. Capped(floored, ref) \in Nat /\ Capped(floored, ref) * ref <= Lesser(HardMax, PilotMax)
  BY <1>1, <1>2, CappedFits
<1>4. order' = [order EXCEPT ![t] = new]
  BY DEF Size
<1>5. ask = "ENTRY" => EntryMayGo(s, size, ref)
  BY DEF Size
<1> HIDE DEF floored, size
<1>6. /\ new.sym = s /\ new.ask = ask /\ new.qty = size /\ new.ref = ref
      /\ new.cut = (size # floored)
  BY DEF NoOrder
<1> HIDE DEF new
<1>7. order'[t] = new
  BY <1>4 DEF TypeOK
<1>8. size \in Nat
  BY <1>2, <1>3 DEF size, floored
<1>9. ask = "ENTRY" => Fits(new)
  <2>1. SUFFICES ASSUME ask = "ENTRY" PROVE Fits(new)
    OBVIOUS
  <2>2. size * ref <= Lesser(HardMax, PilotMax)
    BY <1>3, <2>1 DEF size, floored
  <2> QED BY <1>5, <1>6, <2>1, <2>2 DEF Fits, EntryMayGo
<1>10. Explained(new)
  <2>1. CASE ask = "ENTRY"
    <3>1. OnStep(floored)
      BY <1>2, <1>5, <2>1 DEF EntryMayGo
    <3>2. ~OnStep(size) => size # floored
      BY <3>1
    <3> QED BY <1>6, <2>1, <3>2 DEF Explained
  <2>2. CASE ask = "EXIT"
    <3>1. size = floored
      BY <2>2 DEF size
    <3> QED BY <1>2, <1>6, <2>2, <3>1 DEF Explained
  <2> QED BY <2>1, <2>2
<1> QED BY <1>6, <1>7, <1>8, <1>9, <1>10

LEMMA CutFits ==
    ASSUME Bounds, TypeOK, SizeInv, NEW t \in Threads, Reserve(t)
    PROVE  /\ order'[t].qty \in Nat
           /\ order'[t].ask = "ENTRY" => Fits(order'[t])
           /\ Explained(order'[t])
<1> DEFINE o == order[t]
<1>1. pc[t] = "cleared" /\ o \in Orders
  BY DEF Reserve, TypeOK
<1>2. o.qty \in Nat /\ o.ref \in Nat /\ o.ask \in {"ENTRY", "EXIT"}
  BY <1>1 DEF Orders
<1>3. (o.ask = "ENTRY" => Fits(o)) /\ Explained(o)
  BY <1>1 DEF SizeInv
<1>4. PICK q \in 1..o.qty :
          /\ IF o.ask = "EXIT" THEN q = o.qty ELSE q * o.ref >= MinNotional
          /\ order' = [order EXCEPT ![t].qty = q, ![t].cut = @ \/ q < o.qty]
  BY DEF Reserve
<1>5. order'[t] = [o EXCEPT !.qty = q, !.cut = @ \/ q < o.qty]
  BY <1>4 DEF TypeOK
<1>6. /\ order'[t].sym = o.sym /\ order'[t].ask = o.ask /\ order'[t].ref = o.ref
      /\ order'[t].qty = q /\ order'[t].cut = (o.cut \/ q < o.qty)
  BY <1>1, <1>5 DEF Orders
<1>7. q \in Nat /\ q <= o.qty
  BY <1>2
<1>8. ASSUME o.ask = "ENTRY" PROVE Fits(order'[t]) /\ Explained(order'[t])
  <2>1. q * o.ref <= o.qty * o.ref
    BY <1>2, <1>7, ProductGrows
  <2>2. q * o.ref \in Nat /\ o.qty * o.ref \in Nat
    BY <1>2, <1>7, ProductNat
  <2>3. q * o.ref >= MinNotional
    BY <1>4, <1>8
  <2>4. Lesser(HardMax, PilotMax) \in Nat
    BY DEF Bounds, Lesser
  <2>5. q * o.ref <= Lesser(HardMax, PilotMax)
    BY <1>3, <1>8, <2>1, <2>2, <2>4 DEF Fits
  <2>6. Fits(order'[t])
    BY <1>3, <1>6, <1>8, <2>3, <2>5 DEF Fits
  <2>7. q < o.qty \/ q = o.qty
    BY <1>2, <1>7
  <2>8. Explained(order'[t])
    BY <1>3, <1>6, <1>8, <2>7 DEF Explained
  <2> QED BY <2>6, <2>8
<1>9. ASSUME o.ask = "EXIT" PROVE Explained(order'[t])
  <2>1. q = o.qty
    BY <1>4, <1>9
  <2> QED BY <1>3, <1>6, <1>9, <2>1 DEF Explained
<1> QED BY <1>2, <1>6, <1>7, <1>8, <1>9

LEMMA NextSizes ==
    ASSUME Bounds, TypeOK, SizeInv, [Next]_vars PROVE SizeInv'
<1>t. pc \in [Threads -> {"idle", "sized", "cleared", "reserved", "answered", "adding"}]
      /\ order \in [Threads -> Orders]
  BY DEF TypeOK
<1>k. ASSUME NEW t \in Threads,
             \A u \in Threads \ {t} : pc'[u] = pc[u] /\ order'[u] = order[u],
             \/ pc'[t] \in {"idle", "answered", "adding"}
             \/ order'[t] = order[t] /\ pc[t] \in {"sized", "cleared", "reserved"}
             \/ /\ order'[t].qty \in Nat
                /\ order'[t].ask = "ENTRY" => Fits(order'[t])
                /\ Explained(order'[t])
      PROVE  SizeInv'
  <2>1. ASSUME NEW u \in Threads, pc'[u] \in {"sized", "cleared", "reserved"}
        PROVE  /\ order'[u].qty \in Nat
               /\ order'[u].ask = "ENTRY" => Fits(order'[u])
               /\ Explained(order'[u])
    <3>1. CASE u # t
      BY <1>k, <2>1, <3>1 DEF SizeInv
    <3>2. CASE u = t
      BY <1>k, <2>1, <3>2 DEF SizeInv
    <3> QED BY <3>1, <3>2
  <2> QED BY <2>1 DEF SizeInv, Fits, Explained
<1>1. ASSUME NEW t \in Threads, NEW s \in Symbols, NEW ask \in {"ENTRY", "EXIT"},
             NEW q \in Asked, NEW ref \in Prices, Size(t, s, ask, q, ref)
      PROVE  SizeInv'
  <2>1. \A u \in Threads \ {t} : pc'[u] = pc[u] /\ order'[u] = order[u]
    BY <1>1, <1>t DEF Size, Goto
  <2> QED BY <1>1, <1>k, <2>1, SizedFits
<1>2. ASSUME NEW t \in Threads, KillSwitch(t) PROVE SizeInv'
  <2>1. CASE order[t].ask = "ENTRY" /\ halt
    BY <1>2, <1>t, <1>k, <2>1 DEF KillSwitch, Drop, Goto
  <2>2. CASE ~(order[t].ask = "ENTRY" /\ halt)
    BY <1>2, <1>t, <1>k, <2>2 DEF KillSwitch, Goto
  <2> QED BY <2>1, <2>2
<1>3. ASSUME NEW t \in Threads, Reserve(t) PROVE SizeInv'
  <2>1. \A u \in Threads \ {t} : pc'[u] = pc[u] /\ order'[u] = order[u]
    BY <1>3, <1>t DEF Reserve, Goto
  <2> QED BY <1>3, <1>k, <2>1, CutFits
<1>4. ASSUME NEW t \in Threads, TurnAway(t) PROVE SizeInv'
  BY <1>4, <1>t, <1>k DEF TurnAway, Drop, Goto
<1>5. ASSUME NEW t \in Threads, NEW k \in 0..order[t].qty, Executed(t, k) PROVE SizeInv'
  BY <1>5, <1>t, <1>k DEF Executed, Goto
<1>6. ASSUME NEW t \in Threads, LotRefused(t) PROVE SizeInv'
  BY <1>6, <1>t, <1>k DEF LotRefused, Drop, Goto
<1>7. ASSUME NEW t \in Threads, Failed(t) PROVE SizeInv'
  BY <1>7, <1>t, <1>k DEF Failed, Drop, Goto
<1>8. ASSUME NEW t \in Threads, ReadGross(t) PROVE SizeInv'
  BY <1>8, <1>t, <1>k DEF ReadGross, Goto
<1>9. ASSUME NEW t \in Threads, WriteGross(t) PROVE SizeInv'
  BY <1>9, <1>t, <1>k DEF WriteGross, Drop, Goto
<1>10. CASE Halt \/ PriceMoves \/ SoldElsewhere \/ UNCHANGED vars
  <2>1. UNCHANGED <<pc, order>>
    BY <1>10 DEF Halt, PriceMoves, SoldElsewhere, vars
  <2> QED BY <2>1 DEF SizeInv, Fits, Explained
<1>11. CASE Restart
  BY <1>11 DEF Restart, SizeInv
<1> QED
  BY <1>1, <1>2, <1>3, <1>4, <1>5, <1>6, <1>7, <1>8, <1>9, <1>10, <1>11 DEF Next, Submit

LEMMA SizesKept == Spec => []SizeInv
<1>1. Init => TypeOK /\ SizeInv
  <2>1. Init => TypeOK
    BY InitTyped, GatesAssumption
  <2> QED BY <2>1 DEF Init, SizeInv
<1>2. TypeOK /\ SizeInv /\ [Next]_vars => (TypeOK /\ SizeInv)'
  BY NextTyped, NextSizes, GatesAssumption
<1> QED BY <1>1, <1>2, PTL DEF Spec

(* Whatever is asked, an entry leaves within both ceilings and above the   *)
(* minimum (ExecutionGateway.hpp:257-292, 312-328).                        *)
THEOREM SizesRight == Spec => []EntriesFit
<1>1. SizeInv => EntriesFit
  BY DEF SizeInv, EntriesFit, Fits
<1> QED BY <1>1, SizesKept, PTL

(* Only what a ceiling or the cash has cut leaves off the lot step, or an  *)
(* exit of a coin without any known step (ExecutionGateway.hpp:235-252).   *)
THEOREM OffStepOnlyIfCut == Spec => []RawOnlyIfCut
<1>1. SizeInv => RawOnlyIfCut
  BY DEF SizeInv, RawOnlyIfCut, Explained
<1> QED BY <1>1, SizesKept, PTL

-----------------------------------------------------------------------------
(* The pilot's ceiling. *)

Done(t) == pc[t] \in {"answered", "adding"}

(* Dollars that answered exits and entries are still to take from the sum  *)
(* and to add to it.                                                       *)
Due == [t \in Threads |-> IF Done(t) /\ order[t].ask = "EXIT" THEN order[t].usd ELSE 0]
Paid == [t \in Threads |-> IF Done(t) /\ order[t].ask = "ENTRY" THEN order[t].usd ELSE 0]

(* The sum still has the room the gate found for the entry in hand. *)
HasRoom(t) == gross + order[t].qty * order[t].ref <= GrossMax

(* While the sum has missed nothing it covers the money at stake, apart    *)
(* from what threads with an answer are about to write.                    *)
CapInv ==
    told =>
        /\ \A t, u \in Threads : EntryInHand(t) /\ EntryInHand(u) => t = u
        /\ \A t, u \in Threads : pc[t] = "adding" /\ pc[u] = "adding" => t = u
        /\ \A t \in Threads : pc[t] = "adding" => order[t].seen = gross
        /\ \A t \in Threads : EntryInHand(t) /\ ~Done(t) => HasRoom(t) /\ order[t].sym \in PilotSymbols
        /\ spent + Total(Due, Threads) <= gross + Total(Paid, Threads)

LEMMA PendingTyped ==
    ASSUME TypeOK PROVE Due \in [Threads -> Nat] /\ Paid \in [Threads -> Nat]
  BY DEF TypeOK, Orders, Due, Paid

(* An entry that leaves is the only one in hand: nothing is still to add.  *)
LEMMA Covered ==
    ASSUME Bounds, TypeOK, CapInv PROVE SpentWithinCap
<1>1. SUFFICES ASSUME told, NEW t \in Threads, pc[t] = "reserved", order[t].ask = "ENTRY"
               PROVE  spent + order[t].qty * order[t].ref <= GrossMax
  BY DEF SpentWithinCap
<1>2. /\ \A u \in Threads : EntryInHand(u) => u = t
      /\ HasRoom(t)
      /\ spent + Total(Due, Threads) <= gross + Total(Paid, Threads)
  BY <1>1 DEF CapInv, EntryInHand, Done
<1>3. \A u \in Threads : Paid[u] = 0
  BY <1>1, <1>2 DEF Paid, Done, EntryInHand
<1>4. Total(Paid, Threads) = 0 /\ Total(Due, Threads) \in Nat
  BY <1>3, PendingTyped, TotalBounds DEF Bounds
<1>5. order[t].qty * order[t].ref \in Nat
  BY ProductNat DEF TypeOK, Orders
<1> QED BY <1>2, <1>4, <1>5 DEF TypeOK, Bounds, HasRoom

(* Two sums whose values differ at one thread only differ by as much.      *)
LEMMA SumsMove ==
    ASSUME IsFiniteSet(Threads), NEW t \in Threads
    PROVE  \A d, f \in [Threads -> Nat] :
               (\A u \in Threads \ {t} : f[u] = d[u])
               => /\ Total(d, Threads) \in Nat /\ Total(f, Threads) \in Nat
                  /\ Total(f, Threads) + d[t] = Total(d, Threads) + f[t]
<1> SUFFICES ASSUME NEW d \in [Threads -> Nat], NEW f \in [Threads -> Nat],
                    \A u \in Threads \ {t} : f[u] = d[u]
             PROVE  /\ Total(d, Threads) \in Nat /\ Total(f, Threads) \in Nat
                    /\ Total(f, Threads) + d[t] = Total(d, Threads) + f[t]
  OBVIOUS
<1> QED  BY TotalMoves

(* A step of thread t alone keeps the invariant when what it pays and adds *)
(* balances, it raises the sum only for the entry in hand and writes it    *)
(* only when no other thread has read it, and an entry of its own is the   *)
(* only one and has room.                                                  *)
LEMMA ThreadKeepsCap ==
    ASSUME Bounds, TypeOK, TypeOK', CapInv, NEW t \in Threads,
           \A u \in Threads \ {t} : pc'[u] = pc[u] /\ order'[u] = order[u],
           told' => /\ told
                    /\ spent' + Due'[t] + gross + Paid[t] <= gross' + Paid'[t] + spent + Due[t]
                    /\ EntryInHand(t)' => \/ EntryInHand(t)
                                          \/ \A u \in Threads \ {t} : ~EntryInHand(u)
                    /\ EntryInHand(t)' /\ ~Done(t)' => HasRoom(t)' /\ order'[t].sym \in PilotSymbols
                    /\ pc'[t] = "adding" => /\ order'[t].seen = gross'
                                            /\ \A u \in Threads \ {t} : pc[u] # "adding"
                    /\ gross' = gross \/ pc[t] = "adding"
                    /\ gross' <= gross \/ EntryInHand(t)
    PROVE  CapInv'
<1>1. SUFFICES ASSUME told' PROVE CapInv'
  BY DEF CapInv
<1>2. /\ \A u, v \in Threads : EntryInHand(u) /\ EntryInHand(v) => u = v
      /\ \A u, v \in Threads : pc[u] = "adding" /\ pc[v] = "adding" => u = v
      /\ \A u \in Threads : pc[u] = "adding" => order[u].seen = gross
      /\ \A u \in Threads : EntryInHand(u) /\ ~Done(u) => HasRoom(u) /\ order[u].sym \in PilotSymbols
      /\ spent + Total(Due, Threads) <= gross + Total(Paid, Threads)
  BY <1>1 DEF CapInv
<1>3. \A u \in Threads \ {t} : (EntryInHand(u)' <=> EntryInHand(u)) /\ (Done(u)' <=> Done(u))
  BY DEF EntryInHand, Done
<1>4. \A u, v \in Threads : EntryInHand(u)' /\ EntryInHand(v)' => u = v
  BY <1>1, <1>2, <1>3
<1>5. \A u, v \in Threads : pc'[u] = "adding" /\ pc'[v] = "adding" => u = v
  BY <1>1, <1>2
<1>6. \A u \in Threads : pc'[u] = "adding" => order'[u].seen = gross'
  BY <1>1, <1>2
<1>7. ASSUME NEW u \in Threads, EntryInHand(u)', ~Done(u)'
      PROVE  HasRoom(u)' /\ order'[u].sym \in PilotSymbols
  <2>1. CASE u = t
    BY <1>1, <1>7, <2>1
  <2>2. CASE u # t
    <3>1. EntryInHand(u) /\ ~Done(u) /\ order'[u] = order[u]
      BY <1>3, <1>7, <2>2
    <3>2. gross' <= gross
      BY <1>1, <1>2, <2>2, <3>1
    <3>3. HasRoom(u) /\ order[u].sym \in PilotSymbols
      BY <1>2, <3>1
    <3>4. order[u].qty * order[u].ref \in Nat
      BY ProductNat DEF TypeOK, Orders
    <3>5. PICK g \in Nat : g = gross'
      BY DEF TypeOK
    <3>6. g + order[u].qty * order[u].ref <= GrossMax
      BY <3>2, <3>3, <3>4, <3>5 DEF HasRoom, TypeOK, Bounds
    <3> QED BY <3>1, <3>3, <3>5, <3>6 DEF HasRoom
  <2> QED BY <2>1, <2>2
<1>8. spent' + Total(Due', Threads) <= gross' + Total(Paid', Threads)
  <2>1. /\ Due \in [Threads -> Nat] /\ Paid \in [Threads -> Nat]
        /\ Due' \in [Threads -> Nat] /\ Paid' \in [Threads -> Nat]
    BY PendingTyped DEF TypeOK, Orders, Due, Paid
  <2>2. \A u \in Threads \ {t} : Due'[u] = Due[u] /\ Paid'[u] = Paid[u]
    BY DEF Due, Paid, Done
  <2>3. PICK d, e, f, h : d = Due /\ e = Paid /\ f = Due' /\ h = Paid'
    OBVIOUS
  <2>4. /\ d \in [Threads -> Nat] /\ e \in [Threads -> Nat]
        /\ f \in [Threads -> Nat] /\ h \in [Threads -> Nat]
    BY <2>1, <2>3
  <2>5. \A u \in Threads \ {t} : f[u] = d[u] /\ h[u] = e[u]
    BY <2>2, <2>3
  <2>6. PICK x \in Int, g \in Nat : x = spent' /\ g = gross'
    BY DEF TypeOK
  <2>7. x + f[t] + gross + e[t] <= g + h[t] + spent + d[t]
    BY <1>1, <2>3, <2>6
  <2>8. spent + Total(d, Threads) <= gross + Total(e, Threads)
    BY <1>2, <2>3
  <2>9. spent \in Int /\ gross \in Nat /\ IsFiniteSet(Threads)
    BY DEF TypeOK, Bounds
  <2>10. /\ Total(d, Threads) \in Nat /\ Total(f, Threads) \in Nat
         /\ Total(f, Threads) + d[t] = Total(d, Threads) + f[t]
    BY <2>4, <2>5, <2>9, SumsMove, Zenon
  <2>11. /\ Total(e, Threads) \in Nat /\ Total(h, Threads) \in Nat
         /\ Total(h, Threads) + e[t] = Total(e, Threads) + h[t]
    BY <2>4, <2>5, <2>9, SumsMove, Zenon
  <2>12. d[t] \in Nat /\ e[t] \in Nat /\ f[t] \in Nat /\ h[t] \in Nat
    BY <2>4
  <2>13. x + Total(f, Threads) <= g + Total(h, Threads)
    BY <2>6, <2>7, <2>8, <2>9, <2>10, <2>11, <2>12
  <2> QED BY <2>3, <2>6, <2>13
<1> QED BY <1>4, <1>5, <1>6, <1>7, <1>8 DEF CapInv

(* A thread between the gate and the request moves on or gives up. *)
LEMMA GatesKeepCap ==
    ASSUME Bounds, TypeOK, TypeOK', CapInv, NEW t \in Threads,
           \A u \in Threads \ {t} : pc'[u] = pc[u] /\ order'[u] = order[u],
           ~Done(t), ~Done(t)', gross' = gross,
           told' => told /\ spent' <= spent,
           told' /\ EntryInHand(t)' =>
               /\ EntryInHand(t) \/ \A u \in Threads \ {t} : ~EntryInHand(u)
               /\ HasRoom(t)' /\ order'[t].sym \in PilotSymbols
    PROVE  CapInv'
<1>1. Due[t] = 0 /\ Paid[t] = 0 /\ Due'[t] = 0 /\ Paid'[t] = 0
  BY DEF Due, Paid
<1>2. PICK x \in Int : x = spent'
  BY DEF TypeOK
<1>3. told' => x + 0 + gross + 0 <= gross + 0 + spent + 0
  <2>1. told' => x <= spent
    BY <1>2
  <2> QED BY <2>1 DEF TypeOK
<1>4. told' => spent' + Due'[t] + gross + Paid[t] <= gross' + Paid'[t] + spent + Due[t]
  BY <1>1, <1>2, <1>3
<1>5. pc'[t] # "adding" /\ gross' <= gross
  BY DEF Done, TypeOK
<1> QED BY <1>4, <1>5, ThreadKeepsCap

(* The order executes: the sum is going to hear of no less than was paid,  *)
(* and of no more than was got back.                                       *)
LEMMA ExecutedKeepsCap ==
    ASSUME Bounds, TypeOK, TypeOK', CapInv, NEW t \in Threads, NEW k \in 0..order[t].qty,
           Executed(t, k)
    PROVE  CapInv'
<1> DEFINE o == order[t]
<1>1. SUFFICES ASSUME told' PROVE CapInv'
  BY DEF CapInv
<1>2. pc[t] = "reserved" /\ o \in Orders /\ o.sym \in Symbols
  BY DEF Executed, Leave, TypeOK
<1>3. k \in Nat /\ o.ask \in {"ENTRY", "EXIT"}
  BY <1>2 DEF Orders
<1>4. Cost(o, k) \in Int /\ Counted(o, k) \in Nat /\ Dollars(o.sym, k) \in Nat
  BY <1>2, <1>3, CostInt, DollarsNat
<1>5. told /\ Heard(o, k) /\ spent' = spent + Cost(o, k) /\ gross' = gross
  BY <1>1 DEF Executed, Pay
<1>6. /\ pc'[t] = "answered" /\ order'[t] = [o EXCEPT !.usd = Counted(o, k)]
      /\ \A u \in Threads \ {t} : pc'[u] = pc[u] /\ order'[u] = order[u]
  BY DEF Executed, Goto, TypeOK
<1>7. order'[t].usd = Counted(o, k) /\ order'[t].ask = o.ask
  BY <1>2, <1>6 DEF Orders
<1>8. Due[t] = 0 /\ Paid[t] = 0
  BY <1>2 DEF Due, Paid, Done
<1>9. spent' + Due'[t] + gross + Paid[t] <= gross' + Paid'[t] + spent + Due[t]
  <2>1. PICK x \in Int : x = spent'
    BY DEF TypeOK
  <2>2. CASE o.ask = "ENTRY"
    <3>1. o.sym \in PilotSymbols
      BY <1>2, <1>5, <2>2 DEF CapInv, EntryInHand, Done
    <3>2. Cost(o, k) <= Counted(o, k)
      <4>1. CASE k > 0
        BY <1>4, <2>2, <3>1, <4>1 DEF Cost, Dollars, Counted
      <4>2. CASE k = 0
        <5>1. px[o.sym] \in Nat
          BY <1>2 DEF TypeOK, Bounds
        <5>2. Dollars(o.sym, k) = 0
          BY <3>1, <4>2, <5>1 DEF Dollars
        <5> QED BY <1>4, <2>2, <5>2 DEF Cost
      <4> QED BY <1>3, <4>1, <4>2
    <3>3. Due'[t] = 0 /\ Paid'[t] = Counted(o, k)
      BY <1>6, <1>7, <2>2 DEF Due, Paid, Done
    <3>4. x + 0 + gross + 0 <= gross + Counted(o, k) + spent + 0
      BY <1>4, <1>5, <2>1, <3>2 DEF TypeOK
    <3> QED BY <1>5, <1>8, <2>1, <3>3, <3>4
  <2>3. CASE o.ask = "EXIT"
    <3>1. k > 0 /\ o.sym \in PilotSymbols
      BY <1>5, <2>3 DEF Heard
    <3>2. Cost(o, k) = -Counted(o, k)
      BY <2>3, <3>1 DEF Cost, Dollars, Counted
    <3>3. Due'[t] = Counted(o, k) /\ Paid'[t] = 0
      BY <1>6, <1>7, <2>3 DEF Due, Paid, Done
    <3>4. x + Counted(o, k) + gross + 0 <= gross + 0 + spent + 0
      BY <1>4, <1>5, <2>1, <3>2 DEF TypeOK
    <3> QED BY <1>5, <1>8, <2>1, <3>3, <3>4
  <2> QED BY <1>3, <2>2, <2>3
<1>10. (EntryInHand(t)' => EntryInHand(t)) /\ Done(t)' /\ pc'[t] # "adding"
  BY <1>2, <1>6, <1>7 DEF EntryInHand, Done
<1>11. gross' <= gross
  BY <1>5 DEF TypeOK
<1> QED BY <1>5, <1>6, <1>9, <1>10, <1>11, ThreadKeepsCap

LEMMA ReadKeepsCap ==
    ASSUME Bounds, TypeOK, TypeOK', CapInv, NEW t \in Threads, ReadGross(t) PROVE CapInv'
<1>1. SUFFICES ASSUME told' PROVE CapInv'
  BY DEF CapInv
<1>2. /\ pc[t] = "answered" /\ pc'[t] = "adding" /\ gross' = gross
      /\ order'[t] = [order[t] EXCEPT !.seen = gross] /\ order[t] \in Orders
      /\ \A u \in Threads \ {t} : pc'[u] = pc[u] /\ order'[u] = order[u]
  BY DEF ReadGross, Goto, TypeOK
<1>3. /\ told /\ spent' = spent + 0
      /\ \A u \in Threads \ {t} : pc[u] # "adding"
  BY <1>1 DEF ReadGross, Pay
<1>4. /\ order'[t].ask = order[t].ask /\ order'[t].usd = order[t].usd
      /\ order'[t].seen = gross
  BY <1>2 DEF Orders
<1>5. Due'[t] = Due[t] /\ Paid'[t] = Paid[t] /\ Due[t] \in Nat /\ Paid[t] \in Nat
  BY <1>2, <1>4, PendingTyped DEF Due, Paid, Done
<1>6. spent' = spent /\ spent \in Int /\ gross \in Nat
  BY <1>3 DEF TypeOK
<1>7. spent + Due[t] + gross + Paid[t] <= gross + Paid[t] + spent + Due[t]
  BY <1>5, <1>6
<1>8. spent' + Due'[t] + gross + Paid[t] <= gross' + Paid'[t] + spent + Due[t]
  BY <1>2, <1>5, <1>6, <1>7
<1>9. (EntryInHand(t)' => EntryInHand(t)) /\ Done(t)'
  BY <1>2, <1>4 DEF EntryInHand, Done
<1>10. gross' <= gross
  BY <1>2, <1>6
<1> QED BY <1>2, <1>3, <1>4, <1>8, <1>9, <1>10, ThreadKeepsCap

LEMMA WriteKeepsCap ==
    ASSUME Bounds, TypeOK, TypeOK', CapInv, NEW t \in Threads, WriteGross(t) PROVE CapInv'
<1> DEFINE o == order[t]
<1>1. SUFFICES ASSUME told' PROVE CapInv'
  BY DEF CapInv
<1>2. pc[t] = "adding" /\ o \in Orders /\ told /\ spent' = spent
  BY <1>1 DEF WriteGross, TypeOK, watch
<1>3. o.seen = gross /\ o.usd \in Nat /\ o.ask \in {"ENTRY", "EXIT"} /\ gross \in Nat /\ spent \in Int
  BY <1>2 DEF CapInv, TypeOK, Orders
<1>4. /\ pc'[t] = "idle"
      /\ \A u \in Threads \ {t} : pc'[u] = pc[u] /\ order'[u] = order[u]
      /\ gross' = IF o.ask = "ENTRY" THEN gross + o.usd
                  ELSE IF o.usd >= gross THEN 0 ELSE gross - o.usd
  BY <1>3 DEF WriteGross, Drop, Goto, TypeOK
<1>5. Due'[t] = 0 /\ Paid'[t] = 0 /\ ~EntryInHand(t)'
  BY <1>4 DEF Due, Paid, Done, EntryInHand
<1>6. PICK g \in Nat : g = gross'
  BY DEF TypeOK
<1>7. /\ spent' + Due'[t] + gross + Paid[t] <= gross' + Paid'[t] + spent + Due[t]
      /\ gross' <= gross \/ EntryInHand(t)
  <2>1. CASE o.ask = "ENTRY"
    <3>1. Due[t] = 0 /\ Paid[t] = o.usd /\ g = gross + o.usd /\ EntryInHand(t)
      BY <1>2, <1>4, <1>6, <2>1 DEF Due, Paid, Done, EntryInHand
    <3>2. spent + 0 + gross + Paid[t] <= g + 0 + spent + Due[t]
      BY <1>3, <3>1
    <3> QED BY <1>2, <1>5, <1>6, <3>1, <3>2
  <2>2. CASE o.ask = "EXIT"
    <3>1. Due[t] = o.usd /\ Paid[t] = 0
      BY <1>2, <2>2 DEF Due, Paid, Done
    <3>2. g = IF o.usd >= gross THEN 0 ELSE gross - o.usd
      BY <1>4, <1>6, <2>2
    <3>3. g <= gross /\ gross <= g + o.usd
      BY <1>3, <3>2
    <3>4. spent + 0 + gross + Paid[t] <= g + 0 + spent + Due[t]
      BY <1>3, <3>1, <3>3
    <3> QED BY <1>2, <1>5, <1>6, <3>3, <3>4
  <2> QED BY <1>3, <2>1, <2>2
<1>8. pc'[t] # "adding"
  BY <1>4
<1> QED BY <1>2, <1>4, <1>5, <1>7, <1>8, ThreadKeepsCap

(* The account changes without the sum: it only gets smaller. *)
LEMMA SoldKeepsCap ==
    ASSUME Bounds, TypeOK, TypeOK', CapInv, SoldElsewhere PROVE CapInv'
<1>1. SUFFICES ASSUME told' PROVE CapInv'
  BY DEF CapInv
<1>2. PICK s \in Symbols : Pay(-Dollars(s, ToStep(held[s])), TRUE)
  BY DEF SoldElsewhere
<1>3. Dollars(s, ToStep(held[s])) \in Nat
  BY Stepped, DollarsNat DEF TypeOK
<1>4. told /\ spent' = spent + (-Dollars(s, ToStep(held[s])))
  BY <1>1, <1>2 DEF Pay
<1>5. PICK x \in Int : x = spent'
  BY DEF TypeOK
<1>6. x <= spent /\ spent \in Int
  BY <1>3, <1>4, <1>5 DEF TypeOK
<1>7. UNCHANGED <<pc, order, gross>>
  BY DEF SoldElsewhere
<1>8. Due' = Due /\ Paid' = Paid
  BY <1>7 DEF Due, Paid, Done
<1>9. Total(Due, Threads) \in Nat /\ Total(Paid, Threads) \in Nat /\ gross \in Nat
  BY PendingTyped, TotalBounds DEF Bounds, TypeOK
<1>10. spent + Total(Due, Threads) <= gross + Total(Paid, Threads)
  BY <1>4 DEF CapInv
<1>11. x + Total(Due, Threads) <= gross + Total(Paid, Threads)
  BY <1>6, <1>9, <1>10
<1>12. spent' + Total(Due', Threads) <= gross' + Total(Paid', Threads)
  BY <1>5, <1>7, <1>8, <1>11
<1> QED BY <1>4, <1>7, <1>12 DEF CapInv, EntryInHand, Done, HasRoom

LEMMA NextCap ==
    ASSUME Bounds, TypeOK, TypeOK', CapInv, [Next]_vars PROVE CapInv'
<1>t. /\ pc \in [Threads -> {"idle", "sized", "cleared", "reserved", "answered", "adding"}]
      /\ order \in [Threads -> Orders] /\ spent \in Int
  BY DEF TypeOK
<1>h. ASSUME NEW t \in Threads, told, EntryInHand(t), ~Done(t)
      PROVE  HasRoom(t) /\ order[t].sym \in PilotSymbols
  BY <1>h DEF CapInv
<1>1. ASSUME NEW t \in Threads, NEW s \in Symbols, NEW ask \in {"ENTRY", "EXIT"},
             NEW q \in Asked, NEW ref \in Prices, Size(t, s, ask, q, ref)
      PROVE  CapInv'
  <2> DEFINE floored == Normalized(s, q)
             size == IF ask = "ENTRY" THEN Capped(floored, ref) ELSE floored
             new == [NoOrder EXCEPT !.sym = s, !.ask = ask, !.qty = size, !.ref = ref,
                                    !.cut = (size # floored)]
  <2>1. ask = "ENTRY" => EntryMayGo(s, size, ref)
    BY <1>1 DEF Size
  <2>2. /\ order' = [order EXCEPT ![t] = new] /\ pc' = [pc EXCEPT ![t] = "sized"]
        /\ pc[t] = "idle" /\ gross' = gross
        /\ Pay(0, ask = "ENTRY" => \A u \in Threads \ {t} : ~EntryInHand(u))
    BY <1>1 DEF Size, Goto
  <2> HIDE DEF floored, size
  <2>3. new.sym = s /\ new.ask = ask /\ new.qty = size /\ new.ref = ref
    BY DEF NoOrder
  <2> HIDE DEF new
  <2>4. /\ order'[t] = new /\ pc'[t] = "sized"
        /\ \A u \in Threads \ {t} : pc'[u] = pc[u] /\ order'[u] = order[u]
    BY <1>t, <2>2
  <2>5. ask = "ENTRY" => s \in PilotSymbols /\ gross + size * ref <= GrossMax
    BY <2>1 DEF EntryMayGo, GrossRoom
  <2>6. EntryInHand(t)' => ask = "ENTRY" /\ HasRoom(t)' /\ order'[t].sym \in PilotSymbols
    BY <2>2, <2>3, <2>4, <2>5 DEF EntryInHand, HasRoom
  <2>7. told' => /\ told /\ spent' = spent + 0
                 /\ ask = "ENTRY" => \A u \in Threads \ {t} : ~EntryInHand(u)
    BY <2>2 DEF Pay
  <2>8. told' => told /\ spent' <= spent
    BY <1>t, <2>7
  <2>9. ~Done(t) /\ ~Done(t)'
    BY <2>2, <2>4 DEF Done
  <2> QED BY <2>2, <2>4, <2>6, <2>7, <2>8, <2>9, GatesKeepCap
<1>2. ASSUME NEW t \in Threads, KillSwitch(t) PROVE CapInv'
  <2>1. pc[t] = "sized" /\ UNCHANGED <<gross, told, spent>>
    BY <1>2 DEF KillSwitch, watch
  <2>2. /\ \/ pc'[t] = "idle"
           \/ pc'[t] = "cleared" /\ order'[t] = order[t]
        /\ \A u \in Threads \ {t} : pc'[u] = pc[u] /\ order'[u] = order[u]
    <3>1. CASE order[t].ask = "ENTRY" /\ halt
      BY <1>2, <1>t, <3>1 DEF KillSwitch, Drop, Goto
    <3>2. CASE ~(order[t].ask = "ENTRY" /\ halt)
      BY <1>2, <1>t, <3>2 DEF KillSwitch, Goto
    <3> QED BY <3>1, <3>2
  <2>3. ~Done(t) /\ ~Done(t)'
    BY <2>1, <2>2 DEF Done
  <2>4. EntryInHand(t)' => EntryInHand(t) /\ order'[t] = order[t]
    BY <2>1, <2>2 DEF EntryInHand
  <2>5. told /\ EntryInHand(t)' => HasRoom(t)' /\ order'[t].sym \in PilotSymbols
    BY <1>h, <2>1, <2>3, <2>4 DEF HasRoom
  <2>6. spent' <= spent
    BY <1>t, <2>1
  <2> QED BY <2>1, <2>2, <2>3, <2>4, <2>5, <2>6, GatesKeepCap
<1>3. ASSUME NEW t \in Threads, Reserve(t) PROVE CapInv'
  <2> DEFINE o == order[t]
  <2>1. pc[t] = "cleared" /\ UNCHANGED <<gross, told, spent>>
    BY <1>3 DEF Reserve, watch
  <2>2. /\ o \in Orders /\ o.qty \in Nat /\ o.ref \in Nat /\ gross \in Nat /\ GrossMax \in Nat
    BY <1>t DEF TypeOK, Orders, Bounds
  <2>3. PICK q \in 1..o.qty : order' = [order EXCEPT ![t].qty = q, ![t].cut = @ \/ q < o.qty]
    BY <1>3 DEF Reserve
  <2>4. /\ order'[t] = [o EXCEPT !.qty = q, !.cut = @ \/ q < o.qty] /\ pc'[t] = "reserved"
        /\ \A u \in Threads \ {t} : pc'[u] = pc[u] /\ order'[u] = order[u]
    BY <1>3, <1>t, <2>3 DEF Reserve, Goto
  <2>5. /\ order'[t].sym = o.sym /\ order'[t].ask = o.ask /\ order'[t].qty = q
        /\ order'[t].ref = o.ref
    BY <2>2, <2>4 DEF Orders
  <2>6. q \in Nat /\ q <= o.qty
    BY <2>2
  <2>7. q * o.ref <= o.qty * o.ref /\ q * o.ref \in Nat /\ o.qty * o.ref \in Nat
    BY <2>2, <2>6, ProductGrows, ProductNat
  <2>8. ~Done(t) /\ ~Done(t)'
    BY <2>1, <2>4 DEF Done
  <2>9. EntryInHand(t)' => EntryInHand(t)
    BY <2>1, <2>5 DEF EntryInHand
  <2>10. told /\ EntryInHand(t) => gross + o.qty * o.ref <= GrossMax /\ o.sym \in PilotSymbols
    BY <1>h, <2>8 DEF HasRoom
  <2>11. told /\ EntryInHand(t) => gross + q * o.ref <= GrossMax
    BY <2>2, <2>7, <2>10
  <2>12. told /\ EntryInHand(t)' => HasRoom(t)' /\ order'[t].sym \in PilotSymbols
    BY <2>1, <2>5, <2>9, <2>10, <2>11 DEF HasRoom
  <2>13. spent' <= spent
    BY <1>t, <2>1
  <2> QED BY <2>1, <2>4, <2>8, <2>9, <2>12, <2>13, GatesKeepCap
<1>4. ASSUME NEW t \in Threads, TurnAway(t) \/ LotRefused(t) \/ Failed(t) PROVE CapInv'
  <2>1. Drop(t) /\ pc[t] \in {"cleared", "reserved"} /\ UNCHANGED <<gross>>
    BY <1>4 DEF TurnAway, LotRefused, Failed, Leave
  <2>2. /\ pc'[t] = "idle"
        /\ \A u \in Threads \ {t} : pc'[u] = pc[u] /\ order'[u] = order[u]
    BY <1>t, <2>1 DEF Drop, Goto
  <2>3. ~Done(t) /\ ~Done(t)' /\ ~EntryInHand(t)'
    BY <2>1, <2>2 DEF Done, EntryInHand
  <2>4. told' => told /\ spent' <= spent
    <3>1. CASE UNCHANGED <<told, spent>>
      BY <1>t, <3>1
    <3>2. CASE Failed(t) /\ Pay(Cost(order[t], order[t].qty), order[t].ask = "EXIT")
      <4> DEFINE s == order[t].sym
                 q == order[t].qty
      <4>1. order[t] \in Orders /\ s \in Symbols /\ q \in Nat
        BY <2>1 DEF TypeOK, Orders
      <4>2. Cost(order[t], q) \in Int /\ Dollars(s, q) \in Nat
        BY <4>1, CostInt, DollarsNat
      <4>3. told' => told /\ order[t].ask = "EXIT" /\ spent' = spent + Cost(order[t], q)
        BY <3>2, <4>2, PayTyped
      <4>4. order[t].ask = "EXIT" => Cost(order[t], q) = -Dollars(s, q)
        BY DEF Cost
      <4>5. PICK x \in Int : x = spent'
        BY DEF TypeOK
      <4>6. told' => x <= spent
        BY <1>t, <4>2, <4>3, <4>4, <4>5
      <4> QED BY <4>3, <4>5, <4>6
    <3> QED BY <1>4, <3>1, <3>2 DEF TurnAway, LotRefused, Failed, watch
  <2> QED BY <2>1, <2>2, <2>3, <2>4, GatesKeepCap
<1>5. ASSUME NEW t \in Threads, NEW k \in 0..order[t].qty, Executed(t, k) PROVE CapInv'
  BY <1>5, ExecutedKeepsCap
<1>6. ASSUME NEW t \in Threads, ReadGross(t) PROVE CapInv'
  BY <1>6, ReadKeepsCap
<1>7. ASSUME NEW t \in Threads, WriteGross(t) PROVE CapInv'
  BY <1>7, WriteKeepsCap
<1>8. CASE SoldElsewhere
  BY <1>8, SoldKeepsCap
<1>9. CASE Halt \/ PriceMoves \/ UNCHANGED vars
  <2>1. UNCHANGED <<pc, order, gross, told, spent>>
    BY <1>9 DEF Halt, PriceMoves, vars, watch
  <2> QED BY <2>1 DEF CapInv, EntryInHand, Done, HasRoom, Due, Paid
<1>10. CASE Restart
  <2>1. ~told'
    BY <1>10 DEF Restart, Pay
  <2> QED BY <2>1 DEF CapInv
<1> QED
  BY <1>1, <1>2, <1>3, <1>4, <1>5, <1>6, <1>7, <1>8, <1>9, <1>10 DEF Next, Submit

(* As long as the sum has missed nothing, no entry takes the money the     *)
(* pilot has at stake over live_pilot_max_gross_usd, whatever prices do,   *)
(* orders expire, stops sell behind the sum's back, answers to sales are   *)
(* lost and other threads sell (ExecutionGateway.hpp:283-287, 511-518).    *)
THEOREM CeilingHolds == Spec => []SpentWithinCap
<1>1. Init => TypeOK /\ CapInv
  <2>1. SUFFICES ASSUME Init PROVE TypeOK /\ CapInv
    OBVIOUS
  <2>2. TypeOK /\ Bounds
    BY <2>1, InitTyped, GatesAssumption
  <2>3. (\A t \in Threads : pc[t] = "idle") /\ gross = 0 /\ spent = 0
    BY <2>1 DEF Init
  <2>4. \A t \in Threads : Due[t] = 0 /\ Paid[t] = 0
    BY <2>3 DEF Due, Paid, Done
  <2>5. Total(Due, Threads) = 0 /\ Total(Paid, Threads) = 0
    BY <2>2, <2>4, PendingTyped, TotalBounds DEF Bounds
  <2>6. spent + Total(Due, Threads) <= gross + Total(Paid, Threads)
    BY <2>3, <2>5
  <2> QED BY <2>2, <2>3, <2>6 DEF CapInv, EntryInHand
<1>2. TypeOK /\ CapInv /\ [Next]_vars => (TypeOK /\ CapInv)'
  BY NextTyped, NextCap, GatesAssumption
<1>3. TypeOK /\ CapInv => SpentWithinCap
  BY Covered, GatesAssumption
<1> QED BY <1>1, <1>2, <1>3, PTL DEF Spec
=============================================================================

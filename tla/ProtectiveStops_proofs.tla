----------------------- MODULE ProtectiveStops_proofs -----------------------
(***************************************************************************)
(* Type correctness of the protective stops under every fault; of a        *)
(* process that lives, for any number of concurrent threads, that          *)
(* resting_stop_ is exactly what rests at the exchange when cancels        *)
(* succeed and stops do not vanish, and that a naked holding is known; and *)
(* of a gateway that one thread drives, that no exit meets its own stop,   *)
(* and that a process that dies anywhere covers its holding again.         *)
(***************************************************************************)
EXTENDS ProtectiveStops, Totals_proofs, TLAPS

(* The base that stops lock is there. *)
LockedIsHeld == Locked <= base

TypeInv == TypeOK /\ LockedIsHeld

-----------------------------------------------------------------------------
(* How the steps at the exchange move the sum of the locked lots. *)

LEMMA LockedNat ==
    ASSUME NEW f \in [Ids -> Nat]
    PROVE  /\ Total(f, Ids) \in Nat
           /\ \A i \in Ids : f[i] <= Total(f, Ids)
           /\ (\A i \in Ids : f[i] = 0) => Total(f, Ids) = 0
BY TotalBounds, StopsAssumption

LEMMA LockedNone ==
    /\ [i \in Ids |-> 0] \in [Ids -> Nat]
    /\ Total([i \in Ids |-> 0], Ids) = 0
<1>1. [i \in Ids |-> 0] \in [Ids -> Nat]
  OBVIOUS
<1>2. \A i \in Ids : [j \in Ids |-> 0][i] = 0
  OBVIOUS
<1> QED  BY <1>1, <1>2, LockedNat

LEMMA LockedSet ==
    ASSUME NEW f \in [Ids -> Nat], NEW i \in Ids, NEW q \in Nat
    PROVE  /\ [f EXCEPT ![i] = q] \in [Ids -> Nat]
           /\ Total([f EXCEPT ![i] = q], Ids) = Total(f, Ids) + q - f[i]
<1>1. [f EXCEPT ![i] = q] \in [Ids -> Nat]
  OBVIOUS
<1>2. /\ Total(f, Ids) \in Nat
      /\ Total([f EXCEPT ![i] = q], Ids) \in Nat
      /\ Total([f EXCEPT ![i] = q], Ids) + f[i] = Total(f, Ids) + q
  <2>1. IsFiniteSet(Ids)
    BY StopsAssumption
  <2> QED  BY ONLY <2>1, f \in [Ids -> Nat], i \in Ids, q \in Nat, TotalUpdate
<1>3. f[i] \in Nat
  OBVIOUS
<1> QED  BY <1>1, <1>2, <1>3

LEMMA ForgetLowers ==
    ASSUME TypeOK, NEW k \in Keys, Forget(k)
    PROVE  /\ stops' \in [Ids -> Nat]
           /\ resting' \in [Keys -> [id : Ids \cup {None}, qty : Nat]]
           /\ Total(stops', Ids) \in Nat
           /\ Total(stops', Ids) <= Locked
<1> DEFINE id == resting[k].id
<1>1. id \in Ids \cup {None} /\ stops \in [Ids -> Nat]
  BY DEF TypeOK
<1>2. resting' \in [Keys -> [id : Ids \cup {None}, qty : Nat]]
  BY DEF Forget, TypeOK, NoStop
<1>3. Locked \in Nat
  BY <1>1, LockedNat DEF Locked
<1>4. CASE UNCHANGED stops
  BY <1>1, <1>2, <1>3, <1>4 DEF Locked
<1>5. CASE id \in Ids /\ stops' = [stops EXCEPT ![id] = 0]
  <2>1. /\ stops' \in [Ids -> Nat]
        /\ Total(stops', Ids) = Total(stops, Ids) + 0 - stops[id]
    BY <1>1, <1>5, LockedSet
  <2>2. Total(stops', Ids) \in Nat /\ stops[id] \in Nat
    BY <1>1, <1>5, <2>1, LockedNat
  <2> QED  BY <2>1, <2>2, <1>2, <1>3 DEF Locked
<1> QED  BY <1>1, <1>4, <1>5 DEF Forget, CancelStop

-----------------------------------------------------------------------------
LEMMA TypeInit == Init => TypeInv
<1> SUFFICES ASSUME Init PROVE TypeInv
  OBVIOUS
<1>1. TypeOK
  BY DEF Init, TypeOK, Steps, Rounds, NoStop, None, Keys
<1>2. Locked = 0 /\ base = 0
  BY LockedNone DEF Init, Locked
<1> QED  BY <1>1, <1>2 DEF TypeInv, LockedIsHeld

(* A step that moves no lot at the exchange. *)
LEMMA LockedKept ==
    ASSUME TypeInv, TypeOK', UNCHANGED exchange
    PROVE  TypeInv'
BY DEF TypeInv, LockedIsHeld, Locked, exchange

LEMMA TypeNext == TypeInv /\ [Next]_vars => TypeInv'
<1> SUFFICES ASSUME TypeInv, [Next]_vars PROVE TypeInv'
  OBVIOUS
<1> USE DEF TypeInv
<1>0. /\ TypeOK /\ LockedIsHeld /\ stops \in [Ids -> Nat] /\ base \in Nat
      /\ Locked \in Nat /\ Locked <= base /\ Free \in Nat /\ Free <= base
  BY LockedNat DEF TypeOK, LockedIsHeld, Locked, Free
<1> USE DEF Goto
<1>1. ASSUME NEW t \in Threads, NEW q \in 1..setting.max, StartBuy(t, q) PROVE TypeInv'
  <2>1. TypeOK'
    BY <1>0, <1>1, StopsAssumption DEF TypeOK, StartBuy, exchange, gateway, Steps, Keys
  <2> QED  BY <2>1, <1>1, LockedKept DEF StartBuy
<1>2. ASSUME NEW t \in Threads, NEW q \in 1..setting.max, StartSell(t, q) PROVE TypeInv'
  <2>1. TypeOK'
    BY <1>0, <1>2, StopsAssumption DEF TypeOK, StartSell, exchange, gateway, Steps, Keys
  <2> QED  BY <2>1, <1>2, LockedKept DEF StartSell
<1>3. ASSUME NEW t \in Threads, BookBuy(t) PROVE TypeInv'
  <2>1. TypeOK'
    BY <1>0, <1>3 DEF TypeOK, BookBuy, exchange, observed, Steps
  <2> QED  BY <2>1, <1>3, LockedKept DEF BookBuy
<1>4. ASSUME NEW t \in Threads, BookSell(t) PROVE TypeInv'
  <2>1. TypeOK'
    BY <1>0, <1>4 DEF TypeOK, BookSell, exchange, observed, Steps
  <2> QED  BY <2>1, <1>4, LockedKept DEF BookSell
<1>5. ASSUME NEW t \in Threads, ReadHeld(t) PROVE TypeInv'
  <2>1. TypeOK'
    BY <1>0, <1>5 DEF TypeOK, ReadHeld, exchange, gateway, observed, Steps
  <2> QED  BY <2>1, <1>5, LockedKept DEF ReadHeld
<1>6. ASSUME NEW t \in Threads, ManageMatches(t) PROVE TypeInv'
  <2>1. TypeOK'
    BY <1>0, <1>6 DEF TypeOK, ManageMatches, exchange, gateway, observed, Steps
  <2> QED  BY <2>1, <1>6, LockedKept DEF ManageMatches
<1>7. ASSUME NEW t \in Threads, PlaceSuppressed(t) PROVE TypeInv'
  <2>1. TypeOK'
    BY <1>0, <1>7 DEF TypeOK, PlaceSuppressed, exchange, observed, Steps
  <2> QED  BY <2>1, <1>7, LockedKept DEF PlaceSuppressed
<1>8. ASSUME NEW t \in Threads, PlaceRefused(t) PROVE TypeInv'
  <2>1. TypeOK'
    BY <1>0, <1>8 DEF TypeOK, PlaceRefused, exchange, Steps, observed
  <2> QED  BY <2>1, <1>8, LockedKept DEF PlaceRefused
<1>9. ASSUME NEW t \in Threads, ReadFree(t) PROVE TypeInv'
  <2>1. TypeOK'
    BY <1>0, <1>9 DEF TypeOK, ReadFree, exchange, gateway, observed, Steps
  <2> QED  BY <2>1, <1>9, LockedKept DEF ReadFree
<1>10. ASSUME NEW t \in Threads, ReadFails(t) PROVE TypeInv'
  <2>1. TypeOK'
    BY <1>0, <1>10 DEF TypeOK, ReadFails, exchange, gateway, observed, Steps
  <2> QED  BY <2>1, <1>10, LockedKept DEF ReadFails
<1>11. ASSUME NEW t \in Threads, StartReconcile(t) PROVE TypeInv'
  <2>1. TypeOK'
    BY <1>0, <1>11 DEF TypeOK, StartReconcile, exchange, gateway, Steps, Rounds
  <2> QED  BY <2>1, <1>11, LockedKept DEF StartReconcile
<1>12. ASSUME NEW t \in Threads, NextSymbol(t) PROVE TypeInv'
  <2>1. TypeOK'
    BY <1>0, <1>12 DEF TypeOK, NextSymbol, exchange, gateway, observed, Steps, Rounds
  <2> QED  BY <2>1, <1>12, LockedKept DEF NextSymbol
<1>13. ASSUME NEW t \in Threads, FindStale(t) PROVE TypeInv'
  <2>1. TypeOK'
    BY <1>0, <1>13 DEF TypeOK, FindStale, exchange, gateway, observed, Steps, Rounds
  <2> QED  BY <2>1, <1>13, LockedKept DEF FindStale
<1>14. ASSUME NEW t \in Threads, EndReconcile(t) PROVE TypeInv'
  <2>1. TypeOK'
    BY <1>0, <1>14 DEF TypeOK, EndReconcile, exchange, gateway, Steps
  <2> QED  BY <2>1, <1>14, LockedKept DEF EndReconcile
<1>15. ASSUME NEW t \in Threads, PreExitCancel(t) PROVE TypeInv'
  <2>1. key[t] \in Keys
    BY <1>0 DEF TypeOK
  <2>2. /\ stops' \in [Ids -> Nat] /\ Total(stops', Ids) <= Locked /\ Total(stops', Ids) \in Nat
        /\ resting' \in [Keys -> [id : Ids \cup {None}, qty : Nat]]
    BY <1>0, <1>15, <2>1, ForgetLowers DEF PreExitCancel, Locked
  <2>3. TypeOK'
    BY <2>1, <2>2, <1>0, <1>15 DEF TypeOK, PreExitCancel, observed, Steps
  <2> QED  BY <2>2, <2>3, <1>0, <1>15 DEF PreExitCancel, LockedIsHeld, Locked
<1>16. ASSUME NEW t \in Threads, ManageFlat(t) PROVE TypeInv'
  <2>1. key[t] \in Keys
    BY <1>0 DEF TypeOK
  <2>2. /\ stops' \in [Ids -> Nat] /\ Total(stops', Ids) <= Locked /\ Total(stops', Ids) \in Nat
        /\ resting' \in [Keys -> [id : Ids \cup {None}, qty : Nat]]
    BY <1>0, <1>16, <2>1, ForgetLowers DEF ManageFlat, Locked
  <2>3. TypeOK'
    BY <2>1, <2>2, <1>0, <1>16 DEF TypeOK, ManageFlat, observed, Steps
  <2> QED  BY <2>2, <2>3, <1>0, <1>16 DEF ManageFlat, LockedIsHeld, Locked
<1>17. ASSUME NEW t \in Threads, ManageRearm(t) PROVE TypeInv'
  <2>1. key[t] \in Keys
    BY <1>0 DEF TypeOK
  <2>2. /\ stops' \in [Ids -> Nat] /\ Total(stops', Ids) <= Locked /\ Total(stops', Ids) \in Nat
        /\ resting' \in [Keys -> [id : Ids \cup {None}, qty : Nat]]
    BY <1>0, <1>17, <2>1, ForgetLowers DEF ManageRearm, Locked
  <2>3. TypeOK'
    BY <2>1, <2>2, <1>0, <1>17 DEF TypeOK, ManageRearm, observed, Steps
  <2> QED  BY <2>2, <2>3, <1>0, <1>17 DEF ManageRearm, LockedIsHeld, Locked
<1>18. ASSUME NEW t \in Threads, ExecuteBuy(t) PROVE TypeInv'
  <2>1. TypeOK' /\ base' >= base /\ UNCHANGED stops
    BY <1>0, <1>18 DEF TypeOK, ExecuteBuy, gateway, observed, Steps
  <2> QED  BY <2>1, <1>0 DEF LockedIsHeld, Locked, TypeOK
<1>19. ASSUME NEW t \in Threads, ExecuteSell(t) PROVE TypeInv'
  <2>1. base' \in Nat /\ base' >= Locked
    BY <1>0, <1>19 DEF TypeOK, ExecuteSell, Free
  <2>2. lockedExit' \in BOOLEAN
    BY <1>0, <1>19, Zenon DEF TypeOK, ExecuteSell
  <2>3. pc' \in [Threads -> Steps] /\ tried' \in [Threads -> SUBSET Ids]
    BY <1>0, <1>19 DEF TypeOK, ExecuteSell, Steps
  <2>4. UNCHANGED <<stops, gateway, arg, ret, key, todo, lost, calm, setting>>
    BY <1>19 DEF ExecuteSell
  <2>5. TypeOK'
    BY <2>1, <2>2, <2>3, <2>4, <1>0 DEF TypeOK, gateway
  <2> QED  BY <2>1, <2>4, <2>5, <1>0 DEF LockedIsHeld, Locked
<1>20. ASSUME NEW t \in Threads, LoseAnswer(t) PROVE TypeInv'
  <2>1. PICK n \in 0..arg[t] :
          \/ base' = base + n /\ lost' = lost + n
          \/ n <= Free /\ base' = base - n /\ lost' = lost
    BY <1>20 DEF LoseAnswer
  <2>2. n \in Nat /\ lost \in Nat
    BY <1>0 DEF TypeOK
  <2>3. base' \in Nat /\ base' >= Locked /\ lost' \in Nat
    BY <1>0, <2>1, <2>2 DEF Free
  <2>4. /\ pc' \in [Threads -> Steps] /\ ret' \in [Threads -> {"idle"} \cup Rounds]
        /\ UNCHANGED <<stops, gateway, arg, key, todo, tried, calm, lockedExit, setting>>
    BY <1>0, <1>20 DEF TypeOK, LoseAnswer, Steps
  <2>5. TypeOK'
    BY <2>3, <2>4, <1>0 DEF TypeOK, gateway
  <2> QED  BY <2>3, <2>4, <2>5, <1>0 DEF LockedIsHeld, Locked
<1>21. ASSUME NEW t \in Threads, PlaceAccepted(t) PROVE TypeInv'
  <2>1. PICK i \in Ids :
          /\ PlaceStop(i, arg[t])
          /\ resting' = [resting EXCEPT ![key[t]] = [id |-> i, qty |-> arg[t]]]
    BY <1>21 DEF PlaceAccepted
  <2>2. arg[t] \in Nat /\ stops[i] \in Nat
    BY <1>0 DEF TypeOK
  <2>3. stops' \in [Ids -> Nat] /\ Total(stops', Ids) = Locked + arg[t] - stops[i]
    BY <2>1, <2>2, <1>0, LockedSet DEF PlaceStop, Locked
  <2>4. TypeOK'
    BY <2>1, <2>2, <2>3, <1>0, <1>21 DEF TypeOK, PlaceAccepted, observed, Steps
  <2>5. Total(stops', Ids) <= base' /\ base' = base
    BY <2>2, <2>3, <1>0, <1>21 DEF PlaceAccepted, Accepts, Free
  <2> QED  BY <2>4, <2>5 DEF LockedIsHeld, Locked
<1>22. ASSUME NEW t \in Threads, CancelAll(t) PROVE TypeInv'
  <2>1. stops' \in [Ids -> Nat] /\ Total(stops', Ids) <= Locked
    BY <1>0, <1>22, LockedNone DEF CancelAll, Locked
  <2>2. TypeOK'
    BY <2>1, <1>0, <1>22 DEF TypeOK, CancelAll, gateway, observed, Steps
  <2>3. Total(stops', Ids) \in Nat
    BY <2>1, LockedNat
  <2> QED  BY <2>1, <2>2, <2>3, <1>0, <1>22 DEF CancelAll, LockedIsHeld, Locked
<1>23. ASSUME NEW t \in Threads, DumpFree(t) PROVE TypeInv'
  <2>1. TypeOK' /\ base' >= Locked /\ UNCHANGED stops
    BY <1>0, <1>23 DEF TypeOK, DumpFree, observed, Steps, Free
  <2> QED  BY <2>1, <1>0 DEF LockedIsHeld, Locked, TypeOK
<1>24. ASSUME NEW i \in Ids, NEW how \in setting.faults, StopVanishes(i, how) PROVE TypeInv'
  <2>1. stops[i] \in Nat /\ stops' = [stops EXCEPT ![i] = 0] /\ stops[i] <= Locked
    BY <1>0, <1>24, LockedNat DEF StopVanishes, Locked
  <2>2. stops' \in [Ids -> Nat] /\ Total(stops', Ids) = Locked + 0 - stops[i]
    BY <2>1, <1>0, LockedSet DEF Locked
  <2>3. base' = base - stops[i] \/ base' = base
    BY <1>24 DEF StopVanishes
  <2>4. TypeOK'
    BY <2>1, <2>2, <2>3, <1>0, <1>24 DEF TypeOK, StopVanishes, gateway, control
  <2> QED  BY <2>1, <2>2, <2>3, <2>4, <1>0 DEF LockedIsHeld, Locked
<1>25. ASSUME NEW t \in Threads, Restart(t) PROVE TypeInv'
  <2>1. PICK seed \in Seeds : Boot(t, seed)
    BY <1>25 DEF Restart
  <2>2. seed \in Nat
    BY <1>0 DEF Seeds
  <2>3. TypeOK'
    BY <2>1, <2>2, <1>0 DEF TypeOK, Boot, SeedKey, exchange, Steps, Rounds, NoStop, Keys
  <2> QED  BY <2>1, <2>3, LockedKept DEF Boot
<1>26. CASE UNCHANGED vars
  BY <1>0, <1>26 DEF TypeOK, LockedIsHeld, Locked, vars
<1> QED
  BY <1>1, <1>2, <1>3, <1>4, <1>5, <1>6, <1>7, <1>8, <1>9, <1>10, <1>11, <1>12,
     <1>13, <1>14, <1>15, <1>16, <1>17, <1>18, <1>19, <1>20, <1>21, <1>22, <1>23,
     <1>24, <1>25, <1>26
  DEF Next, ThreadStep

(* Under every fault the exchange, the record and the threads stay well    *)
(* formed, and no stop locks base that is not there.                       *)
THEOREM TypeCorrect == Spec => []TypeInv
<1>1. Init => TypeInv
  BY TypeInit
<1>2. TypeInv /\ [Next]_vars => TypeInv'
  BY TypeNext
<1> QED  BY <1>1, <1>2, PTL DEF Spec

(* Which faults may happen never changes. *)
LEMMA SettingKept == [Next]_vars => UNCHANGED setting
BY DEF Next, ThreadStep, StartBuy, ExecuteBuy, BookBuy, StartSell, PreExitCancel, ExecuteSell,
       BookSell, LoseAnswer, ReadHeld, ManageFlat, ManageMatches, ManageRearm,
       PlaceSuppressed, PlaceAccepted, PlaceRefused, CancelAll, ReadFree, ReadFails, DumpFree,
       StartReconcile, NextSymbol, FindStale, EndReconcile, StopVanishes, Restart, Boot, vars

-----------------------------------------------------------------------------
(* A process that lives. *)

InLock == {"place", "cancel_all", "free", "cancel_again", "dump"}

(* The process does not die: of the keys only the traders' is ever used.   *)
Lives == ~May("crash")
Record == resting["trade"]

(* Cancels succeed too: no stop can be forgotten. *)
Remembers == Without({"cancel_fail", "crash"})

(* Stops leave the exchange only when the gateway cancels them. *)
Lasting == Without({"external_cancel", "trigger"})

(* The thread between the re-arm and the end of the flatten owns stop_mtx_, *)
(* and the record is empty until it is done.                               *)
LockOwner == \A t \in Threads : pc[t] \in InLock => mtx = t
Unarmed == mtx # None => Record = NoStop
OneKey ==
    /\ pos["other"] = 0 /\ resting["other"] = NoStop
    /\ \A t \in Threads : key[t] = "trade" /\ todo[t] \subseteq {"trade"}

LifeInv == LockOwner /\ Unarmed /\ OneKey

LEMMA LifeInit == Init => LifeInv
BY StopsAssumption
DEF Init, LifeInv, LockOwner, Unarmed, OneKey, InLock, Record, NoStop, None, Keys

LEMMA LifeNext ==
    ASSUME TypeOK, LifeInv, Lives, [Next]_vars
    PROVE  LifeInv'
<1>0. /\ pc \in [Threads -> Steps] /\ mtx \in Threads \cup {None} /\ None \notin Threads
      /\ ret \in [Threads -> {"idle"} \cup Rounds]
      /\ key \in [Threads -> Keys] /\ todo \in [Threads -> SUBSET Keys]
      /\ pos \in [Keys -> Nat] /\ resting \in [Keys -> [id : Ids \cup {None}, qty : Nat]]
      /\ "other" \in Keys /\ "trade" \in Keys
  BY StopsAssumption DEF TypeOK, Keys
<1> USE DEF Goto, InLock, LockOwner, Unarmed, OneKey, LifeInv, Record, Rounds
<1>1. ASSUME NEW t \in Threads, NEW q \in 1..setting.max, StartBuy(t, q) \/ StartSell(t, q)
      PROVE  LifeInv'
  BY <1>0, <1>1 DEF StartBuy, StartSell, gateway
<1>2. ASSUME NEW t \in Threads,
             ExecuteBuy(t) \/ ExecuteSell(t) \/ LoseAnswer(t)
      PROVE  LifeInv'
  BY <1>0, <1>2 DEF ExecuteBuy, ExecuteSell, LoseAnswer, gateway
<1>3. ASSUME NEW t \in Threads, BookBuy(t) \/ BookSell(t)
      PROVE  LifeInv'
  BY <1>0, <1>3 DEF BookBuy, BookSell
<1>4. ASSUME NEW t \in Threads, PreExitCancel(t) \/ ManageFlat(t) \/ ManageRearm(t)
      PROVE  LifeInv'
  BY <1>0, <1>4 DEF PreExitCancel, ManageFlat, ManageRearm, Forget
<1>5. ASSUME NEW t \in Threads,
             \/ ReadHeld(t) \/ ManageMatches(t) \/ PlaceSuppressed(t) \/ PlaceRefused(t)
      PROVE  LifeInv'
  BY <1>0, <1>5 DEF ReadHeld, ManageMatches, PlaceSuppressed, PlaceRefused, gateway
<1>6. ASSUME NEW t \in Threads, PlaceAccepted(t)
      PROVE  LifeInv'
  BY <1>0, <1>6 DEF PlaceAccepted
<1>7. ASSUME NEW t \in Threads, CancelAll(t) \/ ReadFree(t) \/ ReadFails(t) \/ DumpFree(t)
      PROVE  LifeInv'
  BY <1>0, <1>7 DEF CancelAll, ReadFree, ReadFails, DumpFree, gateway
<1>8. ASSUME NEW t \in Threads, StartReconcile(t) \/ FindStale(t)
      PROVE  LifeInv'
  <2>1. /\ UNCHANGED <<gateway, key>>
        /\ \A u \in Threads : pc'[u] \in InLock => pc[u] \in InLock
        /\ todo' = [todo EXCEPT ![t] = {k \in Keys : pos[k] > 0}]
           \/ todo' = [todo EXCEPT ![t] = {k \in Keys : resting[k].id # None /\ pos[k] = 0}]
    BY <1>0, <1>8 DEF StartReconcile, FindStale
  <2>2. \A u \in Threads : todo'[u] \subseteq {"trade"}
    BY <1>0, <2>1 DEF Keys, NoStop
  <2> QED  BY <1>0, <2>1, <2>2 DEF gateway
<1>9. ASSUME NEW t \in Threads, NextSymbol(t) \/ EndReconcile(t)
      PROVE  LifeInv'
  BY <1>0, <1>9 DEF NextSymbol, EndReconcile, gateway
<1>10. ASSUME NEW t \in Threads, Restart(t)
       PROVE  LifeInv'
  BY <1>10 DEF Restart, Lives
<1>11. ASSUME NEW i \in Ids, NEW how \in setting.faults, StopVanishes(i, how)
       PROVE  LifeInv'
  BY <1>0, <1>11 DEF StopVanishes, gateway, control
<1>12. CASE UNCHANGED vars
  BY <1>0, <1>12 DEF vars
<1> QED  BY <1>1, <1>2, <1>3, <1>4, <1>5, <1>6, <1>7, <1>8, <1>9, <1>10, <1>11, <1>12
         DEF Next, ThreadStep

(* What a cancel of the recorded stop, or a new record, does to the record. *)
LEMMA ForgetRecord ==
    ASSUME TypeOK, OneKey, NEW t \in Threads, Forget(key[t])
    PROVE  /\ Record' = NoStop
           /\ IF Record.id = None THEN UNCHANGED stops ELSE CancelStop(Record.id)
BY DEF TypeOK, OneKey, Forget, Record, Keys

(* What a step that moves no other key does to the traders' key. *)
LEMMA RecordAccepted ==
    ASSUME TypeOK, OneKey, NEW t \in Threads, PlaceAccepted(t)
    PROVE  \E i \in Ids : PlaceStop(i, arg[t]) /\ Record' = [id |-> i, qty |-> arg[t]]
BY DEF TypeOK, OneKey, PlaceAccepted, Record, Keys

-----------------------------------------------------------------------------
(* The record of the resting stop. *)

(* Nothing rests but what the record names, and that does rest if stops last. *)
NoOrphan == \A i \in Ids : stops[i] # 0 => i = Record.id
Present == Lasting => \A i \in Ids : i = Record.id => stops[i] = Record.qty

RecordInv == LifeInv /\ NoOrphan /\ Present

LEMMA RecordInit == Init => RecordInv
BY LifeInit, StopsAssumption DEF Init, RecordInv, NoOrphan, Present, Record, NoStop, None, Keys

(* A cancel of the recorded stop leaves nothing resting. *)
LEMMA CancelClears ==
    ASSUME Remembers, TypeOK, OneKey, NoOrphan, NEW t \in Threads, Forget(key[t]),
           UNCHANGED setting
    PROVE  /\ Record' = NoStop
           /\ \A i \in Ids : stops'[i] = 0
           /\ NoOrphan' /\ Present'
<1>1. stops \in [Ids -> Nat] /\ None \notin Ids
  BY StopsAssumption DEF TypeOK
<1>2. /\ Record' = NoStop
      /\ IF Record.id = None THEN UNCHANGED stops ELSE CancelStop(Record.id)
  BY ForgetRecord
<1>3. \A i \in Ids : stops'[i] = 0
  <2>1. CASE Record.id = None
    BY <1>1, <1>2, <2>1 DEF NoOrphan
  <2>2. CASE Record.id # None
    <3>1. stops' = [stops EXCEPT ![Record.id] = 0]
      BY <1>2, <2>2 DEF CancelStop, Remembers, Without, May
    <3> QED  BY <1>1, <3>1 DEF NoOrphan
  <2> QED  BY <2>1, <2>2
<1> QED  BY <1>1, <1>2, <1>3 DEF NoOrphan, Present, NoStop

(* Steps that touch neither the record nor the stops. *)
LEMMA RecordKept ==
    ASSUME RecordInv, LifeInv', UNCHANGED <<stops, resting, setting>>
    PROVE  RecordInv'
BY DEF RecordInv, NoOrphan, Present, Lasting, Without, Record

LEMMA RecordNext == Remembers /\ TypeOK /\ RecordInv /\ [Next]_vars => RecordInv'
<1> SUFFICES ASSUME Remembers, TypeOK, RecordInv, [Next]_vars PROVE RecordInv'
  OBVIOUS
<1>0. /\ LockOwner /\ Unarmed /\ OneKey /\ NoOrphan /\ Present /\ LifeInv /\ Lives
      /\ pc \in [Threads -> Steps] /\ stops \in [Ids -> Nat]
      /\ None \notin Threads /\ None \notin Ids
  BY StopsAssumption DEF RecordInv, LifeInv, TypeOK, Remembers, Lives, Without, May
<1>a. LifeInv' /\ UNCHANGED setting
  BY <1>0, LifeNext, SettingKept
<1>1. ASSUME NEW t \in Threads, NEW q \in 1..setting.max, StartBuy(t, q) \/ StartSell(t, q)
      PROVE RecordInv'
  BY <1>a, <1>1, RecordKept DEF StartBuy, StartSell, exchange, gateway
<1>2. ASSUME NEW t \in Threads,
             \/ ExecuteBuy(t) \/ BookBuy(t) \/ ExecuteSell(t) \/ BookSell(t) \/ LoseAnswer(t)
      PROVE  RecordInv'
  BY <1>a, <1>2, RecordKept
  DEF ExecuteBuy, BookBuy, ExecuteSell, BookSell, LoseAnswer, exchange, gateway
<1>3. ASSUME NEW t \in Threads, PreExitCancel(t) \/ ManageFlat(t) \/ ManageRearm(t)
      PROVE  RecordInv'
  <2>1. Forget(key[t])
    BY <1>3 DEF PreExitCancel, ManageFlat, ManageRearm
  <2> QED  BY <1>0, <1>a, <2>1, CancelClears DEF RecordInv
<1>4. ASSUME NEW t \in Threads,
             \/ ReadHeld(t) \/ ManageMatches(t) \/ PlaceSuppressed(t) \/ PlaceRefused(t)
             \/ ReadFree(t) \/ ReadFails(t) \/ DumpFree(t)
      PROVE  RecordInv'
  BY <1>a, <1>4, RecordKept
  DEF ReadHeld, ManageMatches, PlaceSuppressed, PlaceRefused, ReadFree, ReadFails, DumpFree,
      exchange, gateway
<1>5. ASSUME NEW t \in Threads,
             StartReconcile(t) \/ NextSymbol(t) \/ FindStale(t) \/ EndReconcile(t)
      PROVE  RecordInv'
  BY <1>a, <1>5, RecordKept
  DEF StartReconcile, NextSymbol, FindStale, EndReconcile, exchange, gateway
<1>6. ASSUME NEW t \in Threads, PlaceAccepted(t) PROVE RecordInv'
  <2>1. Record = NoStop
    BY <1>0, <1>6 DEF PlaceAccepted, LockOwner, InLock, Unarmed
  <2>2. PICK i \in Ids : PlaceStop(i, arg[t]) /\ Record' = [id |-> i, qty |-> arg[t]]
    BY <1>0, <1>6, RecordAccepted
  <2>3. \A j \in Ids : stops[j] = 0
    BY <1>0, <2>1 DEF NoOrphan, NoStop
  <2>4. NoOrphan' /\ Present'
    BY <1>0, <2>2, <2>3 DEF NoOrphan, Present, PlaceStop
  <2> QED  BY <1>a, <2>4 DEF RecordInv
<1>7. ASSUME NEW t \in Threads, CancelAll(t) PROVE RecordInv'
  <2>1. Record = NoStop /\ Record' = NoStop
    BY <1>0, <1>7 DEF CancelAll, LockOwner, InLock, Unarmed, gateway, Record
  <2>2. \A j \in Ids : stops'[j] = 0
    BY <1>0, <1>7 DEF CancelAll, Remembers, Without, May
  <2> QED  BY <1>0, <1>a, <2>1, <2>2 DEF RecordInv, NoOrphan, Present, NoStop
<1>8. ASSUME NEW i \in Ids, NEW how \in setting.faults, StopVanishes(i, how) PROVE RecordInv'
  <2>1. UNCHANGED Record /\ stops' = [stops EXCEPT ![i] = 0] /\ ~Lasting
    BY <1>8 DEF StopVanishes, Lasting, Without, May, gateway, Record
  <2>2. NoOrphan' /\ Present'
    BY <1>0, <1>a, <2>1 DEF NoOrphan, Present, Lasting, Without
  <2> QED  BY <1>a, <2>2 DEF RecordInv
<1>9. ASSUME NEW t \in Threads, Restart(t) PROVE RecordInv'
  BY <1>0, <1>9 DEF Restart, Lives
<1>10. CASE UNCHANGED vars
  BY <1>a, <1>10, RecordKept DEF vars
<1> QED  BY <1>1, <1>2, <1>3, <1>4, <1>5, <1>6, <1>7, <1>8, <1>9, <1>10 DEF Next, ThreadStep

LEMMA RecordInvariant == Spec => [](TypeInv /\ (Remembers => RecordInv))
<1> DEFINE Inv == TypeInv /\ (Remembers => RecordInv)
<1>1. Init => Inv
  BY TypeInit, RecordInit
<1>2. Inv /\ [Next]_vars => Inv'
  <2> SUFFICES ASSUME Inv, [Next]_vars PROVE Inv'
    OBVIOUS
  <2>1. TypeInv'
    BY TypeNext
  <2>2. Remembers' <=> Remembers
    BY SettingKept DEF Remembers, Without
  <2> QED  BY <2>1, <2>2, RecordNext DEF TypeInv
<1> QED  BY <1>1, <1>2, PTL DEF Spec

(* Any number of threads may trade and reconcile at once, stops may be     *)
(* refused, flattens may fail and answers may be lost: as long as cancels  *)
(* succeed, the process lives and stops do not vanish, resting_stop_ is    *)
(* exactly what rests.                                                     *)
THEOREM RecordExact == Spec => []StopsMatchRecord
<1>1. ASSUME TypeInv, Remembers => RecordInv PROVE StopsMatchRecord
  <2> SUFFICES ASSUME Without({"cancel_fail", "crash", "external_cancel", "trigger"})
               PROVE  /\ \A i \in Ids : Resting(i) => \E k \in Keys : resting[k].id = i
                      /\ \A k \in Keys : resting[k].id # None =>
                            stops[resting[k].id] = resting[k].qty
    BY DEF StopsMatchRecord
  <2>1. RecordInv /\ Lasting
    BY <1>1 DEF Remembers, Lasting, Without
  <2>a. resting["other"].id = None
    BY <2>1 DEF RecordInv, LifeInv, OneKey, NoStop
  <2>2. /\ stops \in [Ids -> Nat] /\ resting["other"].id = None /\ None \notin Ids
        /\ Record.id \in Ids \cup {None}
    BY <1>1, <2>a, StopsAssumption DEF TypeInv, TypeOK, Record, Keys
  <2>3. \A i \in Ids : Resting(i) => i = Record.id
    BY <2>1, <2>2 DEF RecordInv, NoOrphan, Resting
  <2>4. Record.id # None => stops[Record.id] = Record.qty
    BY <2>1, <2>2 DEF RecordInv, Present
  <2> QED  BY <2>2, <2>3, <2>4 DEF Record, Keys
<1> QED  BY <1>1, RecordInvariant, PTL

-----------------------------------------------------------------------------
(* A gateway that one thread drives. *)

Alone == \E t : Threads = {t}

(* Nothing on record, hence nothing resting, when the thread sells. *)
SellInv(t) ==
    /\ pc[t] = "sell" => Record = NoStop
    /\ ~lockedExit

(* With no orphan and no record all the base is free. *)
LEMMA AllFree ==
    ASSUME TypeInv, NoOrphan, Record = NoStop
    PROVE  Free = base /\ \A i \in Ids : stops[i] = 0
<1>1. stops \in [Ids -> Nat] /\ None \notin Ids /\ base \in Nat
  BY StopsAssumption DEF TypeInv, TypeOK
<1>2. \A i \in Ids : stops[i] = 0
  BY <1>1 DEF NoOrphan, NoStop
<1>3. Total(stops, Ids) = 0
  BY <1>1, <1>2, LockedNat
<1> QED  BY <1>1, <1>2, <1>3 DEF Free, Locked

LEMMA SellNext ==
    ASSUME NEW me, Threads = {me}, TypeInv, Remembers, RecordInv, SellInv(me), [Next]_vars
    PROVE  SellInv(me)'
<1>0. /\ pc \in [Threads -> Steps] /\ me \in Threads /\ OneKey /\ NoOrphan /\ TypeOK /\ Lives
      /\ arg \in [Threads -> Nat] /\ base \in Nat /\ ret \in [Threads -> {"idle"} \cup Rounds]
      /\ UNCHANGED setting
  BY SettingKept DEF TypeInv, TypeOK, RecordInv, LifeInv, Remembers, Lives, Without, May
<1> USE DEF Goto, SellInv
<1>1. ASSUME NEW t \in Threads, PreExitCancel(t) PROVE SellInv(me)'
  <2>1. Record' = NoStop
    BY <1>0, <1>1, CancelClears DEF PreExitCancel
  <2> QED  BY <2>1, <1>1 DEF PreExitCancel, observed
<1>2. ASSUME NEW t \in Threads, ExecuteSell(t) PROVE SellInv(me)'
  <2>1. t = me /\ pc[me] = "sell" /\ Free = base
    BY <1>0, <1>2, AllFree DEF ExecuteSell
  <2>2. CASE arg[me] <= Free
    BY <1>0, <1>2, <2>1, <2>2 DEF ExecuteSell
  <2>3. CASE ~(arg[me] <= Free)
    <3>1. pc'[me] = "idle" /\ lockedExit' = (lockedExit \/ arg[me] <= base)
      BY <1>0, <1>2, <2>1, <2>3, Zenon DEF ExecuteSell
    <3>2. ~(arg[me] <= base)
      BY <2>1, <2>3
    <3> QED  BY <3>1, <3>2, Zenon
  <2> QED  BY <2>2, <2>3
<1>3. ASSUME NEW t \in Threads, NEW q \in 1..setting.max, StartBuy(t, q) \/ StartSell(t, q)
      PROVE SellInv(me)'
  BY <1>0, <1>3 DEF StartBuy, StartSell
<1>4. ASSUME NEW t \in Threads, ExecuteBuy(t) \/ BookBuy(t) \/ BookSell(t) \/ LoseAnswer(t)
      PROVE  SellInv(me)'
  BY <1>0, <1>4 DEF ExecuteBuy, BookBuy, BookSell, LoseAnswer, observed
<1>5. ASSUME NEW t \in Threads,
             \/ ReadHeld(t) \/ ManageFlat(t) \/ ManageMatches(t) \/ ManageRearm(t)
             \/ PlaceSuppressed(t) \/ PlaceAccepted(t) \/ PlaceRefused(t)
      PROVE  SellInv(me)'
  BY <1>0, <1>5
  DEF ReadHeld, ManageFlat, ManageMatches, ManageRearm, PlaceSuppressed, PlaceAccepted,
      PlaceRefused, observed, Rounds
<1>6. ASSUME NEW t \in Threads,
             \/ CancelAll(t) \/ ReadFree(t) \/ ReadFails(t) \/ DumpFree(t)
             \/ StartReconcile(t) \/ NextSymbol(t) \/ FindStale(t) \/ EndReconcile(t)
      PROVE  SellInv(me)'
  BY <1>0, <1>6
  DEF CancelAll, ReadFree, ReadFails, DumpFree, StartReconcile, NextSymbol, FindStale,
      EndReconcile, observed, Rounds
<1>7. ASSUME NEW i \in Ids, NEW how \in setting.faults, StopVanishes(i, how)
      PROVE  SellInv(me)'
  BY <1>7 DEF StopVanishes, gateway, control, Record
<1>8. ASSUME NEW t \in Threads, Restart(t) PROVE SellInv(me)'
  BY <1>0, <1>8 DEF Restart, Lives
<1>9. CASE UNCHANGED vars
  BY <1>9 DEF vars, Record
<1> QED  BY <1>1, <1>2, <1>3, <1>4, <1>5, <1>6, <1>7, <1>8, <1>9 DEF Next, ThreadStep

LEMMA SellInvariant ==
    ASSUME NEW me, Threads = {me}
    PROVE  Spec => [](TypeInv /\ (Remembers => RecordInv /\ SellInv(me)))
<1> DEFINE Inv == TypeInv /\ (Remembers => RecordInv /\ SellInv(me))
<1>1. Init => Inv
  <2>1. ASSUME Init PROVE SellInv(me)
    BY <2>1 DEF Init, SellInv
  <2> QED  BY <2>1, TypeInit, RecordInit
<1>2. Inv /\ [Next]_vars => Inv'
  <2> SUFFICES ASSUME Inv, [Next]_vars PROVE Inv'
    OBVIOUS
  <2>1. TypeInv'
    BY TypeNext
  <2>2. Remembers' <=> Remembers
    BY SettingKept DEF Remembers, Without
  <2> QED  BY <2>1, <2>2, RecordNext, SellNext DEF TypeInv
<1> QED  BY <1>1, <1>2, PTL DEF Spec

(* One thread, cancels that succeed and coins bought in this life: however *)
(* much an exit asks for, whatever stops are refused, vanish or trigger    *)
(* and whatever answers are lost, no exit is ever refused over base the    *)
(* gateway's stop locks.                                                   *)
THEOREM ExitsGoThrough == Alone => (Spec => []ExitNeverLocked)
<1> SUFFICES ASSUME NEW me, Threads = {me}  PROVE Spec => []ExitNeverLocked
  BY DEF Alone
<1>1. (Remembers => RecordInv /\ SellInv(me)) => ExitNeverLocked
  BY DEF SellInv, ExitNeverLocked, Remembers
<1> QED  BY <1>1, SellInvariant, PTL

(* And every exit sells only after the stops that rest were cancelled by   *)
(* this very attempt: nothing rests when it sells.                         *)
THEOREM ExitsCancelFirst == Alone => (Spec => []ExitCancelsEveryStop)
<1> SUFFICES ASSUME NEW me, Threads = {me}  PROVE Spec => []ExitCancelsEveryStop
  BY DEF Alone
<1>1. ASSUME TypeInv, Remembers => RecordInv /\ SellInv(me)  PROVE ExitCancelsEveryStop
  <2> SUFFICES ASSUME Remembers, pc[me] = "sell"
               PROVE  \A i \in Ids : ~Resting(i)
    BY DEF ExitCancelsEveryStop, Remembers
  <2> QED  BY <1>1, AllFree DEF SellInv, RecordInv, Resting
<1> QED  BY <1>1, SellInvariant, PTL

-----------------------------------------------------------------------------
(* What the ledger knows, whatever the threads do. *)

(* While the process lives and stops are not cancelled by hand. *)
Watched == Without({"crash", "external_cancel"})

(* The lots that the recorded stop still locks, and the lots that are in   *)
(* the ledger or were bought unnoticed.                                    *)
Own == IF Record.id = None THEN 0 ELSE stops[Record.id]
Known == pos["trade"] + lost

(* What the threads have traded and not booked yet. *)
Bought == [t \in Threads |-> IF pc[t] = "book_buy" THEN arg[t] ELSE 0]
Sold == [t \in Threads |-> IF pc[t] = "book_sell" THEN arg[t] ELSE 0]
ToBuy == Total(Bought, Threads)
ToSell == Total(Sold, Threads)

(* All that is held is known, and all that is not under the recorded stop, *)
(* which locks no more than the record says.                               *)
KnownInv ==
    /\ Own <= Record.qty
    /\ base + ToSell <= Known + ToBuy
    /\ Free + Record.qty + ToSell <= Known + ToBuy

LEMMA KnownTypes ==
    ASSUME TypeInv
    PROVE  /\ Own \in Nat /\ Known \in Nat /\ Free \in Nat /\ Free <= base /\ Locked \in Nat
           /\ Record.id \in Ids \cup {None} /\ Record.qty \in Nat
           /\ pos["trade"] \in Nat /\ lost \in Nat /\ None \notin Ids
<1>1. /\ stops \in [Ids -> Nat] /\ base \in Nat /\ Locked <= base
      /\ Record.id \in Ids \cup {None} /\ Record.qty \in Nat /\ None \notin Ids
      /\ pos["trade"] \in Nat /\ lost \in Nat
  BY StopsAssumption DEF TypeInv, TypeOK, LockedIsHeld, Record, Keys
<1>2. Locked \in Nat
  BY <1>1, LockedNat DEF Locked
<1> QED  BY <1>1, <1>2 DEF Own, Known, Free

(* A step that leaves the lots, the stops and the record alone. *)
LEMMA FreeKept ==
    ASSUME UNCHANGED <<base, stops, resting>>
    PROVE  Free' = Free /\ Own' = Own /\ Record' = Record
BY DEF Free, Locked, Own, Record

(* The recorded stop is cancelled, or stays where that may fail, and the   *)
(* record is dropped.                                                      *)
LEMMA FreeCancelled ==
    ASSUME TypeInv, OneKey, NEW t \in Threads, Forget(key[t]), UNCHANGED base
    PROVE  Record' = NoStop /\ Own' = 0 /\ (Free' = Free + Own \/ Free' = Free)
<1>1. /\ stops \in [Ids -> Nat] /\ base \in Nat /\ Locked \in Nat
      /\ Record.id \in Ids \cup {None} /\ None \notin Ids
  BY KnownTypes DEF TypeInv, TypeOK
<1>2. /\ Record' = NoStop
      /\ IF Record.id = None THEN UNCHANGED stops ELSE CancelStop(Record.id)
  BY ForgetRecord DEF TypeInv
<1>3. Own' = 0
  BY <1>2 DEF Own, NoStop
<1>4. CASE UNCHANGED stops
  BY <1>2, <1>3, <1>4 DEF Free, Locked
<1>5. CASE Record.id # None /\ stops' = [stops EXCEPT ![Record.id] = 0]
  <2>1. Total(stops', Ids) = Locked + 0 - stops[Record.id] /\ stops[Record.id] \in Nat
    BY <1>1, <1>5, LockedSet DEF Locked
  <2>2. Free' = Free + Own
    BY <1>1, <1>5, <2>1 DEF Free, Locked, Own
  <2> QED  BY <1>2, <1>3, <2>2
<1> QED  BY <1>2, <1>4, <1>5 DEF CancelStop

(* A thread moves and no other does: only its own trade can change the sums. *)
LEMMA PendingMoves ==
    ASSUME TypeOK, TypeOK', NEW t \in Threads,
           \A u \in Threads \ {t} : pc'[u] = pc[u] /\ arg'[u] = arg[u]
    PROVE  /\ ToBuy \in Nat /\ ToSell \in Nat /\ ToBuy' \in Nat /\ ToSell' \in Nat
           /\ ToBuy' + Bought[t] = ToBuy + Bought'[t]
           /\ ToSell' + Sold[t] = ToSell + Sold'[t]
<1>1. /\ Bought \in [Threads -> Nat] /\ Bought' \in [Threads -> Nat]
      /\ Sold \in [Threads -> Nat] /\ Sold' \in [Threads -> Nat]
  BY DEF TypeOK, Bought, Sold
<1>2. \A u \in Threads \ {t} : Bought'[u] = Bought[u] /\ Sold'[u] = Sold[u]
  BY DEF Bought, Sold
<1>3. IsFiniteSet(Threads)
  BY StopsAssumption
<1>5. /\ ToBuy \in Nat /\ ToBuy' \in Nat
      /\ ToBuy' + Bought[t] = ToBuy + Bought'[t]
  BY <1>1, <1>2, <1>3, TotalMoves DEF ToBuy
<1>6. /\ ToSell \in Nat /\ ToSell' \in Nat
      /\ ToSell' + Sold[t] = ToSell + Sold'[t]
  BY <1>1, <1>2, <1>3, TotalMoves DEF ToSell
<1> QED  BY <1>5, <1>6

(* A step that neither trades nor touches the lots, the stops or the record. *)
LEMMA KnownKept ==
    ASSUME TypeInv, TypeOK', KnownInv, UNCHANGED <<base, stops, resting, pos, lost>>,
           NEW t \in Threads,
           \A u \in Threads \ {t} : pc'[u] = pc[u] /\ arg'[u] = arg[u],
           {pc[t], pc'[t]} \cap {"book_buy", "book_sell"} = {}
    PROVE  KnownInv'
<1>1. Free' = Free /\ Own' = Own /\ Record' = Record /\ Known' = Known
  BY FreeKept DEF Known
<1>2. Bought[t] = 0 /\ Sold[t] = 0 /\ Bought'[t] = 0 /\ Sold'[t] = 0
  BY DEF Bought, Sold
<1>3. ToBuy' = ToBuy /\ ToSell' = ToSell
  BY <1>2, PendingMoves DEF TypeInv
<1> QED  BY <1>1, <1>3 DEF KnownInv

(* A step that cancels the recorded stop, or fails to, and drops the record. *)
LEMMA KnownCancelled ==
    ASSUME TypeInv, TypeOK', OneKey, KnownInv, UNCHANGED <<base, pos, lost, arg>>,
           NEW t \in Threads, Forget(key[t]),
           \A u \in Threads \ {t} : pc'[u] = pc[u],
           {pc[t], pc'[t]} \cap {"book_buy", "book_sell"} = {}
    PROVE  KnownInv'
<1>1. Record' = NoStop /\ Own' = 0 /\ (Free' = Free + Own \/ Free' = Free) /\ Known' = Known
  BY FreeCancelled DEF Known
<1>2. Bought[t] = 0 /\ Sold[t] = 0 /\ Bought'[t] = 0 /\ Sold'[t] = 0
  BY DEF Bought, Sold
<1>3. ToBuy' = ToBuy /\ ToSell' = ToSell /\ ToBuy \in Nat /\ ToSell \in Nat
  BY <1>2, PendingMoves DEF TypeInv
<1>4. Own \in Nat /\ Free \in Nat /\ Record.qty \in Nat /\ Known \in Nat /\ Record'.qty = 0
  BY <1>1, KnownTypes DEF NoStop
<1> QED  BY <1>1, <1>3, <1>4 DEF KnownInv

LEMMA KnownNext ==
    ASSUME TypeInv, LifeInv, Watched, KnownInv, [Next]_vars
    PROVE  KnownInv'
<1>0. /\ pc \in [Threads -> Steps] /\ arg \in [Threads -> Nat]
      /\ ret \in [Threads -> {"idle"} \cup Rounds]
      /\ pos \in [Keys -> Nat] /\ pos["trade"] \in Nat /\ lost \in Nat /\ Known \in Nat
      /\ base \in Nat /\ stops \in [Ids -> Nat]
      /\ Record.id \in Ids \cup {None} /\ Record.qty \in Nat /\ None \notin Ids
      /\ Own \in Nat /\ Free \in Nat /\ Free <= base /\ Locked \in Nat
      /\ ~May("crash") /\ ~May("external_cancel") /\ OneKey /\ TypeOK
      /\ \A t \in Threads : key[t] = "trade"
      /\ "trade" \in Keys
  BY KnownTypes DEF TypeInv, TypeOK, Watched, Without, May, LifeInv, OneKey, Keys
<1>a. TypeInv' /\ TypeOK'
  BY TypeNext DEF TypeInv
<1>b. \A t \in Threads : pc[t] \in InLock => Record = NoStop
  <2>1. None \notin Threads
    BY StopsAssumption
  <2> QED  BY <2>1 DEF LifeInv, LockOwner, Unarmed
<1> USE DEF Goto
<1>1. ASSUME NEW t \in Threads, NEW q \in 1..setting.max, StartBuy(t, q) \/ StartSell(t, q)
      PROVE  KnownInv'
  BY <1>0, <1>a, <1>1, KnownKept DEF StartBuy, StartSell, exchange, gateway
<1>2. ASSUME NEW t \in Threads,
             ReadHeld(t) \/ ManageMatches(t) \/ ReadFree(t) \/ ReadFails(t)
      PROVE  KnownInv'
  BY <1>0, <1>a, <1>2, KnownKept
  DEF ReadHeld, ManageMatches, ReadFree, ReadFails, exchange, gateway, observed, Rounds
<1>c. ASSUME NEW t \in Threads,
             StartReconcile(t) \/ NextSymbol(t) \/ FindStale(t) \/ EndReconcile(t)
      PROVE  KnownInv'
  BY <1>0, <1>a, <1>c, KnownKept
  DEF StartReconcile, NextSymbol, FindStale, EndReconcile, exchange, gateway, observed, Rounds
<1>3. ASSUME NEW t \in Threads, PlaceSuppressed(t) \/ PlaceRefused(t)
      PROVE  KnownInv'
  BY <1>0, <1>a, <1>3, KnownKept DEF PlaceSuppressed, PlaceRefused, exchange, observed, Rounds
<1>4. ASSUME NEW t \in Threads, PreExitCancel(t) \/ ManageFlat(t) \/ ManageRearm(t)
      PROVE  KnownInv'
  BY <1>0, <1>a, <1>4, KnownCancelled
  DEF PreExitCancel, ManageFlat, ManageRearm, observed, Rounds
<1>5. ASSUME NEW t \in Threads, ExecuteBuy(t) PROVE KnownInv'
  <2>1. /\ base' = base + arg[t] /\ UNCHANGED <<stops, resting, pos, lost>>
        /\ Bought[t] = 0 /\ Sold[t] = 0 /\ Bought'[t] = arg[t] /\ Sold'[t] = 0
    BY <1>0, <1>5 DEF ExecuteBuy, gateway, observed, Bought, Sold
  <2>2. ToBuy' = ToBuy + arg[t] /\ ToSell' = ToSell /\ ToBuy \in Nat /\ ToSell \in Nat
    BY <1>0, <1>a, <1>5, <2>1, PendingMoves DEF ExecuteBuy, TypeInv
  <2>3. Free' = Free + arg[t] /\ Own' = Own /\ Record' = Record /\ Known' = Known
    BY <1>0, <2>1 DEF Free, Locked, Own, Record, Known
  <2> QED  BY <1>0, <2>1, <2>2, <2>3 DEF KnownInv
<1>6. ASSUME NEW t \in Threads, BookBuy(t) PROVE KnownInv'
  <2>1. /\ pos'["trade"] = pos["trade"] + arg[t] /\ UNCHANGED <<base, stops, resting, lost>>
        /\ Bought[t] = arg[t] /\ Sold[t] = 0 /\ Bought'[t] = 0 /\ Sold'[t] = 0
    BY <1>0, <1>6 DEF BookBuy, exchange, observed, Bought, Sold
  <2>2. ToBuy' + arg[t] = ToBuy /\ ToSell' = ToSell /\ ToBuy' \in Nat /\ ToSell \in Nat
    BY <1>0, <1>a, <1>6, <2>1, PendingMoves DEF BookBuy, TypeInv
  <2>3. Free' = Free /\ Own' = Own /\ Record' = Record
    BY <2>1, FreeKept
  <2>4. Known' = Known + arg[t]
    BY <1>0, <2>1 DEF Known
  <2> QED  BY <1>0, <2>1, <2>2, <2>3, <2>4 DEF KnownInv
<1>7. ASSUME NEW t \in Threads, ExecuteSell(t) PROVE KnownInv'
  <2>1. /\ UNCHANGED <<stops, resting, pos, lost>> /\ arg[t] \in Nat
        /\ Bought[t] = 0 /\ Sold[t] = 0 /\ Bought'[t] = 0
        /\ \/ base' = base - arg[t] /\ Sold'[t] = arg[t]
           \/ base' = base /\ Sold'[t] = 0
    BY <1>0, <1>7 DEF ExecuteSell, gateway, Bought, Sold
  <2>2. ToBuy' = ToBuy /\ ToSell' = ToSell + Sold'[t] /\ ToBuy \in Nat /\ ToSell \in Nat
    BY <1>0, <1>a, <1>7, <2>1, PendingMoves DEF ExecuteSell, TypeInv
  <2>3. /\ Free' = base' - Locked /\ Free = base - Locked /\ Own' = Own /\ Record' = Record
        /\ Known' = Known
    BY <1>0, <2>1 DEF Free, Locked, Own, Record, Known
  <2> QED  BY <1>0, <2>1, <2>2, <2>3 DEF KnownInv
<1>8. ASSUME NEW t \in Threads, BookSell(t) PROVE KnownInv'
  <2>1. /\ pos'["trade"] = IF arg[t] > pos["trade"] THEN 0 ELSE pos["trade"] - arg[t]
        /\ UNCHANGED <<base, stops, resting, lost>> /\ arg[t] \in Nat
        /\ Bought[t] = 0 /\ Sold[t] = arg[t] /\ Bought'[t] = 0 /\ Sold'[t] = 0
    BY <1>0, <1>8 DEF BookSell, exchange, observed, Bought, Sold
  <2>2. ToBuy' = ToBuy /\ ToSell' + arg[t] = ToSell /\ ToBuy \in Nat /\ ToSell' \in Nat
    BY <1>0, <1>a, <1>8, <2>1, PendingMoves DEF BookSell, TypeInv
  <2>3. Free' = Free /\ Own' = Own /\ Record' = Record
    BY <2>1, FreeKept
  <2>4. Known' \in Nat /\ Known <= Known' + arg[t]
    BY <1>0, <2>1 DEF Known
  <2>5. PICK known \in Nat : Known' = known /\ Known <= known + arg[t]
    BY <2>4
  <2>6. PICK sold \in Nat : ToSell' = sold /\ sold + arg[t] = ToSell
    BY <2>2
  <2>7. base + sold <= known + ToBuy
    BY <1>0, <2>1, <2>2, <2>5, <2>6 DEF KnownInv
  <2>8. Free + Record.qty + sold <= known + ToBuy
    BY <1>0, <2>1, <2>2, <2>5, <2>6 DEF KnownInv
  <2> QED  BY <2>1, <2>2, <2>3, <2>5, <2>6, <2>7, <2>8 DEF KnownInv
<1>d. ASSUME NEW t \in Threads, LoseAnswer(t) PROVE KnownInv'
  <2>1. PICK n \in 0..arg[t] :
          \/ base' = base + n /\ lost' = lost + n
          \/ n <= Free /\ base' = base - n /\ lost' = lost
    BY <1>d DEF LoseAnswer
  <2>2. /\ UNCHANGED <<stops, resting, pos, arg>> /\ n \in Nat
        /\ pc[t] \in {"buy", "sell"} /\ pc'[t] \in {"idle", "read"}
        /\ \A u \in Threads \ {t} : pc'[u] = pc[u]
    BY <1>0, <1>d DEF LoseAnswer, gateway
  <2>3. ToBuy' = ToBuy /\ ToSell' = ToSell /\ ToBuy \in Nat /\ ToSell \in Nat
    <3>1. Bought[t] = 0 /\ Sold[t] = 0 /\ Bought'[t] = 0 /\ Sold'[t] = 0
      BY <2>2 DEF Bought, Sold
    <3> QED  BY <1>0, <1>a, <2>2, <3>1, PendingMoves DEF TypeInv
  <2>4. Own' = Own /\ Record' = Record /\ Locked' = Locked
    BY <2>2 DEF Own, Record, Locked
  <2>5. CASE base' = base + n /\ lost' = lost + n
    <3>1. Free' = Free + n /\ Known' = Known + n
      BY <1>0, <2>2, <2>4, <2>5 DEF Free, Known
    <3> QED  BY <1>0, <2>2, <2>3, <2>4, <2>5, <3>1 DEF KnownInv
  <2>6. CASE base' = base - n /\ lost' = lost
    <3>1. Free' = Free - n /\ Known' = Known
      BY <1>0, <2>2, <2>4, <2>6 DEF Free, Known
    <3> QED  BY <1>0, <2>2, <2>3, <2>4, <2>6, <3>1 DEF KnownInv
  <2> QED  BY <2>1, <2>5, <2>6
<1>9. ASSUME NEW t \in Threads, PlaceAccepted(t) PROVE KnownInv'
  <2>1. /\ pc[t] = "place" /\ pc'[t] = ret[t] /\ ret[t] \in {"idle"} \cup Rounds
        /\ arg[t] \in Nat /\ UNCHANGED <<base, pos, lost, arg>> /\ Record = NoStop
    BY <1>0, <1>b, <1>9 DEF PlaceAccepted, InLock, observed
  <2>2. PICK i \in Ids : PlaceStop(i, arg[t]) /\ Record' = [id |-> i, qty |-> arg[t]]
    BY <1>0, <1>9, RecordAccepted
  <2>3. stops[i] = 0 /\ stops' = [stops EXCEPT ![i] = arg[t]]
    BY <1>0, <2>2 DEF PlaceStop, Resting
  <2>4. Locked' = Locked + arg[t]
    <3>1. Total([stops EXCEPT ![i] = arg[t]], Ids) = Total(stops, Ids) + arg[t] - stops[i]
      BY <1>0, <2>1, LockedSet
    <3> QED  BY <1>0, <2>1, <2>3, <3>1 DEF Locked
  <2>5. Free' + arg[t] = Free /\ Known' = Known
    BY <1>0, <2>1, <2>4 DEF Free, Known
  <2>6. Own' = arg[t] /\ Record'.qty = arg[t] /\ Record.qty = 0
    BY <1>0, <2>1, <2>2, <2>3 DEF Own, NoStop
  <2>7. Bought[t] = 0 /\ Sold[t] = 0 /\ Bought'[t] = 0 /\ Sold'[t] = 0
    BY <2>1 DEF Bought, Sold, Rounds
  <2>8. ToBuy' = ToBuy /\ ToSell' = ToSell /\ ToBuy \in Nat /\ ToSell \in Nat
    BY <1>0, <1>a, <1>9, <2>1, <2>7, PendingMoves DEF PlaceAccepted, TypeInv
  <2> QED  BY <1>0, <2>1, <2>5, <2>6, <2>8 DEF KnownInv
<1>10. ASSUME NEW t \in Threads, CancelAll(t) PROVE KnownInv'
  <2>1. /\ UNCHANGED <<base, pos, lost, arg, resting>> /\ Record = NoStop
        /\ pc[t] \in InLock /\ pc'[t] \in InLock
    BY <1>0, <1>b, <1>10 DEF CancelAll, InLock, gateway, observed
  <2>2. Free' = base \/ Free' = Free
    BY <1>0, <1>10, LockedNone DEF CancelAll, Free, Locked
  <2>3. Bought[t] = 0 /\ Sold[t] = 0 /\ Bought'[t] = 0 /\ Sold'[t] = 0
    BY <2>1 DEF Bought, Sold, InLock
  <2>4. ToBuy' = ToBuy /\ ToSell' = ToSell /\ ToBuy \in Nat /\ ToSell \in Nat
    BY <1>0, <1>a, <1>10, <2>1, <2>3, PendingMoves DEF CancelAll, TypeInv
  <2>5. Own' = 0 /\ Record.qty = 0 /\ Record' = Record /\ Known' = Known
    BY <2>1 DEF Own, NoStop, Record, Known
  <2> QED  BY <1>0, <2>1, <2>2, <2>4, <2>5 DEF KnownInv
<1>11. ASSUME NEW t \in Threads, DumpFree(t) PROVE KnownInv'
  <2>1. /\ UNCHANGED <<stops, pos, lost, arg, resting>> /\ arg[t] \in Nat
        /\ base' = base - arg[t] \/ base' = base
        /\ pc[t] = "dump" /\ pc'[t] \in {"idle"} \cup Rounds
    BY <1>0, <1>11 DEF DumpFree, observed
  <2>2. /\ base' \in Int /\ base' <= base /\ Free' <= Free /\ Free' \in Int
        /\ Own' = Own /\ Record' = Record /\ Known' = Known
    BY <1>0, <2>1 DEF Free, Locked, Own, Record, Known
  <2>3. Bought[t] = 0 /\ Sold[t] = 0 /\ Bought'[t] = 0 /\ Sold'[t] = 0
    BY <2>1 DEF Bought, Sold, Rounds
  <2>4. ToBuy' = ToBuy /\ ToSell' = ToSell /\ ToBuy \in Nat /\ ToSell \in Nat
    BY <1>0, <1>a, <1>11, <2>1, <2>3, PendingMoves DEF DumpFree, TypeInv
  <2>5. base' + ToSell' <= Known' + ToBuy'
    <3>1. PICK left \in Nat : base' = left /\ left <= base
      BY <1>a, <2>2 DEF TypeOK
    <3>2. left + ToSell <= Known + ToBuy
      BY <1>0, <2>4, <3>1 DEF KnownInv
    <3> QED  BY <2>2, <2>4, <3>1, <3>2
  <2>6. Free' + Record'.qty + ToSell' <= Known' + ToBuy'
    BY <1>0, <2>2, <2>4 DEF KnownInv
  <2> QED  BY <2>2, <2>5, <2>6 DEF KnownInv
<1>12. ASSUME NEW i \in Ids, NEW how \in setting.faults, StopVanishes(i, how) PROVE KnownInv'
  <2>1. /\ UNCHANGED <<pos, lost, resting, pc, arg>> /\ stops[i] \in Nat
        /\ stops' = [stops EXCEPT ![i] = 0] /\ base' = base - stops[i]
    BY <1>0, <1>12 DEF StopVanishes, gateway, control
  <2>2. Locked' = Locked - stops[i]
    <3>1. Total(stops', Ids) = Locked + 0 - stops[i]
      BY <1>0, <2>1, LockedSet DEF Locked
    <3> QED  BY <1>0, <2>1, <3>1 DEF Locked
  <2>3. Free' = Free /\ base' <= base /\ base' \in Int /\ Record' = Record /\ Known' = Known
    BY <1>0, <2>1, <2>2 DEF Free, Record, Known
  <2>4. Own' <= Own /\ Own' \in Nat
    BY <1>0, <2>1, <2>3 DEF Own
  <2>5. ToBuy' = ToBuy /\ ToSell' = ToSell
    BY <2>1 DEF ToBuy, ToSell, Bought, Sold
  <2>6. ToBuy \in Nat /\ ToSell \in Nat
    <3>1. /\ Bought \in [Threads -> Nat] /\ Sold \in [Threads -> Nat] /\ IsFiniteSet(Threads)
      BY <1>0, StopsAssumption DEF Bought, Sold
    <3> QED  BY <3>1, TotalBounds DEF ToBuy, ToSell
  <2>7. base' + ToSell' <= Known' + ToBuy'
    <3>1. PICK left \in Nat : base' = left /\ left <= base
      BY <1>a, <2>3 DEF TypeOK
    <3>2. left + ToSell <= Known + ToBuy
      BY <1>0, <2>6, <3>1 DEF KnownInv
    <3> QED  BY <2>3, <2>5, <3>1, <3>2
  <2>8. Own' <= Record'.qty
    BY <1>0, <2>3, <2>4 DEF KnownInv
  <2> QED  BY <2>3, <2>5, <2>7, <2>8 DEF KnownInv
<1>13. ASSUME NEW t \in Threads, Restart(t) PROVE KnownInv'
  BY <1>0, <1>13 DEF Restart
<1>14. CASE UNCHANGED vars
  BY <1>14 DEF vars, KnownInv, Own, Free, Locked, ToBuy, ToSell, Bought, Sold, Record, Known
<1> QED  BY <1>1, <1>2, <1>c, <1>3, <1>4, <1>5, <1>6, <1>7, <1>8, <1>d, <1>9, <1>10, <1>11,
            <1>12, <1>13, <1>14 DEF Next, ThreadStep

-----------------------------------------------------------------------------
(* A reconcile that nothing disturbs is the work of one thread, and it     *)
(* ends with a record that is empty or names the whole position.           *)
Fits == Record.id # None => Record.qty = pos["trade"]

AloneAtWork(t) ==
    /\ \A u \in Threads \ {t} : pc[u] = "idle"
    /\ pc[t] \in InLock \cup {"read", "manage"} \cup Rounds
    /\ pc[t] \notin Rounds => ret[t] \in Rounds /\ todo[t] = {}
    /\ pc[t] \in {"manage", "place"} => arg[t] = pos["trade"]
    /\ pc[t] = "held" /\ todo[t] = {} => Fits \/ pos["trade"] = 0
    /\ pc[t] = "stale" /\ todo[t] = {} => Fits

QuietInv ==
    /\ calm = "running" => \E t \in Threads : AloneAtWork(t)
    /\ calm = "done" => Fits /\ \A t \in Threads : pc[t] = "idle"

LEMMA QuietNext ==
    ASSUME TypeInv, LifeInv, Watched, QuietInv, [Next]_vars
    PROVE  QuietInv'
<1>0. /\ pc \in [Threads -> Steps] /\ arg \in [Threads -> Nat]
      /\ ret \in [Threads -> {"idle"} \cup Rounds] /\ todo \in [Threads -> SUBSET Keys]
      /\ None \notin Threads /\ pos["trade"] \in Nat
      /\ calm \in {"no", "running", "done"} /\ ~May("crash") /\ OneKey /\ TypeOK
      /\ \A t \in Threads : key[t] = "trade" /\ todo[t] \in {{}, {"trade"}}
      /\ pos["other"] = 0 /\ resting["other"] = NoStop
  BY StopsAssumption, KnownTypes
  DEF TypeInv, TypeOK, Watched, Without, May, LifeInv, OneKey
<1>1. \A t \in Threads : pc[t] \in InLock => Record = NoStop
  BY <1>0 DEF LifeInv, LockOwner, Unarmed
(* A thread at work is the one of the quiet reconcile, if there is one. *)
<1>2. ASSUME NEW t \in Threads, pc[t] # "idle"
      PROVE  calm # "done" /\ (calm = "running" => AloneAtWork(t))
  BY <1>0, <1>2 DEF QuietInv, AloneAtWork
<1> USE DEF Goto
<1>3. ASSUME NEW t \in Threads, NEW q \in 1..setting.max, StartBuy(t, q) \/ StartSell(t, q)
      PROVE  QuietInv'
  BY <1>3 DEF StartBuy, StartSell, QuietInv
<1>4. ASSUME NEW t \in Threads,
             \/ ExecuteBuy(t) \/ BookBuy(t) \/ PreExitCancel(t) \/ ExecuteSell(t) \/ BookSell(t)
             \/ LoseAnswer(t)
      PROVE  QuietInv'
  BY <1>0, <1>2, <1>4
  DEF ExecuteBuy, BookBuy, PreExitCancel, ExecuteSell, BookSell, LoseAnswer, observed, QuietInv,
      AloneAtWork, InLock, Rounds
<1>5. ASSUME NEW t \in Threads, ReadHeld(t) PROVE QuietInv'
  BY <1>0, <1>2, <1>5
  DEF ReadHeld, exchange, gateway, observed, QuietInv, AloneAtWork, InLock, Rounds
<1>6. ASSUME NEW t \in Threads, ManageFlat(t) \/ ManageRearm(t)
      PROVE  QuietInv'
  <2>1. Record' = NoStop
    BY <1>0, <1>6, ForgetRecord DEF ManageFlat, ManageRearm
  <2> QED  BY <1>0, <1>2, <1>6, <2>1
           DEF ManageFlat, ManageRearm, observed, QuietInv, AloneAtWork, Fits, InLock, NoStop,
               Rounds
<1>a. ASSUME NEW t \in Threads, ManageMatches(t) PROVE QuietInv'
  BY <1>0, <1>2, <1>a
  DEF ManageMatches, exchange, gateway, observed, QuietInv, AloneAtWork, Fits, InLock, Record,
      Rounds
<1>7. ASSUME NEW t \in Threads, PlaceSuppressed(t) \/ PlaceRefused(t)
      PROVE  QuietInv'
  <2>1. Record = NoStop /\ Record' = NoStop
    BY <1>1, <1>7 DEF PlaceSuppressed, PlaceRefused, InLock, Record
  <2> QED  BY <1>0, <1>2, <1>7, <2>1
           DEF PlaceSuppressed, PlaceRefused, exchange, observed, QuietInv, AloneAtWork, Fits,
               InLock, NoStop, Rounds
<1>b. ASSUME NEW t \in Threads, PlaceAccepted(t) PROVE QuietInv'
  <2>1. PICK i \in Ids : Record' = [id |-> i, qty |-> arg[t]]
    BY <1>0, <1>b, RecordAccepted
  <2> QED  BY <1>0, <1>2, <1>b, <2>1
           DEF PlaceAccepted, observed, QuietInv, AloneAtWork, Fits, InLock, Rounds
<1>8. ASSUME NEW t \in Threads, CancelAll(t) \/ ReadFree(t) \/ ReadFails(t) \/ DumpFree(t)
      PROVE  QuietInv'
  <2>1. Record = NoStop /\ Record' = NoStop
    BY <1>1, <1>8 DEF CancelAll, ReadFree, ReadFails, DumpFree, InLock, Record, gateway
  <2> QED  BY <1>0, <1>2, <1>8, <2>1
           DEF CancelAll, ReadFree, ReadFails, DumpFree, exchange, gateway, observed, QuietInv,
               AloneAtWork, Fits, InLock, NoStop, Rounds
<1>9. ASSUME NEW t \in Threads, StartReconcile(t) PROVE QuietInv'
  <2>1. todo'[t] = {} => pos["trade"] = 0
    <3>1. todo'[t] = {k \in Keys : pos[k] > 0} /\ "trade" \in Keys
      BY <1>0, <1>9 DEF StartReconcile, Keys
    <3> QED  BY <1>0, <3>1
  <2> QED  BY <1>0, <1>9, <2>1
           DEF StartReconcile, exchange, gateway, QuietInv, AloneAtWork, InLock, Rounds
<1>10. ASSUME NEW t \in Threads, NextSymbol(t) PROVE QuietInv'
  BY <1>0, <1>2, <1>10
  DEF NextSymbol, exchange, gateway, observed, QuietInv, AloneAtWork, InLock, Rounds
<1>c. ASSUME NEW t \in Threads, FindStale(t) PROVE QuietInv'
  <2>1. todo'[t] = {} => Record.id = None \/ pos["trade"] # 0
    BY <1>0, <1>c DEF FindStale, Record, Keys
  <2> QED  BY <1>0, <1>2, <1>c, <2>1
           DEF FindStale, exchange, gateway, observed, QuietInv, AloneAtWork, Fits, InLock,
               Record, Rounds
<1>d. ASSUME NEW t \in Threads, EndReconcile(t) PROVE QuietInv'
  BY <1>0, <1>2, <1>d
  DEF EndReconcile, exchange, gateway, QuietInv, AloneAtWork, Fits, InLock, Record, Rounds
<1>11. ASSUME NEW i \in Ids, NEW how \in setting.faults, StopVanishes(i, how) PROVE QuietInv'
  BY <1>11 DEF StopVanishes, QuietInv
<1>12. ASSUME NEW t \in Threads, Restart(t) PROVE QuietInv'
  BY <1>0, <1>12 DEF Restart
<1>13. CASE UNCHANGED vars
  BY <1>13 DEF vars, QuietInv, AloneAtWork, Fits, Record
<1> QED  BY <1>3, <1>4, <1>5, <1>6, <1>a, <1>7, <1>b, <1>8, <1>9, <1>10, <1>c, <1>d, <1>11,
            <1>12, <1>13 DEF Next, ThreadStep

NakedInv == Watched => LifeInv /\ KnownInv /\ QuietInv

(* While the process lives and nobody else cancels its stops, whatever     *)
(* calls fail, whatever answers are lost and however many threads trade at *)
(* once: what a quiet reconcile leaves uncovered, beyond the buys no       *)
(* answer told of, the naked sweep finds, since the ledger knows of it and *)
(* the record claims no stop.                                              *)
THEOREM NakedIsReported == Spec => []NoSilentNaked
<1> DEFINE Inv == TypeInv /\ NakedInv
<1>1. Init => Inv
  <2> SUFFICES ASSUME Init PROVE TypeInv /\ NakedInv
    OBVIOUS
  <2>1. LifeInv /\ QuietInv
    BY LifeInit DEF Init, QuietInv
  <2>2. Free = 0 /\ Own = 0 /\ base = 0 /\ Known = 0 /\ Record.qty = 0
    BY LockedNone DEF Init, Free, Locked, Own, NoStop, Record, Known, Keys
  <2>3. ToSell = 0 /\ ToBuy = 0
    <3>1. /\ Bought \in [Threads -> Nat] /\ Sold \in [Threads -> Nat] /\ IsFiniteSet(Threads)
          /\ \A t \in Threads : Bought[t] = 0 /\ Sold[t] = 0
      BY StopsAssumption DEF Init, Bought, Sold
    <3> QED  BY <3>1, TotalBounds DEF ToBuy, ToSell
  <2> QED  BY <2>1, <2>2, <2>3, TypeInit DEF NakedInv, KnownInv
<1>2. Inv /\ [Next]_vars => Inv'
  <2> SUFFICES ASSUME Inv, [Next]_vars PROVE Inv'
    OBVIOUS
  <2>1. TypeInv'
    BY TypeNext
  <2>2. Watched' <=> Watched
    BY SettingKept DEF Watched, Without
  <2>3. Watched => Lives
    BY DEF Watched, Lives, Without, May
  <2> QED  BY <2>1, <2>2, <2>3, LifeNext, KnownNext, QuietNext DEF NakedInv, TypeInv
<1>3. Inv => NoSilentNaked
  <2> SUFFICES ASSUME TypeInv, NakedInv, Watched, calm = "done", Free - lost >= setting.dust
               PROVE  \E k \in Keys : Held(pos[k]) /\ resting[k].id = None
    BY DEF NoSilentNaked, Watched
  <2>1. /\ setting.dust \in Nat \ {0} /\ pos["trade"] \in Nat /\ Record.qty \in Nat
        /\ Free \in Nat /\ lost \in Nat /\ Known = pos["trade"] + lost
    BY KnownTypes, StopsAssumption DEF TypeInv, TypeOK, Known
  <2>2. Fits /\ \A t \in Threads : pc[t] = "idle"
    BY DEF NakedInv, QuietInv
  <2>3. ToSell = 0 /\ ToBuy = 0
    <3>1. /\ Bought \in [Threads -> Nat] /\ Sold \in [Threads -> Nat] /\ IsFiniteSet(Threads)
          /\ \A t \in Threads : Bought[t] = 0 /\ Sold[t] = 0
      BY <2>2, StopsAssumption DEF Bought, Sold
    <3> QED  BY <3>1, TotalBounds DEF ToBuy, ToSell
  <2>4. Free + Record.qty <= pos["trade"] + lost
    BY <2>1, <2>3 DEF NakedInv, KnownInv
  <2>5. pos["trade"] >= setting.dust + Record.qty
    BY <2>1, <2>4
  <2>6. Held(pos["trade"]) /\ Record.id = None
    BY <2>1, <2>2, <2>5 DEF Held, Fits
  <2> QED  BY <2>6 DEF Record, Keys
<1> QED  BY <1>1, <1>2, <1>3, PTL DEF Spec

-----------------------------------------------------------------------------
(* A process that may die between any two steps, where nothing else fails. *)

OnlyDies == setting.faults \subseteq {"crash"} /\ setting.dust = 1

(* Lots on record under either spelling. *)
AtOther == resting["other"].qty
AtTrade == resting["trade"].qty

(* What the thread has traded and not booked yet. *)
Due(t) == IF pc[t] = "book_buy" THEN arg[t]
          ELSE IF pc[t] = "book_sell" THEN -arg[t] ELSE 0

(* Every record names a stop of its own, for what the stop locks.          *)
Recorded ==
    /\ \A k \in Keys : /\ resting[k].id = None => resting[k].qty = 0
                       /\ resting[k].id # None => stops[resting[k].id] = resting[k].qty
    /\ resting["other"].id = resting["trade"].id => resting["other"].id = None

(* What is neither locked nor on record the ledger has under one key or    *)
(* the other, and no record exceeds its position.                          *)
Balanced(t) ==
    /\ Free + AtOther + AtTrade = pos["other"] + pos["trade"] + Due(t)
    /\ AtOther <= pos["other"] /\ AtTrade <= pos["trade"]

Busy == {"sell", "book_sell", "read", "manage", "place"}

Apart == {"idle", "buy", "book_buy", "precancel"}

(* Where the thread is, and which keys it has yet to see to: the others    *)
(* have their whole position on record, but for what a refused sale left   *)
(* to the next reconcile.                                                  *)
InPlace(t) ==
    /\ pc[t] \notin {"cancel_all", "free", "cancel_again", "dump"}
    /\ \A k \in Keys : ~rejected[k]
    /\ pc[t] \in {"sell", "book_sell"} => AtTrade = 0 /\ resting["trade"].id = None
    /\ pc[t] \in {"manage", "place"} => arg[t] = pos[key[t]]
    /\ pc[t] = "place" => resting[key[t]] = NoStop
    /\ pc[t] \in {"buy", "book_buy", "precancel", "sell", "book_sell"} => key[t] = "trade"
    /\ todo[t] # {} => \/ pc[t] \in Rounds
                       \/ pc[t] \in {"read", "manage", "place"} /\ ret[t] \in Rounds
    /\ \A k \in Keys : \/ resting[k].qty = pos[k]
                       \/ k \in todo[t]
                       \/ key[t] = k /\ pc[t] \in Busy
                       \/ k = "trade" /\ AtTrade = 0 /\ pc[t] \in Apart
    /\ calm = "done" => pc[t] = "idle" /\ AtTrade = pos["trade"]

CoverInv(t) == Recorded /\ Balanced(t) /\ InPlace(t)

LEMMA CoverTypes ==
    ASSUME TypeInv
    PROVE  /\ Free \in Nat /\ AtOther \in Nat /\ AtTrade \in Nat
           /\ pos["other"] \in Nat /\ pos["trade"] \in Nat /\ Locked \in Nat /\ base \in Nat
<1>1. /\ stops \in [Ids -> Nat] /\ base \in Nat /\ Locked <= base
      /\ AtOther \in Nat /\ AtTrade \in Nat /\ pos["other"] \in Nat /\ pos["trade"] \in Nat
  BY DEF TypeInv, TypeOK, LockedIsHeld, AtOther, AtTrade, Keys
<1>2. Locked \in Nat
  BY <1>1, LockedNat DEF Locked
<1> QED  BY <1>1, <1>2 DEF Free

(* The stop of a key goes, and what it locked is free. *)
LEMMA CoverForgets ==
    ASSUME TypeInv, OnlyDies, Recorded, NEW k \in Keys, Forget(k), UNCHANGED base
    PROVE  /\ resting' = [resting EXCEPT ![k] = NoStop]
           /\ Free' = Free + resting[k].qty
           /\ Recorded'
<1>1. /\ stops \in [Ids -> Nat] /\ None \notin Ids /\ resting[k].id \in Ids \cup {None}
      /\ resting \in [Keys -> [id : Ids \cup {None}, qty : Nat]] /\ resting[k].qty \in Nat
      /\ base \in Nat /\ Locked \in Nat
  BY StopsAssumption, CoverTypes DEF TypeInv, TypeOK
<1>2. resting' = [resting EXCEPT ![k] = NoStop]
  BY DEF Forget
<1>3. CASE resting[k].id = None
  <2>1. UNCHANGED stops /\ resting[k].qty = 0
    BY <1>3 DEF Forget, Recorded
  <2>2. Free' = Free + resting[k].qty
    BY <1>1, <2>1 DEF Free, Locked
  <2>3. Recorded'
    BY <1>1, <1>2, <1>3, <2>1 DEF Recorded, NoStop, Keys
  <2> QED  BY <1>2, <2>2, <2>3
<1>4. CASE resting[k].id # None
  <2>1. stops' = [stops EXCEPT ![resting[k].id] = 0] /\ stops[resting[k].id] = resting[k].qty
    BY <1>4 DEF Forget, CancelStop, Recorded, OnlyDies, May
  <2>2. Total(stops', Ids) = Total(stops, Ids) + 0 - stops[resting[k].id]
    BY <1>1, <1>4, <2>1, LockedSet
  <2>3. Free' = Free + resting[k].qty
    BY <1>1, <2>1, <2>2 DEF Free, Locked
  <2>4. Recorded'
    BY <1>1, <1>2, <1>4, <2>1 DEF Recorded, NoStop, Keys
  <2> QED  BY <1>2, <2>3, <2>4
<1> QED  BY <1>3, <1>4

(* A step that leaves the lots, the stops, the record and the ledger alone *)
(* and changes nothing that is due.                                        *)
LEMMA CoverKept ==
    ASSUME NEW me, Recorded, Balanced(me), UNCHANGED <<base, stops, resting, pos>>,
           Due(me)' = Due(me)
    PROVE  Recorded' /\ Balanced(me)'
<1>1. Free' = Free
  BY DEF Free, Locked
<1> QED  BY <1>1 DEF Recorded, Balanced, AtOther, AtTrade

LEMMA CoverNext ==
    ASSUME NEW me, Threads = {me}, TypeInv, OnlyDies, CoverInv(me), [Next]_vars
    PROVE  CoverInv(me)'
<1>0. /\ pc \in [Threads -> Steps] /\ arg \in [Threads -> Nat] /\ me \in Threads
      /\ arg[me] \in Nat /\ key[me] \in Keys
      /\ ret \in [Threads -> {"idle"} \cup Rounds] /\ key \in [Threads -> Keys]
      /\ todo \in [Threads -> SUBSET Keys] /\ pos \in [Keys -> Nat]
      /\ rejected \in [Keys -> BOOLEAN]
      /\ resting \in [Keys -> [id : Ids \cup {None}, qty : Nat]]
      /\ base \in Nat /\ stops \in [Ids -> Nat] /\ None \notin Ids /\ Keys = {"other", "trade"}
      /\ Free \in Nat /\ AtOther \in Nat /\ AtTrade \in Nat /\ Locked \in Nat
      /\ pos["other"] \in Nat /\ pos["trade"] \in Nat
      /\ resting[key[me]].qty \in Nat /\ pos[key[me]] \in Nat
      /\ Recorded /\ Balanced(me) /\ InPlace(me)
  BY StopsAssumption, CoverTypes DEF TypeInv, TypeOK, CoverInv, Keys
<1>1. /\ setting.dust = 1 /\ ~May("cancel_fail") /\ ~May("place_reject") /\ ~May("flatten_fail")
      /\ ~May("external_cancel") /\ ~May("trigger") /\ ~May("seed_fail") /\ ~May("lost_answer")
  BY DEF OnlyDies, May
<1> USE DEF Goto
<1>2. ASSUME NEW t \in Threads, NEW q \in 1..setting.max, StartBuy(t, q) \/ StartSell(t, q)
      PROVE  CoverInv(me)'
  <2>1. /\ t = me /\ pc[me] = "idle" /\ pc'[me] \in {"buy", "precancel"} /\ key'[me] = "trade"
        /\ UNCHANGED <<base, stops, resting, pos, rejected, todo>> /\ calm' = "no"
    BY <1>0, <1>2 DEF StartBuy, StartSell, exchange, gateway
  <2>2. Due(me) = 0 /\ Due(me)' = 0
    BY <2>1 DEF Due
  <2>3. InPlace(me)'
    BY <1>0, <2>1 DEF InPlace, AtTrade, Rounds, Busy, Apart
  <2> QED  BY <1>0, <2>1, <2>2, <2>3, CoverKept DEF CoverInv
<1>3. ASSUME NEW t \in Threads, ExecuteBuy(t) PROVE CoverInv(me)'
  <2>1. /\ t = me /\ pc[me] = "buy" /\ pc'[me] = "book_buy" /\ arg'[me] = arg[me]
        /\ base' = base + arg[me]
        /\ UNCHANGED <<stops, resting, pos, rejected, todo, ret, key, calm>>
    BY <1>0, <1>3 DEF ExecuteBuy, gateway, observed
  <2>2. Free' = Free + arg[me]
    BY <1>0, <2>1 DEF Free, Locked
  <2>3. Due(me) = 0 /\ Due(me)' = arg[me]
    BY <2>1 DEF Due
  <2>4. Balanced(me)'
    BY <1>0, <2>1, <2>2, <2>3 DEF Balanced, AtOther, AtTrade
  <2>5. InPlace(me)' /\ Recorded'
    BY <1>0, <2>1 DEF InPlace, Recorded, AtTrade, Rounds, Busy, Apart
  <2> QED  BY <2>4, <2>5 DEF CoverInv
<1>4. ASSUME NEW t \in Threads, BookBuy(t) PROVE CoverInv(me)'
  <2>1. /\ t = me /\ pc[me] = "book_buy" /\ pc'[me] = "read" /\ ret'[me] = "idle"
        /\ key[me] = "trade" /\ pos' = [pos EXCEPT !["trade"] = @ + arg[me]]
        /\ UNCHANGED <<base, stops, resting, rejected, todo, key, calm>>
    BY <1>0, <1>4 DEF BookBuy, exchange, observed, InPlace
  <2>2. pos'["other"] = pos["other"] /\ pos'["trade"] = pos["trade"] + arg[me] /\ Free' = Free
    BY <1>0, <2>1 DEF Free, Locked
  <2>3. Due(me) = arg[me] /\ Due(me)' = 0
    BY <2>1 DEF Due
  <2>4. Balanced(me)'
    BY <1>0, <2>1, <2>2, <2>3 DEF Balanced, AtOther, AtTrade
  <2>5. InPlace(me)' /\ Recorded'
    BY <1>0, <2>1, <2>2 DEF InPlace, Recorded, AtTrade, Rounds, Busy, Apart
  <2> QED  BY <2>4, <2>5 DEF CoverInv
<1>5. ASSUME NEW t \in Threads, PreExitCancel(t) PROVE CoverInv(me)'
  <2>1. /\ t = me /\ pc[me] = "precancel" /\ pc'[me] = "sell" /\ key[me] = "trade"
        /\ UNCHANGED <<base, pos, rejected, arg, todo, key, ret, calm>> /\ Forget("trade")
    BY <1>0, <1>5 DEF PreExitCancel, observed, InPlace
  <2>2. /\ resting' = [resting EXCEPT !["trade"] = NoStop] /\ Free' = Free + AtTrade /\ Recorded'
    BY <1>0, <2>1, CoverForgets DEF AtTrade
  <2>3. /\ resting'["other"] = resting["other"] /\ resting'["trade"].qty = 0
        /\ resting'["trade"].id = None
    BY <1>0, <2>2 DEF NoStop
  <2>4. Due(me) = 0 /\ Due(me)' = 0
    BY <2>1 DEF Due
  <2>5. Balanced(me)'
    BY <1>0, <2>1, <2>2, <2>3, <2>4 DEF Balanced, AtOther, AtTrade
  <2>6. InPlace(me)'
    BY <1>0, <2>1, <2>3 DEF InPlace, AtTrade, Rounds, Busy, Apart
  <2> QED  BY <2>2, <2>5, <2>6 DEF CoverInv
<1>6. ASSUME NEW t \in Threads, ExecuteSell(t) PROVE CoverInv(me)'
  <2>1. /\ t = me /\ pc[me] = "sell" /\ key[me] = "trade" /\ arg'[me] = arg[me]
        /\ UNCHANGED <<stops, resting, pos, rejected, todo, key, ret, calm>>
        /\ \/ arg[me] <= Free /\ base' = base - arg[me] /\ pc'[me] = "book_sell"
           \/ base' = base /\ pc'[me] = "idle"
    BY <1>0, <1>6 DEF ExecuteSell, gateway, InPlace
  <2>2. AtTrade = 0 /\ AtOther = pos["other"] /\ todo[me] = {} /\ Due(me) = 0
    BY <1>0, <2>1 DEF InPlace, AtOther, Due, Rounds, Busy, Apart
  <2>3. Recorded'
    BY <1>0, <2>1 DEF Recorded
  <2>4. CASE base' = base - arg[me] /\ pc'[me] = "book_sell"
    <3>1. Free' = Free - arg[me] /\ Due(me)' = -arg[me]
      BY <1>0, <2>1, <2>4 DEF Free, Locked, Due
    <3>2. Balanced(me)'
      BY <1>0, <2>1, <2>2, <3>1 DEF Balanced, AtOther, AtTrade
    <3>3. InPlace(me)'
      BY <1>0, <2>1, <2>4 DEF InPlace, AtTrade, Rounds, Busy, Apart
    <3> QED  BY <2>3, <3>2, <3>3 DEF CoverInv
  <2>5. CASE base' = base /\ pc'[me] = "idle"
    <3>1. Free' = Free /\ Due(me)' = 0
      BY <1>0, <2>1, <2>5 DEF Free, Locked, Due
    <3>2. Balanced(me)'
      BY <1>0, <2>1, <2>2, <3>1 DEF Balanced, AtOther, AtTrade
    <3>3. InPlace(me)'
      BY <1>0, <2>1, <2>2, <2>5 DEF InPlace, AtTrade, Rounds, Busy, Apart
    <3> QED  BY <2>3, <3>2, <3>3 DEF CoverInv
  <2> QED  BY <2>1, <2>4, <2>5
<1>7. ASSUME NEW t \in Threads, BookSell(t) PROVE CoverInv(me)'
  <2>1. /\ t = me /\ pc[me] = "book_sell" /\ pc'[me] = "read" /\ ret'[me] = "idle"
        /\ key[me] = "trade"
        /\ pos' = [pos EXCEPT !["trade"] = IF arg[me] > @ THEN 0 ELSE @ - arg[me]]
        /\ UNCHANGED <<base, stops, resting, rejected, todo, key, calm>>
    BY <1>0, <1>7 DEF BookSell, exchange, observed, InPlace
  <2>2. AtTrade = 0 /\ AtOther = pos["other"] /\ todo[me] = {} /\ Due(me) = -arg[me]
    BY <1>0, <2>1 DEF InPlace, AtOther, Due, Rounds, Busy, Apart
  <2>3. arg[me] <= pos["trade"]
    BY <1>0, <2>2 DEF Balanced
  <2>4. pos'["other"] = pos["other"] /\ pos'["trade"] = pos["trade"] - arg[me] /\ Free' = Free
    BY <1>0, <2>1, <2>3 DEF Free, Locked
  <2>5. Due(me)' = 0
    BY <2>1 DEF Due
  <2>6. Balanced(me)'
    BY <1>0, <2>1, <2>2, <2>3, <2>4, <2>5 DEF Balanced, AtOther, AtTrade
  <2>7. InPlace(me)' /\ Recorded'
    BY <1>0, <2>1, <2>4 DEF InPlace, Recorded, AtTrade, Rounds, Busy, Apart
  <2> QED  BY <2>6, <2>7 DEF CoverInv
<1>8. ASSUME NEW t \in Threads, ReadHeld(t) PROVE CoverInv(me)'
  <2>1. /\ t = me /\ pc[me] = "read" /\ pc'[me] = "manage" /\ arg'[me] = pos[key[me]]
        /\ UNCHANGED <<base, stops, resting, pos, rejected, todo, key, ret, calm>>
    BY <1>0, <1>8 DEF ReadHeld, exchange, gateway, observed
  <2>2. Due(me)' = Due(me)
    BY <2>1 DEF Due
  <2>3. InPlace(me)'
    BY <1>0, <2>1 DEF InPlace, AtTrade, Rounds, Busy, Apart
  <2> QED  BY <1>0, <2>1, <2>2, <2>3, CoverKept DEF CoverInv
<1>9. ASSUME NEW t \in Threads, ManageFlat(t) PROVE CoverInv(me)'
  <2>1. /\ t = me /\ pc[me] = "manage" /\ pc'[me] = ret[me] /\ Forget(key[me])
        /\ rejected' = [rejected EXCEPT ![key[me]] = FALSE]
        /\ UNCHANGED <<base, pos, arg, todo, key, ret, calm>>
        /\ arg[me] = pos[key[me]] /\ ~(arg[me] >= 1)
    BY <1>0, <1>1, <1>9 DEF ManageFlat, observed, InPlace, Held
  <2>2. pos[key[me]] = 0
    BY <1>0, <2>1
  <2>3. /\ resting' = [resting EXCEPT ![key[me]] = NoStop]
        /\ Free' = Free + resting[key[me]].qty /\ Recorded'
    BY <1>0, <2>1, CoverForgets
  <2>4. resting[key[me]].qty = 0
    BY <1>0, <2>2 DEF Balanced, AtOther, AtTrade
  <2>5. /\ Due(me) = 0 /\ Due(me)' = 0
        /\ \A k \in Keys : resting'[k].qty = resting[k].qty
    BY <1>0, <2>1, <2>3, <2>4 DEF Due, NoStop, Rounds
  <2>6. Free' = Free
    BY <1>0, <2>3, <2>4
  <2>7. Balanced(me)'
    BY <1>0, <2>1, <2>5, <2>6 DEF Balanced, AtOther, AtTrade
  <2>8. InPlace(me)'
    BY <1>0, <2>1, <2>2, <2>4, <2>5 DEF InPlace, AtTrade, Rounds, Busy, Apart
  <2> QED  BY <2>3, <2>7, <2>8 DEF CoverInv
<1>10. ASSUME NEW t \in Threads, ManageMatches(t) PROVE CoverInv(me)'
  <2>1. /\ t = me /\ pc[me] = "manage" /\ pc'[me] = ret[me]
        /\ UNCHANGED <<base, stops, resting, pos, rejected, arg, todo, key, ret, calm>>
        /\ resting[key[me]].qty = pos[key[me]]
    BY <1>0, <1>10 DEF ManageMatches, exchange, gateway, observed, InPlace
  <2>2. Due(me)' = Due(me)
    BY <1>0, <2>1 DEF Due, Rounds
  <2>3. InPlace(me)'
    BY <1>0, <2>1 DEF InPlace, AtTrade, Rounds, Busy, Apart
  <2> QED  BY <1>0, <2>1, <2>2, <2>3, CoverKept DEF CoverInv
<1>11. ASSUME NEW t \in Threads, ManageRearm(t) PROVE CoverInv(me)'
  <2>1. /\ t = me /\ pc[me] = "manage" /\ pc'[me] = "place" /\ Forget(key[me])
        /\ UNCHANGED <<base, pos, rejected, arg, todo, key, ret, calm>>
    BY <1>0, <1>11 DEF ManageRearm, observed
  <2>2. /\ resting' = [resting EXCEPT ![key[me]] = NoStop]
        /\ Free' = Free + resting[key[me]].qty /\ Recorded'
    BY <1>0, <2>1, CoverForgets
  <2>3. /\ Due(me) = 0 /\ Due(me)' = 0 /\ resting'[key[me]] = NoStop /\ NoStop.qty = 0
        /\ \A k \in Keys : k # key[me] => resting'[k] = resting[k]
    BY <1>0, <2>1, <2>2 DEF Due, NoStop
  <2>4. Balanced(me)'
    <3>1. CASE key[me] = "other"
      BY <1>0, <2>1, <2>2, <2>3, <3>1 DEF Balanced, AtOther, AtTrade
    <3>2. CASE key[me] = "trade"
      BY <1>0, <2>1, <2>2, <2>3, <3>2 DEF Balanced, AtOther, AtTrade
    <3> QED  BY <1>0, <3>1, <3>2
  <2>5. InPlace(me)'
    BY <1>0, <2>1, <2>3 DEF InPlace, AtTrade, Rounds, Busy, Apart
  <2> QED  BY <2>2, <2>4, <2>5 DEF CoverInv
<1>12. ASSUME NEW t \in Threads, PlaceSuppressed(t) PROVE CoverInv(me)'
  BY <1>0, <1>12 DEF PlaceSuppressed, InPlace
<1>13. ASSUME NEW t \in Threads, PlaceRefused(t) PROVE CoverInv(me)'
  <2>1. t = me /\ pc[me] = "place" /\ ~(arg[me] <= Free)
    BY <1>0, <1>1, <1>13 DEF PlaceRefused, Accepts
  <2>2. arg[me] = pos[key[me]] /\ resting[key[me]].qty = 0 /\ Due(me) = 0
    BY <1>0, <2>1 DEF InPlace, NoStop, Due
  <2>3. pos[key[me]] <= Free
    BY <1>0, <2>2 DEF Balanced, AtOther, AtTrade
  <2> QED  BY <2>1, <2>2, <2>3
<1>14. ASSUME NEW t \in Threads, PlaceAccepted(t) PROVE CoverInv(me)'
  <2>1. /\ t = me /\ pc[me] = "place" /\ pc'[me] = ret[me]
        /\ UNCHANGED <<base, pos, rejected, arg, todo, key, ret, calm>>
        /\ arg[me] = pos[key[me]] /\ resting[key[me]] = NoStop
    BY <1>0, <1>14 DEF PlaceAccepted, observed, InPlace
  <2>2. PICK i \in Ids :
          /\ PlaceStop(i, arg[me])
          /\ resting' = [resting EXCEPT ![key[me]] = [id |-> i, qty |-> arg[me]]]
    BY <1>14, <2>1 DEF PlaceAccepted
  <2>3. /\ stops[i] = 0 /\ stops' = [stops EXCEPT ![i] = arg[me]]
        /\ \A k \in Keys : i # resting[k].id
    BY <1>0, <2>2 DEF PlaceStop, Resting
  <2>4. Free' = Free - arg[me]
    <3>1. Total([stops EXCEPT ![i] = arg[me]], Ids) = Total(stops, Ids) + arg[me] - stops[i]
      BY <1>0, LockedSet
    <3>2. Locked' = Locked + arg[me] /\ base' = base
      BY <1>0, <2>1, <2>3, <3>1 DEF Locked
    <3> QED  BY <1>0, <3>2 DEF Free
  <2>5. /\ Due(me) = 0 /\ Due(me)' = 0 /\ resting'[key[me]].qty = arg[me]
        /\ resting[key[me]].qty = 0 /\ resting'[key[me]].id = i
        /\ \A k \in Keys : k # key[me] => resting'[k] = resting[k]
    BY <1>0, <2>1, <2>2 DEF Due, NoStop, Rounds
  <2>6. Recorded'
    BY <1>0, <2>3, <2>5 DEF Recorded
  <2>7. Balanced(me)'
    <3>1. Due(me) = 0 /\ Due(me)' = 0 /\ Free' = Free - arg[me] /\ arg[me] = pos[key[me]]
          /\ pos'["other"] = pos["other"] /\ pos'["trade"] = pos["trade"]
      BY <1>0, <2>1, <2>4, <2>5
    <3>2. CASE key[me] = "other"
      <4>1. AtOther = 0 /\ AtOther' = arg[me] /\ AtTrade' = AtTrade
        BY <2>5, <3>2 DEF AtOther, AtTrade, Keys
      <4> QED  BY <1>0, <3>1, <3>2, <4>1 DEF Balanced
    <3>3. CASE key[me] = "trade"
      <4>1. AtTrade = 0 /\ AtTrade' = arg[me] /\ AtOther' = AtOther
        BY <2>5, <3>3 DEF AtOther, AtTrade, Keys
      <4> QED  BY <1>0, <3>1, <3>3, <4>1 DEF Balanced
    <3> QED  BY <1>0, <3>2, <3>3
  <2>8. InPlace(me)'
    BY <1>0, <2>1, <2>5 DEF InPlace, AtTrade, Rounds, Busy, Apart
  <2> QED  BY <2>6, <2>7, <2>8 DEF CoverInv
<1>15. ASSUME NEW t \in Threads,
              CancelAll(t) \/ ReadFree(t) \/ ReadFails(t) \/ DumpFree(t) \/ LoseAnswer(t)
       PROVE  CoverInv(me)'
  BY <1>0, <1>1, <1>15 DEF CancelAll, ReadFree, ReadFails, DumpFree, LoseAnswer, InPlace
<1>16. ASSUME NEW t \in Threads, StartReconcile(t) PROVE CoverInv(me)'
  <2>1. /\ t = me /\ pc[me] = "idle" /\ pc'[me] = "held" /\ calm' # "done"
        /\ todo'[me] = {k \in Keys : pos[k] > 0}
        /\ UNCHANGED <<base, stops, resting, pos, rejected, key, ret, arg>>
    BY <1>0, <1>16 DEF StartReconcile, exchange, gateway
  <2>2. Due(me)' = Due(me)
    BY <2>1 DEF Due
  <2>3. \A k \in Keys : k \in todo'[me] \/ resting[k].qty = pos[k]
    <3>1. AtOther <= pos["other"] /\ AtTrade <= pos["trade"]
      BY <1>0 DEF Balanced
    <3>2. \A k \in Keys : pos[k] > 0 \/ resting[k].qty = pos[k]
      BY <1>0, <3>1 DEF AtOther, AtTrade
    <3> QED  BY <2>1, <3>2
  <2>4. InPlace(me)'
    BY <1>0, <2>1, <2>3 DEF InPlace, AtTrade, Rounds, Busy, Apart
  <2> QED  BY <1>0, <2>1, <2>2, <2>4, CoverKept DEF CoverInv
<1>17. ASSUME NEW t \in Threads, NextSymbol(t) PROVE CoverInv(me)'
  <2>1. PICK k \in todo[me] : key'[me] = k /\ todo'[me] = todo[me] \ {k}
    BY <1>0, <1>17 DEF NextSymbol
  <2>2. /\ t = me /\ pc[me] \in Rounds /\ pc'[me] = "read" /\ ret'[me] = pc[me]
        /\ UNCHANGED <<base, stops, resting, pos, rejected, arg, calm>>
    BY <1>0, <1>17 DEF NextSymbol, exchange, gateway, observed
  <2>3. Due(me)' = Due(me)
    BY <2>2 DEF Due, Rounds
  <2>4. InPlace(me)'
    BY <1>0, <2>1, <2>2 DEF InPlace, AtTrade, Rounds, Busy, Apart
  <2> QED  BY <1>0, <2>2, <2>3, <2>4, CoverKept DEF CoverInv
<1>18. ASSUME NEW t \in Threads, FindStale(t) PROVE CoverInv(me)'
  <2>1. /\ t = me /\ pc[me] = "held" /\ pc'[me] = "stale" /\ todo[me] = {}
        /\ UNCHANGED <<base, stops, resting, pos, rejected, arg, key, ret, calm>>
    BY <1>0, <1>18 DEF FindStale, exchange, gateway, observed
  <2>2. Due(me)' = Due(me)
    BY <2>1 DEF Due
  <2>3. InPlace(me)'
    BY <1>0, <2>1 DEF InPlace, AtTrade, Rounds, Busy, Apart
  <2> QED  BY <1>0, <2>1, <2>2, <2>3, CoverKept DEF CoverInv
<1>19. ASSUME NEW t \in Threads, EndReconcile(t) PROVE CoverInv(me)'
  <2>1. /\ t = me /\ pc[me] = "stale" /\ pc'[me] = "idle" /\ todo[me] = {}
        /\ UNCHANGED <<base, stops, resting, pos, rejected, arg, key, ret, todo>>
    BY <1>0, <1>19 DEF EndReconcile, exchange, gateway
  <2>2. Due(me)' = Due(me)
    BY <2>1 DEF Due
  <2>3. InPlace(me)'
    BY <1>0, <2>1 DEF InPlace, AtTrade, Rounds, Busy, Apart
  <2> QED  BY <1>0, <2>1, <2>2, <2>3, CoverKept DEF CoverInv
<1>20. ASSUME NEW t \in Threads, Restart(t) PROVE CoverInv(me)'
  <2>1. PICK seed \in Seeds : Boot(t, seed)
    BY <1>20 DEF Restart
  <2>2. seed = Free
    <3>1. seed = IF Free >= 1 THEN Free ELSE 0
      BY <1>1, <2>1 DEF Seeds, Held, May
    <3> QED  BY <1>0, <3>1
  <2>3. /\ t = me /\ pc'[me] = "held" /\ calm' = "running" /\ Free' = Free
        /\ \A k \in Keys : pos'[k] = IF k = SeedKey THEN Free ELSE 0
        /\ \A k \in Keys : resting'[k] = NoStop /\ ~rejected'[k]
        /\ todo'[me] = IF Free > 0 THEN {SeedKey} ELSE {}
    BY <1>0, <2>1, <2>2 DEF Boot, exchange, Free, Locked
  <2>a. SeedKey \in {"trade", "other"} /\ pos'["other"] + pos'["trade"] = Free
    BY <1>0, <2>3 DEF SeedKey
  <2>4. Due(me)' = 0
    BY <2>3 DEF Due
  <2>5. Recorded'
    BY <1>0, <2>3 DEF Recorded, NoStop
  <2>6. Balanced(me)'
    <3>1. AtOther' = 0 /\ AtTrade' = 0 /\ pos'["other"] \in Nat /\ pos'["trade"] \in Nat
      BY <1>0, <2>3, <2>a DEF AtOther, AtTrade, NoStop
    <3> QED  BY <1>0, <2>3, <2>4, <2>a, <3>1 DEF Balanced
  <2>7. InPlace(me)'
    BY <1>0, <2>3, <2>a DEF InPlace, AtTrade, Rounds, Busy, Apart, NoStop
  <2> QED  BY <2>5, <2>6, <2>7 DEF CoverInv
<1>21. ASSUME NEW i \in Ids, NEW how \in setting.faults, StopVanishes(i, how)
       PROVE  CoverInv(me)'
  BY <1>1, <1>21 DEF StopVanishes, May
<1>22. CASE UNCHANGED vars
  <2>1. Due(me)' = Due(me) /\ InPlace(me)'
    BY <1>0, <1>22 DEF vars, Due, InPlace, AtTrade
  <2> QED  BY <1>0, <1>22, <2>1, CoverKept DEF CoverInv, vars
<1> QED  BY <1>2, <1>3, <1>4, <1>5, <1>6, <1>7, <1>8, <1>9, <1>10, <1>11, <1>12, <1>13, <1>14,
            <1>15, <1>16, <1>17, <1>18, <1>19, <1>20, <1>21, <1>22 DEF Next, ThreadStep

(* Where only the process fails, and it may die between any two steps: a   *)
(* quiet reconcile, the one of the boot among them, leaves every held lot  *)
(* under a stop, whichever spelling the ledger has it under.               *)
THEOREM CoveredAgain == Alone => (Spec => []CoveredAfterReconcile)
<1> SUFFICES ASSUME NEW me, Threads = {me}  PROVE Spec => []CoveredAfterReconcile
  BY DEF Alone
<1> DEFINE Inv == TypeInv /\ (OnlyDies => CoverInv(me))
<1>1. Init => Inv
  <2>1. ASSUME Init PROVE CoverInv(me)
    <3>1. Free = 0
      BY <2>1, LockedNone DEF Init, Free, Locked
    <3> QED  BY <2>1, <3>1
             DEF Init, CoverInv, Recorded, Balanced, InPlace, AtOther, AtTrade, Due, NoStop, Keys,
                 Rounds, Busy, Apart
  <2> QED  BY <2>1, TypeInit
<1>2. Inv /\ [Next]_vars => Inv'
  <2> SUFFICES ASSUME Inv, [Next]_vars PROVE Inv'
    OBVIOUS
  <2>1. TypeInv'
    BY TypeNext
  <2>2. OnlyDies' <=> OnlyDies
    BY SettingKept DEF OnlyDies
  <2> QED  BY <2>1, <2>2, CoverNext
<1>3. ASSUME Inv  PROVE CoveredAfterReconcile
  <2> SUFFICES ASSUME OnlyDies, calm = "done"  PROVE ~Uncovered
    BY DEF CoveredAfterReconcile, OnlyDies
  <2>1. /\ Free \in Nat /\ AtOther \in Nat /\ AtTrade \in Nat /\ setting.dust = 1
        /\ pos["other"] \in Nat /\ pos["trade"] \in Nat
    BY <1>3, CoverTypes DEF OnlyDies
  <2>2. pc[me] = "idle" /\ Balanced(me) /\ Due(me) = 0 /\ AtTrade = pos["trade"]
    BY <1>3 DEF CoverInv, InPlace, Due
  <2>3. AtOther = pos["other"]
    BY <1>3, <2>2 DEF CoverInv, InPlace, AtOther, Rounds, Busy, Keys
  <2>4. Free = 0
    BY <2>1, <2>2, <2>3 DEF Balanced
  <2> QED  BY <2>1, <2>4 DEF Uncovered, Free
<1> QED  BY <1>1, <1>2, <1>3, PTL DEF Spec
=============================================================================
